SPECIFICATION Spec
CONSTANTS
  Algorithms = {"blocks", "singles", "multisig", "encoding", "mmr", "mutable", "cache", "balanced"}
INVARIANTS
  AgreesWithBlocks
  
  ScriptRoundTrip
  RootsAgree
  ProofsVerify
  
CHECK_DEADLOCK FALSE
