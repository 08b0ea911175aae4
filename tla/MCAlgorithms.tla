---------------------------- MODULE MCAlgorithms ----------------------------
(***************************************************************************)
(* The sequential algorithms for TLC: the script interpreter, its multi-     *)
(* signature check and its encoding, and the Merkle trees.  A behaviour runs *)
(* one of them, and the variables of the others stay as they are, so that    *)
(* the state graph is the union of the algorithms' graphs.  Algorithms names *)
(* the ones a model checks.                                                  *)
(***************************************************************************)
EXTENDS Integers, Sequences

CONSTANTS Algorithms

VARIABLES algorithm

VARIABLES script, stack, ifs, executing, status, input, done
VARIABLES public_keys, m, n, signatures, pos, key_signed, sig_set, agg_pub_key, result
VARIABLES mode, written, bytes
VARIABLES full, pruned, leaves
VARIABLES tree, copy, pushed
VARIABLES checkpoints, baseCp, currCp, base, curr, synced
VARIABLES count, selected

scriptVars == <<script, stack, ifs, executing, status, input, done>>
multisigVars == <<public_keys, m, n, signatures, pos, key_signed, sig_set, agg_pub_key, result>>
bytesVars == <<mode, written, bytes>>
mmrVars == <<full, pruned, leaves>>
mutableVars == <<tree, copy, pushed>>
cacheVars == <<checkpoints, baseCp, currCp, base, curr, synced>>
balancedVars == <<count, selected>>
vars == <<algorithm, scriptVars, multisigVars, bytesVars, mmrVars, mutableVars, cacheVars, balancedVars>>

-----------------------------------------------------------------------------
(* The interpreter.  Blocks: scripts of up to seven control opcodes.        *)
(* Singles: two of the other opcodes, on stacks of items of all types.        *)
Op(op, x) == [op |-> op, n |-> x]
Item(type, value) == [type |-> type, value |-> value]
Number(x) == Item("Number", <<x>>)

ControlOps == {Op("IfThen", 0), Op("Else", 0), Op("EndIf", 0), Op("PushInt", 1), Op("Drop", 0)}
Bits == {<<>>, <<Number(0)>>, <<Number(1)>>, <<Number(0), Number(1)>>, <<Number(1), Number(1)>>}

PlainOps ==
    {Op(o, 0) : o \in {"Nop", "Drop", "Dup", "RevRot", "GeZero", "GtZero", "LeZero", "LtZero", "Add", "Sub", "Equal",
                       "EqualVerify", "Hash", "ToRistrettoPoint", "CompareHeightVerify", "Return"}}
    \cup {Op("PushInt", 2), Op("PushHash", 0), Op("PushPubKey", 2), Op("CheckHeight", 2), Op("CheckHeight", 5),
          Op("CheckHeightVerify", 1), Op("CheckHeightVerify", 5)}
    \cup {Op(o, x) : o \in {"Or", "OrVerify"}, x \in {0, 2, 3}}
    \cup {Op(o, x) : o \in {"CheckSig", "CheckSigVerify"}, x \in {1, 2}}

Sig == Item("Signature", <<1, 3>>)  \* of message 1, by key 2
Items == {Number(1), Number(-4), Item("Hash", <<1>>), Item("Scalar", <<2>>), Item("Commitment", <<2>>),
          Item("PublicKey", <<2>>), Sig}
Typed == {<<>>} \cup {<<a>> : a \in Items} \cup {<<a, b>> : a, b \in Items}
         \cup {<<a, a, a>> : a \in Items} \cup {<<Sig, a, b>> : a \in {Number(1), Item("PublicKey", <<2>>)}, b \in Items}

Blocks == INSTANCE TariScript WITH
    Ops <- ControlOps, Inputs <- Bits, MaxLen <- 7, MaxStackSize <- 3, MaxInt <- 3, MaxU8 <- 3, Order <- 5,
    BlockHeight <- 2
Singles == INSTANCE TariScript WITH
    Ops <- PlainOps, Inputs <- Typed, MaxLen <- 2, MaxStackSize <- 3, MaxInt <- 3, MaxU8 <- 3, Order <- 5,
    BlockHeight <- 2

Multisig == INSTANCE MultiSig WITH
    Keys <- {"a", "b", "c"}, Nonces <- {1, 2}, NoKey <- "none", Limit <- 3

(* Encoding: every opcode with small arguments, every type of stack item, and *)
(* bytes that are codes of opcodes of every kind.                             *)
Datas == {<<1, 2>>, <<0, \h73>>}
Format == INSTANCE ScriptBytes WITH
    Opcodes <- {}, StackItems <- {}, RawBytes <- {}, MaxOps <- 0, MaxRaw <- 0, DataLength <- 2, MaxStackSize <- 2

AllOpcodes ==
    {Format!Opcode(op, 0, 0, <<>>, <<>>) : op \in Format!Plain}
    \cup {Format!Opcode(op, 0, x, <<>>, <<>>) : op \in Format!WithHeight, x \in {0, 3, 4, 15, 17}}
    \cup {Format!Opcode("PushInt", 0, x, <<>>, <<>>) : x \in {-8, -1, 0, 7}}
    \cup {Format!Opcode(op, 0, x, <<>>, <<>>) : op \in Format!WithByte, x \in {0, \h65}}
    \cup {Format!Opcode(op, 0, 0, <<>>, d) : op \in Format!WithData, d \in Datas}
    \cup {Format!Opcode(op, 1, Len(ks), ks, <<1, 2>>) :
            op \in Format!WithKeys, ks \in {<<>>, <<<<1, 2>>>>, <<<<1, 2>>, <<0, 1>>>>}}
AllItems ==
    {[type |-> t, data |-> d] : t \in Format!ItemTypes \ {"Sig"}, d \in Datas}
    \cup {[type |-> "Sig", data |-> d \o e] : d \in Datas, e \in Datas}

Encoding == INSTANCE ScriptBytes WITH
    Opcodes <- AllOpcodes, StackItems <- AllItems,
    RawBytes <- {0, 1, 2, 3, 5, \h64, \h66, \h73, \h7a, \h7e, \hae},
    MaxOps <- 2, MaxRaw <- 4, DataLength <- 2, MaxStackSize <- 2

-----------------------------------------------------------------------------
(* The Merkle trees.                                                          *)
Mmr == INSTANCE MerkleMountainRange WITH Values <- {"a", "b"}, MaxLeaves <- 7
Mutable == INSTANCE MutableMmr WITH Values <- {"a", "b"}, MaxSize <- 4, leaves <- pushed
Cache == INSTANCE MmrCache WITH
    Values <- {"a", "b"}, RewindHistLen <- 2, MaxCheckpoints <- 5, MaxLeaves <- 5, EveryChange <- TRUE
Balanced == INSTANCE BalancedMerkleTree WITH MaxLeaves <- 7, MaxSelected <- 3

ASSUME TreeInstances ==
    Mmr!MaxLeavesAssumption /\ Mutable!MaxSizeAssumption /\ Cache!CacheAssumption /\ Balanced!TreeAssumption

-----------------------------------------------------------------------------
IdleScript ==
    script = <<>> /\ stack = <<>> /\ ifs = <<>> /\ executing = TRUE /\ status = "idle" /\ input = <<>> /\ done = FALSE
IdleMultisig ==
    /\ public_keys = <<>> /\ m = 0 /\ n = 0 /\ signatures = <<>> /\ pos = 0
    /\ key_signed = <<>> /\ sig_set = {} /\ agg_pub_key = <<>> /\ result = "idle"
IdleBytes == mode = "idle" /\ written = <<>> /\ bytes = <<>>

Init ==
    /\ algorithm \in Algorithms
    /\ CASE algorithm = "blocks" -> Blocks!Init
         [] algorithm = "singles" -> Singles!Init
         [] OTHER -> IdleScript
    /\ IF algorithm = "multisig" THEN Multisig!Init ELSE IdleMultisig
    /\ IF algorithm = "encoding" THEN Encoding!Init ELSE IdleBytes
    /\ Mmr!Init /\ Mutable!Init /\ Cache!Init
    /\ IF algorithm = "balanced" THEN Balanced!Init ELSE count = 0 /\ selected = <<>>

OnlyScript == UNCHANGED <<algorithm, multisigVars, bytesVars, mmrVars, mutableVars, cacheVars, balancedVars>>
OnlyMultisig == UNCHANGED <<algorithm, scriptVars, bytesVars, mmrVars, mutableVars, cacheVars, balancedVars>>
OnlyBytes == UNCHANGED <<algorithm, scriptVars, multisigVars, mmrVars, mutableVars, cacheVars, balancedVars>>
OnlyMmr == UNCHANGED <<algorithm, scriptVars, multisigVars, bytesVars, mutableVars, cacheVars, balancedVars>>
OnlyMutable == UNCHANGED <<algorithm, scriptVars, multisigVars, bytesVars, mmrVars, cacheVars, balancedVars>>
OnlyCache == UNCHANGED <<algorithm, scriptVars, multisigVars, bytesVars, mmrVars, mutableVars, balancedVars>>
OnlyBalanced == UNCHANGED <<algorithm, scriptVars, multisigVars, bytesVars, mmrVars, mutableVars, cacheVars>>

Next ==
    \/ algorithm = "blocks" /\ Blocks!Next /\ OnlyScript
    \/ algorithm = "singles" /\ Singles!Next /\ OnlyScript
    \/ algorithm = "multisig" /\ Multisig!Next /\ OnlyMultisig
    \/ algorithm = "encoding" /\ Encoding!Next /\ OnlyBytes
    \/ algorithm = "mmr" /\ Mmr!Next /\ OnlyMmr
    \/ algorithm = "mutable" /\ Mutable!Next /\ OnlyMutable
    \/ algorithm = "cache" /\ Cache!Next /\ OnlyCache
    \/ algorithm = "balanced" /\ Balanced!Next /\ OnlyBalanced

Spec == Init /\ [][Next]_vars

-----------------------------------------------------------------------------
(* The flags of if_stack execute exactly the nested blocks of a script        *)
(* (handle_if_then, handle_else, handle_end_if), and a *Verify opcode goes on *)
(* with exactly the stacks for which the plain opcode pushes a one.           *)
AgreesWithBlocks ==
    /\ algorithm = "blocks" => Blocks!AgreesWithBlocks
    /\ algorithm = "singles" => Singles!VerifyAgrees

(* The check succeeds if and only if the m signatures are distinct and can be *)
(* assigned m places of the key list, and the aggregate is then the sum of    *)
(* the keys that signed, each as often as it signed (check_multisig).         *)
MultisigDecides == algorithm = "multisig" => Multisig!MultisigDecides /\ Multisig!AggregateIsSigners

(* What to_bytes writes for a script or a stack, parse and from_bytes read    *)
(* back; a script that is cut within an opcode is refused; and whatever the   *)
(* bytes, no slice is taken past their end (Opcode::read_next).               *)
ScriptRoundTrip ==
    algorithm = "encoding" =>
        /\ Encoding!ScriptRoundTrip /\ Encoding!StackRoundTrip
        /\ Encoding!CutIsSeen /\ Encoding!ParseReturns

(* The root is the digest of the mountains' tops, and a tree that was rebuilt *)
(* from less has the root of the whole one: a pruned range that received the  *)
(* same leaves (PrunedHashSet), a pruned copy that received the same changes  *)
(* (calculate_pruned_mmr_root), a range read back in pages (to_leaf_nodes).   *)
(* Every leaf is found at its index, and len counts the leaves not deleted.   *)
RootsAgree ==
    /\ algorithm = "mmr" => Mmr!StoresMountains /\ Mmr!PrunedAgrees /\ Mmr!LeavesFound
    /\ algorithm = "mutable" => Mutable!CopyAgrees /\ Mutable!PagesRestore /\ Mutable!LiveLeavesCounted

(* The checks of a tree accept what is stored and nothing else: the proof of  *)
(* a leaf (verify_leaf, verify), proofs merged in any order                   *)
(* (create_from_proofs) and the nodes of a range (validate).                  *)
ProofsVerify ==
    /\ algorithm = "mmr" => Mmr!ProofsVerify /\ Mmr!ValidateDetects
    /\ algorithm = "balanced" => Balanced!ProofsVerify /\ Balanced!MergedVerifies

(* Once told of a change, the cache's current MMR is the checkpoints applied  *)
(* in order (update, reset), and every leaf, older than the cache's base or   *)
(* newer, is fetched with its hash and its deletion mark (fetch_mmr_node).    *)
CacheCurrent == algorithm = "cache" => Cache!CacheCurrent /\ Cache!LeavesFetched
=============================================================================
