SPECIFICATION NodeFairSpec
CONSTANTS
  Scenarios = {"pruned", "propagation", "both"}
  genesis = genesis a1 = a1 a2 = a2 b1 = b1 b2 = b2 b3 = b3 b4 = b4 c2 = c2 outside = outside
  alice = alice bob = bob carol = carol NoBlock = NoBlock NoNode = NoNode
  ta = ta tb = tb tc = tc ka = ka kb = kb kc = kc ia = ia ib = ib ic = ic
  k1 = k1 k2 = k2 x = x y = y
  Nodes = {alice, bob} Links <- Pair Genesis = genesis
  Blocks = {a1, a2} Parent <- LineParent Sigs = {k1} Kernels <- LineKernels Spends <- LineSpends
  Miner <- LineMiner Collisions <- NoCollision AnswersLost = FALSE
PROPERTIES
  CatchesUpOrOneBehind
  
  QueueServed
CHECK_DEADLOCK FALSE
