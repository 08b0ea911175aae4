------------------------------- MODULE MCNode -------------------------------
(***************************************************************************)
(* The protocols of a base node for TLC: chain sync, block propagation, the *)
(* mempool and mempool sync.  A behaviour runs one component in one         *)
(* scenario, and the other components stay in their initial state, so that  *)
(* the state graph is the union of the scenarios' graphs.  Scenarios names  *)
(* the ones a model checks.  BlockPropagation is extended, and gets its     *)
(* constants from the model; the others are instantiated once for each      *)
(* scenario.                                                                *)
(***************************************************************************)
EXTENDS BlockPropagation, TLC

CONSTANTS
    Scenarios,
    genesis, a1, a2, b1, b2, b3, b4, c2, outside,                     \* blocks
    alice, bob, carol,                                                    \* nodes
    ta, tb, tc, ka, kb, kc, ia, ib, ic,                            \* transactions, kernels, inputs
    k1, k2, x, y

VARIABLES scenario

VARIABLES lastHeader, best, prunedHeight, orphans, badBlocks, addBlockDisabled, requests, offered, state,
          isSynced, betterBlock, peerTip, claim, bannedPeers, syncFailures, step, syncPeers, claimed,
          localMeta, localTip, split, stepsBack, pending, validated, full, switched, received, cursor, end,
          prevBlock, endBlock, return, peak, raced
VARIABLES chain, unconfirmed, reorg_pool, events, template, rewound, reorgs, syncs, failures, accepted, reorged
VARIABLES txPool, mined, num, queue, session, started, fresh, breaks

syncVars ==
    <<lastHeader, best, prunedHeight, orphans, badBlocks, addBlockDisabled, requests, offered, state,
      isSynced, betterBlock, peerTip, claim, bannedPeers, syncFailures, step, syncPeers, claimed,
      localMeta, localTip, split, stepsBack, pending, validated, full, switched, received, cursor, end,
      prevBlock, endBlock, return, peak, raced>>
mempoolVars ==
    <<chain, unconfirmed, reorg_pool, events, template, rewound, reorgs, syncs, failures, accepted, reorged>>
mempoolSyncVars == <<txPool, mined, num, queue, session, started, fresh, breaks>>
nodeVars == <<scenario, vars, syncVars, mempoolVars, mempoolSyncVars>>

-----------------------------------------------------------------------------
(* Chain sync.  Race: a1 competes with the branch of b1, and the body of b4  *)
(* is invalid.  Reorg: c2 and b2 fork at b1, and a1 outweighs both.          *)
RaceBlocks == {genesis, a1, b1, b2, b3, b4}
RaceParent == genesis :> outside @@ a1 :> genesis @@ b1 :> genesis @@ b2 :> b1 @@ b3 :> b2 @@ b4 :> b3
RaceHeight == genesis :> 0 @@ a1 :> 1 @@ b1 :> 1 @@ b2 :> 2 @@ b3 :> 3 @@ b4 :> 4
RaceStrength == genesis :> 1 @@ a1 :> 3 @@ b1 :> 2 @@ b2 :> 3 @@ b3 :> 5 @@ b4 :> 6

RaceTips == alice :> a1 @@ bob :> b4
PrunedTips == alice :> a1 @@ bob :> b3
Archival == alice :> 0 @@ bob :> 0

Race == INSTANCE BaseNodeSync WITH
    Block <- RaceBlocks, Genesis <- genesis, Parent <- RaceParent, Height <- RaceHeight, Strength <- RaceStrength,
    InternalValid <- RaceBlocks, HeaderValid <- RaceBlocks, BodyValid <- RaceBlocks \ {b4},
    Peer <- {alice, bob}, FirstTip <- RaceTips, StartTip <- a1, Difficulty <- RaceStrength,
    ForcedSyncPeers <- {}, PeerPrunedHeight <- Archival, PruningHorizon <- 0, BlocksBehind <- 0,
    InitialHeaders <- 1, CommitEvery <- 2, MaxSplitSearch <- 5,
    Propagated <- {b1, b2, b3}, PeerBlocks <- {}, MaxRequests <- 1, MaxFailures <- 1,
    banned <- bannedPeers, failures <- syncFailures

Pruned == INSTANCE BaseNodeSync WITH
    Block <- RaceBlocks, Genesis <- genesis, Parent <- RaceParent, Height <- RaceHeight, Strength <- RaceStrength,
    InternalValid <- RaceBlocks, HeaderValid <- RaceBlocks, BodyValid <- RaceBlocks,
    Peer <- {alice, bob}, FirstTip <- PrunedTips, StartTip <- genesis, Difficulty <- RaceStrength,
    ForcedSyncPeers <- {bob}, PeerPrunedHeight <- Archival, PruningHorizon <- 1, BlocksBehind <- 1,
    InitialHeaders <- 2, CommitEvery <- 2, MaxSplitSearch <- 5,
    Propagated <- {}, PeerBlocks <- {b4}, MaxRequests <- 1, MaxFailures <- 1,
    banned <- bannedPeers, failures <- syncFailures

ReorgBlocks == RaceBlocks \cup {c2}
ReorgParent == RaceParent @@ c2 :> b1
ReorgHeight == RaceHeight @@ c2 :> 2
ReorgStrength == genesis :> 1 @@ a1 :> 7 @@ b1 :> 2 @@ c2 :> 4 @@ b2 :> 3 @@ b3 :> 5 @@ b4 :> 6

ReorgTips == bob :> b3
PrunedAtTwo == bob :> 2

Reorg == INSTANCE BaseNodeSync WITH
    Block <- ReorgBlocks, Genesis <- genesis, Parent <- ReorgParent, Height <- ReorgHeight, Strength <- ReorgStrength,
    InternalValid <- ReorgBlocks, HeaderValid <- ReorgBlocks, BodyValid <- ReorgBlocks,
    Peer <- {bob}, FirstTip <- ReorgTips, StartTip <- c2, Difficulty <- ReorgStrength,
    ForcedSyncPeers <- {}, PeerPrunedHeight <- PrunedAtTwo, PruningHorizon <- 0, BlocksBehind <- 0,
    InitialHeaders <- 2, CommitEvery <- 2, MaxSplitSearch <- 5,
    Propagated <- {a1}, PeerBlocks <- {a1, b4}, MaxRequests <- 1, MaxFailures <- 1,
    banned <- bannedPeers, failures <- syncFailures

ASSUME SyncInstances == Race!SyncAssumption /\ Pruned!SyncAssumption /\ Reorg!SyncAssumption

-----------------------------------------------------------------------------
(* Block propagation.  Fork: a1 competes with b1-b2 between two nodes, bob's  *)
(* mempool holds another transaction with a kernel of a1 and b2, and b2        *)
(* spends what b1 creates.  Spreads: a1-a2, and peers answer.  Web: a1 and b1  *)
(* among three nodes, each of which hears of a block twice.                   *)
ForkParent == a1 :> genesis @@ b1 :> genesis @@ b2 :> b1
ForkKernels == a1 :> {k1} @@ b1 :> {} @@ b2 :> {k1, k2}
ForkSpends == a1 :> {} @@ b1 :> {} @@ b2 :> {b1}
ForkMiner == a1 :> alice @@ b1 :> bob @@ b2 :> bob
LineParent == a1 :> genesis @@ a2 :> a1
LineKernels == a1 :> {} @@ a2 :> {k1}
LineSpends == a1 :> {} @@ a2 :> {}
LineMiner == a1 :> alice @@ a2 :> alice
WebParent == a1 :> genesis @@ b1 :> genesis
WebKernels == a1 :> {k1} @@ b1 :> {}
WebSpends == a1 :> {} @@ b1 :> {}
WebMiner == a1 :> alice @@ b1 :> bob
Pair == {<<alice, bob>>, <<bob, alice>>}
Mesh == Pair \cup {<<bob, carol>>, <<carol, bob>>, <<alice, carol>>, <<carol, alice>>}
OneCollision == {<<bob, k1>>}
NoCollision == {}

Web == INSTANCE BlockPropagation WITH
    Nodes <- {alice, bob, carol}, Links <- Mesh, Blocks <- {a1, b1}, Genesis <- genesis, Parent <- WebParent,
    Sigs <- {k1}, Kernels <- WebKernels, Spends <- WebSpends, Miner <- WebMiner,
    Collisions <- OneCollision, AnswersLost <- TRUE

ASSUME PropagationInstances == BlocksAssumption /\ Web!BlocksAssumption

-----------------------------------------------------------------------------
(* The mempool.  tb spends what ta spends, and tc what ta creates.  Events:   *)
(* block events in any order, a block sync, a full pool.  Templates: no       *)
(* sync, but blocks that fail.  Recovery: events in order, nothing expires.   *)
TxKernels == ta :> {ka} @@ tb :> {kb} @@ tc :> {kc}
TxInputs == ta :> {ia} @@ tb :> {ib} @@ tc :> {ic}
InputSpends == ia :> 1 @@ ib :> 1 @@ ic :> 3
TxOutputs == ta :> {3} @@ tb :> {4} @@ tc :> {5}
TxPriority == ta :> 2 @@ tb :> 3 @@ tc :> 4
TxWeight == ta :> 1 @@ tb :> 1 @@ tc :> 1

Events == INSTANCE Mempool WITH
    Tx <- {ta, tb, tc}, Kernels <- TxKernels, Inputs <- TxInputs, Spends <- InputSpends, Outputs <- TxOutputs,
    Priority <- TxPriority, Weight <- TxWeight, GenesisOutputs <- {1, 2}, BlockTxs <- {{}, {ta}, {tb}},
    StorageCapacity <- 2, WeightTxSkipCount <- 2, ExpiryHeight <- 2, MaxBlockWeight <- 2,
    EventsInOrder <- FALSE, MaxHeight <- 2, MaxEvents <- 1, MaxReorgs <- 1, MaxSyncs <- 1, MaxFailures <- 0

Templates == INSTANCE Mempool WITH
    Tx <- {ta, tb, tc}, Kernels <- TxKernels, Inputs <- TxInputs, Spends <- InputSpends, Outputs <- TxOutputs,
    Priority <- TxPriority, Weight <- TxWeight, GenesisOutputs <- {1, 2}, BlockTxs <- {{}, {ta}, {tb}},
    StorageCapacity <- 3, WeightTxSkipCount <- 2, ExpiryHeight <- 2, MaxBlockWeight <- 2,
    EventsInOrder <- FALSE, MaxHeight <- 3, MaxEvents <- 2, MaxReorgs <- 1, MaxSyncs <- 0, MaxFailures <- 1

Recovery == INSTANCE Mempool WITH
    Tx <- {ta, tb}, Kernels <- TxKernels, Inputs <- TxInputs, Spends <- InputSpends, Outputs <- TxOutputs,
    Priority <- TxPriority, Weight <- TxWeight, GenesisOutputs <- {1, 2}, BlockTxs <- {{}, {ta}, {tb}},
    StorageCapacity <- 4, WeightTxSkipCount <- 2, ExpiryHeight <- 5, MaxBlockWeight <- 2,
    EventsInOrder <- TRUE, MaxHeight <- 3, MaxEvents <- 2, MaxReorgs <- 1, MaxSyncs <- 0, MaxFailures <- 0

-----------------------------------------------------------------------------
(* Mempool sync.  Peers: alice syncs with two peers, a stream is cut at one   *)
(* transaction, and carol refuses x.  Both: two nodes that sync with each     *)
(* other.                                                                     *)
HeldByThree == alice :> {x} @@ bob :> {x, y} @@ carol :> {y}
HeldByEach == alice :> {x} @@ bob :> {y}
OneRefused == alice :> {} @@ bob :> {} @@ carol :> {x}
NoneRefused == alice :> {} @@ bob :> {}

Peers == INSTANCE MempoolSync WITH
    Nodes <- {alice, bob, carol}, Initiators <- {alice}, Txs <- {x, y}, Held <- HeldByThree, Refused <- OneRefused,
    NumPeers <- 1, MaxTxs <- 1, MaxQueued <- 1, MaxEvents <- 1, MaxBreaks <- 1,
    pool <- txPool, events <- started

Both == INSTANCE MempoolSync WITH
    Nodes <- {alice, bob}, Initiators <- {alice, bob}, Txs <- {x, y}, Held <- HeldByEach, Refused <- NoneRefused,
    NumPeers <- 1, MaxTxs <- 2, MaxQueued <- 1, MaxEvents <- 0, MaxBreaks <- 0,
    pool <- txPool, events <- started

-----------------------------------------------------------------------------
NodeInit ==
    /\ scenario \in Scenarios
    /\ IF scenario = "reorg" THEN Reorg!Init ELSE IF scenario = "pruned" THEN Pruned!Init ELSE Race!Init
    /\ IF scenario = "web" THEN Web!Init ELSE Init
    /\ Events!Init
    /\ IF scenario = "both" THEN Both!Init ELSE Peers!Init

OnlySync == UNCHANGED <<scenario, vars, mempoolVars, mempoolSyncVars>>
OnlyPropagation == UNCHANGED <<scenario, syncVars, mempoolVars, mempoolSyncVars>>
OnlyMempool == UNCHANGED <<scenario, vars, syncVars, mempoolSyncVars>>
OnlyMempoolSync == UNCHANGED <<scenario, vars, syncVars, mempoolVars>>

NodeNext ==
    \/ scenario = "race" /\ Race!Next /\ OnlySync
    \/ scenario = "reorg" /\ Reorg!FaultyNext /\ OnlySync
    \/ scenario = "pruned" /\ Pruned!Next /\ OnlySync
    \/ scenario = "propagation" /\ Next /\ OnlyPropagation
    \/ scenario = "web" /\ Web!Next /\ OnlyPropagation
    \/ scenario = "events" /\ Events!Next /\ OnlyMempool
    \/ scenario = "templates" /\ Templates!Next /\ OnlyMempool
    \/ scenario = "recovery" /\ Recovery!Next /\ OnlyMempool
    \/ scenario = "peers" /\ Peers!Next /\ OnlyMempoolSync
    \/ scenario = "both" /\ Both!Next /\ OnlyMempoolSync

NodeSpec == NodeInit /\ [][NodeNext]_nodeVars

(* The fairness of each component, in the scenarios that check liveness.      *)
(* That of BlockPropagation asks nothing of the others, where none of its     *)
(* steps is enabled.  A strongly fair step of two components is one           *)
(* condition, since only one of them runs.                                    *)
SyncFairness ==
    /\ WF_syncVars(scenario = "pruned" /\ Pruned!MachineStep)
    /\ WF_syncVars(scenario = "pruned" /\ Pruned!WaitPeriodElapses)
    /\ \A n \in {alice, bob} :
        /\ WF_syncVars(scenario = "pruned" /\ Pruned!PeerPings(n))
        /\ WF_syncVars(scenario = "pruned" /\ Pruned!BanExpires(n))

MempoolSyncStep(s) ==
    Both!Respond(s) \/ Both!InitiatorReceives(s) \/ Both!ResponderReceives(s) \/ Both!SendMissing(s)

NodeFairness ==
    /\ SyncFairness /\ Fairness
    /\ \A s \in {<<alice, bob>>, <<bob, alice>>} :
        /\ WF_mempoolSyncVars(scenario = "both" /\ MempoolSyncStep(s))
        /\ SF_nodeVars(\/ scenario = "both" /\ (Both!SkipSession(s) \/ Both!SendInventory(s)) /\ OnlyMempoolSync
                       \/ scenario = "pruned" /\ Pruned!Hears(s[1]) /\ OnlySync)

NodeFairSpec == NodeSpec /\ NodeFairness

-----------------------------------------------------------------------------
(* The best block is always on the stored header chain, whatever add_block    *)
(* calls that passed the flag in time do between two steps of a sync; and     *)
(* blocks are refused exactly while a sync runs.                              *)
BestOnHeaderChain ==
    /\ scenario = "race" => Race!BestOnHeaderChain /\ Race!AddBlockDisabledWhileSyncing
    /\ scenario = "reorg" => Reorg!BestOnHeaderChain /\ Reorg!AddBlockDisabledWhileSyncing

(* When no sync runs, a node whose best block is weaker than one it had holds *)
(* headers of a chain that is at least as strong (rewind in header sync).     *)
WeakerOnlyBelowStrongerHeaders == scenario = "race" => Race!WeakerOnlyBelowStrongerHeaders

(* However late the block events are, a template never spends an output twice *)
(* and never exceeds the block weight; and the template a miner gets once      *)
(* every event has been handled is a body the chain accepts                   *)
(* (fetch_highest_priority_txs).                                              *)
TemplateCanBeIncluded ==
    /\ scenario = "events" => Events!TemplateConflictFree
    /\ scenario = "templates" => Templates!TemplateCanBeIncluded

(* A transaction the pool accepted and that could be mined now is in one of   *)
(* the two pools, once the block events are handled.                          *)
MinableIsKept == scenario = "recovery" => Recovery!MinableIsKept

(* When the initiator has read the stream it lacks, of what the responder     *)
(* held, only what was over the limit, refused or mined meanwhile; and what   *)
(* it sends is what the responder asked for, by positions in a list that its  *)
(* pool has left behind.                                                      *)
InitiatorCaughtUp ==
    /\ scenario = "peers" => Peers!InitiatorCaughtUp /\ Peers!SentAsRequested
    /\ scenario = "both" => Both!InitiatorCaughtUp /\ Both!SentAsRequested

-----------------------------------------------------------------------------
During(s, P) == scenario = s /\ P

(* A node that hears from its peers ends on a chain that is no weaker than    *)
(* theirs, or one block behind, and stays there (listening, header and block  *)
(* sync), network failures and bans notwithstanding.                          *)
CatchesUpOrOneBehind == <>[](scenario = "pruned" => Pruned!CaughtUpOrOneBehind)

(* A task that waits for the permit of mempool sync gets it: every session    *)
(* before it ends, whatever its peer is doing with its own.                   *)
QueueServed ==
    During("both", queue[<<alice, bob>>] > 0) ~> During("both", queue[<<alice, bob>>] = 0 \/ Both!IsSynched(alice))
=============================================================================
