----------------------- MODULE ChainSelectionProofs -----------------------
(***************************************************************************)
(* An archival node that adds blocks and may stop at any point implements   *)
(* ChainSelection, for every block tree: the best block readers see is       *)
(* always the end of a validated chain, and it moves only along the old      *)
(* chain or a stronger one.  The tables of the orphan pool agree throughout. *)
(***************************************************************************)
EXTENDS ArchivalProofs

(* The blocks from b to the genesis block passed header and body validation. *)
Sound(b) == b \in Block /\ Genesis \in DownFrom(b) /\ DownFrom(b) \subseteq HeaderValid \cap BodyValid

(* The blocks a reorg from s to a stronger block passes through *)
OnTheWay(s, b) == \E t \in Block : (t = s \/ Strength[t] > Strength[s]) /\ b \in DownFrom(t)

(* What is on the chain, or was and may be restored, is sound; what a reorg
   adds to it has passed header validation, as has every orphan with
   accumulated data. *)
ChainSound ==
    /\ \A b \in headers \cup Elements(rewound) \cup Elements(removed) : Sound(b)
    /\ Elements(chain) \cup accumulated \subseteq HeaderValid
    /\ badBlocks = {}

(* Without synchronisation no header waits for its body. *)
NoPending == lastHeader = bestBlock

(* What find_orphan_descendant_tips_of has still to visit is in the pool, and
   the tips it found have accumulated data. *)
PoolAgrees ==
    /\ OrphanTablesAgree
    /\ pc = "find" => frontier \subseteq orphans /\ newTips \subseteq accumulated

(* The block the reorg has to put below chain[i] *)
Below(i) == IF i = 1 THEN linkAt ELSE chain[i - 1]

(* The new chain is linked down to linkAt, which the rewind before the reorg
   leaves as the best block, and applied from there. *)
ReorgLinked ==
    /\ \A i \in DOMAIN chain : Parent[chain[i]] = Below(i)
    /\ return = "apply" => linkAt \in headers /\ target = Height[linkAt] /\ applied = 0
    /\ pc = "apply" => bestBlock = Below(applied + 1) /\ applied <= Len(chain)
    /\ pc = "link" => applied = 0

(* No reorg has begun. *)
Early == pc \in {"idle", "insert", "header", "find", "swap", "select"} \/ return = "select"

(* The blocks the operation may leave as the best one *)
Touched == {bestBlock} \cup Elements(chain) \cup Elements(rewound) \cup Elements(removed)

(* The best block is on the way from the one the operation started with to a
   stronger one, as are the blocks a reorg adds and removes; until a reorg
   begins it has not moved. *)
StartBound ==
    /\ Early => chain = <<>> /\ removed = <<>> /\ applied = 0
    /\ Early /\ pc # "idle" => bestBlock = start
    /\ pc # "idle" => \A b \in Touched : OnTheWay(start, b)
    /\ pc = "link" /\ linkAt \in Block => OnTheWay(start, linkAt)
    /\ return = "select" => target = BestHeight /\ pc = "trim"

(* The inductive invariant, with the ones of the header chain and of an
   archival node. *)
SelectInv == ChainSound /\ NoPending /\ PoolAgrees /\ ReorgLinked /\ StartBound

-----------------------------------------------------------------------------
USE DEF durable, mainChain, orphanPool, insertLocals, rewindLocals, reorgLocals, locals

(* A block is the first of the blocks from it down. *)
LEMMA DownFromSelf == ASSUME NEW b \in Block PROVE b \in DownFrom(b)
BY Zenon DEF DownFrom

(* With a block they contain its parent. *)
LEMMA DownFromClosed == ASSUME NEW b, NEW a \in DownFrom(b), Linked(a) PROVE Parent[a] \in DownFrom(b)
<1>1. Parent[a] \in Block
  BY DEF Linked
<1>2. ASSUME NEW S \in SUBSET Block, b \in S, Closed(S) PROVE Parent[a] \in S
  <2>1. a \in S
    BY <1>2, Zenon DEF DownFrom
  <2> QED
    BY <1>2, <2>1, Zenon DEF Closed
<1> QED
  BY <1>1, <1>2, Zenon DEF DownFrom

(* They are the block itself and those from its parent down. *)
LEMMA DownFromParent ==
    ASSUME NEW b \in Block, Linked(b)
    PROVE  DownFrom(Parent[b]) \subseteq DownFrom(b) /\ DownFrom(b) \subseteq {b} \cup DownFrom(Parent[b])
<1> DEFINE p == Parent[b]
<1>1. p \in Block /\ p \in DownFrom(p) /\ DownFrom(p) \in SUBSET Block
  BY DownFromSelf DEF Linked, DownFrom
<1>2. ASSUME NEW a \in DownFrom(p), NEW S \in SUBSET Block, b \in S, Closed(S) PROVE a \in S
  <2>1. p \in S
    BY <1>2, Zenon DEF Closed
  <2> QED
    BY <1>2, <2>1, Zenon DEF DownFrom
<1>3. DownFrom(p) \subseteq DownFrom(b)
  BY <1>1, <1>2, Zenon DEF DownFrom
<1> DEFINE S == {b} \cup DownFrom(p)
<1>4. ASSUME NEW a \in S, Linked(a) PROVE Parent[a] \in S
  BY <1>1, <1>4, DownFromClosed, Zenon
<1>5. S \in SUBSET Block /\ b \in S /\ Closed(S)
  BY <1>1, <1>4, Zenon DEF Closed
<1> HIDE DEF S
<1>6. DownFrom(b) \subseteq S
  BY <1>5, Zenon DEF DownFrom
<1> QED
  BY <1>3, <1>6 DEF S

(* A header that is valid on a block of the model is linked to it. *)
LEMMA ValidLinked == ASSUME NEW b \in HeaderValid, b # Genesis, Parent[b] \in Block PROVE Linked(b)
<1>1. Height[b] = Height[Parent[b]] + 1 /\ Height[Parent[b]] \in Nat
  BY LinkAssumption, GenesisBlock DEF LinkAssumption
<1> QED
  BY <1>1 DEF Linked

(* The way from s leads on to the parent. *)
LEMMA OnTheWayDown == ASSUME NEW s, NEW b, OnTheWay(s, b), Linked(b) PROVE OnTheWay(s, Parent[b])
BY DownFromClosed, Zenon DEF OnTheWay

(* It begins at s, and a stronger block is on it too. *)
LEMMA OnTheWayFrom ==
    ASSUME NEW s \in Block, NEW t \in Block, t = s \/ Strength[t] > Strength[s]
    PROVE  OnTheWay(s, t)
BY DownFromSelf, Zenon DEF OnTheWay

(* A valid block on a sound one is sound. *)
LEMMA SoundChild ==
    ASSUME NEW b \in HeaderValid \cap BodyValid, b # Genesis, Sound(Parent[b])
    PROVE  Sound(b)
<1>1. b \in Block /\ Parent[b] \in Block
  BY TreeAssumption DEF TreeAssumption, Sound
<1>2. Linked(b)
  BY <1>1, ValidLinked
<1>3. DownFrom(Parent[b]) \subseteq DownFrom(b) /\ DownFrom(b) \subseteq {b} \cup DownFrom(Parent[b])
  BY <1>1, <1>2, DownFromParent
<1> QED
  BY <1>1, <1>3 DEF Sound

(* The genesis block is sound. *)
LEMMA GenesisSound == Sound(Genesis)
<1>1. Genesis \in Block /\ Genesis \in HeaderValid \cap BodyValid
  BY TreeAssumption DEF TreeAssumption
<1>2. Closed({Genesis})
  BY DEF Closed, Linked
<1>3. {Genesis} \in SUBSET Block /\ Genesis \in {Genesis}
  BY <1>1
<1>4. DownFrom(Genesis) \subseteq {Genesis}
  BY <1>2, <1>3, Zenon DEF DownFrom
<1> QED
  BY <1>1, <1>4, DownFromSelf DEF Sound

-----------------------------------------------------------------------------
(* What a step of a node that adds blocks does to the chain and to the
   variables of the operation: nothing, *)
Quiet ==
    /\ UNCHANGED <<durable, pc, caller, start, rewindLocals, reorgLocals>>
    /\ pc = "idle" \/ result' = result

(* a step of insert_orphan_and_find_new_tips, *)
Inserting ==
    /\ pc \in {"insert", "header", "find"} /\ pc' \in {"header", "find", "swap"}
    /\ UNCHANGED <<mainChain, start, rewindLocals, reorgLocals>>

(* the return from rewind_to_height, *)
Returned ==
    /\ \/ pc = "trim" /\ Height[lastHeader] = TrimTo /\ BestHeight <= target
       \/ pc = "rewind" /\ Height[lastHeader] <= RewindStop
    /\ return # "idle" /\ pc' = return
    /\ return' = "idle" /\ rewound' = <<>>
    /\ removed' = IF return = "apply" THEN rewound ELSE removed
    /\ UNCHANGED <<durable, start, linkAt, chain, applied, result>>

(* the call of it by restore_reorged_chain, *)
Undone ==
    /\ pc = "apply" /\ pc' = "trim" /\ target' = Height[linkAt] /\ return' = "restore"
    /\ applied < Len(chain)
    /\ UNCHANGED orphanPool \/ DeleteOrphans({chain[applied + 1]})
    /\ result' \in {"ValidationError", "StorageError"}
    /\ UNCHANGED <<mainChain, start, rewound, reorgLocals>>

(* the return from swap_to_highest_pow_chain, a step of pruning, *)
Finished ==
    /\ \/ pc = "select" /\ result' = "OrphanBlock"
       \/ pc = "apply" /\ applied = Len(chain) /\ result' \in {"Ok", "ChainReorg"}
    /\ pc' \in {"prune", "cleanup"}
    /\ DropLocals /\ UNCHANGED <<durable, start>>
Finishing ==
    /\ pc \in {"prune", "pruning"} /\ pc' \in {"pruning", "cleanup"}
    /\ UNCHANGED <<mainChain, orphanPool, start, return, rewound, reorgLocals, result>>

(* or the end of the operation. *)
Ended == pc' = "idle" /\ caller' = "none" /\ DropLocals /\ UNCHANGED mainChain

(* insert_orphan_and_find_new_tips leaves the chain alone. *)
LEMMA InsertShapes == ASSUME InsertStep PROVE Inserting \/ Ended
BY ZenonT(30) DEF InsertStep, InsertSeenOrphan, ParentTipUnreadable, RemoveParentTip, ParentInAllChains,
   InsertTrueOrphan, InsertOrphan, RejectHeader, InsertOrphanFails, VisitValidOrphan,
   VisitAccumulatedOrphan, DiscardInvalidOrphan, InsertNewTips,
   Goto, Reject, Fail, Release, Unlock, Inserting, Ended

(* rewind_to_height finds no header above the best block to trim, and no body
   to purge. *)
LEMMA RewindShapes ==
    ASSUME ChainInv, NeverPastHorizon, NoPending, RewindStep
    PROVE  RewindBlocks \/ RewindBlock \/ Returned \/ Ended
<1> USE DEF Goto, Fail, Release, Unlock
<1>1. CASE TrimHeader
  BY <1>1, GenesisBlock DEF TrimHeader, TrimTo, BestHeight, NoPending, ChainInv, TypeOK, LocalsTyped, TablesTyped
<1>2. CASE TrimFails \/ RewindUnderflows \/ RewindBlockFails \/ PurgeFails
  BY ZenonT(30), <1>2 DEF TrimFails, RewindUnderflows, RewindBlockFails, PurgeFails, Restart, Ended
<1>3. CASE NoBlocksToRewind
  <2>1. CASE return = "idle"
    BY Zenon, <1>3, <2>1 DEF NoBlocksToRewind, ReturnRewind, Ended
  <2>2. CASE return # "idle"
    <3>1. pc = "trim" /\ Height[lastHeader] = TrimTo /\ BestHeight <= target /\ ReturnRewind(rewound) /\ UNCHANGED durable
      BY Zenon, <1>3 DEF NoBlocksToRewind, ChainInv, RewoundChains
    <3> QED
      BY Zenon, <2>2, <3>1 DEF ReturnRewind, DropRewindLocals, Returned
  <2> QED
    BY <2>1, <2>2
<1>4. CASE RewindDone
  <2>0. ReturnRewind(rewound) /\ UNCHANGED durable /\ pc = "rewind" /\ Height[lastHeader] <= RewindStop
    BY Zenon, <1>4 DEF RewindDone, NeverPastHorizon
  <2>1. CASE return = "idle"
    BY Zenon, <2>0, <2>1 DEF ReturnRewind, Ended
  <2>2. CASE return # "idle"
    BY Zenon, <2>0, <2>2 DEF ReturnRewind, DropRewindLocals, Returned
  <2> QED
    BY <2>1, <2>2
<1>5. CASE PurgeBody \/ PurgeDone
  BY Zenon, <1>5 DEF PurgeBody, PurgeDone, NeverPastHorizon
<1> QED
  BY Zenon, <1>1, <1>2, <1>3, <1>4, <1>5 DEF RewindStep

(* swap_to_highest_pow_chain, reorganize_chain and restore_reorged_chain *)
LEMMA SwapShapes ==
    ASSUME SwapStep
    PROVE  \/ SwapBegin \/ (\E t \in Block : SelectTip(t)) \/ LinkBlock \/ ApplyBlock \/ Undone
           \/ Restore /\ removed # <<>>
           \/ Finished \/ Ended
<1> USE DEF Goto, Fail, Release, Unlock
<1>1. CASE SelectUnreadable \/ LinkMissing \/ RestoreFails
  BY Zenon, <1>1 DEF SelectUnreadable, LinkMissing, RestoreFails, Ended
<1>2. CASE SelectNone \/ ApplyDone
  <2>1. \E o : /\ SwapReturns(o) /\ UNCHANGED durable
               /\ \/ pc = "select" /\ o = "OrphanBlock"
                  \/ pc = "apply" /\ applied = Len(chain) /\ o \in {"Ok", "ChainReorg"}
    BY Zenon, <1>2 DEF SelectNone, ApplyDone
  <2>2. PICK o : /\ SwapReturns(o) /\ UNCHANGED durable
                 /\ \/ pc = "select" /\ o = "OrphanBlock"
                    \/ pc = "apply" /\ applied = Len(chain) /\ o \in {"Ok", "ChainReorg"}
    BY Zenon, <2>1
  <2> QED
    BY Zenon, <2>2 DEF SwapReturns, Finished, Ended
<1>3. CASE ApplyWriteFails
  BY Zenon, <1>3 DEF ApplyWriteFails, RestoreAfter, CallRewind, Undone
<1>4. CASE ApplyInvalid
  BY Zenon, <1>4 DEF ApplyInvalid, RestoreAfter, CallRewind, Undone, Ended
<1>5. CASE Restore /\ removed = <<>>
  BY Zenon, <1>5 DEF Restore, Ended
<1> QED
  BY Zenon, <1>1, <1>2, <1>3, <1>4, <1>5 DEF SwapStep

(* prune_database_if_needed and cleanup_orphans leave the chain alone. *)
LEMMA FinishShapes == ASSUME FinishStep PROVE Finishing \/ Ended
BY Zenon DEF FinishStep, PruneNotNeeded, PruneStart, PruneBlocks, Cleanup, Goto, Fail, Release, Unlock, Finishing, Ended

(* Every step of the node is one of these. *)
LEMMA CrashShapes ==
    ASSUME ChainInv, NeverPastHorizon, NoPending, [CrashNext]_vars
    PROVE  \/ Quiet \/ (\E b \in Block : AddBlock(b)) \/ Inserting
           \/ RewindBlocks \/ RewindBlock \/ Returned
           \/ SwapBegin \/ (\E t \in Block : SelectTip(t)) \/ LinkBlock \/ ApplyBlock \/ Undone
           \/ Restore /\ removed # <<>>
           \/ Finished \/ Finishing \/ Ended
<1>1. CASE UNCHANGED vars
  BY Zenon, <1>1 DEF vars, Quiet
<1>2. CASE \E b \in Block : AddBlockCall(b) \/ AddBlockReturnsEarly(b)
  BY Zenon, <1>2 DEF AddBlockCall, AddBlockReturnsEarly, Quiet
<1>3. CASE Crash
  BY Zenon, <1>3 DEF Crash, Restart, Unlock, Ended
<1> QED
  BY ZenonT(30), <1>1, <1>2, <1>3, InsertShapes, RewindShapes, SwapShapes, FinishShapes DEF CrashNext, AddBlockNext, Step

-----------------------------------------------------------------------------
(* The block tables move with a rewound, an applied or a restored block only. *)
LEMMA ChainMoves ==
    ASSUME ChainInv, NeverPastHorizon, NoPending, [CrashNext]_vars
    PROVE  UNCHANGED mainChain \/ RewindBlock \/ ApplyBlock \/ (Restore /\ removed # <<>>)
<1>1. ~TrimHeader
  BY GenesisBlock DEF TrimHeader, TrimTo, BestHeight, NoPending, ChainInv, TypeOK, LocalsTyped, TablesTyped
<1>2. ~PurgeBody
  BY Zenon DEF PurgeBody, NeverPastHorizon
<1> QED
  BY Zenon, <1>1, <1>2, AddBlockChainSteps

(* A rewound block makes way for its parent. *)
LEMMA RewindMoves ==
    ASSUME ChainInv, NeverPastHorizon, RewindBlock
    PROVE  /\ lastHeader \in headers /\ lastHeader # Genesis
           /\ Parent[lastHeader] \in headers /\ Height[lastHeader] = Height[Parent[lastHeader]] + 1
           /\ lastHeader' = Parent[lastHeader] /\ bestBlock' = lastHeader'
           /\ headers' = headers \ {lastHeader}
           /\ pc = "rewind" /\ pc' = "rewind"
           /\ rewound' = Append(rewound, lastHeader)
           /\ UNCHANGED <<start, target, return, reorgLocals>>
<1>1. /\ DeleteLastHeader /\ bestBlock' = RewoundBest /\ Height[lastHeader] > RewindStop
      /\ pc = "rewind" /\ pc' = "rewind" /\ rewound' = Append(rewound, lastHeader)
      /\ UNCHANGED <<start, target, return, reorgLocals>>
  BY Zenon DEF RewindBlock, Goto
<1>2. lastHeader \in headers /\ headers \subseteq Block /\ target \in Nat
  BY Zenon DEF ChainInv, HeadersFormChain, TypeOK, TablesTyped, LocalsTyped
<1>3. RewindStop = target
  BY Zenon DEF RewindStop, NeverPastHorizon
<1>4. Height[lastHeader] > 0 /\ lastHeader # Genesis
  BY <1>1, <1>2, <1>3, GenesisBlock
<1>5. lastHeader' = Parent[lastHeader] /\ Height[lastHeader] = Height[Parent[lastHeader]] + 1 /\ lastHeader' \in headers'
  BY Zenon, <1>1, <1>4, LastHeaderDeleted
<1>6. bestBlock' = lastHeader' /\ headers' = headers \ {lastHeader}
  BY Zenon, <1>1 DEF DeleteLastHeader, RewoundBest, NeverPastHorizon
<1>7. Parent[lastHeader] \in headers
  BY <1>5, <1>6
<1> QED
  BY Zenon, <1>1, <1>2, <1>4, <1>5, <1>6, <1>7

(* An applied block is a valid child of the best block. *)
LEMMA ApplyMoves ==
    ASSUME ChainInv, ChainSound, ApplyBlock
    PROVE  \E b \in HeaderValid \cap BodyValid :
             /\ b = chain[applied + 1] /\ applied + 1 \in DOMAIN chain /\ b # Genesis /\ b \in Elements(chain)
             /\ Parent[b] = bestBlock /\ bestBlock \in headers /\ bestBlock \in bodies
             /\ headers' = headers \cup {b} /\ bestBlock' = b /\ lastHeader' = b
             /\ DeleteOrphans({b})
             /\ pc = "apply" /\ pc' = "apply" /\ applied' = applied + 1
             /\ UNCHANGED <<start, rewindLocals, linkAt, chain, removed>>
<1> DEFINE b == chain[applied + 1]
<1>1. /\ pc = "apply" /\ pc' = "apply" /\ applied' = applied + 1 /\ applied < Len(chain)
      /\ UNCHANGED <<start, rewindLocals, linkAt, chain, removed>>
      /\ BodyValidates(b) /\ ApplyOk(b) /\ DeleteOrphans({b}) /\ InsertBest({b}, b)
  BY Zenon DEF ApplyBlock, Goto
<1>2. applied + 1 \in DOMAIN chain
  BY <1>1 DEF ChainInv, TypeOK, LocalsTyped
<1>3. b \in Elements(chain)
  BY <1>2 DEF Elements
<1> HIDE DEF b
<1>4. b \in HeaderValid /\ b \in BodyValid /\ Parent[b] = bestBlock /\ bestBlock \in bodies
  BY Zenon, <1>1, <1>3 DEF ChainSound, BodyValidates, ApplyOk, InsertBestOk, ExtendsBest
<1>5. bestBlock \in headers /\ bestBlock \in Block
  BY Zenon DEF ChainInv, HeadersFormChain, TypeOK, TablesTyped
<1>6. b # Genesis
  BY <1>4, <1>5, TreeAssumption DEF TreeAssumption
<1>7. headers' = headers \cup {b} /\ bestBlock' = b /\ lastHeader' = b
  BY Zenon, <1>1 DEF InsertBest
<1>8. b = chain[applied + 1]
  BY DEF b
<1> QED
  BY Zenon, <1>1, <1>2, <1>3, <1>4, <1>5, <1>6, <1>7, <1>8

(* A restored chain goes on top of the best block. *)
LEMMA RestoreMoves ==
    ASSUME Restore, removed # <<>>
    PROVE  /\ headers' = headers \cup Elements(removed) /\ bestBlock' = removed[1] /\ lastHeader' = removed[1]
           /\ Parent[removed[Len(removed)]] = bestBlock /\ bestBlock \in bodies
           /\ DeleteOrphans(Elements(removed))
           /\ pc = "restore" /\ pc' = "idle" /\ DropLocals
BY Zenon DEF Restore, RestoreOk, InsertBestOk, ExtendsBest, InsertBest, Release, Unlock

(* No header waits for its body after any of them. *)
LEMMA NoPendingStep ==
    ASSUME ChainInv, NeverPastHorizon, NoPending, ChainSound, [CrashNext]_vars
    PROVE  NoPending'
<1>1. CASE UNCHANGED mainChain
  BY Zenon, <1>1 DEF NoPending
<1>2. CASE RewindBlock
  BY Zenon, <1>2, RewindMoves DEF NoPending
<1>3. CASE ApplyBlock
  BY Zenon, <1>3, ApplyMoves DEF NoPending
<1>4. CASE Restore /\ removed # <<>>
  BY Zenon, <1>4, RestoreMoves DEF NoPending
<1> QED
  BY Zenon, <1>1, <1>2, <1>3, <1>4, ChainMoves

-----------------------------------------------------------------------------
(* The steps that write to the orphan pool *)
LEMMA PoolSteps ==
    ASSUME [CrashNext]_vars
    PROVE  \/ UNCHANGED orphanPool
           \/ RemoveParentTip \/ InsertTrueOrphan \/ InsertOrphan \/ InsertNewTips
           \/ \E c \in Block : VisitValidOrphan(c)
           \/ \E c \in frontier : pc = "find" /\ ~HeaderValidates(c) /\ DeleteOrphans({c})
           \/ RewindBlock \/ ApplyBlock \/ (Restore /\ removed # <<>>)
           \/ pc = "apply" /\ applied < Len(chain) /\ DeleteOrphans({chain[applied + 1]})
           \/ \E capacity \in {OrphanStorageCapacity, 0} : \E D \in OldestOrphans(capacity) : DeleteOrphans(D)
<1>1. CASE UNCHANGED vars
  BY Zenon, <1>1 DEF vars
<1>2. CASE InsertStep
  BY ZenonT(30), <1>2 DEF InsertStep, InsertSeenOrphan, ParentTipUnreadable, ParentInAllChains,
     RejectHeader, InsertOrphanFails, VisitAccumulatedOrphan, DiscardInvalidOrphan
<1>3. ASSUME NEW capacity \in {OrphanStorageCapacity, 0}, NEW D \in OldestOrphans(capacity), CleanupOrphans(D)
      PROVE  UNCHANGED orphanPool \/ DeleteOrphans(D)
  BY Zenon, <1>3 DEF CleanupOrphans
<1>4. CASE Restart
  BY Zenon, <1>3, <1>4 DEF Restart
<1>5. CASE RewindStep
  BY ZenonT(30), <1>4, <1>5 DEF RewindStep, TrimHeader, TrimFails, NoBlocksToRewind, RewindBlocks, RewindUnderflows,
     RewindBlockFails, RewindDone, PurgeBody, PurgeFails, PurgeDone
<1>6. CASE SwapStep
  BY ZenonT(30), <1>6 DEF SwapStep, SwapBegin, SelectUnreadable, SelectNone, SelectTip, LinkBlock, LinkMissing,
     ApplyWriteFails, ApplyInvalid, ApplyDone, Restore, RestoreFails
<1>7. CASE FinishStep
  BY Zenon, <1>3, <1>7 DEF FinishStep, PruneNotNeeded, PruneStart, PruneBlocks, Cleanup
<1>8. CASE \E b \in Block : AddBlockCall(b) \/ AddBlockReturnsEarly(b) \/ AddBlock(b)
  BY Zenon, <1>8 DEF AddBlockCall, AddBlockReturnsEarly, AddBlock
<1> QED
  BY Zenon, <1>1, <1>2, <1>4, <1>5, <1>6, <1>7, <1>8 DEF CrashNext, AddBlockNext, Step, Crash

(* Only a synchroniser puts a block on the list of bad ones. *)
LEMMA BadBlocksStep == ASSUME [CrashNext]_vars PROVE badBlocks' = badBlocks
<1>1. CASE UNCHANGED vars
  BY Zenon, <1>1 DEF vars
<1>2. CASE InsertStep
  BY ZenonT(30), <1>2 DEF InsertStep, InsertSeenOrphan, ParentTipUnreadable, RemoveParentTip, ParentInAllChains,
     InsertTrueOrphan, InsertOrphan, RejectHeader, InsertOrphanFails, VisitValidOrphan,
     VisitAccumulatedOrphan, DiscardInvalidOrphan, InsertNewTips
<1>3. CASE RewindStep
  BY ZenonT(30), <1>3 DEF RewindStep, TrimHeader, TrimFails, NoBlocksToRewind, RewindBlocks, RewindUnderflows,
     RewindBlock, RewindBlockFails, RewindDone, PurgeBody, PurgeFails, PurgeDone, Restart
<1>4. CASE SwapStep
  BY ZenonT(30), <1>4 DEF SwapStep, SwapBegin, SelectUnreadable, SelectNone, SelectTip, LinkBlock, LinkMissing,
     ApplyBlock, ApplyWriteFails, ApplyInvalid, ApplyDone, Restore, RestoreFails
<1>5. CASE FinishStep
  BY Zenon, <1>5 DEF FinishStep, PruneNotNeeded, PruneStart, PruneBlocks, Cleanup
<1>6. CASE \E b \in Block : AddBlockCall(b) \/ AddBlockReturnsEarly(b) \/ AddBlock(b)
  BY Zenon, <1>6 DEF AddBlockCall, AddBlockReturnsEarly, AddBlock
<1>7. CASE Crash
  BY Zenon, <1>7 DEF Crash, Restart
<1> QED
  BY Zenon, <1>1, <1>2, <1>3, <1>4, <1>5, <1>6, <1>7 DEF CrashNext, AddBlockNext, Step

(* The new chain grows downwards, block by block. *)
LEMMA ChainSteps ==
    ASSUME ChainInv, NeverPastHorizon, NoPending, [CrashNext]_vars
    PROVE  chain' \in {chain, <<>>} \/ LinkBlock
<1>1. CASE \E b \in Block : AddBlock(b) \/ SelectTip(b)
  BY Zenon, <1>1 DEF AddBlock, SelectTip
<1>2. CASE RewindBlocks \/ RewindBlock \/ SwapBegin \/ ApplyBlock
  BY Zenon, <1>2 DEF RewindBlocks, RewindBlock, SwapBegin, ApplyBlock
<1>3. CASE Restore
  BY Zenon, <1>3 DEF Restore, Release, Unlock, DropLocals
<1>4. CASE Quiet \/ Inserting \/ Returned \/ Undone \/ Finished \/ Finishing \/ Ended
  BY Zenon, <1>4 DEF Quiet, Inserting, Returned, Undone, Finished, Finishing, Ended, DropLocals
<1> QED
  BY ZenonT(30), <1>1, <1>2, <1>3, <1>4, CrashShapes

(* A sound block passed header and body validation. *)
LEMMA SoundValid == ASSUME NEW b, Sound(b) PROVE b \in Block /\ b \in HeaderValid /\ b \in BodyValid
BY DownFromSelf DEF Sound

(* A linked block is an orphan with accumulated data. *)
LEMMA LinkMoves ==
    ASSUME ChainInv, LinkBlock
    PROVE  /\ linkAt \in accumulated /\ linkAt \in Block
           /\ chain' = <<linkAt>> \o chain /\ linkAt' = Parent[linkAt]
           /\ Elements(chain') \subseteq {linkAt} \cup Elements(chain)
           /\ pc = "link" /\ UNCHANGED <<mainChain, start, rewound, applied, removed>>
           /\ \/ linkAt' \in headers /\ pc' = "trim" /\ target' = Height[linkAt'] /\ return' = "apply"
              \/ linkAt' \notin headers /\ pc' = "link" /\ UNCHANGED <<target, return>>
<1>1. /\ pc = "link" /\ OrphanChainBlock(linkAt) /\ chain' = <<linkAt>> \o chain /\ linkAt' = Parent[linkAt]
      /\ UNCHANGED <<mainChain, start, rewound, applied, removed>>
      /\ \/ linkAt' \in headers /\ pc' = "trim" /\ target' = Height[linkAt'] /\ return' = "apply"
         \/ linkAt' \notin headers /\ pc' = "link" /\ UNCHANGED <<target, return>>
  BY Zenon DEF LinkBlock, CallRewind, Goto
<1>2. linkAt \in accumulated /\ linkAt \in Block /\ chain \in Seq(Block)
  BY <1>1 DEF OrphanChainBlock, ChainInv, TypeOK, TablesTyped, LocalsTyped
<1>3. \A i \in DOMAIN chain' : chain'[i] = IF i = 1 THEN linkAt ELSE chain[i - 1]
  BY <1>1, <1>2
<1>4. \A i \in DOMAIN chain' : i = 1 \/ i - 1 \in DOMAIN chain
  BY <1>1, <1>2
<1>5. Elements(chain') \subseteq {linkAt} \cup Elements(chain)
  BY <1>3, <1>4 DEF Elements
<1> QED
  BY Zenon, <1>1, <1>2, <1>5

(* What validation let through stays sound, wherever a step puts it. *)
LEMMA ChainSoundStep ==
    ASSUME ChainInv, NeverPastHorizon, NoPending, ChainSound, [CrashNext]_vars
    PROVE  ChainSound'
<1>0. [Next]_vars
  BY Zenon DEF Next
<1>1. Elements(<<>>) = {} /\ rewound \in Seq(Block) /\ lastHeader \in headers
  BY DEF Elements, ChainInv, TypeOK, LocalsTyped, HeadersFormChain
<1>2. \A b \in headers' : Sound(b)
  <2>1. CASE UNCHANGED mainChain
    BY Zenon, <2>1 DEF ChainSound
  <2>2. CASE RewindBlock
    BY Zenon, <2>2, RewindMoves DEF ChainSound
  <2>3. CASE ApplyBlock
    <3>1. PICK b \in HeaderValid \cap BodyValid :
            b # Genesis /\ Parent[b] = bestBlock /\ bestBlock \in headers /\ headers' = headers \cup {b}
      BY Zenon, <2>3, ApplyMoves
    <3>2. Sound(Parent[b])
      BY Zenon, <3>1 DEF ChainSound
    <3>3. Sound(b)
      BY Zenon, <3>1, <3>2, SoundChild
    <3> QED
      BY Zenon, <3>1, <3>3 DEF ChainSound
  <2>4. CASE Restore /\ removed # <<>>
    BY Zenon, <2>4, RestoreMoves DEF ChainSound
  <2> QED
    BY Zenon, <2>1, <2>2, <2>3, <2>4, ChainMoves
<1>3. \A b \in Elements(rewound') : Sound(b)
  <2>1. Elements(Append(rewound, lastHeader)) \subseteq Elements(rewound) \cup {lastHeader}
    BY <1>1 DEF Elements
  <2> QED
    BY Zenon, <1>0, <1>1, <2>1, RemovedSteps DEF ChainSound
<1>4. \A b \in Elements(removed') : Sound(b)
  BY Zenon, <1>0, <1>1, RemovedSteps DEF ChainSound
<1>5. Elements(chain') \subseteq HeaderValid
  BY Zenon, <1>1, ChainSteps, LinkMoves DEF ChainSound
<1>6. accumulated' \subseteq HeaderValid
  <2>1. CASE InsertOrphan
    BY <2>1 DEF InsertOrphan, HeaderValidates, ChainSound
  <2>2. CASE \E c \in Block : VisitValidOrphan(c)
    BY <2>2 DEF VisitValidOrphan, HeaderValidates, ChainSound
  <2>3. CASE RewindBlock
    <3>1. lastHeader \in HeaderValid
      BY Zenon, <1>1, SoundValid DEF ChainSound
    <3> QED
      BY Zenon, <2>3, <3>1 DEF RewindBlock, ChainSound
  <2>4. CASE \E D : DeleteOrphans(D)
    BY <2>4 DEF DeleteOrphans, DataWithout, ChainSound
  <2>5. CASE accumulated' = accumulated
    BY Zenon, <2>5 DEF ChainSound
  <2>6. RemoveParentTip \/ InsertTrueOrphan \/ InsertNewTips \/ UNCHANGED orphanPool => accumulated' = accumulated
    BY Zenon DEF RemoveParentTip, InsertTrueOrphan, InsertNewTips
  <2>7. ApplyBlock \/ (Restore /\ removed # <<>>) => \E D : DeleteOrphans(D)
    BY Zenon DEF ApplyBlock, Restore
  <2> QED
    BY Zenon, <2>1, <2>2, <2>3, <2>4, <2>5, <2>6, <2>7, PoolSteps
<1>7. badBlocks' = {}
  BY Zenon, BadBlocksStep DEF ChainSound
<1> QED
  BY Zenon, <1>2, <1>3, <1>4, <1>5, <1>6, <1>7 DEF ChainSound

-----------------------------------------------------------------------------
(* delete_orphan leaves the tables in agreement when no deleted tip hands its
   place to a parent, *)
LEMMA DeleteAgrees ==
    ASSUME OrphanTablesAgree, NEW D, DeleteOrphans(D), HeirsOf(D) = {}
    PROVE  OrphanTablesAgree'
BY DEF OrphanTablesAgree, DeleteOrphans, OrphansWithout, DataWithout, TipsWithout

(* as is the case for a block with its parent on the chain, *)
LEMMA ChildNoHeir ==
    ASSUME OrphansOffChain, NEW b, Parent[b] \in bodies
    PROVE  HeirsOf({b}) = {}
BY DEF OrphansOffChain, HeirsOf

(* for a block that is not a tip, *)
LEMMA NonTipNoHeir == ASSUME NEW b, b \notin tips PROVE HeirsOf({b}) = {}
BY DEF HeirsOf

(* for the lowest orphans of the pool, *)
LEMMA OldestNoHeir ==
    ASSUME ChainInv, ArchivalInv, ChainSound, OrphanTablesAgree, NEW capacity, NEW D \in OldestOrphans(capacity)
    PROVE  HeirsOf(D) = {}
<1>1. \A d \in D, o \in orphans \ D : Height[d] <= Height[o]
  BY Zenon DEF OldestOrphans
<1> SUFFICES ASSUME NEW p \in orphans \ D, NEW d \in D \cap orphans \cap tips, Parent[d] = p PROVE FALSE
  BY Zenon DEF HeirsOf
<1>2. d \in HeaderValid /\ p \in Block /\ d \in orphans
  BY DEF OrphanTablesAgree, ChainSound, ChainInv, TypeOK, TablesTyped
<1>3. d # Genesis
  BY <1>2, TreeAssumption DEF TreeAssumption
<1>4. Height[d] = Height[p] + 1 /\ Height[p] \in Nat
  BY <1>2, <1>3, LinkAssumption, GenesisBlock DEF LinkAssumption
<1> QED
  BY <1>1, <1>4

(* and for the blocks a reorg removed, which are a chain on the best block. *)
LEMMA RemovedNoHeir ==
    ASSUME ChainInv, OrphansOffChain, removed # <<>>, Parent[removed[Len(removed)]] \in bodies
    PROVE  HeirsOf(Elements(removed)) = {}
<1>1. removed \in Seq(Block) /\ \A i \in DOMAIN removed : i + 1 \in DOMAIN removed => Parent[removed[i]] = removed[i + 1]
  BY DEF ChainInv, TypeOK, LocalsTyped, RewoundChains, Descends
<1>2. \A i \in DOMAIN removed : i = Len(removed) \/ i + 1 \in DOMAIN removed
  BY <1>1
<1>3. \A d \in Elements(removed) : Parent[d] \in bodies \cup Elements(removed)
  BY <1>1, <1>2 DEF Elements
<1> QED
  BY <1>3 DEF HeirsOf, OrphansOffChain

(* An orphan whose header does not validate is deleted. *)
Discards(c) == ~HeaderValidates(c) /\ DeleteOrphans({c}) /\ frontier' = frontier \ {c} /\ newTips' = newTips

(* The steps that stay within find_orphan_descendant_tips_of *)
LEMMA FindSteps ==
    ASSUME ChainInv, [CrashNext]_vars, pc' = "find"
    PROVE  \/ InsertOrphan \/ \E c \in Block : VisitValidOrphan(c)
           \/ pc = "find" /\ \E c \in frontier : Discards(c)
           \/ UNCHANGED <<pc, frontier, newTips, orphanPool>>
<1>0. return # "find"
  BY DEF ChainInv, TypeOK, LocalsTyped
<1>1. CASE UNCHANGED vars
  BY Zenon, <1>1 DEF vars
<1>2. CASE InsertStep
  BY ZenonT(30), <1>2 DEF InsertStep, InsertSeenOrphan, ParentTipUnreadable, RemoveParentTip, ParentInAllChains,
     InsertTrueOrphan, RejectHeader, InsertOrphanFails,
     VisitAccumulatedOrphan, DiscardInvalidOrphan, InsertNewTips, Discards,
     Goto, Reject, Fail, Release, Unlock
<1>3. CASE RewindStep
  BY ZenonT(30), <1>0, <1>3 DEF RewindStep, TrimHeader, TrimFails, NoBlocksToRewind, RewindBlocks, RewindUnderflows,
     RewindBlock, RewindBlockFails, RewindDone, PurgeBody, PurgeFails, PurgeDone, Restart,
     ReturnRewind, Goto, Fail, Release, Unlock
<1>4. CASE SwapStep
  BY ZenonT(30), <1>4 DEF SwapStep, SwapBegin, SelectUnreadable, SelectNone, SelectTip, LinkBlock, LinkMissing, ApplyBlock,
     ApplyWriteFails, ApplyInvalid, ApplyDone, Restore, RestoreFails, SwapReturns, RestoreAfter, CallRewind,
     Goto, Fail, Release, Unlock
<1>5. CASE FinishStep
  BY Zenon, <1>5 DEF FinishStep, PruneNotNeeded, PruneStart, PruneBlocks, Cleanup, Goto, Fail, Release, Unlock
<1>6. CASE \E b \in Block : AddBlockCall(b) \/ AddBlockReturnsEarly(b) \/ AddBlock(b)
  BY Zenon, <1>6 DEF AddBlockCall, AddBlockReturnsEarly, AddBlock, Acquire
<1>7. CASE Crash
  BY Zenon, <1>7 DEF Crash, Restart, Unlock
<1> QED
  BY Zenon, <1>1, <1>2, <1>3, <1>4, <1>5, <1>6, <1>7 DEF CrashNext, AddBlockNext, Step

(* A block whose header does not validate has no accumulated data. *)
LEMMA InvalidNoData == ASSUME ChainSound, NEW c, ~HeaderValidates(c) PROVE c \notin accumulated
BY DEF ChainSound, HeaderValidates

(* find_orphan_descendant_tips_of stays within the pool. *)
LEMMA FindStep ==
    ASSUME ChainInv, ChainSound, PoolAgrees, [CrashNext]_vars, pc' = "find"
    PROVE  frontier' \subseteq orphans' /\ newTips' \subseteq accumulated'
<1>1. CASE InsertOrphan
  <2>1. orphans' = orphans \cup {candidate} /\ accumulated' = accumulated \cup {candidate}
        /\ frontier' = Children(candidate) \cap orphans /\ newTips' = LeafTip(candidate)
    BY Zenon, <1>1 DEF InsertOrphan
  <2> QED
    BY <2>1 DEF LeafTip
<1>2. CASE \E c \in Block : VisitValidOrphan(c)
  <2>1. PICK c \in Block : VisitValidOrphan(c)
    BY Zenon, <1>2
  <2>2. /\ orphans' = orphans /\ accumulated' = accumulated \cup {c} /\ newTips' = newTips \cup LeafTip(c)
        /\ frontier' = (frontier \ {c}) \cup (Children(c) \cap orphans) /\ pc = "find"
    BY Zenon, <2>1 DEF VisitValidOrphan
  <2> QED
    BY <2>2 DEF LeafTip, PoolAgrees
<1>3. CASE pc = "find" /\ \E c \in frontier : Discards(c)
  <2>1. PICK c \in frontier : Discards(c)
    BY Zenon, <1>3
  <2>2. c \notin accumulated
    BY Zenon, <2>1, InvalidNoData DEF Discards
  <2>3. /\ orphans' = orphans \ {c} /\ accumulated' = accumulated \ ({c} \cap orphans)
        /\ frontier' = frontier \ {c} /\ newTips' = newTips
    BY Zenon, <2>1 DEF Discards, DeleteOrphans, OrphansWithout, DataWithout
  <2> QED
    BY <1>3, <2>2, <2>3 DEF PoolAgrees
<1>4. CASE UNCHANGED <<pc, frontier, newTips, orphanPool>>
  BY <1>4 DEF PoolAgrees
<1> QED
  BY Zenon, <1>1, <1>2, <1>3, <1>4, FindSteps

(* The tables of the pool stay in agreement. *)
LEMMA PoolAgreesStep ==
    ASSUME ChainInv, ArchivalInv, NoPending, ChainSound, PoolAgrees, ReorgLinked, [CrashNext]_vars
    PROVE  PoolAgrees'
<1> SUFFICES OrphanTablesAgree'
  BY Zenon, FindStep DEF PoolAgrees
<1> USE DEF OrphanTablesAgree
<1>0. OrphanTablesAgree /\ OrphansOffChain /\ NeverPastHorizon
  BY Zenon DEF PoolAgrees, ArchivalInv
<1>1. bestBlock \in bodies
  BY GenesisBlock DEF ArchivalInv, BestChainValid, BestHeight, ChainInv, HeadersFormChain, TypeOK, TablesTyped
<1>2. CASE UNCHANGED orphanPool \/ RemoveParentTip \/ InsertTrueOrphan
  BY <1>0, <1>2 DEF RemoveParentTip, InsertTrueOrphan
<1>3. CASE InsertOrphan
  BY <1>0, <1>3 DEF InsertOrphan
<1>4. CASE \E c \in Block : VisitValidOrphan(c)
  <2>1. PICK c \in Block : VisitValidOrphan(c)
    BY Zenon, <1>4
  <2>2. c \in orphans /\ orphans' = orphans /\ accumulated' = accumulated \cup {c} /\ tips' = tips
    BY Zenon, <2>1 DEF VisitValidOrphan, PoolAgrees
  <2> QED
    BY <1>0, <2>2
<1>5. CASE InsertNewTips
  <2>1. orphans' = orphans /\ accumulated' = accumulated /\ tips' \in {tips, tips \cup newTips} /\ newTips \subseteq accumulated
    BY Zenon, <1>5 DEF InsertNewTips, PoolAgrees
  <2> QED
    BY <1>0, <2>1
<1>6. CASE \E c \in frontier : pc = "find" /\ ~HeaderValidates(c) /\ DeleteOrphans({c})
  <2>1. PICK c \in frontier : ~HeaderValidates(c) /\ DeleteOrphans({c})
    BY Zenon, <1>6
  <2>2. c \notin tips
    BY Zenon, <1>0, <2>1, InvalidNoData
  <2> QED
    BY Zenon, <1>0, <2>1, <2>2, NonTipNoHeir, DeleteAgrees
<1>7. CASE RewindBlock
  <2>1. orphans' = orphans \cup {lastHeader} /\ tips' \in {tips, tips \cup {lastHeader}} /\ lastHeader \in bodies
        /\ accumulated' = IF lastHeader \in orphans THEN accumulated ELSE accumulated \cup {lastHeader}
    BY Zenon, <1>0, <1>7 DEF RewindBlock, RewindBlockOk, RewoundOrphans, RewoundTips, NeverPastHorizon
  <2>2. lastHeader \notin orphans
    BY <1>0, <2>1 DEF OrphansOffChain
  <2> QED
    BY <1>0, <2>1, <2>2
<1>8. CASE ApplyBlock
  <2>1. PICK b \in HeaderValid \cap BodyValid : Parent[b] = bestBlock /\ DeleteOrphans({b})
    BY Zenon, <1>8, ApplyMoves
  <2> QED
    BY Zenon, <1>0, <1>1, <2>1, ChildNoHeir, DeleteAgrees
<1>9. CASE Restore /\ removed # <<>>
  BY Zenon, <1>0, <1>9, RestoreMoves, RemovedNoHeir, DeleteAgrees
<1>10. CASE pc = "apply" /\ applied < Len(chain) /\ DeleteOrphans({chain[applied + 1]})
  <2>1. applied \in Nat /\ chain \in Seq(Block)
    BY Zenon DEF ChainInv, TypeOK, LocalsTyped
  <2>2. applied + 1 \in DOMAIN chain
    BY <1>10, <2>1
  <2>3. Parent[chain[applied + 1]] \in bodies
    BY Zenon, <1>1, <1>10, <2>2 DEF ReorgLinked
  <2> QED
    BY Zenon, <1>0, <1>10, <2>3, ChildNoHeir, DeleteAgrees
<1>11. CASE \E capacity \in {OrphanStorageCapacity, 0} : \E D \in OldestOrphans(capacity) : DeleteOrphans(D)
  BY Zenon, <1>0, <1>11, OldestNoHeir, DeleteAgrees
<1> QED
  BY Zenon, <1>2, <1>3, <1>4, <1>5, <1>6, <1>7, <1>8, <1>9, <1>10, <1>11, PoolSteps

-----------------------------------------------------------------------------
(* add_block records the best block when it takes the lock. *)
LEMMA AddBlockMoves ==
    ASSUME NEW b, AddBlock(b)
    PROVE  pc = "idle" /\ pc' = "insert" /\ start' = bestBlock /\ UNCHANGED <<mainChain, rewindLocals, reorgLocals>>
BY Zenon DEF AddBlock, Acquire

(* swap_to_highest_pow_chain calls rewind_to_height with the best height. *)
LEMMA SwapBeginMoves ==
    ASSUME SwapBegin
    PROVE  /\ pc = "swap" /\ pc' = "trim" /\ target' = BestHeight /\ return' = "select"
           /\ UNCHANGED <<mainChain, start, rewound, reorgLocals>>
BY Zenon DEF SwapBegin, CallRewind

(* It takes up a tip that is stronger than the best block. *)
LEMMA SelectMoves ==
    ASSUME NEW t, SelectTip(t)
    PROVE  /\ pc = "select" /\ pc' = "link" /\ linkAt' = t /\ Strength[t] > Strength[bestBlock]
           /\ UNCHANGED <<mainChain, start, rewindLocals, chain, applied, removed>>
BY Zenon DEF SelectTip, StrongerThanBest, Goto

(* rewind_to_height goes on to whole blocks when the best one is above the target. *)
LEMMA RewindBlocksMoves ==
    ASSUME RewindBlocks
    PROVE  /\ pc = "trim" /\ pc' = "rewind" /\ BestHeight > target
           /\ UNCHANGED <<mainChain, start, target, return, rewound, reorgLocals>>
BY Zenon DEF RewindBlocks, Goto

(* A step that leaves the reorg alone *)
LEMMA ReorgKept ==
    ASSUME ReorgLinked, UNCHANGED <<linkAt, chain, applied>>,
           pc' = "apply" => bestBlock' = Below(applied + 1) /\ applied <= Len(chain),
           pc' = "link" => applied = 0,
           return' = "apply" => linkAt \in headers' /\ target' = Height[linkAt] /\ applied = 0
    PROVE  ReorgLinked'
<1>1. \A i : Below(i)' = Below(i)
  BY Zenon DEF Below
<1> QED
  BY Zenon, <1>1 DEF ReorgLinked

(* A step that ends it *)
LEMMA ReorgDropped == ASSUME DropLocals, pc' \notin {"apply", "link"} PROVE ReorgLinked'
BY DEF DropLocals, DropRewindLocals, ReorgLinked

(* rewind_to_height returns to reorganize_chain with the fork block as the best. *)
LEMMA RewoundToLink ==
    ASSUME ChainInv, NeverPastHorizon, NoPending, Returned, linkAt \in headers, target = Height[linkAt]
    PROVE  bestBlock = linkAt
<1>1. linkAt \in headers /\ lastHeader \in headers /\ target = Height[linkAt] /\ bestBlock = lastHeader
  BY Zenon DEF ChainInv, HeadersFormChain, NoPending
<1>2. Height[linkAt] \in Nat /\ Height[lastHeader] \in Nat
  BY <1>1, GenesisBlock DEF ChainInv, TypeOK, TablesTyped
<1>3. Height[linkAt] <= Height[lastHeader]
  BY Zenon, <1>1 DEF ChainInv, HeadersFormChain
<1>4. Height[lastHeader] <= Height[linkAt]
  <2>1. CASE pc = "trim" /\ Height[lastHeader] = TrimTo /\ BestHeight <= target
    BY <1>1, <1>2, <2>1 DEF BestHeight
  <2>2. CASE pc = "rewind" /\ Height[lastHeader] <= RewindStop
    BY <1>1, <2>2 DEF RewindStop, NeverPastHorizon
  <2> QED
    BY Zenon, <2>1, <2>2 DEF Returned
<1>5. Height[lastHeader] = Height[linkAt]
  BY <1>2, <1>3, <1>4
<1> QED
  BY Zenon, <1>1, <1>5 DEF ChainInv, HeadersFormChain

(* The new chain stays linked down to the fork block. *)
LEMMA ReorgLinkedStep ==
    ASSUME ChainInv, LinkFound, NeverPastHorizon, SelectInv, [CrashNext]_vars
    PROVE  ReorgLinked'
<1>0. ChainSound /\ NoPending /\ ReorgLinked /\ StartBound
  BY Zenon DEF SelectInv
<1>1. CASE Quiet
  BY Zenon, <1>0, <1>1, ReorgKept DEF Quiet, ReorgLinked
<1>2. CASE \E b \in Block : AddBlock(b)
  <2>1. pc = "idle" /\ pc' = "insert" /\ UNCHANGED <<rewindLocals, reorgLocals>> /\ return = "idle"
    BY Zenon, <1>2, AddBlockMoves DEF LinkFound
  <2> QED
    BY Zenon, <1>0, <2>1, ReorgKept
<1>3. CASE Inserting
  BY Zenon, <1>0, <1>3, ReorgKept DEF Inserting, ReorgLinked
<1>4. CASE RewindBlocks
  BY Zenon, <1>0, <1>4, RewindBlocksMoves, ReorgKept DEF ReorgLinked
<1>5. CASE RewindBlock
  <2>1. /\ headers' = headers \ {lastHeader} /\ pc' = "rewind" /\ UNCHANGED <<target, return, reorgLocals>>
    BY Zenon, <1>5, RewindMoves
  <2>2. target \in Nat /\ lastHeader \in Block
    BY Zenon DEF ChainInv, TypeOK, LocalsTyped, TablesTyped
  <2>3. Height[lastHeader] > target
    BY Zenon, <1>5 DEF RewindBlock, RewindStop, NeverPastHorizon
  <2>4. return = "apply" => linkAt # lastHeader
    BY <1>0, <2>2, <2>3, GenesisBlock DEF ReorgLinked
  <2>5. return' = "apply" => linkAt \in headers' /\ target' = Height[linkAt] /\ applied = 0
    BY <1>0, <2>1, <2>4 DEF ReorgLinked
  <2> QED
    BY Zenon, <1>0, <2>1, <2>5, ReorgKept
<1>6. CASE Returned
  <2>1. pc' = return /\ return' = "idle" /\ UNCHANGED <<mainChain, linkAt, chain, applied>>
    BY Zenon, <1>6 DEF Returned
  <2>2. return # "link"
    BY DEF ChainInv, TypeOK, LocalsTyped
  <2>3. ASSUME pc' = "apply" PROVE bestBlock' = Below(applied + 1) /\ applied <= Len(chain)
    <3>1. bestBlock = linkAt /\ applied = 0
      BY Zenon, <1>0, <1>6, <2>1, <2>3, RewoundToLink DEF ReorgLinked
    <3>2. chain \in Seq(Block)
      BY Zenon DEF ChainInv, TypeOK, LocalsTyped
    <3> QED
      BY <2>1, <3>1, <3>2 DEF Below
  <2> QED
    BY Zenon, <1>0, <2>1, <2>2, <2>3, ReorgKept
<1>7. CASE SwapBegin
  BY Zenon, <1>0, <1>7, SwapBeginMoves, ReorgKept
<1>8. CASE \E t \in Block : SelectTip(t)
  <2>1. pc = "select" /\ pc' = "link" /\ UNCHANGED <<rewindLocals, chain, applied>>
    BY Zenon, <1>8, SelectMoves
  <2>2. return' = "idle" /\ chain' = <<>> /\ applied' = 0
    BY Zenon, <1>0, <2>1 DEF LinkFound, StartBound, Early
  <2> QED
    BY <2>1, <2>2 DEF ReorgLinked
<1>9. CASE LinkBlock
  <2>1. /\ chain' = <<linkAt>> \o chain /\ linkAt' = Parent[linkAt] /\ pc = "link" /\ UNCHANGED <<mainChain, applied>>
        /\ linkAt \in Block /\ pc' \in {"trim", "link"}
        /\ (linkAt' \in headers /\ target' = Height[linkAt']) \/ return' = return
    BY Zenon, <1>9, LinkMoves
  <2>2. chain \in Seq(Block) /\ applied = 0 /\ return = "idle"
    BY Zenon, <1>0, <2>1 DEF ChainInv, TypeOK, LocalsTyped, ReorgLinked, LinkFound
  <2>3. /\ \A i \in DOMAIN chain' : chain'[i] = IF i = 1 THEN linkAt ELSE chain[i - 1]
        /\ \A i \in DOMAIN chain' : i \in Nat /\ (i # 1 => i - 1 \in DOMAIN chain)
    BY <2>1, <2>2
  <2>4. ASSUME NEW i \in DOMAIN chain' PROVE Parent[chain'[i]] = Below(i)'
    <3>1. CASE i = 1
      BY <2>1, <2>3, <3>1 DEF Below
    <3>2. CASE i # 1
      <4>1. i - 1 \in DOMAIN chain /\ chain'[i] = chain[i - 1]
        BY <2>3, <3>2
      <4>2. Parent[chain[i - 1]] = Below(i - 1)
        BY Zenon, <1>0, <4>1 DEF ReorgLinked
      <4>3. i - 1 \in DOMAIN chain'
        BY <2>1, <2>2, <4>1
      <4>4. chain'[i - 1] = Below(i - 1)
        BY Zenon, <2>3, <4>3 DEF Below
      <4> QED
        BY Zenon, <3>2, <4>1, <4>2, <4>4 DEF Below
    <3> QED
      BY <3>1, <3>2
  <2> QED
    BY <2>1, <2>2, <2>4 DEF ReorgLinked
<1>10. CASE ApplyBlock
  <2>1. /\ applied + 1 \in DOMAIN chain /\ bestBlock' = chain[applied + 1] /\ applied' = applied + 1
        /\ pc = "apply" /\ pc' = "apply" /\ UNCHANGED <<return, linkAt, chain>>
    BY Zenon, <1>0, <1>10, ApplyMoves
  <2>2. chain \in Seq(Block) /\ applied \in Nat /\ return' # "apply"
    BY <2>1 DEF ChainInv, TypeOK, LocalsTyped, LinkFound
  <2>3. bestBlock' = Below(applied + 1)' /\ applied' <= Len(chain)
    BY <2>1, <2>2 DEF Below
  <2>4. \A i : Below(i)' = Below(i)
    BY Zenon, <2>1 DEF Below
  <2> QED
    BY Zenon, <1>0, <2>1, <2>2, <2>3, <2>4 DEF ReorgLinked
<1>11. CASE Undone
  BY Zenon, <1>0, <1>11, ReorgKept DEF Undone
<1>12. CASE Restore /\ removed # <<>>
  BY Zenon, <1>12, RestoreMoves, ReorgDropped
<1>13. CASE Finished \/ Ended
  BY Zenon, <1>13, ReorgDropped DEF Finished, Ended
<1>14. CASE Finishing
  <2>1. return = "idle"
    BY Zenon, <1>14 DEF Finishing, LinkFound
  <2> QED
    BY Zenon, <1>0, <1>14, <2>1, ReorgKept DEF Finishing
<1> QED
  BY Zenon, <1>0, <1>1, <1>2, <1>3, <1>4, <1>5, <1>6, <1>7, <1>8, <1>9, <1>10, <1>11, <1>12, <1>13, <1>14, CrashShapes

-----------------------------------------------------------------------------
(* From the best block the operation started with, every step stays on the
   way to a stronger one. *)
LEMMA WayStep ==
    ASSUME ChainInv, NeverPastHorizon, SelectInv, [CrashNext]_vars, pc # "idle"
    PROVE  \A b \in Touched' : OnTheWay(start, b)
<1>0. ChainSound /\ NoPending /\ StartBound /\ \A b \in Touched : OnTheWay(start, b)
  BY Zenon DEF SelectInv, StartBound
<1>1. /\ bestBlock \in Touched /\ Elements(chain) \subseteq Touched
      /\ Elements(rewound) \subseteq Touched /\ Elements(removed) \subseteq Touched
  BY DEF Touched
<1>2. Elements(<<>>) = {} /\ rewound \in Seq(Block) /\ removed \in Seq(Block) /\ headers \subseteq Block
  BY DEF Elements, ChainInv, TypeOK, LocalsTyped, TablesTyped
<1>3. [Next]_vars
  BY Zenon DEF Next
<1>4. OnTheWay(start, bestBlock')
  <2>1. CASE UNCHANGED mainChain
    BY Zenon, <1>0, <1>1, <2>1
  <2>2. CASE RewindBlock
    <3>1. /\ bestBlock' = Parent[bestBlock] /\ bestBlock # Genesis /\ bestBlock \in headers
          /\ Parent[bestBlock] \in headers /\ Height[bestBlock] = Height[Parent[bestBlock]] + 1
      BY Zenon, <1>0, <2>2, RewindMoves DEF NoPending
    <3>2. Linked(bestBlock)
      BY <1>2, <3>1, GenesisBlock DEF Linked
    <3> QED
      BY Zenon, <1>0, <1>1, <3>1, <3>2, OnTheWayDown
  <2>3. CASE ApplyBlock
    BY Zenon, <1>0, <1>1, <2>3, ApplyMoves
  <2>4. CASE Restore /\ removed # <<>>
    <3>1. removed[1] \in Elements(removed)
      BY <1>2, <2>4 DEF Elements
    <3> QED
      BY Zenon, <1>0, <1>1, <2>4, <3>1, RestoreMoves
  <2> QED
    BY Zenon, <1>0, <2>1, <2>2, <2>3, <2>4, ChainMoves
<1>5. \A b \in Elements(chain') : OnTheWay(start, b)
  <2>1. CASE chain' \in {chain, <<>>}
    BY Zenon, <1>0, <1>1, <1>2, <2>1
  <2>2. CASE LinkBlock
    <3>1. linkAt \in Block /\ pc = "link" /\ Elements(chain') \subseteq {linkAt} \cup Elements(chain)
      BY Zenon, <2>2, LinkMoves
    <3>2. OnTheWay(start, linkAt)
      BY Zenon, <1>0, <3>1 DEF StartBound
    <3> QED
      BY Zenon, <1>0, <1>1, <3>1, <3>2
  <2> QED
    BY Zenon, <1>0, <2>1, <2>2, ChainSteps
<1>6. \A b \in Elements(rewound') : OnTheWay(start, b)
  <2>1. Elements(Append(rewound, lastHeader)) \subseteq Elements(rewound) \cup {bestBlock}
    BY <1>0, <1>2 DEF Elements, NoPending
  <2> QED
    BY Zenon, <1>0, <1>1, <1>2, <1>3, <2>1, RemovedSteps
<1>7. \A b \in Elements(removed') : OnTheWay(start, b)
  BY Zenon, <1>0, <1>1, <1>2, <1>3, RemovedSteps
<1> QED
  BY Zenon, <1>4, <1>5, <1>6, <1>7 DEF Touched

(* Nothing is left of the operation at its end. *)
LEMMA StartDropped == ASSUME DropLocals, pc' = "idle" PROVE StartBound'
BY DEF DropLocals, DropRewindLocals, StartBound, Early

(* Once a reorg has begun only the way matters. *)
LEMMA StartLate ==
    ASSUME ~Early', pc' # "link", start' = start, \A b \in Touched' : OnTheWay(start, b)
    PROVE  StartBound'
BY Zenon DEF StartBound, Early

(* The best block does not move before a reorg begins, and stays on the way
   after that. *)
LEMMA StartBoundStep ==
    ASSUME ChainInv, LinkFound, NeverPastHorizon, SelectInv, [CrashNext]_vars
    PROVE  StartBound'
<1>0. ChainSound /\ NoPending /\ ReorgLinked /\ StartBound
  BY Zenon DEF SelectInv
<1>w. pc # "idle" => \A b \in Touched' : OnTheWay(start, b)
  BY Zenon, WayStep
<1> USE DEF Early
<1>1. CASE Quiet
  <2>1. Touched' = Touched /\ BestHeight' = BestHeight
    BY Zenon, <1>1 DEF Quiet, Touched, BestHeight
  <2> QED
    BY Zenon, <1>0, <1>1, <2>1 DEF Quiet, StartBound
<1>2. CASE \E b \in Block : AddBlock(b)
  <2>1. /\ pc = "idle" /\ pc' = "insert" /\ start' = bestBlock /\ UNCHANGED <<mainChain, rewindLocals, reorgLocals>>
        /\ return = "idle" /\ chain = <<>> /\ removed = <<>> /\ applied = 0 /\ rewound = <<>>
    BY Zenon, <1>0, <1>2, AddBlockMoves DEF LinkFound, StartBound, ChainInv, RewoundChains
  <2>2. Elements(<<>>) = {} /\ bestBlock \in Block
    BY DEF Elements, ChainInv, TypeOK, TablesTyped
  <2>3. Touched' = {bestBlock}
    BY <2>1, <2>2 DEF Touched
  <2>4. OnTheWay(bestBlock, bestBlock)
    BY Zenon, <2>2, OnTheWayFrom
  <2> QED
    BY <2>1, <2>3, <2>4 DEF StartBound
<1>3. CASE Inserting
  <2>1. /\ pc \in {"insert", "header", "find"} /\ pc' \in {"header", "find", "swap"}
        /\ UNCHANGED <<mainChain, start, rewindLocals, reorgLocals>> /\ return = "idle"
    BY Zenon, <1>3 DEF Inserting, LinkFound
  <2> QED
    BY <1>0, <1>w, <2>1 DEF StartBound
<1>4. CASE RewindBlocks
  <2>1. pc = "trim" /\ pc' = "rewind" /\ BestHeight > target /\ start' = start /\ return' = return
    BY Zenon, <1>4, RewindBlocksMoves
  <2>2. return # "select"
    BY <1>0, <2>1, GenesisBlock DEF StartBound, BestHeight, ChainInv, TypeOK, TablesTyped
  <2> QED
    BY Zenon, <1>w, <2>1, <2>2, StartLate
<1>5. CASE RewindBlock
  <2>1. pc = "rewind" /\ pc' = "rewind" /\ start' = start /\ return' = return
    BY Zenon, <1>5, RewindMoves
  <2> QED
    BY Zenon, <1>0, <1>w, <2>1, StartLate DEF StartBound
<1>6. CASE Returned
  <2>1. /\ pc \in {"trim", "rewind"} /\ pc' = return /\ return' = "idle" /\ start' = start
        /\ return # "apply" => removed' = removed
        /\ UNCHANGED <<mainChain, chain, applied>>
    BY Zenon, <1>6 DEF Returned
  <2>2. CASE return = "select"
    BY <1>0, <1>w, <2>1, <2>2 DEF StartBound
  <2>3. CASE return # "select"
    <3>1. pc' \in {"apply", "restore"}
      BY <1>6, <2>1, <2>3 DEF Returned, ChainInv, TypeOK, LocalsTyped
    <3> QED
      BY Zenon, <1>w, <2>1, <3>1, StartLate
  <2> QED
    BY <2>2, <2>3
<1>7. CASE SwapBegin
  <2>1. /\ pc = "swap" /\ pc' = "trim" /\ target' = BestHeight /\ return' = "select"
        /\ UNCHANGED <<mainChain, start, rewound, reorgLocals>>
    BY Zenon, <1>7, SwapBeginMoves
  <2> QED
    BY <1>0, <1>w, <2>1 DEF StartBound, BestHeight
<1>8. CASE \E t \in Block : SelectTip(t)
  <2>1. PICK t \in Block : SelectTip(t)
    BY Zenon, <1>8
  <2>2. /\ pc = "select" /\ pc' = "link" /\ linkAt' = t /\ Strength[t] > Strength[bestBlock]
        /\ start' = start /\ return' = return
    BY Zenon, <2>1, SelectMoves
  <2>3. bestBlock = start /\ start \in Block /\ return = "idle"
    BY Zenon, <1>0, <2>2 DEF StartBound, ChainInv, TypeOK, ControlTyped, LinkFound
  <2>4. OnTheWay(start, t)
    BY Zenon, <2>2, <2>3, OnTheWayFrom
  <2> QED
    BY <1>w, <2>2, <2>3, <2>4 DEF StartBound
<1>9. CASE LinkBlock
  <2>1. /\ linkAt \in accumulated /\ linkAt \in Block /\ linkAt' = Parent[linkAt] /\ pc = "link"
        /\ start' = start /\ return' \in {"apply", return} /\ pc' \in {"trim", "link"}
    BY Zenon, <1>9, LinkMoves
  <2>2. return = "idle" /\ OnTheWay(start, linkAt)
    BY Zenon, <1>0, <2>1 DEF LinkFound, StartBound
  <2>3. ASSUME linkAt' \in Block PROVE OnTheWay(start, linkAt')
    <3>1. linkAt \in HeaderValid /\ linkAt # Genesis
      BY <1>0, <2>1, <2>3, TreeAssumption DEF TreeAssumption, ChainSound
    <3>2. Linked(linkAt)
      BY Zenon, <2>1, <2>3, <3>1, ValidLinked
    <3> QED
      BY Zenon, <2>1, <2>2, <3>2, OnTheWayDown
  <2> QED
    BY <1>w, <2>1, <2>2, <2>3 DEF StartBound
<1>10. CASE ApplyBlock
  <2>1. pc = "apply" /\ pc' = "apply" /\ start' = start /\ return' = return
    BY Zenon, <1>0, <1>10, ApplyMoves
  <2> QED
    BY Zenon, <1>w, <2>1, StartLate DEF LinkFound
<1>11. CASE Undone
  BY Zenon, <1>w, <1>11, StartLate DEF Undone
<1>12. CASE Restore /\ removed # <<>>
  BY Zenon, <1>12, RestoreMoves, StartDropped
<1>13. CASE Finished
  BY Zenon, <1>w, <1>13, StartLate DEF Finished, DropLocals, DropRewindLocals
<1>14. CASE Finishing
  <2>1. return = "idle"
    BY Zenon, <1>14 DEF Finishing, LinkFound
  <2> QED
    BY Zenon, <1>w, <1>14, <2>1, StartLate DEF Finishing
<1>15. CASE Ended
  BY Zenon, <1>15, StartDropped DEF Ended
<1> QED
  BY Zenon, <1>0, <1>1, <1>2, <1>3, <1>4, <1>5, <1>6, <1>7, <1>8, <1>9, <1>10, <1>11, <1>12, <1>13, <1>14, <1>15, CrashShapes

-----------------------------------------------------------------------------
(* Taking the lock records the best block, which does not move while the lock
   is free. *)
LEMMA CrashIdle ==
    ASSUME ChainInv, NeverPastHorizon, NoPending, ChainSound, [CrashNext]_vars, pc = "idle"
    PROVE  bestBlock' = bestBlock /\ (pc' = "idle" \/ start' = bestBlock)
<1>1. CASE Quiet \/ Ended
  BY Zenon, <1>1 DEF Quiet, Ended
<1>2. CASE \E b \in Block : AddBlock(b)
  BY Zenon, <1>2, AddBlockMoves
<1>3. CASE Inserting \/ Returned \/ Undone \/ Finished \/ Finishing
  BY Zenon, <1>3 DEF Inserting, Returned, Undone, Finished, Finishing
<1>4. CASE RewindBlocks \/ RewindBlock \/ SwapBegin \/ LinkBlock \/ ApplyBlock \/ Restore \/ \E t \in Block : SelectTip(t)
  BY Zenon, <1>4 DEF RewindBlocks, RewindBlock, SwapBegin, LinkBlock, ApplyBlock, Restore, SelectTip
<1> QED
  BY Zenon, <1>1, <1>2, <1>3, <1>4, CrashShapes

(* The record is kept until the lock is released. *)
LEMMA CrashBusy ==
    ASSUME ChainInv, NeverPastHorizon, NoPending, ChainSound, [CrashNext]_vars, pc # "idle", pc' # "idle"
    PROVE  start' = start
<1>1. CASE Quiet \/ Inserting \/ Returned \/ Undone \/ Finished \/ Finishing \/ Ended
  BY Zenon, <1>1 DEF Quiet, Inserting, Returned, Undone, Finished, Finishing, Ended
<1>2. CASE \E b \in Block : AddBlock(b) \/ SelectTip(b)
  BY Zenon, <1>2, AddBlockMoves, SelectMoves
<1>3. CASE RewindBlocks \/ RewindBlock \/ SwapBegin
  BY Zenon, <1>3, RewindBlocksMoves, RewindMoves, SwapBeginMoves
<1>4. CASE LinkBlock \/ ApplyBlock \/ (Restore /\ removed # <<>>)
  BY Zenon, <1>4, LinkMoves, ApplyMoves, RestoreMoves
<1> QED
  BY Zenon, <1>1, <1>2, <1>3, <1>4, CrashShapes

-----------------------------------------------------------------------------
(* The abstract specification reads the same block tree. *)
LEMMA SameAncestors == ASSUME NEW b \in Block PROVE Selection!AncestorsOf[b] = DownFrom(b) \ {b}
BY Zenon DEF Selection!AncestorsOf, Selection!DownFrom, Selection!Closed, Selection!Linked, DownFrom, Closed, Linked

(* A sound block ends a chain that is valid there. *)
LEMMA ValidChainSound == ASSUME NEW b, Sound(b) PROVE Selection!ValidChain(b)
<1>1. b \in Block /\ b \in DownFrom(b) /\ Selection!AncestorsOf[b] = DownFrom(b) \ {b}
  BY DownFromSelf, SameAncestors DEF Sound
<1> QED
  BY <1>1 DEF Sound, Selection!ValidChain

(* What a reader who waits for the lock sees is one step of ChainSelection:
   the best block stays, or the operation that ends has moved it. *)
LEMMA SelectStep ==
    ASSUME ChainInv, LinkFound, ArchivalInv, SelectInv, SelectInv', ChainInv', [CrashNext]_vars
    PROVE  [Selection!Next]_VisibleBest
<1>1. CASE pc' # "idle"
  <2>1. CASE pc = "idle"
    <3>1. start' = bestBlock
      BY Zenon, <1>1, <2>1, CrashIdle DEF SelectInv, ArchivalInv
    <3> QED
      BY Zenon, <1>1, <2>1, <3>1 DEF VisibleBest
  <2>2. CASE pc # "idle"
    <3>1. start' = start
      BY Zenon, <1>1, <2>2, CrashBusy DEF SelectInv, ArchivalInv
    <3> QED
      BY Zenon, <1>1, <2>2, <3>1 DEF VisibleBest
  <2> QED
    BY <2>1, <2>2
<1>2. CASE pc' = "idle" /\ pc = "idle"
  BY Zenon, <1>2, CrashIdle DEF VisibleBest, SelectInv, ArchivalInv
<1>3. CASE pc' = "idle" /\ pc # "idle"
  <2>1. bestBlock' \in Touched' /\ VisibleBest' = bestBlock' /\ VisibleBest = start
    BY Zenon, <1>3 DEF Touched, VisibleBest
  <2>2. OnTheWay(start, bestBlock')
    BY Zenon, <1>3, <2>1, WayStep DEF ArchivalInv
  <2>3. Sound(bestBlock')
    BY Zenon DEF SelectInv, ChainSound, ChainInv, HeadersFormChain
  <2>4. bestBlock' \in Block /\ Selection!ValidChain(bestBlock')
    BY Zenon, <2>3, ValidChainSound, SoundValid
  <2>5. PICK t \in Block : (t = start \/ Strength[t] > Strength[start]) /\ bestBlock' \in DownFrom(t)
    BY Zenon, <2>2 DEF OnTheWay
  <2>6. t \in DownFrom(t) /\ Selection!AncestorsOf[t] = DownFrom(t) \ {t}
    BY DownFromSelf, SameAncestors
  <2>7. bestBlock' \in Selection!AncestorsOf[t] \cup {t}
    BY <2>5, <2>6
  <2>8. bestBlock' \in Selection!Between
    BY Zenon, <2>1, <2>5, <2>7 DEF Selection!Between
  <2>9. Selection!Interrupt(bestBlock')
    BY Zenon, <2>1, <2>4, <2>8 DEF Selection!Interrupt
  <2> QED
    BY Zenon, <2>4, <2>9 DEF Selection!Next
<1> QED
  BY <1>1, <1>2, <1>3

-----------------------------------------------------------------------------
(* Initially there is the genesis block. *)
LEMMA SelectInit == ASSUME Init PROVE SelectInv /\ VisibleBest = Genesis
<1>1. Elements(<<>>) = {}
  BY DEF Elements
<1>2. ChainSound
  BY <1>1, GenesisSound DEF Init, ChainSound
<1>3. NoPending /\ PoolAgrees /\ ReorgLinked
  BY DEF Init, NoPending, PoolAgrees, OrphanTablesAgree, ReorgLinked
<1>4. StartBound
  BY DEF Init, StartBound, Early
<1> QED
  BY <1>2, <1>3, <1>4 DEF SelectInv, Init, VisibleBest

(* The inductive invariant of a node that adds blocks and may stop at any point *)
LEMMA SelectInvariant ==
    ASSUME PruningHorizon = 0
    PROVE  CrashSpec => [](ChainInv /\ LinkFound /\ ArchivalInv /\ SelectInv)
<1>1. CrashSpec => Spec
  <2>1. [CrashNext]_vars => [Next]_vars
    BY Zenon DEF Next
  <2> QED
    BY <2>1, PTL DEF CrashSpec, Spec
<1>2. Init => SelectInv
  BY SelectInit
<1>3. ChainInv /\ LinkFound /\ ArchivalInv /\ SelectInv /\ [CrashNext]_vars => SelectInv'
  <2> SUFFICES ASSUME ChainInv, LinkFound, ArchivalInv, SelectInv, [CrashNext]_vars PROVE SelectInv'
    OBVIOUS
  <2>1. ChainSound /\ NoPending /\ PoolAgrees /\ ReorgLinked /\ NeverPastHorizon
    BY Zenon DEF SelectInv, ArchivalInv
  <2>2. ChainSound' /\ NoPending'
    BY Zenon, <2>1, ChainSoundStep, NoPendingStep
  <2>3. PoolAgrees'
    BY Zenon, <2>1, PoolAgreesStep
  <2>4. ReorgLinked' /\ StartBound'
    BY Zenon, <2>1, ReorgLinkedStep, StartBoundStep
  <2> QED
    BY Zenon, <2>2, <2>3, <2>4 DEF SelectInv
<1> QED
  BY <1>1, <1>2, <1>3, ArchivalInvariant, PTL DEF CrashSpec

(* The tables of the orphan pool agree at every point at which an archival
   node that adds blocks may stop: no order of insertions, failed validations,
   reorgs, restores and clean-ups leaves a chain tip that
   fetch_all_orphan_chain_tips cannot read. *)
THEOREM PoolTablesAgree ==
    ASSUME PruningHorizon = 0
    PROVE  CrashSpec => []OrphanTablesAgree
<1>1. SelectInv => OrphanTablesAgree
  BY DEF SelectInv, PoolAgrees
<1> QED
  BY <1>1, SelectInvariant, PTL

(* An archival node that adds blocks and may stop at any point implements
   ChainSelection: between two operations the best block is the end of a chain
   of validated blocks, and an operation moves it to a block on the old chain
   or on a stronger one only. *)
THEOREM SelectionImplemented ==
    ASSUME PruningHorizon = 0
    PROVE  CrashSpec => SelectsChain
<1>1. Init => Selection!Init
  BY SelectInit DEF Selection!Init
<1>2. /\ ChainInv /\ LinkFound /\ ArchivalInv /\ SelectInv
      /\ (ChainInv /\ LinkFound /\ ArchivalInv /\ SelectInv)' /\ [CrashNext]_vars
      => [Selection!Next]_VisibleBest
  BY Zenon, SelectStep
<1> QED
  BY <1>1, <1>2, SelectInvariant, PTL DEF CrashSpec, SelectsChain, Selection!Spec
=============================================================================
