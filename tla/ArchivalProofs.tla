--------------------------- MODULE ArchivalProofs ---------------------------
(***************************************************************************)
(* An archival node (pruning horizon 0) has, at all times and for every    *)
(* block tree, exactly the validated bodies of its best chain, and no      *)
(* block is on the chain and in the orphan pool at once.                   *)
(***************************************************************************)
EXTENDS BlockchainDatabaseProofs

(* Blocks taken off the chain were validated when they were put on it. *)
RemovedValid == Elements(rewound) \subseteq BodyValid /\ Elements(removed) \subseteq BodyValid

(* Without a pruning horizon no rewind goes past it. *)
NeverPastHorizon == pastHorizon = FALSE /\ pc # "purge"

(* The block being added was not stored when the lock was taken. *)
CandidateNew == pc \in {"insert", "header"} => candidate \notin headers

(* The inductive invariant: what a restore puts back has to be known to be
   valid, and what is put into the pool not to be on the chain. *)
ArchivalInv == BestChainValid /\ OrphansOffChain /\ RemovedValid /\ NeverPastHorizon /\ CandidateNew

-----------------------------------------------------------------------------
USE DEF durable, mainChain, orphanPool, insertLocals, rewindLocals, reorgLocals, locals

(* The steps of add_block that write to the header and block tables *)
LEMMA AddBlockChainSteps ==
    ASSUME [CrashNext]_vars
    PROVE  \/ UNCHANGED mainChain
           \/ TrimHeader \/ RewindBlock \/ PurgeBody \/ ApplyBlock \/ (Restore /\ removed # <<>>)
<1>1. CASE UNCHANGED vars
  BY SMTT(30), <1>1 DEF vars
<1>2. CASE InsertStep
  BY ZenonT(30), <1>2 DEF InsertStep, InsertSeenOrphan, ParentTipUnreadable, RemoveParentTip, ParentInAllChains,
     InsertTrueOrphan, InsertOrphan, RejectHeader, InsertOrphanFails, VisitValidOrphan,
     VisitAccumulatedOrphan, DiscardInvalidOrphan, InsertNewTips
<1>3. CASE RewindStep
  BY ZenonT(30), <1>3 DEF RewindStep, TrimFails, NoBlocksToRewind, RewindBlocks, RewindUnderflows,
     RewindBlockFails, RewindDone, PurgeFails, PurgeDone, Restart
<1>4. CASE SwapStep
  BY ZenonT(30), <1>4 DEF SwapStep, SwapBegin, SelectUnreadable, SelectNone, SelectTip, LinkBlock, LinkMissing,
     ApplyWriteFails, ApplyInvalid, ApplyDone, Restore, RestoreFails
<1>5. CASE FinishStep
  BY <1>5 DEF FinishStep, PruneNotNeeded, PruneStart, PruneBlocks, Cleanup
<1>6. CASE \E b \in Block : AddBlockCall(b) \/ AddBlockReturnsEarly(b) \/ AddBlock(b)
  BY <1>6 DEF AddBlockCall, AddBlockReturnsEarly, AddBlock
<1>7. CASE Crash
  BY SMTT(30), <1>7 DEF Crash, Restart
<1> QED
  BY <1>1, <1>2, <1>3, <1>4, <1>5, <1>6, <1>7 DEF CrashNext, AddBlockNext, Step

(* All the steps that write to them *)
LEMMA MainChainSteps ==
    ASSUME [Next]_vars
    PROVE  \/ UNCHANGED mainChain
           \/ TrimHeader \/ RewindBlock \/ PurgeBody \/ ApplyBlock \/ (Restore /\ removed # <<>>)
           \/ \E b \in Block : InsertHeader(b) \/ InsertSyncedBlock(b)
           \/ ClearAllPendingHeaders
<1>1. CASE [CrashNext]_vars
  BY ZenonT(30), <1>1, AddBlockChainSteps
<1>2. CASE SyncStep
  BY ZenonT(30), <1>2 DEF SyncStep, SetDisableAddBlock, InsertBadBlock,
     RewindToHash, RewindToHeight, StartRewind, SwapToHighestPowChain, CleanupOrphanPool
<1> QED
  BY <1>1, <1>2 DEF Next

(* The steps that put a block into the orphan pool *)
LEMMA OrphanSteps ==
    ASSUME [Next]_vars
    PROVE  orphans' \subseteq orphans \/ InsertTrueOrphan \/ InsertOrphan \/ RewindBlock
<1> USE DEF DeleteOrphans, OrphansWithout, CleanupOrphans
<1>1. CASE UNCHANGED vars
  BY <1>1 DEF vars
<1>2. CASE InsertStep
  BY ZenonT(30), <1>2 DEF InsertStep, InsertSeenOrphan, ParentTipUnreadable, RemoveParentTip, ParentInAllChains,
     RejectHeader, InsertOrphanFails, VisitValidOrphan,
     VisitAccumulatedOrphan, DiscardInvalidOrphan, InsertNewTips
<1>3. CASE RewindStep
  BY ZenonT(30), <1>3 DEF RewindStep, TrimHeader, TrimFails, NoBlocksToRewind, RewindBlocks, RewindUnderflows,
     RewindBlockFails, RewindDone, PurgeBody, PurgeFails, PurgeDone, Restart
<1>4. CASE SwapStep
  BY ZenonT(30), <1>4 DEF SwapStep, SwapBegin, SelectUnreadable, SelectNone, SelectTip, LinkBlock, LinkMissing,
     ApplyBlock, ApplyWriteFails, ApplyInvalid, ApplyDone, Restore, RestoreFails
<1>5. CASE FinishStep
  BY <1>5 DEF FinishStep, PruneNotNeeded, PruneStart, PruneBlocks, Cleanup
<1>6. CASE \E b \in Block : AddBlockCall(b) \/ AddBlockReturnsEarly(b) \/ AddBlock(b)
  BY <1>6 DEF AddBlockCall, AddBlockReturnsEarly, AddBlock
<1>7. CASE Crash
  BY SMTT(30), <1>7 DEF Crash, Restart
<1>8. CASE SyncStep
  BY ZenonT(30), <1>8 DEF SyncStep, SetDisableAddBlock, InsertHeader, InsertSyncedBlock, InsertBadBlock, ClearAllPendingHeaders,
     RewindToHash, RewindToHeight, StartRewind, SwapToHighestPowChain, CleanupOrphanPool
<1> QED
  BY <1>1, <1>2, <1>3, <1>4, <1>5, <1>6, <1>7, <1>8 DEF Next, CrashNext, AddBlockNext, Step

(* prune_past_horizon is never set on an archival node. *)
LEMMA NeverPastHorizonStep ==
    ASSUME PruningHorizon = 0, ChainInv, NeverPastHorizon, [Next]_vars
    PROVE  NeverPastHorizon'
<1> USE DEF NeverPastHorizon
<1> return \in {"idle", "select", "apply", "restore"}
  BY DEF ChainInv, TypeOK, LocalsTyped
<1>1. CASE UNCHANGED vars
  BY SMTT(30), <1>1 DEF vars
<1>2. CASE InsertStep
  BY ZenonT(30), <1>2 DEF InsertStep, InsertSeenOrphan, ParentTipUnreadable, RemoveParentTip, ParentInAllChains,
     InsertTrueOrphan, InsertOrphan, RejectHeader, InsertOrphanFails, VisitValidOrphan,
     VisitAccumulatedOrphan, DiscardInvalidOrphan, InsertNewTips,
     Goto, Reject, Fail, Release, Unlock, DropLocals, DropRewindLocals
<1>3. CASE RewindStep
  BY ZenonT(30), <1>3 DEF RewindStep, TrimHeader, TrimFails, NoBlocksToRewind, RewindBlocks, RewindUnderflows,
     RewindBlock, RewindBlockFails, RewindDone, PurgeBody, PurgeFails, PurgeDone, Restart,
     ReturnRewind, Goto, Fail, Release, Unlock, DropLocals, DropRewindLocals
<1>4. CASE SwapStep
  BY ZenonT(30), <1>4 DEF SwapStep, SwapBegin, SelectUnreadable, SelectNone, SelectTip, LinkBlock, LinkMissing, ApplyBlock,
     ApplyWriteFails, ApplyInvalid, ApplyDone, Restore, RestoreFails, SwapReturns, RestoreAfter, CallRewind,
     Goto, Fail, Release, Unlock, DropLocals, DropRewindLocals
<1>5. CASE FinishStep
  BY <1>5 DEF FinishStep, PruneNotNeeded, PruneStart, PruneBlocks, Cleanup,
     Goto, Fail, Release, Unlock, DropLocals, DropRewindLocals
<1>6. CASE \E b \in Block : AddBlockCall(b) \/ AddBlockReturnsEarly(b) \/ AddBlock(b)
  BY <1>6 DEF AddBlockCall, AddBlockReturnsEarly, AddBlock, Acquire
<1>7. CASE Crash
  BY SMTT(30), <1>7 DEF Crash, Restart, Unlock, DropLocals, DropRewindLocals
<1>8. CASE SyncStep
  BY ZenonT(30), <1>8 DEF SyncStep, SetDisableAddBlock, InsertHeader, InsertSyncedBlock, InsertBadBlock, ClearAllPendingHeaders,
     RewindToHash, RewindToHeight, StartRewind, SwapToHighestPowChain, CleanupOrphanPool, Committed, Acquire
<1> QED
  BY ZenonT(30), <1>1, <1>2, <1>3, <1>4, <1>5, <1>6, <1>7, <1>8 DEF Next, CrashNext, AddBlockNext, Step

(* Nothing is stored between AddBlock taking the lock and the insertion. *)
LEMMA CandidateNewStep ==
    ASSUME ChainInv, CandidateNew, [Next]_vars
    PROVE  CandidateNew'
<1> USE DEF CandidateNew
<1> return \in {"idle", "select", "apply", "restore"}
  BY DEF ChainInv, TypeOK, LocalsTyped
<1>1. CASE UNCHANGED vars
  BY <1>1 DEF vars
<1>2. CASE InsertStep
  <2>1. CASE RemoveParentTip \/ ParentInAllChains
    BY <2>1 DEF RemoveParentTip, ParentInAllChains, Goto
  <2>2. CASE ~(RemoveParentTip \/ ParentInAllChains)
    <3>1. pc' \in {"idle", "find", "swap"}
      BY ZenonT(30), <1>2, <2>2 DEF InsertStep, InsertSeenOrphan, ParentTipUnreadable, InsertTrueOrphan, InsertOrphan,
         RejectHeader, InsertOrphanFails, VisitValidOrphan, VisitAccumulatedOrphan, DiscardInvalidOrphan,
         InsertNewTips, Goto, Reject, Fail, Release, Unlock
    <3> QED
      BY SMTT(30), <3>1
  <2> QED
    BY <2>1, <2>2
<1>3. CASE RewindStep
  BY ZenonT(30), <1>3 DEF RewindStep, TrimHeader, TrimFails, NoBlocksToRewind, RewindBlocks, RewindUnderflows,
     RewindBlock, RewindBlockFails, RewindDone, PurgeBody, PurgeFails, PurgeDone, Restart,
     ReturnRewind, Goto, Fail, Release, Unlock
<1>4. CASE SwapStep
  BY ZenonT(30), <1>4 DEF SwapStep, SwapBegin, SelectUnreadable, SelectNone, SelectTip, LinkBlock, LinkMissing, ApplyBlock,
     ApplyWriteFails, ApplyInvalid, ApplyDone, Restore, RestoreFails, SwapReturns, RestoreAfter, CallRewind,
     Goto, Fail, Release, Unlock
<1>5. CASE FinishStep
  BY <1>5 DEF FinishStep, PruneNotNeeded, PruneStart, PruneBlocks, Cleanup, Goto, Fail, Release, Unlock
<1>6. CASE \E b \in Block : AddBlockCall(b) \/ AddBlockReturnsEarly(b) \/ AddBlock(b)
  BY <1>6 DEF AddBlockCall, AddBlockReturnsEarly, AddBlock, Acquire
<1>7. CASE Crash
  BY <1>7 DEF Crash, Restart, Unlock
<1>8. CASE SyncStep
  <2>1. CASE \E flag \in BOOLEAN : SetDisableAddBlock(flag)
    BY <2>1 DEF SetDisableAddBlock
  <2>2. CASE ~\E flag \in BOOLEAN : SetDisableAddBlock(flag)
    <3>1. pc' \in {"idle", "trim", "swap"}
      BY ZenonT(30), <1>8, <2>2 DEF SyncStep, InsertHeader, InsertSyncedBlock, InsertBadBlock, ClearAllPendingHeaders,
         RewindToHash, RewindToHeight, StartRewind, SwapToHighestPowChain, CleanupOrphanPool, Committed, Acquire
    <3> QED
      BY SMTT(30), <3>1
  <2> QED
    BY <2>1, <2>2
<1> QED
  BY <1>1, <1>2, <1>3, <1>4, <1>5, <1>6, <1>7, <1>8 DEF Next, CrashNext, AddBlockNext, Step

(* What a step collects or hands over as removed blocks *)
LEMMA RemovedSteps ==
    ASSUME ChainInv, [Next]_vars
    PROVE  /\ rewound' \in {rewound, <<>>} \/ (RewindBlock /\ rewound' = Append(rewound, lastHeader))
           /\ removed' \in {removed, <<>>, rewound}
<1> return \in {"idle", "select", "apply", "restore"}
  BY DEF ChainInv, TypeOK, LocalsTyped
<1>1. CASE UNCHANGED vars
  BY SMTT(30), <1>1 DEF vars
<1>2. CASE InsertStep
  BY ZenonT(30), <1>2 DEF InsertStep, InsertSeenOrphan, ParentTipUnreadable, RemoveParentTip, ParentInAllChains,
     InsertTrueOrphan, InsertOrphan, RejectHeader, InsertOrphanFails, VisitValidOrphan,
     VisitAccumulatedOrphan, DiscardInvalidOrphan, InsertNewTips,
     Goto, Reject, Fail, Release, Unlock, DropLocals, DropRewindLocals
<1>3. CASE RewindStep
  BY ZenonT(30), <1>3 DEF RewindStep, TrimHeader, TrimFails, NoBlocksToRewind, RewindBlocks, RewindUnderflows,
     RewindBlock, RewindBlockFails, RewindDone, PurgeBody, PurgeFails, PurgeDone, Restart,
     ReturnRewind, Goto, Fail, Release, Unlock, DropLocals, DropRewindLocals
<1>4. CASE SwapStep
  BY ZenonT(30), <1>4 DEF SwapStep, SwapBegin, SelectUnreadable, SelectNone, SelectTip, LinkBlock, LinkMissing, ApplyBlock,
     ApplyWriteFails, ApplyInvalid, ApplyDone, Restore, RestoreFails, SwapReturns, RestoreAfter, CallRewind,
     Goto, Fail, Release, Unlock, DropLocals, DropRewindLocals
<1>5. CASE FinishStep
  BY SMTT(30), <1>5 DEF FinishStep, PruneNotNeeded, PruneStart, PruneBlocks, Cleanup,
     Goto, Fail, Release, Unlock, DropLocals, DropRewindLocals
<1>6. CASE \E b \in Block : AddBlockCall(b) \/ AddBlockReturnsEarly(b) \/ AddBlock(b)
  BY <1>6 DEF AddBlockCall, AddBlockReturnsEarly, AddBlock, Acquire
<1>7. CASE Crash
  BY SMTT(30), <1>7 DEF Crash, Restart, Unlock, DropLocals, DropRewindLocals
<1>8. CASE SyncStep
  BY ZenonT(30), <1>8 DEF SyncStep, SetDisableAddBlock, InsertHeader, InsertSyncedBlock, InsertBadBlock, ClearAllPendingHeaders,
     RewindToHash, RewindToHeight, StartRewind, SwapToHighestPowChain, CleanupOrphanPool, Committed, Acquire
<1> QED
  BY <1>1, <1>2, <1>3, <1>4, <1>5, <1>6, <1>7, <1>8 DEF Next, CrashNext, AddBlockNext, Step

(* rewind_to_height collects bodies only, which are valid. *)
LEMMA RemovedValidStep ==
    ASSUME ChainInv, BestChainValid, RemovedValid, [Next]_vars
    PROVE  RemovedValid'
<1> rewound \in Seq(Block) /\ removed \in Seq(Block) /\ lastHeader \in Block
  BY DEF ChainInv, TypeOK, LocalsTyped, TablesTyped
<1>1. Elements(<<>>) = {}
  BY DEF Elements
<1>2. Elements(removed') \subseteq BodyValid
  BY <1>1, RemovedSteps DEF RemovedValid
<1>3. Elements(rewound') \subseteq BodyValid
  <2>1. CASE rewound' \in {rewound, <<>>}
    BY <1>1, <2>1 DEF RemovedValid
  <2>2. CASE RewindBlock /\ rewound' = Append(rewound, lastHeader)
    <3>1. lastHeader \in BodyValid
      BY <2>2 DEF RewindBlock, RewindBlockOk, BestChainValid
    <3> QED
      BY <2>2, <3>1 DEF RemovedValid, Elements
  <2> QED
    BY <2>1, <2>2, RemovedSteps
<1> QED
  BY <1>2, <1>3 DEF RemovedValid

-----------------------------------------------------------------------------
(* The bodies of an archival node stay exactly those of its best chain. *)
LEMMA BestChainValidStep ==
    ASSUME ChainInv, ArchivalInv, [Next]_vars
    PROVE  BestChainValid'
<1> USE DEF ArchivalInv, ChainInv, TypeOK, TablesTyped
<1>0. /\ \A h \in headers : h \in Block /\ Height[h] \in Nat /\ Height[h] <= Height[lastHeader]
      /\ lastHeader \in headers /\ bestBlock \in headers
      /\ \A h, k \in headers : Height[h] = Height[k] => h = k
  BY GenesisBlock DEF HeadersFormChain
<1>1. CASE UNCHANGED mainChain
  BY <1>1 DEF BestChainValid, BestHeight
<1>2. CASE TrimHeader
  <2>1. headers' = headers \ {lastHeader} /\ lastHeader \notin bodies /\ bodies' = bodies /\ bestBlock' = bestBlock
    BY <1>2 DEF TrimHeader, DeleteLastHeader
  <2> QED
    BY <2>1 DEF BestChainValid, BestHeight
<1>3. CASE RewindBlock
  <2>1. lastHeader \in bodies /\ bodies' = bodies \ {lastHeader} /\ headers' = headers \ {lastHeader}
    BY <1>3 DEF RewindBlock, RewindBlockOk, DeleteLastHeader
  <2>2. bodies = headers
    BY SMTT(30), <1>0, <2>1 DEF BestChainValid, BestHeight
  <2>3. DeleteLastHeader /\ Height[lastHeader] > 0
    BY <1>3, GenesisBlock DEF RewindBlock, RewindStop, LocalsTyped
  <2>4. bestBlock' = lastHeader'
    BY SMTT(30), <1>3 DEF RewindBlock, RewoundBest, NeverPastHorizon, DeleteLastHeader
  <2>5. \A h \in headers' : Height[h] <= Height[bestBlock']
    BY <2>3, <2>4, LastHeaderDeleted
  <2>6. bodies' = {h \in headers' : Height[h] <= Height[bestBlock']}
    BY <2>1, <2>2, <2>5
  <2> QED
    BY <2>1, <2>6 DEF BestChainValid, BestHeight
<1>4. CASE PurgeBody
  BY <1>4 DEF PurgeBody, NeverPastHorizon
<1>5. CASE ApplyBlock
  <2> DEFINE b == chain[applied + 1]
  <2>1. b \in Block /\ b \in BodyValid /\ ExtendsHeaders(b) /\ ExtendsBest(b) /\ InsertBest({b}, b)
    BY SMTT(30), <1>5 DEF ApplyBlock, LocalsTyped, BodyValidates, ApplyOk, InsertBestOk
  <2> HIDE DEF b
  <2>2. lastHeader = bestBlock /\ Height[b] = Height[bestBlock] + 1
    BY <2>1 DEF ExtendsHeaders, ExtendsBest
  <2>3. bodies = headers
    BY <1>0, <2>2 DEF BestChainValid, BestHeight
  <2>4. headers' = headers \cup {b} /\ bodies' = headers' /\ bestBlock' = b
    BY <2>1, <2>3 DEF InsertBest
  <2>5. \A h \in headers' : Height[h] <= Height[b]
    BY <1>0, <2>2, <2>4
  <2> QED
    <3>1. bodies' = {h \in headers' : Height[h] <= Height[bestBlock']}
      BY <2>4, <2>5
    <3>2. bodies' \subseteq BodyValid
      BY SMTT(30), <2>1, <2>3, <2>4 DEF BestChainValid
    <3> QED
      BY <3>1, <3>2 DEF BestChainValid, BestHeight
<1>6. CASE Restore /\ removed # <<>>
  <2> DEFINE E == Elements(removed)
  <2>1. ExtendsHeaders(removed[Len(removed)]) /\ ExtendsBest(removed[Len(removed)]) /\ InsertBest(E, removed[1])
    BY <1>6 DEF Restore, RestoreOk, InsertBestOk
  <2>2. lastHeader = bestBlock
    BY <2>1 DEF ExtendsHeaders, ExtendsBest
  <2>3. bodies = headers
    BY <1>0, <2>2 DEF BestChainValid, BestHeight
  <2>4. headers' = headers \cup E /\ bodies' = headers' /\ bestBlock' = lastHeader' /\ E \subseteq BodyValid
    BY SMTT(30), <2>1, <2>3 DEF InsertBest, RemovedValid
  <2>5. \A h \in headers' : Height[h] <= Height[lastHeader']
    BY ZenonT(30), <1>6, <2>1, ChainRestored DEF HeadersFormChain
  <2> HIDE DEF E
  <2> QED
    BY SMTT(30), <2>4, <2>5, <2>3 DEF BestChainValid, BestHeight
<1>7. CASE \E b \in Block : InsertHeader(b)
  <2> PICK b \in Block : InsertHeader(b)
    BY SMTT(30), <1>7
  <2>1. Height[b] > Height[bestBlock] /\ headers' = headers \cup {b} /\ UNCHANGED <<bodies, bestBlock>>
    BY SMTT(30), <1>0 DEF InsertHeader, ExtendsHeaders
  <2>2. bodies = {h \in headers : Height[h] <= Height[bestBlock]} /\ Height[b] \in Nat /\ Height[bestBlock] \in Nat
    BY <1>0, GenesisBlock DEF BestChainValid, BestHeight
  <2>3. {h \in headers' : Height[h] <= Height[bestBlock]} = {h \in headers : Height[h] <= Height[bestBlock]}
    BY SMTT(30), <2>1, <2>2
  <2> QED
    BY <2>1, <2>2, <2>3 DEF BestChainValid, BestHeight
<1>8. CASE \E b \in Block : InsertSyncedBlock(b)
  <2> PICK b \in Block : InsertSyncedBlock(b)
    BY Zenon, <1>8
  <2>1. /\ b \in headers /\ b \notin bodies /\ b \in BodyValid /\ Parent[b] = bestBlock
        /\ headers' = headers /\ bodies' = bodies \cup {b} /\ bestBlock' = b
    BY SMTT(30) DEF InsertSyncedBlock, ExtendsBest
  <2>2. b # Genesis
    BY SMTT(30), <1>0, <2>1, GenesisBlock DEF BestChainValid, BestHeight, HeadersFormChain
  <2>3. Height[b] = Height[bestBlock] + 1
    BY SMTT(30), <2>1, <2>2 DEF HeaderLinks
  <2>4. \A h \in headers : Height[h] <= Height[b] <=> Height[h] <= Height[bestBlock] \/ h = b
    BY SMTT(30), <1>0, <2>1, <2>3
  <2>5. bodies' = {h \in headers' : Height[h] <= Height[bestBlock']}
    BY <2>1, <2>4 DEF BestChainValid, BestHeight
  <2> QED
    BY SMTT(30), <2>1, <2>5 DEF BestChainValid, BestHeight
<1>9. CASE ClearAllPendingHeaders
  <2>1. /\ headers' = {h \in headers : ~(Height[h] > Height[bestBlock])}
        /\ UNCHANGED <<bodies, bestBlock>>
    BY SMTT(30), <1>9 DEF ClearAllPendingHeaders, PendingHeaders, BestHeight
  <2> QED
    BY SMTT(30), <1>0, <2>1 DEF BestChainValid, BestHeight
<1> QED
  BY SMTT(30), <1>1, <1>2, <1>3, <1>4, <1>5, <1>6, <1>7, <1>8, <1>9, MainChainSteps

(* A block that enters the pool is not on the chain, or leaves it in the same
   transaction; one that enters the chain leaves the pool. *)
LEMMA OrphansOffChainStep ==
    ASSUME ChainInv, ArchivalInv, [Next]_vars
    PROVE  OrphansOffChain'
<1> USE DEF ArchivalInv, OrphansOffChain
<1>1. bodies \subseteq headers
  BY SMTT(30) DEF BestChainValid
<1>2. CASE InsertTrueOrphan \/ InsertOrphan
  BY <1>1, <1>2 DEF InsertTrueOrphan, InsertOrphan, CandidateNew
<1>3. CASE RewindBlock
  BY <1>3 DEF RewindBlock, RewoundOrphans, NeverPastHorizon
<1>4. CASE ApplyBlock
  BY <1>4 DEF ApplyBlock, DeleteOrphans, OrphansWithout, InsertBest
<1>5. CASE Restore /\ removed # <<>>
  BY <1>5 DEF Restore, DeleteOrphans, OrphansWithout, InsertBest
<1>6. CASE \E b \in Block : InsertSyncedBlock(b)
  BY <1>6 DEF InsertSyncedBlock, DeleteOrphans, OrphansWithout
<1>7. CASE orphans' \subseteq orphans /\ bodies' \subseteq bodies
  BY SMTT(30), <1>7
<1>8. UNCHANGED mainChain \/ TrimHeader \/ PurgeBody \/ ClearAllPendingHeaders \/ (\E b \in Block : InsertHeader(b))
      => bodies' \subseteq bodies
  BY ZenonT(30) DEF TrimHeader, PurgeBody, ClearAllPendingHeaders, InsertHeader
<1> QED
  BY SMTT(30), <1>2, <1>3, <1>4, <1>5, <1>6, <1>7, <1>8, MainChainSteps, OrphanSteps

(* The inductive invariant of an archival node holds at all times. *)
LEMMA ArchivalInvariant ==
    ASSUME PruningHorizon = 0
    PROVE  Spec => [](ChainInv /\ LinkFound /\ ArchivalInv)
<1>1. Init => ArchivalInv
  <2> SUFFICES ASSUME Init PROVE ArchivalInv
    OBVIOUS
  <2>1. BestChainValid
    <3>1. Genesis \in BodyValid
      BY TreeAssumption DEF TreeAssumption
    <3> QED
      BY SMTT(30), <3>1, GenesisBlock DEF Init, BestChainValid, BestHeight
  <2>2. OrphansOffChain /\ NeverPastHorizon /\ CandidateNew
    BY DEF Init, OrphansOffChain, NeverPastHorizon, CandidateNew
  <2>3. RemovedValid
    BY DEF Init, RemovedValid, Elements
  <2> QED
    BY <2>1, <2>2, <2>3 DEF ArchivalInv
<1>2. ChainInv /\ ArchivalInv /\ [Next]_vars => ArchivalInv'
  BY BestChainValidStep, OrphansOffChainStep, RemovedValidStep, NeverPastHorizonStep, CandidateNewStep DEF ArchivalInv
<1> QED
  BY <1>1, <1>2, ChainInvariant, PTL DEF Spec

(* On an archival node, the bodies are at all times those of the validated
   chain up to the best block: failed reorgs, restores, syncs, rewinds and
   restarts leave no hole and no unvalidated body. *)
THEOREM ArchivalChain ==
    ASSUME PruningHorizon = 0
    PROVE  Spec => []BestChainValid
<1>1. ArchivalInv => BestChainValid
  BY DEF ArchivalInv
<1> QED
  BY <1>1, ArchivalInvariant, PTL

(* On an archival node no block is on the main chain and in the orphan pool at
   once: what a rewind, a reorg, a restore or a sync moves leaves its old
   place in the same transaction. *)
THEOREM OrphansApart ==
    ASSUME PruningHorizon = 0
    PROVE  Spec => []OrphansOffChain
<1>1. ArchivalInv => OrphansOffChain
  BY DEF ArchivalInv
<1> QED
  BY <1>1, ArchivalInvariant, PTL
=============================================================================
