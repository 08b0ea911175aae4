---------------------- MODULE BlockchainDatabaseProofs ----------------------
(***************************************************************************)
(* Theorems about BlockchainDatabase for every block tree and every        *)
(* configuration: its type invariant and the shape of the header chain     *)
(* under all the operations of Next, restarts included.                    *)
(***************************************************************************)
EXTENDS BlockchainDatabase, TLAPS

(* Each stored header is one above a stored parent. *)
HeaderLinks ==
    \A h \in headers : h # Genesis => Parent[h] \in headers /\ Height[h] = Height[Parent[h]] + 1

(* The blocks of s are a chain, the highest first. *)
Descends(s) ==
    /\ \A i \in DOMAIN s : Height[s[i]] + i = Height[s[1]] + 1
    /\ \A i \in DOMAIN s : i + 1 \in DOMAIN s => Parent[s[i]] = s[i + 1]

(* What rewind_to_height has collected so far ends right above the last
   header, and is gone when it returns. *)
RewoundChains ==
    /\ Descends(rewound)
    /\ Descends(removed)
    /\ pc \notin {"rewind", "purge"} => rewound = <<>>
    /\ pc = "rewind" /\ rewound # <<>> =>
        /\ Parent[rewound[Len(rewound)]] = lastHeader
        /\ Height[rewound[Len(rewound)]] = Height[lastHeader] + 1

(* Outside rewind_to_height there is nowhere to return to, and once the fork
   has been linked to the main chain its block is known. *)
LinkFound ==
    /\ pc \notin {"trim", "rewind", "purge"} => return = "idle"
    /\ pc = "apply" \/ return = "apply" => linkAt \in Block

(* The inductive invariant, with LinkFound: restore_reorged_chain inserts what an earlier
   rewind removed, so the removed blocks have to be known to be a chain. *)
ChainInv == TypeOK /\ HeadersFormChain /\ HeaderLinks /\ RewoundChains

-----------------------------------------------------------------------------
USE DEF durable, mainChain, orphanPool, insertLocals, rewindLocals, reorgLocals, locals

(* The genesis block is the one block of height 0. *)
LEMMA GenesisBlock == Genesis \in Block /\ Height[Genesis] = 0 /\ Height \in [Block -> Nat]
BY TreeAssumption DEF TreeAssumption

(* fetch_chain_header_by_height finds the header of a height that is stored. *)
LEMMA HeaderAtFound ==
    ASSUME NEW h \in Nat, NEW b \in headers, Height[b] = h
    PROVE  HeaderAt(h) \in headers /\ Height[HeaderAt(h)] = h
BY DEF HeaderAt

(* A step that leaves the main chain alone and either drops what was rewound
   or keeps it for the purge preserves the invariant. *)
LEMMA QuietStep ==
    ASSUME ChainInv, TypeOK', UNCHANGED mainChain,
           removed' \in {removed, <<>>, rewound},
           rewound' = <<>> \/ (rewound' = rewound /\ pc' = "purge")
    PROVE  ChainInv'
<1>1. HeadersFormChain' /\ HeaderLinks'
  BY DEF ChainInv, mainChain, HeadersFormChain, HeaderLinks
<1>2. RewoundChains'
  BY DEF ChainInv, RewoundChains, Descends
<1> QED
  BY <1>1, <1>2 DEF ChainInv

(* A step that drops what was rewound keeps the removed blocks a chain. *)
LEMMA RewoundDropped ==
    ASSUME RewoundChains, rewound' = <<>>, removed' = removed
    PROVE  RewoundChains'
BY DEF RewoundChains, Descends

(* Dropping the locals gives each its initial value. *)
LEMMA DropTyped == ASSUME DropLocals PROVE LocalsTyped' /\ rewound' = <<>> /\ removed' = <<>>
BY GenesisBlock DEF DropLocals, DropRewindLocals, LocalsTyped

(* delete_orphan never puts a row into the pool that is not a block. *)
LEMMA DeleteOrphansTyped ==
    ASSUME TablesTyped, NEW D, DeleteOrphans(D)
    PROVE  orphans' \in SUBSET Block /\ accumulated' \in SUBSET Block /\ tips' \in SUBSET Block
BY DEF TablesTyped, DeleteOrphans, OrphansWithout, DataWithout, TipsWithout, HeirsOf

(* Returning from an operation releases the lock and nothing else. *)
LEMMA ReleaseTyped ==
    ASSUME ControlTyped, FlagsTyped, NEW r \in Results, Release(r)
    PROVE  ControlTyped' /\ LocalsTyped' /\ FlagsTyped' /\ rewound' = <<>> /\ removed' = <<>>
<1>1. LocalsTyped' /\ rewound' = <<>> /\ removed' = <<>>
  BY DropTyped DEF Release, Unlock
<1>2. ControlTyped'
  BY GenesisBlock DEF Release, Unlock, ControlTyped, Steps, Operations
<1>3. FlagsTyped'
  BY Zenon DEF Release, Unlock, DropLocals, DropRewindLocals, FlagsTyped
<1> QED
  BY <1>1, <1>2, <1>3

(* A failing operation leaves the database as it was. *)
LEMMA FailStep == ASSUME ChainInv, Fail, UNCHANGED durable PROVE ChainInv'
<1>1. ControlTyped' /\ LocalsTyped' /\ FlagsTyped' /\ rewound' = <<>> /\ removed' = <<>>
  BY ReleaseTyped DEF ChainInv, TypeOK, Fail, Results
<1>2. TablesTyped'
  BY DEF ChainInv, TypeOK, TablesTyped
<1> QED
  BY <1>1, <1>2, QuietStep DEF TypeOK

-----------------------------------------------------------------------------
(* insert_orphan_and_find_new_tips and find_orphan_descendant_tips_of only
   touch the orphan pool. *)
LEMMA InsertStepInv == ASSUME ChainInv, InsertStep PROVE ChainInv'
<1> USE DEF ChainInv, TypeOK
<1>1. CASE InsertSeenOrphan \/ ParentInAllChains
  <2>1. TablesTyped' /\ ControlTyped' /\ LocalsTyped'
    BY <1>1 DEF InsertSeenOrphan, ParentInAllChains, Goto, TablesTyped, ControlTyped, LocalsTyped, Steps
  <2>2. FlagsTyped'
    BY <1>1, Zenon DEF InsertSeenOrphan, ParentInAllChains, Goto, FlagsTyped
  <2>3. rewound' = <<>> /\ removed' = removed /\ UNCHANGED mainChain
    BY <1>1 DEF InsertSeenOrphan, ParentInAllChains, RewoundChains
  <2> QED
    BY <2>1, <2>2, <2>3, QuietStep
<1>2. CASE ParentTipUnreadable \/ InsertOrphanFails \/ \E c \in Block : VisitAccumulatedOrphan(c)
  BY <1>2, FailStep DEF ParentTipUnreadable, InsertOrphanFails, VisitAccumulatedOrphan
<1>3. CASE RejectHeader
  <2>1. ControlTyped' /\ LocalsTyped' /\ FlagsTyped' /\ rewound' = <<>> /\ removed' = <<>>
    BY <1>3, ReleaseTyped DEF RejectHeader, Reject, Results
  <2>2. TablesTyped' /\ UNCHANGED mainChain
    BY <1>3 DEF RejectHeader, TablesTyped
  <2> QED
    BY <2>1, <2>2, QuietStep
<1>4. CASE RemoveParentTip \/ InsertTrueOrphan
  <2>1. TablesTyped' /\ ControlTyped' /\ LocalsTyped'
    BY SMTT(30), <1>4 DEF RemoveParentTip, InsertTrueOrphan, Goto, TablesTyped, ControlTyped, LocalsTyped, Steps
  <2>2. FlagsTyped'
    BY <1>4, Zenon DEF RemoveParentTip, InsertTrueOrphan, Goto, FlagsTyped
  <2>3. rewound' = <<>> /\ removed' = removed /\ UNCHANGED mainChain
    BY <1>4 DEF RemoveParentTip, InsertTrueOrphan, RewoundChains
  <2> QED
    BY <2>1, <2>2, <2>3, QuietStep
<1>5. CASE InsertOrphan
  <2>1. TablesTyped' /\ ControlTyped' /\ LocalsTyped'
    BY <1>5 DEF InsertOrphan, LeafTip, Goto, TablesTyped, ControlTyped, LocalsTyped, Steps
  <2>2. FlagsTyped'
    BY <1>5, Zenon DEF InsertOrphan, Goto, FlagsTyped
  <2>3. rewound' = <<>> /\ removed' = removed /\ UNCHANGED mainChain
    BY <1>5 DEF InsertOrphan, RewoundChains
  <2> QED
    BY <2>1, <2>2, <2>3, QuietStep
<1>6. CASE \E c \in Block : VisitValidOrphan(c)
  <2> PICK c \in Block : VisitValidOrphan(c)
    BY <1>6
  <2>1. TablesTyped' /\ ControlTyped' /\ LocalsTyped'
    BY DEF VisitValidOrphan, LeafTip, Goto, TablesTyped, ControlTyped, LocalsTyped, Steps
  <2>2. FlagsTyped'
    BY Zenon DEF VisitValidOrphan, Goto, FlagsTyped
  <2>3. rewound' = <<>> /\ removed' = removed /\ UNCHANGED mainChain
    BY DEF VisitValidOrphan, RewoundChains
  <2> QED
    BY <2>1, <2>2, <2>3, QuietStep
<1>7. CASE \E c \in Block : DiscardInvalidOrphan(c)
  <2> PICK c \in Block : DiscardInvalidOrphan(c)
    BY <1>7
  <2>1. CASE DeleteOrphansOk({c})
    <3>1. TablesTyped'
      BY <2>1, DeleteOrphansTyped DEF DiscardInvalidOrphan, TablesTyped
    <3>2. ControlTyped' /\ LocalsTyped'
      BY <2>1 DEF DiscardInvalidOrphan, Goto, ControlTyped, LocalsTyped, Steps
    <3>3. FlagsTyped'
      BY <2>1, Zenon DEF DiscardInvalidOrphan, Goto, FlagsTyped
    <3>4. rewound' = <<>> /\ removed' = removed /\ UNCHANGED mainChain
      BY <2>1 DEF DiscardInvalidOrphan, RewoundChains
    <3> QED
      BY <3>1, <3>2, <3>3, <3>4, QuietStep
  <2>2. CASE ~DeleteOrphansOk({c})
    BY <2>2, FailStep DEF DiscardInvalidOrphan
  <2> QED
    BY <2>1, <2>2
<1>8. CASE InsertNewTips
  <2>1. CASE newTips \cap tips = {}
    <3>1. TablesTyped' /\ ControlTyped' /\ LocalsTyped'
      BY <1>8, <2>1 DEF InsertNewTips, Goto, TablesTyped, ControlTyped, LocalsTyped, Steps
    <3>2. FlagsTyped'
      BY <1>8, <2>1, Zenon DEF InsertNewTips, Goto, FlagsTyped
    <3>3. rewound' = <<>> /\ removed' = removed /\ UNCHANGED mainChain
      BY <1>8, <2>1 DEF InsertNewTips, RewoundChains
    <3> QED
      BY <3>1, <3>2, <3>3, QuietStep
  <2>2. CASE newTips \cap tips # {}
    BY <1>8, <2>2, FailStep DEF InsertNewTips
  <2> QED
    BY <2>1, <2>2
<1> QED
  BY <1>1, <1>2, <1>3, <1>4, <1>5, <1>6, <1>7, <1>8 DEF InsertStep

-----------------------------------------------------------------------------
(* delete_header of the last header uncovers its parent. *)
LEMMA LastHeaderDeleted ==
    ASSUME ChainInv, DeleteLastHeader, Height[lastHeader] > 0
    PROVE  /\ lastHeader' = Parent[lastHeader]
           /\ lastHeader' \in headers'
           /\ Genesis \in headers'
           /\ Height[lastHeader] = Height[lastHeader'] + 1
           /\ \A h \in headers' : Height[h] <= Height[lastHeader']
           /\ \A h, k \in headers' : Height[h] = Height[k] => h = k
           /\ HeaderLinks'
<1> USE DEF ChainInv, TypeOK, TablesTyped, HeadersFormChain, HeaderLinks
<1> DEFINE p == Parent[lastHeader]
<1>1. lastHeader # Genesis /\ p \in headers /\ Height[lastHeader] = Height[p] + 1
  BY GenesisBlock
<1>2. \A h \in headers : Height[h] \in Nat
  BY SMTT(30), GenesisBlock
<1>3. HeaderAt(Height[lastHeader] - 1) = p
  <2>1. Height[p] = Height[lastHeader] - 1 /\ Height[p] \in Nat
    BY <1>1, <1>2
  <2>2. HeaderAt(Height[p]) \in headers /\ Height[HeaderAt(Height[p])] = Height[p]
    BY ZenonT(30), <1>1, <2>1, HeaderAtFound
  <2> QED
    BY ZenonT(30), <1>1, <2>1, <2>2
<1>4. lastHeader' = p /\ headers' = headers \ {lastHeader}
  BY <1>3 DEF DeleteLastHeader
<1>5. p # lastHeader
  BY <1>1, <1>2
<1>6. \A h \in headers' : Height[h] <= Height[p]
  BY <1>1, <1>2, <1>4
<1>7. HeaderLinks'
  <2> SUFFICES ASSUME NEW h \in headers', h # Genesis
               PROVE  Parent[h] \in headers' /\ Height[h] = Height[Parent[h]] + 1
    BY DEF HeaderLinks
  <2>1. Height[h] < Height[lastHeader] /\ Parent[h] \in headers /\ Height[h] = Height[Parent[h]] + 1
    BY <1>1, <1>2, <1>4, <1>6
  <2> QED
    BY <2>1, <1>2, <1>4
<1> QED
  BY SMTT(30), <1>1, <1>4, <1>5, <1>6, <1>7

(* rewind_to_height returns to its caller, or releases the lock. *)
LEMMA ReturnRewindInv ==
    ASSUME ChainInv, NEW s, s \in {<<>>, rewound}, ReturnRewind(s), UNCHANGED durable
    PROVE  ChainInv'
<1> USE DEF ChainInv, TypeOK
<1>1. TablesTyped'
  BY DEF TablesTyped
<1>2. CASE return = "idle"
  <2>1. ControlTyped' /\ LocalsTyped' /\ FlagsTyped' /\ rewound' = <<>> /\ removed' = <<>>
    BY <1>2, ReleaseTyped DEF ReturnRewind, Results
  <2> QED
    BY <1>1, <2>1, QuietStep
<1>3. CASE return # "idle"
  <2>1. rewound' = <<>> /\ removed' \in {removed, <<>>, rewound}
    BY <1>3 DEF ReturnRewind, DropRewindLocals
  <2>2. ControlTyped'
    BY <1>3 DEF ReturnRewind, Goto, ControlTyped, LocalsTyped, Steps
  <2>3. LocalsTyped'
    <3> <<>> \in Seq(Block) /\ rewound \in Seq(Block) /\ removed \in Seq(Block)
      BY DEF LocalsTyped
    <3>1. rewound' \in Seq(Block) /\ removed' \in Seq(Block)
      BY <2>1, Zenon
    <3>2. target' = 0 /\ purgeAt' = 0 /\ return' = "idle" /\ UNCHANGED <<insertLocals, linkAt, chain, applied>>
      BY <1>3 DEF ReturnRewind, DropRewindLocals
    <3> QED
      BY <3>1, <3>2 DEF LocalsTyped
  <2>4. FlagsTyped'
    BY <1>3, Zenon DEF ReturnRewind, Goto, DropRewindLocals, FlagsTyped
  <2> QED
    BY <1>1, <2>1, <2>2, <2>3, <2>4, QuietStep
<1> QED
  BY <1>2, <1>3

(* The process stops and starts again with the main chain it had. *)
LEMMA RestartInv == ASSUME ChainInv, Restart PROVE ChainInv'
<1> USE DEF ChainInv, TypeOK
<1>1. LocalsTyped' /\ rewound' = <<>> /\ removed' = <<>> /\ UNCHANGED mainChain
  BY DropTyped DEF Restart, Unlock
<1>2. TablesTyped'
  BY DeleteOrphansTyped DEF Restart, CleanupOrphans, TablesTyped
<1>3. ControlTyped'
  BY GenesisBlock DEF Restart, Unlock, ControlTyped, Steps, Operations, Results
<1>4. FlagsTyped'
  BY Zenon DEF Restart, Unlock, DropLocals, DropRewindLocals, FlagsTyped
<1> QED
  BY <1>1, <1>2, <1>3, <1>4, QuietStep

(* rewind_to_height takes headers and blocks off the top of the chain. *)
LEMMA RewindStepInv == ASSUME ChainInv, RewindStep PROVE ChainInv'
<1> USE DEF ChainInv, TypeOK
<1>1. CASE TrimHeader
  <2>1. Height[lastHeader] > Height[bestBlock] /\ Height[bestBlock] >= 0
    BY <1>1, GenesisBlock DEF TrimHeader, TrimTo, BestHeight, TablesTyped, LocalsTyped
  <2>2. DeleteLastHeader /\ Height[lastHeader] > 0
    BY SMTT(30), <1>1, <2>1, GenesisBlock DEF TrimHeader, TablesTyped
  <2>3. HeadersFormChain' /\ HeaderLinks'
    <3>1. bestBlock' = bestBlock /\ bestBlock \in headers /\ bestBlock # lastHeader
      BY <1>1, <2>1, GenesisBlock DEF TrimHeader, HeadersFormChain, TablesTyped
    <3>2. bestBlock' \in headers'
      BY <2>2, <3>1 DEF DeleteLastHeader
    <3> QED
      BY <2>2, <3>2, LastHeaderDeleted DEF HeadersFormChain, HeaderLinks
  <2>4. RewoundChains'
    <3>1. rewound' = <<>> /\ removed' = removed /\ pc' = "trim"
      BY <1>1 DEF TrimHeader, Goto, RewoundChains
    <3> QED
      BY <3>1 DEF RewoundChains, Descends
  <2>5. TablesTyped'
    BY <1>1, <2>2, LastHeaderDeleted DEF TrimHeader, DeleteLastHeader, TablesTyped
  <2>6. ControlTyped' /\ LocalsTyped'
    BY <1>1 DEF TrimHeader, Goto, ControlTyped, LocalsTyped, Steps
  <2>7. FlagsTyped'
    BY <1>1, Zenon DEF TrimHeader, Goto, FlagsTyped
  <2> QED
    BY SMTT(30), <2>3, <2>4, <2>5, <2>6, <2>7
<1>2. CASE TrimFails \/ RewindBlockFails \/ PurgeFails
  BY <1>2, FailStep DEF TrimFails, RewindBlockFails, PurgeFails
<1>3. CASE NoBlocksToRewind
  BY SMTT(30), <1>3, ReturnRewindInv DEF NoBlocksToRewind
<1>4. CASE RewindBlocks
  <2>1. TablesTyped' /\ ControlTyped' /\ LocalsTyped'
    BY ZenonT(30), <1>4 DEF RewindBlocks, Goto, TablesTyped, ControlTyped, LocalsTyped, Steps
  <2>2. FlagsTyped'
    BY <1>4, Zenon DEF RewindBlocks, Goto, FlagsTyped
  <2>3. rewound' = <<>> /\ removed' = removed /\ UNCHANGED mainChain
    BY <1>4 DEF RewindBlocks, RewoundChains
  <2> QED
    BY <2>1, <2>2, <2>3, QuietStep
<1>5. CASE RewindUnderflows
  BY SMTT(30), <1>5, RestartInv DEF RewindUnderflows
<1>6. CASE RewindBlock
  <2>1. DeleteLastHeader /\ Height[lastHeader] > 0
    <3>1. DeleteLastHeader /\ Height[lastHeader] > RewindStop
      BY Zenon, <1>6 DEF RewindBlock
    <3>2. Height[lastHeader] \in Nat
      BY GenesisBlock DEF TablesTyped
    <3>3. RewindStop \in Nat
      BY Zenon DEF RewindStop, LocalsTyped
    <3> QED
      BY <3>1, <3>2, <3>3
  <2>2. HeaderAt(Height[lastHeader] - 1) = Parent[lastHeader] /\ Parent[lastHeader] = lastHeader'
    BY SMTT(30), <2>1, LastHeaderDeleted DEF DeleteLastHeader
  <2>3. bestBlock' \in headers'
    BY ZenonT(30), <1>6, <2>1, <2>2, LastHeaderDeleted DEF RewindBlock, RewoundBest
  <2>4. HeadersFormChain' /\ HeaderLinks'
    BY <2>1, <2>3, LastHeaderDeleted DEF HeadersFormChain, HeaderLinks
  <2>5. RewoundChains'
    <3>1. rewound \in Seq(Block) /\ lastHeader \in Block /\ rewound' = Append(rewound, lastHeader)
      BY ZenonT(30), <1>6 DEF RewindBlock, LocalsTyped, TablesTyped
    <3>2. pc' = "rewind" /\ removed' = removed
      BY SMTT(30), <1>6 DEF RewindBlock, Goto
    <3>3. Descends(rewound')
      <4> DEFINE n == Len(rewound)
      <4>1. n \in Nat /\ DOMAIN rewound = 1 .. n /\ DOMAIN rewound' = 1 .. n + 1
        BY <3>1
      <4>2. rewound'[n + 1] = lastHeader /\ \A i \in 1 .. n : rewound'[i] = rewound[i] /\ rewound[i] \in Block
        BY <3>1
      <4>3. n > 0 => Parent[rewound[n]] = lastHeader /\ Height[rewound[n]] = Height[lastHeader] + 1
        BY <1>6, <3>1 DEF RewindBlock, RewoundChains
      <4>4. n > 0 => Height[rewound[n]] + n = Height[rewound[1]] + 1
        BY <4>1 DEF RewoundChains, Descends
      <4>5. Height[lastHeader] \in Nat /\ \A i \in 1 .. n : Height[rewound[i]] \in Nat
        BY <3>1, <4>2, GenesisBlock
      <4>6. \A i \in 1 .. n + 1 : Height[rewound'[i]] + i = Height[rewound'[1]] + 1
        <5>1. \A i \in 1 .. n : Height[rewound[i]] + i = Height[rewound[1]] + 1
          BY <4>1 DEF RewoundChains, Descends
        <5>2. CASE n = 0
          BY <5>2, <4>2, <4>5
        <5>3. CASE n > 0
          <6>1. rewound'[1] = rewound[1] /\ Height[rewound'[n + 1]] + (n + 1) = Height[rewound'[1]] + 1
            BY SMTT(30), <5>3, <4>1, <4>2, <4>3, <4>4, <4>5
          <6> QED
            BY <5>1, <6>1, <4>1, <4>2
        <5> QED
          BY <4>1, <5>2, <5>3
      <4>7. \A i \in 1 .. n : Parent[rewound'[i]] = rewound'[i + 1]
        BY SMTT(30), <4>1, <4>2, <4>3 DEF RewoundChains, Descends
      <4> QED
        BY <4>1, <4>6, <4>7 DEF Descends
    <3>4. rewound'[Len(rewound')] = lastHeader
      BY <3>1
    <3> QED
      BY ZenonT(30), <2>1, <3>2, <3>3, <3>4, LastHeaderDeleted DEF RewoundChains, Descends
  <2>6. TablesTyped'
    BY ZenonT(30), <1>6, <2>1, <2>3, LastHeaderDeleted DEF RewindBlock, DeleteLastHeader, RewoundOrphans, RewoundTips, TablesTyped
  <2>7. ControlTyped' /\ LocalsTyped'
    BY <1>6 DEF RewindBlock, Goto, TablesTyped, ControlTyped, LocalsTyped, Steps
  <2>8. FlagsTyped'
    BY <1>6, Zenon DEF RewindBlock, Goto, FlagsTyped
  <2> QED
    BY <2>4, <2>5, <2>6, <2>7, <2>8
<1>7. CASE RewindDone
  <2>1. CASE pastHorizon
    <3>1. TablesTyped' /\ ControlTyped' /\ LocalsTyped'
      BY ZenonT(30), <1>7, <2>1 DEF RewindDone, Goto, TablesTyped, ControlTyped, LocalsTyped, Steps
    <3>2. FlagsTyped'
      BY <1>7, <2>1, Zenon DEF RewindDone, Goto, FlagsTyped
    <3>3. rewound' = rewound /\ pc' = "purge" /\ removed' = removed /\ UNCHANGED mainChain
      BY SMTT(30), <1>7, <2>1 DEF RewindDone, Goto
    <3> QED
      BY SMTT(30), <3>1, <3>2, <3>3, QuietStep
  <2>2. CASE ~pastHorizon
    BY <1>7, <2>2, ReturnRewindInv DEF RewindDone
  <2> QED
    BY <2>1, <2>2
<1>8. CASE PurgeBody
  <2>1. TablesTyped' /\ ControlTyped' /\ LocalsTyped'
    BY <1>8 DEF PurgeBody, MoreToPurge, Goto, TablesTyped, ControlTyped, LocalsTyped, Steps
  <2>2. FlagsTyped'
    BY <1>8, Zenon DEF PurgeBody, Goto, FlagsTyped
  <2>3. HeadersFormChain' /\ HeaderLinks'
    BY ZenonT(30), <1>8 DEF PurgeBody, HeadersFormChain, HeaderLinks
  <2>4. RewoundChains'
    BY ZenonT(30), <1>8 DEF PurgeBody, Goto, RewoundChains, Descends
  <2> QED
    BY SMTT(30), <2>1, <2>2, <2>3, <2>4
<1>9. CASE PurgeDone
  BY <1>9, ReturnRewindInv DEF PurgeDone
<1> QED
  BY ZenonT(30), <1>1, <1>2, <1>3, <1>4, <1>5, <1>6, <1>7, <1>8, <1>9 DEF RewindStep

-----------------------------------------------------------------------------
(* insert_best_block of one block on top of the chain keeps it a chain. *)
LEMMA OneBlockInserted ==
    ASSUME ChainInv, NEW b \in Block, ExtendsHeaders(b),
           headers' = headers \cup {b}, lastHeader' = b, bestBlock' \in headers'
    PROVE  HeadersFormChain' /\ HeaderLinks'
<1> USE DEF ChainInv, TypeOK, TablesTyped
<1>1. lastHeader \in headers /\ Parent[b] = lastHeader /\ Height[b] = Height[lastHeader] + 1
  BY DEF ExtendsHeaders, HeadersFormChain
<1>2. \A h \in headers : Height[h] \in Nat /\ Height[h] <= Height[lastHeader]
  BY GenesisBlock DEF HeadersFormChain
<1>3. HeaderLinks'
  BY SMTT(30), <1>1 DEF HeaderLinks
<1>4. HeadersFormChain'
  BY <1>1, <1>2 DEF HeadersFormChain
<1> QED
  BY <1>3, <1>4

(* restore_reorged_chain puts a whole removed chain back on top of the fork. *)
LEMMA ChainRestored ==
    ASSUME ChainInv, removed # <<>>, ExtendsHeaders(removed[Len(removed)]),
           InsertBest(Elements(removed), removed[1])
    PROVE  HeadersFormChain' /\ HeaderLinks' /\ headers' \in SUBSET Block /\ removed[1] \in Block
<1> USE DEF ChainInv, TypeOK
<1> DEFINE n == Len(removed)
           E == Elements(removed)
<1>1. n \in Nat /\ n > 0 /\ DOMAIN removed = 1 .. n /\ \A i \in 1 .. n : removed[i] \in Block
  BY DEF LocalsTyped
<1>2. E = {removed[i] : i \in 1 .. n} /\ removed[1] \in E /\ E \in SUBSET Block
  BY <1>1 DEF Elements
<1>3. \A i \in 1 .. n : Height[removed[i]] \in Nat /\ Height[removed[i]] + i = Height[removed[1]] + 1
  BY ZenonT(30), <1>1, GenesisBlock DEF RewoundChains, Descends
<1>4. Parent[removed[n]] = lastHeader /\ Height[removed[n]] = Height[lastHeader] + 1
  BY DEF ExtendsHeaders
<1>5. \A h \in headers : Height[h] \in Nat /\ Height[h] <= Height[lastHeader]
  BY GenesisBlock DEF HeadersFormChain, TablesTyped
<1>6. lastHeader \in headers /\ Height[lastHeader] \in Nat
  BY <1>5 DEF HeadersFormChain
<1>7. \A i \in 1 .. n : Height[removed[i]] > Height[lastHeader] /\ Height[removed[i]] <= Height[removed[1]]
  BY SMTT(30), <1>1, <1>3, <1>4, <1>6
<1>8. headers' = headers \cup E /\ lastHeader' = removed[1] /\ bestBlock' = removed[1]
  BY DEF InsertBest
<1>9. HeaderLinks'
  <2> SUFFICES ASSUME NEW h \in headers', h # Genesis
               PROVE  Parent[h] \in headers' /\ Height[h] = Height[Parent[h]] + 1
    BY ZenonT(30) DEF HeaderLinks
  <2>1. CASE h \in headers
    BY SMTT(30), <2>1, <1>8 DEF HeaderLinks
  <2>2. CASE h \in E
    <3>1. PICK i \in 1 .. n : h = removed[i]
      BY <2>2, <1>2
    <3>2. CASE i = n
      BY SMTT(30), <3>1, <3>2, <1>4, <1>6, <1>8
    <3>3. CASE i # n
      <4>1. i + 1 \in 1 .. n /\ Parent[h] = removed[i + 1]
        <5>1. i + 1 \in 1 .. n
          <6> HIDE DEF n
          <6> QED BY <3>3, <1>1
        <5>2. Descends(removed)
          BY DEF RewoundChains
        <5> QED
          BY <3>1, <5>1, <5>2, <1>1 DEF Descends
      <4>2. Height[h] = Height[removed[i + 1]] + 1
        <5>1. Height[removed[i]] + i = Height[removed[1]] + 1 /\ Height[removed[i]] \in Nat
          BY <1>3
        <5>2. Height[removed[i + 1]] + (i + 1) = Height[removed[1]] + 1 /\ Height[removed[i + 1]] \in Nat
          BY <4>1, <1>3
        <5>3. Height[removed[1]] \in Nat
          BY <1>1, <1>3
        <5>4. i \in Nat
          BY <1>1
        <5>5. Height[removed[i]] = Height[removed[i + 1]] + 1
          <6> DEFINE x == Height[removed[i]]
                     y == Height[removed[i + 1]]
                     top == Height[removed[1]]
          <6>1. x \in Nat /\ y \in Nat /\ top \in Nat /\ x + i = top + 1 /\ y + (i + 1) = top + 1
            BY <5>1, <5>2, <5>3
          <6> HIDE DEF n, E, x, y, top
          <6>2. x = y + 1
            BY <5>4, <6>1
          <6> QED
            BY Zenon, <6>2 DEF x, y
        <5> QED
          BY Zenon, <3>1, <5>5
      <4>3. removed[i + 1] \in headers'
        BY <4>1, <1>2, <1>8
      <4> QED
        BY <4>1, <4>2, <4>3
    <3> QED
      BY <3>2, <3>3
  <2> QED
    BY <2>1, <2>2, <1>8
<1>10. \A h, k \in headers' : Height[h] = Height[k] => h = k
  <2> SUFFICES ASSUME NEW h \in headers', NEW k \in headers', Height[h] = Height[k] PROVE h = k
    OBVIOUS
  <2>1. CASE h \in headers /\ k \in headers
    BY <2>1 DEF HeadersFormChain
  <2>2. CASE h \in E /\ k \in E
    <3>1. PICK i \in 1 .. n, j \in 1 .. n : h = removed[i] /\ k = removed[j]
      BY <2>2, <1>2
    <3>2. i = j
      BY <3>1, <1>1, <1>3
    <3> QED
      BY <3>1, <3>2
  <2>3. CASE (h \in headers /\ k \in E) \/ (h \in E /\ k \in headers)
    <3>1. \A e \in E : Height[e] \in Nat /\ Height[e] > Height[lastHeader]
      BY <1>2, <1>3, <1>7
    <3>2. \A e \in E, g \in headers : Height[e] # Height[g]
      BY <3>1, <1>5, <1>6
    <3> QED
      BY <2>3, <3>2
  <2>4. (h \in headers \/ h \in E) /\ (k \in headers \/ k \in E)
    BY SMTT(30), <1>8
  <2> QED
    BY <2>1, <2>2, <2>3, <2>4
<1>11. HeadersFormChain'
  <2>1. \A h \in headers' : Height[h] <= Height[removed[1]]
    <3> SUFFICES ASSUME NEW h \in headers' PROVE Height[h] <= Height[removed[1]]
      OBVIOUS
    <3>1. CASE h \in headers
      BY <3>1, <1>1, <1>3, <1>5, <1>6, <1>7
    <3>2. CASE h \in E
      BY <3>2, <1>2, <1>7
    <3> QED
      BY <3>1, <3>2, <1>8
  <2> QED
    BY ZenonT(30), <2>1, <1>2, <1>8, <1>9, <1>10 DEF HeadersFormChain, HeaderLinks
<1> QED
  BY SMTT(30), <1>1, <1>2, <1>8, <1>9, <1>11 DEF TablesTyped

-----------------------------------------------------------------------------
(* The end of swap_to_highest_pow_chain *)
LEMMA SwapReturnsInv ==
    ASSUME ChainInv, NEW r \in Results, SwapReturns(r), UNCHANGED durable
    PROVE  ChainInv'
<1> USE DEF ChainInv, TypeOK
<1>1. TablesTyped'
  BY DEF TablesTyped
<1>2. CASE caller = "swap"
  <2>1. ControlTyped' /\ LocalsTyped' /\ FlagsTyped' /\ rewound' = <<>> /\ removed' = <<>>
    BY <1>2, ReleaseTyped DEF SwapReturns
  <2> QED
    BY <1>1, <2>1, QuietStep
<1>3. CASE caller # "swap"
  <2>1. LocalsTyped' /\ rewound' = <<>> /\ removed' = <<>>
    BY <1>3, DropTyped DEF SwapReturns
  <2>2. ControlTyped'
    BY <1>3 DEF SwapReturns, ControlTyped, Steps
  <2>3. FlagsTyped'
    BY <1>3, Zenon DEF SwapReturns, DropLocals, DropRewindLocals, FlagsTyped
  <2> QED
    BY <1>1, <2>1, <2>2, <2>3, QuietStep
<1> QED
  BY <1>2, <1>3

(* Calling rewind_to_height from a step that has nothing rewound *)
LEMMA CallRewindInv ==
    ASSUME ChainInv, TablesTyped', UNCHANGED mainChain,
           NEW h \in Nat, NEW next \in {"select", "apply", "restore"}, CallRewind(h, next),
           pc \notin {"rewind", "purge"}, UNCHANGED insertLocals, UNCHANGED <<applied, removed>>,
           linkAt' \in Block \cup {Parent[b] : b \in Block}, chain' \in Seq(Block), result' \in Results
    PROVE  ChainInv'
<1> USE DEF ChainInv, TypeOK
<1>1. ControlTyped' /\ LocalsTyped'
  BY ZenonT(30) DEF CallRewind, ControlTyped, LocalsTyped, Steps
<1>2. FlagsTyped'
  BY Zenon DEF CallRewind, FlagsTyped
<1>3. rewound' = <<>> /\ removed' = removed
  BY ZenonT(30) DEF CallRewind, RewoundChains
<1> QED
  BY SMTT(30), <1>1, <1>2, <1>3, QuietStep

(* swap_to_highest_pow_chain, reorganize_chain and restore_reorged_chain *)
LEMMA SwapStepInv == ASSUME ChainInv, LinkFound, SwapStep PROVE ChainInv'
<1> USE DEF ChainInv, TypeOK
<1>1. CASE SwapBegin
  <2>1. BestHeight \in Nat
    BY GenesisBlock DEF BestHeight, TablesTyped
  <2> QED
    BY ZenonT(30), <1>1, <2>1, CallRewindInv DEF SwapBegin, TablesTyped, ControlTyped, LocalsTyped
<1>2. CASE SelectUnreadable \/ LinkMissing \/ RestoreFails
  BY <1>2, FailStep DEF SelectUnreadable, LinkMissing, RestoreFails
<1>3. CASE SelectNone
  BY <1>3, SwapReturnsInv DEF SelectNone, Results
<1>4. CASE \E t \in Block : SelectTip(t)
  <2> PICK t \in Block : SelectTip(t)
    BY SMTT(30), <1>4
  <2>1. TablesTyped' /\ ControlTyped' /\ LocalsTyped'
    BY ZenonT(30) DEF SelectTip, Goto, TablesTyped, ControlTyped, LocalsTyped, Steps
  <2>2. FlagsTyped'
    BY Zenon DEF SelectTip, Goto, FlagsTyped
  <2>3. rewound' = <<>> /\ removed' = removed /\ UNCHANGED mainChain
    BY ZenonT(30) DEF SelectTip, RewoundChains
  <2> QED
    BY <2>1, <2>2, <2>3, QuietStep
<1>5. CASE LinkBlock
  <2>1. linkAt \in Block /\ TablesTyped' /\ UNCHANGED mainChain
    BY ZenonT(30), <1>5 DEF LinkBlock, OrphanChainBlock, TablesTyped
  <2>2. linkAt' \in Block \cup {Parent[b] : b \in Block} /\ chain' \in Seq(Block)
    <3>1. linkAt' = Parent[linkAt] /\ chain' = <<linkAt>> \o chain
      BY Zenon, <1>5 DEF LinkBlock
    <3>2. chain \in Seq(Block)
      BY Zenon DEF LocalsTyped
    <3>3. chain' \in Seq(Block)
      BY <2>1, <3>1, <3>2
    <3> QED
      BY Zenon, <2>1, <3>1, <3>3
  <2>3. CASE linkAt' \in headers
    <3>1. Height[linkAt'] \in Nat
      BY <2>3, GenesisBlock DEF TablesTyped
    <3> QED
      BY ZenonT(30), <1>5, <2>1, <2>2, <2>3, <3>1, CallRewindInv DEF LinkBlock, ControlTyped
  <2>4. CASE linkAt' \notin headers
    <3>1. ControlTyped' /\ LocalsTyped'
      BY ZenonT(30), <1>5, <2>2, <2>4 DEF LinkBlock, Goto, ControlTyped, LocalsTyped, Steps
    <3>2. FlagsTyped'
      BY <1>5, <2>4, Zenon DEF LinkBlock, Goto, FlagsTyped
    <3>3. rewound' = <<>> /\ removed' = removed
      BY ZenonT(30), <1>5, <2>4 DEF LinkBlock, RewoundChains
    <3> QED
      BY <2>1, <3>1, <3>2, <3>3, QuietStep
  <2> QED
    BY SMTT(30), <2>3, <2>4
<1>6. CASE ApplyBlock
  <2> DEFINE b == chain[applied + 1]
  <2>1. b \in Block
    <3>1. applied < Len(chain)
      BY Zenon, <1>6 DEF ApplyBlock
    <3>2. applied \in Nat /\ chain \in Seq(Block)
      BY Zenon DEF LocalsTyped
    <3> QED
      BY <3>1, <3>2
  <2>2. ExtendsHeaders(b) /\ DeleteOrphans({b}) /\ InsertBest({b}, b)
    BY <1>6 DEF ApplyBlock, ApplyOk, InsertBestOk
  <2>3. HeadersFormChain' /\ HeaderLinks'
    <3> HIDE DEF b
    <3>1. headers' = headers \cup {b} /\ lastHeader' = b /\ bestBlock' = b
      BY SMTT(30), <2>2 DEF InsertBest
    <3> QED
      BY <2>1, <2>2, <3>1, OneBlockInserted
  <2>4. TablesTyped'
    <3> HIDE DEF b
    <3>1. orphans' \in SUBSET Block /\ accumulated' \in SUBSET Block /\ tips' \in SUBSET Block
      BY SMTT(30), <2>2, DeleteOrphansTyped
    <3> QED
      BY ZenonT(30), <1>6, <2>1, <2>2, <3>1 DEF ApplyBlock, InsertBest, TablesTyped
  <2>5. ControlTyped' /\ LocalsTyped'
    <3>1. ControlTyped'
      BY ZenonT(30), <1>6 DEF ApplyBlock, Goto, ControlTyped, Steps
    <3>2. applied' = applied + 1 /\ applied \in Nat
      BY ZenonT(30), <1>6 DEF ApplyBlock, LocalsTyped
    <3>3. applied' \in Nat
      BY <3>2
    <3>4. LocalsTyped'
      BY ZenonT(30), <1>6, <3>3 DEF ApplyBlock, LocalsTyped
    <3> QED
      BY <3>1, <3>4
  <2>6. FlagsTyped'
    BY <1>6, Zenon DEF ApplyBlock, Goto, FlagsTyped
  <2>7. RewoundChains'
    <3>1. rewound' = <<>> /\ removed' = removed
      BY ZenonT(30), <1>6 DEF ApplyBlock, RewoundChains
    <3> QED
      BY ZenonT(30), <3>1, RewoundDropped
  <2> QED
    BY SMTT(30), <2>3, <2>4, <2>5, <2>6, <2>7
<1>7. CASE ApplyDone
  BY <1>7, SwapReturnsInv DEF ApplyDone, Results
<1>8. CASE Restore
  <2>1. ControlTyped' /\ LocalsTyped' /\ FlagsTyped' /\ rewound' = <<>> /\ removed' = <<>>
    BY ZenonT(30), <1>8, ReleaseTyped DEF Restore, ControlTyped
  <2>2. CASE removed = <<>>
    <3>1. TablesTyped' /\ UNCHANGED mainChain
      BY <1>8, <2>2 DEF Restore, TablesTyped
    <3> QED
      BY <2>1, <3>1, QuietStep
  <2>3. CASE removed # <<>>
    <3>1. /\ ExtendsHeaders(removed[Len(removed)])
          /\ DeleteOrphans(Elements(removed))
          /\ InsertBest(Elements(removed), removed[1])
      BY <1>8, <2>3 DEF Restore, RestoreOk, InsertBestOk
    <3>2. HeadersFormChain' /\ HeaderLinks' /\ headers' \in SUBSET Block /\ removed[1] \in Block
      BY <2>3, <3>1, ChainRestored
    <3>3. orphans' \in SUBSET Block /\ accumulated' \in SUBSET Block /\ tips' \in SUBSET Block
      BY SMTT(30), <3>1, DeleteOrphansTyped
    <3>4. TablesTyped'
      BY ZenonT(30), <1>8, <3>1, <3>2, <3>3 DEF Restore, InsertBest, TablesTyped
    <3>5. RewoundChains'
      BY ZenonT(30), <2>1, <1>8 DEF Restore, Release, Unlock, RewoundChains, Descends
    <3> QED
      BY <2>1, <3>2, <3>4, <3>5
  <2> QED
    BY <2>2, <2>3
<1>9. CASE ApplyWriteFails
  <2>1. Height[linkAt] \in Nat
    BY <1>9, GenesisBlock DEF ApplyWriteFails, LinkFound
  <2> QED
    BY ZenonT(30), <1>9, <2>1, CallRewindInv DEF ApplyWriteFails, RestoreAfter, TablesTyped, LocalsTyped, Results
<1>10. CASE ApplyInvalid
  <2> DEFINE b == chain[applied + 1]
  <2>1. Height[linkAt] \in Nat
    BY SMTT(30), <1>10, GenesisBlock DEF ApplyInvalid, LinkFound
  <2>2. CASE DeleteOrphansOk({b})
    <3>1. DeleteOrphans({b}) /\ RestoreAfter("ValidationError") /\ pc = "apply" /\ UNCHANGED mainChain
      BY SMTT(30), <1>10, <2>2 DEF ApplyInvalid
    <3>2. TablesTyped'
      BY ZenonT(30), <1>10, <3>1, DeleteOrphansTyped DEF ApplyInvalid, TablesTyped
    <3> QED
      BY ZenonT(30), <2>1, <3>1, <3>2, CallRewindInv DEF RestoreAfter, LocalsTyped, Results
  <2>3. CASE ~DeleteOrphansOk({b})
    BY ZenonT(30), <1>10, <2>3, FailStep DEF ApplyInvalid
  <2> QED
    BY <2>2, <2>3
<1> QED
  BY ZenonT(30), <1>1, <1>2, <1>3, <1>4, <1>5, <1>6, <1>7, <1>8, <1>9, <1>10 DEF SwapStep

-----------------------------------------------------------------------------
(* prune_database_if_needed and cleanup_orphans *)
LEMMA FinishStepInv == ASSUME ChainInv, FinishStep PROVE ChainInv'
<1> USE DEF ChainInv, TypeOK
<1>1. CASE PruneNotNeeded \/ PruneStart
  <2>1. PruneTarget \in Nat
    BY SMTT(30), GenesisBlock, ConfigAssumption DEF PruneTarget, MinusSat, BestHeight, TablesTyped, ConfigAssumption
  <2>2. TablesTyped' /\ ControlTyped' /\ LocalsTyped'
    BY ZenonT(30), <1>1, <2>1 DEF PruneNotNeeded, PruneStart, Goto, TablesTyped, ControlTyped, LocalsTyped, Steps
  <2>3. FlagsTyped'
    BY <1>1, Zenon DEF PruneNotNeeded, PruneStart, Goto, FlagsTyped
  <2>4. rewound' = <<>> /\ removed' = removed /\ UNCHANGED mainChain
    BY ZenonT(30), <1>1 DEF PruneNotNeeded, PruneStart, RewoundChains
  <2> QED
    BY <2>2, <2>3, <2>4, QuietStep
<1>2. CASE PruneBlocks
  <2>1. CASE PruneReadable
    <3>1. PruneUpTo \in Nat
      BY SMTT(30), ConfigAssumption DEF PruneUpTo, TablesTyped, LocalsTyped, ConfigAssumption
    <3>2. TablesTyped' /\ ControlTyped' /\ LocalsTyped'
      <4>1. TablesTyped'
        BY <1>2, <2>1, <3>1 DEF PruneBlocks, Goto, TablesTyped
      <4>2. ControlTyped'
        BY <1>2, <2>1 DEF PruneBlocks, Goto, ControlTyped, Steps
      <4>3. LocalsTyped'
        BY <1>2, <2>1, <3>1 DEF PruneBlocks, Goto, LocalsTyped
      <4> QED
        BY <4>1, <4>2, <4>3
    <3>3. FlagsTyped'
      BY <1>2, <2>1, Zenon DEF PruneBlocks, Goto, FlagsTyped
    <3>4. rewound' = <<>> /\ removed' = removed /\ UNCHANGED mainChain
      BY ZenonT(30), <1>2, <2>1 DEF PruneBlocks, RewoundChains
    <3> QED
      BY <3>2, <3>3, <3>4, QuietStep
  <2>2. CASE ~PruneReadable
    BY ZenonT(30), <1>2, <2>2, FailStep DEF PruneBlocks
  <2> QED
    BY SMTT(30), <2>1, <2>2
<1>3. CASE Cleanup
  <2>1. ControlTyped' /\ LocalsTyped' /\ FlagsTyped' /\ rewound' = <<>> /\ removed' = <<>>
    BY SMTT(30), <1>3, ReleaseTyped DEF Cleanup, ControlTyped
  <2>2. TablesTyped' /\ UNCHANGED mainChain
    BY SMTT(30), <1>3, DeleteOrphansTyped DEF Cleanup, CleanupOrphans, TablesTyped
  <2> QED
    BY <2>1, <2>2, QuietStep
<1> QED
  BY SMTT(30), <1>1, <1>2, <1>3 DEF FinishStep

(* The calls of add_block that wait, return early or take the lock *)
LEMMA CallInv ==
    ASSUME ChainInv, NEW b \in Block, AddBlockCall(b) \/ AddBlockReturnsEarly(b) \/ AddBlock(b)
    PROVE  ChainInv'
<1> USE DEF ChainInv, TypeOK
<1> USE DEF AddBlockCall, AddBlockReturnsEarly, AddBlock, Acquire
<1>1. TablesTyped'
  BY ZenonT(30) DEF TablesTyped
<1>2. ControlTyped'
  BY ZenonT(30) DEF TablesTyped, ControlTyped, Steps, Operations, Results
<1>3. LocalsTyped'
  BY ZenonT(30) DEF LocalsTyped
<1>4. FlagsTyped'
  BY Zenon DEF FlagsTyped
<1>5. HeadersFormChain' /\ HeaderLinks'
  BY ZenonT(30) DEF HeadersFormChain, HeaderLinks
<1>6. RewoundChains'
  BY ZenonT(30) DEF RewoundChains, Descends
<1> QED
  BY ZenonT(30), <1>1, <1>2, <1>3, <1>4, <1>5, <1>6

-----------------------------------------------------------------------------
(* One transaction of a synchroniser, with the lock free before and after it,
   leaves the locals as they are. *)
LEMMA CommittedTyped ==
    ASSUME ChainInv, Committed
    PROVE  ControlTyped' /\ LocalsTyped' /\ FlagsTyped' /\ RewoundChains'
<1> USE DEF ChainInv, TypeOK
<1>1. ControlTyped' /\ LocalsTyped'
  BY ZenonT(30) DEF Committed, ControlTyped, LocalsTyped
<1>2. FlagsTyped'
  BY Zenon DEF Committed, FlagsTyped
<1>3. RewoundChains'
  BY ZenonT(30) DEF Committed, RewoundChains, Descends
<1> QED
  BY SMTT(30), <1>1, <1>2, <1>3

(* Header sync, block sync, rewinds, swaps and clean-up keep the invariant. *)
LEMMA SyncStepInv == ASSUME ChainInv, SyncStep PROVE ChainInv'
<1> USE DEF ChainInv, TypeOK
<1>1. CASE \E flag \in BOOLEAN : SetDisableAddBlock(flag)
  <2>1. TablesTyped' /\ ControlTyped' /\ LocalsTyped'
    BY ZenonT(30), <1>1 DEF SetDisableAddBlock, TablesTyped, ControlTyped, LocalsTyped
  <2>2. FlagsTyped'
    BY <1>1, Zenon DEF SetDisableAddBlock, FlagsTyped
  <2>3. HeadersFormChain' /\ HeaderLinks'
    BY ZenonT(30), <1>1 DEF SetDisableAddBlock, HeadersFormChain, HeaderLinks
  <2>4. RewoundChains'
    BY ZenonT(30), <1>1 DEF SetDisableAddBlock, RewoundChains, Descends
  <2> QED
    BY <2>1, <2>2, <2>3, <2>4
<1>2. CASE \E b \in Block : InsertHeader(b)
  <2> PICK b \in Block : InsertHeader(b)
    BY <1>2
  <2>1. HeadersFormChain' /\ HeaderLinks'
    BY ZenonT(30), OneBlockInserted DEF InsertHeader, HeadersFormChain
  <2>2. TablesTyped'
    BY DEF InsertHeader, TablesTyped
  <2> QED
    BY SMTT(30), <2>1, <2>2, CommittedTyped DEF InsertHeader
<1>3. CASE \E b \in Block : InsertSyncedBlock(b)
  <2> PICK b \in Block : InsertSyncedBlock(b)
    BY <1>3
  <2>1. HeadersFormChain' /\ HeaderLinks'
    BY ZenonT(30) DEF InsertSyncedBlock, HeadersFormChain, HeaderLinks
  <2>2. orphans' \in SUBSET Block /\ accumulated' \in SUBSET Block /\ tips' \in SUBSET Block
    BY DeleteOrphansTyped DEF InsertSyncedBlock
  <2>3. TablesTyped'
    BY <2>2 DEF InsertSyncedBlock, TablesTyped
  <2> QED
    BY SMTT(30), <2>1, <2>3, CommittedTyped DEF InsertSyncedBlock
<1>4. CASE \E b \in Block : InsertBadBlock(b)
  <2> PICK b \in Block : InsertBadBlock(b)
    BY <1>4
  <2>1. HeadersFormChain' /\ HeaderLinks'
    BY ZenonT(30) DEF InsertBadBlock, HeadersFormChain, HeaderLinks
  <2>2. orphans' \in SUBSET Block /\ accumulated' \in SUBSET Block /\ tips' \in SUBSET Block
    BY SMTT(30), DeleteOrphansTyped DEF InsertBadBlock
  <2>3. badBlocks' \in SUBSET Block
    BY ZenonT(30) DEF InsertBadBlock, BadBlocksKept, TablesTyped
  <2>4. TablesTyped'
    BY ZenonT(30), <2>2, <2>3 DEF InsertBadBlock, TablesTyped
  <2> QED
    BY SMTT(30), <2>1, <2>4, CommittedTyped DEF InsertBadBlock
<1>5. CASE ClearAllPendingHeaders
  <2>1. bestBlock \in headers /\ BestHeight \in Nat /\ \A h \in headers : Height[h] \in Nat
    BY ZenonT(30), GenesisBlock DEF HeadersFormChain, BestHeight, TablesTyped
  <2>2. HeaderAt(BestHeight) = bestBlock
    <3>1. HeaderAt(BestHeight) \in headers /\ Height[HeaderAt(BestHeight)] = BestHeight
      BY <2>1, HeaderAtFound DEF BestHeight
    <3> QED
      BY ZenonT(30), <2>1, <3>1 DEF HeadersFormChain, BestHeight
  <2>3. lastHeader' = bestBlock /\ bestBlock' = bestBlock /\ headers' = {h \in headers : Height[h] <= Height[bestBlock]}
    BY SMTT(30), <1>5, <2>1, <2>2 DEF ClearAllPendingHeaders, PendingHeaders, BestHeight
  <2>4. HeaderLinks'
    BY SMTT(30), <2>1, <2>3 DEF HeaderLinks, BestHeight
  <2>5. HeadersFormChain'
    BY SMTT(30), <2>1, <2>3, <2>4, GenesisBlock DEF HeadersFormChain, HeaderLinks, BestHeight
  <2>6. TablesTyped'
    BY SMTT(30), <1>5, <2>3 DEF ClearAllPendingHeaders, TablesTyped
  <2> QED
    BY SMTT(30), <1>5, <2>4, <2>5, <2>6, CommittedTyped DEF ClearAllPendingHeaders
<1>6. CASE (\E b \in Block : RewindToHash(b)) \/ (\E h \in {Height[b] : b \in Block} : RewindToHeight(h))
  <2>1. PICK operation \in {"rewind_to_height", "rewind_to_hash"}, h \in Nat : StartRewind(operation, h)
    BY SMTT(30), <1>6, GenesisBlock DEF RewindToHash, RewindToHeight
  <2>2. TablesTyped' /\ ControlTyped' /\ LocalsTyped'
    BY ZenonT(30), <2>1 DEF StartRewind, Acquire, TablesTyped, ControlTyped, LocalsTyped, Steps, Operations, Results
  <2>3. FlagsTyped'
    BY <2>1, Zenon DEF StartRewind, FlagsTyped
  <2>4. rewound' = <<>> /\ removed' = removed /\ UNCHANGED mainChain
    BY ZenonT(30), <2>1 DEF StartRewind, Acquire, RewoundChains
  <2> QED
    BY ZenonT(30), <2>2, <2>3, <2>4, QuietStep
<1>7. CASE SwapToHighestPowChain
  <2>1. TablesTyped' /\ ControlTyped' /\ LocalsTyped'
    BY ZenonT(30), <1>7 DEF SwapToHighestPowChain, Acquire, TablesTyped, ControlTyped, LocalsTyped, Steps, Operations, Results
  <2>2. FlagsTyped'
    BY <1>7, Zenon DEF SwapToHighestPowChain, FlagsTyped
  <2>3. rewound' = <<>> /\ removed' = removed /\ UNCHANGED mainChain
    BY ZenonT(30), <1>7 DEF SwapToHighestPowChain, Acquire, RewoundChains
  <2> QED
    BY <2>1, <2>2, <2>3, QuietStep
<1>8. CASE CleanupOrphanPool
  <2>1. TablesTyped' /\ UNCHANGED mainChain
    BY SMTT(30), <1>8, DeleteOrphansTyped DEF CleanupOrphanPool, CleanupOrphans, TablesTyped
  <2>2. HeadersFormChain' /\ HeaderLinks'
    BY ZenonT(30), <2>1 DEF HeadersFormChain, HeaderLinks
  <2> QED
    BY SMTT(30), <1>8, <2>1, <2>2, CommittedTyped DEF CleanupOrphanPool
<1> QED
  BY ZenonT(30), <1>1, <1>2, <1>3, <1>4, <1>5, <1>6, <1>7, <1>8 DEF SyncStep

-----------------------------------------------------------------------------
(* get_orphan_link_main_chain stops at a block of the main chain, and
   rewind_to_height always knows where to return to. *)
LEMMA LinkFoundStep == ASSUME ChainInv, LinkFound, [Next]_vars PROVE LinkFound'
<1> USE DEF LinkFound
<1>1. CASE UNCHANGED vars
  BY ZenonT(30), <1>1 DEF vars
<1>2. CASE InsertStep
  BY ZenonT(30), <1>2 DEF InsertStep, InsertSeenOrphan, ParentTipUnreadable, RemoveParentTip, ParentInAllChains,
     InsertTrueOrphan, InsertOrphan, RejectHeader, InsertOrphanFails, VisitValidOrphan,
     VisitAccumulatedOrphan, DiscardInvalidOrphan, InsertNewTips,
     Goto, Reject, Fail, Release, Unlock, DropLocals, DropRewindLocals
<1>3. CASE RewindStep
  <2>1. return \in {"idle", "select", "apply", "restore"}
    BY DEF ChainInv, TypeOK, LocalsTyped
  <2> QED
    BY ZenonT(30), <1>3, <2>1, GenesisBlock DEF RewindStep, TrimHeader, TrimFails, NoBlocksToRewind, RewindBlocks, RewindUnderflows,
       RewindBlock, RewindBlockFails, RewindDone, PurgeBody, PurgeFails, PurgeDone, Restart,
       ReturnRewind, Goto, Fail, Release, Unlock, DropLocals, DropRewindLocals
<1>4. CASE SwapStep
  <2>1. CASE LinkBlock
    <3>1. headers \subseteq Block
      BY SMTT(30) DEF ChainInv, TypeOK, TablesTyped
    <3> QED
      BY ZenonT(30), <2>1, <3>1 DEF LinkBlock, CallRewind, Goto
  <2>2. CASE SwapStep /\ ~LinkBlock
    BY ZenonT(30), <2>2 DEF SwapStep, SwapBegin, SelectUnreadable, SelectNone, SelectTip, LinkMissing, ApplyBlock,
       ApplyWriteFails, ApplyInvalid, ApplyDone, Restore, RestoreFails, SwapReturns, RestoreAfter, CallRewind,
       Goto, Fail, Release, Unlock, DropLocals, DropRewindLocals
  <2> QED
    BY SMTT(30), <1>4, <2>1, <2>2
<1>5. CASE FinishStep
  BY ZenonT(30), <1>5 DEF FinishStep, PruneNotNeeded, PruneStart, PruneBlocks, Cleanup,
     Goto, Fail, Release, Unlock, DropLocals, DropRewindLocals
<1>6. CASE \E b \in Block : AddBlockCall(b) \/ AddBlockReturnsEarly(b) \/ AddBlock(b)
  BY ZenonT(30), <1>6 DEF AddBlockCall, AddBlockReturnsEarly, AddBlock, Acquire
<1>7. CASE Crash
  BY SMTT(30), <1>7 DEF Crash, Restart, Unlock, DropLocals, DropRewindLocals
<1>8. CASE SyncStep
  BY ZenonT(30), <1>8 DEF SyncStep, SetDisableAddBlock, InsertHeader, InsertSyncedBlock, InsertBadBlock, ClearAllPendingHeaders,
     RewindToHash, RewindToHeight, StartRewind, SwapToHighestPowChain, CleanupOrphanPool, Committed, Acquire
<1> QED
  BY ZenonT(30), <1>1, <1>2, <1>3, <1>4, <1>5, <1>6, <1>7, <1>8 DEF Next, CrashNext, AddBlockNext, Step

(* A database that BlockchainDatabase::new has just created holds the genesis
   block. *)
LEMMA InitInv == ASSUME Init PROVE ChainInv /\ LinkFound
<1>1. TablesTyped /\ ControlTyped /\ LocalsTyped
  BY GenesisBlock DEF Init, TablesTyped, ControlTyped, LocalsTyped, Steps, Operations, Results
<1>2. FlagsTyped
  BY Zenon DEF Init, FlagsTyped
<1>3. HeadersFormChain /\ HeaderLinks
  BY SMTT(30), GenesisBlock DEF Init, HeadersFormChain, HeaderLinks
<1>4. RewoundChains /\ LinkFound
  BY GenesisBlock DEF Init, RewoundChains, Descends, LinkFound
<1> QED
  BY <1>1, <1>2, <1>3, <1>4 DEF ChainInv, TypeOK

(* Every step of Next, whoever takes it, preserves the inductive invariant. *)
LEMMA NextInv == ASSUME ChainInv, LinkFound, [Next]_vars PROVE ChainInv'
<1>1. CASE UNCHANGED vars
  <2>1. TablesTyped' /\ ControlTyped' /\ LocalsTyped'
    BY ZenonT(30), <1>1 DEF vars, ChainInv, TypeOK, TablesTyped, ControlTyped, LocalsTyped
  <2>2. FlagsTyped'
    BY <1>1, Zenon DEF vars, ChainInv, TypeOK, FlagsTyped
  <2>3. HeadersFormChain' /\ HeaderLinks' /\ RewoundChains'
    BY ZenonT(30), <1>1 DEF vars, ChainInv, HeadersFormChain, HeaderLinks, RewoundChains, Descends
  <2> QED
    BY SMTT(30), <2>1, <2>2, <2>3 DEF ChainInv, TypeOK
<1>2. CASE Step
  BY <1>2, InsertStepInv, RewindStepInv, SwapStepInv, FinishStepInv DEF Step
<1>3. CASE \E b \in Block : AddBlockCall(b) \/ AddBlockReturnsEarly(b) \/ AddBlock(b)
  BY <1>3, CallInv
<1>4. CASE Crash
  BY <1>4, RestartInv DEF Crash
<1>5. CASE SyncStep
  BY <1>5, SyncStepInv
<1> QED
  BY <1>1, <1>2, <1>3, <1>4, <1>5 DEF Next, CrashNext, AddBlockNext

(* The inductive invariant holds of every behaviour. *)
LEMMA ChainInvariant == Spec => [](ChainInv /\ LinkFound)
<1>1. Init => ChainInv /\ LinkFound
  BY InitInv
<1>2. ChainInv /\ LinkFound /\ [Next]_vars => (ChainInv /\ LinkFound)'
  BY NextInv, LinkFoundStep
<1> QED
  BY <1>1, <1>2, PTL DEF Spec

(* Type correctness: the tables of the database and the locals of the lock
   holder keep their types, whatever blocks exist and however add_block,
   synchronisation, rewinds and restarts interleave. *)
THEOREM TypeCorrect == Spec => []TypeOK
<1>1. ChainInv => TypeOK
  BY DEF ChainInv
<1> QED
  BY <1>1, ChainInvariant, PTL

(* The stored headers are at all times one gap-free chain from the genesis
   block that contains the best block: insert_header, delete_header, reorgs,
   restores, rewinds past the horizon and restarts keep it so, on archival and
   pruned nodes alike. *)
THEOREM HeaderChain == Spec => []HeadersFormChain
<1>1. ChainInv => HeadersFormChain
  BY SMTT(30) DEF ChainInv
<1> QED
  BY <1>1, ChainInvariant, PTL

-----------------------------------------------------------------------------
(* prune_to_height works towards a height that leaves the horizon whole. *)
PruneInv ==
    pc = "pruning" => prunedHeight < target /\ target + PruningHorizon <= BestHeight

(* A step either prunes as PruneBlocks does or leaves the pruned height alone. *)
LEMMA PruneInvStep ==
    ASSUME ChainInv, LinkFound, PruneInv, [Next]_vars
    PROVE  PruneInv' /\ (prunedHeight' # prunedHeight => PruneBlocks /\ PruneReadable)
<1> USE DEF PruneInv, BestHeight
<1>1. CASE UNCHANGED vars
  BY ZenonT(30), <1>1 DEF vars
<1>2. CASE InsertStep
  BY ZenonT(30), <1>2 DEF InsertStep, InsertSeenOrphan, ParentTipUnreadable, RemoveParentTip, ParentInAllChains,
     InsertTrueOrphan, InsertOrphan, RejectHeader, InsertOrphanFails, VisitValidOrphan,
     VisitAccumulatedOrphan, DiscardInvalidOrphan, InsertNewTips, Goto, Reject, Fail, Release, Unlock
<1>3. CASE RewindStep
  <2>1. return \in {"idle", "select", "apply", "restore"}
    BY SMTT(30) DEF ChainInv, TypeOK, LocalsTyped
  <2> QED
    BY ZenonT(30), <1>3, <2>1 DEF RewindStep, TrimHeader, TrimFails, NoBlocksToRewind, RewindBlocks, RewindUnderflows,
       RewindBlock, RewindBlockFails, RewindDone, PurgeBody, PurgeFails, PurgeDone, Restart,
       ReturnRewind, Goto, Fail, Release, Unlock
<1>4. CASE SwapStep
  BY ZenonT(30), <1>4 DEF SwapStep, SwapBegin, SelectUnreadable, SelectNone, SelectTip, LinkBlock, LinkMissing, ApplyBlock,
     ApplyWriteFails, ApplyInvalid, ApplyDone, Restore, RestoreFails, SwapReturns, RestoreAfter, CallRewind,
     Goto, Fail, Release, Unlock
<1>5. CASE PruneNotNeeded \/ Cleanup
  BY ZenonT(30), <1>5 DEF PruneNotNeeded, Cleanup, Goto, Release, Unlock
<1>6. CASE PruneStart
  <2>1. BestHeight \in Nat /\ prunedHeight \in Nat /\ PruningHorizon \in Nat /\ PruningInterval \in Nat
    BY SMTT(30), GenesisBlock, ConfigAssumption DEF ConfigAssumption, ChainInv, TypeOK, TablesTyped
  <2>2. prunedHeight < PruneTarget /\ PruneTarget + PruningHorizon <= BestHeight
    BY SMTT(30), <1>6, <2>1 DEF PruneStart, PruneNeeded, PruneTarget, MinusSat
  <2> QED
    BY <1>6, <2>2 DEF PruneStart, Goto
<1>7. CASE PruneBlocks
  <2>1. prunedHeight \in Nat /\ target \in Nat /\ PruneBatch \in Nat
    BY ZenonT(30), ConfigAssumption DEF ConfigAssumption, ChainInv, TypeOK, TablesTyped, LocalsTyped
  <2> QED
    BY ZenonT(30), <1>7, <2>1 DEF PruneBlocks, PruneUpTo, Goto, Fail, Release, Unlock
<1>8. CASE \E b \in Block : AddBlockCall(b) \/ AddBlockReturnsEarly(b) \/ AddBlock(b)
  BY ZenonT(30), <1>8 DEF AddBlockCall, AddBlockReturnsEarly, AddBlock, Acquire
<1>9. CASE Crash
  BY SMTT(30), <1>9 DEF Crash, Restart, Unlock
<1>10. CASE SyncStep
  BY ZenonT(30), <1>10 DEF SyncStep, SetDisableAddBlock, InsertHeader, InsertSyncedBlock, InsertBadBlock, ClearAllPendingHeaders,
     RewindToHash, RewindToHeight, StartRewind, SwapToHighestPowChain, CleanupOrphanPool, Committed, Acquire
<1> QED
  BY ZenonT(30), <1>1, <1>2, <1>3, <1>4, <1>5, <1>6, <1>7, <1>8, <1>9, <1>10 DEF Next, CrashNext, AddBlockNext, Step, FinishStep

(* prune_to_height only moves the pruned height up, and never to within the
   pruning horizon of the best block, for every horizon, interval and number
   of heights per transaction. *)
THEOREM PruningStopsAtHorizon == Spec => PrunesOnlyBelowHorizon
<1> DEFINE A == prunedHeight' # prunedHeight =>
                   prunedHeight' > prunedHeight /\ prunedHeight' + PruningHorizon <= Height[bestBlock']
<1>1. Init => PruneInv
  BY DEF Init, PruneInv
<1>2. ChainInv /\ LinkFound /\ PruneInv /\ [Next]_vars => PruneInv'
  BY PruneInvStep
<1>3. ChainInv /\ LinkFound /\ PruneInv /\ [Next]_vars => [A]_vars
  <2> SUFFICES ASSUME ChainInv, LinkFound, PruneInv, [Next]_vars, prunedHeight' # prunedHeight
               PROVE  prunedHeight' > prunedHeight /\ prunedHeight' + PruningHorizon <= Height[bestBlock']
    OBVIOUS
  <2>1. PruneBlocks /\ PruneReadable
    BY PruneInvStep
  <2>2. prunedHeight' = PruneUpTo /\ bestBlock' = bestBlock /\ pc = "pruning"
    BY SMTT(30), <2>1 DEF PruneBlocks
  <2>3. /\ prunedHeight \in Nat /\ target \in Nat /\ PruneBatch \in Nat /\ PruneBatch > 0
        /\ PruningHorizon \in Nat /\ Height[bestBlock] \in Nat
    BY ConfigAssumption, GenesisBlock DEF ConfigAssumption, ChainInv, TypeOK, TablesTyped, LocalsTyped
  <2> QED
    BY SMTT(30), <2>2, <2>3 DEF PruneInv, PruneUpTo, BestHeight
<1> QED
  BY <1>1, <1>2, <1>3, ChainInvariant, PTL DEF Spec, PrunesOnlyBelowHorizon
=============================================================================
