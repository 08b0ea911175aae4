---------------------------- MODULE ReorgProofs ----------------------------
(***************************************************************************)
(* A reorg of an archival node succeeds or leaves no trace on its chain,    *)
(* for every block tree: the node ends on a stronger chain, or             *)
(* restore_reorged_chain puts back exactly the chain it started from, and  *)
(* no transaction of the two can fail halfway.  Wherever the process stops *)
(* in between, the old chain can be found again.                           *)
(***************************************************************************)
EXTENDS ChainSelectionProofs

(* The blocks of s lead from the block "from" down to the block "foot". *)
Connects(s, from, foot) ==
    /\ s = <<>> => from = foot
    /\ s # <<>> => s[1] = from /\ Parent[s[Len(s)]] = foot
    /\ DownFrom(from) \subseteq Elements(s) \cup DownFrom(foot)

(* The blocks of s are none of those the reorg adds, and are kept in the
   orphan pool, where the first of them is a chain tip. *)
KeptAside(s) ==
    /\ Elements(s) \cap Elements(chain) = {}
    /\ Elements(s) \subseteq accumulated
    /\ s # <<>> => start \in tips

(* reorganize_chain has rewound the chain, or is doing so to undo a failure. *)
Replacing == pc \in {"apply", "restore"} \/ return = "restore"

(* The chain the operation started from is the blocks rewound so far on top of
   the best block, or the removed ones on top of the fork block. *)
Trail ==
    /\ return = "apply" => Connects(rewound, start, bestBlock) /\ KeptAside(rewound)
    /\ Replacing => Connects(removed, start, linkAt) /\ KeptAside(removed) /\ linkAt \in headers
    /\ return = "restore" => target = Height[linkAt]
    /\ pc = "restore" => bestBlock = linkAt

(* The chain the reorg builds ends with a block stronger than the old tip, and
   is off the main chain until it is applied. *)
Goal ==
    /\ pc = "link" => bestBlock = start
    /\ pc = "link" /\ chain = <<>> => linkAt \in Block /\ Strength[linkAt] > Strength[start]
    /\ chain # <<>> => Strength[chain[Len(chain)]] > Strength[start]
    /\ return = "apply" \/ Replacing => chain # <<>>
    /\ pc = "link" \/ return = "apply" => Elements(chain) \cap headers = {}

(* The chain the operation started from can be found again. *)
StartFound ==
    /\ start \in bodies \cup tips
    /\ \A a \in DownFrom(start) : a \in bodies \/ OrphanChainBlock(a)

(* The outcome of the swap is the one add_block returns. *)
Outcome(best, outcome) ==
    \/ best = start /\ outcome \in {"OrphanBlock", "ValidationError", "StorageError"}
    \/ Strength[best] > Strength[start] /\ outcome \in {"Ok", "ChainReorg"}

Settled ==
    /\ pc \in {"prune", "cleanup"} => StartFound /\ Outcome(bestBlock, result)
    /\ pc = "restore" \/ return = "restore" => result \in {"ValidationError", "StorageError"}

(* add_block is the only operation, and nothing is pruned. *)
Alone ==
    /\ pc \in {"trim", "rewind"} => return # "idle"
    /\ pc = "idle" => caller = "none"
    /\ prunedHeight = 0 /\ pc # "pruning"

(* The inductive invariant, with those of the header chain, of an archival
   node and of chain selection. *)
BaseInv == ChainInv /\ LinkFound /\ ArchivalInv /\ SelectInv
ReorgInv == Trail /\ Goal /\ Settled /\ Alone

-----------------------------------------------------------------------------
USE DEF durable, mainChain, orphanPool, insertLocals, rewindLocals, reorgLocals, locals

(* What the invariants say of the chain of an archival node without pending
   headers: its bodies are all there. *)
LEMMA ChainFacts ==
    ASSUME BaseInv
    PROVE  /\ ChainInv /\ LinkFound /\ NeverPastHorizon /\ OrphansOffChain
           /\ ChainSound /\ NoPending /\ OrphanTablesAgree /\ ReorgLinked /\ StartBound
           /\ bodies = headers /\ bestBlock \in headers /\ lastHeader = bestBlock
           /\ headers \subseteq Block /\ headers \cap orphans = {} /\ tips \subseteq orphans
<1>1. /\ ChainInv /\ LinkFound /\ NeverPastHorizon /\ OrphansOffChain /\ BestChainValid
      /\ ChainSound /\ NoPending /\ OrphanTablesAgree /\ ReorgLinked /\ StartBound
  BY Zenon DEF BaseInv, ArchivalInv, SelectInv, PoolAgrees
<1>2. /\ bestBlock \in headers /\ headers \subseteq Block /\ lastHeader = bestBlock
      /\ \A h \in headers : Height[h] <= Height[lastHeader]
  BY Zenon, <1>1 DEF ChainInv, HeadersFormChain, TypeOK, TablesTyped, NoPending
<1>3. bodies = headers
  BY Zenon, <1>1, <1>2 DEF BestChainValid, BestHeight
<1>4. headers \cap orphans = {} /\ tips \subseteq orphans
  BY <1>1, <1>3 DEF OrphansOffChain, OrphanTablesAgree
<1> QED
  BY Zenon, <1>1, <1>2, <1>3, <1>4

(* With a header the chain has the blocks below it. *)
LEMMA HeadersDown ==
    ASSUME BaseInv, NEW h \in headers
    PROVE  DownFrom(h) \subseteq headers
<1>1. headers \in SUBSET Block /\ \A b \in headers : b = Genesis \/ Parent[b] \in headers
  BY Zenon DEF BaseInv, ChainInv, HeadersFormChain, TypeOK, TablesTyped
<1>2. Closed(headers)
  BY Zenon, <1>1 DEF Closed, Linked
<1> QED
  BY Zenon, <1>1, <1>2 DEF DownFrom

(* A block of the chain can be found with the ones below it, *)
LEMMA FoundOnChain ==
    ASSUME BaseInv, start \in headers
    PROVE  StartFound
BY Zenon, ChainFacts, HeadersDown DEF StartFound

(* and so can one that was rewound to a block of the chain. *)
LEMMA FoundAside ==
    ASSUME BaseInv, NEW s, NEW foot \in headers, Connects(s, start, foot), KeptAside(s)
    PROVE  StartFound
<1>1. DownFrom(foot) \subseteq headers /\ bodies = headers /\ OrphanTablesAgree
  BY Zenon, HeadersDown, ChainFacts
<1>2. start \in bodies \cup tips
  BY <1>1 DEF Connects, KeptAside
<1>3. \A a \in Elements(s) : OrphanChainBlock(a)
  BY <1>1 DEF KeptAside, OrphanChainBlock, OrphanTablesAgree
<1>4. DownFrom(start) \subseteq Elements(s) \cup DownFrom(foot)
  BY Zenon DEF Connects
<1> QED
  BY <1>1, <1>2, <1>3, <1>4 DEF StartFound

-----------------------------------------------------------------------------
(* One more block is rewound. *)
LEMMA ConnectsDown ==
    ASSUME NEW s \in Seq(Block), NEW from, NEW foot \in Block, Connects(s, from, foot), Linked(foot)
    PROVE  /\ Connects(Append(s, foot), from, Parent[foot])
           /\ Elements(Append(s, foot)) = Elements(s) \cup {foot}
<1> DEFINE t == Append(s, foot)
<1>1. /\ t \in Seq(Block) /\ t # <<>> /\ t[Len(t)] = foot /\ t[1] = IF s = <<>> THEN foot ELSE s[1]
  OBVIOUS
<1>2. /\ DOMAIN t = DOMAIN s \cup {Len(s) + 1} /\ t[Len(s) + 1] = foot
      /\ \A i \in DOMAIN s : t[i] = s[i]
  OBVIOUS
<1> HIDE DEF t
<1>3. Elements(t) = Elements(s) \cup {foot}
  BY ZenonT(30), <1>2 DEF Elements
<1>4. DownFrom(foot) \subseteq {foot} \cup DownFrom(Parent[foot])
  BY Zenon, DownFromParent
<1>5. DownFrom(from) \subseteq Elements(t) \cup DownFrom(Parent[foot])
  BY <1>3, <1>4 DEF Connects
<1>6. t[1] = from
  BY Zenon, <1>1 DEF Connects
<1>7. Connects(t, from, Parent[foot])
  BY Zenon, <1>1, <1>5, <1>6 DEF Connects
<1> QED
  BY Zenon, <1>3, <1>7 DEF t

(* The blocks that lead from a block contain it, unless there are none. *)
LEMMA ConnectsFirst ==
    ASSUME NEW s \in Seq(Block), NEW from, NEW foot, Connects(s, from, foot), s # <<>>
    PROVE  from \in Elements(s)
<1>1. 1 \in DOMAIN s /\ s[1] = from
  BY DEF Connects
<1> QED
  BY <1>1 DEF Elements

(* What a rewound block leaves in the pool *)
LEMMA PoolRewound ==
    ASSUME BaseInv, RewindBlock
    PROVE  /\ accumulated' = accumulated \cup {bestBlock}
           /\ tips' = IF rewound = <<>> THEN tips \cup {bestBlock} ELSE tips
<1>1. /\ NeverPastHorizon /\ bestBlock \in headers /\ lastHeader = bestBlock
      /\ headers \cap orphans = {}
  BY Zenon, ChainFacts
<1>2. bestBlock \notin orphans
  BY <1>1
<1> QED
  BY Zenon, <1>1, <1>2 DEF RewindBlock, RewoundTips, NeverPastHorizon

(* What the deletion of a block leaves there *)
LEMMA PoolDeleted ==
    ASSUME NEW b, DeleteOrphans({b})
    PROVE  accumulated \ {b} \subseteq accumulated' /\ tips \ {b} \subseteq tips'
BY DEF DeleteOrphans, DataWithout, TipsWithout

(* The block the reorg is about to apply *)
LEMMA NextApplied ==
    ASSUME BaseInv, pc = "apply", applied < Len(chain)
    PROVE  Parent[chain[applied + 1]] = bestBlock /\ chain[applied + 1] \in Elements(chain)
<1>1. applied \in Nat /\ chain \in Seq(Block) /\ ReorgLinked
  BY Zenon, ChainFacts DEF ChainInv, TypeOK, LocalsTyped
<1>2. applied + 1 \in DOMAIN chain
  BY <1>1
<1>3. Parent[chain[applied + 1]] = Below(applied + 1) /\ bestBlock = Below(applied + 1)
  BY Zenon, <1>1, <1>2 DEF ReorgLinked
<1> QED
  BY Zenon, <1>2, <1>3 DEF Elements

(* The removed blocks are kept aside by a step that only touches others. *)
LEMMA AsideKept ==
    ASSUME KeptAside(removed), removed # <<>> => start \in Elements(removed),
           UNCHANGED <<start, chain, removed>>,
           NEW D, D \cap Elements(removed) = {},
           accumulated \ D \subseteq accumulated', tips \ D \subseteq tips'
    PROVE  KeptAside(removed)'
<1>1. Elements(removed)' = Elements(removed) /\ Elements(chain)' = Elements(chain) /\ start' = start /\ removed' = removed
  BY Zenon DEF Elements
<1>2. Elements(removed) \cap Elements(chain) = {} /\ Elements(removed) \subseteq accumulated'
  BY DEF KeptAside
<1>3. removed # <<>> => start \in tips'
  BY DEF KeptAside
<1> QED
  BY Zenon, <1>1, <1>2, <1>3 DEF KeptAside

(* The block that is rewound goes aside. *)
LEMMA AsideRewound ==
    ASSUME BaseInv, Trail, Goal, RewindBlock, return = "apply"
    PROVE  Connects(rewound', start, bestBlock') /\ KeptAside(rewound)'
<1>1. /\ bestBlock \in headers /\ bestBlock # Genesis /\ Parent[bestBlock] \in headers
      /\ Height[bestBlock] = Height[Parent[bestBlock]] + 1
      /\ bestBlock' = Parent[bestBlock] /\ headers' = headers \ {bestBlock}
      /\ rewound' = Append(rewound, bestBlock) /\ UNCHANGED <<start, chain>>
  BY Zenon, RewindMoves, ChainFacts
<1>2. rewound \in Seq(Block) /\ headers \subseteq Block
  BY Zenon DEF BaseInv, ChainInv, TypeOK, LocalsTyped, TablesTyped
<1>3. bestBlock \in Block /\ Linked(bestBlock)
  BY <1>1, <1>2, GenesisBlock DEF Linked
<1>4. Connects(rewound, start, bestBlock) /\ KeptAside(rewound) /\ Elements(chain) \cap headers = {}
  BY Zenon DEF Trail, Goal
<1>5. Connects(rewound', start, bestBlock') /\ Elements(rewound') = Elements(rewound) \cup {bestBlock}
  BY Zenon, <1>1, <1>2, <1>3, <1>4, ConnectsDown
<1>6. /\ accumulated' = accumulated \cup {bestBlock}
      /\ tips' = IF rewound = <<>> THEN tips \cup {bestBlock} ELSE tips
  BY Zenon, PoolRewound
<1>7. start \in tips'
  BY <1>4, <1>6 DEF Connects, KeptAside
<1>8. Elements(rewound') \cap Elements(chain) = {} /\ Elements(rewound') \subseteq accumulated'
  BY <1>1, <1>4, <1>5, <1>6 DEF KeptAside
<1>9. Elements(rewound)' = Elements(rewound') /\ Elements(chain)' = Elements(chain) /\ start' = start
  BY Zenon, <1>1 DEF Elements
<1> QED
  BY Zenon, <1>5, <1>7, <1>8, <1>9 DEF KeptAside

-----------------------------------------------------------------------------
(* Outside a reorg there is nothing to restore. *)
LEMMA NotReplacing ==
    ASSUME return' \notin {"apply", "restore"}, pc' \notin {"apply", "restore"}
    PROVE  Trail' /\ ~Replacing'
BY Zenon DEF Trail, Replacing

(* The steps that begin, or do not concern, a reorg, and those that end it *)
LEMMA OutsideReorg ==
    ASSUME BaseInv,
           \/ (\E b \in Block : AddBlock(b)) \/ Inserting \/ SwapBegin \/ (\E t \in Block : SelectTip(t))
           \/ (Restore /\ removed # <<>>) \/ Finished \/ Finishing \/ Ended
    PROVE  return' \notin {"apply", "restore"} /\ pc' \notin {"apply", "restore"}
<1>0. pc \notin {"trim", "rewind", "purge"} => return = "idle"
  BY Zenon DEF BaseInv, LinkFound
<1>1. CASE \E b \in Block : AddBlock(b) \/ SelectTip(b)
  BY Zenon, <1>0, <1>1, AddBlockMoves, SelectMoves
<1>2. CASE Inserting \/ Finishing
  BY Zenon, <1>0, <1>2 DEF Inserting, Finishing
<1>3. CASE SwapBegin
  BY Zenon, <1>3, SwapBeginMoves
<1>4. CASE Finished \/ Ended
  BY Zenon, <1>4 DEF Finished, Ended, DropLocals, DropRewindLocals
<1>5. CASE Restore /\ removed # <<>>
  BY Zenon, <1>5, RestoreMoves DEF DropLocals, DropRewindLocals
<1> QED
  BY Zenon, <1>1, <1>2, <1>3, <1>4, <1>5

(* The chain the operation started from is never lost sight of: what has been
   rewound is kept aside, untouched by the blocks the reorg applies and by the
   one that fails. *)
LEMMA TrailStep ==
    ASSUME BaseInv, Trail, Goal, [CrashNext]_vars
    PROVE  Trail'
<1>0. /\ ChainInv /\ LinkFound /\ NeverPastHorizon /\ ChainSound /\ NoPending /\ ReorgLinked
      /\ bestBlock \in headers /\ lastHeader = bestBlock
  BY Zenon, ChainFacts
<1>1. CASE Quiet \/ RewindBlocks
  <2>1. /\ UNCHANGED <<durable, start, target, return, rewound, reorgLocals>>
        /\ pc' = pc \/ pc' = "rewind"
    BY Zenon, <1>1 DEF Quiet, RewindBlocks, Goto
  <2>2. \A s : KeptAside(s) => /\ Elements(s) \cap Elements(chain') = {} /\ Elements(s) \subseteq accumulated'
                               /\ s # <<>> => start' \in tips'
    BY Zenon, <2>1 DEF KeptAside
  <2>3. Elements(rewound)' = Elements(rewound') /\ Elements(removed)' = Elements(removed') /\ Elements(chain)' = Elements(chain')
    BY Zenon DEF Elements
  <2>4. (KeptAside(rewound) => KeptAside(rewound)') /\ (KeptAside(removed) => KeptAside(removed)')
    BY Zenon, <2>1, <2>2, <2>3 DEF KeptAside
  <2>5. Replacing' => Replacing
    BY Zenon, <2>1 DEF Replacing
  <2>6. (return' = "apply" => return = "apply") /\ (return' = "restore" => return = "restore") /\ (pc' = "restore" => pc = "restore")
    BY Zenon, <2>1
  <2> QED
    BY Zenon, <2>1, <2>4, <2>5, <2>6 DEF Trail, Connects
<1>2. CASE RewindBlock
  <2>1. /\ bestBlock' = Parent[bestBlock] /\ headers' = headers \ {bestBlock}
        /\ Height[bestBlock] > target /\ pc' = "rewind" /\ UNCHANGED <<start, target, return, reorgLocals>>
    <3>1. Height[lastHeader] > target
      BY Zenon, <1>0, <1>2 DEF RewindBlock, RewindStop, NeverPastHorizon
    <3> QED
      BY Zenon, <1>0, <1>2, <3>1, RewindMoves
  <2>2. return = "apply" => Connects(rewound', start, bestBlock') /\ KeptAside(rewound)'
    BY Zenon, <1>2, AsideRewound
  <2>3. ASSUME return = "restore"
        PROVE  Connects(removed, start, linkAt) /\ KeptAside(removed)' /\ linkAt \in headers' /\ target = Height[linkAt]
    <3>1. /\ Connects(removed, start, linkAt) /\ KeptAside(removed) /\ linkAt \in headers /\ target = Height[linkAt]
      BY Zenon, <2>3 DEF Trail, Replacing
    <3>2. removed \in Seq(Block) /\ target \in Nat /\ headers \subseteq Block
      BY Zenon, <1>0 DEF ChainInv, TypeOK, LocalsTyped, TablesTyped
    <3>3. linkAt # bestBlock
      BY <2>1, <3>1, <3>2
    <3>4. linkAt \in headers'
      BY <2>1, <3>1, <3>3
    <3>5. removed # <<>> => start \in Elements(removed)
      BY Zenon, <3>1, <3>2, ConnectsFirst
    <3>6. /\ accumulated' = accumulated \cup {bestBlock}
          /\ tips' = IF rewound = <<>> THEN tips \cup {bestBlock} ELSE tips
      BY Zenon, <1>2, PoolRewound
    <3>7. {} \cap Elements(removed) = {} /\ accumulated \ {} \subseteq accumulated' /\ tips \ {} \subseteq tips'
      BY <3>6
    <3>8. KeptAside(removed)'
      BY Zenon, <2>1, <3>1, <3>5, <3>7, AsideKept
    <3> QED
      BY Zenon, <3>1, <3>4, <3>8
  <2>4. Replacing' => return = "restore"
    BY Zenon, <2>1 DEF Replacing
  <2> QED
    BY Zenon, <2>1, <2>2, <2>3, <2>4 DEF Trail
<1>3. CASE Returned
  <2>1. /\ pc' = return /\ return' = "idle" /\ removed' = IF return = "apply" THEN rewound ELSE removed
        /\ UNCHANGED <<durable, start, linkAt, chain>>
    BY Zenon, <1>3 DEF Returned
  <2>2. Elements(removed)' = Elements(removed') /\ Elements(chain)' = Elements(chain)
    BY Zenon, <2>1 DEF Elements
  <2>3. ASSUME return \in {"apply", "restore"}
        PROVE  bestBlock = linkAt /\ linkAt \in headers /\ Connects(removed', start, linkAt) /\ KeptAside(removed)'
    <3>1. linkAt \in headers /\ target = Height[linkAt]
      BY Zenon, <1>0, <2>3 DEF Trail, Replacing, ReorgLinked
    <3>2. bestBlock = linkAt
      BY Zenon, <1>0, <1>3, <3>1, RewoundToLink
    <3>3. Connects(removed', start, linkAt) /\ KeptAside(removed')
      <4>1. CASE return = "apply"
        BY Zenon, <2>1, <3>2, <4>1 DEF Trail
      <4>2. CASE return = "restore"
        BY Zenon, <2>1, <4>2 DEF Trail, Replacing
      <4> QED
        BY Zenon, <2>3, <4>1, <4>2
    <3>4. KeptAside(removed)'
      BY Zenon, <2>1, <2>2, <3>3 DEF KeptAside
    <3> QED
      BY Zenon, <3>1, <3>2, <3>3, <3>4
  <2> QED
    BY Zenon, <2>1, <2>3 DEF Trail, Replacing
<1>4. CASE LinkBlock
  <2>1. pc = "link" /\ pc' \in {"trim", "link"} /\ UNCHANGED <<mainChain, start, rewound>> /\ return' \in {"apply", return}
    BY Zenon, <1>0, <1>4, LinkMoves
  <2>2. return = "idle" /\ rewound = <<>> /\ bestBlock = start
    BY Zenon, <1>0, <2>1 DEF LinkFound, Goal, ChainInv, RewoundChains
  <2>3. Elements(<<>>) = {}
    BY DEF Elements
  <2>4. Connects(<<>>, start, start)
    BY <2>3 DEF Connects
  <2>5. KeptAside(rewound)'
    <3>1. Elements(rewound)' = {} /\ rewound' = <<>>
      BY Zenon, <2>1, <2>2, <2>3 DEF Elements
    <3> QED
      BY <3>1 DEF KeptAside
  <2> QED
    BY Zenon, <2>1, <2>2, <2>4, <2>5 DEF Trail, Replacing
<1>5. CASE ApplyBlock \/ Undone
  <2>1. /\ pc = "apply" /\ return = "idle" /\ applied < Len(chain) /\ UNCHANGED <<start, linkAt, chain, removed>>
        /\ \/ pc' = "apply" /\ return' = "idle" /\ headers' = headers \cup {chain[applied + 1]} /\ DeleteOrphans({chain[applied + 1]})
           \/ /\ pc' = "trim" /\ return' = "restore" /\ target' = Height[linkAt] /\ headers' = headers
              /\ UNCHANGED orphanPool \/ DeleteOrphans({chain[applied + 1]})
    <3>1. CASE ApplyBlock
      BY Zenon, <1>0, <3>1 DEF ApplyBlock, Goto, InsertBest, LinkFound
    <3>2. CASE Undone
      BY Zenon, <1>0, <3>2 DEF Undone, LinkFound
    <3> QED
      BY Zenon, <1>5, <3>1, <3>2
  <2> DEFINE b == chain[applied + 1]
  <2>2. b \in Elements(chain)
    BY Zenon, <2>1, NextApplied
  <2>3. Connects(removed, start, linkAt) /\ KeptAside(removed) /\ linkAt \in headers /\ removed \in Seq(Block)
    BY Zenon, <1>0, <2>1 DEF Trail, Replacing, ChainInv, TypeOK, LocalsTyped
  <2> HIDE DEF b
  <2>4. accumulated \ {b} \subseteq accumulated' /\ tips \ {b} \subseteq tips'
    <3>1. CASE UNCHANGED orphanPool
      BY <3>1
    <3>2. CASE DeleteOrphans({b})
      BY Zenon, <3>2, PoolDeleted
    <3> QED
      BY Zenon, <2>1, <3>1, <3>2 DEF b
  <2>5. linkAt \in headers'
    BY <2>1, <2>3
  <2>6. {b} \cap Elements(removed) = {}
    BY <2>2, <2>3 DEF KeptAside
  <2>7. removed # <<>> => start \in Elements(removed)
    BY Zenon, <2>3, ConnectsFirst
  <2>8. KeptAside(removed)'
    BY Zenon, <2>1, <2>3, <2>4, <2>6, <2>7, AsideKept
  <2> QED
    BY Zenon, <2>1, <2>3, <2>5, <2>8 DEF Trail, Replacing
<1> QED
  BY Zenon, <1>0, <1>1, <1>2, <1>3, <1>4, <1>5, NotReplacing, OutsideReorg, CrashShapes

-----------------------------------------------------------------------------
(* The chain the reorg builds leads to a stronger block. *)
LEMMA GoalStep ==
    ASSUME BaseInv, Goal, [CrashNext]_vars
    PROVE  Goal'
<1>0. /\ ChainInv /\ LinkFound /\ NeverPastHorizon /\ ChainSound /\ NoPending /\ StartBound
      /\ OrphanTablesAgree /\ headers \cap orphans = {}
  BY Zenon, ChainFacts
<1>1. chain \in Seq(Block) /\ return \in {"idle", "select", "apply", "restore"} /\ Elements(<<>>) = {}
  BY <1>0 DEF ChainInv, TypeOK, LocalsTyped, Elements
<1>2. CASE Quiet \/ RewindBlocks \/ RewindBlock \/ Returned \/ Undone
  <2>1. /\ UNCHANGED <<start, linkAt, chain>> /\ headers' \subseteq headers
        /\ (pc' = "link" => pc = "link" /\ bestBlock' = bestBlock) /\ (return' = "apply" => return = "apply")
        /\ (Replacing' => Replacing \/ return = "apply")
    <3>1. CASE Quiet
      BY Zenon, <3>1 DEF Quiet, Replacing
    <3>2. CASE RewindBlocks
      BY Zenon, <3>2, RewindBlocksMoves DEF Replacing
    <3>3. CASE RewindBlock
      <4>1. headers' \subseteq headers
        BY <1>0, <3>3, RewindMoves
      <4> QED
        BY Zenon, <1>0, <3>3, <4>1, RewindMoves DEF Replacing
    <3>4. CASE Returned
      BY Zenon, <1>1, <3>4 DEF Returned, Replacing
    <3>5. CASE Undone
      BY Zenon, <3>5 DEF Undone, Replacing
    <3> QED
      BY Zenon, <1>2, <3>1, <3>2, <3>3, <3>4, <3>5
  <2>2. Elements(chain)' = Elements(chain)
    BY Zenon, <2>1 DEF Elements
  <2>3. Elements(chain) \cap headers = {} => Elements(chain) \cap headers' = {}
    BY <2>1
  <2> QED
    BY Zenon, <2>1, <2>2, <2>3 DEF Goal
<1>3. CASE ApplyBlock
  <2>1. pc = "apply" /\ pc' = "apply" /\ return' = "idle" /\ UNCHANGED <<start, chain>>
    BY Zenon, <1>0, <1>3 DEF ApplyBlock, Goto, LinkFound
  <2> QED
    BY Zenon, <2>1 DEF Goal, Replacing
<1>4. CASE \E t \in Block : SelectTip(t)
  <2>1. PICK t \in Block : SelectTip(t)
    BY Zenon, <1>4
  <2>2. /\ pc = "select" /\ pc' = "link" /\ linkAt' = t /\ Strength[t] > Strength[bestBlock]
        /\ UNCHANGED <<mainChain, start, rewindLocals, chain>>
    BY Zenon, <2>1, SelectMoves
  <2>3. bestBlock = start /\ chain = <<>> /\ return = "idle"
    BY Zenon, <1>0, <2>2 DEF StartBound, Early, LinkFound
  <2>4. Elements(chain)' = {}
    BY Zenon, <1>1, <2>2, <2>3 DEF Elements
  <2>5. ~Replacing' /\ Elements(chain)' \cap headers' = {}
    BY <2>2, <2>3, <2>4 DEF Replacing
  <2> QED
    BY Zenon, <2>2, <2>3, <2>5 DEF Goal
<1>5. CASE LinkBlock
  <2>1. /\ linkAt \in accumulated /\ chain' = <<linkAt>> \o chain
        /\ Elements(chain') \subseteq {linkAt} \cup Elements(chain)
        /\ pc = "link" /\ UNCHANGED <<mainChain, start>>
    BY Zenon, <1>0, <1>5, LinkMoves
  <2>2. chain' # <<>> /\ chain'[Len(chain')] = IF chain = <<>> THEN linkAt ELSE chain[Len(chain)]
    <3>1. linkAt \in Block
      BY Zenon, <1>0, <1>5, LinkMoves
    <3> QED
      BY <1>1, <2>1, <3>1
  <2>3. Elements(chain)' = Elements(chain') /\ linkAt \notin headers
    BY <1>0, <2>1 DEF Elements, OrphanTablesAgree
  <2>4. Elements(chain) \cap headers = {} /\ bestBlock = start
    BY Zenon, <2>1 DEF Goal
  <2>5. Elements(chain)' \cap headers' = {}
    BY <2>1, <2>3, <2>4
  <2>6. Strength[chain'[Len(chain')]] > Strength[start]
    BY Zenon, <2>1, <2>2 DEF Goal
  <2> QED
    BY Zenon, <2>1, <2>2, <2>4, <2>5, <2>6 DEF Goal
<1>6. ASSUME \/ (\E b \in Block : AddBlock(b)) \/ Inserting \/ SwapBegin
             \/ (Restore /\ removed # <<>>) \/ Finished \/ Finishing \/ Ended
      PROVE  pc' # "link" /\ (chain' = <<>> \/ UNCHANGED <<start, chain>>)
  <2>1. CASE \E b \in Block : AddBlock(b)
    BY Zenon, <1>0, <2>1, AddBlockMoves DEF StartBound, Early
  <2>2. CASE Inserting \/ Finishing
    BY Zenon, <2>2 DEF Inserting, Finishing
  <2>3. CASE SwapBegin
    BY Zenon, <2>3, SwapBeginMoves
  <2>4. CASE (Restore /\ removed # <<>>) \/ Finished \/ Ended
    BY Zenon, <2>4, RestoreMoves DEF Finished, Ended, DropLocals
  <2> QED
    BY Zenon, <1>6, <2>1, <2>2, <2>3, <2>4
<1>7. ASSUME \/ (\E b \in Block : AddBlock(b)) \/ Inserting \/ SwapBegin
             \/ (Restore /\ removed # <<>>) \/ Finished \/ Finishing \/ Ended
      PROVE  Goal'
  BY Zenon, <1>6, <1>7, OutsideReorg, NotReplacing DEF Goal
<1> QED
  BY Zenon, <1>0, <1>2, <1>3, <1>4, <1>5, <1>7, CrashShapes

-----------------------------------------------------------------------------
(* Without a pruning horizon nothing is ever pruned. *)
LEMMA UnprunedStep ==
    ASSUME PruningHorizon = 0, ChainInv, prunedHeight = 0, pc # "pruning", [CrashNext]_vars
    PROVE  prunedHeight' = 0 /\ pc' # "pruning"
<1> return \in {"idle", "select", "apply", "restore"}
  BY DEF ChainInv, TypeOK, LocalsTyped
<1>1. CASE UNCHANGED vars
  BY Zenon, <1>1 DEF vars
<1>2. CASE InsertStep
  BY ZenonT(30), <1>2 DEF InsertStep, InsertSeenOrphan, ParentTipUnreadable, RemoveParentTip, ParentInAllChains,
     InsertTrueOrphan, InsertOrphan, RejectHeader, InsertOrphanFails, VisitValidOrphan,
     VisitAccumulatedOrphan, DiscardInvalidOrphan, InsertNewTips, Goto, Reject, Fail, Release, Unlock
<1>3. CASE RewindStep
  BY ZenonT(30), <1>3 DEF RewindStep, TrimHeader, TrimFails, NoBlocksToRewind, RewindBlocks, RewindUnderflows,
     RewindBlock, RewindBlockFails, RewindDone, PurgeBody, PurgeFails, PurgeDone, Restart,
     ReturnRewind, Goto, Fail, Release, Unlock
<1>4. CASE SwapStep
  BY ZenonT(30), <1>4 DEF SwapStep, SwapBegin, SelectUnreadable, SelectNone, SelectTip, LinkBlock, LinkMissing,
     ApplyBlock, ApplyWriteFails, ApplyInvalid, ApplyDone, Restore, RestoreFails, SwapReturns, RestoreAfter,
     CallRewind, Goto, Fail, Release, Unlock
<1>5. CASE FinishStep
  BY Zenon, <1>5 DEF FinishStep, PruneNotNeeded, PruneStart, PruneNeeded, PruneBlocks, Cleanup, Goto, Fail, Release, Unlock
<1>6. CASE \E b \in Block : AddBlockCall(b) \/ AddBlockReturnsEarly(b) \/ AddBlock(b)
  BY Zenon, <1>6 DEF AddBlockCall, AddBlockReturnsEarly, AddBlock, Acquire
<1>7. CASE Crash
  BY Zenon, <1>7 DEF Crash, Restart, Unlock
<1> QED
  BY Zenon, <1>1, <1>2, <1>3, <1>4, <1>5, <1>6, <1>7 DEF CrashNext, AddBlockNext, Step

(* rewind_to_height is called by swap_to_highest_pow_chain and by
   reorganize_chain only. *)
LEMMA AloneStep ==
    ASSUME PruningHorizon = 0, BaseInv, Alone, [CrashNext]_vars
    PROVE  Alone'
<1>0. ChainInv /\ LinkFound /\ NeverPastHorizon /\ NoPending /\ ChainSound
  BY Zenon, ChainFacts
<1>1. prunedHeight' = 0 /\ pc' # "pruning"
  BY Zenon, <1>0, UnprunedStep DEF Alone
<1>2. (pc' \in {"trim", "rewind"} => return' # "idle") /\ (pc' = "idle" => caller' = "none")
  <2>0. return \in {"idle", "select", "apply", "restore"}
    BY Zenon, <1>0 DEF ChainInv, TypeOK, LocalsTyped
  <2>1. CASE Quiet
    BY Zenon, <2>1 DEF Quiet, Alone
  <2>2. CASE \E b \in Block : AddBlock(b) \/ SelectTip(b)
    BY Zenon, <2>2, AddBlockMoves, SelectMoves
  <2>3. CASE Inserting \/ Finished \/ Finishing \/ Undone \/ Ended
    BY Zenon, <2>3 DEF Inserting, Finished, Finishing, Undone, Ended
  <2>4. CASE Returned
    BY Zenon, <2>0, <2>4 DEF Returned
  <2>5. CASE RewindBlocks \/ RewindBlock
    BY Zenon, <1>0, <2>5, RewindBlocksMoves, RewindMoves DEF Alone
  <2>6. CASE SwapBegin
    BY Zenon, <2>6, SwapBeginMoves
  <2>7. CASE LinkBlock
    <3>1. return' = "apply" \/ pc' = "link"
      BY Zenon, <1>0, <2>7, LinkMoves
    <3>2. pc' \in {"trim", "link"}
      BY Zenon, <1>0, <2>7, LinkMoves
    <3> QED
      BY Zenon, <3>1, <3>2
  <2>8. CASE ApplyBlock
    BY Zenon, <2>8 DEF ApplyBlock, Goto
  <2>9. CASE Restore /\ removed # <<>>
    BY Zenon, <2>9 DEF Restore, Release, Unlock
  <2> QED
    BY ZenonT(30), <1>0, <2>1, <2>2, <2>3, <2>4, <2>5, <2>6, <2>7, <2>8, <2>9, CrashShapes
<1> QED
  BY Zenon, <1>1, <1>2 DEF Alone

-----------------------------------------------------------------------------
(* A finished reorg has the stronger block as the best one. *)
LEMMA AppliedAll ==
    ASSUME BaseInv, Goal, pc = "apply", applied = Len(chain)
    PROVE  Strength[bestBlock] > Strength[start]
<1>1. chain \in Seq(Block) /\ chain # <<>> /\ bestBlock = Below(applied + 1)
  BY Zenon, ChainFacts DEF ChainInv, TypeOK, LocalsTyped, Goal, Replacing, ReorgLinked
<1>2. Len(chain) + 1 # 1 /\ (Len(chain) + 1) - 1 = Len(chain)
  BY <1>1
<1>3. bestBlock = chain[Len(chain)]
  BY Zenon, <1>1, <1>2 DEF Below
<1> QED
  BY Zenon, <1>1, <1>3 DEF Goal

(* What add_block returns is settled once the swap is over, or has failed. *)
LEMMA SettledStep ==
    ASSUME BaseInv, Trail, Goal, Settled, Alone, [CrashNext]_vars
    PROVE  Settled'
<1>0. /\ ChainInv /\ LinkFound /\ NeverPastHorizon /\ ChainSound /\ NoPending /\ StartBound
      /\ bestBlock \in headers
  BY Zenon, ChainFacts
<1>1. ASSUME UNCHANGED <<durable, start>>, StartFound PROVE StartFound'
  BY Zenon, <1>1 DEF StartFound, OrphanChainBlock
<1>2. CASE Quiet
  <2>1. UNCHANGED <<durable, start, pc, return>> /\ (pc = "idle" \/ result' = result)
    BY Zenon, <1>2 DEF Quiet
  <2>2. pc = "idle" => return = "idle"
    BY Zenon, <1>0 DEF LinkFound
  <2> QED
    BY Zenon, <1>1, <2>1, <2>2 DEF Settled, Outcome
<1>3. CASE RewindBlocks \/ RewindBlock
  <2>1. pc' = "rewind" /\ UNCHANGED <<return, result>>
    BY Zenon, <1>3 DEF RewindBlocks, RewindBlock, Goto
  <2> QED
    BY Zenon, <2>1 DEF Settled
<1>4. CASE Returned
  <2>1. return \in {"idle", "select", "apply", "restore"} /\ pc' = return /\ return' = "idle" /\ result' = result
    BY Zenon, <1>0, <1>4 DEF Returned, ChainInv, TypeOK, LocalsTyped
  <2> QED
    BY Zenon, <2>1 DEF Settled
<1>5. CASE Undone
  BY Zenon, <1>5 DEF Undone, Settled
<1>6. CASE LinkBlock \/ ApplyBlock
  <2>1. return = "idle"
    BY Zenon, <1>0, <1>6 DEF LinkBlock, ApplyBlock, LinkFound
  <2>2. pc' \in {"trim", "link", "apply"} /\ return' \in {"apply", return}
    BY Zenon, <1>6 DEF LinkBlock, ApplyBlock, CallRewind, Goto
  <2> QED
    BY Zenon, <2>1, <2>2 DEF Settled
<1>7. CASE Finished
  <2>1. /\ pc' \in {"prune", "cleanup"} /\ return' = "idle" /\ UNCHANGED <<durable, start>>
    BY Zenon, <1>7 DEF Finished, DropLocals, DropRewindLocals
  <2>2. StartFound /\ Outcome(bestBlock, result')
    <3>1. CASE pc = "select" /\ result' = "OrphanBlock"
      <4>1. bestBlock = start
        BY Zenon, <1>0, <3>1 DEF StartBound, Early
      <4> QED
        BY Zenon, <1>0, <3>1, <4>1, FoundOnChain DEF Outcome
    <3>2. CASE pc = "apply" /\ applied = Len(chain) /\ result' \in {"Ok", "ChainReorg"}
      <4>1. linkAt \in headers /\ Connects(removed, start, linkAt) /\ KeptAside(removed)
        BY Zenon, <3>2 DEF Trail, Replacing
      <4> QED
        BY Zenon, <3>2, <4>1, FoundAside, AppliedAll DEF Outcome
    <3> QED
      BY Zenon, <1>7, <3>1, <3>2 DEF Finished
  <2> QED
    BY Zenon, <1>1, <2>1, <2>2 DEF Settled, Outcome
<1>8. CASE Finishing
  <2>1. pc = "prune" /\ return = "idle" /\ UNCHANGED <<mainChain, orphanPool, start, return, result>>
        /\ pc' \in {"pruning", "cleanup"}
    BY Zenon, <1>0, <1>8 DEF Finishing, Alone, LinkFound
  <2>2. StartFound => StartFound'
    BY Zenon, <2>1 DEF StartFound, OrphanChainBlock
  <2> QED
    BY Zenon, <2>1, <2>2 DEF Settled, Outcome
<1>9. ASSUME \/ (\E b \in Block : AddBlock(b)) \/ Inserting \/ SwapBegin \/ (\E t \in Block : SelectTip(t))
             \/ (Restore /\ removed # <<>>) \/ Ended
      PROVE  Settled'
  <2>1. pc' \notin {"prune", "cleanup"}
    BY Zenon, <1>9, AddBlockMoves, SwapBeginMoves, SelectMoves, RestoreMoves DEF Inserting, Ended
  <2> QED
    BY Zenon, <1>9, <2>1, OutsideReorg DEF Settled
<1> QED
  BY Zenon, <1>0, <1>2, <1>3, <1>4, <1>5, <1>6, <1>7, <1>8, <1>9, CrashShapes

-----------------------------------------------------------------------------
(* No call of rewind_to_height asks for a height above the best block. *)
LEMMA TargetBelow ==
    ASSUME BaseInv, Trail, Alone, pc = "trim"
    PROVE  target <= BestHeight /\ BestHeight \in Nat /\ target \in Nat
<1>1. /\ return \in {"select", "apply", "restore"} /\ target \in Nat /\ bestBlock \in Block
      /\ \A h \in headers : Height[h] <= Height[bestBlock]
  BY Zenon, ChainFacts DEF Alone, ChainInv, TypeOK, LocalsTyped, TablesTyped, HeadersFormChain
<1>2. BestHeight \in Nat
  BY <1>1, GenesisBlock DEF BestHeight
<1>3. CASE return = "select"
  <2>1. target = BestHeight
    BY Zenon, <1>3, ChainFacts DEF StartBound
  <2> QED
    BY <1>1, <1>2, <2>1
<1>4. CASE return \in {"apply", "restore"}
  <2>1. linkAt \in headers /\ target = Height[linkAt]
    BY Zenon, <1>4, ChainFacts DEF ReorgLinked, Trail, Replacing
  <2> QED
    BY Zenon, <1>1, <1>2, <2>1 DEF BestHeight
<1> QED
  BY Zenon, <1>1, <1>3, <1>4

(* rewind_to_height does not fail: the pool has no row in the way of the block
   that moves there. *)
LEMMA RewindNeverEnds ==
    ASSUME BaseInv, Trail, Alone, RewindStep
    PROVE  pc' # "idle"
<1>0. /\ NeverPastHorizon /\ lastHeader = bestBlock /\ bestBlock \in headers /\ bodies = headers
      /\ headers \cap orphans = {} /\ OrphanTablesAgree /\ return \in {"idle", "select", "apply", "restore"}
  BY Zenon, ChainFacts DEF ChainInv, TypeOK, LocalsTyped
<1>1. ~TrimFails
  <2>1. pc = "trim" => TrimTo = BestHeight
    BY TargetBelow DEF TrimTo
  <2>2. BestHeight \in Nat /\ Height[lastHeader] = BestHeight
    BY Zenon, <1>0, GenesisBlock, ChainFacts DEF BestHeight, ChainInv, TypeOK, TablesTyped
  <2> QED
    BY <2>1, <2>2 DEF TrimFails
<1>2. ~RewindUnderflows
  BY TargetBelow DEF RewindUnderflows, Alone
<1>3. RewindBlockOk(lastHeader)
  BY <1>0 DEF RewindBlockOk, OrphanTablesAgree
<1>4. pc \in {"trim", "rewind"} => return # "idle"
  BY Zenon DEF Alone
<1> QED
  BY ZenonT(30), <1>0, <1>1, <1>2, <1>3, <1>4
  DEF RewindStep, TrimHeader, NoBlocksToRewind, RewindBlocks, RewindBlock, RewindBlockFails, RewindDone,
      PurgeBody, PurgeFails, PurgeDone, ReturnRewind, Goto, NeverPastHorizon

(* The block that fails validation can be deleted from the pool. *)
LEMMA InvalidDeleted ==
    ASSUME BaseInv, pc = "apply", applied < Len(chain)
    PROVE  DeleteOrphansOk({chain[applied + 1]})
<1>1. Parent[chain[applied + 1]] \in bodies /\ OrphansOffChain
  BY Zenon, NextApplied, ChainFacts
<1>2. HeirsOf({chain[applied + 1]}) = {}
  BY Zenon, <1>1, ChildNoHeir
<1> QED
  BY <1>2, Zenon DEF DeleteOrphansOk

(* The removed blocks can be inserted again. *)
LEMMA RestoreSucceeds ==
    ASSUME BaseInv, Trail, pc = "restore", removed # <<>>
    PROVE  RestoreOk /\ removed[1] = start
<1> DEFINE b == removed[Len(removed)]
<1>1. /\ removed[1] = start /\ Parent[b] = linkAt /\ bestBlock = linkAt /\ lastHeader = linkAt
      /\ linkAt \in bodies /\ linkAt \in Block /\ OrphansOffChain /\ ChainSound /\ ChainInv
  BY Zenon, ChainFacts DEF Trail, Replacing, Connects, ChainInv, TypeOK, TablesTyped
<1>2. b \in Elements(removed)
  <2>1. Len(removed) \in DOMAIN removed
    BY <1>1 DEF ChainInv, TypeOK, LocalsTyped
  <2> QED
    BY Zenon, <2>1 DEF Elements
<1> HIDE DEF b
<1>3. b \in HeaderValid
  BY Zenon, <1>1, <1>2, SoundValid DEF ChainSound
<1>4. b # Genesis
  BY <1>1, TreeAssumption DEF TreeAssumption
<1>5. Height[b] = Height[linkAt] + 1
  BY <1>1, <1>3, <1>4, LinkAssumption DEF LinkAssumption
<1>6. InsertBestOk(b)
  BY Zenon, <1>1, <1>5 DEF InsertBestOk, ExtendsHeaders, ExtendsBest
<1>7. HeirsOf(Elements(removed)) = {}
  BY Zenon, <1>1, RemovedNoHeir DEF b
<1>8. DeleteOrphansOk(Elements(removed))
  BY <1>7 DEF DeleteOrphansOk
<1> QED
  BY Zenon, <1>1, <1>6, <1>8 DEF RestoreOk, b

(* When add_block returns without a stop of the process, the node is on a
   stronger chain and the result says so, or it is on the chain it started
   from. *)
LEMMA AddBlockEnds ==
    ASSUME BaseInv, ReorgInv, AddBlockNext, pc # "idle", pc' = "idle"
    PROVE  Outcome(bestBlock', result')
<1>0. Trail /\ Goal /\ Settled /\ Alone /\ StartBound /\ NeverPastHorizon
  BY Zenon, ChainFacts DEF ReorgInv
<1>1. CASE InsertStep
  <2>1. pc \in {"insert", "header", "find"} /\ bestBlock' = bestBlock /\ result' \in {"ValidationError", "StorageError"}
    BY ZenonT(30), <1>1 DEF InsertStep, InsertSeenOrphan, ParentTipUnreadable, RemoveParentTip, ParentInAllChains,
       InsertTrueOrphan, InsertOrphan, RejectHeader, InsertOrphanFails, VisitValidOrphan,
       VisitAccumulatedOrphan, DiscardInvalidOrphan, InsertNewTips, Goto, Reject, Fail, Release
  <2> QED
    BY Zenon, <1>0, <2>1 DEF StartBound, Early, Outcome
<1>2. ~RewindStep
  BY Zenon, <1>0, RewindNeverEnds
<1>3. CASE SelectUnreadable \/ SelectNone \/ LinkMissing
  <2>1. /\ pc \in {"select", "link"} /\ bestBlock' = bestBlock
        /\ result' \in {"OrphanBlock", "StorageError"}
    BY Zenon, <1>3 DEF SelectUnreadable, SelectNone, LinkMissing, SwapReturns, Fail, Release
  <2>2. bestBlock = start
    BY Zenon, <1>0, <2>1 DEF StartBound, Early, Goal
  <2> QED
    BY Zenon, <2>1, <2>2 DEF Outcome
<1>4. CASE ApplyDone
  <2>1. pc = "apply" /\ applied = Len(chain) /\ bestBlock' = bestBlock /\ result' \in {"Ok", "ChainReorg"}
    BY Zenon, <1>4 DEF ApplyDone, SwapReturns, Release
  <2> QED
    BY Zenon, <1>0, <2>1, AppliedAll DEF Outcome
<1>5. CASE Restore
  <2>1. pc = "restore" /\ result' = result /\ result \in {"ValidationError", "StorageError"}
    BY Zenon, <1>0, <1>5 DEF Restore, Release, Settled
  <2>2. bestBlock' = start
    <3>1. CASE removed = <<>>
      BY Zenon, <1>0, <1>5, <2>1, <3>1 DEF Restore, Trail, Replacing, Connects
    <3>2. CASE removed # <<>>
      BY Zenon, <1>0, <1>5, <2>1, <3>2, RestoreMoves, RestoreSucceeds
    <3> QED
      BY Zenon, <3>1, <3>2
  <2> QED
    BY Zenon, <2>1, <2>2 DEF Outcome
<1>6. ~RestoreFails
  BY Zenon, <1>0, RestoreSucceeds DEF RestoreFails
<1>7. ~ApplyInvalid
  BY Zenon, InvalidDeleted DEF ApplyInvalid, RestoreAfter, CallRewind
<1>8. ~(SwapBegin \/ LinkBlock \/ ApplyBlock \/ ApplyWriteFails \/ \E t \in Block : SelectTip(t))
  BY Zenon DEF SwapBegin, LinkBlock, ApplyBlock, ApplyWriteFails, SelectTip, RestoreAfter, CallRewind, Goto
<1>9. CASE FinishStep
  <2>1. pc = "cleanup" /\ bestBlock' = bestBlock /\ result' = result
    BY Zenon, <1>0, <1>9 DEF FinishStep, PruneNotNeeded, PruneStart, PruneBlocks, Cleanup, Goto, Release, Alone
  <2> QED
    BY Zenon, <1>0, <2>1 DEF Settled
<1>10. ~ \E b \in Block : AddBlockCall(b) \/ AddBlockReturnsEarly(b) \/ AddBlock(b)
  BY Zenon DEF AddBlockCall, AddBlockReturnsEarly, AddBlock, Acquire
<1> QED
  BY Zenon, <1>1, <1>2, <1>3, <1>4, <1>5, <1>6, <1>7, <1>8, <1>9, <1>10 DEF AddBlockNext, Step, SwapStep

-----------------------------------------------------------------------------
(* The inductive invariant of an archival node that adds blocks and may stop
   at any point *)
LEMMA ReorgInvariant ==
    ASSUME PruningHorizon = 0
    PROVE  CrashSpec => [](BaseInv /\ ReorgInv)
<1>1. Init => ReorgInv
  BY DEF Init, ReorgInv, Trail, Replacing, Goal, Settled, Alone
<1>2. BaseInv /\ ReorgInv /\ [CrashNext]_vars => ReorgInv'
  BY Zenon, TrailStep, GoalStep, SettledStep, AloneStep DEF ReorgInv
<1>3. BaseInv <=> ChainInv /\ LinkFound /\ ArchivalInv /\ SelectInv
  BY Zenon DEF BaseInv
<1> QED
  BY <1>1, <1>2, <1>3, SelectInvariant, PTL DEF CrashSpec

(* A node that does not stop takes the same steps. *)
LEMMA WithoutStop ==
    ASSUME PruningHorizon = 0
    PROVE  AddBlockSpec => [](BaseInv /\ ReorgInv)
<1>1. [AddBlockNext]_vars => [CrashNext]_vars
  BY Zenon DEF CrashNext
<1> QED
  BY <1>1, ReorgInvariant, PTL DEF AddBlockSpec, CrashSpec

(* Wherever add_block is in its work on an archival node, the chain it started
   from can be found again, on the main chain or block by block in the orphan
   pool under a chain tip: a process that stops in a reorg, or in the middle of
   undoing one, loses no block of it. *)
THEOREM StartChainFound ==
    ASSUME PruningHorizon = 0
    PROVE  CrashSpec => []StartChainKept
<1>1. ASSUME BaseInv, ReorgInv PROVE StartChainKept
  <2> SUFFICES ASSUME pc # "idle" PROVE StartFound
    <3>1. start \in Block
      BY Zenon, <1>1 DEF BaseInv, ChainInv, TypeOK, ControlTyped
    <3>2. AncestorsOf[start] \cup {start} = DownFrom(start)
      BY <3>1, DownFromSelf DEF AncestorsOf
    <3> QED
      BY Zenon, <3>2 DEF StartChainKept, StartFound
  <2>0. /\ Trail /\ Goal /\ Settled /\ Alone /\ StartBound /\ NeverPastHorizon /\ bestBlock \in headers
        /\ pc \in Steps /\ return \in {"idle", "select", "apply", "restore"}
    BY Zenon, <1>1, ChainFacts DEF ReorgInv, ChainInv, TypeOK, ControlTyped, LocalsTyped
  <2>1. CASE Early \/ pc = "link"
    <3>1. bestBlock = start
      BY Zenon, <2>0, <2>1 DEF StartBound, Goal
    <3> QED
      BY Zenon, <1>1, <2>0, <3>1, FoundOnChain
  <2>2. CASE return = "apply"
    BY Zenon, <1>1, <2>0, <2>2, FoundAside DEF Trail
  <2>3. CASE Replacing
    BY Zenon, <1>1, <2>0, <2>3, FoundAside DEF Trail
  <2>4. CASE pc \in {"prune", "cleanup"}
    BY Zenon, <2>0, <2>4 DEF Settled
  <2>5. Early \/ pc = "link" \/ return = "apply" \/ Replacing \/ pc \in {"prune", "cleanup"}
    BY <2>0 DEF Steps, Early, Replacing, Alone, NeverPastHorizon
  <2> QED
    BY Zenon, <2>1, <2>2, <2>3, <2>4, <2>5
<1> QED
  BY <1>1, ReorgInvariant, PTL

(* add_block on an archival node leaves it on a strictly stronger chain when
   it says that the chain has changed, and on the block it started with when
   it returns an error: reorganize_chain and restore_reorged_chain never fail
   halfway. *)
THEOREM StrongerOrUnchanged ==
    ASSUME PruningHorizon = 0
    PROVE  AddBlockSpec => NeverWeaker
<1>1. ASSUME BaseInv, ReorgInv, [AddBlockNext]_vars PROVE [NeverWeakerStep]_vars
  <2>1. CASE UNCHANGED vars
    BY <2>1
  <2>2. CASE AddBlockNext
    <3> SUFFICES ASSUME caller \in {"add_block", "swap"}, pc' = "idle" PROVE Outcome(bestBlock', result')
      BY Zenon DEF NeverWeakerStep, Outcome
    <3>1. pc # "idle"
      BY Zenon, <1>1 DEF ReorgInv, Alone
    <3> QED
      BY Zenon, <1>1, <2>2, <3>1, AddBlockEnds
  <2> QED
    BY <1>1, <2>1, <2>2
<1> QED
  BY <1>1, WithoutStop, PTL DEF AddBlockSpec, NeverWeaker

(* "all changes are reverted before returning": on an archival node the
   comment on add_block holds, for every block tree and every order in which
   the blocks arrive. *)
THEOREM ErrorsReverted ==
    ASSUME PruningHorizon = 0
    PROVE  AddBlockSpec => ErrorsRevert
<1>1. [NeverWeakerStep]_vars =>
        [caller = "add_block" /\ pc' = "idle" /\ result' \in {"ValidationError", "StorageError"} => bestBlock' = start]_vars
  BY Zenon DEF NeverWeakerStep
<1> QED
  BY <1>1, StrongerOrUnchanged, PTL DEF NeverWeaker, ErrorsRevert

(* An archival node that does not stop implements ChainSelection without its
   interruptions: what readers see only ever moves to a stronger chain of
   validated blocks, never back to the fork of a reorg that failed. *)
THEOREM AdoptsOnly ==
    ASSUME PruningHorizon = 0
    PROVE  AddBlockSpec => OnlyAdopts
<1>1. Init => Selection!Init
  BY SelectInit DEF Selection!Init
<1>2. ASSUME BaseInv, ReorgInv, BaseInv', [AddBlockNext]_vars
      PROVE  [\E b \in Block : Selection!Adopt(b)]_VisibleBest
  <2>0. /\ ChainInv /\ NeverPastHorizon /\ NoPending /\ ChainSound /\ [CrashNext]_vars
    BY Zenon, <1>2, ChainFacts DEF CrashNext
  <2>1. CASE pc' # "idle" \/ pc = "idle"
    <3>1. VisibleBest' = VisibleBest
      <4>1. CASE pc = "idle"
        BY Zenon, <2>0, <4>1, CrashIdle DEF VisibleBest
      <4>2. CASE pc # "idle" /\ pc' # "idle"
        BY Zenon, <2>0, <4>2, CrashBusy DEF VisibleBest
      <4> QED
        BY Zenon, <2>1, <4>1, <4>2
    <3> QED
      BY Zenon, <3>1
  <2>2. CASE pc # "idle" /\ pc' = "idle"
    <3>1. VisibleBest = start /\ VisibleBest' = bestBlock'
      BY Zenon, <2>2 DEF VisibleBest
    <3>2. AddBlockNext
      BY Zenon, <1>2, <2>2 DEF vars
    <3>3. bestBlock' = start \/ Strength[bestBlock'] > Strength[start]
      BY Zenon, <1>2, <2>2, <3>2, AddBlockEnds DEF Outcome
    <3>4. Sound(bestBlock')
      BY Zenon, <1>2 DEF BaseInv, SelectInv, ChainSound, ChainInv, HeadersFormChain
    <3>5. bestBlock' \in Block /\ Selection!ValidChain(bestBlock')
      BY Zenon, <3>4, ValidChainSound, SoundValid
    <3> QED
      BY Zenon, <3>1, <3>3, <3>5 DEF Selection!Adopt
  <2> QED
    BY Zenon, <2>1, <2>2
<1> QED
  BY <1>1, <1>2, WithoutStop, PTL DEF AddBlockSpec, OnlyAdopts, Selection!AdoptSpec
=============================================================================
