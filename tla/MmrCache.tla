------------------------------ MODULE MmrCache ------------------------------
(***************************************************************************)
(* The MMR cache: a base MMR with the older checkpoints applied and a       *)
(* current MMR, a pruned copy of it with the newer ones.  The checkpoints   *)
(* are shared with the owner, who appends, truncates or merges them and     *)
(* then calls update, checkpoints_merged or reset.                          *)
(*                                                                         *)
(* An MMR is the leaves pushed to it and the leaves marked deleted, which   *)
(* its root determines; `pruned` counts the leaves a current MMR inherits   *)
(* from the base as peaks only.                                             *)
(***************************************************************************)
EXTENDS Integers, Sequences, SequencesExt

CONSTANTS
    Values,             \* leaf hashes
    RewindHistLen,      \* config.rewind_hist_len
    MaxCheckpoints,     \* bound: checkpoints at a time
    MaxLeaves,          \* bound: leaves over all checkpoints
    EveryChange         \* TRUE: the owner calls the cache after every change

CacheAssumption == RewindHistLen \in Nat /\ EveryChange \in BOOLEAN

VARIABLES
    checkpoints,    \* a sequence of [added, deleted]
    baseCp,         \* base_cp_index
    currCp,         \* curr_cp_index
    base, curr,     \* [leaves, deleted, pruned]
    synced          \* no change since the cache was last told

vars == <<checkpoints, baseCp, currCp, base, curr, synced>>

EmptyMmr == [leaves |-> << >>, deleted |-> {}, pruned |-> 0]

\* MerkleCheckPoint::apply
Apply(mmr, cp) == [mmr EXCEPT !.leaves = @ \o cp.added, !.deleted = @ \cup cp.deleted]

\* Checkpoints with indices first to last; an index that is not there is skipped.
ApplyRange(mmr, cps, first, last) ==
    FoldLeft(Apply, mmr, SubSeq(cps, first + 1, IF last + 1 > Len(cps) THEN Len(cps) ELSE last + 1))

CalculateBaseCpIndex(count) == IF count > RewindHistLen THEN count - RewindHistLen ELSE 0

CreateBaseMmr(cps) ==
    LET i == CalculateBaseCpIndex(Len(cps))
    IN  [cp |-> i, mmr |-> ApplyRange(EmptyMmr, cps, 0, i)]

\* Mutant: the base's checkpoint is applied again.
CreateCurrTwice(b, cps) ==
    ApplyRange([b.mmr EXCEPT !.pruned = Len(b.mmr.leaves)], cps, b.cp, Len(cps) - 1)

CreateCurrMmr(b, cps) ==
    ApplyRange([b.mmr EXCEPT !.pruned = Len(b.mmr.leaves)], cps, b.cp + 1, Len(cps) - 1)

\* The base only moves forward here; otherwise it is rebuilt.
UpdateBaseMmr(b, cps) ==
    LET i == CalculateBaseCpIndex(Len(cps))
    IN  IF b.cp < i THEN [cp |-> i, mmr |-> ApplyRange(b.mmr, cps, b.cp + 1, i)]
        ELSE CreateBaseMmr(cps)

\* update: decided by the number of checkpoints alone.
Update(b, c, cps) ==
    IF Len(cps) <= b.cp \/ Len(cps) # c.cp
    THEN LET nb == IF Len(cps) <= b.cp THEN CreateBaseMmr(cps)
                   ELSE IF Len(cps) < c.cp THEN b ELSE UpdateBaseMmr(b, cps)
         IN  [base |-> nb, curr |-> [cp |-> Len(cps), mmr |-> CreateCurrMmr(nb, cps)]]
    ELSE [base |-> b, curr |-> c]

Base == [cp |-> baseCp, mmr |-> base]
Curr == [cp |-> currCp, mmr |-> curr]

Become(cache) ==
    /\ baseCp' = cache.base.cp /\ base' = cache.base.mmr
    /\ currCp' = cache.curr.cp /\ curr' = cache.curr.mmr
    /\ synced' = TRUE

-----------------------------------------------------------------------------
Replay(cps) == FoldLeft(Apply, EmptyMmr, cps)

Leaves == Len(Replay(checkpoints).leaves)

Unchanged == UNCHANGED <<baseCp, currCp, base, curr>>

Init ==
    /\ checkpoints = << >>
    /\ baseCp = 0 /\ currCp = 0
    /\ base = EmptyMmr /\ curr = EmptyMmr
    /\ synced = TRUE

MayChange == EveryChange => synced

\* A checkpoint of one or two leaves, deleting at most one leaf there is.
PushCheckpoint ==
    /\ MayChange
    /\ Len(checkpoints) < MaxCheckpoints
    /\ \E added \in {<<v>> : v \in Values} \cup {<<v, v>> : v \in Values} :
       /\ Leaves + Len(added) <= MaxLeaves
       /\ \E deleted \in {{}} \cup {{i} : i \in 0..Leaves - 1} :
            checkpoints' = Append(checkpoints, [added |-> added, deleted |-> deleted])
    /\ synced' = FALSE
    /\ Unchanged

TruncateCheckpoints ==
    /\ MayChange
    /\ \E n \in 0..Len(checkpoints) - 1 : checkpoints' = SubSeq(checkpoints, 1, n)
    /\ synced' = FALSE
    /\ Unchanged

\* MerkleCheckPoint::append
Merged(cps) ==
    FoldLeft(LAMBDA a, cp : [added |-> a.added \o cp.added, deleted |-> a.deleted \cup cp.deleted],
             [added |-> << >>, deleted |-> {}], cps)

\* The first n checkpoints are replaced by one (shift, push_front) and the cache
\* is told at once: checkpoints_merged, which ends with update.
CheckpointsMerged ==
    /\ MayChange
    /\ \E n \in 2..Len(checkpoints) :
       LET cps  == <<Merged(SubSeq(checkpoints, 1, n))>> \o SubSeq(checkpoints, n + 1, Len(checkpoints))
           Down(i) == IF i > n - 1 THEN i - (n - 1) ELSE 0
       IN  /\ checkpoints' = cps
           /\ Become(Update([Base EXCEPT !.cp = Down(@)], [Curr EXCEPT !.cp = Down(@)], cps))

UpdateCache ==
    /\ ~synced
    /\ Become(Update(Base, Curr, checkpoints))
    /\ UNCHANGED checkpoints

Reset ==
    /\ LET nb == CreateBaseMmr(checkpoints)
       IN  Become([base |-> nb,
                   curr |-> [cp |-> Len(checkpoints), mmr |-> CreateCurrMmr(nb, checkpoints)]])
    /\ UNCHANGED checkpoints

Next ==
    \/ PushCheckpoint
    \/ TruncateCheckpoints
    \/ CheckpointsMerged
    \/ UpdateCache
    \/ Reset

Spec == Init /\ [][Next]_vars

-----------------------------------------------------------------------------
\* fetch_mmr_node: the base's hash if it has one, else the current MMR's; a
\* deletion in either counts.
FetchMmrNode(i) ==
    [hash    |-> IF i < Len(base.leaves) THEN base.leaves[i + 1]
                 ELSE IF i >= curr.pruned /\ i < Len(curr.leaves) THEN curr.leaves[i + 1] ELSE "none",
     deleted |-> i \in base.deleted \cup curr.deleted]

\* Once told of a change, the cache's current MMR is the checkpoints applied in
\* order: its root is the root of what the owner stored (update, reset).
CacheCurrent ==
    synced => LET all == Replay(checkpoints)
              IN  curr.leaves = all.leaves /\ curr.deleted = all.deleted

\* ... and every leaf, older than the base or newer, is fetched with its hash and
\* its deletion mark (fetch_mmr_node).
LeavesFetched ==
    synced => LET all == Replay(checkpoints)
              IN  \A i \in 0..Len(all.leaves) - 1 :
                     FetchMmrNode(i) = [hash |-> all.leaves[i + 1], deleted |-> i \in all.deleted]
=============================================================================
