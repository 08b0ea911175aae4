----------------------------- MODULE MutableMmr -----------------------------
(***************************************************************************)
(* The mutable MMR: a Merkle mountain range, a bitmap of the leaves marked  *)
(* deleted and a leaf count of its own.  Its state is handed over in pages  *)
(* (to_leaf_nodes, combine, assign), and calculate_pruned_mmr_root applies  *)
(* additions and deletions to a pruned copy.  A MutableMmr is a record      *)
(* [mmr, deleted, size], mmr being a backend of MmrTree.                    *)
(***************************************************************************)
EXTENDS MmrTree, FiniteSets

CONSTANTS
    Values,     \* what the caller hashes into leaves
    MaxSize     \* the largest leaf count, u32::MAX in the code

MaxSizeAssumption == MaxSize \in Nat

VARIABLES
    tree,       \* the mutable MMR
    copy,       \* a pruned copy that receives the same pushes and deletions
    leaves      \* the leaves pushed since the last clear

vars == <<tree, copy, leaves>>

Leaf(v) == <<"leaf", v>>

New == [mmr |-> EmptyBackend, deleted |-> {}, size |-> 0]

\* push; MaximumSizeReached at the cap.
PushTo(t, h) ==
    IF t.size = MaxSize THEN t ELSE [t EXCEPT !.mmr = Push(@, h), !.size = @ + 1]

\* delete: out of bounds or deleted already, nothing changes.
DeleteFrom(t, i) == IF i >= t.size THEN t ELSE [t EXCEPT !.deleted = @ \cup {i}]

\* prune_mutable_mmr
PruneMutable(t) == [t EXCEPT !.mmr = Prune(@)]

\* The merklish root includes the bitmap.
GetRoot(t) == Digest(<<GetMerkleRoot(t.mmr), <<"bitmap", t.deleted>>>>)

\* len is a subtraction on u32 and panics below zero.
LiveLen(t) == t.size - Cardinality(t.deleted)

IsEmpty(t) == Size(t.mmr) = 0 \/ Cardinality(t.deleted) = t.size

\* get_sub_bitmap: the deletions of the page, by two closed ranges removed.
SubBitmap(t, i, count) ==
    LET last == i + count - 1
    IN  (t.deleted \ 0..i - 1)
           \ (IF GetLeafCount(t.mmr) > 1 /\ last < GetLeafCount(t.mmr) - 1
              THEN last + 1..GetLeafCount(t.mmr) ELSE {})

ToLeafNodes(t, i, count) ==
    [leaf_hashes |-> GetLeafHashes(t.mmr, i, count), deleted |-> SubBitmap(t, i, count)]

Combine(s, next) ==
    [leaf_hashes |-> s.leaf_hashes \o next.leaf_hashes, deleted |-> s.deleted \cup next.deleted]

\* assign: the range is rebuilt, the bitmap and the leaf count taken from it.
AssignState(state) ==
    LET mmr == AssignIter(state.leaf_hashes)
    IN  [mmr |-> mmr, deleted |-> state.deleted, size |-> GetLeafCount(mmr)]

\* The state read in pages of `count` leaves and combined.
ReadPages(t, count) ==
    FoldLeft(LAMBDA s, n : Combine(s, ToLeafNodes(t, n * count, count)),
             ToLeafNodes(t, 0, count), [n \in 1..t.size \div count |-> n])

-----------------------------------------------------------------------------
Init ==
    /\ tree = New
    /\ copy = New
    /\ leaves = << >>

DoPush(v) ==
    /\ tree' = PushTo(tree, Leaf(v))
    /\ copy' = PushTo(copy, Leaf(v))
    /\ leaves' = IF tree.size = MaxSize THEN leaves ELSE Append(leaves, Leaf(v))

DoDelete(i) ==
    /\ tree' = DeleteFrom(tree, i)
    /\ copy' = DeleteFrom(copy, i)
    /\ UNCHANGED leaves

DoPrune ==
    /\ copy' = PruneMutable(tree)
    /\ UNCHANGED <<tree, leaves>>

\* A second instance is assigned the pages of the first and takes its place.
DoRestore(count) ==
    /\ tree' = AssignState(ReadPages(tree, count))
    /\ UNCHANGED <<copy, leaves>>

DoClear ==
    /\ tree' = New
    /\ copy' = New
    /\ leaves' = << >>

Next ==
    \/ \E v \in Values : DoPush(v)
    \/ \E i \in 0..MaxSize : DoDelete(i)
    \/ DoPrune
    \/ \E count \in 1..MaxSize : DoRestore(count)
    \/ DoClear

Spec == Init /\ [][Next]_vars

-----------------------------------------------------------------------------
\* A range rebuilt from pages of any size has the root it had: nothing is lost,
\* repeated or shifted at a page boundary (to_leaf_nodes, combine, assign).
PagesRestore ==
    \A count \in 1..MaxSize :
        LET state == ReadPages(tree, count)
        IN  /\ state = [leaf_hashes |-> leaves, deleted |-> tree.deleted]
            /\ GetRoot(AssignState(state)) = GetRoot(tree)

\* The pruned copy that received the same additions and deletions has the same
\* root, so calculate_pruned_mmr_root is the root the tree itself would have.
CopyAgrees == GetRoot(copy) = GetRoot(tree)

\* Only leaves of the tree are deleted, so len cannot underflow, and is_empty is
\* that no leaf is left (delete, len, is_empty).
LiveLeavesCounted ==
    /\ LiveLen(tree) = Cardinality({i \in 0..Len(leaves) - 1 : i \notin tree.deleted})
    /\ IsEmpty(tree) <=> LiveLen(tree) = 0
=============================================================================
