------------------------ MODULE MerkleMountainRange ------------------------
(***************************************************************************)
(* A Merkle mountain range that leaves are pushed to, beside the pruned     *)
(* copy prune_mmr made of it at some point and that receives the same       *)
(* pushes, which is how calculate_mmr_root obtains the root of an extended  *)
(* range without touching the original.                                     *)
(***************************************************************************)
EXTENDS MmrTree

CONSTANTS
    Values,     \* what the caller hashes into leaves
    MaxLeaves   \* bound: leaves pushed

MaxLeavesAssumption == MaxLeaves \in Nat

VARIABLES
    full,       \* the backend of the range
    pruned,     \* the backend of its pruned copy
    leaves      \* the leaves pushed, in order

vars == <<full, pruned, leaves>>

Leaf(v) == <<"leaf", v>>

Init ==
    /\ full = EmptyBackend
    /\ pruned = EmptyBackend
    /\ leaves = << >>

\* push on the range and on its pruned copy.
PushLeaf(v) ==
    /\ Len(leaves) < MaxLeaves
    /\ CanPush(full)
    /\ CanPush(pruned)
    /\ full' = Push(full, Leaf(v))
    /\ pruned' = Push(pruned, Leaf(v))
    /\ leaves' = Append(leaves, Leaf(v))

\* prune_mmr
PruneMmr ==
    /\ pruned' = Prune(full)
    /\ UNCHANGED <<full, leaves>>

\* assign: the range is cleared and rebuilt from its own leaf hashes, and the
\* pruned copy made anew.
Assign ==
    /\ full' = AssignIter(GetLeafHashes(full, 0, GetLeafCount(full)))
    /\ pruned' = Prune(full')
    /\ UNCHANGED leaves

Next ==
    \/ \E v \in Values : PushLeaf(v)
    \/ PruneMmr
    \/ Assign

Spec == Init /\ [][Next]_vars

-----------------------------------------------------------------------------
\* The reference: a perfect binary tree over the leaves lo+1 .. lo+2^k in
\* postorder, and the range as the trees of the binary digits of the leaf count.
RECURSIVE PostOrder(_, _)
PostOrder(lo, k) ==
    IF k = 0 THEN <<leaves[lo + 1]>>
    ELSE LET l == PostOrder(lo, k - 1)
             r == PostOrder(lo + 2^(k - 1), k - 1)
         IN  l \o r \o <<Digest(<<Last(l), Last(r)>>)>>

RECURSIVE Mountains(_)
Mountains(lo) ==
    IF lo = Len(leaves) THEN << >>
    ELSE LET k == CHOOSE k \in 0..Len(leaves) :
                     /\ lo + 2^k <= Len(leaves)
                     /\ lo + 2^(k + 1) > Len(leaves)
         IN  <<PostOrder(lo, k)>> \o Mountains(lo + 2^k)

\* The nodes push stores are the mountains of the leaves in postorder, and the
\* root is the digest of the mountains' tops (push, get_merkle_root).
StoresMountains ==
    /\ full.hashes = FlattenSeq(Mountains(0))
    /\ GetMerkleRoot(full) = Digest([n \in DOMAIN Mountains(0) |-> Last(Mountains(0)[n])])

\* The leaf and node indices agree with each other and with the leaves, whatever
\* the size: every leaf is found at its index and every page of get_leaf_hashes
\* holds the leaves it should (node_index, leaf_index, is_leaf, get_leaf_count).
LeavesFound ==
    /\ GetLeafCount(full) = Len(leaves)
    /\ \A i \in 0..Len(leaves) - 1 :
          /\ IsLeaf(NodeIndex(i)) /\ LeafIndex(NodeIndex(i)) = i
          /\ GetLeafHash(full, i) = leaves[i + 1]
          /\ leaves[FindLeafIndex(full, leaves[i + 1]) + 1] = leaves[i + 1]
    /\ \A i \in 0..Len(leaves), count \in 1..MaxLeaves + 1 :
          GetLeafHashes(full, i, count)
             = SubSeq(leaves, i + 1, IF i + count > Len(leaves) THEN Len(leaves) ELSE i + count)

\* The proof made for a leaf verifies for that leaf at that position against the
\* current root, and for no other hash (for_leaf_node, verify_leaf).
ProofsVerify ==
    \A i \in 0..Len(leaves) - 1 :
        LET proof == GenerateProof(full, NodeIndex(i))
        IN  \A v \in Values :
                Verify(proof, GetMerkleRoot(full), Leaf(v), NodeIndex(i))
                    = IF Leaf(v) = leaves[i + 1] THEN "ok" ELSE "RootMismatch"

\* A pruned range that received the same leaves has the same size and root, and
\* every hash it still has is the range's (PrunedHashSet, calculate_mmr_root).
PrunedAgrees ==
    /\ Size(pruned) = Size(full)
    /\ GetMerkleRoot(pruned) = GetMerkleRoot(full)
    /\ \A i \in 0..Size(full) - 1 : GetNodeHash(pruned, i) \in {None, GetNodeHash(full, i)}

\* validate accepts what push stored and refuses it once any node that has a
\* parent or children is another hash.
ValidateDetects ==
    /\ Validate(full) = "ok"
    /\ \A i \in 0..Size(full) - 1 :
          (IsLeaf(i) /\ i \in Range(FindPeaks(Size(full))))
             \/ Validate([full EXCEPT !.hashes[i + 1] = NullHash]) = "InvalidMerkleTree"

\* "Returns the new length of the merkle mountain range" (push).
PushReturnsLength == \A v \in Values : PushResult(full, Leaf(v)) = Size(Push(full, Leaf(v)))

\* "get_leaf_hash will return None" for the leaves before the point a range was
\* pruned at (prune_mmr).
PrunedLeavesUnavailable ==
    \A i \in 0..Len(leaves) - 1 : NodeIndex(i) < pruned.base => GetLeafHash(pruned, i) = None

\* Verifying a proof at another leaf's position returns an error: a proof is
\* checked "against the provided root hash, element and position" (verify).
WrongPositionRefused ==
    \A i, j \in 0..Len(leaves) - 1 : i # j =>
        Verify(GenerateProof(full, NodeIndex(i)), GetMerkleRoot(full), leaves[i + 1], NodeIndex(j))
            \in {"ok", "Unexpected", "RootMismatch", "IncorrectPeakMap"}

\* "Jump to left sibling : n - 2^(H+1) - 1", for a right child of height H (family).
LeftSiblingJump ==
    \A n \in 0..Size(full) - 1 :
        IsLeftSibling(n) \/ Family(n).sibling = n - 2^(BintreeHeight(n) + 1) - 1
=============================================================================
