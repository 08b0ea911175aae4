------------------------- MODULE BalancedMerkleTree -------------------------
(***************************************************************************)
(* The balanced binary Merkle tree, its proofs, and several proofs merged   *)
(* into one.  The tree is an array of 2n - 1 hashes in which node i has the *)
(* children 2i + 1 and 2i + 2, so for a leaf count that is no power of two  *)
(* the leaves lie on two rows.  Hashes are symbolic, as in MmrTree.  The    *)
(* state is a tree and a selection of its leaves, in the order their proofs *)
(* are merged.                                                              *)
(***************************************************************************)
EXTENDS Integers, Sequences, SequencesExt

CONSTANTS
    MaxLeaves,      \* bound: leaves of a tree
    MaxSelected     \* bound: proofs merged

TreeAssumption == MaxLeaves \in Nat \ {0} /\ MaxSelected \in Nat

VARIABLES
    count,      \* the number of leaves
    selected    \* the leaf indices whose proofs are merged

vars == <<count, selected>>

Leaf(i) == <<"leaf", i>>
Wrong == <<"other">>
HashTogether(l, r) == <<"digest", l, r>>

IsLeft(node) == node % 2 = 1
Parent(node) == (node - 1) \div 2
Sibling(node) == 4 * Parent(node) + 3 - node

\* create: the leaves at the end of the array, the parents from the bottom up.
Create(n) ==
    LET Node[i \in 0..2 * n - 2] ==
            IF i >= n - 1 THEN Leaf(i - (n - 1)) ELSE HashTogether(Node[2 * i + 1], Node[2 * i + 2])
    IN  Node

GetMerkleRoot(t) == t[0]

GetNodeIndex(n, leaf) == leaf + (2 * n - 1) \div 2

FindLeafIndexForHash(n, h) ==
    LET at == {i \in 0..2 * n - 2 : Create(n)[i] = h}
        pos == CHOOSE i \in at : \A j \in at : i <= j
    IN  IF at = {} \/ pos < (2 * n - 1) \div 2 THEN -1 ELSE pos - (2 * n - 1) \div 2

\* generate_proof: the siblings' hashes from the leaf up.
GenerateProof(n, leaf) ==
    LET t == Create(n)
        Up[node \in Nat] == IF node = 0 THEN << >> ELSE <<t[Sibling(node)]>> \o Up[Parent(node)]
    IN  [path |-> Up[GetNodeIndex(n, leaf)], node_index |-> GetNodeIndex(n, leaf)]

Combine(node, h, sibling) == IF IsLeft(node) THEN HashTogether(h, sibling) ELSE HashTogether(sibling, h)

Verify(proof, root, h) ==
    FoldLeft(LAMBDA s, sibling : [node |-> Parent(s.node), h |-> Combine(s.node, s.h, sibling)],
             [node |-> proof.node_index, h |-> h], proof.path).h = root

(* ---------------------------- merged proofs ---------------------------- *)

MaxHeight(heights) == CHOOSE m \in Range(heights) : \A h \in Range(heights) : h <= m

\* The rows, the deepest first: max_height - 1 down to 0.
Rows(heights) == [k \in 1..MaxHeight(heights) |-> MaxHeight(heights) - k]

\* One proof in one row: joined to the latest proof of this row with the same
\* parent, whose own entry becomes an index, or else given its hash.
MergeOne(s, proofs, row, i) ==
    LET parent == Parent(s.nodes[i])
        path   == proofs[i].path
    IN  IF i \in s.joined \/ Len(path) <= row THEN s
        ELSE [s EXCEPT
                !.joined  = IF parent \in DOMAIN s.seen THEN @ \cup {i} ELSE @,
                !.paths   = IF parent \in DOMAIN s.seen
                            THEN [@ EXCEPT ![s.seen[parent]][1] = <<"Index", i>>]
                            ELSE [@ EXCEPT ![i] = <<<<"Hash", path[Len(path) - row]>>>> \o @],
                !.seen    = [p \in DOMAIN @ \cup {parent} |-> IF p = parent THEN i ELSE @[p]],
                !.nodes[i] = parent]

MergeRow(s, proofs, row) ==
    FoldLeft(LAMBDA a, i : MergeOne(a, proofs, row, i),
             [s EXCEPT !.seen = [p \in {} |-> 0]], [i \in DOMAIN proofs |-> i])

CreateFromProofs(proofs) ==
    LET heights == [i \in DOMAIN proofs |-> Len(proofs[i].path)]
        merged  == FoldLeft(LAMBDA s, row : MergeRow(s, proofs, row),
                            [nodes  |-> [i \in DOMAIN proofs |-> proofs[i].node_index],
                             paths  |-> [i \in DOMAIN proofs |-> << >>],
                             joined |-> {}, seen |-> [p \in {} |-> 0]],
                            Rows(heights))
    IN  [paths |-> merged.paths, heights |-> heights,
         node_indices |-> [i \in DOMAIN proofs |-> proofs[i].node_index]]

\* One row of verify_consume; an index refers to the hashes before the row.
VerifyRow(s, heights, row) ==
    LET moves(i) == heights[i] > row /\ s.paths[i] # << >>
        entry(i) == Last(s.paths[i])
        sibling(i) == IF entry(i)[1] = "Index" THEN s.hashes[entry(i)[2]] ELSE entry(i)[2]
    IN  [hashes |-> [i \in DOMAIN heights |->
                        IF moves(i) THEN Combine(s.nodes[i], s.hashes[i], sibling(i)) ELSE s.hashes[i]],
         paths  |-> [i \in DOMAIN heights |-> IF moves(i) THEN Front(s.paths[i]) ELSE s.paths[i]],
         nodes  |-> [i \in DOMAIN heights |-> IF moves(i) THEN Parent(s.nodes[i]) ELSE s.nodes[i]]]

VerifyConsume(proof, root, hashes) ==
    FoldLeft(LAMBDA s, row : VerifyRow(s, proof.heights, row),
             [hashes |-> hashes, paths |-> proof.paths, nodes |-> proof.node_indices],
             Rows(proof.heights)).hashes[1] = root

-----------------------------------------------------------------------------
Init ==
    /\ count \in 1..MaxLeaves
    /\ selected = << >>

Select(leaf) ==
    /\ Len(selected) < MaxSelected
    /\ leaf \notin Range(selected)
    /\ selected' = Append(selected, leaf)
    /\ UNCHANGED count

Next == \E leaf \in 0..count - 1 : Select(leaf)

Spec == Init /\ [][Next]_vars

-----------------------------------------------------------------------------
\* Every leaf is found at its index, and its proof verifies for it and for no
\* other hash, also where the leaves lie on two rows (generate_proof, verify).
ProofsVerify ==
    \A leaf \in 0..count - 1 :
        LET proof == GenerateProof(count, leaf)
            root  == GetMerkleRoot(Create(count))
        IN  /\ FindLeafIndexForHash(count, Leaf(leaf)) = leaf
            /\ Verify(proof, root, Leaf(leaf))
            /\ ~Verify(proof, root, Wrong)

\* The proofs of different leaves, merged in any order, verify together, and no
\* longer do once the hash of any one of the leaves is another
\* (create_from_proofs, verify_consume).
MergedVerifies ==
    selected # << >> =>
        LET proof  == CreateFromProofs([i \in DOMAIN selected |-> GenerateProof(count, selected[i])])
            hashes == [i \in DOMAIN selected |-> Leaf(selected[i])]
            root   == GetMerkleRoot(Create(count))
        IN  /\ VerifyConsume(proof, root, hashes)
            /\ \A i \in DOMAIN hashes : ~VerifyConsume(proof, root, [hashes EXCEPT ![i] = Wrong])
=============================================================================
