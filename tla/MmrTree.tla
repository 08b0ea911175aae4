------------------------------ MODULE MmrTree ------------------------------
(***************************************************************************)
(* The Merkle mountain range of base_layer/mmr as operators: the index      *)
(* arithmetic of common.rs, the storage backends (a Vec, and the            *)
(* PrunedHashSet that keeps only the peaks of a base), what                 *)
(* MerkleMountainRange computes over a backend, and Merkle proofs.          *)
(*                                                                         *)
(* A hash is symbolic: <<"leaf", v>> for a leaf hashed by the caller and    *)
(* <<"digest", parts>> for a digest of a sequence of hashes, so two hashes  *)
(* are equal exactly when they are digests of the same sequence.  A peak   *)
(* map is the natural number whose bits the code sets.                      *)
(***************************************************************************)
EXTENDS Integers, Sequences, SequencesExt

None == <<"none">>

Digest(parts) == <<"digest", parts>>

HashTogether(left, right) == Digest(<<left, right>>)

NullHash == Digest(<< >>)

HasBit(map, peak) == (map \div peak) % 2 = 1

BitLength[n \in Nat] == IF n = 0 THEN 0 ELSE 1 + BitLength[n \div 2]

\* The loop find_peaks, peak_map_height and checked_n_leaves share: peak sizes
\* 2^k - 1 downwards, each taken off the size at most once.
StripPeaks(size) ==
    FoldLeft(LAMBDA s, k :
                LET peak == 2^k - 1
                IN  IF s.left >= peak
                    THEN [left |-> s.left - peak, sizes |-> Append(s.sizes, peak), map |-> 2 * s.map + 1]
                    ELSE [s EXCEPT !.map = 2 * @],
             [left |-> size, sizes |-> << >>, map |-> 0],
             [i \in 1..BitLength[size] |-> BitLength[size] + 1 - i])

NodesBefore(sizes, n) == FoldLeft(LAMBDA a, b : a + b, 0, SubSeq(sizes, 1, n))

\* find_peaks returns None for the size of no MMR.
IsMmrSize(size) == StripPeaks(size).left = 0

\* The positions of the peaks, the highest first.
FindPeaks(size) ==
    LET sizes == StripPeaks(size).sizes IN [n \in DOMAIN sizes |-> NodesBefore(sizes, n) - 1]

\* The peaks before node pos is added, as a bit map, and the height of pos.
PeakMap(pos) == StripPeaks(pos).map

BintreeHeight(pos) == StripPeaks(pos).left

IsLeaf(pos) == BintreeHeight(pos) = 0

CheckedNLeaves(size) ==
    FoldLeft(LAMBDA a, p : a + (p + 1) \div 2, 0, StripPeaks(size).sizes)
        + (IF StripPeaks(size).left = 0 THEN 0 ELSE 1)

CountOnes(n) == FoldLeft(LAMBDA a, k : a + ((n \div 2^(k - 1)) % 2), 0, [k \in 1..BitLength[n] |-> k])

NodeIndex(leaf) == 2 * leaf - CountOnes(leaf)

LeafIndex(node) == CheckedNLeaves(node)

IsLeftSibling(pos) == ~HasBit(PeakMap(pos), 2^BintreeHeight(pos))

\* The parent and the sibling of a node.
Family(pos) ==
    LET peak == 2^BintreeHeight(pos)
    IN  IF HasBit(PeakMap(pos), peak)
        THEN [parent |-> pos + 1, sibling |-> pos + 1 - 2 * peak]
        ELSE [parent |-> pos + 2 * peak, sibling |-> pos + 2 * peak - 1]

\* The parents and siblings from pos up, as long as the parent is at most last.
FamilyBranch(pos, last) ==
    LET map == PeakMap(pos)
        Up[current \in Nat, peak \in Nat] ==
            LET right   == HasBit(map, peak)
                parent  == IF right THEN current + 1 ELSE current + 2 * peak
                sibling == IF right THEN parent - 2 * peak ELSE parent - 1
            IN  IF current >= last \/ parent > last
                THEN << >>
                ELSE <<[parent |-> parent, sibling |-> sibling]>> \o Up[parent, 2 * peak]
    IN  Up[pos, 2^BintreeHeight(pos)]

(* ------------------------------ backends ------------------------------- *)

\* base: the number of nodes of the pruned base, of which only the hashes at
\* `peaks` (position -> hash) are kept; hashes: the nodes added after it.  A Vec
\* backend has an empty base.
EmptyBackend == [base |-> 0, peaks |-> [i \in {} |-> None], hashes |-> << >>]

Size(b) == b.base + Len(b.hashes)

GetNodeHash(b, i) ==
    IF i < b.base THEN (IF i \in DOMAIN b.peaks THEN b.peaks[i] ELSE None)
    ELSE IF i < Size(b) THEN b.hashes[i - b.base + 1] ELSE None

PushHash(b, h) == [b EXCEPT !.hashes = Append(@, h)]

\* Mutant: the last peak is forgotten.
PruneLosesPeak(b) ==
    LET peaks == Front(FindPeaks(Size(b)))
    IN  [base |-> Size(b), peaks |-> [i \in Range(peaks) |-> GetNodeHash(b, i)], hashes |-> << >>]

\* PrunedHashSet::try_from
Prune(b) ==
    LET peaks == FindPeaks(Size(b))
    IN  [base |-> Size(b), peaks |-> [i \in Range(peaks) |-> GetNodeHash(b, i)], hashes |-> << >>]

\* The first position that holds the hash.
FindNodeIndex(b, h) ==
    LET at == {i \in 0..Size(b) - 1 : GetNodeHash(b, i) = h}
    IN  IF at = {} THEN -1 ELSE CHOOSE i \in at : \A j \in at : i <= j

FindLeafIndex(b, h) ==
    LET i == FindNodeIndex(b, h) IN IF i >= 0 /\ IsLeaf(i) THEN LeafIndex(i) ELSE -1

GetLeafCount(b) == CheckedNLeaves(Size(b))

GetLeafHash(b, leaf) == GetNodeHash(b, NodeIndex(leaf))

GetLeafHashes(b, leaf, count) ==
    IF leaf >= GetLeafCount(b) THEN << >>
    ELSE LET end  == leaf + (IF count = 0 THEN 1 ELSE count) - 1
             last == IF end > GetLeafCount(b) THEN GetLeafCount(b) ELSE end
         IN  SelectSeq([i \in 1..last - leaf + 1 |-> GetLeafHash(b, leaf + i - 1)], LAMBDA h : h # None)

GetMerkleRoot(b) ==
    IF Size(b) = 0 THEN NullHash
    ELSE LET peaks == FindPeaks(Size(b))
         IN  Digest([n \in DOMAIN peaks |-> GetNodeHash(b, peaks[n])])

(* -------------------------------- push --------------------------------- *)

\* peak_map_height of the next position must be a leaf's.
CanPush(b) == BintreeHeight(Size(b)) = 0

\* The leaf, then a parent for every low bit set in the peak map, up to the first
\* bit that is not.
Push(b, h) ==
    LET map == PeakMap(Size(b))
        Parent(s) == HashTogether(GetNodeHash(s.b, Size(s.b) - 2 * s.peak), s.last)
    IN  FoldLeft(LAMBDA s, k : IF s.peak # 2^k \/ ~HasBit(map, s.peak) THEN s
                               ELSE [b |-> PushHash(s.b, Parent(s)), last |-> Parent(s), peak |-> 2 * s.peak],
                 [b |-> PushHash(b, h), last |-> h, peak |-> 1],
                 [k \in 1..BitLength[map] |-> k - 1]).b

\* The first push returns what the backend's push returns, the others the
\* position reached: the position of the last node stored.
PushResult(b, h) == Size(Push(b, h)) - 1

\* assign_iter: clear, then push every hash.
AssignIter(leaves) == FoldLeft(Push, EmptyBackend, leaves)

\* Every parent is revalidated from its children; the first problem met is the
\* result.
Validate(b) ==
    LET parents == {n \in 0..Size(b) - 1 : BintreeHeight(n) > 0}
        parts(n) == <<GetNodeHash(b, n), GetNodeHash(b, n - 2^BintreeHeight(n)), GetNodeHash(b, n - 1)>>
        missing == {n \in parents : None \in Range(parts(n))}
        wrong   == {n \in parents \ missing : parts(n)[1] # HashTogether(parts(n)[2], parts(n)[3])}
        bad     == missing \cup wrong
    IN  IF bad = {} THEN "ok"
        ELSE IF (CHOOSE n \in bad : \A m \in bad : n <= m) \in missing
             THEN "CorruptDataStructure" ELSE "InvalidMerkleTree"

(* ------------------------------- proofs -------------------------------- *)

\* Mutant: the path stops one parent early.
ForNodeShort(b, pos) ==
    LET branch == FamilyBranch(pos, Size(b) - 2)
        peak   == IF branch = << >> THEN pos ELSE Last(branch).parent
        others == SelectSeq(FindPeaks(Size(b)), LAMBDA p : p # peak)
    IN  [mmr_size |-> Size(b),
         path     |-> [n \in DOMAIN branch |-> GetNodeHash(b, branch[n].sibling)],
         peaks    |-> [n \in DOMAIN others |-> GetNodeHash(b, others[n])]]

\* generate_proof, for a leaf the MMR holds: the siblings up to the local peak,
\* and the other peaks.
GenerateProof(b, pos) ==
    LET branch == FamilyBranch(pos, Size(b))
        peak   == IF branch = << >> THEN pos ELSE Last(branch).parent
        others == SelectSeq(FindPeaks(Size(b)), LAMBDA p : p # peak)
    IN  [mmr_size |-> Size(b),
         path     |-> [n \in DOMAIN branch |-> GetNodeHash(b, branch[n].sibling)],
         peaks    |-> [n \in DOMAIN others |-> GetNodeHash(b, others[n])]]

\* check_root: the peaks in order, the computed one in its place.  A position
\* that is no peak leaves one peak too many to take from the proof.
CheckRoot(proof, h, pos) ==
    LET peaks == FindPeaks(proof.mmr_size)
        before(n) == Len(SelectSeq(SubSeq(peaks, 1, n - 1), LAMBDA p : p # pos))
    IN  IF Len(peaks) # Len(proof.peaks) + 1 THEN <<"IncorrectPeakMap">>
        ELSE IF pos \notin Range(peaks) THEN <<"panic">>
        ELSE Digest([n \in DOMAIN peaks |-> IF peaks[n] = pos THEN h ELSE proof.peaks[before(n) + 1]])

\* The hash and the position reached by hashing the path onto a leaf, or
\* "Unexpected" when it leaves the MMR.
ClimbProof(proof, h, pos) ==
    FoldLeft(LAMBDA s, sibling :
                LET f == Family(s.pos)
                IN  IF s.out \/ f.parent > proof.mmr_size THEN [s EXCEPT !.out = TRUE]
                    ELSE [out |-> FALSE, pos |-> f.parent,
                          h |-> IF IsLeftSibling(f.sibling)
                                THEN HashTogether(sibling, s.h) ELSE HashTogether(s.h, sibling)],
             [out |-> FALSE, pos |-> pos, h |-> h], proof.path)

Verify(proof, root, h, pos) ==
    LET top == ClimbProof(proof, h, pos)
        calculated == CheckRoot(proof, top.h, top.pos)
    IN  IF ~IsMmrSize(proof.mmr_size) THEN "InvalidMmrSize"
        ELSE IF top.out THEN "Unexpected"
        ELSE IF Len(calculated) = 1 THEN calculated[1]
        ELSE IF calculated = root THEN "ok" ELSE "RootMismatch"
=============================================================================
