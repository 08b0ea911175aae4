----------------------------- MODULE ChainTree -----------------------------
(***************************************************************************)
(* The blocks that exist in one run of the network, and what a node reads  *)
(* of them.  A block is identified with its hash.  Header fields and the   *)
(* verdicts of the validators are constants: header validation of a block  *)
(* depends on its ancestors only, and body validation on the state its     *)
(* parent's chain produces, so that both are functions of the block.       *)
(***************************************************************************)
EXTENDS Integers

CONSTANTS
    Block,          \* hashes of the blocks that exist, the genesis block included
    Genesis,        \* ConsensusManager::get_genesis_block
    Parent,         \* BlockHeader::prev_hash
    Height,         \* BlockHeader::height
    Strength,       \* rank of a header under the chain strength comparer
    InternalValid,  \* pass the orphan validator (internal consistency)
    HeaderValid,    \* pass HeaderFullValidator on their parent, bad-block list aside
    BodyValid       \* pass BlockBodyFullValidator on their parent's chain state

(* No block is the parent of the genesis block; a header whose parent is
   not in the model points outside Block. *)
ASSUME TreeAssumption ==
    /\ Genesis \in Block
    /\ Genesis \in HeaderValid \cap BodyValid
    /\ HeaderValid \subseteq Block
    /\ BodyValid \subseteq Block
    /\ InternalValid \subseteq Block
    /\ DOMAIN Parent = Block
    /\ Parent[Genesis] \notin Block
    /\ Height \in [Block -> Nat]
    /\ Height[Genesis] = 0
    /\ \A b \in Block : Height[b] = 0 => b = Genesis
    /\ Strength \in [Block -> Nat]

(* check_height and check_prev_hash: a header that is valid on its parent is
   one higher than it.  Accumulated difficulty never falls along a chain and
   height breaks the tie, so the child is also the stronger header. *)
ASSUME LinkAssumption ==
    \A b \in HeaderValid \ {Genesis} :
        Parent[b] \in Block =>
            /\ Height[b] = Height[Parent[b]] + 1
            /\ Strength[b] > Strength[Parent[b]]

Children(b) == {c \in Block : Parent[c] = b}

(* A set of blocks closed under "parent of". *)
Linked(b) == b # Genesis /\ Parent[b] \in Block /\ Height[Parent[b]] < Height[b]
Closed(S) == \A b \in S : Linked(b) => Parent[b] \in S

(* The blocks of the model from b down, and the strict ancestors of b. *)
DownFrom(b) == {a \in Block : \A S \in SUBSET Block : b \in S /\ Closed(S) => a \in S}
AncestorsOf[b \in Block] == DownFrom(b) \ {b}
=============================================================================
