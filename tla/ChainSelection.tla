--------------------------- MODULE ChainSelection ---------------------------
(***************************************************************************)
(* What readers of the blockchain database are promised about its best     *)
(* block: it always ends a chain of validated blocks from the genesis      *)
(* block, and add_block only ever replaces it with a stronger one.  A      *)
(* process that stops in the middle of a reorg may come back on a block of *)
(* either of the two chains.                                               *)
(***************************************************************************)
EXTENDS ChainTree

VARIABLE best

(* Every block from the genesis block to b passed header and body validation. *)
ValidChain(b) ==
    /\ b = Genesis \/ Genesis \in AncestorsOf[b]
    /\ AncestorsOf[b] \cup {b} \subseteq HeaderValid \cap BodyValid

Adopt(b) ==
    /\ ValidChain(b)
    /\ Strength[b] > Strength[best]
    /\ best' = b

(* The blocks a reorg from the best block to a stronger one passes through *)
Between == UNION {AncestorsOf[t] \cup {t} : t \in {t \in Block : t = best \/ Strength[t] > Strength[best]}}

Interrupt(b) ==
    /\ b \in Between
    /\ ValidChain(b)
    /\ best' = b

Init == best = Genesis
Next == \E b \in Block : Adopt(b) \/ Interrupt(b)
Spec == Init /\ [][Next]_best

(* add_block alone, on a process that does not stop *)
AdoptSpec == Init /\ [][\E b \in Block : Adopt(b)]_best
=============================================================================
