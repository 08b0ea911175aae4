------------------------------ MODULE ReorgPool ------------------------------
(***************************************************************************)
(* The pool of transactions that recently left the unconfirmed pool for a  *)
(* block, kept to be restored when the block is reorganised away           *)
(* (mempool/reorg_pool/reorg_pool.rs).                                     *)
(*                                                                         *)
(* The three maps of the struct are kept apart because they are not always *)
(* cleared together: tx_by_key is a function from keys, txs_by_signature   *)
(* and txs_by_height are sets of pairs.  get_next_key counts up; here a    *)
(* new key is any number no map holds.                                     *)
(***************************************************************************)
EXTENDS UnconfirmedPool

CONSTANT ExpiryHeight          \* reorg_pool.expiry_height

EmptyReorgPool == [tx_by_key |-> << >>, txs_by_signature |-> {}, txs_by_height |-> {}]

ReorgTxs(rp) == Range(rp.tx_by_key)

KeysOf(rp) == DOMAIN rp.tx_by_key \cup {e[2] : e \in rp.txs_by_signature}
                                  \cup {e[2] : e \in rp.txs_by_height}

NextKey(rp) == Min((1 .. Cardinality(KeysOf(rp)) + 1) \ KeysOf(rp))

HasSignature(rp, sig) == \E e \in rp.txs_by_signature : e[1] = sig

(* remove: the transactions with these keys leave all three maps.           *)
RemoveKeys(rp, ks) ==
    [tx_by_key |-> Restrict(rp.tx_by_key, DOMAIN rp.tx_by_key \ ks),
     txs_by_signature |-> {e \in rp.txs_by_signature :
                             ~ (e[2] \in ks \cap DOMAIN rp.tx_by_key
                                /\ e[1] \in Kernels[rp.tx_by_key[e[2]]])},
     txs_by_height |-> {e \in rp.txs_by_height : e[2] \notin ks}]

(* cleanup_expired looks at one height only, expiry_height below the block. *)
CleanupExpired(rp, height) ==
    RemoveKeys(rp, {e[2] : e \in {p \in rp.txs_by_height : p[1] + ExpiryHeight = height}})

ReorgPoolInsert(rp, height, t) ==
    LET k == NextKey(rp)
        with == [tx_by_key |-> [j \in DOMAIN rp.tx_by_key \cup {k} |->
                                   IF j = k THEN t ELSE rp.tx_by_key[j]],
                 txs_by_signature |-> rp.txs_by_signature \cup (Kernels[t] \X {k}),
                 txs_by_height |-> rp.txs_by_height \cup {<<height, k>>}]
    IN  CleanupExpired(IF \A sig \in Kernels[t] : HasSignature(rp, sig) THEN rp ELSE with, height)

CleanupOnly(rp, height, txs) == CleanupExpired(rp, height)

InsertAll(rp, height, txs) ==
    IF txs = <<>> THEN CleanupExpired(rp, height)
    ELSE FoldLeft(LAMBDA r, t : ReorgPoolInsert(r, height, t), rp, txs)

(* An input equals another when the script signatures are equal too, so a   *)
(* transaction that spends the same output with a signature of its own is   *)
(* not found.                                                               *)
DiscardDoubleSpends(rp, txs) ==
    RemoveKeys(rp, {k \in DOMAIN rp.tx_by_key :
                       \E t \in txs : Inputs[rp.tx_by_key[k]] \cap Inputs[t] # {}})

(* The removed blocks come tip first; in each, kernel by kernel, the        *)
(* signature's entry goes and with it the transactions it leads to.         *)
RemoveReorged(rp, sigs) ==
    LET Take(r, sig) ==
            LET ks == {k \in DOMAIN r.pool.tx_by_key : <<sig, k>> \in r.pool.txs_by_signature}
            IN  [pool |-> [tx_by_key |-> Restrict(r.pool.tx_by_key, DOMAIN r.pool.tx_by_key \ ks),
                           txs_by_signature |-> {e \in r.pool.txs_by_signature : e[1] # sig},
                           txs_by_height |-> {e \in r.pool.txs_by_height : e[2] \notin ks}],
                 removed |-> r.removed \o SetToSeq({r.pool.tx_by_key[k] : k \in ks})]
    IN  FoldLeft(Take, [pool |-> rp, removed |-> <<>>], sigs)
=============================================================================
