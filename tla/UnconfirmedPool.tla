--------------------------- MODULE UnconfirmedPool ---------------------------
(***************************************************************************)
(* The pool of transactions that wait for a block                          *)
(* (mempool/unconfirmed_pool/unconfirmed_pool.rs).                         *)
(*                                                                         *)
(* A pool is a function: its domain is tx_by_key and its value at a        *)
(* transaction is that transaction's dependent_output_hashes, the inputs   *)
(* that were unknown to the chain when it was inserted.  The other indexes *)
(* of the struct (by signature, by output, by priority) are filled and     *)
(* cleared together with tx_by_key, so they are operators here.            *)
(***************************************************************************)
EXTENDS Naturals, Sequences, FiniteSets, SequencesExt, FiniteSetsExt, Functions

CONSTANTS Tx,                 \* transactions
          Kernels,            \* the kernel signatures of each
          Inputs,             \* its inputs: an input carries its own script signature
          Spends,             \* the output an input spends
          Outputs,            \* the outputs it creates
          Priority,           \* FeePriority, unique
          Weight,
          StorageCapacity,    \* unconfirmed_pool.storage_capacity
          WeightTxSkipCount   \* unconfirmed_pool.weight_tx_skip_count

SpentBy(t) == {Spends[i] : i \in Inputs[t]}

KernelsOf(S) == UNION {Kernels[t] : t \in S}
SpentIn(S) == UNION {SpentBy(t) : t \in S}
OutputsOf(S) == UNION {Outputs[t] : t \in S}

TxsByOutput(pool, o) == {t \in DOMAIN pool : o \in Outputs[t]}

HighestPriority(S) == CHOOSE t \in S : \A u \in S : Priority[u] <= Priority[t]
LowestPriority(S) == CHOOSE t \in S : \A u \in S : Priority[t] <= Priority[u]

RemoveTransactions(pool, S) == Restrict(pool, DOMAIN pool \ S)

InsertAlways(pool, t, dependent_outputs) ==
    [u \in DOMAIN pool \cup {t} |-> IF u = t THEN dependent_outputs ELSE pool[u]]

(* insert: nothing when every kernel is known; at capacity the new          *)
(* transaction replaces the one of lowest priority, or is turned away.      *)
Insert(pool, t, dependent_outputs) ==
    LET lowest == LowestPriority(DOMAIN pool)
        room == IF Cardinality(DOMAIN pool) >= StorageCapacity
                THEN RemoveTransactions(pool, {lowest}) ELSE pool
    IN  IF \/ Kernels[t] \subseteq KernelsOf(DOMAIN pool)
           \/ /\ Cardinality(DOMAIN pool) >= StorageCapacity
              /\ Priority[t] < Priority[lowest]
        THEN pool
        ELSE InsertAlways(room, t, dependent_outputs)

ContainsAllOutputs(pool, outputs) == outputs \subseteq OutputsOf(DOMAIN pool)

-----------------------------------------------------------------------------
(* remove_published_and_discard_deprecated_transactions: the transactions   *)
(* that share a kernel with the block leave first, then those that share an *)
(* input or an output.                                                      *)

SameKernel(pool, txs) == {t \in DOMAIN pool : Kernels[t] \cap KernelsOf(txs) # {}}

DeprecatedByOutput(pool, txs) ==
    {t \in DOMAIN pool : Outputs[t] \cap OutputsOf(txs) # {}} \ SameKernel(pool, txs)

Deprecated(pool, txs) ==
    {t \in DOMAIN pool : \/ SpentBy(t) \cap SpentIn(txs) # {}
                         \/ Outputs[t] \cap OutputsOf(txs) # {}} \ SameKernel(pool, txs)

RemovedByBlock(pool, txs) ==
    {s \o d : s \in SetToSeqs(SameKernel(pool, txs)), d \in SetToSeqs(Deprecated(pool, txs))}

-----------------------------------------------------------------------------
(* fetch_highest_priority_txs.                                              *)

RECURSIVE GetAllDependentTransactions(_, _, _, _)

(* The transactions t needs that are not selected yet, and t; or, when an   *)
(* output it depends on has left the pool, the path of transactions to      *)
(* recheck, the one that misses the output first.                           *)
GetAllDependentTransactions(pool, t, selected, found) ==
    LET Needs(f, o) ==
            IF f.recheck # <<>> THEN f
            ELSE IF TxsByOutput(pool, o) = {} THEN [f EXCEPT !.recheck = <<t>>]
            ELSE LET d == HighestPriority(TxsByOutput(pool, o))
                     g == GetAllDependentTransactions(pool, d, selected, f)
                 IN  IF d \in selected THEN f
                     ELSE IF g.recheck = <<>> THEN g
                     ELSE [g EXCEPT !.recheck = Append(@, t)]
        all == FoldLeft(Needs, found, SetToSortSeq(pool[t], <))
    IN  [all EXCEPT !.required = @ \cup {t}]

FindDuplicateInput(selected, candidates) == SpentIn(selected) \cap SpentIn(candidates) # {}

WeightOf(S) == FoldSet(LAMBDA t, w : Weight[t] + w, 0, S)

GivesUp(skipped) == skipped >= WeightTxSkipCount

FetchHighestPriorityTxs(pool, total_weight) ==
    LET Consider(r, t) ==
            LET c == GetAllDependentTransactions(pool, t, r.selected,
                                                 [required |-> {}, recheck |-> <<>>])
                fits == WeightOf(r.selected \cup c.required) <= total_weight
            IN  IF r.stop \/ t \in r.selected THEN r
                ELSE IF fits /\ c.recheck = <<>>
                     THEN IF FindDuplicateInput(r.selected, c.required) THEN r
                          ELSE [r EXCEPT !.selected = @ \cup c.required]
                     ELSE [r EXCEPT !.recheck = @ \o c.recheck,
                                    !.skipped = @ + 1,
                                    !.stop = GivesUp(r.skipped + 1)]
    IN  FoldLeft(Consider, [selected |-> {}, recheck |-> <<>>, skipped |-> 0, stop |-> FALSE],
                 SetToSortSeq(DOMAIN pool, LAMBDA a, b : Priority[a] > Priority[b]))
=============================================================================
