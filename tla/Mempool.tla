------------------------------- MODULE Mempool -------------------------------
(***************************************************************************)
(* The mempool of a base node beside its chain (mempool/mempool_storage.rs,*)
(* mempool/service/, the template and block handlers of                    *)
(* base_node/comms_interface/inbound_handlers.rs).                         *)
(*                                                                         *)
(* The chain changes first and the mempool hears of it later: every block  *)
(* event is handled in a task of its own (spawn_handle_block_event), so    *)
(* events may be late and may overtake each other, while a transaction is  *)
(* always validated against the chain as it is at that moment.  Every      *)
(* operation on the pools holds the write lock of MempoolStorage and is    *)
(* one step.                                                               *)
(*                                                                         *)
(* The chain is a sequence of blocks, a block the set of its transactions; *)
(* every block has the same difficulty, so the longer chain is stronger.   *)
(***************************************************************************)
EXTENDS ReorgPool

CONSTANTS GenesisOutputs,
          BlockTxs,         \* the sets of transactions other nodes put in a block
          MaxBlockWeight,   \* get_max_block_weight_excluding_coinbase
          EventsInOrder,    \* whether the event tasks happen to run in order
          MaxHeight, MaxEvents, MaxReorgs, MaxSyncs, MaxFailures   \* bounds

VARIABLES chain,        \* the best chain, without the genesis block
          unconfirmed,  \* MempoolStorage::unconfirmed_pool
          reorg_pool,   \* MempoolStorage::reorg_pool
          events,       \* block events whose task has not run
          template,     \* the block template a miner works on
          rewound,      \* the chain before block sync rewound it, if one runs
          reorgs, syncs, failures,   \* how many there were
          accepted,     \* history: transactions the unconfirmed pool has held
          reorged       \* history: transactions of reorganised blocks

vars == <<chain, unconfirmed, reorg_pool, events, template, rewound, reorgs, syncs, failures,
          accepted, reorged>>

NoTemplate == [txs |-> {}, settled |-> FALSE]
NotSyncing == <<>>
NoPool == << >>

-----------------------------------------------------------------------------
(* What the validator asks the database.                                    *)

MinedTxs(ch) == UNION Range(ch)
Created(ch) == GenesisOutputs \cup OutputsOf(MinedTxs(ch))
Spent(ch) == SpentIn(MinedTxs(ch))

DuplicateKernel(ch, t) == Kernels[t] \cap KernelsOf(MinedTxs(ch)) # {}
ContainsSTxO(ch, t) == SpentBy(t) \cap Spent(ch) # {}
UnknownInputs(ch, t) == SpentBy(t) \ (Created(ch) \cup Outputs[t])
ContainsTxO(ch, t) == Outputs[t] \cap Created(ch) # {}

(* A set of transactions is a block body the chain accepts.                 *)
ValidBody(ch, S) ==
    /\ \A t \in S : ~ DuplicateKernel(ch, t) /\ ~ ContainsSTxO(ch, t) /\ ~ ContainsTxO(ch, t)
    /\ SpentIn(S) \subseteq Created(ch) \cup OutputsOf(S)
    /\ \A t, u \in S : t # u => /\ SpentBy(t) \cap SpentBy(u) = {}
                                /\ Outputs[t] \cap Outputs[u] = {}

-----------------------------------------------------------------------------
(* MempoolStorage::insert and insert_txs.                                   *)

StorageInsert(pool, ch, t) ==
    IF DuplicateKernel(ch, t) \/ ContainsSTxO(ch, t) THEN pool
    ELSE IF UnknownInputs(ch, t) # {}
         THEN IF ContainsAllOutputs(pool, UnknownInputs(ch, t))
              THEN Insert(pool, t, UnknownInputs(ch, t)) ELSE pool
    ELSE IF ContainsTxO(ch, t) THEN pool
    ELSE Insert(pool, t, {})

InsertTxs(pool, ch, txs) == FoldLeft(LAMBDA p, t : StorageInsert(p, ch, t), pool, txs)

HasTransaction(t) ==
    \/ Kernels[t] \subseteq KernelsOf(DOMAIN unconfirmed)
    \/ \A sig \in Kernels[t] : /\ sig \notin KernelsOf(DOMAIN unconfirmed)
                               /\ HasSignature(reorg_pool, sig)

UnconfirmedBecomes(pool) ==
    /\ unconfirmed' = pool
    /\ accepted' = accepted \cup DOMAIN pool

(* submit_transaction, of a wallet, a peer or the mempool sync protocol.    *)
SubmitTransaction(t) ==
    /\ ~ HasTransaction(t)
    /\ UnconfirmedBecomes(StorageInsert(unconfirmed, chain, t))
    /\ UNCHANGED <<chain, reorg_pool, events, template, rewound, reorgs, syncs, failures, reorged>>

(* insert_all of a transaction a peer returned while a block was            *)
(* reconciled: nothing checks whether the reorg pool holds it.              *)
FetchedFromPeer(t) ==
    /\ rewound = NotSyncing
    /\ UnconfirmedBecomes(StorageInsert(unconfirmed, chain, t))
    /\ UNCHANGED <<chain, reorg_pool, events, template, rewound, reorgs, syncs, failures, reorged>>

-----------------------------------------------------------------------------
(* The chain, and the events it publishes.                                  *)

ValidBlockAdded(height, txs) == [kind |-> "added", height |-> height, txs |-> txs]
ChainReorg(removed, added) == [kind |-> "reorg", removed |-> removed, added |-> added]
BlockSyncComplete == [kind |-> "sync"]
AddBlockValidationFailed(txs) == [kind |-> "failed", txs |-> txs]

Publish(event) ==
    /\ Len(events) < MaxEvents
    /\ events' = Append(events, event)

ChainBecomes(ch) ==
    /\ chain' = ch
    /\ template' = NoTemplate

Extend(txs) ==
    /\ ValidBody(chain, txs)
    /\ ChainBecomes(Append(chain, txs))
    /\ Publish(ValidBlockAdded(Len(chain) + 1, txs))

(* A block another node mined, or the next block of a block sync.           *)
BlockAdded(txs) ==
    /\ Len(chain) < MaxHeight
    /\ Extend(txs)
    /\ UNCHANGED <<unconfirmed, reorg_pool, rewound, reorgs, syncs, failures, accepted, reorged>>

ForkOf(height, added) == SubSeq(chain, 1, height) \o added

ReorgTo(height, added) ==
    /\ rewound = NotSyncing
    /\ reorgs < MaxReorgs
    /\ Len(ForkOf(height, added)) \in Len(chain) + 1 .. MaxHeight
    /\ \A i \in 1 .. Len(added) : ValidBody(ForkOf(height, SubSeq(added, 1, i - 1)), added[i])
    /\ ChainBecomes(ForkOf(height, added))
    /\ Publish(ChainReorg(Reverse(SubSeq(chain, height + 1, Len(chain))), added))
    /\ reorgs' = reorgs + 1
    /\ reorged' = reorged \cup UNION {chain[i] : i \in height + 1 .. Len(chain)}
    /\ UNCHANGED <<unconfirmed, reorg_pool, rewound, syncs, failures, accepted>>

(* Header sync removes blocks; the mempool ignores BlockSyncRewind.         *)
BlockSyncRewind(height) ==
    /\ rewound = NotSyncing
    /\ syncs < MaxSyncs
    /\ rewound' = <<chain>>
    /\ ChainBecomes(SubSeq(chain, 1, height))
    /\ syncs' = syncs + 1
    /\ UNCHANGED <<unconfirmed, reorg_pool, events, reorgs, failures, accepted, reorged>>

SyncCompletes ==
    /\ rewound # NotSyncing
    /\ Len(chain) > Len(rewound[1])
    /\ Publish(BlockSyncComplete)
    /\ rewound' = NotSyncing
    /\ UNCHANGED <<chain, unconfirmed, reorg_pool, template, reorgs, syncs, failures, accepted, reorged>>

(* A block sync that fails swaps to the strongest chain without an event.   *)
SyncFails ==
    /\ rewound # NotSyncing
    /\ ChainBecomes(IF Len(chain) > Len(rewound[1]) THEN chain ELSE rewound[1])
    /\ rewound' = NotSyncing
    /\ UNCHANGED <<unconfirmed, reorg_pool, events, reorgs, syncs, failures, accepted, reorged>>

-----------------------------------------------------------------------------
(* handle_block_event.                                                      *)

ProcessPublishedBlock(e) ==
    \E removed \in RemovedByBlock(unconfirmed, e.txs) :
        /\ UnconfirmedBecomes(RemoveTransactions(unconfirmed, Range(removed)))
        /\ reorg_pool' = InsertAll(reorg_pool, e.height, removed)

KernelOrders(blocks) ==
    FoldLeft(LAMBDA orders, b : {o \o s : o \in orders, s \in SetToSeqs(KernelsOf(b))},
             {<<>>}, blocks)

(* The unconfirmed pool is drained and resubmitted, in the order its hash   *)
(* map yields; then the transactions of the removed blocks.                 *)
ProcessReorg(e) ==
    LET kept == FoldLeft(DiscardDoubleSpends, reorg_pool, e.added)
    IN  \E drained \in SetToSeqs(DOMAIN unconfirmed), sigs \in KernelOrders(e.removed) :
            LET r == RemoveReorged(kept, sigs)
            IN  /\ UnconfirmedBecomes(InsertTxs(InsertTxs(NoPool, chain, drained), chain, r.removed))
                /\ reorg_pool' = r.pool

ProcessSync ==
    \E drained \in SetToSeqs(DOMAIN unconfirmed), retrieved \in SetToSeqs(ReorgTxs(reorg_pool)) :
        /\ UnconfirmedBecomes(InsertTxs(NoPool, chain, drained \o retrieved))
        /\ reorg_pool' = EmptyReorgPool

ClearTransactionsForFailedBlock(e) ==
    \E removed \in RemovedByBlock(unconfirmed, e.txs) :
        /\ UnconfirmedBecomes(InsertTxs(RemoveTransactions(unconfirmed, Range(removed)),
                                        chain, removed))
        /\ UNCHANGED reorg_pool

MayRun(i) == EventsInOrder => i = 1

HandleBlockEvent(i) ==
    /\ MayRun(i)
    /\ events' = RemoveAt(events, i)
    /\ \/ events[i].kind = "added" /\ ProcessPublishedBlock(events[i])
       \/ events[i].kind = "reorg" /\ ProcessReorg(events[i])
       \/ events[i].kind = "sync" /\ ProcessSync
       \/ events[i].kind = "failed" /\ ClearTransactionsForFailedBlock(events[i])
    /\ UNCHANGED <<chain, template, rewound, reorgs, syncs, failures, reorged>>

-----------------------------------------------------------------------------
(* Mining on this node.                                                     *)

Settled == events = <<>> /\ rewound = NotSyncing

(* GetNewBlockTemplate: retrieve_and_revalidate.                            *)
GetNewBlockTemplate ==
    \E f \in {FetchHighestPriorityTxs(unconfirmed, MaxBlockWeight)} :
        /\ template' = [txs |-> f.selected, settled |-> Settled]
        /\ UnconfirmedBecomes(InsertTxs(RemoveTransactions(unconfirmed, Range(f.recheck)),
                                        chain, f.recheck))
        /\ UNCHANGED <<chain, reorg_pool, events, rewound, reorgs, syncs, failures, reorged>>

(* GetNewBlock and submit_block of the template.  prepare_new_block refuses *)
(* a body that is no extension of the tip, and publishes nothing then.      *)
SubmitTemplate ==
    /\ rewound = NotSyncing
    /\ template.txs # {}
    /\ Extend(template.txs)
    /\ UNCHANGED <<unconfirmed, reorg_pool, rewound, reorgs, syncs, failures, accepted, reorged>>

(* A miner submits a block of pool transactions that fails validation.      *)
LocalBlockFails(txs) ==
    /\ rewound = NotSyncing
    /\ failures < MaxFailures
    /\ failures' = failures + 1
    /\ txs # {}
    /\ txs \subseteq DOMAIN unconfirmed
    /\ Publish(AddBlockValidationFailed(txs))
    /\ UNCHANGED <<chain, unconfirmed, reorg_pool, template, rewound, reorgs, syncs,
                   accepted, reorged>>

-----------------------------------------------------------------------------
Init ==
    /\ chain = <<>>
    /\ unconfirmed = NoPool
    /\ reorg_pool = EmptyReorgPool
    /\ events = <<>>
    /\ template = NoTemplate
    /\ rewound = NotSyncing
    /\ reorgs = 0
    /\ syncs = 0
    /\ failures = 0
    /\ accepted = {}
    /\ reorged = {}

Next ==
    \/ \E t \in Tx : SubmitTransaction(t) \/ FetchedFromPeer(t)
    \/ \E txs \in BlockTxs : BlockAdded(txs) \/ LocalBlockFails(txs)
    \/ \E height \in 0 .. Len(chain) - 1, added \in SeqOf(BlockTxs, MaxHeight) :
           ReorgTo(height, added)
    \/ \E height \in 0 .. Len(chain) - 1 : BlockSyncRewind(height)
    \/ SyncCompletes \/ SyncFails
    \/ \E i \in 1 .. Len(events) : HandleBlockEvent(i)
    \/ GetNewBlockTemplate
    \/ SubmitTemplate

(* The event tasks run, sync ends, and the miner keeps working.             *)
Fairness ==
    /\ WF_vars(\E i \in 1 .. Len(events) : HandleBlockEvent(i))
    /\ WF_vars(SyncCompletes \/ SyncFails)
    /\ WF_vars(GetNewBlockTemplate)
    /\ WF_vars(SubmitTemplate)

Spec == Init /\ [][Next]_vars
FairSpec == Spec /\ Fairness

-----------------------------------------------------------------------------
TypeOK ==
    /\ chain \in Seq(SUBSET Tx)
    /\ DOMAIN unconfirmed \subseteq Tx
    /\ \A t \in DOMAIN unconfirmed : unconfirmed[t] \subseteq SpentBy(t)
    /\ ReorgTxs(reorg_pool) \subseteq Tx
    /\ template \in [txs : SUBSET Tx, settled : BOOLEAN]
    /\ rewound \in Seq(Seq(SUBSET Tx))
    /\ accepted \subseteq Tx /\ reorged \subseteq Tx

(* The template a miner gets once every block event has been handled is a  *)
(* body the chain accepts: no input is unknown or spent, no two            *)
(* transactions conflict (fetch_highest_priority_txs, "that can be         *)
(* included in a block").                                                  *)
TemplateCanBeIncluded ==
    template.settled => ValidBody(chain, template.txs)

(* However late the block events are, a template never spends an output    *)
(* twice and never exceeds the block weight (find_duplicate_input and the  *)
(* weight check of fetch_highest_priority_txs).                            *)
TemplateConflictFree ==
    /\ \A t, u \in template.txs : t # u => SpentBy(t) \cap SpentBy(u) = {}
    /\ WeightOf(template.txs) <= MaxBlockWeight

(* The three maps of the reorg pool describe the same transactions:        *)
(* retrieve_by_excess_sigs expects every key of txs_by_signature in        *)
(* tx_by_key ("mempool indexes out of sync").                              *)
ReorgIndexesInSync ==
    /\ reorg_pool.txs_by_signature =
           UNION {Kernels[reorg_pool.tx_by_key[k]] \X {k} : k \in DOMAIN reorg_pool.tx_by_key}
    /\ {e[2] : e \in reorg_pool.txs_by_height} = DOMAIN reorg_pool.tx_by_key

(* A transaction the pool accepted and that could be mined now is in one   *)
(* of the two pools, once the block events are handled.                    *)
MinableIsKept ==
    Settled => \A t \in accepted :
        ValidBody(chain, {t}) => t \in DOMAIN unconfirmed \cup ReorgTxs(reorg_pool)

(* A pooled transaction whose block was reorganised away is back in the    *)
(* unconfirmed pool once the block events are handled, if it could be      *)
(* mined with the others (ReorgPool: "the transactions can be recovered    *)
(* from the ReorgPool and can be added back into the UnconfirmedPool").    *)
ReorgedIsRecovered ==
    Settled => \A t \in accepted \cap reorged :
        (\E S \in SUBSET (accepted \cap reorged) : t \in S /\ ValidBody(chain, S))
            => t \in DOMAIN unconfirmed

(* The reorg pool holds only transactions of the chain, once the events    *)
(* are handled: "Move published txs to ReOrgPool and discard double        *)
(* spends" (process_published_block).                                      *)
ReorgPoolHoldsMined ==
    (Settled /\ reorgs = 0 /\ syncs = 0) =>
        \A t \in ReorgTxs(reorg_pool) : DuplicateKernel(chain, t)

(* Transactions leave the reorg pool once they are expiry_height blocks    *)
(* old (ReorgPool::insert).                                                *)
PublishedExpire ==
    Settled => \A e \in reorg_pool.txs_by_height : Len(chain) < e[1] + ExpiryHeight

=============================================================================
