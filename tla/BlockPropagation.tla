-------------------------- MODULE BlockPropagation --------------------------
(***************************************************************************)
(* How a block travels between base nodes: a NewBlock message names the      *)
(* block's kernels by signature; the receiver builds the block from its      *)
(* mempool, asks the sender for what it misses, falls back to asking for     *)
(* the whole block, adds it and tells its other peers                        *)
(* (InboundNodeCommsHandlers, BaseNodeService).                             *)
(*                                                                         *)
(* Every message is handled by a task of its own, one at a time per node     *)
(* behind a semaphore.  Blocks have equal work; what add_block does is the   *)
(* subject of BlockchainDatabase and is summed up here by AddBlock.          *)
(***************************************************************************)
EXTENDS Integers, FiniteSets, FiniteSetsExt

CONSTANTS
    Nodes,
    Links,       \* pairs of connected nodes, both ways
    Blocks,      \* all blocks but the genesis block
    Genesis,
    Parent,      \* Parent[b], in Blocks or Genesis
    Sigs,        \* kernel signatures
    Kernels,     \* Kernels[b]: the signatures in b, without the coinbase
    Spends,      \* Spends[b]: blocks whose outputs b spends
    Miner,       \* Miner[b]: the node b is submitted to
    Collisions,  \* pairs <<n, s>>: n's mempool has another transaction signed s
    AnswersLost, \* whether requests may stay without an answer
    NoBlock, NoNode

BlocksAssumption ==
    /\ Parent \in [Blocks -> Blocks \cup {Genesis}]
    /\ Kernels \in [Blocks -> SUBSET Sigs]
    /\ Miner \in [Blocks -> Nodes]

VARIABLES
    stored,   \* stored[n]: blocks in n's database, orphans included
    tip,      \* tip[n]
    pool,     \* pool[n][s]: the transaction with signature s in n's mempool
    wire,     \* NewBlock messages under way
    waiting,  \* waiting[n]: messages whose task waits for the permit
    task,     \* task[n]: the task that holds it
    banned    \* banned[n]: the peers n has banned

vars == <<stored, tip, pool, wire, waiting, task, banned>>

Transaction == {"none", "right", "other"}
NewBlock == [to : Nodes, from : Nodes, block : Blocks]

Steps == {"idle", "reconcile", "transactions", "verify", "full", "orphan", "add"}
Task == [step : Steps, block : Blocks \cup {NoBlock}, from : Nodes \cup {NoNode}, body : [Sigs -> Transaction],
         compact : BOOLEAN]

Idle == [step |-> "idle", block |-> NoBlock, from |-> NoNode, body |-> [s \in Sigs |-> "none"], compact |-> FALSE]

TypeOK ==
    /\ stored \in [Nodes -> SUBSET Blocks]
    /\ tip \in [Nodes -> Blocks \cup {Genesis}]
    /\ pool \in [Nodes -> [Sigs -> Transaction]]
    /\ wire \subseteq NewBlock
    /\ waiting \in [Nodes -> SUBSET NewBlock]
    /\ task \in [Nodes -> Task]
    /\ banned \in [Nodes -> SUBSET Nodes]
    /\ \A n \in Nodes : task[n].step # "idle" => task[n].block \in Blocks /\ task[n].from \in Nodes
    /\ \A n \in Nodes : tip[n] \in stored[n] \cup {Genesis}

Init ==
    /\ stored = [n \in Nodes |-> {}] /\ tip = [n \in Nodes |-> Genesis]
    /\ pool = [n \in Nodes |-> [s \in Sigs |-> IF <<n, s>> \in Collisions THEN "other" ELSE "none"]]
    /\ wire = {} /\ waiting = [n \in Nodes |-> {}]
    /\ task = [n \in Nodes |-> Idle]
    /\ banned = [n \in Nodes |-> {}]

-----------------------------------------------------------------------------
(***************************************************************************)
(* The database.                                                            *)
(***************************************************************************)
\* The blocks from b down to the genesis block.
Chain[b \in Blocks \cup {Genesis}] == IF b = Genesis THEN {} ELSE {b} \cup Chain[Parent[b]]

Length(b) == Cardinality(Chain[b])

\* The tips add_block may choose once b is stored: the longest connected chains
\* through b, if they are longer than the current one.
BestTips(n, b) ==
    LET blocks == stored[n] \cup {b}
        through == {c \in blocks : b \in Chain[c] /\ Chain[c] \subseteq blocks}
        longest == {c \in through : \A d \in through : Length(d) <= Length(c)}
    IN  {c \in longest : Length(c) > Length(tip[n])}

Announcements(n, b, from) ==
    {[to |-> p, from |-> n, block |-> b] : p \in {q \in Nodes : <<n, q>> \in Links /\ q # from}}

\* Mutant: a block without its parent is dropped.
AddBlockNoOrphan(n, b, from) ==
    /\ stored' = IF BestTips(n, b) = {} THEN stored ELSE [stored EXCEPT ![n] = @ \cup {b}]
    /\ IF b \in stored[n] \/ BestTips(n, b) = {}
       THEN UNCHANGED <<tip, wire>>
       ELSE /\ \E c \in BestTips(n, b) : tip' = [tip EXCEPT ![n] = c]
            /\ wire' = wire \cup Announcements(n, b, from)

\* handle_block past hydrate_block: the block is known, becomes an orphan, or
\* changes the tip and is passed on.
AddBlock(n, b, from) ==
    /\ stored' = [stored EXCEPT ![n] = @ \cup {b}]
    /\ IF b \in stored[n] \/ BestTips(n, b) = {}
       THEN UNCHANGED <<tip, wire>>
       ELSE /\ \E c \in BestTips(n, b) : tip' = [tip EXCEPT ![n] = c]
            /\ wire' = wire \cup Announcements(n, b, from)

-----------------------------------------------------------------------------
(***************************************************************************)
(* Messages and local blocks.                                               *)
(***************************************************************************)
\* submit_block of a miner: no permit is taken.
SubmitBlock(b) ==
    LET n == Miner[b] IN
    /\ b \notin stored[n] /\ Chain[b] \ {b} \subseteq stored[n]
    /\ AddBlock(n, b, NoNode)
    /\ UNCHANGED <<pool, waiting, task, banned>>

\* A transaction reaches n's mempool, or leaves it.
ChangeMempool(n, s) ==
    /\ pool' = [pool EXCEPT ![n][s] = IF @ = "none" THEN "right" ELSE "none"]
    /\ UNCHANGED <<stored, tip, wire, waiting, task, banned>>

\* spawn_handle_incoming_block; messages of a banned peer do not arrive.
ReceiveNewBlock(m) ==
    /\ m \in wire
    /\ wire' = wire \ {m}
    /\ waiting' = IF m.from \in banned[m.to] THEN waiting ELSE [waiting EXCEPT ![m.to] = @ \cup {m}]
    /\ UNCHANGED <<stored, tip, pool, task, banned>>

-----------------------------------------------------------------------------
(***************************************************************************)
(* handle_new_block_message, with the permit.                              *)
(***************************************************************************)
Goto(n, step) == task' = [task EXCEPT ![n].step = step]
Done(n) == task' = [task EXCEPT ![n] = Idle]

\* The task of message m, and task t with the block it has put together so far.
Started(m) ==
    [step |-> "reconcile", block |-> m.block, from |-> m.from, body |-> [s \in Sigs |-> "none"], compact |-> FALSE]
Built(t, step, body) == [t EXCEPT !.step = step, !.body = body]

\* Mutant: block_exists is not asked again with the permit.
TakePermitUnchecked(n, m) ==
    /\ task[n].step = "idle" /\ m \in waiting[n]
    /\ waiting' = [waiting EXCEPT ![n] = @ \ {m}]
    /\ task' = [task EXCEPT ![n] = Started(m)]
    /\ UNCHANGED <<stored, tip, pool, wire, banned>>

\* block_exists is asked with the permit.
TakePermit(n, m) ==
    /\ task[n].step = "idle" /\ m \in waiting[n]
    /\ waiting' = [waiting EXCEPT ![n] = @ \ {m}]
    /\ task' = IF m.block \in stored[n] THEN task
               ELSE [task EXCEPT ![n] = Started(m)]
    /\ UNCHANGED <<stored, tip, pool, wire, banned>>

\* reconcile_block up to its first request.
Reconcile(n) ==
    LET b == task[n].block
        missing == {s \in Kernels[b] : pool[n][s] = "none"}
        step == IF Kernels[b] = {} THEN "add"
                ELSE IF Parent[b] # tip[n] THEN "full"
                ELSE IF missing = {} THEN "verify" ELSE "transactions"
        body == [s \in Sigs |-> IF s \in Kernels[b] THEN pool[n][s] ELSE "none"]
    IN
    /\ task[n].step = "reconcile"
    /\ task' = [task EXCEPT ![n] = Built(task[n], step, body)]
    /\ UNCHANGED <<stored, tip, pool, wire, waiting, banned>>

\* The sender's answer to FetchMempoolTransactionsByExcessSigs; insert_all puts
\* those the mempool accepts into it.
FetchTransactions(n) ==
    LET missing == {s \in Kernels[task[n].block] : task[n].body[s] = "none"}
        found == {s \in missing : pool[task[n].from][s] # "none"}
        With(known, sigs) == [s \in Sigs |-> IF s \in sigs THEN pool[task[n].from][s] ELSE known[s]]
    IN
    /\ task[n].step = "transactions"
    /\ \E accepted \in SUBSET found : pool' = [pool EXCEPT ![n] = With(pool[n], accepted)]
    /\ task' = [task EXCEPT ![n] =
                Built(task[n], IF found = missing THEN "verify" ELSE "full", With(task[n].body, found))]
    /\ UNCHANGED <<stored, tip, wire, waiting, banned>>

\* Mutant: the roots are not compared.
VerifyTrusting(n) ==
    /\ task[n].step = "verify"
    /\ Goto(n, IF Parent[task[n].block] = tip[n] THEN "add" ELSE "full")
    /\ UNCHANGED <<stored, tip, pool, wire, waiting, banned>>

\* calculate_mmr_roots and check_mmr_roots: the roots are those of a block on the
\* tip of this moment.
Verify(n) ==
    /\ task[n].step = "verify"
    /\ Goto(n, IF /\ Parent[task[n].block] = tip[n]
                  /\ \A s \in Kernels[task[n].block] : task[n].body[s] = "right"
               THEN "add" ELSE "full")
    /\ UNCHANGED <<stored, tip, pool, wire, waiting, banned>>

Whole(n) == [s \in Sigs |-> IF s \in Kernels[task[n].block] THEN "right" ELSE "none"]

\* GetBlockFromAllChains at the sender: its chain, then its orphans.
FetchFromChain(n) ==
    /\ task[n].step = "full"
    /\ task' = [task EXCEPT ![n] =
                IF task[n].block \in Chain[tip[task[n].from]]
                THEN [Built(task[n], "add", Whole(n)) EXCEPT !.compact = TRUE]
                ELSE [task[n] EXCEPT !.step = "orphan"]]
    /\ UNCHANGED <<stored, tip, pool, wire, waiting, banned>>

FetchFromOrphans(n) ==
    LET p == task[n].from
        orphan == task[n].block \in stored[p] \ Chain[tip[p]]
    IN
    /\ task[n].step = "orphan"
    /\ IF orphan THEN task' = [task EXCEPT ![n] = Built(task[n], "add", Whole(n))] ELSE Done(n)
    /\ banned' = IF orphan THEN banned ELSE [banned EXCEPT ![n] = @ \cup {p}]
    /\ UNCHANGED <<stored, tip, pool, wire, waiting>>

\* hydrate_block: the outputs a compact block spends are looked up in the chain.
HydrateFails(n) ==
    /\ task[n].step = "add"
    /\ task[n].compact /\ ~ Spends[task[n].block] \subseteq Chain[tip[n]]
    /\ Done(n)
    /\ UNCHANGED <<stored, tip, pool, wire, waiting, banned>>

HandleBlock(n) ==
    /\ task[n].step = "add"
    /\ task[n].compact => Spends[task[n].block] \subseteq Chain[tip[n]]
    /\ AddBlock(n, task[n].block, task[n].from)
    /\ Done(n)
    /\ UNCHANGED <<pool, waiting, banned>>

\* handle_request_timeout: a request or an answer was lost, or the answer came
\* before handle_outbound_request had registered the request.
RequestTimeout(n) ==
    /\ task[n].step \in {"transactions", "full", "orphan"}
    /\ AnswersLost
    /\ Done(n)
    /\ UNCHANGED <<stored, tip, pool, wire, waiting, banned>>

OwnStep(n) ==
    \/ \E m \in waiting[n] : TakePermit(n, m)
    \/ Reconcile(n) \/ Verify(n) \/ HydrateFails(n) \/ HandleBlock(n) \/ RequestTimeout(n)

PeerAnswer(n) == FetchTransactions(n) \/ FetchFromChain(n) \/ FetchFromOrphans(n)

Next ==
    \/ \E b \in Blocks : SubmitBlock(b)
    \/ \E m \in wire : ReceiveNewBlock(m)
    \/ \E n \in Nodes : OwnStep(n) \/ PeerAnswer(n) \/ \E s \in Sigs : ChangeMempool(n, s)

Spec == Init /\ [][Next]_vars

\* A node's own tasks and timers run, messages arrive and peers answer.
Fairness ==
    \A n \in Nodes :
        /\ WF_vars(OwnStep(n)) /\ WF_vars(PeerAnswer(n))
        /\ WF_vars(\E m \in wire : m.to = n /\ ReceiveNewBlock(m))

FairSpec == Spec /\ Fairness

-----------------------------------------------------------------------------
\* A block that is handed to add_block is the block that was announced, even if
\* the mempool holds another transaction with the same signature or the tip has
\* moved since the block was put together (reconcile_block).
AddedIsAnnounced ==
    \A n \in Nodes : task[n].step = "add" =>
        \A s \in Kernels[task[n].block] : task[n].body[s] = "right"

\* Once a block is stored, however it got there, the node asks nobody for it:
\* block_exists is asked under the permit (handle_new_block_message).
NotAskedTwice ==
    \A n \in Nodes : task[n].step \in {"transactions", "full", "orphan"} => task[n].block \notin stored[n]

\* Every block that is submitted reaches every node, and stays there
\* (handle_block's propagation).
BlocksSpread == <>[](\A b \in Blocks, n \in Nodes : b \in stored[Miner[b]] => b \in stored[n])
=============================================================================
