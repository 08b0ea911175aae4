----------------------- MODULE BlockPropagationProofs -----------------------
(***************************************************************************)
(* Proofs about the propagation of blocks.  The invariant: a block that any  *)
(* node has, that a message names or that a task works on is stored by its    *)
(* miner; a task works on a block its node does not have; and a task that is  *)
(* about to add has the right transaction for every kernel of the block.      *)
(***************************************************************************)
EXTENDS BlockPropagation, TLAPS

KnownToMiner ==
    /\ \A n \in Nodes : \A b \in stored[n] : b \in stored[Miner[b]]
    /\ \A m \in wire : m.block \in stored[Miner[m.block]]
    /\ \A n \in Nodes : \A m \in waiting[n] : m.block \in stored[Miner[m.block]]
    /\ \A n \in Nodes : task[n].step # "idle" => task[n].block \in stored[Miner[task[n].block]]

HandledOnce == \A n \in Nodes : task[n].step # "idle" => task[n].block \notin stored[n]

Ready(t) == t.step = "add" => \A s \in Kernels[t.block] : t.body[s] = "right"

\* A step of the task of n that keeps its block.
Continues(n) ==
    /\ task[n].step # "idle"
    /\ \E u \in Task : /\ task' = [task EXCEPT ![n] = u]
                       /\ u.block = task[n].block /\ u.from = task[n].from /\ Ready(u)
    /\ pool' \in [Nodes -> [Sigs -> Transaction]] /\ banned' \in [Nodes -> SUBSET Nodes]
    /\ UNCHANGED <<stored, tip, wire, waiting>>

\* The task of n ends.
Ends(n) ==
    /\ task' = [task EXCEPT ![n] = Idle]
    /\ pool' \in [Nodes -> [Sigs -> Transaction]] /\ banned' \in [Nodes -> SUBSET Nodes]
    /\ UNCHANGED <<stored, tip, wire, waiting>>

\* n adds b, and tells others of it.
Adds(n, b) ==
    /\ stored' = [stored EXCEPT ![n] = @ \cup {b}]
    /\ tip' \in [Nodes -> Blocks \cup {Genesis}] /\ \A k \in Nodes : tip'[k] \in stored'[k] \cup {Genesis}
    /\ \E told \in SUBSET NewBlock : wire' = wire \cup told /\ \A m \in told : m.block = b

Bodies == [Sigs -> Transaction]

\* What Built sets and keeps.
LEMMA BuiltFields ==
    ASSUME NEW t \in Task, NEW s \in Steps, NEW f \in Bodies
    PROVE  /\ Built(t, s, f) \in Task
           /\ Built(t, s, f).step = s /\ Built(t, s, f).body = f
           /\ Built(t, s, f).block = t.block /\ Built(t, s, f).from = t.from
  BY Zenon DEF Built, Task, Bodies

\* An idle task is a task.
LEMMA IdleFields == Idle \in Task /\ Idle.step = "idle"
  BY DEF Idle, Task, Steps, Transaction

\* reconcile_block goes on with the same block, and goes to add only if nothing is
\* missing.
LEMMA ReconcileContinues == ASSUME BlocksAssumption, TypeOK, NEW n \in Nodes, Reconcile(n) PROVE Continues(n)
  <1> DEFINE b == task[n].block
             missing == {s \in Kernels[b] : pool[n][s] = "none"}
             step == IF Kernels[b] = {} THEN "add"
                     ELSE IF Parent[b] # tip[n] THEN "full"
                     ELSE IF missing = {} THEN "verify" ELSE "transactions"
             body == [s \in Sigs |-> IF s \in Kernels[b] THEN pool[n][s] ELSE "none"]
             u == Built(task[n], step, body)
  <1>1. task[n] \in Task /\ step \in Steps /\ (step = "add" => Kernels[b] = {})
    BY DEF TypeOK, Steps
  <1>2. body \in Bodies
    BY DEF TypeOK, Transaction, Bodies
  <1>3. u \in Task /\ u.step = step /\ u.block = b /\ u.from = task[n].from
    <2> HIDE DEF step, body
    <2> QED
      BY <1>1, <1>2, BuiltFields
  <1>4. Ready(u)
    BY <1>1, <1>3, Zenon DEF Ready
  <1>5. task' = [task EXCEPT ![n] = u] /\ task[n].step = "reconcile" /\ UNCHANGED <<stored, tip, pool, wire, waiting, banned>>
    BY DEF Reconcile
  <1> QED
    BY <1>3, <1>4, <1>5, Zenon DEF Continues, TypeOK

\* The same when the sender was asked for transactions.
LEMMA FetchTransactionsContinues ==
    ASSUME BlocksAssumption, TypeOK, NEW n \in Nodes, FetchTransactions(n) PROVE Continues(n)
  <1> DEFINE missing == {s \in Kernels[task[n].block] : task[n].body[s] = "none"}
             found == {s \in missing : pool[task[n].from][s] # "none"}
             With(known, sigs) == [s \in Sigs |-> IF s \in sigs THEN pool[task[n].from][s] ELSE known[s]]
             step == IF found = missing THEN "verify" ELSE "full"
             u == Built(task[n], step, With(task[n].body, found))
  <1>1. task[n] \in Task /\ step \in Steps /\ step # "add" /\ pool[n] \in [Sigs -> Transaction]
    BY DEF TypeOK, Steps
  <1>2. task[n].step = "transactions" /\ task[n].from \in Nodes /\ task[n].body \in [Sigs -> Transaction]
    <2>1. task[n].step = "transactions"
      BY Zenon DEF FetchTransactions
    <2>2. task[n].from \in Nodes
      BY <2>1 DEF TypeOK
    <2>3. task[n].body \in [Sigs -> Transaction]
      BY <1>1 DEF Task
    <2> QED
      BY <2>1, <2>2, <2>3
  <1>3. \A known \in [Sigs -> Transaction] : \A sigs : With(known, sigs) \in [Sigs -> Transaction]
    <2>1. pool[task[n].from] \in [Sigs -> Transaction]
      BY <1>2 DEF TypeOK
    <2> QED
      BY <2>1
  <1>4. With(task[n].body, found) \in Bodies
    BY <1>2, <1>3 DEF Bodies
  <1>5. u \in Task /\ u.step = step /\ u.block = task[n].block /\ u.from = task[n].from
    <2> HIDE DEF step, With
    <2> QED
      BY <1>1, <1>4, BuiltFields
  <1>6. Ready(u)
    BY <1>1, <1>5, Zenon DEF Ready
  <1>7. task' = [task EXCEPT ![n] = u] /\ UNCHANGED <<stored, tip, wire, waiting, banned>>
    BY DEF FetchTransactions
  <1>8. PICK accepted \in SUBSET found : pool' = [pool EXCEPT ![n] = With(pool[n], accepted)]
    BY Zenon DEF FetchTransactions
  <1>9. pool' \in [Nodes -> [Sigs -> Transaction]]
    <2>1. With(pool[n], accepted) \in [Sigs -> Transaction]
      BY <1>1, <1>3
    <2> HIDE DEF With
    <2> QED
      BY <2>1, <1>8 DEF TypeOK
  <1> QED
    BY <1>2, <1>5, <1>6, <1>7, <1>9, Zenon DEF Continues, TypeOK

\* The block that was put together is added only if every kernel is right.
LEMMA VerifyContinues == ASSUME BlocksAssumption, TypeOK, NEW n \in Nodes, Verify(n) PROVE Continues(n)
  <1> DEFINE right == /\ Parent[task[n].block] = tip[n]
                      /\ \A s \in Kernels[task[n].block] : task[n].body[s] = "right"
             step == IF right THEN "add" ELSE "full"
             u == [task[n] EXCEPT !.step = step]
  <1>1. task[n] \in Task /\ task[n].step = "verify" /\ step \in Steps /\ (step = "add" => right)
    BY DEF TypeOK, Verify, Steps
  <1>2. u \in Task /\ u.step = step /\ u.block = task[n].block /\ u.from = task[n].from /\ u.body = task[n].body
    <2> HIDE DEF step
    <2> QED
      BY <1>1 DEF Task
  <1>3. Ready(u)
    BY <1>1, <1>2, Zenon DEF Ready
  <1>4. task' = [task EXCEPT ![n] = u] /\ UNCHANGED <<stored, tip, pool, wire, waiting, banned>>
    BY DEF Verify, Goto
  <1> QED
    BY <1>1, <1>2, <1>3, <1>4, Zenon DEF Continues, TypeOK

\* A block fetched as a whole is right.
LEMMA WholeBody ==
    ASSUME BlocksAssumption, TypeOK, NEW n \in Nodes, task[n].step # "idle"
    PROVE  Whole(n) \in [Sigs -> Transaction] /\ \A s \in Kernels[task[n].block] : Whole(n)[s] = "right"
  BY DEF Whole, Transaction, TypeOK, BlocksAssumption

\* The same when the whole block comes from the chain of the sender.
LEMMA FetchFromChainContinues ==
    ASSUME BlocksAssumption, TypeOK, NEW n \in Nodes, FetchFromChain(n) PROVE Continues(n)
  <1> DEFINE v == Built(task[n], "add", Whole(n))
  <1>1. task[n] \in Task /\ task[n].step = "full"
    BY DEF TypeOK, FetchFromChain
  <1>2. Whole(n) \in Bodies /\ \A s \in Kernels[task[n].block] : Whole(n)[s] = "right"
    BY <1>1, WholeBody DEF Bodies
  <1>3. v \in Task /\ v.step = "add" /\ v.block = task[n].block /\ v.from = task[n].from /\ v.body = Whole(n)
    <2>1. "add" \in Steps
      BY DEF Steps
    <2> QED
      BY <1>1, <1>2, <2>1, BuiltFields
  <1>4. UNCHANGED <<stored, tip, pool, wire, waiting, banned>>
    BY DEF FetchFromChain
  <1>5. CASE task[n].block \in Chain[tip[task[n].from]]
    <2> DEFINE u == [v EXCEPT !.compact = TRUE]
    <2>1. u \in Task /\ u.step = "add" /\ u.block = v.block /\ u.from = v.from /\ u.body = v.body
      <3> HIDE DEF v
      <3> QED
        BY <1>3, Zenon DEF Task
    <2>2. Ready(u)
      BY <1>2, <1>3, <2>1, Zenon DEF Ready
    <2>3. task' = [task EXCEPT ![n] = u]
      BY <1>5, Zenon DEF FetchFromChain
    <2> QED
      BY <1>1, <1>3, <1>4, <2>1, <2>2, <2>3, Zenon DEF Continues, TypeOK
  <1>6. CASE task[n].block \notin Chain[tip[task[n].from]]
    <2> DEFINE u == [task[n] EXCEPT !.step = "orphan"]
    <2>1. u \in Task /\ u.step = "orphan" /\ u.block = task[n].block /\ u.from = task[n].from
      BY <1>1 DEF Task, Steps
    <2>2. Ready(u)
      BY <2>1 DEF Ready
    <2>3. task' = [task EXCEPT ![n] = u]
      BY <1>6, Zenon DEF FetchFromChain
    <2> QED
      BY <1>1, <1>4, <2>1, <2>2, <2>3, Zenon DEF Continues, TypeOK
  <1> QED
    BY <1>5, <1>6

\* The task goes on with the block from the orphan pool of the sender, or ends and
\* bans it.
LEMMA FetchFromOrphansStep ==
    ASSUME BlocksAssumption, TypeOK, NEW n \in Nodes, FetchFromOrphans(n) PROVE Continues(n) \/ Ends(n)
  <1> DEFINE v == Built(task[n], "add", Whole(n))
             orphan == task[n].block \in stored[task[n].from] \ Chain[tip[task[n].from]]
  <1>1. task[n] \in Task /\ task[n].step = "orphan" /\ task[n].from \in Nodes
    BY DEF TypeOK, FetchFromOrphans
  <1>2. Whole(n) \in Bodies /\ \A s \in Kernels[task[n].block] : Whole(n)[s] = "right"
    BY <1>1, WholeBody DEF Bodies
  <1>3. v \in Task /\ v.step = "add" /\ v.block = task[n].block /\ v.from = task[n].from /\ v.body = Whole(n)
    <2>1. "add" \in Steps
      BY DEF Steps
    <2> QED
      BY <1>1, <1>2, <2>1, BuiltFields
  <1>4. UNCHANGED <<stored, tip, pool, wire, waiting>>
    BY DEF FetchFromOrphans
  <1>5. CASE orphan
    <2>1. task' = [task EXCEPT ![n] = v] /\ banned' = banned
      BY <1>5, Zenon DEF FetchFromOrphans
    <2>2. Ready(v)
      BY <1>2, <1>3, Zenon DEF Ready
    <2> QED
      BY <1>1, <1>3, <1>4, <2>1, <2>2, Zenon DEF Continues, TypeOK
  <1>6. CASE ~ orphan
    <2>1. task' = [task EXCEPT ![n] = Idle] /\ banned' = [banned EXCEPT ![n] = @ \cup {task[n].from}]
      BY <1>6, Zenon DEF FetchFromOrphans, Done
    <2>2. banned' \in [Nodes -> SUBSET Nodes]
      BY <1>1, <2>1 DEF TypeOK
    <2> QED
      BY <1>4, <2>1, <2>2, Zenon DEF Ends, TypeOK
  <1> QED
    BY <1>5, <1>6

\* add_block stores the block and announces it.
LEMMA AddBlockAdds ==
    ASSUME TypeOK, NEW n \in Nodes, NEW b \in Blocks, NEW from, AddBlock(n, b, from)
    PROVE  Adds(n, b)
  <1>1. stored' = [stored EXCEPT ![n] = @ \cup {b}]
    BY DEF AddBlock
  <1>2. stored \in [Nodes -> SUBSET Blocks] /\ stored'[n] = stored[n] \cup {b} /\ \A k \in Nodes \ {n} : stored'[k] = stored[k]
    BY <1>1 DEF TypeOK
  <1>3. CASE UNCHANGED <<tip, wire>>
    <2>1. wire' = wire \cup {} /\ {} \in SUBSET NewBlock /\ \A m \in {} : m.block = b
      BY <1>3
    <2>2. \A k \in Nodes : tip'[k] \in stored'[k] \cup {Genesis}
      BY <1>3, <1>2 DEF TypeOK
    <2> QED
      BY <1>1, <1>3, <2>1, <2>2, Zenon DEF Adds, TypeOK
  <1>4. CASE /\ \E c \in BestTips(n, b) : tip' = [tip EXCEPT ![n] = c]
             /\ wire' = wire \cup Announcements(n, b, from)
    <2>1. BestTips(n, b) \subseteq stored'[n] /\ stored'[n] \subseteq Blocks
      BY <1>2 DEF BestTips
    <2>2. tip' \in [Nodes -> Blocks \cup {Genesis}] /\ \A k \in Nodes : tip'[k] \in stored'[k] \cup {Genesis}
      BY <1>4, <1>2, <2>1 DEF TypeOK
    <2>3. Announcements(n, b, from) \in SUBSET NewBlock /\ \A m \in Announcements(n, b, from) : m.block = b
      <3>1. \A p \in Nodes : LET m == [to |-> p, from |-> n, block |-> b] IN m \in NewBlock /\ m.block = b
        BY DEF NewBlock
      <3> QED
        BY <3>1, Zenon DEF Announcements
    <2> QED
      BY <1>1, <1>4, <2>2, <2>3, Zenon DEF Adds
  <1> QED
    BY <1>3, <1>4 DEF AddBlock

Inv == TypeOK /\ KnownToMiner /\ HandledOnce /\ AddedIsAnnounced

\* A step of a task that keeps its block keeps the invariant.
LEMMA ContinuesKeeps == ASSUME BlocksAssumption, Inv, NEW n \in Nodes, Continues(n) PROVE Inv'
  <1>1. PICK u \in Task : /\ task' = [task EXCEPT ![n] = u]
                          /\ u.block = task[n].block /\ u.from = task[n].from /\ Ready(u)
    BY Zenon DEF Continues
  <1>2. /\ task[n].step # "idle" /\ UNCHANGED <<stored, tip, wire, waiting>>
        /\ pool' \in [Nodes -> [Sigs -> Transaction]] /\ banned' \in [Nodes -> SUBSET Nodes]
    BY DEF Continues
  <1>3. task \in [Nodes -> Task] /\ task' \in [Nodes -> Task]
    BY <1>1 DEF Inv, TypeOK
  <1>4. task'[n] = u /\ \A k \in Nodes \ {n} : task'[k] = task[k]
    BY <1>1, <1>3
  <1>5. TypeOK'
    BY <1>1, <1>2, <1>3, <1>4 DEF Inv, TypeOK
  <1>6. KnownToMiner' /\ HandledOnce'
    BY <1>1, <1>2, <1>4 DEF Inv, KnownToMiner, HandledOnce
  <1>7. AddedIsAnnounced'
    BY <1>1, <1>4 DEF Inv, AddedIsAnnounced, Ready
  <1> QED
    BY <1>5, <1>6, <1>7 DEF Inv

\* So does a task that ends.
LEMMA EndsKeeps == ASSUME Inv, NEW n \in Nodes, Ends(n) PROVE Inv'
  <1>1. task \in [Nodes -> Task] /\ task' \in [Nodes -> Task]
    BY IdleFields DEF Ends, Inv, TypeOK
  <1>2. task'[n] = Idle /\ \A k \in Nodes \ {n} : task'[k] = task[k]
    BY <1>1 DEF Ends
  <1>3. TypeOK'
    BY <1>1, <1>2, IdleFields DEF Inv, TypeOK, Ends
  <1>4. KnownToMiner' /\ HandledOnce'
    BY <1>2, IdleFields DEF Inv, KnownToMiner, HandledOnce, Ends
  <1>5. AddedIsAnnounced'
    BY <1>2, IdleFields DEF Inv, AddedIsAnnounced
  <1> QED
    BY <1>3, <1>4, <1>5 DEF Inv

\* b is new to n, and the task of n ends if it is the task of b.
LEMMA AddsKeeps ==
    ASSUME BlocksAssumption, Inv, NEW n \in Nodes, NEW b \in Blocks, Adds(n, b), UNCHANGED <<pool, waiting, banned>>,
           \/ task' = task /\ n = Miner[b] /\ b \notin stored[n]
           \/ task' = [task EXCEPT ![n] = Idle] /\ task[n].step # "idle" /\ task[n].block = b
    PROVE  Inv'
  <1>1. /\ stored' = [stored EXCEPT ![n] = @ \cup {b}]
        /\ tip' \in [Nodes -> Blocks \cup {Genesis}] /\ \A k \in Nodes : tip'[k] \in stored'[k] \cup {Genesis}
    BY DEF Adds
  <1>2. PICK told \in SUBSET NewBlock : wire' = wire \cup told /\ \A m \in told : m.block = b
    BY DEF Adds
  <1>3. task \in [Nodes -> Task] /\ task' \in [Nodes -> Task]
    BY IdleFields DEF Inv, TypeOK
  <1>4. /\ stored \in [Nodes -> SUBSET Blocks] /\ stored' \in [Nodes -> SUBSET Blocks]
        /\ stored'[n] = stored[n] \cup {b} /\ \A k \in Nodes \ {n} : stored'[k] = stored[k]
    BY <1>1 DEF Inv, TypeOK
  <1>5. \A k \in Nodes : task'[k].step # "idle" => task'[k] = task[k]
    BY <1>3, IdleFields
  <1>6. TypeOK'
    BY <1>1, <1>2, <1>3, <1>4, <1>5 DEF Inv, TypeOK
  <1>7. b \in stored'[Miner[b]] /\ \A k \in Nodes : stored[k] \subseteq stored'[k]
    BY <1>4 DEF Inv, KnownToMiner, BlocksAssumption
  <1>8. KnownToMiner'
    <2>1. \A c \in Blocks : c \in stored[Miner[c]] => c \in stored'[Miner[c]]
      BY <1>7 DEF BlocksAssumption
    <2>2. \A k \in Nodes : \A c \in stored'[k] : c \in stored'[Miner[c]]
      BY <1>4, <1>7, <2>1 DEF Inv, KnownToMiner
    <2>3. \A m \in wire' : m.block \in stored'[Miner[m.block]]
      BY <1>2, <1>7, <2>1 DEF Inv, KnownToMiner, TypeOK, NewBlock
    <2>4. \A k \in Nodes : \A m \in waiting'[k] : m.block \in stored'[Miner[m.block]]
      BY <2>1 DEF Inv, KnownToMiner, TypeOK, NewBlock
    <2>5. \A k \in Nodes : task'[k].step # "idle" => task'[k].block \in stored'[Miner[task'[k].block]]
      BY <1>5, <2>1 DEF Inv, KnownToMiner, TypeOK
    <2> QED
      BY <2>2, <2>3, <2>4, <2>5 DEF KnownToMiner
  <1>9. HandledOnce'
    <2>1. CASE task' = task /\ n = Miner[b] /\ b \notin stored[n]
      BY <2>1, <1>4 DEF Inv, HandledOnce, KnownToMiner
    <2>2. CASE task' = [task EXCEPT ![n] = Idle]
      BY <2>2, <1>3, <1>4, IdleFields DEF Inv, HandledOnce
    <2> QED
      BY <2>1, <2>2
  <1>10. AddedIsAnnounced'
    BY <1>5 DEF Inv, AddedIsAnnounced
  <1> QED
    BY <1>6, <1>8, <1>9, <1>10 DEF Inv

\* A message that arrives was sent about a block its miner has.
LEMMA ReceiveKeeps == ASSUME Inv, NEW m \in wire, ReceiveNewBlock(m) PROVE Inv'
  <1>1. m \in NewBlock /\ m.to \in Nodes
    BY DEF Inv, TypeOK, NewBlock
  <1>2. /\ wire' \subseteq wire /\ waiting' \in [Nodes -> SUBSET NewBlock]
        /\ \A k \in Nodes : waiting'[k] \subseteq waiting[k] \cup {m}
    BY <1>1 DEF ReceiveNewBlock, Inv, TypeOK
  <1>3. UNCHANGED <<stored, tip, pool, task, banned>>
    BY DEF ReceiveNewBlock
  <1>4. TypeOK' /\ AddedIsAnnounced' /\ HandledOnce'
    BY <1>2, <1>3 DEF Inv, TypeOK, AddedIsAnnounced, HandledOnce
  <1>5. KnownToMiner'
    BY <1>2, <1>3 DEF Inv, KnownToMiner
  <1> QED
    BY <1>4, <1>5 DEF Inv

\* handle_new_block_message takes the permit only for a block the node does not
\* have.
LEMMA TakeKeeps == ASSUME BlocksAssumption, Inv, NEW n \in Nodes, NEW m \in waiting[n], TakePermit(n, m) PROVE Inv'
  <1>1. m \in NewBlock /\ m.block \in Blocks /\ m.from \in Nodes
    BY DEF Inv, TypeOK, NewBlock
  <1>2. /\ Started(m) \in Task
        /\ Started(m).step = "reconcile" /\ Started(m).block = m.block /\ Started(m).from = m.from
    BY <1>1 DEF Started, Task, Steps, NewBlock, Transaction
  <1>3. /\ waiting' \in [Nodes -> SUBSET NewBlock] /\ \A k \in Nodes : waiting'[k] \subseteq waiting[k]
        /\ UNCHANGED <<stored, tip, pool, wire, banned>>
    BY DEF TakePermit, Inv, TypeOK
  <1>4. task' \in [Nodes -> Task] /\ \A k \in Nodes : \/ task'[k] = task[k]
                                                      \/ k = n /\ task'[k] = Started(m) /\ m.block \notin stored[n]
    BY <1>2 DEF TakePermit, Inv, TypeOK
  <1>5. TypeOK'
    BY <1>1, <1>2, <1>3, <1>4 DEF Inv, TypeOK
  <1>6. KnownToMiner' /\ HandledOnce'
    BY <1>2, <1>3, <1>4 DEF Inv, KnownToMiner, HandledOnce
  <1>7. AddedIsAnnounced'
    BY <1>2, <1>4 DEF Inv, AddedIsAnnounced
  <1> QED
    BY <1>5, <1>6, <1>7 DEF Inv

\* The invariant, action by action.
LEMMA InvStep == ASSUME BlocksAssumption, Inv, [Next]_vars PROVE Inv'
  <1> USE DEF Inv
  <1>1. ASSUME NEW b \in Blocks, SubmitBlock(b) PROVE Inv'
    <2>1. Miner[b] \in Nodes /\ Adds(Miner[b], b)
      BY <1>1, AddBlockAdds DEF SubmitBlock, BlocksAssumption
    <2> QED
      BY <1>1, <2>1, AddsKeeps DEF SubmitBlock
  <1>2. ASSUME NEW m \in wire, ReceiveNewBlock(m) PROVE Inv'
    BY <1>2, ReceiveKeeps
  <1>3. ASSUME NEW n \in Nodes, NEW m \in waiting[n], TakePermit(n, m) PROVE Inv'
    BY <1>3, TakeKeeps
  <1>4. ASSUME NEW n \in Nodes, Reconcile(n) PROVE Inv'
    BY <1>4, ReconcileContinues, ContinuesKeeps
  <1>5. ASSUME NEW n \in Nodes, FetchTransactions(n) PROVE Inv'
    BY <1>5, FetchTransactionsContinues, ContinuesKeeps
  <1>6. ASSUME NEW n \in Nodes, Verify(n) PROVE Inv'
    BY <1>6, VerifyContinues, ContinuesKeeps
  <1>7. ASSUME NEW n \in Nodes, FetchFromChain(n) PROVE Inv'
    BY <1>7, FetchFromChainContinues, ContinuesKeeps
  <1>8. ASSUME NEW n \in Nodes, FetchFromOrphans(n) PROVE Inv'
    BY <1>8, FetchFromOrphansStep, ContinuesKeeps, EndsKeeps
  <1>9. ASSUME NEW n \in Nodes, HydrateFails(n) \/ RequestTimeout(n) PROVE Inv'
    <2>1. Ends(n)
      BY <1>9 DEF HydrateFails, RequestTimeout, Done, Ends, TypeOK
    <2> QED
      BY <2>1, EndsKeeps
  <1>10. ASSUME NEW n \in Nodes, HandleBlock(n) PROVE Inv'
    <2>1. task[n].step # "idle" /\ task[n].block \in Blocks
      BY <1>10 DEF HandleBlock, TypeOK
    <2>2. Adds(n, task[n].block)
      BY <1>10, <2>1, AddBlockAdds DEF HandleBlock
    <2> QED
      BY <1>10, <2>1, <2>2, AddsKeeps, Zenon DEF HandleBlock, Done
  <1>11. ASSUME NEW n \in Nodes, NEW s \in Sigs, ChangeMempool(n, s) PROVE Inv'
    <2>1. pool' \in [Nodes -> [Sigs -> Transaction]]
      BY <1>11 DEF ChangeMempool, TypeOK, Transaction
    <2> QED
      BY <1>11, <2>1 DEF ChangeMempool, TypeOK, KnownToMiner, HandledOnce, AddedIsAnnounced
  <1>12. CASE UNCHANGED vars
    BY <1>12 DEF vars, TypeOK, KnownToMiner, HandledOnce, AddedIsAnnounced
  <1> HIDE DEF Inv
  <1> QED
    BY <1>1, <1>2, <1>3, <1>4, <1>5, <1>6, <1>7, <1>8, <1>9, <1>10, <1>11, <1>12, ZenonT(30)
    DEF Next, OwnStep, PeerAnswer

\* The initial states satisfy it.
LEMMA InvInit == ASSUME BlocksAssumption, Init PROVE Inv
  <1>1. TypeOK
    <2>1. [n \in Nodes |-> [s \in Sigs |-> IF <<n, s>> \in Collisions THEN "other" ELSE "none"]]
            \in [Nodes -> [Sigs -> Transaction]]
      BY DEF Transaction
    <2> QED
      BY <2>1, IdleFields DEF Init, TypeOK
  <1>2. KnownToMiner /\ HandledOnce /\ AddedIsAnnounced
    BY IdleFields DEF Init, KnownToMiner, HandledOnce, AddedIsAnnounced
  <1> QED
    BY <1>1, <1>2 DEF Inv

\* The inductive invariant holds in every reachable state.
THEOREM Invariant == BlocksAssumption /\ Spec => []Inv
  <1> SUFFICES ASSUME BlocksAssumption PROVE Spec => []Inv
    OBVIOUS
  <1>1. Init => Inv
    BY InvInit
  <1>2. Inv /\ [Next]_vars => Inv'
    BY InvStep
  <1> QED
    BY <1>1, <1>2, PTL DEF Spec

\* A block that is handed to add_block is the block that was announced: for every
\* kernel it holds the right transaction, even if the mempool of the node or of the
\* sender holds another one with the same signature, or the tip moved while the
\* block was put together (reconcile_block).  For every tree of blocks, every
\* network and every choice of mempools.
THEOREM Announced == BlocksAssumption /\ Spec => []AddedIsAnnounced
  <1>1. Inv => AddedIsAnnounced
    BY DEF Inv
  <1> QED
    BY <1>1, Invariant, PTL

\* Once a block is stored, the node asks nobody for it: the miner's own block is
\* never announced to the miner before it has it, and a block another task could
\* store is excluded by the permit (handle_new_block_message).
THEOREM AskedOnce == BlocksAssumption /\ Spec => []NotAskedTwice
  <1>1. Inv => NotAskedTwice
    BY DEF Inv, HandledOnce, NotAskedTwice
  <1> QED
    BY <1>1, Invariant, PTL
=============================================================================
