---------------------------- MODULE UtxoScanner ----------------------------
(***************************************************************************)
(* The wallet's UTXO scanner (wallet: utxo_scanner_service; base node:       *)
(* rpc/sync_utxos_by_block_task).  A task streams the blocks above the last   *)
(* one it knows from a base node, puts the wallet's own outputs into the      *)
(* output manager's table and a record of each into the transaction           *)
(* service's, and remembers the scanned blocks.  Rounds of scanning are        *)
(* started by the service; recovery is a task of its own beside them.          *)
(*                                                                          *)
(* Base nodes have one of two chains, "a" and "b", which share the blocks up   *)
(* to height Fork.  A block is <<chain, height>>.                             *)
(***************************************************************************)
EXTENDS Integers, Sequences, FiniteSets, FiniteSetsExt

CONSTANTS
    Nodes, First, Second,  \* base nodes; the one in use, and the one changed to
    Fork, MaxHeight,
    StartHeight,    \* height of the base nodes' chains when the wallet starts
    Mine,           \* own outputs: [block, chunk, output]
    Spends,         \* where they are spent: [block, output]
    Blank,          \* blocks of which no output is unspent
    CacheSize, RetryLimit,
    Rounds,         \* names for the tasks of scanning rounds that overlap
    Recovers,       \* whether the user asks for recovery
    ReorgsInStream, \* whether a base node may reorganise while it streams
    CutsInBlock,    \* whether a connection may be lost between the messages of a block
    Unreliable,     \* base nodes that may fail for ever; others fail MaxFaults times
    MaxReorgs, MaxFaults, MaxCrashes, MaxChanges, MaxShutdowns

Birthday == 1
Recovery == 0
Tasks == Rounds \cup {Recovery}
Outputs == {m.output : m \in Mine}

Block(c, h) == IF h <= Fork THEN <<"common", h>> ELSE <<c, h>>
NoBlock == <<"none", 0>>
Blocks == {Block(c, h) : c \in {"a", "b"}, h \in Birthday..MaxHeight}
Height(b) == b[2]
Ancestors(b) == {Block(b[1], h) : h \in Birthday..Height(b)}
SpentBy(b) == {s.output : s \in {x \in Spends : x.block \in Ancestors(b)}}

VARIABLES
    chain, height,   \* per base node
    rows,            \* scanned_blocks: [block, own], own if outputs were found
    outputs,         \* commitments in the output manager's table
    recorded,        \* outputs with a transaction
    key,             \* RECOVERY_KEY is in the wallet's database
    task,
    service,         \* the service's loop
    reorgs, faults, crashes, changes, shutdowns

nodeVars == <<chain, height, reorgs>>
dbVars == <<rows, outputs, recorded>>
bounds == <<faults, crashes, changes, shutdowns>>
vars == <<nodeVars, dbVars, key, task, service, bounds>>

NoTask == [pc |-> "idle", seeds |-> <<>>, index |-> 0, retries |-> 0, node |-> First, stopped |-> FALSE,
           tip |-> NoBlock, todo |-> {}, missing |-> 0, last |-> NoBlock, next |-> NoBlock,
           cursor |-> NoBlock, chunk |-> 0, found |-> {}, prev |-> NoBlock, own |-> FALSE, scanned |-> FALSE]

TypeOK ==
    /\ chain \in [Nodes -> {"a", "b"}] /\ height \in [Nodes -> Birthday..MaxHeight]
    /\ rows \subseteq [block : Blocks, own : BOOLEAN]
    /\ recorded \subseteq Outputs /\ outputs \subseteq Outputs /\ key \in BOOLEAN
    /\ \A t \in Tasks :
        /\ task[t].pc \in {"idle", "start", "peer", "tip", "header", "last", "check", "next", "birthday",
                           "request", "stream", "import", "save", "finish", "done"}
        /\ task[t].todo \subseteq [block : Blocks, own : BOOLEAN]

Init ==
    /\ chain = [n \in Nodes |-> "a"] /\ height = [n \in Nodes |-> StartHeight]
    /\ rows = {} /\ outputs = {} /\ recorded = {} /\ key = FALSE
    /\ task = [t \in Tasks |-> NoTask]
    /\ service = [running |-> FALSE, round |-> Recovery, triggered |-> TRUE, event |-> TRUE, seeds |-> <<First>>]
    /\ reorgs = 0 /\ faults = 0 /\ crashes = 0 /\ changes = 0 /\ shutdowns = 0

OnChain(n, b) == Height(b) \in Birthday..height[n] /\ Block(chain[n], Height(b)) = b
Tip(n) == Block(chain[n], height[n])

-----------------------------------------------------------------------------
(***************************************************************************)
(* The task.  A step ends where the code waits for the base node or for       *)
(* another service.                                                          *)
(***************************************************************************)
At(t, pc) == task[t].pc = pc
Goto(t, pc) == task' = [task EXCEPT ![t].pc = pc]

\* The locals of a turn of attempt_sync's loop are dropped.
Leave(t, pc, n) ==
    task' = [task EXCEPT ![t] = [NoTask EXCEPT !.pc = pc, !.node = n, !.seeds = task[t].seeds, !.index = task[t].index,
                                               !.retries = task[t].retries, !.stopped = task[t].stopped]]

\* An error ends the attempt with this peer.
Fails(t) == Leave(t, "peer", First)

\* attempt_sync returns Ok: run finalizes, and recovery clears its key.  The
\* block whose height is reported stays in next.
Completes(t, b) ==
    /\ task' = [task EXCEPT ![t] = [NoTask EXCEPT !.pc = "done", !.next = b, !.stopped = task[t].stopped]]
    /\ key' = IF t = Recovery THEN FALSE ELSE key

\* run: recovery sets the key, a scanning round is not run while it is set.
Start(t) ==
    /\ At(t, "start")
    /\ IF t = Recovery THEN key' = TRUE /\ Goto(t, "peer")
       ELSE Goto(t, IF key THEN "done" ELSE "peer") /\ UNCHANGED key
    /\ UNCHANGED <<nodeVars, dbVars, service, bounds>>

\* run, get_next_peer.
NextPeer(t) ==
    LET me == task[t] IN
    /\ At(t, "peer")
    /\ task' = [task EXCEPT ![t] =
        IF me.stopped THEN [NoTask EXCEPT !.pc = "done"]
        ELSE IF me.index <= Len(me.seeds)
        THEN [me EXCEPT !.pc = "tip", !.node = me.seeds[me.index], !.index = @ + 1]
        ELSE IF me.retries >= RetryLimit THEN [NoTask EXCEPT !.pc = "done"]
        ELSE [me EXCEPT !.retries = @ + 1, !.index = 1]]
    /\ UNCHANGED <<nodeVars, dbVars, key, service, bounds>>

\* A call to the base node, or the stream, fails.
RpcFails(t) ==
    /\ task[t].pc \in {"tip", "header", "check", "next", "birthday", "request", "stream"}
    /\ IF task[t].node \in Unreliable THEN UNCHANGED faults ELSE faults < MaxFaults /\ faults' = faults + 1
    /\ Fails(t)
    /\ UNCHANGED <<nodeVars, dbVars, key, service, crashes, changes, shutdowns>>

\* scan_utxos returns Ok: the next turn of attempt_sync's loop.
Scanned(t) ==
    IF task[t].scanned THEN Leave(t, "tip", task[t].node) ELSE Fails(t)

\* The connection is lost while the stream is read: ClientStreaming ends as if
\* the base node had sent everything, and the last row is saved.
StreamCut(t) ==
    /\ At(t, "stream") /\ ~ task[t].stopped
    /\ CutsInBlock \/ task[t].chunk = 1
    /\ faults < MaxFaults /\ faults' = faults + 1
    /\ IF task[t].prev # NoBlock THEN Goto(t, "finish") ELSE Scanned(t)
    /\ UNCHANGED <<nodeVars, dbVars, key, service, crashes, changes, shutdowns>>

\* get_chain_tip_header: the height, then the header.
GetTip(t) ==
    /\ At(t, "tip")
    /\ task' = [task EXCEPT ![t].pc = "header", ![t].tip = Tip(task[t].node)]
    /\ UNCHANGED <<nodeVars, dbVars, key, service, bounds>>

GetTipHeader(t) ==
    LET n == task[t].node
        h == Height(task[t].tip)
    IN
    /\ At(t, "header")
    /\ IF h > height[n] THEN Fails(t)
       ELSE task' = [task EXCEPT ![t].pc = "last", ![t].tip = Block(chain[n], h)]
    /\ UNCHANGED <<nodeVars, dbVars, key, service, bounds>>

\* The end of get_last_scanned_block, and what attempt_sync does with the result.
LastScannedIs(t, last, missing) ==
    /\ rows' = IF last = NoBlock THEN {}
               ELSE IF missing = 0 THEN rows ELSE {r \in rows : Height(r.block) < missing}
    /\ IF last # NoBlock /\ Height(last) >= Height(task[t].tip)
       THEN Completes(t, last)
       ELSE /\ task' = [task EXCEPT ![t].pc = IF last = NoBlock THEN "birthday" ELSE "next", ![t].last = last,
                                    ![t].todo = {}, ![t].missing = 0]
            /\ UNCHANGED key
    /\ UNCHANGED <<outputs, recorded>>

MinHeight(rs) == Min({Height(r.block) : r \in rs})

\* get_last_scanned_block: the rows above the tip are gone without a question.
GetLastScanned(t) ==
    LET above == {r \in rows : Height(r.block) > Height(task[t].tip)}
        missing == IF above = {} THEN 0 ELSE MinHeight(above)
    IN
    /\ At(t, "last")
    /\ IF rows = above THEN LastScannedIs(t, NoBlock, missing)
       ELSE /\ task' = [task EXCEPT ![t].pc = "check", ![t].todo = rows \ above, ![t].missing = missing]
            /\ UNCHANGED <<dbVars, key>>
    /\ UNCHANGED <<nodeVars, service, bounds>>

\* One header is asked for, from the highest row down.
CheckRow(t) ==
    LET me == task[t] IN
    /\ At(t, "check")
    /\ \E r \in me.todo :
        /\ \A s \in me.todo : Height(s.block) <= Height(r.block)
        /\ IF OnChain(me.node, r.block) THEN LastScannedIs(t, r.block, me.missing)
           ELSE IF me.todo = {r} THEN LastScannedIs(t, NoBlock, Height(r.block))
           ELSE /\ task' = [task EXCEPT ![t].todo = @ \ {r}, ![t].missing = Height(r.block)]
                /\ UNCHANGED <<dbVars, key>>
    /\ UNCHANGED <<nodeVars, service, bounds>>

\* The block to start from; a task that was stopped ends as if it had completed.
StartFrom(t, b) ==
    IF task[t].stopped
    THEN Completes(t, b)
    ELSE task' = [task EXCEPT ![t].pc = "request", ![t].next = b] /\ UNCHANGED key

GetNextHeader(t) ==
    LET n == task[t].node
        h == Height(task[t].last) + 1
    IN
    /\ At(t, "next")
    /\ IF h > height[n] THEN Fails(t) /\ UNCHANGED key ELSE StartFrom(t, Block(chain[n], h))
    /\ UNCHANGED <<nodeVars, dbVars, service, bounds>>

GetBirthdayHeader(t) ==
    /\ At(t, "birthday")
    /\ StartFrom(t, Block(chain[task[t].node], Birthday))
    /\ UNCHANGED <<nodeVars, dbVars, service, bounds>>

\* SyncUtxosByBlockTask::run: both headers must be on the chain.
RequestStream(t) ==
    LET me == task[t] IN
    /\ At(t, "request")
    /\ IF OnChain(me.node, me.next) /\ OnChain(me.node, me.tip) /\ Height(me.next) <= Height(me.tip)
       THEN task' = [task EXCEPT ![t].pc = "stream", ![t].cursor = me.next, ![t].chunk = 1,
                                 ![t].prev = NoBlock, ![t].own = FALSE, ![t].scanned = FALSE]
       ELSE Fails(t)
    /\ UNCHANGED <<nodeVars, dbVars, key, service, bounds>>

OwnIn(b, k) == {m.output : m \in {x \in Mine : x.block = b /\ x.chunk = k}}
Chunks(b) == Max({1} \cup {m.chunk : m \in {x \in Mine : x.block = b}})

\* Mutant: a stopped stream ends like a complete one, with the row of a block of
\* which only some messages came.
ReceiveSavesOnStop(t) ==
    LET me == task[t]
        own == OwnIn(me.cursor, me.chunk) \ SpentBy(me.tip)
    IN
    /\ At(t, "stream")
    /\ IF me.stopped /\ me.prev # NoBlock THEN Goto(t, "finish") /\ UNCHANGED outputs
       ELSE IF me.stopped THEN Scanned(t) /\ UNCHANGED outputs
       ELSE IF me.chunk = 1 /\ ~ OnChain(me.node, me.cursor) THEN Fails(t) /\ UNCHANGED outputs
       ELSE /\ task' = [task EXCEPT ![t].pc = "import", ![t].found = own \ outputs,
                                    ![t].scanned = @ \/ me.cursor \notin Blank]
            /\ outputs' = outputs \cup own
    /\ UNCHANGED <<nodeVars, rows, recorded, key, service, bounds>>

\* fetch_utxos_in_block finds the block, and the task adds its own outputs to the
\* output manager's table, which skips those it has (scan_for_outputs).
Receive(t) ==
    LET me == task[t]
        own == OwnIn(me.cursor, me.chunk) \ SpentBy(me.tip)
    IN
    /\ At(t, "stream")
    /\ IF me.stopped THEN Scanned(t) /\ UNCHANGED outputs
       ELSE IF me.chunk = 1 /\ ~ OnChain(me.node, me.cursor) THEN Fails(t) /\ UNCHANGED outputs
       ELSE /\ task' = [task EXCEPT ![t].pc = "import", ![t].found = own \ outputs,
                                    ![t].scanned = @ \/ me.cursor \notin Blank]
            /\ outputs' = outputs \cup own
    /\ UNCHANGED <<nodeVars, rows, recorded, key, service, bounds>>

\* import_utxos_to_transaction_service.
Import(t) ==
    /\ At(t, "import")
    /\ recorded' = recorded \cup task[t].found
    /\ Goto(t, "save")
    /\ UNCHANGED <<nodeVars, rows, outputs, key, service, bounds>>

\* clear_scanned_blocks_before_height keeps the rows with outputs.
ClearBefore(rs, h) == {r \in rs : Height(r.block) >= h - CacheSize \/ r.own}

Changed(me) == me.prev \notin {NoBlock, me.cursor}

\* The row of a block is saved when the next block's first message is handled;
\* header_hash is the primary key.  Then the server goes on by height; without
\* such a header it sends an error.
SaveBlock(t) ==
    LET me == task[t]
        changed == Changed(me)
        own == me.found # {} \/ (me.prev = me.cursor /\ me.own)
        h == Height(me.cursor) + 1
        handled == [me EXCEPT !.found = {}, !.prev = me.cursor, !.own = own]
    IN
    /\ At(t, "save")
    /\ IF changed /\ \E r \in rows : r.block = me.prev
       THEN Fails(t) /\ UNCHANGED rows
       ELSE /\ rows' = IF changed THEN ClearBefore(rows \cup {[block |-> me.prev, own |-> me.own]}, h - 1) ELSE rows
            /\ task' = [task EXCEPT ![t] =
                IF me.chunk < Chunks(me.cursor) THEN [handled EXCEPT !.pc = "stream", !.chunk = @ + 1]
                ELSE IF h > Height(me.tip) THEN [handled EXCEPT !.pc = "finish"]
                ELSE [handled EXCEPT !.pc = "stream", !.chunk = 1,
                                     !.cursor = IF h <= height[me.node] THEN Block(chain[me.node], h) ELSE NoBlock]]
    /\ UNCHANGED <<nodeVars, outputs, recorded, key, service, bounds>>

\* The stream has ended: the last row.
FinishScan(t) ==
    LET me == task[t]
        kept == ClearBefore(rows, Height(me.prev))
    IN
    /\ At(t, "finish")
    /\ IF \E r \in kept : r.block = me.prev
       THEN rows' = kept /\ Fails(t)
       ELSE /\ rows' = kept \cup {[block |-> me.prev, own |-> me.own]}
            /\ Scanned(t)
    /\ UNCHANGED <<nodeVars, outputs, recorded, key, service, bounds>>

TaskStep(t) ==
    \/ Start(t) \/ NextPeer(t) \/ GetTip(t) \/ GetTipHeader(t) \/ GetLastScanned(t) \/ CheckRow(t)
    \/ GetNextHeader(t) \/ GetBirthdayHeader(t) \/ RequestStream(t)
    \/ Receive(t) \/ Import(t) \/ SaveBlock(t) \/ FinishScan(t)
-----------------------------------------------------------------------------
(***************************************************************************)
(* The service (service.rs), the wallet around it and the base nodes.         *)
(***************************************************************************)
Running(t) == task[t].pc \notin {"idle", "done"}
NewTask(seeds) == [NoTask EXCEPT !.pc = "start", !.seeds = seeds, !.index = 1, !.retries = 1]

StartService ==
    /\ ~ service.running /\ shutdowns = 0
    /\ \E t \in Rounds :
        /\ ~ Running(t)
        /\ task' = [task EXCEPT ![t] = NewTask(service.seeds)]
        /\ service' = [service EXCEPT !.running = TRUE, !.round = t, !.triggered = FALSE]
    /\ UNCHANGED <<nodeVars, dbVars, key, bounds>>

\* NewBlockDetected starts a round if the last one is over or was told to stop;
\* otherwise the event is dropped.
NewBlockDetected ==
    /\ service.running /\ service.event
    /\ IF service.triggered
       THEN \E t \in Rounds :
            /\ ~ Running(t)
            /\ task' = [task EXCEPT ![t] = NewTask(service.seeds)]
            /\ service' = [service EXCEPT !.round = t, !.triggered = FALSE, !.event = FALSE]
       ELSE service' = [service EXCEPT !.event = FALSE] /\ UNCHANGED task
    /\ UNCHANGED <<nodeVars, dbVars, key, bounds>>

\* The join handle of the current round.
RoundEnded ==
    /\ service.running /\ ~ service.triggered
    /\ task[service.round].pc = "done"
    /\ service' = [service EXCEPT !.triggered = TRUE]
    /\ UNCHANGED <<nodeVars, dbVars, key, task, bounds>>

\* The signal reaches the task of the current round only.
Stop(ts) == task' = [t \in Tasks |-> IF t \in ts /\ Running(t) THEN [task[t] EXCEPT !.stopped = TRUE] ELSE task[t]]

BaseNodeChanged ==
    /\ service.running /\ changes < MaxChanges /\ changes' = changes + 1
    /\ service' = [service EXCEPT !.seeds = <<Second>>, !.triggered = TRUE]
    /\ Stop({service.round})
    /\ UNCHANGED <<nodeVars, dbVars, key, faults, crashes, shutdowns>>

\* The wallet's shutdown signal: recovery listens to it itself.
Shutdown ==
    /\ service.running /\ shutdowns < MaxShutdowns /\ shutdowns' = shutdowns + 1
    /\ service' = [service EXCEPT !.running = FALSE, !.triggered = TRUE]
    /\ Stop({service.round, Recovery})
    /\ UNCHANGED <<nodeVars, dbVars, key, faults, crashes, changes>>

\* The user asks for recovery from the seed words.
StartRecovery ==
    /\ Recovers /\ task[Recovery].pc = "idle" /\ shutdowns = 0
    /\ task' = [task EXCEPT ![Recovery] = NewTask(<<First>>)]
    /\ UNCHANGED <<nodeVars, dbVars, key, service, bounds>>

\* The process ends and is started again; the databases stay.
Crash ==
    /\ crashes < MaxCrashes /\ crashes' = crashes + 1
    /\ task' = [t \in Tasks |-> NoTask]
    /\ service' = [service EXCEPT !.running = FALSE, !.round = Recovery, !.triggered = TRUE, !.event = TRUE]
    /\ UNCHANGED <<nodeVars, dbVars, key, faults, changes, shutdowns>>

InUse(n) == service.seeds = <<n>>
Streaming(n) == \E t \in Tasks : task[t].node = n /\ task[t].pc \in {"stream", "import", "save", "finish"}

ChainGrows(n) ==
    /\ height[n] < MaxHeight
    /\ height' = [height EXCEPT ![n] = @ + 1]
    /\ service' = [service EXCEPT !.event = @ \/ InUse(n)]
    /\ UNCHANGED <<chain, reorgs, dbVars, key, task, bounds>>

ChainReorgs(n) ==
    /\ reorgs < MaxReorgs /\ reorgs' = reorgs + 1
    /\ ReorgsInStream \/ ~ Streaming(n)
    /\ height[n] > Fork
    /\ chain' = [chain EXCEPT ![n] = IF @ = "a" THEN "b" ELSE "a"]
    /\ \E h \in (Fork + 1)..MaxHeight : height' = [height EXCEPT ![n] = h]
    /\ service' = [service EXCEPT !.event = @ \/ InUse(n)]
    /\ UNCHANGED <<dbVars, key, task, bounds>>

Next ==
    \/ \E t \in Tasks : TaskStep(t) \/ RpcFails(t) \/ StreamCut(t)
    \/ StartService \/ NewBlockDetected \/ RoundEnded \/ BaseNodeChanged \/ Shutdown \/ StartRecovery \/ Crash
    \/ \E n \in Nodes : ChainGrows(n) \/ ChainReorgs(n)

Spec == Init /\ [][Next]_vars

\* The runtime polls every task, and a task does not wait for the service.
FairSpec == Spec /\ \A t \in Tasks : WF_vars(TaskStep(t))

-----------------------------------------------------------------------------
\* Every own output on the chain up to b that is unspent there is known.
Covered(b) ==
    \A m \in Mine : m.block \in Ancestors(b) /\ m.output \notin SpentBy(b) => m.output \in outputs

\* A row of scanned_blocks stands for its whole chain: get_last_scanned_block
\* takes the first row it finds on the base node's chain and never looks below
\* it, so an own output in any block up to a saved row must be known, whatever
\* rounds overlapped, failed or were stopped and whatever rows were cleared.
RowsCovered == \A r \in rows : Covered(r.block)

\* The recovery key leaves the wallet's database only with a recovery that has
\* scanned the chain of the block it reports: until then other scanning rounds,
\* transaction validation and the user are told that recovery is outstanding.
RecoveryKeyKept ==
    task[Recovery].pc = "done" /\ ~ key =>
        task[Recovery].next # NoBlock /\ Covered(task[Recovery].next)

\* A round that reports Completed has found every own output that is unspent on
\* the chain of the block it reports.
CompletedFoundAll ==
    \A t \in Tasks : task[t].pc = "done" /\ ~ task[t].stopped /\ task[t].next # NoBlock => Covered(task[t].next)

\* An output that scanning put into the output manager's table has a transaction
\* that records it, or a running task is about to write one.
OutputsRecorded ==
    outputs \subseteq recorded \cup UNION {task[t].found : t \in {x \in Tasks : task[x].pc = "import"}}

=============================================================================
