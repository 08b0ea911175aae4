---------------------------- MODULE MempoolSync ----------------------------
(***************************************************************************)
(* The mempool sync protocol of the base node (mempool/sync_protocol): an   *)
(* initiator sends an inventory of its pool, the responder streams what is  *)
(* not in it, asks for what it misses by index, and receives that.  Every   *)
(* node runs one session as initiator at a time, and stops after            *)
(* initial_sync_num_peers of them until a large reorganisation or a block    *)
(* sync starts over.                                                        *)
(*                                                                         *)
(* A session is a pair <<initiator, responder>>; up and down are its two     *)
(* directions.  The next session of a pair begins when the responder is done *)
(* with the last one.                                                       *)
(***************************************************************************)
EXTENDS Integers, Sequences, FiniteSets, FiniteSetsExt, SequencesExt

CONSTANTS
    Nodes,
    Initiators, \* nodes that start sessions
    Txs,
    Held,       \* Held[n]: the transactions n's pool starts with
    Refused,    \* Refused[n]: transactions n's mempool does not store
    NumPeers,   \* initial_sync_num_peers
    MaxTxs,     \* initial_sync_max_transactions
    MaxQueued,  \* bound on tasks waiting for the permit, per session
    MaxEvents,  \* bound on block events, per node
    MaxBreaks   \* bound on broken connections

Sessions == {s \in Initiators \X Nodes : s[1] # s[2]}

VARIABLES
    pool,    \* pool[n]: n's mempool
    mined,   \* mined[n]: what a block removed from n's mempool
    num,     \* num[n]: num_synched
    queue,   \* queue[s]: tasks that wait for the permit
    session, \* session[s]
    events,  \* events[n]: block events that started n over
    fresh,   \* fresh[n]: sessions completed of those begun since the last one
    breaks

vars == <<pool, mined, num, queue, session, events, fresh, breaks>>

\* inventory: the initiator's snapshot; theirs: the responder's; missing: what the
\* responder asked for; round: block events before the session.
Idle == [init |-> "idle", resp |-> "idle", up |-> <<>>, down |-> <<>>, inventory |-> <<>>,
         theirs |-> {}, missing |-> {}, round |-> 0]

TypeOK ==
    /\ pool \in [Nodes -> SUBSET Txs] /\ mined \in [Nodes -> SUBSET Txs]
    /\ \A n \in Nodes : num[n] \in Nat /\ fresh[n] \in Nat /\ events[n] \in 0..MaxEvents
    /\ queue \in [Sessions -> 0..MaxQueued]
    /\ \A s \in Sessions :
        /\ session[s].init \in {"idle", "transactions", "indexes"}
        /\ session[s].resp \in {"idle", "inventory", "transactions"}
        /\ session[s].missing \subseteq Range(session[s].inventory)
    /\ \A n \in Nodes : Cardinality({s \in Sessions : s[1] = n /\ session[s].init # "idle"}) <= 1
    /\ breaks \in 0..MaxBreaks

Init ==
    /\ pool = Held
    /\ mined = [n \in Nodes |-> {}]
    /\ num = [n \in Nodes |-> 0] /\ events = [n \in Nodes |-> 0] /\ fresh = [n \in Nodes |-> 0]
    /\ queue = [s \in Sessions |-> 0]
    /\ session = [s \in Sessions |-> Idle]
    /\ breaks = 0

IsSynched(n) == num[n] >= NumPeers

\* The permit of n's semaphore is free.
PermitFree(n) == \A s \in Sessions : s[1] = n => session[s].init = "idle"

\* The order of a snapshot is that of a hash map.
Snapshots(S) == SetToSeqs(S)
Take(q) == SubSeq(q, 1, Min({Len(q), MaxTxs}))

\* Mutant: the last transaction is cut off.
StreamCutShort(q) == [i \in 1..(Len(Take(q)) - 1) |-> [kind |-> "tx", items |-> <<q[i]>>]]
                     \o <<[kind |-> "end", items |-> <<>>]>>

\* write_transactions: at most MaxTxs, then the empty item.
Stream(q) == [i \in 1..Len(Take(q)) |-> [kind |-> "tx", items |-> <<q[i]>>]]
             \o <<[kind |-> "end", items |-> <<>>]>>

\* validate_and_insert_transaction.
Insert(n, t) == pool' = IF t \in Refused[n] THEN pool ELSE [pool EXCEPT ![n] = @ \cup {t}]

-----------------------------------------------------------------------------
\* handle_connectivity_event, for an outbound connection to a base node.
PeerConnected(s) ==
    /\ ~ IsSynched(s[1]) /\ queue[s] < MaxQueued
    /\ queue' = [queue EXCEPT ![s] = @ + 1]
    /\ UNCHANGED <<pool, mined, num, session, events, fresh, breaks>>

\* handle_block_event, past block_sync_trigger; no connection may be found.
BlockEvent(n) ==
    /\ events[n] < MaxEvents
    /\ events' = [events EXCEPT ![n] = @ + 1]
    /\ num' = [num EXCEPT ![n] = 0]
    /\ fresh' = [fresh EXCEPT ![n] = 0]
    /\ \E S \in SUBSET {s \in Sessions : s[1] = n /\ queue[s] < MaxQueued} :
        /\ Cardinality(S) <= NumPeers
        /\ queue' = [s \in Sessions |-> IF s \in S THEN queue[s] + 1 ELSE queue[s]]
    /\ UNCHANGED <<pool, mined, session, breaks>>

\* A block takes a transaction out of the pool.
RemoveMined(n, t) ==
    /\ t \in pool[n] /\ mined[n] = {}
    /\ pool' = [pool EXCEPT ![n] = @ \ {t}]
    /\ mined' = [mined EXCEPT ![n] = @ \cup {t}]
    /\ UNCHANGED <<num, queue, session, events, fresh, breaks>>

\* spawn_initiator_protocol: the task gets the permit and finds enough done, or
\* cannot open a substream.
SkipSession(s) ==
    /\ queue[s] > 0 /\ PermitFree(s[1])
    /\ IsSynched(s[1])
    /\ queue' = [queue EXCEPT ![s] = @ - 1]
    /\ UNCHANGED <<pool, mined, num, session, events, fresh, breaks>>

OpenFails(s) ==
    /\ queue[s] > 0 /\ PermitFree(s[1]) /\ ~ IsSynched(s[1])
    /\ breaks < MaxBreaks /\ breaks' = breaks + 1
    /\ queue' = [queue EXCEPT ![s] = @ - 1]
    /\ UNCHANGED <<pool, mined, num, session, events, fresh>>

\* start_initiator_inner up to the first read.
SendInventory(s) ==
    /\ queue[s] > 0 /\ PermitFree(s[1]) /\ ~ IsSynched(s[1]) /\ session[s] = Idle
    /\ queue' = [queue EXCEPT ![s] = @ - 1]
    /\ \E q \in Snapshots(pool[s[1]]) :
        session' = [session EXCEPT ![s] =
            [Idle EXCEPT !.init = "transactions", !.resp = "inventory", !.inventory = q, !.round = events[s[1]],
                         !.up = <<[kind |-> "inventory", items |-> Take(q)]>>]]
    /\ UNCHANGED <<pool, mined, num, events, fresh, breaks>>

\* Mutant: a responder that misses nothing sends no index list.
RespondWithoutEmpty(s) ==
    /\ session[s].resp = "inventory" /\ session[s].up # <<>>
    /\ LET items == Head(session[s].up).items
           mine == pool[s[2]]
           missing == {i \in 1..Len(items) : items[i] \notin mine}
       IN  \E q \in Snapshots(mine \ Range(items)) :
            session' = [session EXCEPT
                ![s].down = Stream(q) \o (IF missing = {} THEN <<>>
                                          ELSE <<[kind |-> "indexes", items |-> SetToSortSeq(missing, <)]>>),
                ![s].up = <<>>,
                ![s].theirs = mine,
                ![s].missing = {items[i] : i \in missing},
                ![s].resp = IF missing = {} THEN "idle" ELSE "transactions"]
    /\ UNCHANGED <<pool, mined, num, queue, events, fresh, breaks>>

\* start_responder_inner up to its second read: what the inventory lacks, then
\* the positions of what this node lacks.
Respond(s) ==
    /\ session[s].resp = "inventory" /\ session[s].up # <<>>
    /\ LET items == Head(session[s].up).items
           mine == pool[s[2]]
           missing == {i \in 1..Len(items) : items[i] \notin mine}
       IN  \E q \in Snapshots(mine \ Range(items)) :
            session' = [session EXCEPT
                ![s].down = Stream(q) \o <<[kind |-> "indexes", items |-> SetToSortSeq(missing, <)]>>,
                ![s].up = <<>>,
                ![s].theirs = mine,
                ![s].missing = {items[i] : i \in missing},
                ![s].resp = IF missing = {} THEN "idle" ELSE "transactions"]
    /\ UNCHANGED <<pool, mined, num, queue, events, fresh, breaks>>

\* read_and_insert_transactions_until_complete, one message, on either side.
InitiatorReceives(s) ==
    /\ session[s].init = "transactions" /\ session[s].down # <<>>
    /\ LET m == Head(session[s].down) IN
        /\ IF m.kind = "tx" THEN Insert(s[1], m.items[1]) ELSE pool' = pool
        /\ session' = [session EXCEPT ![s].down = Tail(@),
                                      ![s].init = IF m.kind = "end" THEN "indexes" ELSE @]
    /\ UNCHANGED <<mined, num, queue, events, fresh, breaks>>

ResponderReceives(s) ==
    /\ session[s].resp = "transactions" /\ session[s].up # <<>>
    /\ LET m == Head(session[s].up) IN
        /\ IF m.kind = "tx" THEN Insert(s[2], m.items[1]) ELSE pool' = pool
        /\ session' = [session EXCEPT ![s] =
                        IF m.kind # "end" THEN [@ EXCEPT !.up = Tail(@)]
                        ELSE IF @.init = "idle" THEN Idle ELSE [@ EXCEPT !.resp = "idle", !.up = <<>>]]
    /\ UNCHANGED <<mined, num, queue, events, fresh, breaks>>

\* The initiator sends what was asked for out of its snapshot and is done.
SendMissing(s) ==
    /\ session[s].init = "indexes" /\ session[s].down # <<>>
    /\ LET wanted == Head(session[s].down).items
           q == [i \in 1..Len(wanted) |-> session[s].inventory[wanted[i]]]
       IN  session' = [session EXCEPT ![s] =
                IF wanted = <<>> THEN Idle
                ELSE [@ EXCEPT !.init = "idle", !.down = <<>>, !.up = Stream(q)]]
    /\ num' = [num EXCEPT ![s[1]] = @ + 1]
    /\ fresh' = [fresh EXCEPT ![s[1]] = IF session[s].round = events[s[1]] THEN @ + 1 ELSE @]
    /\ UNCHANGED <<pool, mined, queue, events, breaks>>

\* The substream ends: a reset, a peer that goes away, or the timeout of
\* read_message.  Neither side counts the session.
Break(s) ==
    /\ session[s] # Idle
    /\ breaks < MaxBreaks /\ breaks' = breaks + 1
    /\ session' = [session EXCEPT ![s] = Idle]
    /\ UNCHANGED <<pool, mined, num, queue, events, fresh>>

Step(s) ==
    \/ SkipSession(s) \/ SendInventory(s) \/ Respond(s) \/ InitiatorReceives(s) \/ ResponderReceives(s)
    \/ SendMissing(s)

Next ==
    \/ \E s \in Sessions : PeerConnected(s) \/ Step(s) \/ OpenFails(s) \/ Break(s)
    \/ \E n \in Initiators : BlockEvent(n)
    \/ \E n \in Nodes, t \in Txs : RemoveMined(n, t)

Spec == Init /\ [][Next]_vars

\* Tasks are scheduled, and a peer answers or its connection ends; the semaphore
\* serves its waiters in order.
FairSpec == Spec /\ \A s \in Sessions : WF_vars(Respond(s) \/ InitiatorReceives(s) \/ ResponderReceives(s) \/ SendMissing(s))
                                        /\ SF_vars(SkipSession(s) \/ SendInventory(s))

-----------------------------------------------------------------------------
\* When the initiator has read the stream it lacks, of what the responder held,
\* only what was over the limit on a stream, refused or mined meanwhile.
InitiatorCaughtUp ==
    \A s \in Sessions : session[s].init = "indexes" =>
        LET sent == session[s].theirs \ Range(Take(session[s].inventory))
        IN  Cardinality(session[s].theirs \ (pool[s[1]] \cup mined[s[1]] \cup Refused[s[1]]))
                <= Max({0, Cardinality(sent) - MaxTxs})

\* The responder is sent exactly what it asked for, in positions of a list that
\* the initiator has kept, although the initiator's pool has changed.
SentAsRequested ==
    \A s \in Sessions : session[s].resp = "transactions" /\ session[s].init = "idle" =>
        \A i \in DOMAIN session[s].up :
            session[s].up[i].kind = "tx" => session[s].up[i].items[1] \in session[s].missing

\* A node that counts itself synced has completed initial_sync_num_peers sessions
\* since it last started over.
AtLeastNumPeers == \A n \in Nodes : IsSynched(n) => fresh[n] >= NumPeers

\* A task that waits for the permit gets it: every session before it ends,
\* whatever its peer is doing with its own.
QueueServed == \A s \in Sessions : queue[s] > 0 ~> queue[s] = 0 \/ IsSynched(s[1])
=============================================================================
