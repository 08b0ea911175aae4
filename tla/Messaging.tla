----------------------------- MODULE Messaging -----------------------------
(***************************************************************************)
(* The messaging protocol (comms/core: protocol/messaging, pipeline) between *)
(* one node and one peer of it.  The node's actor passes messages to an       *)
(* outbound handler, which is spawned when there is none, dials the peer,     *)
(* opens a substream and forwards its queue; what is left in the queue after   *)
(* a disconnect goes to the actor's retry queue.  The peer reads each          *)
(* substream into one channel and runs a task for every message.              *)
(***************************************************************************)
EXTENDS Integers, Sequences, FiniteSets, Functions

CONSTANTS
    Messages,
    Handlers,        \* names for outbound handlers that exist at one time: 1..n
    MaxSendRetries,
    EventCap,        \* INTERNAL_MESSAGING_EVENT_CHANNEL_SIZE
    Window,          \* messages in flight on a substream
    InboxSize,       \* INBOUND_MESSAGE_BUFFER_SIZE
    MaxTasks,        \* max_concurrent_inbound_tasks
    MaxDisconnects, MaxDialFailures, MaxRemoteCloses,
    SendRaces,       \* whether a queue may be closed between is_closed and send
    MayShutDown

NoHandler == 0

HandlersAssumption == Handlers = 1..Cardinality(Handlers)
BoundsAssumption == MaxSendRetries \in Nat /\ EventCap \in Nat /\ Window \in Nat

VARIABLES
    reply,           \* per message: what its sender was told
    outbound, retry, \* the actor's queues
    events,          \* OutboundProtocolExited events not handled yet
    active,          \* active_queues: the handler that has the peer's queue
    passing,         \* send_message between is_closed and send: <<message>> or <<>>
    running,         \* the actor
    handler,
    lost,            \* messages a handler had taken when its sink failed
    conn,            \* the connection to the peer
    wire,            \* per substream: messages in flight
    inbox, tasks, delivered, \* the peer
    disconnects, dialFailures, remoteCloses

actorVars == <<outbound, retry, events, active, passing, running>>
peerVars == <<inbox, tasks, delivered>>
faults == <<disconnects, dialFailures, remoteCloses>>
vars == <<reply, actorVars, handler, lost, conn, wire, peerVars, faults>>

NoTask == [pc |-> "free", queue |-> <<>>, shut |-> FALSE, attempts |-> 0, buf |-> <<>>, link |-> "up"]

Pcs == {"free", "dial", "open", "forward", "closing", "drain", "exit"}
Task ==
    [pc : Pcs, queue : Seq(Messages), shut : BOOLEAN, attempts : 0..MaxSendRetries,
     buf : Seq(Messages), link : {"up", "closed", "down"}]

TypeOK ==
    /\ reply \in [Messages -> {"new", "none", "ok", "PeerDialFailed", "Dropped"}]
    /\ outbound \in Seq(Messages) /\ retry \in Seq(Messages) /\ passing \in Seq(Messages)
    /\ events \in 0..EventCap /\ active \in Handlers \cup {NoHandler} /\ running \in BOOLEAN
    /\ handler \in [Handlers -> Task] /\ wire \in [Handlers -> Seq(Messages)]
    /\ inbox \in Seq(Messages) /\ delivered \in Seq(Messages)
    /\ conn \in {"up", "down"} /\ tasks \subseteq Messages /\ lost \subseteq Messages

Init ==
    /\ reply = [m \in Messages |-> "new"]
    /\ outbound = <<>> /\ retry = <<>> /\ events = 0 /\ active = NoHandler /\ passing = <<>> /\ running = TRUE
    /\ handler = [h \in Handlers |-> NoTask] /\ lost = {}
    /\ conn = "down" /\ wire = [h \in Handlers |-> <<>>]
    /\ inbox = <<>> /\ tasks = {} /\ delivered = <<>>
    /\ disconnects = 0 /\ dialFailures = 0 /\ remoteCloses = 0

Tell(ms, answer) == [m \in Messages |-> IF m \in ms THEN answer ELSE reply[m]]
Set(h, s) == handler' = [handler EXCEPT ![h] = s]
At(h, pc) == handler[h].pc = pc

-----------------------------------------------------------------------------
(***************************************************************************)
(* The actor.                                                               *)
(***************************************************************************)
NewMessage(m) ==
    /\ reply[m] = "new" /\ running
    /\ reply' = [reply EXCEPT ![m] = "none"]
    /\ outbound' = Append(outbound, m)
    /\ UNCHANGED <<retry, events, active, passing, running, handler, lost, conn, wire, peerVars, faults>>

IsClosed(h) == At(h, "free") \/ handler[h].shut
Spare == {h \in Handlers : At(h, "free") /\ wire[h] = <<>>}

\* send_message up to the send: the queue of a handler that has closed it is
\* replaced by that of a new handler.
SendMessage(m) ==
    /\ passing' = <<m>>
    /\ IF active # NoHandler /\ ~ IsClosed(active) THEN UNCHANGED <<active, handler>>
       ELSE /\ active' \in {h \in Spare : \A i \in Spare : h <= i}
            /\ Set(active', [NoTask EXCEPT !.pc = "dial"])

HandleRetry ==
    /\ running /\ passing = <<>> /\ retry # <<>>
    /\ retry' = Tail(retry)
    /\ SendMessage(Head(retry))
    /\ UNCHANGED <<reply, outbound, events, running, lost, conn, wire, peerVars, faults>>

HandleOutbound ==
    /\ running /\ passing = <<>> /\ outbound # <<>>
    /\ outbound' = Tail(outbound)
    /\ SendMessage(Head(outbound))
    /\ UNCHANGED <<reply, retry, events, running, lost, conn, wire, peerVars, faults>>

\* The send fails, and drops the message, if the queue was closed meanwhile.
PassOn ==
    LET m == Head(passing) IN
    /\ passing # <<>> /\ passing' = <<>>
    /\ IF IsClosed(active) THEN reply' = Tell({m}, "Dropped") /\ UNCHANGED handler
       ELSE handler' = [handler EXCEPT ![active].queue = Append(@, m)] /\ UNCHANGED reply
    /\ UNCHANGED <<outbound, retry, events, active, running, lost, conn, wire, peerVars, faults>>

\* handle_internal_messaging_event: the event does not say which handler exited.
HandleExited ==
    /\ running /\ passing = <<>> /\ events > 0
    /\ events' = events - 1 /\ active' = NoHandler
    /\ UNCHANGED <<reply, outbound, retry, passing, running, handler, lost, conn, wire, peerVars, faults>>

\* The actor ends; its channels go and with them the messages in them.
ShutDown ==
    /\ MayShutDown /\ running /\ passing = <<>>
    /\ running' = FALSE /\ active' = NoHandler /\ events' = 0
    /\ outbound' = <<>> /\ retry' = <<>>
    /\ reply' = Tell(Range(outbound) \cup Range(retry), "Dropped")
    /\ UNCHANGED <<passing, handler, lost, conn, wire, peerVars, faults>>

-----------------------------------------------------------------------------
(***************************************************************************)
(* An outbound handler.                                                      *)
(***************************************************************************)
\* A queue is not closed while the actor is between is_closed and send.
MayEnd(h) == SendRaces \/ passing = <<>> \/ active # h

MayRetry(h) == handler[h].attempts < MaxSendRetries

\* run_inner: try_establish failed.
EstablishFails(h) ==
    IF MayRetry(h)
    THEN Set(h, [handler[h] EXCEPT !.attempts = @ + 1, !.pc = "dial"]) /\ UNCHANGED reply
    ELSE /\ MayEnd(h)
         /\ reply' = Tell(Range(handler[h].queue), "PeerDialFailed")
         /\ Set(h, [handler[h] EXCEPT !.queue = <<>>, !.shut = TRUE, !.pc = "exit"])

\* dial_peer returns the connection there is, or makes one.
Dial(h) ==
    /\ At(h, "dial")
    /\ conn' = "up"
    /\ Set(h, [handler[h] EXCEPT !.pc = "open"])
    /\ UNCHANGED <<reply, actorVars, lost, wire, peerVars, faults>>

DialFails(h) ==
    /\ At(h, "dial") /\ conn = "down"
    /\ dialFailures < MaxDialFailures /\ dialFailures' = dialFailures + 1
    /\ EstablishFails(h)
    /\ UNCHANGED <<actorVars, lost, conn, wire, peerVars, disconnects, remoteCloses>>

OpenSubstream(h) ==
    /\ At(h, "open")
    /\ IF conn = "up" THEN Set(h, [handler[h] EXCEPT !.pc = "forward"]) /\ UNCHANGED reply
       ELSE EstablishFails(h)
    /\ UNCHANGED <<actorVars, lost, conn, wire, peerVars, faults>>

\* Forward takes a message from the queue, and success is replied.
Pull(h) ==
    LET me == handler[h] IN
    /\ At(h, "forward") /\ me.queue # <<>>
    /\ reply' = Tell({Head(me.queue)}, "ok")
    /\ Set(h, [me EXCEPT !.queue = Tail(@), !.buf = Append(@, Head(me.queue))])
    /\ UNCHANGED <<actorVars, lost, conn, wire, peerVars, faults>>

\* Forward writes what it has taken.
Flush(h) ==
    LET me == handler[h] IN
    /\ me.pc \in {"forward", "closing"} /\ me.buf # <<>> /\ me.link = "up" /\ Len(wire[h]) < Window
    /\ wire' = [wire EXCEPT ![h] = Append(@, Head(me.buf))]
    /\ Set(h, [me EXCEPT !.buf = Tail(@)])
    /\ UNCHANGED <<reply, actorVars, lost, conn, peerVars, faults>>

\* take_until sees the disconnect; or the queue has no sender any more.
HasEnded(h) == handler[h].link # "up" \/ (active # h /\ handler[h].queue = <<>>)

StreamEnds(h) ==
    /\ At(h, "forward") /\ HasEnded(h)
    /\ Set(h, [handler[h] EXCEPT !.pc = "closing"])
    /\ UNCHANGED <<reply, actorVars, lost, conn, wire, peerVars, faults>>

\* Mutant: the queue stays open.
StreamClosesOnly(h) ==
    /\ At(h, "closing") /\ handler[h].buf = <<>> /\ MayEnd(h)
    /\ Set(h, [handler[h] EXCEPT !.pc = "drain"])
    /\ UNCHANGED <<reply, actorVars, lost, conn, wire, peerVars, faults>>

\* poll_close has flushed; messages_rx.close().
StreamCloses(h) ==
    /\ At(h, "closing") /\ handler[h].buf = <<>> /\ MayEnd(h)
    /\ Set(h, [handler[h] EXCEPT !.pc = "drain", !.shut = TRUE])
    /\ UNCHANGED <<reply, actorVars, lost, conn, wire, peerVars, faults>>

\* Mutant: what was taken is sent again.
SinkFailsRetries(h) ==
    LET me == handler[h] IN
    /\ me.pc \in {"forward", "closing"} /\ me.link # "up" /\ me.buf # <<>> /\ MayEnd(h)
    /\ reply' = Tell(Range(me.queue), "Dropped")
    /\ retry' = retry \o me.buf
    /\ Set(h, [me EXCEPT !.pc = "exit", !.queue = <<>>, !.buf = <<>>, !.shut = TRUE])
    /\ UNCHANGED <<outbound, events, active, passing, running, lost, conn, wire, peerVars, faults>>

\* Forward returns an error: start_forwarding_messages returns it at once, and
\* the queue is dropped with the messages in it.
SinkFails(h) ==
    LET me == handler[h] IN
    /\ me.pc \in {"forward", "closing"} /\ me.link # "up" /\ me.buf # <<>> /\ MayEnd(h)
    /\ reply' = Tell(Range(me.queue), "Dropped")
    /\ lost' = lost \cup Range(me.buf)
    /\ Set(h, [me EXCEPT !.pc = "exit", !.queue = <<>>, !.buf = <<>>, !.shut = TRUE])
    /\ UNCHANGED <<actorVars, conn, wire, peerVars, faults>>

\* What is left in the queue goes to the retry queue, while there is one.
Requeue(h) ==
    LET me == handler[h] IN
    /\ At(h, "drain") /\ me.queue # <<>>
    /\ IF running
       THEN /\ retry' = Append(retry, Head(me.queue)) /\ UNCHANGED reply
            /\ Set(h, [me EXCEPT !.queue = Tail(@)])
       ELSE /\ reply' = Tell(Range(me.queue), "Dropped") /\ UNCHANGED retry
            /\ Set(h, [me EXCEPT !.queue = <<>>, !.pc = "exit"])
    /\ UNCHANGED <<outbound, events, active, passing, running, lost, conn, wire, peerVars, faults>>

Drained(h) ==
    /\ At(h, "drain") /\ handler[h].queue = <<>> /\ (handler[h].shut \/ active # h)
    /\ Set(h, [handler[h] EXCEPT !.pc = "exit", !.shut = TRUE])
    /\ UNCHANGED <<reply, actorVars, lost, conn, wire, peerVars, faults>>

\* The event waits for room in the channel; without the actor there is none.
Exit(h) ==
    /\ At(h, "exit") /\ (~ running \/ events < EventCap)
    /\ events' = IF running THEN events + 1 ELSE events
    /\ Set(h, NoTask)
    /\ UNCHANGED <<reply, outbound, retry, active, passing, running, lost, conn, wire, peerVars, faults>>

-----------------------------------------------------------------------------
(***************************************************************************)
(* The peer, and the connection.                                             *)
(***************************************************************************)
InboundReceive(h) ==
    /\ wire[h] # <<>> /\ Len(inbox) < InboxSize
    /\ inbox' = Append(inbox, Head(wire[h])) /\ wire' = [wire EXCEPT ![h] = Tail(@)]
    /\ UNCHANGED <<reply, actorVars, handler, lost, conn, tasks, delivered, faults>>

\* The pipeline spawns a task for the message when the executor has room.
InboundRun ==
    /\ inbox # <<>> /\ Cardinality(tasks) < MaxTasks
    /\ inbox' = Tail(inbox) /\ tasks' = tasks \cup {Head(inbox)} /\ delivered' = Append(delivered, Head(inbox))
    /\ UNCHANGED <<reply, actorVars, handler, lost, conn, wire, faults>>

\* The service returns, or its time is over.
TaskEnds(m) ==
    /\ m \in tasks /\ tasks' = tasks \ {m}
    /\ UNCHANGED <<reply, actorVars, handler, lost, conn, wire, inbox, delivered, faults>>

\* An inbound handler breaks off: its channel is closed or a frame was invalid.
RemoteCloses(h) ==
    /\ handler[h].pc = "forward" /\ handler[h].link = "up"
    /\ remoteCloses < MaxRemoteCloses /\ remoteCloses' = remoteCloses + 1
    /\ Set(h, [handler[h] EXCEPT !.link = "closed"])
    /\ wire' = [wire EXCEPT ![h] = <<>>]
    /\ UNCHANGED <<reply, actorVars, lost, conn, peerVars, disconnects, dialFailures>>

\* The connection goes down; of what is in flight some has arrived.
Disconnect ==
    /\ conn = "up" /\ disconnects < MaxDisconnects /\ disconnects' = disconnects + 1
    /\ conn' = "down"
    /\ handler' = [h \in Handlers |-> IF handler[h].pc \in {"forward", "closing"}
                                      THEN [handler[h] EXCEPT !.link = "down"] ELSE handler[h]]
    /\ \E n \in [Handlers -> 0..Window] :
        /\ \A h \in Handlers : n[h] <= Len(wire[h])
        /\ wire' = [h \in Handlers |-> SubSeq(wire[h], 1, n[h])]
    /\ UNCHANGED <<reply, actorVars, lost, peerVars, dialFailures, remoteCloses>>

HandlerStep(h) ==
    \/ Dial(h) \/ OpenSubstream(h) \/ Pull(h) \/ Flush(h) \/ StreamEnds(h) \/ StreamCloses(h)
    \/ SinkFails(h) \/ Requeue(h) \/ Drained(h) \/ Exit(h)

Next ==
    \/ \E m \in Messages : NewMessage(m) \/ TaskEnds(m)
    \/ HandleRetry \/ HandleOutbound \/ PassOn \/ HandleExited \/ ShutDown
    \/ \E h \in Handlers : HandlerStep(h) \/ DialFails(h) \/ InboundReceive(h) \/ RemoteCloses(h)
    \/ InboundRun \/ Disconnect

Spec == Init /\ [][Next]_vars

\* Every task of the runtime goes on, select takes each branch in its turn, and
\* a task of the peer's pipeline ends (it is timed).  Faults need not happen.
Fairness ==
    /\ WF_vars(HandleRetry) /\ WF_vars(HandleOutbound) /\ WF_vars(PassOn) /\ WF_vars(HandleExited)
    /\ \A h \in Handlers : WF_vars(HandlerStep(h)) /\ WF_vars(InboundReceive(h))
    /\ WF_vars(InboundRun) /\ \A m \in Messages : WF_vars(TaskEnds(m))

FairSpec == Spec /\ Fairness
-----------------------------------------------------------------------------
Queues == {outbound, retry, passing} \cup {handler[h].queue : h \in Handlers}
Waiting(m) == \E q \in Queues : m \in Range(q)
Sent(m) == m \in Range(inbox) \cup Range(delivered) \cup UNION {Range(wire[h]) \cup Range(handler[h].buf) : h \in Handlers}

\* A message is not lost without an answer and not sent after one: its sender has
\* no answer exactly while it waits in one of the queues, and a message that was
\* failed or dropped is not on its way (send_message, Pull, the retry queue and
\* the two ways a handler ends).
AnswerTells ==
    \A m \in Messages :
        /\ reply[m] = "none" <=> Waiting(m)
        /\ reply[m] \in {"PeerDialFailed", "Dropped"} => ~ Sent(m)

\* No message is delivered twice, although the actor sends what is left of a
\* handler's queue again.
DeliveredOnce == IsInjective(delivered)

\* Every message is answered, whatever disconnects (run_inner's attempts, the
\* retry queue).
EveryMessageAnswered == \A m \in Messages : reply[m] = "none" ~> reply[m] # "none"

\* While the actor runs, messages that are queued when the stream ends are sent
\* again (start_forwarding_messages: "Collect any messages and queue them up").
QueuedRetried == running => \A m \in Messages : reply[m] # "Dropped"

\* A message whose sender was told that it was sent was written to a substream.
AnsweredWasSent == lost = {}

\* There is one messaging substream to a peer.
OneSubstream == Cardinality({h \in Handlers : At(h, "forward") /\ handler[h].link = "up"}) <= 1
=============================================================================
