----------------------------- MODULE RpcSession -----------------------------
(***************************************************************************)
(* One RPC session of the comms layer: the client's worker and the server's  *)
(* session at the two ends of a substream.  Callers hand requests to the     *)
(* worker, which serves them one at a time; a caller may drop its receiver   *)
(* at any time.  Frames arrive in order, after any delay, and at most Window *)
(* of them wait for the client.                                              *)
(*                                                                         *)
(* A frame carries its request's id, flag and MORE bit, which the code reads, *)
(* and what its payload is: chunk c of item n of request req.                *)
(***************************************************************************)
EXTENDS Integers, Sequences, FiniteSets

CONSTANTS
    Requests,       \* 1..N, in the order in which they are made
    Streams,        \* requests with a stream of responses
    Pings,          \* the others have one response
    Items,          \* items of a stream
    Chunks,         \* frames of an item
    IdSpace,        \* number of request ids, 2^16 in the code
    MaxIgnored,     \* MAX_ALLOWED_IGNORED
    Window,
    MayDrop,        \* requests whose caller may drop the receiver of responses
    MayCancel,      \* requests that may be dropped before the worker takes them
    MayFail,        \* requests the service may refuse or fail
    MayTimeOut,     \* requests for which the client may give up waiting
    MayAbandon,     \* requests for which the server may exceed the deadline
    MayClose,       \* whether the client closes the session
    MayLose         \* whether the connection may be lost

SessionAssumption ==
    /\ Streams \cap Pings = {} /\ Streams \cup Pings \subseteq Requests
    /\ Items \in Nat \ {0} /\ Chunks \in Nat \ {0} /\ Window \in Nat \ {0} /\ IdSpace > 2

NoRequest == 0

VARIABLES
    caller,   \* per request: state, items received, how it ended
    queue,    \* request_rx
    worker,   \* RpcClientWorker
    c2s, s2c, \* frames on the way
    server,   \* ActivePeerRpcService
    up        \* the connection is there

vars == <<caller, queue, worker, c2s, s2c, server, up>>

Flags == {"req", "none", "fin", "err", "ack"}
Frame(id, r, n, c, flag, more) == [id |-> id, req |-> r, item |-> n, chunk |-> c, flag |-> flag, more |-> more]
Frames == [id : 0..(IdSpace - 1), req : Requests, item : 0..Items, chunk : 0..Chunks, flag : Flags, more : BOOLEAN]
Part == [req : Requests, item : 0..Items, chunk : 0..Chunks]
PartOf(f) == [req |-> f.req, item |-> f.item, chunk |-> f.chunk]

TypeOK ==
    /\ \A r \in Requests :
        /\ caller[r].st \in {"new", "queued", "open", "dropped", "over"}
        /\ caller[r].end \in {"none", "fin", "err", "cut"}
        /\ \A i \in DOMAIN caller[r].got : caller[r].got[i] \in Seq(Part)
    /\ queue \in Seq(Requests)
    /\ worker.pc \in {"idle", "sent", "reading", "down"}
    /\ worker.next \in 0..(IdSpace - 1) /\ worker.id \in 0..(IdSpace - 1)
    /\ worker.ignored \in 0..MaxIgnored /\ worker.parts \in Seq(Part)
    /\ server.pc \in {"idle", "call", "body", "sending", "closed"}
    /\ c2s \in Seq(Frames) /\ s2c \in Seq(Frames) /\ Len(s2c) <= Window

Init ==
    /\ caller = [r \in Requests |-> [st |-> "new", got |-> <<>>, end |-> "none"]]
    /\ queue = <<>> /\ c2s = <<>> /\ s2c = <<>> /\ up = TRUE
    /\ worker = [pc |-> "idle", req |-> NoRequest, id |-> 0, next |-> 0, ignored |-> 0, parts |-> <<>>,
                 flag |-> "none", closing |-> FALSE, why |-> "none",
                 latest |-> NoRequest, before |-> NoRequest, stale |-> NoRequest]
    /\ server = [pc |-> "idle", req |-> NoRequest, id |-> 0, sent |-> 0, out |-> <<>>, then |-> "idle",
                 why |-> "none"]

-----------------------------------------------------------------------------
(***************************************************************************)
(* Callers.                                                                 *)
(***************************************************************************)
Over(c, end) == [c EXCEPT !.st = "over", !.end = end]

\* The receiver closes with no answer left in it: request_response and ping
\* make it an error, for ClientStreaming the stream has ended.
Cut(c, r) == Over(c, IF r \in Streams THEN "cut" ELSE "err")

\* Nobody is told anything whose receiver is gone.
Tell(c, d) == IF c.st = "open" THEN d ELSE c

\* Calls are made in the order of their numbers.
Call(r) ==
    /\ caller[r].st = "new" /\ \A q \in Requests : q < r => caller[q].st # "new"
    /\ IF worker.pc = "down"
       THEN caller' = [caller EXCEPT ![r] = Over(@, "err")] /\ UNCHANGED queue
       ELSE caller' = [caller EXCEPT ![r].st = "queued"] /\ queue' = Append(queue, r)
    /\ UNCHANGED <<worker, c2s, s2c, server, up>>

Drop(r) ==
    /\ \/ r \in MayDrop /\ caller[r].st = "open"
       \/ r \in MayCancel /\ caller[r].st = "queued"
    /\ caller' = [caller EXCEPT ![r].st = "dropped"]
    /\ UNCHANGED <<queue, worker, c2s, s2c, server, up>>

Close ==
    /\ MayClose /\ ~ worker.closing /\ worker.pc # "down"
    /\ worker' = [worker EXCEPT !.closing = TRUE]
    /\ UNCHANGED <<caller, queue, c2s, s2c, server, up>>

-----------------------------------------------------------------------------
(***************************************************************************)
(* The client's worker.                                                     *)
(***************************************************************************)
Rest(w) == [w EXCEPT !.pc = "idle", !.req = NoRequest, !.id = 0, !.ignored = 0, !.parts = <<>>, !.flag = "none"]

\* run ends: the substream is closed, every channel of a caller too.
GoDown(why, stale) ==
    /\ worker' = [Rest(worker) EXCEPT !.pc = "down", !.why = why, !.stale = stale]
    /\ caller' = [r \in Requests |->
        IF caller[r].st = "open" THEN Cut(caller[r], r)
        ELSE IF caller[r].st = "queued" THEN Over(caller[r], "err")
        ELSE caller[r]]
    /\ queue' = <<>>

\* The server's end is closed and nothing of it is left to read.
EndOfStream == s2c = <<>> /\ (~ up \/ server.pc = "closed")

\* A write may fail once the other end is gone.
MayFailToSend == ~ up \/ server.pc = "closed"
Transmit(q, f) == IF up THEN Append(q, f) ELSE q

\* next_request_id: the id taken, and the next one.
TakenId(n) == IF n = 0 THEN 1 ELSE n
IdAfter(n) == (TakenId(n) + 1) % IdSpace

WorkerCloses ==
    /\ worker.pc = "idle" /\ worker.closing
    /\ GoDown("closed", NoRequest)
    /\ UNCHANGED <<c2s, s2c, server, up>>

\* do_request_response up to its loop, and do_ping_pong up to its read.  A
\* request whose caller is gone is not sent.
TakeRequest ==
    LET r == Head(queue)
        id == TakenId(worker.next)
        Sent(pc, i, flag) ==
            /\ worker' = [worker EXCEPT !.pc = pc, !.req = r, !.id = i,
                                        !.next = IF r \in Pings THEN @ ELSE IdAfter(@),
                                        !.latest = r, !.before = worker.latest]
            /\ caller' = [caller EXCEPT ![r].st = IF @ = "queued" THEN "open" ELSE @]
            /\ c2s' = Transmit(c2s, Frame(i, r, 0, 0, flag, FALSE))
    IN
    /\ worker.pc = "idle" /\ ~ worker.closing /\ queue # <<>>
    /\ queue' = Tail(queue)
    /\ IF r \in Pings THEN Sent("reading", 0, "ack")
       ELSE IF caller[r].st = "dropped"
       THEN worker' = [worker EXCEPT !.next = IdAfter(@)] /\ UNCHANGED <<caller, c2s>>
       ELSE Sent("sent", id, "req")
    /\ UNCHANGED <<s2c, server, up>>

\* The write fails: the caller is told and the worker goes on; a ping that
\* cannot be sent ends it.
SendFails ==
    LET r == Head(queue) IN
    /\ worker.pc = "idle" /\ ~ worker.closing /\ queue # <<>> /\ MayFailToSend
    /\ IF r \in Pings THEN GoDown("lost", NoRequest)
       ELSE /\ queue' = Tail(queue)
            /\ worker' = [worker EXCEPT !.next = IdAfter(@)]
            /\ caller' = [caller EXCEPT ![r] = IF @.st = "dropped" THEN @ ELSE Over(@, "err")]
    /\ UNCHANGED <<c2s, s2c, server, up>>

\* The shutdown signal is looked at when the loop starts, and after every
\* response.
EnterLoop ==
    LET r == worker.req IN
    /\ worker.pc = "sent"
    /\ IF worker.closing
       THEN worker' = Rest(worker) /\ caller' = [caller EXCEPT ![r] = Tell(@, Cut(@, r))]
       ELSE worker' = [worker EXCEPT !.pc = "reading"] /\ UNCHANGED caller
    /\ UNCHANGED <<queue, c2s, s2c, server, up>>

\* premature_close: FIN is sent for the current request, which is over.
PrematureClose ==
    \/ /\ worker' = Rest(worker)
       /\ c2s' = Transmit(c2s, Frame(worker.id, worker.req, 0, 0, "fin", FALSE))
       /\ UNCHANGED <<caller, queue>>
    \/ MayFailToSend /\ GoDown("lost", NoRequest) /\ UNCHANGED c2s

\* The receiver's end is seen while a response is awaited.
SeeDropped ==
    /\ worker.pc = "reading" /\ worker.req \notin Pings /\ caller[worker.req].st = "dropped"
    /\ PrematureClose
    /\ UNCHANGED <<s2c, server, up>>

\* ReplyTimeout: the request is given up; the server is told only when the
\* caller has gone as well.
ReadTimesOut ==
    LET r == worker.req IN
    /\ worker.pc = "reading" /\ r \in MayTimeOut
    /\ IF r \notin Pings /\ caller[r].st = "dropped" THEN PrematureClose
       ELSE /\ worker' = Rest(worker)
            /\ caller' = [caller EXCEPT ![r] = Tell(@, Over(@, "err"))]
            /\ UNCHANGED <<queue, c2s>>
    /\ UNCHANGED <<s2c, server, up>>

SeeEnd ==
    /\ worker.pc = "reading" /\ EndOfStream
    /\ GoDown("lost", NoRequest)
    /\ UNCHANGED <<c2s, s2c, server, up>>

\* A whole message: convert_to_result and the rest of the loop's body.
Deliver(parts, flag) ==
    LET r == worker.req
        c == caller[r]
        d == IF parts[1].item = 0 THEN c ELSE [c EXCEPT !.got = Append(@, parts)]
        Done(e) == worker' = Rest(worker) /\ caller' = [caller EXCEPT ![r] = e] /\ UNCHANGED <<queue, c2s>>
    IN
    IF flag = "err" THEN Done(Tell(c, Over(c, "err")))
    ELSE IF c.st = "dropped" THEN PrematureClose
    ELSE IF flag = "fin" THEN Done(Over(d, "fin"))
    ELSE IF worker.closing THEN Done(Cut(d, r))
    ELSE /\ worker' = [worker EXCEPT !.parts = <<>>, !.flag = "none", !.ignored = 0]
         /\ caller' = [caller EXCEPT ![r] = d]
         /\ UNCHANGED <<queue, c2s>>

\* Mutant: the response's id is not compared.
AnyIdMatches(f) == TRUE

\* check_response on the first frame of a message.
IdMatches(f) == f.id = worker.id

\* A late response to the previous request, as the ids tell.
IsPrevious(f) == (f.id + 1) % IdSpace = worker.id

MayIgnore == worker.ignored < MaxIgnored

\* read_response.  The frames of a message after its first are not checked.
ReadFrame ==
    LET f == Head(s2c)
        parts == Append(worker.parts, PartOf(f))
        flag == IF worker.parts = <<>> THEN f.flag ELSE worker.flag
    IN
    /\ worker.pc = "reading" /\ worker.req \notin Pings /\ s2c # <<>>
    /\ s2c' = Tail(s2c)
    /\ IF worker.parts = <<>> /\ f.flag = "ack" THEN GoDown("ack", f.req) /\ UNCHANGED c2s
       ELSE IF worker.parts = <<>> /\ ~ IdMatches(f)
       THEN IF IsPrevious(f) /\ MayIgnore
            THEN worker' = [worker EXCEPT !.ignored = @ + 1] /\ UNCHANGED <<caller, queue, c2s>>
            ELSE GoDown(IF IsPrevious(f) THEN "many" ELSE "id", f.req) /\ UNCHANGED c2s
       ELSE IF f.more
       THEN worker' = [worker EXCEPT !.parts = parts, !.flag = flag] /\ UNCHANGED <<caller, queue, c2s>>
       ELSE Deliver(parts, flag)
    /\ UNCHANGED <<server, up>>

\* do_ping_pong reads one frame, which must be the ACK.
ReadPong ==
    LET f == Head(s2c)
        r == worker.req
    IN
    /\ worker.pc = "reading" /\ r \in Pings /\ s2c # <<>>
    /\ s2c' = Tail(s2c)
    /\ IF f.flag = "ack"
       THEN /\ worker' = Rest(worker)
            /\ caller' = [caller EXCEPT ![r] = Tell(@, Over(@, "fin"))]
            /\ UNCHANGED queue
       ELSE GoDown("pong", f.req)
    /\ UNCHANGED <<c2s, server, up>>

-----------------------------------------------------------------------------
(***************************************************************************)
(* The server's session.                                                    *)
(***************************************************************************)
\* The frames of a body: Body, ChunkedResponseIter.  Every frame of a message
\* has the message's flags, all but the last have MORE as well; a stream ends
\* with an empty FIN frame.
BodyFrames(id, r) ==
    LET items == IF r \in Streams THEN Items ELSE 1
        end == IF r \in Streams THEN <<Frame(id, r, 0, 0, "fin", FALSE)>> ELSE <<>>
    IN  [k \in 1..(items * Chunks) |->
            LET n == ((k - 1) \div Chunks) + 1
                c == ((k - 1) % Chunks) + 1
            IN  Frame(id, r, n, c, IF r \in Streams THEN "none" ELSE "fin", c < Chunks)] \o end

Free(s) == [s EXCEPT !.pc = "idle", !.req = NoRequest, !.id = 0, !.sent = 0, !.out = <<>>, !.then = "idle"]
Shut(why) == server' = [Free(server) EXCEPT !.pc = "closed", !.why = why]
Send(s, f, then) == [s EXCEPT !.pc = "sending", !.out = <<f>>, !.then = then]

ClientGone == c2s = <<>> /\ (~ up \/ worker.pc = "down")

ServerRuns == UNCHANGED <<caller, queue, worker, s2c, up>>

\* run and handle_request up to the service call.
HandleRequest ==
    LET f == Head(c2s) IN
    /\ server.pc = "idle" /\ c2s # <<>>
    /\ c2s' = Tail(c2s)
    /\ server' = CASE f.flag = "fin" -> server
                   [] f.flag = "ack" -> Send(server, Frame(f.id, f.req, 0, 0, "ack", FALSE), "idle")
                   [] f.flag = "req" -> [server EXCEPT !.pc = "call", !.req = f.req, !.id = f.id]
    /\ ServerRuns

ServiceReturns ==
    /\ server.pc = "call"
    /\ server' = [server EXCEPT !.pc = "body"]
    /\ UNCHANGED c2s /\ ServerRuns

\* The service returns an error, or the stream it returned yields one.
ServiceFails ==
    /\ server.pc \in {"call", "body"} /\ server.req \in MayFail
    /\ server.pc = "body" => server.req \in Streams /\ server.sent < Items * Chunks /\ server.sent % Chunks = 0
    /\ server' = LET e == Frame(server.id, server.req, 0, 0, "err", FALSE) IN
                 IF server.pc = "call" THEN Send(server, e, "idle")
                 ELSE Send([server EXCEPT !.sent = Len(BodyFrames(server.id, server.req))], e, "body")
    /\ UNCHANGED c2s /\ ServerRuns

\* The deadline passes in the call, or while the next item is awaited: the
\* request is dropped without a word.
DeadlineExceeded ==
    /\ server.pc \in {"call", "body"} /\ server.req \in MayAbandon
    /\ server.pc = "body" => /\ server.req \in Streams /\ server.sent % Chunks = 0
                             /\ server.sent < Len(BodyFrames(server.id, server.req))
    /\ server' = Free(server)
    /\ UNCHANGED c2s /\ ServerRuns

\* The next frame of the body, or its end.
NextItem ==
    LET frames == BodyFrames(server.id, server.req) IN
    /\ server.pc = "body"
    /\ server' = IF server.sent < Len(frames)
                 THEN Send([server EXCEPT !.sent = @ + 1], frames[server.sent + 1], "body")
                 ELSE Free(server)
    /\ UNCHANGED c2s /\ ServerRuns

\* check_interruptions, the select's other branch: a FIN stops the body, any
\* other message and the end of the substream end the session.
Interrupted ==
    /\ server.pc = "body"
    /\ \/ /\ c2s # <<>> /\ c2s' = Tail(c2s)
          /\ IF Head(c2s).flag = "fin" THEN server' = Free(server)
             ELSE Shut(IF server.sent < Len(BodyFrames(server.id, server.req)) THEN "unfinished" ELSE "finished")
       \/ ClientGone /\ Shut("remote") /\ UNCHANGED c2s
    /\ ServerRuns

SendDone ==
    /\ server.pc = "sending" /\ Len(s2c) < Window /\ up
    /\ s2c' = Append(s2c, server.out[1])
    /\ server' = IF server.then = "idle" THEN Free(server) ELSE [server EXCEPT !.pc = "body", !.out = <<>>]
    /\ UNCHANGED <<caller, queue, worker, c2s, up>>

\* EarlyClose: while the sink is not ready, any message of the client and the
\* end of the substream are errors.
EarlyClose ==
    /\ server.pc = "sending"
    /\ \/ Len(s2c) = Window /\ c2s # <<>> /\ c2s' = Tail(c2s) /\ Shut("early")
       \/ (ClientGone \/ ~ up) /\ Shut("remote") /\ UNCHANGED c2s
    /\ ServerRuns

ServerSeesEnd ==
    /\ server.pc = "idle" /\ ClientGone
    /\ Shut("remote")
    /\ UNCHANGED c2s /\ ServerRuns

\* The connection breaks: of what is on the way any first part arrives.
Lose ==
    /\ MayLose /\ up
    /\ up' = FALSE
    /\ \E i \in 0..Len(c2s) : c2s' = SubSeq(c2s, 1, i)
    /\ \E i \in 0..Len(s2c) : s2c' = SubSeq(s2c, 1, i)
    /\ UNCHANGED <<caller, queue, worker, server>>

Worker ==
    \/ WorkerCloses \/ TakeRequest \/ SendFails \/ EnterLoop \/ SeeDropped
    \/ ReadTimesOut \/ SeeEnd \/ ReadFrame \/ ReadPong

Server ==
    \/ HandleRequest \/ ServiceReturns \/ ServiceFails \/ DeadlineExceeded
    \/ NextItem \/ Interrupted \/ SendDone \/ EarlyClose \/ ServerSeesEnd

\* All requests are over and both ends are at rest.
Finished ==
    /\ \A r \in Requests : caller[r].st \in {"over", "dropped"}
    /\ (worker.pc = "idle" /\ ~ worker.closing) \/ worker.pc = "down"
    /\ server.pc \in {"idle", "closed"}
    /\ UNCHANGED vars

Next ==
    \/ \E r \in Requests : Call(r) \/ Drop(r)
    \/ Close \/ Lose \/ Worker \/ Server \/ Finished

Spec == Init /\ [][Next]_vars

\* Both ends run; the client's timers go off.
FairSpec == Spec /\ WF_vars(Worker) /\ WF_vars(Server)

-----------------------------------------------------------------------------
Whole(r, n) == [c \in 1..Chunks |-> [req |-> r, item |-> n, chunk |-> c]]
AllItems(r) == IF r \in Streams THEN Items ELSE 1

\* A caller receives the items of its own request, whole, in their order and
\* without a gap: whatever is left on the substream of requests that timed out
\* or were dropped never reaches it (read_response, check_response).
OwnResponses == \A r \in Requests \ Pings : \A n \in DOMAIN caller[r].got : caller[r].got[n] = Whole(r, n)

\* A response that ends with the FIN flag is complete: the server sends it
\* after the last item only (Body::poll_next, process_body), whatever deadline
\* passes and whatever interrupts the stream.
FinMeansAll ==
    \A r \in Requests \ Pings : caller[r].end = "fin" => Len(caller[r].got) = AllItems(r)

\* Late responses to the previous request do not end the worker
\* (read_response: "Be lenient for a number of messages").
LenientWithPrevious == worker.why = "id" => worker.stale # worker.before

\* A stream that ends without an error is complete: ClientStreaming says that
\* the FIN flag indicates a terminated stream.
TruncationReported ==
    \A r \in Streams : caller[r].end \in {"fin", "cut"} => Len(caller[r].got) = Items

\* A late response is ignored (the comment in do_request_response).
LateResponseIgnored == worker.why \notin {"ack", "id", "pong"}

\* A session whose requests were all answered goes on to the next one.
SessionGoesOn == server.why # "finished"

\* After a caller has dropped a stream, the session serves the next request.
DropKeepsSession == server.why # "early"
=============================================================================
