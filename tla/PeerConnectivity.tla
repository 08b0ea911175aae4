-------------------------- MODULE PeerConnectivity --------------------------
(***************************************************************************)
(* The connections between two nodes: on each side the dialer, the           *)
(* connection tasks, and the connectivity manager with its pool entry for    *)
(* the other node (comms: connection_manager, connectivity).                *)
(*                                                                         *)
(* A connection is named by the dial that made it, <<n, k>>: the k-th dial   *)
(* of node n.  Each side has a task of its own for it, which announces it    *)
(* and reports its end through the queue of events the connectivity manager  *)
(* reads.  The connection manager, which forwards events and dial requests   *)
(* in order, is folded into these queues.                                   *)
(***************************************************************************)
EXTENDS Integers, Sequences, FiniteSets

CONSTANTS
    MaxDials,    \* bound on the dials of a node
    MaxFaults,   \* bound on failing networks and on local disconnects
    Failing,     \* the nodes whose dials may fail
    Banning,     \* the nodes that may ban the other
    NoConn

Nodes == {1, 2}   \* ordered as their node ids
Peer(n) == 3 - n

Dials == 1..MaxDials
Conns == Nodes \X Dials
Direction(n, c) == IF c[1] = n THEN "outbound" ELSE "inbound"

VARIABLES
    dial,       \* dial[n][k]: how far the dial's future is
    cancelled,  \* cancelled[n]: the dials whose cancel signal was triggered
    signal,     \* signal[n]: the dial in cancel_signals, 0 if none
    requests,   \* requests[n]: the dialer's queue; NoConn is a dial request
    asked,      \* asked[n]: dial requests made
    side,       \* side[c][n]: the state of n's task for connection c
    created,    \* created[n]: connections whose task runs but is not announced
    events,     \* events[n]: what the connectivity manager has yet to read
    pool,       \* pool[n]: the entry for the other node
    online,     \* online[n]: the connectivity status
    banned,     \* banned[n]: the other node is banned
    faults

vars == <<dial, cancelled, signal, requests, asked, side, created, events, pool, online, banned, faults>>
dialerVars == <<dial, cancelled, signal, requests, asked>>
managerVars == <<pool, online, banned>>

Event(type, c) == [type |-> type, conn |-> c]
NoEntry == [status |-> "NotConnected", conn |-> NoConn]

TypeOK ==
    /\ dial \in [Nodes -> [Dials -> {"free", "dialing", "socket", "created", "connected", "failed", "aborted"}]]
    /\ cancelled \in [Nodes -> SUBSET Dials] /\ signal \in [Nodes -> 0..MaxDials]
    /\ side \in [Conns -> [Nodes -> {"none", "up", "down"}]]
    /\ \A n \in Nodes :
        /\ created[n] \subseteq Conns
        /\ pool[n].status \in {"NotConnected", "Connected", "Failed", "Disconnected"}
        /\ (pool[n].conn = NoConn) = (pool[n].status = "NotConnected")
        /\ signal[n] # 0 => dial[n][signal[n]] \in {"dialing", "socket", "created"}
    /\ online \in [Nodes -> {"Initializing", "Online", "Offline"}]

Init ==
    /\ dial = [n \in Nodes |-> [k \in Dials |-> "free"]]
    /\ cancelled = [n \in Nodes |-> {}] /\ signal = [n \in Nodes |-> 0]
    /\ requests = [n \in Nodes |-> <<>>] /\ asked = [n \in Nodes |-> 0]
    /\ side = [c \in Conns |-> [n \in Nodes |-> "none"]]
    /\ created = [n \in Nodes |-> {}] /\ events = [n \in Nodes |-> <<>>]
    /\ pool = [n \in Nodes |-> NoEntry]
    /\ online = [n \in Nodes |-> "Initializing"]
    /\ banned = [n \in Nodes |-> FALSE] /\ faults = 0

IsConnected(n, c) == c # NoConn /\ side[c][n] = "up"

-----------------------------------------------------------------------------
(***************************************************************************)
(* Dialer.                                                                  *)
(***************************************************************************)

\* cancel_dial: whichever dial the map holds is cancelled.
CancelDial(n) ==
    /\ cancelled' = [cancelled EXCEPT ![n] = IF signal[n] = 0 THEN @ ELSE @ \cup {signal[n]}]
    /\ signal' = [signal EXCEPT ![n] = 0]

\* handle_request: a dial joins the one under way or starts one; an inbound
\* connection resolves and cancels it.
HandleDialerRequest(n) ==
    /\ requests[n] # <<>>
    /\ requests' = [requests EXCEPT ![n] = Tail(@)]
    /\ LET c == Head(requests[n])
           k == CHOOSE j \in Dials : dial[n][j] = "free" /\ \A i \in 1..(j - 1) : dial[n][i] # "free"
       IN  IF c # NoConn
           THEN /\ IF IsConnected(n, c) THEN CancelDial(n) ELSE UNCHANGED <<cancelled, signal>>
                /\ UNCHANGED dial
           ELSE /\ IF signal[n] # 0 THEN UNCHANGED <<dial, signal>>
                   ELSE /\ dial' = [dial EXCEPT ![n][k] = "dialing"]
                        /\ signal' = [signal EXCEPT ![n] = k]
                /\ UNCHANGED cancelled
    /\ UNCHANGED <<asked, side, created, events, managerVars, faults>>

\* dial_peer reaches the other node, whose listener refuses a peer it has banned
\* before it answers with its identity.
OpenSocket(n, k) ==
    /\ dial[n][k] = "dialing" /\ ~ banned[Peer(n)]
    /\ dial' = [dial EXCEPT ![n][k] = "socket"]
    /\ UNCHANGED <<cancelled, signal, requests, asked, side, created, events, managerVars, faults>>

\* perform_socket_upgrade_procedure: the signal is checked, the task started.
CreateOutbound(n, k) ==
    /\ dial[n][k] = "socket" /\ k \notin cancelled[n]
    /\ dial' = [dial EXCEPT ![n][k] = "created"]
    /\ side' = [side EXCEPT ![<<n, k>>][n] = "up"]
    /\ created' = [created EXCEPT ![n] = @ \cup {<<n, k>>}]
    /\ UNCHANGED <<cancelled, signal, requests, asked, events, managerVars, faults>>

\* handle_dial_result: the event, and then whichever dial is pending is removed.
DialResult(n, k, outcome, event) ==
    /\ dial' = [dial EXCEPT ![n][k] = outcome]
    /\ events' = [events EXCEPT ![n] = Append(@, event)]
    /\ CancelDial(n)
    /\ UNCHANGED <<requests, asked, side, managerVars, faults>>

DialSucceeded(n, k) ==
    /\ dial[n][k] = "created"
    /\ created' = [created EXCEPT ![n] = @ \ {<<n, k>>}]
    /\ DialResult(n, k, "connected", Event("connected", <<n, k>>))

Ended(n, k) == IF dial[n][k] = "socket" THEN "aborted" ELSE "failed"

DialFailed(n, k) ==
    /\ dial[n][k] \in {"dialing", "socket"}
    /\ n \in Failing \/ (banned[Peer(n)] /\ dial[n][k] = "dialing")
    /\ DialResult(n, k, Ended(n, k), Event("failed", NoConn))
    /\ UNCHANGED created

DialCancelled(n, k) ==
    /\ dial[n][k] \in {"dialing", "socket"} /\ k \in cancelled[n]
    /\ DialResult(n, k, Ended(n, k), Event("cancelled", NoConn))
    /\ UNCHANGED created

-----------------------------------------------------------------------------
(***************************************************************************)
(* Listener and connection tasks.                                           *)
(***************************************************************************)
\* The listener's upgrade of a socket.
CreateInbound(n, k) ==
    LET c == <<Peer(n), k>> IN
    /\ dial[Peer(n)][k] \in {"socket", "created", "connected", "aborted"}
    /\ side[c][n] = "none"
    /\ side' = [side EXCEPT ![c][n] = "up"]
    /\ created' = [created EXCEPT ![n] = @ \cup {c}]
    /\ UNCHANGED <<dialerVars, events, managerVars, faults>>

\* Its event; the connection manager tells the dialer.
AnnounceInbound(n, c) ==
    /\ c \in created[n] /\ Direction(n, c) = "inbound"
    /\ created' = [created EXCEPT ![n] = @ \ {c}]
    /\ events' = [events EXCEPT ![n] = Append(@, Event("connected", c))]
    /\ requests' = [requests EXCEPT ![n] = Append(@, c)]
    /\ UNCHANGED <<dial, cancelled, signal, asked, side, managerVars, faults>>

ClosedByPeer(n, c) == side[c][Peer(n)] = "down" \/ dial[c[1]][c[2]] = "aborted"

\* The task ends: the peer closed the connection, or the network failed.
ConnectionEnds(n, c) ==
    /\ side[c][n] = "up"
    /\ \/ ClosedByPeer(n, c) /\ UNCHANGED faults
       \/ faults < MaxFaults /\ faults' = faults + 1
    /\ side' = [side EXCEPT ![c][n] = "down"]
    /\ events' = [events EXCEPT ![n] = Append(@, Event("disconnected", c))]
    /\ UNCHANGED <<dialerVars, created, managerVars>>

\* PeerConnectionActor::disconnect.
Closed(n, c) == side' = [side EXCEPT ![c][n] = "down"]

\* A task that was told to disconnect leaves its loop and disconnects once more,
\* silent or not: that may report the connections closed in this step (again).
Reports(n) ==
    {<<>>} \cup {<<Event("disconnected", c)>> : c \in {d \in Conns : side'[d][n] # side[d][n]}}

\* disconnect of whoever holds a handle to the pool's connection, the reaper
\* included.
Disconnect(n) ==
    LET c == pool[n].conn IN
    /\ IsConnected(n, c) /\ faults < MaxFaults
    /\ faults' = faults + 1
    /\ Closed(n, c)
    /\ \E again \in Reports(n) :
        events' = [events EXCEPT ![n] = Append(@, Event("disconnected", c)) \o again]
    /\ UNCHANGED <<dialerVars, created, managerVars>>

-----------------------------------------------------------------------------
(***************************************************************************)
(* Connectivity manager.                                                    *)
(***************************************************************************)
\* handle_dial_peer: only without a live connection, and not to a banned peer.
RequestDial(n) ==
    /\ asked[n] < MaxDials /\ asked' = [asked EXCEPT ![n] = @ + 1]
    /\ requests' = IF banned[n] \/ IsConnected(n, pool[n].conn) THEN requests
                   ELSE [requests EXCEPT ![n] = Append(@, NoConn)]
    /\ UNCHANGED <<dial, cancelled, signal, side, created, events, managerVars, faults>>

\* tie_break_existing_connection: does the new connection win?
TieBreak(n, existing, new) ==
    LET from == Direction(n, existing)
        to == Direction(n, new)
    IN  \/ from = to
        \/ from = "inbound" /\ to = "outbound" /\ Peer(n) > n
        \/ from = "outbound" /\ to = "inbound" /\ n > Peer(n)

\* insert_connection: the entry is vacant whenever it is called, and then the
\* connection is Connected, dead or not.
InsertConnection(n, c) == pool' = [pool EXCEPT ![n] = [status |-> "Connected", conn |-> c]]

\* Mutant: the connection that lost is not closed.
OnConnectedLeaky(n, c) ==
    LET existing == pool[n].conn IN
    IF existing = NoConn \/ ~ IsConnected(n, existing) \/ TieBreak(n, existing, c)
    THEN InsertConnection(n, c) /\ UNCHANGED side
    ELSE UNCHANGED <<pool, side>>

OnConnected(n, c) ==
    LET existing == pool[n].conn IN
    IF existing = NoConn \/ ~ IsConnected(n, existing)
    THEN InsertConnection(n, c) /\ UNCHANGED side
    ELSE IF TieBreak(n, existing, c)
    THEN InsertConnection(n, c) /\ Closed(n, existing)
    ELSE /\ UNCHANGED pool
         /\ IF IsConnected(n, c) THEN Closed(n, c) ELSE UNCHANGED side

SetStatus(n, status) ==
    /\ pool' = [pool EXCEPT ![n] = IF @ = NoEntry THEN @ ELSE [@ EXCEPT !.status = status]]
    /\ UNCHANGED side

OnDisconnected(n, c) ==
    IF pool[n].conn \notin {NoConn, c} THEN UNCHANGED <<pool, side>> ELSE SetStatus(n, "Disconnected")

\* A cancelled dial does not count against an inbound connection.
OnCancelled(n) ==
    IF IsConnected(n, pool[n].conn) /\ Direction(n, pool[n].conn) = "inbound"
    THEN UNCHANGED <<pool, side>> ELSE SetStatus(n, "Failed")

\* update_connectivity_status, for min_connectivity = 1.
UpdateStatus(n) ==
    online' = [online EXCEPT ![n] =
        IF pool'[n].status = "Connected" /\ side'[pool'[n].conn][n] = "up" THEN "Online" ELSE "Offline"]

HandleEvent(n) ==
    /\ events[n] # <<>>
    /\ LET e == Head(events[n]) IN
       CASE e.type = "connected" -> OnConnected(n, e.conn)
         [] e.type = "disconnected" -> OnDisconnected(n, e.conn)
         [] e.type = "cancelled" -> OnCancelled(n)
         [] e.type = "failed" -> SetStatus(n, "Failed")
    /\ \E late \in Reports(n) : events' = [events EXCEPT ![n] = Tail(@) \o late]
    /\ UpdateStatus(n)
    /\ UNCHANGED <<dialerVars, created, banned, faults>>

\* refresh_connection_pool: a connection nobody else holds a handle to ends with
\* its entry.
RefreshPool(n) ==
    LET c == pool[n].conn
        cleared == pool[n].status \in {"Failed", "Disconnected"}
    IN
    /\ pool' = IF cleared THEN [pool EXCEPT ![n] = NoEntry] ELSE pool
    /\ \E last \in BOOLEAN :
        IF cleared /\ IsConnected(n, c) /\ last
        THEN /\ Closed(n, c)
             /\ events' = [events EXCEPT ![n] = Append(@, Event("disconnected", c))]
        ELSE UNCHANGED <<side, events>>
    /\ UpdateStatus(n)
    /\ UNCHANGED <<dialerVars, created, banned, faults>>

\* BanPeer: the pool's connection is closed; a dial goes on.
BanPeer(n) ==
    LET c == pool[n].conn IN
    /\ n \in Banning /\ ~ banned[n]
    /\ banned' = [banned EXCEPT ![n] = TRUE]
    /\ IF IsConnected(n, c)
       THEN /\ Closed(n, c)
            /\ \E again \in Reports(n) :
                events' = [events EXCEPT ![n] = Append(@, Event("disconnected", c)) \o again]
       ELSE UNCHANGED <<side, events>>
    /\ UNCHANGED <<dialerVars, created, pool, online, faults>>

-----------------------------------------------------------------------------
DialerStep(n) ==
    \/ HandleDialerRequest(n)
    \/ \E k \in Dials : OpenSocket(n, k) \/ CreateOutbound(n, k) \/ DialSucceeded(n, k) \/ DialCancelled(n, k)

ListenerStep(n) == (\E k \in Dials : CreateInbound(n, k)) \/ \E c \in Conns : AnnounceInbound(n, c)

Next ==
    \E n \in Nodes :
        \/ RequestDial(n) \/ DialerStep(n) \/ ListenerStep(n) \/ HandleEvent(n) \/ RefreshPool(n)
        \/ BanPeer(n) \/ Disconnect(n)
        \/ \E k \in Dials : DialFailed(n, k)
        \/ \E c \in Conns : ConnectionEnds(n, c)

Spec == Init /\ [][Next]_vars

FairSpec ==
    /\ Spec
    /\ \A n \in Nodes :
        /\ WF_vars(DialerStep(n)) /\ WF_vars(ListenerStep(n)) /\ WF_vars(HandleEvent(n))
        /\ WF_vars(RefreshPool(n)) /\ WF_vars(\E k \in Dials : DialFailed(n, k))
        /\ WF_vars(\E c \in Conns : ClosedByPeer(n, c) /\ ConnectionEnds(n, c))

-----------------------------------------------------------------------------
\* Nothing is on its way: what the two managers know is final until someone acts.
Quiet(n) ==
    /\ events[n] = <<>> /\ requests[n] = <<>> /\ created[n] = {}
    /\ \A k \in Dials : dial[n][k] \notin {"dialing", "socket", "created"}
    /\ \A c \in Conns : side[c][n] = "up" => ~ ClosedByPeer(n, c)

AllQuiet ==
    /\ \A n \in Nodes : Quiet(n)
    /\ \A n \in Nodes, k \in Dials :
        dial[n][k] \in {"connected", "aborted"} => side[<<n, k>>][Peer(n)] # "none"

Live(n) == IsConnected(n, pool[n].conn)

\* Once everything has settled the two sides use the same connection
\* (on_new_connection, handle_connection_manager_event).
SidesAgree ==
    AllQuiet /\ (Live(1) \/ Live(2)) => pool[1].conn = pool[2].conn

Reached(n, k) == dial[n][k] = "connected"

\* The tie break: "This rule enables both sides to agree which connection to
\* disconnect" (tie_break_existing_connection).  Of connections made at the same
\* time one remains, if all dials ran to their end ...
TieBreakKeepsOne ==
    /\ AllQuiet /\ faults = 0
    /\ \A n \in Nodes, k \in Dials : dial[n][k] \in {"free", "connected"}
    /\ \E n \in Nodes, k \in Dials : Reached(n, k)
    => Live(1) /\ Live(2)

\* ... or if some were cancelled for an inbound connection (resolve_pending_dials).
OneSurvives ==
    AllQuiet /\ faults = 0 /\ (\E n \in Nodes, k \in Dials : Reached(n, k)) => Live(1) /\ Live(2)

\* A node whose only connection is alive is online: "If min_connectivity peers are
\* connected we MUST transition to ONLINE" (update_connectivity_status).
ConnectedIsOnline ==
    \A n \in Nodes : Quiet(n) /\ Live(n) => online[n] = "Online"

\* The pool holds a dead connection as Connected only for a while
\* (insert_connection, handle_dial_peer).
DeadIsTemporary ==
    \A n \in Nodes : Quiet(n) /\ pool[n].status = "Connected" => Live(n)

\* A banned peer is not connected, once the events are handled (ban_peer).
BannedNotConnected ==
    \A n \in Nodes : banned[n] /\ Quiet(n) => ~ Live(n)

=============================================================================
