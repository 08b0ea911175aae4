------------------------------ MODULE RpcServer ------------------------------
(***************************************************************************)
(* Who gets an RPC session: the server's loop (PeerRpcServer), which admits  *)
(* inbound substreams one at a time under a global limit and a limit per     *)
(* peer, and the pool of client sessions (LazyPool) that each peer's tasks   *)
(* share.  What is said on a session is RpcSession's matter.                *)
(***************************************************************************)
EXTENDS Integers, Sequences, FiniteSets, Functions

CONSTANTS
    Peers, Users,
    PeerOf,         \* Users -> Peers
    Sessions,       \* substreams, 1..N; an id is used again when both ends forgot it
    MaxSessions,    \* maximum_simultaneous_sessions
    MaxPerPeer,     \* maximum_sessions_per_client
    PoolSize,
    Stalling,       \* peers whose handshake may stall or break off
    ClientTimesOut, \* whether clients give up a handshake
    MayDrop,        \* peers whose connection may drop
    None

RpcServerAssumption ==
    /\ \E n \in Sessions : Sessions = 1..n
    /\ None \notin Sessions /\ \A u \in Users : PeerOf[u] \in Peers
    /\ MaxSessions \in Nat \ {0} /\ MaxPerPeer \in Nat \ {0} /\ PoolSize \in Nat \ {0}

VARIABLES
    peer,      \* the peer of each session
    srv,       \* its state at the server
    cli,       \* its state at the client
    reply,     \* the server's answer to the handshake
    notifs,    \* protocol notifications
    serving,   \* the session whose handshake the server's loop awaits
    count,     \* PeerRpcServer::sessions
    pool,      \* LazyPool::clients
    user,      \* the calls of get, and the leases
    holder,    \* who has locked the pool
    connected  \* PeerConnection::is_connected

serverVars == <<srv, reply, notifs, serving, count>>
clientVars == <<cli, pool, user, holder, connected>>
vars == <<peer, serverVars, clientVars>>

TypeOK ==
    /\ peer \in [Sessions -> Peers \cup {None}]
    /\ srv \in [Sessions -> {"none", "queued", "shaking", "running", "ended", "gone"}]
    /\ cli \in [Sessions -> {"none", "connecting", "open", "closed"}]
    /\ reply \in [Sessions -> {"none", "ok", "full"}]
    /\ notifs \in Seq(Sessions) /\ serving \in Sessions \cup {None}
    /\ count \in [Peers -> 0..MaxPerPeer]
    /\ pool \in [Peers -> Seq(Sessions)] /\ \A p \in Peers : Len(pool[p]) <= PoolSize
    /\ user \in [Users -> [pc : {"idle", "waiting", "choosing", "connecting", "leased"}, s : Sessions \cup {None}]]
    /\ holder \in [Peers -> Users \cup {None}] /\ connected \in [Peers -> BOOLEAN]

Init ==
    /\ peer = [s \in Sessions |-> None]
    /\ srv = [s \in Sessions |-> "none"] /\ cli = [s \in Sessions |-> "none"]
    /\ reply = [s \in Sessions |-> "none"]
    /\ notifs = <<>> /\ serving = None /\ count = [p \in Peers |-> 0]
    /\ pool = [p \in Peers |-> <<>>] /\ connected = [p \in Peers |-> TRUE]
    /\ user = [u \in Users |-> [pc |-> "idle", s |-> None]]
    /\ holder = [p \in Peers |-> None]

-----------------------------------------------------------------------------
(***************************************************************************)
(* The client's pool.                                                       *)
(***************************************************************************)
Leases(s) == Cardinality({u \in Users : user[u].pc = "leased" /\ user[u].s = s})
IsOpen(s) == cli[s] = "open"
IsFull(p) == Len(pool[p]) = PoolSize

\* get_least_used: the first of the sessions with the fewest leases.
GetLeastUsed(p) ==
    IF pool[p] = <<>> THEN None
    ELSE pool[p][CHOOSE i \in DOMAIN pool[p] :
            /\ \A j \in DOMAIN pool[p] : Leases(pool[p][i]) <= Leases(pool[p][j])
            /\ \A j \in 1..(i - 1) : Leases(pool[p][j]) > Leases(pool[p][i])]

GetNextLease(p) ==
    LET s == GetLeastUsed(p) IN IF s # None /\ (IsFull(p) \/ Leases(s) = 0) THEN s ELSE None

Prune(p) == SelectSeq(pool[p], IsOpen)

Unlock(p) == holder' = [holder EXCEPT ![p] = None]
SetUser(u, pc, s) == user' = [user EXCEPT ![u] = [pc |-> pc, s |-> s]]

\* The end of an iteration of get_least_used_or_connect: the session is leased,
\* or the pool is pruned and the loop goes round.
TakeLease(u, s) ==
    IF IsOpen(s) THEN SetUser(u, "leased", s) /\ Unlock(PeerOf[u]) /\ UNCHANGED pool
    ELSE /\ pool' = [pool EXCEPT ![PeerOf[u]] = Prune(PeerOf[u])]
         /\ SetUser(u, "choosing", None) /\ UNCHANGED holder

Fail(u) == SetUser(u, "idle", None) /\ Unlock(PeerOf[u]) /\ UNCHANGED pool

Get(u) ==
    /\ user[u].pc = "idle"
    /\ SetUser(u, "waiting", None)
    /\ UNCHANGED <<peer, serverVars, cli, pool, holder, connected>>

LockPool(u) ==
    /\ user[u].pc = "waiting" /\ holder[PeerOf[u]] = None
    /\ holder' = [holder EXCEPT ![PeerOf[u]] = u]
    /\ SetUser(u, "choosing", None)
    /\ UNCHANGED <<peer, serverVars, cli, pool, connected>>

ChooseLease(u) ==
    LET p == PeerOf[u] IN
    /\ user[u].pc = "choosing"
    /\ IF ~ connected[p] THEN Fail(u)
       ELSE GetNextLease(p) # None /\ TakeLease(u, GetNextLease(p))
    /\ UNCHANGED <<peer, serverVars, cli, connected>>

\* Neither end knows the substream any more.
Forgotten(s) ==
    /\ srv[s] \in {"none", "gone"} /\ cli[s] \in {"none", "closed"}
    /\ \A p \in Peers : s \notin Range(pool[p])
    /\ \A u \in Users : user[u].s # s

\* add_new_client_session: a substream is opened, the server is notified of it
\* and the client's handshake is sent.
ConnectNew(u) ==
    LET p == PeerOf[u] IN
    /\ user[u].pc = "choosing" /\ connected[p] /\ GetNextLease(p) = None
    /\ \E s \in Sessions :
        /\ Forgotten(s) /\ \A t \in 1..(s - 1) : ~ Forgotten(t)
        /\ peer' = [peer EXCEPT ![s] = p]
        /\ srv' = [srv EXCEPT ![s] = "queued"] /\ cli' = [cli EXCEPT ![s] = "connecting"]
        /\ reply' = [reply EXCEPT ![s] = "none"]
        /\ notifs' = Append(notifs, s)
        /\ SetUser(u, "connecting", s)
    /\ UNCHANGED <<serving, count, pool, holder, connected>>

\* The handshake is answered.  A server that has no session left sends the
\* caller back to the sessions there are.
Answered(u) ==
    LET s == user[u].s
        p == PeerOf[u]
    IN
    /\ user[u].pc = "connecting"
    /\ \/ /\ reply[s] = "ok" /\ cli[s] = "connecting"
          /\ cli' = [cli EXCEPT ![s] = "open"]
          /\ pool' = [pool EXCEPT ![p] = Append(@, s)]
          /\ SetUser(u, "leased", s) /\ Unlock(p)
       \/ /\ reply[s] = "full" /\ cli[s] = "connecting"
          /\ cli' = [cli EXCEPT ![s] = "closed"]
          /\ IF GetLeastUsed(p) = None THEN Fail(u) ELSE TakeLease(u, GetLeastUsed(p))
    /\ UNCHANGED <<peer, serverVars, connected>>

\* The handshake fails: the substream is closed, or nothing comes in time.
HandshakeFails(u) ==
    LET s == user[u].s IN
    /\ user[u].pc = "connecting"
    /\ \/ reply[s] = "none" /\ srv[s] = "gone"
       \/ cli[s] = "closed"
       \/ ClientTimesOut
    /\ cli' = [cli EXCEPT ![s] = "closed"]
    /\ Fail(u)
    /\ UNCHANGED <<peer, serverVars, connected>>

Release(u) ==
    /\ user[u].pc = "leased"
    /\ SetUser(u, "idle", None)
    /\ UNCHANGED <<peer, serverVars, cli, pool, holder, connected>>

\* The client closes a session it leases, or its worker ends.
CloseSession(s) ==
    /\ cli[s] = "open"
    /\ cli' = [cli EXCEPT ![s] = "closed"]
    /\ UNCHANGED <<peer, serverVars, pool, user, holder, connected>>

\* The connection to the peer drops, and every substream of it.
DropConnection(p) ==
    /\ p \in MayDrop /\ connected[p]
    /\ connected' = [connected EXCEPT ![p] = FALSE]
    /\ cli' = [s \in Sessions |-> IF peer[s] = p /\ cli[s] # "none" THEN "closed" ELSE cli[s]]
    /\ UNCHANGED <<peer, serverVars, pool, user, holder>>

-----------------------------------------------------------------------------
(***************************************************************************)
(* The server's loop.                                                       *)
(***************************************************************************)
\* BoundedExecutor: a permit per running session.
Running == {s \in Sessions : srv[s] = "running"}

CanSpawn == Cardinality(Running) < MaxSessions

\* new_session_for, whose check this is, adds one to the count.
NewSessionFor(p) == count[p] < MaxPerPeer

\* try_initiate_service up to the handshake, which the loop awaits.
HandleNotification ==
    LET s == Head(notifs)
        p == peer[s]
    IN
    /\ serving = None /\ notifs # <<>>
    /\ notifs' = Tail(notifs)
    /\ IF CanSpawn /\ NewSessionFor(p)
       THEN /\ count' = [count EXCEPT ![p] = @ + 1]
            /\ srv' = [srv EXCEPT ![s] = "shaking"]
            /\ serving' = s
            /\ UNCHANGED reply
       ELSE /\ reply' = [reply EXCEPT ![s] = "full"]
            /\ srv' = [srv EXCEPT ![s] = "gone"]
            /\ UNCHANGED <<count, serving>>
    /\ UNCHANGED <<peer, clientVars>>

\* perform_server_handshake succeeds and the session is spawned.
HandshakeDone ==
    /\ serving # None
    /\ reply' = [reply EXCEPT ![serving] = "ok"]
    /\ srv' = [srv EXCEPT ![serving] = IF CanSpawn THEN "running" ELSE "gone"]
    /\ serving' = None
    /\ UNCHANGED <<peer, notifs, count, clientVars>>

\* Mutant: nothing limits the wait for the client.
HandshakeAwaited ==
    /\ serving # None /\ cli[serving] = "closed"
    /\ srv' = [srv EXCEPT ![serving] = "gone"]
    /\ serving' = None
    /\ UNCHANGED <<peer, reply, notifs, count, clientVars>>

\* The handshake times out, or the client has closed or speaks no known version.
HandshakeAborted ==
    /\ serving # None /\ (peer[serving] \in Stalling \/ cli[serving] = "closed")
    /\ srv' = [srv EXCEPT ![serving] = "gone"]
    /\ serving' = None
    /\ UNCHANGED <<peer, reply, notifs, count, clientVars>>

\* The session's task ends, and its permit is free: the client has gone, or the
\* session has failed.
SessionEnds(s) ==
    /\ srv[s] = "running"
    /\ srv' = [srv EXCEPT ![s] = "ended"]
    /\ cli' = [cli EXCEPT ![s] = IF @ = "none" THEN @ ELSE "closed"]
    /\ UNCHANGED <<peer, reply, notifs, serving, count, pool, user, holder, connected>>

\* Mutant: the count is not taken back.
SessionNotTakenBack(s) ==
    /\ serving = None /\ srv[s] = "ended"
    /\ srv' = [srv EXCEPT ![s] = "gone"]
    /\ UNCHANGED <<peer, reply, notifs, serving, count, clientVars>>

OnSessionComplete(s) ==
    /\ serving = None /\ srv[s] = "ended"
    /\ srv' = [srv EXCEPT ![s] = "gone"]
    /\ count' = [count EXCEPT ![peer[s]] = @ - 1]
    /\ UNCHANGED <<peer, reply, notifs, serving, clientVars>>

-----------------------------------------------------------------------------
GetProceeds(u) == LockPool(u) \/ ChooseLease(u) \/ ConnectNew(u) \/ Answered(u) \/ HandshakeFails(u)

ServerProceeds == HandleNotification \/ (HandshakeDone /\ peer[serving] \notin Stalling) \/ HandshakeAborted

Next ==
    \/ \E u \in Users : Get(u) \/ GetProceeds(u) \/ Release(u)
    \/ \E s \in Sessions : CloseSession(s) \/ SessionEnds(s) \/ OnSessionComplete(s)
    \/ HandleNotification \/ HandshakeDone \/ HandshakeAborted
    \/ \E p \in Peers : DropConnection(p)

Spec == Init /\ [][Next]_vars

\* The tasks run; the pool's lock is fair; a session's end is noticed.
FairSpec ==
    /\ Spec
    /\ \A u \in Users : SF_vars(LockPool(u)) /\ WF_vars(GetProceeds(u))
    /\ WF_vars(ServerProceeds)
    /\ \A s \in Sessions :
        WF_vars(cli[s] = "closed" /\ SessionEnds(s)) /\ SF_vars(OnSessionComplete(s))

-----------------------------------------------------------------------------
Held(p, states) == {s \in Sessions : peer[s] = p /\ srv[s] \in states}

\* The server never runs more sessions than configured, in all or for a peer,
\* however handshakes, ends and new substreams interleave; a session admitted
\* by try_initiate_service finds its permit when the handshake is done.
LimitsHold ==
    /\ Cardinality(Running) <= MaxSessions
    /\ \A p \in Peers : Cardinality(Held(p, {"shaking", "running"})) <= MaxPerPeer
    /\ serving # None => CanSpawn

\* The count of a peer's sessions is the number of its sessions: the one in the
\* handshake, the running ones and those whose end is not yet noticed.  A peer
\* is refused only when it has that many (rpc_max_sessions_per_peer).
SessionsCounted ==
    \A p \in Peers : count[p] = Cardinality(Held(p, {"shaking", "running", "ended"}))

=============================================================================
