------------------------------ MODULE MCComms ------------------------------
(***************************************************************************)
(* The communication layer for TLC: connectivity, messaging, RPC sessions    *)
(* and the RPC server with its client pool.  A behaviour runs one component  *)
(* in one scenario, and the others stay in their initial state, so that the  *)
(* state graph is the union of the scenarios' graphs.  Scenarios names the   *)
(* ones a model checks.  Messaging is extended, and gets its constants from  *)
(* the model; the others are instantiated once for each scenario.            *)
(***************************************************************************)
EXTENDS Messaging, TLC

CONSTANTS
    Scenarios,
    NoConn,
    p1, p2, u1, u2, u3, None

VARIABLES scenario

VARIABLES dial, cancelled, signal, requests, asked, side, created, connEvents, pool, online, banned, connFaults
VARIABLES caller, queue, worker, c2s, s2c, server, up
VARIABLES peer, srv, cli, answer, notifs, serving, count, clients, user, holder, connected

connectivityVars ==
    <<dial, cancelled, signal, requests, asked, side, created, connEvents, pool, online, banned, connFaults>>
sessionVars == <<caller, queue, worker, c2s, s2c, server, up>>
serverVars == <<peer, srv, cli, answer, notifs, serving, count, clients, user, holder, connected>>
commsVars == <<scenario, vars, connectivityVars, sessionVars, serverVars>>

-----------------------------------------------------------------------------
(* Connectivity.  Tie: both nodes dial, and one thing may go wrong.  Ban:     *)
(* one node may ban the other.                                                *)
Tie == INSTANCE PeerConnectivity WITH
    MaxDials <- 1, MaxFaults <- 1, Failing <- {}, Banning <- {}, events <- connEvents, faults <- connFaults
Ban == INSTANCE PeerConnectivity WITH
    MaxDials <- 1, MaxFaults <- 0, Failing <- {}, Banning <- {2}, events <- connEvents, faults <- connFaults

(* Messages are alike until they are sent.                                   *)
MessageSymmetry == Permutations(Messages)

(* RPC sessions.  Responses: two streams and a single response, of which the  *)
(* streams may be dropped, time out and miss the server's deadline.  Late: a  *)
(* larger window, and a ping.                                                 *)
Responses == INSTANCE RpcSession WITH
    Requests <- {1, 2, 3}, Streams <- {1, 2}, Pings <- {}, Items <- 2, Chunks <- 2, IdSpace <- 6,
    MaxIgnored <- 3, Window <- 2, MayDrop <- {1, 2}, MayCancel <- {}, MayFail <- {1}, MayTimeOut <- {1, 2},
    MayAbandon <- {1, 2}, MayClose <- FALSE, MayLose <- TRUE
Late == INSTANCE RpcSession WITH
    Requests <- {1, 2, 3}, Streams <- {1, 2}, Pings <- {3}, Items <- 2, Chunks <- 2, IdSpace <- 6,
    MaxIgnored <- 3, Window <- 3, MayDrop <- {1, 2}, MayCancel <- {}, MayFail <- {}, MayTimeOut <- {1, 2},
    MayAbandon <- {}, MayClose <- TRUE, MayLose <- FALSE
(* The RPC server.  u1 and u2 share the pool of p1, u3 is of p2.  Limits: two *)
(* peers compete, one stalls, one drops.  Counts: two users share a pool.     *)
(* Gets: one session at the server, and p2 may stall.                         *)
PeerOf == u1 :> p1 @@ u2 :> p1 @@ u3 :> p2

Limits == INSTANCE RpcServer WITH
    Peers <- {p1, p2}, Users <- {u1, u3}, Sessions <- {1, 2}, MaxSessions <- 1, MaxPerPeer <- 2,
    PoolSize <- 2, Stalling <- {p1}, ClientTimesOut <- TRUE, MayDrop <- {p2}, reply <- answer, pool <- clients
Counts == INSTANCE RpcServer WITH
    Peers <- {p1, p2}, Users <- {u1, u2, u3}, Sessions <- {1, 2, 3}, MaxSessions <- 2, MaxPerPeer <- 1,
    PoolSize <- 2, Stalling <- {}, ClientTimesOut <- FALSE, MayDrop <- {}, reply <- answer, pool <- clients
Gets == INSTANCE RpcServer WITH
    Peers <- {p1, p2}, Users <- {u1, u3}, Sessions <- {1, 2, 3}, MaxSessions <- 1, MaxPerPeer <- 1,
    PoolSize <- 1, Stalling <- {p2}, ClientTimesOut <- FALSE, MayDrop <- {}, reply <- answer, pool <- clients

ASSUME CommsInstances ==
    /\ HandlersAssumption /\ BoundsAssumption
    /\ Responses!SessionAssumption /\ Late!SessionAssumption
    /\ Limits!RpcServerAssumption /\ Counts!RpcServerAssumption /\ Gets!RpcServerAssumption

-----------------------------------------------------------------------------
CommsInit ==
    /\ scenario \in Scenarios
    /\ Init
    /\ Tie!Init
    /\ Responses!Init
    /\ CASE scenario = "gets" -> Gets!Init
         [] scenario = "counts" -> Counts!Init
         [] OTHER -> Limits!Init

OnlyConnectivity == UNCHANGED <<scenario, vars, sessionVars, serverVars>>
OnlyMessaging == UNCHANGED <<scenario, connectivityVars, sessionVars, serverVars>>
OnlySession == UNCHANGED <<scenario, vars, connectivityVars, serverVars>>
OnlyServer == UNCHANGED <<scenario, vars, connectivityVars, sessionVars>>

CommsNext ==
    \/ scenario = "tie" /\ Tie!Next /\ OnlyConnectivity
    \/ scenario = "ban" /\ Ban!Next /\ OnlyConnectivity
    \/ scenario = "messaging" /\ Next /\ OnlyMessaging
    \/ scenario = "responses" /\ Responses!Next /\ OnlySession
    \/ scenario = "late" /\ Late!Next /\ OnlySession
    \/ scenario = "limits" /\ Limits!Next /\ OnlyServer
    \/ scenario = "counts" /\ Counts!Next /\ OnlyServer
    \/ scenario = "gets" /\ Gets!Next /\ OnlyServer

CommsSpec == CommsInit /\ [][CommsNext]_commsVars

(* The fairness of the RPC server, in the scenario that checks liveness: the  *)
(* pool's lock is fair, and the loop of the server turns to sessions that     *)
(* have ended.  That of Messaging asks nothing of the other scenarios, where  *)
(* none of its steps is enabled.                                              *)
ServerFairness ==
    /\ \A u \in {u1, u3} :
        /\ SF_serverVars(scenario = "gets" /\ Gets!LockPool(u))
        /\ WF_serverVars(scenario = "gets" /\ Gets!GetProceeds(u))
    /\ WF_serverVars(scenario = "gets" /\ Gets!ServerProceeds)
    /\ \A s \in {1, 2, 3} :
        /\ WF_serverVars(scenario = "gets" /\ cli[s] = "closed" /\ Gets!SessionEnds(s))
        /\ SF_serverVars(scenario = "gets" /\ Gets!OnSessionComplete(s))

CommsFairSpec == CommsSpec /\ Fairness /\ ServerFairness

-----------------------------------------------------------------------------
(* Once everything has settled the two nodes use the same connection          *)
(* (on_new_connection, handle_connection_manager_event); unless a node that   *)
(* banned the other dropped its own entry.                                    *)
SidesAgree ==
    /\ scenario = "tie" => Tie!SidesAgree
    /\ scenario = "ban" /\ ~ banned[2] => Ban!SidesAgree

(* A caller receives the items of its own request, whole, in their order and  *)
(* without a gap, and all of them if the response ends with the FIN flag      *)
(* (read_response, check_response, process_body).                             *)
OwnResponses ==
    /\ scenario = "responses" => Responses!OwnResponses /\ Responses!FinMeansAll
    /\ scenario = "late" => Late!OwnResponses /\ Late!FinMeansAll

(* The server never runs more sessions than configured, in all or for a peer, *)
(* a session that try_initiate_service admits finds its permit, and the count *)
(* it keeps for a peer is the number of the peer's sessions.                  *)
LimitsHold ==
    /\ scenario = "limits" => Limits!LimitsHold
    /\ scenario = "counts" => Counts!SessionsCounted

-----------------------------------------------------------------------------
During(s, P) == scenario = s /\ P

(* Every call of the pool's get returns, with a lease or an error, although   *)
(* one handshake keeps the server's loop and one connect the pool.            *)
GetReturns ==
    During("gets", user[u1].pc = "waiting") ~> During("gets", user[u1].pc \in {"leased", "idle"})
=============================================================================
