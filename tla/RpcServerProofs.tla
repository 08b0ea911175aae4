-------------------------- MODULE RpcServerProofs --------------------------
(***************************************************************************)
(* Proofs about who gets an RPC session.  A limit is checked when a          *)
(* substream is taken up and used when its handshake is done, with sessions  *)
(* ending and substreams arriving in between.  Admission says what carries   *)
(* the check across: the loop awaits at most the one handshake, a permit     *)
(* stays free while it does, a notified substream is in no other state, and  *)
(* a peer's count is never below the sessions it has.                        *)
(***************************************************************************)
EXTENDS RpcServer, FiniteSetTheorems, TLAPS

States == {"none", "queued", "shaking", "running", "ended", "gone"}
Active == {"shaking", "running", "ended"}

\* The part of TypeOK that the server's loop works on.
ServerTyped ==
    /\ peer \in [Sessions -> Peers \cup {None}]
    /\ srv \in [Sessions -> States]
    /\ notifs \in Seq(Sessions) /\ serving \in Sessions \cup {None}
    /\ count \in [Peers -> 0..MaxPerPeer]

\* A notified substream is queued, and notified once; a substream that the
\* server knows has a peer.
Notified ==
    /\ \A i \in 1..Len(notifs) : srv[notifs[i]] = "queued"
    /\ \A i, j \in 1..Len(notifs) : notifs[i] = notifs[j] => i = j
    /\ \A s \in Sessions : srv[s] \in Active \cup {"queued"} => peer[s] \in Peers

\* The loop awaits one handshake at most, and keeps a permit for it.
OneHandshake ==
    /\ \A s \in Sessions : srv[s] = "shaking" <=> serving = s
    /\ serving # None => CanSpawn

Permits == Cardinality(Running) <= MaxSessions

\* A count may be too high, after a handshake that was broken off, never too low.
Covered == \A p \in Peers : Cardinality(Held(p, Active)) <= count[p]

Admission == ServerTyped /\ Notified /\ OneHandshake /\ Permits /\ Covered

\* The client's steps, which leave the server as it is.
ClientStep == UNCHANGED <<peer, srv, notifs, serving, count>>

\* A substream is notified.
Arrival ==
    \E s \in Sessions, p \in Peers :
        /\ srv[s] \in {"none", "gone"}
        /\ peer' = [peer EXCEPT ![s] = p] /\ srv' = [srv EXCEPT ![s] = "queued"]
        /\ notifs' = Append(notifs, s) /\ UNCHANGED <<serving, count>>

-----------------------------------------------------------------------------
(***************************************************************************)
(* Sets of sessions.                                                        *)
(***************************************************************************)
LEMMA SessionsFinite == ASSUME RpcServerAssumption PROVE IsFiniteSet(Sessions) /\ Sessions \subseteq Nat
  <1>1. PICK n \in Sessions : Sessions = 1..n  BY DEF RpcServerAssumption
  <1>2. CASE n \in Int
    BY <1>1, <1>2, FS_Interval
  <1>3. n \in Int  BY <1>1
  <1> QED  BY <1>2, <1>3

\* A set of sessions has a number of elements, at least that of a subset.
LEMMA Fewer ==
    ASSUME RpcServerAssumption, NEW B \in SUBSET Sessions, NEW A \in SUBSET B
    PROVE  Cardinality(A) \in Nat /\ Cardinality(B) \in Nat /\ Cardinality(A) <= Cardinality(B)
  <1>1. IsFiniteSet(B)  BY SessionsFinite, FS_Subset
  <1>2. IsFiniteSet(A) /\ Cardinality(A) <= Cardinality(B)  BY <1>1, FS_Subset
  <1> QED  BY <1>1, <1>2, FS_CardinalityType

\* One more session, and one less.
LEMMA OneMore ==
    ASSUME RpcServerAssumption, NEW B \in SUBSET Sessions, NEW s \in Sessions
    PROVE  /\ Cardinality(B \cup {s}) <= Cardinality(B) + 1
           /\ s \notin B => Cardinality(B \cup {s}) = Cardinality(B) + 1
           /\ s \in B => Cardinality(B \ {s}) = Cardinality(B) - 1
  <1>1. IsFiniteSet(B)  BY SessionsFinite, FS_Subset
  <1>2. Cardinality(B) \in Nat  BY <1>1, FS_CardinalityType
  <1>3. Cardinality(B \cup {s}) = IF s \in B THEN Cardinality(B) ELSE Cardinality(B) + 1
    BY <1>1, FS_AddElement
  <1>4. Cardinality(B \ {s}) = IF s \in B THEN Cardinality(B) - 1 ELSE Cardinality(B)
    BY <1>1, FS_RemoveElement
  <1> QED  BY <1>2, <1>3, <1>4

\* A session changes its state at the server.
LEMMA StateChanged ==
    ASSUME ServerTyped, NEW s \in Sessions, NEW w \in States, srv' = [srv EXCEPT ![s] = w], peer' = peer
    PROVE  /\ Running' = IF w = "running" THEN Running \cup {s} ELSE Running \ {s}
           /\ \A p \in Peers : Held(p, Active)' = IF w \in Active /\ peer[s] = p
                                                   THEN Held(p, Active) \cup {s} ELSE Held(p, Active) \ {s}
  <1>1. \A t \in Sessions : srv'[t] = IF t = s THEN w ELSE srv[t]  BY DEF ServerTyped
  <1> QED  BY <1>1 DEF Running, Held

-----------------------------------------------------------------------------
(***************************************************************************)
(* The steps of the loop.                                                   *)
(***************************************************************************)
LEMMA Constants ==
    ASSUME RpcServerAssumption
    PROVE  None \notin Sessions /\ MaxSessions \in Nat \ {0} /\ MaxPerPeer \in Nat \ {0}
  BY DEF RpcServerAssumption

LEMMA RunningHeld ==
    /\ Running \in SUBSET Sessions
    /\ \A p \in Peers : Held(p, Active) \in SUBSET Sessions
  BY DEF Running, Held

\* A step that leaves the server as it is.
LEMMA ClientKeeps == ASSUME Admission, ClientStep PROVE Admission'
  <1>1. Running' = Running /\ \A p \in Peers : Held(p, Active)' = Held(p, Active)
    BY DEF ClientStep, Running, Held
  <1>2. CanSpawn' = CanSpawn /\ Permits' = Permits  BY <1>1 DEF CanSpawn, Permits
  <1>3. Covered'  BY <1>1 DEF Covered, Admission, ClientStep
  <1>4. ServerTyped'  BY DEF ServerTyped, Admission, ClientStep
  <1>5. Notified'  BY DEF Notified, Admission, ClientStep
  <1>6. OneHandshake'  BY <1>2 DEF OneHandshake, Admission, ClientStep
  <1> QED  BY <1>2, <1>3, <1>4, <1>5, <1>6 DEF Admission

\* A substream is notified: it is neither notified already nor held.
LEMMA ArrivalKeeps == ASSUME RpcServerAssumption, Admission, Arrival PROVE Admission'
  <1>1. PICK s \in Sessions, p \in Peers :
            /\ srv[s] \in {"none", "gone"}
            /\ peer' = [peer EXCEPT ![s] = p] /\ srv' = [srv EXCEPT ![s] = "queued"]
            /\ notifs' = Append(notifs, s) /\ serving' = serving /\ count' = count
    BY Zenon DEF Arrival
  <1>2. ServerTyped  BY DEF Admission
  <1>3. /\ srv'[s] = "queued" /\ peer'[s] = p
        /\ \A t \in Sessions \ {s} : srv'[t] = srv[t] /\ peer'[t] = peer[t]
    BY <1>1, <1>2 DEF ServerTyped
  <1>4. srv[s] \notin Active \cup {"queued"}  BY <1>1 DEF Active
  <1>5. Running' = Running  BY <1>1, <1>3 DEF Running
  <1>6. ASSUME NEW q \in Peers PROVE Held(q, Active)' = Held(q, Active)
    <2>1. \A t \in Sessions : t \in Held(q, Active)' <=> t \in Held(q, Active)
      BY <1>3, <1>4 DEF Held, Active
    <2> QED  BY <2>1 DEF Held
  <1>7. ServerTyped'
    BY <1>1, <1>2 DEF ServerTyped, States
  <1>8. Notified'
    <2>1. notifs \in Seq(Sessions)  BY <1>2 DEF ServerTyped
    <2>2. /\ Len(notifs') = Len(notifs) + 1 /\ notifs'[Len(notifs) + 1] = s
          /\ \A i \in 1..Len(notifs) : notifs'[i] = notifs[i] /\ notifs[i] \in Sessions
      BY <1>1, <2>1
    <2>3. \A i \in 1..Len(notifs) : srv[notifs[i]] = "queued"  BY DEF Admission, Notified
    <2>4. \A i \in 1..Len(notifs) : notifs[i] # s  BY <1>4, <2>3
    <2>5. \A i \in 1..Len(notifs') : i \in 1..Len(notifs) \/ i = Len(notifs) + 1  BY <2>1, <2>2
    <2>6. \A i \in 1..Len(notifs') : srv'[notifs'[i]] = "queued"  BY <1>3, <2>2, <2>3, <2>4, <2>5
    <2>7. \A i, j \in 1..Len(notifs) : notifs[i] = notifs[j] => i = j  BY DEF Admission, Notified
    <2>8. \A i, j \in 1..Len(notifs') : notifs'[i] = notifs'[j] => i = j
      BY <2>2, <2>4, <2>5, <2>7, Zenon
    <2>9. \A t \in Sessions : srv'[t] \in Active \cup {"queued"} => peer'[t] \in Peers
      BY <1>3 DEF Admission, Notified
    <2> QED  BY <2>6, <2>8, <2>9 DEF Notified
  <1>9. OneHandshake'
    BY <1>1, <1>3, <1>4, <1>5 DEF OneHandshake, Admission, CanSpawn, Active
  <1>10. Permits' /\ Covered'
    BY <1>1, <1>5, <1>6 DEF Permits, Covered, Admission
  <1> QED  BY <1>7, <1>8, <1>9, <1>10 DEF Admission

\* A substream is taken up: it leaves the queue, and is awaited or refused.
LEMMA NotificationTaken ==
    ASSUME Admission, notifs # <<>>, notifs' = Tail(notifs), peer' = peer, NEW w \in States,
           srv' = [srv EXCEPT ![Head(notifs)] = w]
    PROVE  /\ Head(notifs) \in Sessions /\ peer[Head(notifs)] \in Peers /\ srv[Head(notifs)] = "queued"
           /\ notifs' \in Seq(Sessions) /\ Notified'
  <1> DEFINE s == Head(notifs)
  <1>1. ServerTyped /\ Notified  BY DEF Admission
  <1>2. notifs \in Seq(Sessions)  BY <1>1 DEF ServerTyped
  <1>3. /\ s = notifs[1] /\ 1 \in 1..Len(notifs) /\ s \in Sessions /\ notifs' \in Seq(Sessions)
        /\ Len(notifs') = Len(notifs) - 1
        /\ \A i \in 1..Len(notifs') : notifs'[i] = notifs[i + 1] /\ i + 1 \in 1..Len(notifs) /\ i + 1 # 1 /\ i \in Int
        /\ \A i \in 1..Len(notifs) : notifs[i] \in Sessions
    BY <1>2
  <1>4. srv[s] = "queued" /\ peer[s] \in Peers  BY <1>1, <1>3 DEF Notified
  <1>5. srv'[s] = w /\ \A t \in Sessions \ {s} : srv'[t] = srv[t]  BY <1>1, <1>3 DEF ServerTyped
  <1>6. \A i \in 1..Len(notifs') : notifs'[i] # s  BY <1>1, <1>3 DEF Notified
  <1>7. \A i \in 1..Len(notifs') : srv'[notifs'[i]] = "queued"
    BY <1>1, <1>3, <1>5, <1>6 DEF Notified
  <1>8. \A i, j \in 1..Len(notifs') : i + 1 = j + 1 => i = j  BY <1>3
  <1>9. \A i, j \in 1..Len(notifs') : notifs'[i] = notifs'[j] => i = j
    BY <1>1, <1>3, <1>8 DEF Notified
  <1>10. \A t \in Sessions : srv'[t] \in Active \cup {"queued"} => peer'[t] \in Peers
    BY <1>1, <1>4, <1>5 DEF Notified
  <1> QED  BY <1>3, <1>4, <1>7, <1>9, <1>10 DEF Notified

\* A session that the server holds goes on to another state.
LEMMA HeldGoesOn ==
    ASSUME Admission, NEW s \in Sessions, srv[s] \in Active, NEW w \in {"running", "ended", "gone"},
           srv' = [srv EXCEPT ![s] = w], peer' = peer, notifs' = notifs
    PROVE  /\ Notified' /\ srv' \in [Sessions -> States]
           /\ srv'[s] = w /\ \A t \in Sessions \ {s} : srv'[t] = srv[t]
  <1>1. ServerTyped /\ Notified  BY DEF Admission
  <1>2. srv'[s] = w /\ \A t \in Sessions \ {s} : srv'[t] = srv[t]  BY <1>1 DEF ServerTyped
  <1>3. srv' \in [Sessions -> States]  BY <1>1 DEF ServerTyped, States
  <1>4. \A i \in 1..Len(notifs) : notifs[i] \in Sessions  BY <1>1 DEF ServerTyped
  <1>5. \A i \in 1..Len(notifs) : notifs[i] # s  BY <1>1 DEF Notified, Active
  <1>6. \A i \in 1..Len(notifs') : srv'[notifs'[i]] = "queued"  BY <1>1, <1>2, <1>4, <1>5 DEF Notified
  <1>7. \A t \in Sessions : srv'[t] \in Active \cup {"queued"} => peer'[t] \in Peers
    BY <1>1, <1>2 DEF Notified
  <1> QED  BY <1>1, <1>2, <1>3, <1>6, <1>7 DEF Notified

\* try_initiate_service up to the handshake.
LEMMA NotificationKeeps == ASSUME RpcServerAssumption, Admission, HandleNotification PROVE Admission'
  <1>a. /\ serving = None /\ notifs # <<>> /\ notifs' = Tail(notifs) /\ peer' = peer
        /\ \E w \in {"shaking", "gone"} : srv' = [srv EXCEPT ![Head(notifs)] = w]
    BY DEF HandleNotification
  <1>b. /\ Head(notifs) \in Sessions /\ peer[Head(notifs)] \in Peers /\ srv[Head(notifs)] = "queued"
        /\ notifs' \in Seq(Sessions) /\ Notified'
    BY <1>a, NotificationTaken, Zenon DEF States
  <1>c. PICK s \in Sessions, p \in Peers : s = Head(notifs) /\ p = peer[s]
    BY <1>b
  <1>1. /\ serving = None /\ notifs # <<>> /\ notifs' = Tail(notifs) /\ peer' = peer
        /\ \/ /\ CanSpawn /\ count[p] < MaxPerPeer /\ count' = [count EXCEPT ![p] = @ + 1]
              /\ srv' = [srv EXCEPT ![s] = "shaking"] /\ serving' = s
           \/ srv' = [srv EXCEPT ![s] = "gone"] /\ count' = count /\ serving' = serving
    BY <1>c DEF HandleNotification, NewSessionFor
  <1>2. ServerTyped /\ OneHandshake /\ Permits /\ Covered  BY DEF Admission
  <1>3. p = peer[s] /\ srv[s] = "queued" /\ notifs' \in Seq(Sessions) /\ Notified'
    BY <1>b, <1>c
  <1>4. s \notin Running /\ \A q \in Peers : s \notin Held(q, Active)
    BY <1>3 DEF Running, Held, Active
  <1>5. ASSUME CanSpawn, count[p] < MaxPerPeer, count' = [count EXCEPT ![p] = @ + 1],
               srv' = [srv EXCEPT ![s] = "shaking"], serving' = s
        PROVE  Admission'
    <2>1. srv'[s] = "shaking" /\ \A t \in Sessions \ {s} : srv'[t] = srv[t]  BY <1>2, <1>3, <1>5 DEF ServerTyped
    <2>2. Running' = Running \ {s}  BY <1>1, <1>2, <1>3, <1>5, StateChanged, Zenon DEF States
    <2>3. Running' = Running  BY <1>4, <2>2
    <2>4. \A q \in Peers : Held(q, Active)' = IF p = q THEN Held(q, Active) \cup {s} ELSE Held(q, Active) \ {s}
      BY <1>1, <1>2, <1>3, <1>5, StateChanged, Zenon DEF States, Active
    <2>5. \A q \in Peers : q # p => Held(q, Active)' = Held(q, Active)  BY <1>4, <2>4
    <2>6. count[p] \in 0..MaxPerPeer /\ count'[p] = count[p] + 1 /\ \A q \in Peers \ {p} : count'[q] = count[q]
      BY <1>2, <1>3, <1>5 DEF ServerTyped
    <2>7. count' \in [Peers -> 0..MaxPerPeer]  BY <1>2, <1>3, <1>5, <2>6, Constants DEF ServerTyped
    <2>8. srv' \in [Sessions -> States]  BY <1>2, <1>5 DEF ServerTyped, States
    <2>9. ServerTyped'  BY <1>1, <1>2, <1>3, <1>5, <2>7, <2>8 DEF ServerTyped
    <2>10. OneHandshake'
      BY <1>1, <1>2, <1>3, <1>5, <2>1, <2>3, Constants DEF OneHandshake, CanSpawn
    <2>11. Permits'  BY <1>2, <2>3 DEF Permits
    <2>12. Cardinality(Held(p, Active)') <= count'[p]
      <3>1. Cardinality(Held(p, Active)) \in Nat  BY Fewer, RunningHeld, <1>3
      <3>2. Cardinality(Held(p, Active) \cup {s}) \in Nat  BY Fewer, RunningHeld, <1>3
      <3>3. Cardinality(Held(p, Active) \cup {s}) <= Cardinality(Held(p, Active)) + 1
        BY OneMore, RunningHeld, <1>3, Zenon
      <3>4. Cardinality(Held(p, Active)) <= count[p]  BY <1>2, <1>3 DEF Covered
      <3>5. Held(p, Active)' = Held(p, Active) \cup {s}  BY <1>3, <2>4
      <3> QED  BY <2>6, <3>1, <3>2, <3>3, <3>4, <3>5
    <2>13. Covered'
      <3>1. SUFFICES ASSUME NEW q \in Peers PROVE Cardinality(Held(q, Active)') <= count'[q]
        BY DEF Covered
      <3>2. CASE q = p  BY <2>12, <3>2
      <3>3. CASE q # p  BY <1>2, <2>5, <2>6, <3>3 DEF Covered
      <3> QED  BY <3>2, <3>3
    <2> QED  BY <1>3, <2>9, <2>10, <2>11, <2>13 DEF Admission
  <1>6. ASSUME srv' = [srv EXCEPT ![s] = "gone"], count' = count, serving' = serving
        PROVE  Admission'
    <2>1. srv'[s] = "gone" /\ \A t \in Sessions \ {s} : srv'[t] = srv[t]  BY <1>2, <1>3, <1>6 DEF ServerTyped
    <2>2. Running' = Running \ {s} /\ \A q \in Peers : Held(q, Active)' = Held(q, Active) \ {s}
      BY <1>1, <1>2, <1>3, <1>6, StateChanged, Zenon DEF States, Active
    <2>3. Running' = Running /\ \A q \in Peers : Held(q, Active)' = Held(q, Active)  BY <1>4, <2>2
    <2>4. srv' \in [Sessions -> States]  BY <1>2, <1>6 DEF ServerTyped, States
    <2>5. ServerTyped'  BY <1>1, <1>2, <1>3, <1>6, <2>4 DEF ServerTyped
    <2>6. OneHandshake'
      BY <1>1, <1>2, <1>3, <1>6, <2>1, <2>3, Constants DEF OneHandshake, CanSpawn
    <2>7. Permits' /\ Covered'  BY <1>2, <1>6, <2>3 DEF Permits, Covered
    <2> QED  BY <1>3, <2>5, <2>6, <2>7 DEF Admission
  <1> QED  BY <1>1, <1>5, <1>6

\* The handshake ends: the session runs with the permit kept for it, or is given up.
LEMMA HandshakeKeeps ==
    ASSUME RpcServerAssumption, Admission, HandshakeDone \/ HandshakeAborted
    PROVE  Admission'
  <1>1. ServerTyped /\ OneHandshake /\ Permits /\ Covered  BY DEF Admission
  <1>2. serving # None  BY DEF HandshakeDone, HandshakeAborted
  <1>3. PICK s \in Sessions : s = serving  BY <1>1, <1>2 DEF ServerTyped
  <1>4. srv[s] = "shaking" /\ CanSpawn  BY <1>1, <1>2, <1>3 DEF OneHandshake
  <1>5. PICK w \in {"running", "gone"} : srv' = [srv EXCEPT ![s] = w]
    BY <1>3, <1>4 DEF HandshakeDone, HandshakeAborted
  <1>6. serving' = None /\ peer' = peer /\ notifs' = notifs /\ count' = count
    BY DEF HandshakeDone, HandshakeAborted
  <1>7. /\ Notified' /\ srv' \in [Sessions -> States]
        /\ srv'[s] = w /\ \A t \in Sessions \ {s} : srv'[t] = srv[t]
    BY <1>4, <1>5, <1>6, HeldGoesOn, Zenon DEF Active
  <1>8. ServerTyped'  BY <1>1, <1>6, <1>7 DEF ServerTyped
  <1>9. OneHandshake'  BY <1>1, <1>3, <1>5, <1>6, <1>7, Constants DEF OneHandshake
  <1>10. /\ Running' \in SUBSET (Running \cup {s})
         /\ \A p \in Peers : Held(p, Active)' \in SUBSET Held(p, Active)
    BY <1>4, <1>6, <1>7 DEF Running, Held, Active
  <1>11. Permits'
    <2>1. Running \in SUBSET Sessions /\ Running \cup {s} \in SUBSET Sessions  BY RunningHeld
    <2>2. Cardinality(Running) \in Nat  BY <2>1, Fewer
    <2>3. Cardinality(Running \cup {s}) <= Cardinality(Running) + 1  BY <2>1, OneMore, Zenon
    <2>4. /\ Cardinality(Running') <= Cardinality(Running \cup {s})
          /\ Cardinality(Running') \in Nat /\ Cardinality(Running \cup {s}) \in Nat
      BY <1>10, <2>1, Fewer
    <2> QED  BY <1>4, <2>2, <2>3, <2>4, Constants DEF Permits, CanSpawn
  <1>12. Covered'
    <2>1. SUFFICES ASSUME NEW p \in Peers PROVE Cardinality(Held(p, Active)') <= count'[p]
      BY DEF Covered
    <2>2. /\ Cardinality(Held(p, Active)') <= Cardinality(Held(p, Active))
          /\ Cardinality(Held(p, Active)') \in Nat /\ Cardinality(Held(p, Active)) \in Nat
      BY <1>10, RunningHeld, Fewer
    <2>3. Cardinality(Held(p, Active)) <= count[p] /\ count[p] \in 0..MaxPerPeer
      BY <1>1 DEF Covered, ServerTyped
    <2> QED  BY <1>6, <2>2, <2>3
  <1> QED  BY <1>7, <1>8, <1>9, <1>11, <1>12 DEF Admission

\* A session's task ends, which frees its permit and leaves it in the count.
LEMMA SessionEndKeeps ==
    ASSUME RpcServerAssumption, Admission, NEW s \in Sessions, SessionEnds(s)
    PROVE  Admission'
  <1>1. ServerTyped /\ OneHandshake /\ Permits /\ Covered  BY DEF Admission
  <1>2. /\ srv[s] = "running" /\ srv' = [srv EXCEPT ![s] = "ended"]
        /\ peer' = peer /\ notifs' = notifs /\ serving' = serving /\ count' = count
    BY DEF SessionEnds
  <1>3. /\ Notified' /\ srv' \in [Sessions -> States]
        /\ srv'[s] = "ended" /\ \A t \in Sessions \ {s} : srv'[t] = srv[t]
    BY <1>2, HeldGoesOn, Zenon DEF Active
  <1>4. ServerTyped'  BY <1>1, <1>2, <1>3 DEF ServerTyped
  <1>5. /\ Running' \in SUBSET Running
        /\ \A p \in Peers : Held(p, Active)' = Held(p, Active)
    BY <1>2, <1>3 DEF Running, Held, Active
  <1>6. /\ Cardinality(Running') <= Cardinality(Running)
        /\ Cardinality(Running') \in Nat /\ Cardinality(Running) \in Nat
    BY <1>5, RunningHeld, Fewer
  <1>7. Permits' /\ (CanSpawn => CanSpawn')  BY <1>1, <1>6, Constants DEF Permits, CanSpawn
  <1>8. OneHandshake'  BY <1>1, <1>2, <1>3, <1>7 DEF OneHandshake
  <1>9. Covered'  BY <1>1, <1>2, <1>5 DEF Covered
  <1> QED  BY <1>3, <1>4, <1>7, <1>8, <1>9 DEF Admission

\* on_session_complete: the session goes, and one is taken from its peer's count.
LEMMA CompleteKeeps ==
    ASSUME RpcServerAssumption, Admission, NEW s \in Sessions, OnSessionComplete(s)
    PROVE  Admission'
  <1>1. ServerTyped /\ Notified /\ OneHandshake /\ Permits /\ Covered  BY DEF Admission
  <1>2. srv[s] = "ended" /\ peer[s] \in Peers  BY <1>1 DEF OnSessionComplete, Notified, Active
  <1>3. PICK p \in Peers : p = peer[s]  BY <1>2
  <1>4. /\ serving = None /\ srv' = [srv EXCEPT ![s] = "gone"] /\ count' = [count EXCEPT ![p] = @ - 1]
        /\ peer' = peer /\ notifs' = notifs /\ serving' = serving
    BY <1>3 DEF OnSessionComplete
  <1>5. /\ Notified' /\ srv' \in [Sessions -> States]
        /\ srv'[s] = "gone" /\ \A t \in Sessions \ {s} : srv'[t] = srv[t]
    BY <1>2, <1>4, HeldGoesOn, Zenon DEF Active
  <1>6. Running' = Running  BY <1>2, <1>5 DEF Running
  <1>7. /\ s \in Held(p, Active)
        /\ \A q \in Peers : Held(q, Active)' = IF q = p THEN Held(q, Active) \ {s} ELSE Held(q, Active)
    BY <1>2, <1>3, <1>4, <1>5 DEF Held, Active
  <1>8. /\ Cardinality(Held(p, Active)') = Cardinality(Held(p, Active)) - 1
        /\ Cardinality(Held(p, Active)') \in Nat /\ Cardinality(Held(p, Active)) \in Nat
    <2>1. Held(p, Active)' = Held(p, Active) \ {s}  BY <1>7
    <2>2. Held(p, Active) \in SUBSET Sessions /\ Held(p, Active) \ {s} \in SUBSET Held(p, Active)
      BY RunningHeld
    <2> QED  BY <1>7, <2>1, <2>2, OneMore, Fewer
  <1>9. Cardinality(Held(p, Active)) <= count[p] /\ count[p] \in 0..MaxPerPeer
    BY <1>1 DEF Covered, ServerTyped
  <1>10. count'[p] = count[p] - 1 /\ \A q \in Peers \ {p} : count'[q] = count[q]
    BY <1>1, <1>4 DEF ServerTyped
  <1>11. count[p] - 1 \in 0..MaxPerPeer  BY <1>8, <1>9, Constants
  <1>12. ServerTyped'  BY <1>1, <1>4, <1>5, <1>11 DEF ServerTyped
  <1>13. OneHandshake'  BY <1>1, <1>4, <1>5, <1>6, Constants DEF OneHandshake
  <1>14. Permits'  BY <1>1, <1>6 DEF Permits
  <1>15. Covered'
    <2>1. SUFFICES ASSUME NEW q \in Peers PROVE Cardinality(Held(q, Active)') <= count'[q]
      BY DEF Covered
    <2>2. CASE q = p  BY <1>8, <1>9, <1>10, <2>2
    <2>3. CASE q # p  BY <1>1, <1>7, <1>10, <2>3 DEF Covered
    <2> QED  BY <2>2, <2>3
  <1> QED  BY <1>5, <1>12, <1>13, <1>14, <1>15 DEF Admission

-----------------------------------------------------------------------------
(***************************************************************************)
(* The results.                                                             *)
(***************************************************************************)
LEMMA ServerSteps ==
    ASSUME RpcServerAssumption, [Next]_vars
    PROVE  \/ ClientStep \/ Arrival \/ HandleNotification \/ HandshakeDone \/ HandshakeAborted
           \/ \E s \in Sessions : SessionEnds(s) \/ OnSessionComplete(s)
  <1>1. CASE UNCHANGED vars  BY <1>1 DEF vars, serverVars, ClientStep
  <1>2. ASSUME NEW u \in Users, Get(u) \/ LockPool(u) \/ ChooseLease(u) \/ Answered(u) \/ HandshakeFails(u) \/ Release(u)
        PROVE  ClientStep
    <2>1. UNCHANGED <<peer, serverVars>>
      BY <1>2, Zenon DEF Get, LockPool, ChooseLease, Answered, HandshakeFails, Release
    <2> QED  BY <2>1 DEF serverVars, ClientStep
  <1>3. ASSUME NEW u \in Users, ConnectNew(u) PROVE Arrival
    <2>1. PeerOf[u] \in Peers  BY DEF RpcServerAssumption
    <2>2. PICK s \in Sessions :
            /\ Forgotten(s)
            /\ peer' = [peer EXCEPT ![s] = PeerOf[u]] /\ srv' = [srv EXCEPT ![s] = "queued"]
            /\ notifs' = Append(notifs, s)
      BY <1>3, Zenon DEF ConnectNew
    <2>3. serving' = serving /\ count' = count  BY <1>3 DEF ConnectNew
    <2>4. srv[s] \in {"none", "gone"}  BY <2>2 DEF Forgotten
    <2> QED  BY <2>1, <2>2, <2>3, <2>4, Zenon DEF Arrival
  <1>4. ASSUME NEW s \in Sessions, CloseSession(s) PROVE ClientStep
    BY <1>4 DEF CloseSession, ClientStep, serverVars
  <1>5. ASSUME NEW p \in Peers, DropConnection(p) PROVE ClientStep
    <2>1. UNCHANGED <<peer, serverVars>>  BY <1>5, Zenon DEF DropConnection
    <2> QED  BY <2>1 DEF ClientStep, serverVars
  <1> QED  BY <1>1, <1>2, <1>3, <1>4, <1>5, Zenon DEF Next, GetProceeds

LEMMA AdmissionStep == ASSUME RpcServerAssumption, Admission, [Next]_vars PROVE Admission'
  <1>1. CASE ClientStep  BY <1>1, ClientKeeps
  <1>2. CASE Arrival  BY <1>2, ArrivalKeeps
  <1>3. CASE HandleNotification  BY <1>3, NotificationKeeps
  <1>4. CASE HandshakeDone \/ HandshakeAborted  BY <1>4, HandshakeKeeps
  <1>5. ASSUME NEW s \in Sessions, SessionEnds(s) PROVE Admission'  BY <1>5, SessionEndKeeps
  <1>6. ASSUME NEW s \in Sessions, OnSessionComplete(s) PROVE Admission'  BY <1>6, CompleteKeeps
  <1> QED  BY <1>1, <1>2, <1>3, <1>4, <1>5, <1>6, ServerSteps, Zenon

LEMMA AdmissionInit == ASSUME RpcServerAssumption, Init PROVE Admission
  <1>1. ServerTyped  BY Constants DEF Init, ServerTyped, States
  <1>2. Notified  BY DEF Init, Notified, Active
  <1>3. Running = {} /\ \A p \in Peers : Held(p, Active) = {}  BY DEF Init, Running, Held, Active
  <1>4. Cardinality({}) = 0  BY FS_EmptySet
  <1>5. Permits  BY <1>3, <1>4, Constants DEF Permits
  <1>6. Covered
    <2>1. \A p \in Peers : count[p] = 0  BY DEF Init
    <2>2. \A p \in Peers : Cardinality(Held(p, Active)) = 0  BY <1>3, <1>4
    <2> QED  BY <2>1, <2>2 DEF Covered
  <1>7. OneHandshake  BY Constants DEF Init, OneHandshake
  <1> QED  BY <1>1, <1>2, <1>5, <1>6, <1>7 DEF Admission

\* The limits follow: what a peer's handshakes and running sessions are is at
\* most its count, and the count is at most the limit.
LEMMA AdmissionLimits == ASSUME RpcServerAssumption, Admission PROVE LimitsHold
  <1>1. ServerTyped /\ OneHandshake /\ Permits /\ Covered  BY DEF Admission
  <1>2. ASSUME NEW p \in Peers PROVE Cardinality(Held(p, {"shaking", "running"})) <= MaxPerPeer
    <2>1. Held(p, {"shaking", "running"}) \in SUBSET Held(p, Active)  BY DEF Held, Active
    <2>2. /\ Cardinality(Held(p, {"shaking", "running"})) <= Cardinality(Held(p, Active))
          /\ Cardinality(Held(p, {"shaking", "running"})) \in Nat /\ Cardinality(Held(p, Active)) \in Nat
      BY <2>1, RunningHeld, Fewer
    <2>3. Cardinality(Held(p, Active)) <= count[p] /\ count[p] \in 0..MaxPerPeer
      BY <1>1 DEF Covered, ServerTyped
    <2> QED  BY <2>2, <2>3, Constants
  <1> QED  BY <1>1, <1>2 DEF LimitsHold, Permits, OneHandshake

\* For any number of peers, callers and substreams and any limits, the server
\* never runs more sessions than configured, in all or for a peer, and a
\* session admitted by try_initiate_service finds its permit when its handshake
\* is done, whatever stalls, is broken off, drops or ends in between.
THEOREM LimitsKept == ASSUME RpcServerAssumption PROVE Spec => []LimitsHold
  <1>1. Init => Admission  BY AdmissionInit
  <1>2. Admission /\ [Next]_vars => Admission'  BY AdmissionStep
  <1>3. Admission => LimitsHold  BY AdmissionLimits
  <1> QED  BY <1>1, <1>2, <1>3, PTL DEF Spec

-----------------------------------------------------------------------------
(***************************************************************************)
(* Where no handshake is broken off, the count is exact.                     *)
(***************************************************************************)
NothingBreaksOff == Stalling = {} /\ MayDrop = {} /\ ClientTimesOut = FALSE

\* The client of a substream whose handshake is not answered waits for it.
ClientsWait ==
    /\ cli \in [Sessions -> {"none", "connecting", "open", "closed"}]
    /\ reply \in [Sessions -> {"none", "ok", "full"}]
    /\ \A s \in Sessions : srv[s] \in {"queued", "shaking"} => cli[s] = "connecting" /\ reply[s] = "none"

\* A client closes or opens a substream only when its handshake is answered.
LEMMA ClientOfOther ==
    ASSUME ClientsWait, NEW x, NEW w \in {"open", "closed"}, cli' = [cli EXCEPT ![x] = w],
           x \in Sessions => srv[x] \notin {"queued", "shaking"}, srv' = srv, reply' = reply
    PROVE  ClientsWait'
  <1>1. \A s \in Sessions : cli'[s] = IF s = x THEN w ELSE cli[s]  BY DEF ClientsWait
  <1>2. cli' \in [Sessions -> {"none", "connecting", "open", "closed"}]  BY Zenon DEF ClientsWait
  <1>3. \A s \in Sessions : srv'[s] \in {"queued", "shaking"} => cli'[s] = "connecting" /\ reply'[s] = "none"
    BY <1>1 DEF ClientsWait
  <1> QED  BY <1>2, <1>3 DEF ClientsWait

LEMMA WaitStep ==
    ASSUME RpcServerAssumption, NothingBreaksOff, Admission, ClientsWait, [Next]_vars
    PROVE  ClientsWait'
  <1>1. CASE UNCHANGED vars
    <2>1. UNCHANGED <<serverVars, clientVars>>  BY <1>1, Zenon DEF vars
    <2> QED  BY <2>1 DEF ClientsWait, serverVars, clientVars
  <1>2. ASSUME NEW u \in Users, Get(u) \/ LockPool(u) \/ ChooseLease(u) \/ Release(u) PROVE ClientsWait'
    <2>1. UNCHANGED serverVars /\ UNCHANGED cli
      BY <1>2, Zenon DEF Get, LockPool, ChooseLease, Release
    <2> QED  BY <2>1 DEF ClientsWait, serverVars
  <1>3. ASSUME NEW u \in Users, ConnectNew(u) PROVE ClientsWait'
    <2>1. PICK s \in Sessions :
            /\ srv' = [srv EXCEPT ![s] = "queued"] /\ cli' = [cli EXCEPT ![s] = "connecting"]
            /\ reply' = [reply EXCEPT ![s] = "none"]
      BY <1>3, Zenon DEF ConnectNew
    <2>2. srv \in [Sessions -> States]  BY DEF Admission, ServerTyped
    <2> QED  BY <2>1, <2>2 DEF ClientsWait
  <1>4. ASSUME NEW u \in Users, Answered(u) PROVE ClientsWait'
    <2>1. UNCHANGED serverVars  BY <1>4, Zenon DEF Answered
    <2>2. /\ reply[user[u].s] \in {"ok", "full"}
          /\ \E w \in {"open", "closed"} : cli' = [cli EXCEPT ![user[u].s] = w]
      BY <1>4 DEF Answered
    <2>3. user[u].s \in Sessions => srv[user[u].s] \notin {"queued", "shaking"}
      BY <2>2 DEF ClientsWait
    <2> QED  BY <2>1, <2>2, <2>3, ClientOfOther, Zenon DEF serverVars
  <1>5. ASSUME NEW u \in Users, HandshakeFails(u) PROVE ClientsWait'
    <2>1. UNCHANGED serverVars /\ cli' = [cli EXCEPT ![user[u].s] = "closed"]
      BY <1>5, Zenon DEF HandshakeFails
    <2>2. srv[user[u].s] = "gone" \/ cli[user[u].s] = "closed"
      BY <1>5 DEF HandshakeFails, NothingBreaksOff
    <2>3. user[u].s \in Sessions => srv[user[u].s] \notin {"queued", "shaking"}
      BY <2>2 DEF ClientsWait
    <2> QED  BY <2>1, <2>3, ClientOfOther, Zenon DEF serverVars
  <1>6. ASSUME NEW s \in Sessions, CloseSession(s) PROVE ClientsWait'
    <2>1. UNCHANGED serverVars /\ cli' = [cli EXCEPT ![s] = "closed"] /\ cli[s] = "open"
      BY <1>6, Zenon DEF CloseSession
    <2>2. srv[s] \notin {"queued", "shaking"}  BY <2>1 DEF ClientsWait
    <2> QED  BY <2>1, <2>2, ClientOfOther, Zenon DEF serverVars
  <1>7. ASSUME NEW s \in Sessions, SessionEnds(s) \/ OnSessionComplete(s) PROVE ClientsWait'
    <2>1. srv \in [Sessions -> States]  BY DEF Admission, ServerTyped
    <2>2. reply' = reply /\ \E w \in {"ended", "gone"} : srv' = [srv EXCEPT ![s] = w]
      BY <1>7 DEF SessionEnds, OnSessionComplete
    <2>3. cli' = cli \/ cli' = [cli EXCEPT ![s] = IF @ = "none" THEN @ ELSE "closed"]
      BY <1>7 DEF SessionEnds, OnSessionComplete, clientVars
    <2>4. srv'[s] \in {"ended", "gone"} /\ \A t \in Sessions \ {s} : srv'[t] = srv[t] /\ cli'[t] = cli[t]
      BY <2>1, <2>2, <2>3 DEF ClientsWait
    <2>5. cli' \in [Sessions -> {"none", "connecting", "open", "closed"}]  BY <2>3 DEF ClientsWait
    <2> QED  BY <2>2, <2>4, <2>5 DEF ClientsWait
  <1>8. CASE HandleNotification
    <2>1. /\ notifs # <<>> /\ notifs' = Tail(notifs) /\ peer' = peer /\ UNCHANGED clientVars
          /\ \/ srv' = [srv EXCEPT ![Head(notifs)] = "shaking"] /\ reply' = reply
             \/ srv' = [srv EXCEPT ![Head(notifs)] = "gone"] /\ reply' = [reply EXCEPT ![Head(notifs)] = "full"]
      BY <1>8, Zenon DEF HandleNotification
    <2>2. Head(notifs) \in Sessions /\ srv[Head(notifs)] = "queued"
      BY <2>1, NotificationTaken DEF States
    <2>3. srv \in [Sessions -> States]  BY DEF Admission, ServerTyped
    <2>4. cli' = cli  BY <2>1 DEF clientVars
    <2>5. CASE srv' = [srv EXCEPT ![Head(notifs)] = "shaking"] /\ reply' = reply
      BY <2>2, <2>3, <2>4, <2>5 DEF ClientsWait
    <2>6. CASE srv' = [srv EXCEPT ![Head(notifs)] = "gone"] /\ reply' = [reply EXCEPT ![Head(notifs)] = "full"]
      BY <2>2, <2>3, <2>4, <2>6 DEF ClientsWait
    <2> QED  BY <2>1, <2>5, <2>6
  <1>9. CASE HandshakeDone \/ HandshakeAborted
    <2>1. /\ serving \in Sessions /\ srv \in [Sessions -> States]
      BY <1>9 DEF Admission, ServerTyped, HandshakeDone, HandshakeAborted
    <2>2. /\ \E w \in {"running", "gone"} : srv' = [srv EXCEPT ![serving] = w]
          /\ reply' = reply \/ reply' = [reply EXCEPT ![serving] = "ok"]
      BY <1>9 DEF HandshakeDone, HandshakeAborted
    <2>3. cli' = cli  BY <1>9 DEF HandshakeDone, HandshakeAborted, clientVars
    <2> QED  BY <2>1, <2>2, <2>3 DEF ClientsWait
  <1>10. ASSUME NEW p \in Peers, DropConnection(p) PROVE FALSE
    BY <1>10 DEF DropConnection, NothingBreaksOff
  <1> QED  BY <1>1, <1>2, <1>3, <1>4, <1>5, <1>6, <1>7, <1>8, <1>9, <1>10, Zenon DEF Next, GetProceeds

Exact == \A p \in Peers : count[p] = Cardinality(Held(p, Active))

\* Two steps change a count, by one, and the same ones the sessions counted.
LEMMA ExactStep ==
    ASSUME RpcServerAssumption, NothingBreaksOff, Admission, ClientsWait, Exact, [Next]_vars
    PROVE  Exact'
  <1>1. ServerTyped /\ Notified /\ OneHandshake  BY DEF Admission
  <1>2. ASSUME count' = count, \A q \in Peers : Held(q, Active)' = Held(q, Active) PROVE Exact'
    BY <1>2 DEF Exact
  <1>3. CASE ClientStep
    <2>1. \A q \in Peers : Held(q, Active)' = Held(q, Active)  BY <1>3 DEF ClientStep, Held
    <2> QED  BY <1>2, <1>3, <2>1 DEF ClientStep
  <1>4. CASE Arrival
    <2>1. PICK s \in Sessions, p \in Peers :
              /\ srv[s] \in {"none", "gone"}
              /\ peer' = [peer EXCEPT ![s] = p] /\ srv' = [srv EXCEPT ![s] = "queued"] /\ count' = count
      BY <1>4, Zenon DEF Arrival
    <2>2. /\ srv'[s] = "queued" /\ srv[s] \notin Active
          /\ \A t \in Sessions \ {s} : srv'[t] = srv[t] /\ peer'[t] = peer[t]
      BY <1>1, <2>1 DEF ServerTyped, Active
    <2>3. ASSUME NEW q \in Peers PROVE Held(q, Active)' = Held(q, Active)
      <3>1. \A t \in Sessions : t \in Held(q, Active)' <=> t \in Held(q, Active)  BY <2>2 DEF Held, Active
      <3> QED  BY <3>1 DEF Held
    <2> QED  BY <1>2, <2>1, <2>3
  <1>5. CASE HandleNotification
    <2>1. /\ notifs # <<>> /\ notifs' = Tail(notifs) /\ peer' = peer
          /\ \E w \in {"shaking", "gone"} : srv' = [srv EXCEPT ![Head(notifs)] = w]
      BY <1>5 DEF HandleNotification
    <2>2. Head(notifs) \in Sessions /\ peer[Head(notifs)] \in Peers /\ srv[Head(notifs)] = "queued"
      BY <2>1, NotificationTaken, Zenon DEF States
    <2>3. PICK s \in Sessions, p \in Peers : s = Head(notifs) /\ p = peer[s]  BY <2>2
    <2>4. \A q \in Peers : s \notin Held(q, Active)  BY <2>2, <2>3 DEF Held, Active
    <2>5. \/ srv' = [srv EXCEPT ![s] = "gone"] /\ count' = count
          \/ srv' = [srv EXCEPT ![s] = "shaking"] /\ count' = [count EXCEPT ![p] = @ + 1]
      BY <1>5, <2>3 DEF HandleNotification
    <2>6. CASE srv' = [srv EXCEPT ![s] = "gone"] /\ count' = count
      <3>1. \A q \in Peers : Held(q, Active)' = Held(q, Active) \ {s}
        BY <1>1, <2>1, <2>6, StateChanged, Zenon DEF States, Active
      <3> QED  BY <1>2, <2>4, <2>6, <3>1
    <2>7. CASE srv' = [srv EXCEPT ![s] = "shaking"] /\ count' = [count EXCEPT ![p] = @ + 1]
      <3>1. \A q \in Peers : Held(q, Active)' = IF p = q THEN Held(q, Active) \cup {s} ELSE Held(q, Active) \ {s}
        BY <1>1, <2>1, <2>3, <2>7, StateChanged, Zenon DEF States, Active
      <3>2. count'[p] = count[p] + 1 /\ \A q \in Peers \ {p} : count'[q] = count[q]
        BY <1>1, <2>7 DEF ServerTyped
      <3>3. Cardinality(Held(p, Active) \cup {s}) = Cardinality(Held(p, Active)) + 1
        BY <2>4, RunningHeld, OneMore
      <3>4. Held(p, Active)' = Held(p, Active) \cup {s}  BY <3>1
      <3>5. count'[p] = Cardinality(Held(p, Active)')  BY <3>2, <3>3, <3>4 DEF Exact
      <3>6. \A q \in Peers \ {p} : Held(q, Active)' = Held(q, Active)  BY <2>4, <3>1
      <3>7. \A q \in Peers \ {p} : count'[q] = Cardinality(Held(q, Active)')  BY <3>2, <3>6 DEF Exact
      <3> QED  BY <3>5, <3>7 DEF Exact
    <2> QED  BY <2>5, <2>6, <2>7
  <1>6. CASE HandshakeDone
    <2>1. PICK s \in Sessions : s = serving  BY <1>1, <1>6 DEF ServerTyped, HandshakeDone
    <2>2. srv[s] = "shaking" /\ CanSpawn  BY <1>1, <1>6, <2>1 DEF OneHandshake, HandshakeDone
    <2>3. srv' = [srv EXCEPT ![s] = "running"] /\ peer' = peer /\ count' = count
      BY <1>6, <2>1, <2>2 DEF HandshakeDone
    <2>4. srv'[s] = "running" /\ \A t \in Sessions \ {s} : srv'[t] = srv[t]  BY <1>1, <2>3 DEF ServerTyped
    <2>5. \A q \in Peers : Held(q, Active)' = Held(q, Active)  BY <2>2, <2>3, <2>4 DEF Held, Active
    <2> QED  BY <1>2, <2>3, <2>5
  <1>7. ASSUME HandshakeAborted PROVE FALSE
    <2>1. serving \in Sessions  BY <1>1, <1>7 DEF ServerTyped, HandshakeAborted
    <2>2. cli[serving] = "closed"  BY <1>7 DEF HandshakeAborted, NothingBreaksOff
    <2>3. srv[serving] = "shaking"  BY <1>1, <2>1 DEF OneHandshake
    <2> QED  BY <2>1, <2>2, <2>3 DEF ClientsWait
  <1>8. ASSUME NEW s \in Sessions, SessionEnds(s) PROVE Exact'
    <2>1. srv[s] = "running" /\ srv' = [srv EXCEPT ![s] = "ended"] /\ peer' = peer /\ count' = count
      BY <1>8 DEF SessionEnds
    <2>2. srv'[s] = "ended" /\ \A t \in Sessions \ {s} : srv'[t] = srv[t]  BY <1>1, <2>1 DEF ServerTyped
    <2>3. \A q \in Peers : Held(q, Active)' = Held(q, Active)  BY <2>1, <2>2 DEF Held, Active
    <2> QED  BY <1>2, <2>1, <2>3
  <1>9. ASSUME NEW s \in Sessions, OnSessionComplete(s) PROVE Exact'
    <2>1. srv[s] = "ended" /\ peer[s] \in Peers  BY <1>1, <1>9 DEF OnSessionComplete, Notified, Active
    <2>2. PICK p \in Peers : p = peer[s]  BY <2>1
    <2>3. srv' = [srv EXCEPT ![s] = "gone"] /\ count' = [count EXCEPT ![p] = @ - 1] /\ peer' = peer
      BY <1>9, <2>2 DEF OnSessionComplete
    <2>4. srv'[s] = "gone" /\ \A t \in Sessions \ {s} : srv'[t] = srv[t]  BY <1>1, <2>3 DEF ServerTyped
    <2>5. /\ s \in Held(p, Active)
          /\ \A q \in Peers : Held(q, Active)' = IF q = p THEN Held(q, Active) \ {s} ELSE Held(q, Active)
      BY <2>1, <2>2, <2>3, <2>4 DEF Held, Active
    <2>6. count'[p] = count[p] - 1 /\ \A q \in Peers \ {p} : count'[q] = count[q]
      BY <1>1, <2>3 DEF ServerTyped
    <2>7. Cardinality(Held(p, Active) \ {s}) = Cardinality(Held(p, Active)) - 1
      BY <2>5, RunningHeld, OneMore
    <2>8. Held(p, Active)' = Held(p, Active) \ {s}  BY <2>5
    <2>9. count'[p] = Cardinality(Held(p, Active)')  BY <2>6, <2>7, <2>8 DEF Exact
    <2>10. \A q \in Peers \ {p} : count'[q] = Cardinality(Held(q, Active)')  BY <2>5, <2>6 DEF Exact
    <2> QED  BY <2>9, <2>10 DEF Exact
  <1> QED  BY <1>3, <1>4, <1>5, <1>6, <1>7, <1>8, <1>9, ServerSteps, Zenon

\* Where no handshake stalls, times out or loses its connection, the count of a
\* peer's sessions (PeerRpcServer::sessions) is exactly the number it has, so
\* that new_session_for refuses a peer only at its limit.
THEOREM CountsExact == ASSUME RpcServerAssumption, NothingBreaksOff PROVE Spec => []SessionsCounted
  <1>1. Init => Admission  BY AdmissionInit
  <1>2. Init => ClientsWait  BY DEF Init, ClientsWait
  <1>3. Init => Exact
    <2>1. SUFFICES ASSUME Init PROVE Exact  OBVIOUS
    <2>2. \A p \in Peers : Held(p, Active) = {} /\ count[p] = 0  BY <2>1 DEF Init, Held, Active
    <2> QED  BY <2>2, FS_EmptySet DEF Exact
  <1>4. Admission /\ [Next]_vars => Admission'  BY AdmissionStep
  <1>5. Admission /\ ClientsWait /\ [Next]_vars => ClientsWait'  BY WaitStep
  <1>6. Admission /\ ClientsWait /\ Exact /\ [Next]_vars => Exact'  BY ExactStep
  <1>7. Exact => SessionsCounted  BY DEF Exact, SessionsCounted, Active
  <1> QED  BY <1>1, <1>2, <1>3, <1>4, <1>5, <1>6, <1>7, PTL DEF Spec
=============================================================================
