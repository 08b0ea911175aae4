-------------------------- MODULE MessagingProofs --------------------------
(***************************************************************************)
(* Proofs about the messaging protocol.  A message is in at most one place:  *)
(* a queue of the actor, the queue or the buffer of a handler, a substream,   *)
(* or the peer's pipeline.  The places are the values of one function,        *)
(* content, and Accounted says that no message is in two places, that a       *)
(* sender waits exactly while its message is in a queue, and that only a      *)
(* message answered with ok was sent.  Every action moves the head of one     *)
(* place to the end of another, empties places, or adds a new message; each   *)
(* of these keeps Accounted.                                                  *)
(***************************************************************************)
EXTENDS Messaging, TLAPS

Answers == {"new", "none", "ok", "PeerDialFailed", "Dropped"}

-----------------------------------------------------------------------------
(***************************************************************************)
(* Places.                                                                  *)
(***************************************************************************)
WaitKinds == {"outbound", "retry", "passing", "queue"}
SentKinds == {"buf", "wire", "inbox", "delivered"}
Places == ({NoHandler} \X {"outbound", "retry", "passing", "inbox", "delivered"})
          \cup (Handlers \X {"queue", "buf", "wire"})
WaitPlaces == {pl \in Places : pl[2] \in WaitKinds}
SentPlaces == {pl \in Places : pl[2] \in SentKinds}
Node(k) == <<NoHandler, k>>

\* The sequence of each place, of the values of the variables that hold them.
Contents(out, ret, pas, inb, del, hs, w) ==
    [pl \in Places |->
        IF pl[2] = "outbound" THEN out
        ELSE IF pl[2] = "retry" THEN ret
        ELSE IF pl[2] = "passing" THEN pas
        ELSE IF pl[2] = "inbox" THEN inb
        ELSE IF pl[2] = "delivered" THEN del
        ELSE IF pl[2] = "queue" THEN hs[pl[1]].queue
        ELSE IF pl[2] = "buf" THEN hs[pl[1]].buf
        ELSE w[pl[1]]]

content == Contents(outbound, retry, passing, inbox, delivered, handler, wire)

\* f[p] is the sequence in place p; no element is in two places, or twice in one.
Distinct(f) ==
    \A p, q \in DOMAIN f : \A i \in 1..Len(f[p]), j \in 1..Len(f[q]) : f[p][i] = f[q][j] => p = q /\ i = j

Move(f, p, q) == [f EXCEPT ![p] = Tail(f[p]), ![q] = Append(f[q], Head(f[p]))]

\* The elements of a sequence of messages.
LEMMA RangeOf == ASSUME NEW s \in Seq(Messages), NEW x PROVE x \in Range(s) <=> \E i \in 1..Len(s) : s[i] = x
  BY DEF Range

\* What Move leaves in each place.
LEMMA MoveFields ==
    ASSUME NEW f \in [Places -> Seq(Messages)], NEW p \in Places, NEW q \in Places, p # q, f[p] # <<>>
    PROVE  /\ Move(f, p, q) \in [Places -> Seq(Messages)]
           /\ Move(f, p, q)[p] = Tail(f[p]) /\ Move(f, p, q)[q] = Append(f[q], Head(f[p]))
           /\ \A r \in Places \ {p, q} : Move(f, p, q)[r] = f[r]
  <1>1. Tail(f[p]) \in Seq(Messages) /\ Head(f[p]) \in Messages /\ Append(f[q], Head(f[p])) \in Seq(Messages)
    OBVIOUS
  <1> QED
    BY <1>1, Zenon DEF Move

\* A move keeps every message in one place: an element of the result is at one
\* known place and index of the original.
LEMMA MoveDistinct ==
    ASSUME NEW f \in [Places -> Seq(Messages)], NEW p \in Places, NEW q \in Places, p # q, f[p] # <<>>, Distinct(f)
    PROVE  Distinct(Move(f, p, q))
  <1> DEFINE g == Move(f, p, q)
  <1>1. /\ g \in [Places -> Seq(Messages)] /\ g[p] = Tail(f[p]) /\ g[q] = Append(f[q], Head(f[p]))
        /\ \A r \in Places \ {p, q} : g[r] = f[r]
    BY MoveFields, Zenon
  <1> HIDE DEF g
  <1>2. /\ Len(f[p]) \in Nat /\ Len(f[p]) > 0 /\ Len(f[q]) \in Nat
        /\ Len(g[p]) = Len(f[p]) - 1 /\ Len(g[q]) = Len(f[q]) + 1
        /\ \A i \in 1..Len(g[p]) : g[p][i] = f[p][i + 1]
        /\ \A i \in 1..Len(f[q]) : g[q][i] = f[q][i]
        /\ g[q][Len(g[q])] = f[p][1]
    BY <1>1
  \* Where an element of g was in f.
  <1> DEFINE Place(r, i) == IF r = q /\ i = Len(g[q]) THEN p ELSE r
             Index(r, i) == IF r = q /\ i = Len(g[q]) THEN 1 ELSE IF r = p THEN i + 1 ELSE i
  <1>3. ASSUME NEW r \in Places, NEW i \in 1..Len(g[r])
        PROVE  /\ Place(r, i) \in Places /\ Index(r, i) \in 1..Len(f[Place(r, i)])
               /\ g[r][i] = f[Place(r, i)][Index(r, i)]
    <2>1. CASE r = p
      <3>1. Place(r, i) = p /\ Index(r, i) = i + 1
        BY <2>1
      <3>2. i + 1 \in 1..Len(f[p]) /\ g[p][i] = f[p][i + 1]
        BY <2>1, <1>2
      <3> QED
        BY <2>1, <3>1, <3>2
    <2>2. CASE r = q
      BY <2>2, <1>2
    <2>3. CASE r \notin {p, q}
      BY <2>3, <1>1
    <2> QED
      BY <2>1, <2>2, <2>3
  <1>4. ASSUME NEW r \in Places, NEW s \in Places, NEW i \in 1..Len(g[r]), NEW j \in 1..Len(g[s]),
               Place(r, i) = Place(s, j), Index(r, i) = Index(s, j)
        PROVE  r = s /\ i = j
    BY <1>4, <1>2
  <1> HIDE DEF Place, Index
  <1>5. ASSUME NEW r \in Places, NEW s \in Places, NEW i \in 1..Len(g[r]), NEW j \in 1..Len(g[s]), g[r][i] = g[s][j]
        PROVE  r = s /\ i = j
    <2>1. /\ f[Place(r, i)][Index(r, i)] = f[Place(s, j)][Index(s, j)]
          /\ Place(r, i) \in Places /\ Index(r, i) \in 1..Len(f[Place(r, i)])
          /\ Place(s, j) \in Places /\ Index(s, j) \in 1..Len(f[Place(s, j)])
      BY <1>3, <1>5
    <2>2. Place(r, i) = Place(s, j) /\ Index(r, i) = Index(s, j)
      BY <2>1 DEF Distinct
    <2> QED
      BY <1>4, <2>2
  <1>6. Distinct(g)
    BY <1>1, <1>5 DEF Distinct
  <1> QED
    BY <1>6 DEF g

Accounted(f, r) ==
    /\ Distinct(f)
    /\ \A m \in Messages :
        /\ r[m] = "none" <=> \E pl \in WaitPlaces : m \in Range(f[pl])
        /\ r[m] # "ok" => \A pl \in SentPlaces : m \notin Range(f[pl])

\* Every place is one where a message waits or one it was sent to, and not both.
LEMMA PlacesSplit ==
    /\ Places = WaitPlaces \cup SentPlaces /\ WaitPlaces \cap SentPlaces = {}
    /\ \A k \in {"outbound", "retry", "passing"} : Node(k) \in WaitPlaces
    /\ \A k \in {"inbox", "delivered"} : Node(k) \in SentPlaces
    /\ \A h \in Handlers : <<h, "queue">> \in WaitPlaces /\ <<h, "buf">> \in SentPlaces /\ <<h, "wire">> \in SentPlaces
  <1>1. \A pl \in Places : pl[2] \in WaitKinds \cup SentKinds
    BY DEF Places, WaitKinds, SentKinds
  <1>2. WaitKinds \cap SentKinds = {}
    BY DEF WaitKinds, SentKinds
  <1>3. Places = WaitPlaces \cup SentPlaces /\ WaitPlaces \cap SentPlaces = {}
    BY <1>1, <1>2, Zenon DEF WaitPlaces, SentPlaces
  <1>4. /\ \A k \in {"outbound", "retry", "passing"} : Node(k) \in WaitPlaces
        /\ \A k \in {"inbox", "delivered"} : Node(k) \in SentPlaces
    BY DEF Node, Places, WaitPlaces, SentPlaces, WaitKinds, SentKinds
  <1>5. \A h \in Handlers :
            <<h, "queue">> \in WaitPlaces /\ <<h, "buf">> \in SentPlaces /\ <<h, "wire">> \in SentPlaces
    BY DEF Places, WaitPlaces, SentPlaces, WaitKinds, SentKinds
  <1> QED
    BY <1>3, <1>4, <1>5

\* What Range sees of a move.
Moved(f, g, p, q) ==
    /\ Head(f[p]) \in Range(f[p]) /\ Head(f[p]) \in Messages
    /\ Range(g[p]) = Range(f[p]) \ {Head(f[p])}
    /\ Range(g[q]) = Range(f[q]) \cup {Head(f[p])}
    /\ \A r \in Places \ {p, q} : Range(g[r]) = Range(f[r])
    /\ \A r \in Places \ {p} : Head(f[p]) \notin Range(f[r])

\* A move takes the head of p, and only it, from p to q.
LEMMA MoveSets ==
    ASSUME NEW f \in [Places -> Seq(Messages)], NEW p \in Places, NEW q \in Places, p # q, f[p] # <<>>, Distinct(f)
    PROVE  Moved(f, Move(f, p, q), p, q)
  <1> DEFINE g == Move(f, p, q)
  <1>1. /\ g \in [Places -> Seq(Messages)] /\ g[p] = Tail(f[p]) /\ g[q] = Append(f[q], Head(f[p]))
        /\ \A r \in Places \ {p, q} : g[r] = f[r]
    BY MoveFields, Zenon
  <1> HIDE DEF g
  <1>2. /\ Len(f[p]) \in Nat /\ Len(f[p]) > 0 /\ Len(f[q]) \in Nat /\ f[p][1] = Head(f[p])
        /\ Len(g[p]) = Len(f[p]) - 1 /\ Len(g[q]) = Len(f[q]) + 1
        /\ \A i \in 1..Len(g[p]) : g[p][i] = f[p][i + 1]
        /\ \A i \in 1..Len(f[q]) : g[q][i] = f[q][i]
        /\ g[q][Len(g[q])] = f[p][1]
    BY <1>1
  <1>3. Head(f[p]) \in Range(f[p]) /\ Head(f[p]) \in Messages
    BY <1>2 DEF Range
  <1>4. Range(g[p]) = Range(f[p]) \ {Head(f[p])}
    <2>1. ASSUME NEW i \in 1..Len(f[p]) PROVE f[p][i] = f[p][1] => i = 1
      BY <1>2 DEF Distinct
    <2>2. ASSUME NEW x \in Range(g[p]) PROVE x \in Range(f[p]) \ {f[p][1]}
      <3>1. PICK i \in 1..Len(g[p]) : g[p][i] = x
        BY <2>2, <1>1, RangeOf, Zenon
      <3>2. i + 1 \in 1..Len(f[p]) /\ f[p][i + 1] = x /\ i + 1 # 1
        <4>1. Len(f[p]) \in Nat /\ Len(g[p]) = Len(f[p]) - 1
          BY <1>2, Zenon
        <4>2. i + 1 \in 1..Len(f[p]) /\ i + 1 # 1
          BY <4>1
        <4>3. f[p][i + 1] = x
          BY <3>1, <1>2, Zenon
        <4> QED
          BY <4>2, <4>3
      <3> QED
        BY <3>2, <2>1, RangeOf
    <2>3. ASSUME NEW x \in Range(f[p]), x # f[p][1] PROVE x \in Range(g[p])
      <3>1. PICK i \in 1..Len(f[p]) : f[p][i] = x
        BY <2>3, RangeOf
      <3>2. i - 1 \in 1..Len(g[p]) /\ g[p][i - 1] = x
        BY <3>1, <2>3, <1>2
      <3> QED
        BY <3>2, <1>1, RangeOf, Zenon
    <2> QED
      BY <2>2, <2>3, <1>2
  <1>5. Range(g[q]) = Range(f[q]) \cup {Head(f[p])}
    <2>1. ASSUME NEW x \in Range(g[q]) PROVE x \in Range(f[q]) \cup {f[p][1]}
      <3>1. PICK i \in 1..Len(g[q]) : g[q][i] = x
        BY <2>1, <1>1, RangeOf, Zenon
      <3>2. i \in 1..Len(f[q]) \/ i = Len(g[q])
        BY <3>1, <1>2
      <3> QED
        BY <3>1, <3>2, <1>2, RangeOf
    <2>2. ASSUME NEW x \in Range(f[q]) PROVE x \in Range(g[q])
      <3>1. PICK i \in 1..Len(f[q]) : f[q][i] = x
        BY <2>2, RangeOf
      <3>2. i \in 1..Len(g[q]) /\ g[q][i] = x
        BY <3>1, <1>2
      <3> QED
        BY <3>2, <1>1, RangeOf, Zenon
    <2>3. f[p][1] \in Range(g[q])
      <3>1. Len(g[q]) \in 1..Len(g[q])
        BY <1>2
      <3> QED
        BY <3>1, <1>1, <1>2, RangeOf, Zenon
    <2> QED
      BY <2>1, <2>2, <2>3, <1>2
  <1>6. ASSUME NEW r \in Places \ {p} PROVE Head(f[p]) \notin Range(f[r])
    <2>1. ASSUME NEW i \in 1..Len(f[r]), f[r][i] = f[p][1] PROVE FALSE
      BY <2>1, <1>2 DEF Distinct
    <2> QED
      BY <2>1, <1>2, RangeOf
  <1>7. \A r \in Places \ {p, q} : Range(g[r]) = Range(f[r])
    BY <1>1
  <1> QED
    BY <1>3, <1>4, <1>5, <1>6, <1>7 DEF g, Moved

\* A message that goes from a queue to a queue, or from one place it was sent to
\* to the next, keeps its answer.
LEMMA MoveAccounted ==
    ASSUME NEW f \in [Places -> Seq(Messages)], NEW r \in [Messages -> Answers], Accounted(f, r),
           NEW p \in Places, NEW q \in Places, p # q, f[p] # <<>>, p \in WaitPlaces <=> q \in WaitPlaces
    PROVE  Accounted(Move(f, p, q), r)
  <1> DEFINE g == Move(f, p, q)
             x == Head(f[p])
  <1>1. Distinct(f) /\ Distinct(g)
    BY MoveDistinct DEF Accounted
  <1>2. /\ x \in Range(f[p]) /\ Range(g[p]) = Range(f[p]) \ {x} /\ Range(g[q]) = Range(f[q]) \cup {x}
        /\ \A t \in Places \ {p, q} : Range(g[t]) = Range(f[t])
    <2>1. Moved(f, g, p, q)
      BY <1>1, MoveSets
    <2> QED
      BY <2>1 DEF Moved
  <1>3. Places = WaitPlaces \cup SentPlaces /\ WaitPlaces \cap SentPlaces = {}
    BY PlacesSplit
  <1> HIDE DEF g, x
  <1>4. ASSUME NEW m \in Messages
        PROVE  /\ (\E pl \in WaitPlaces : m \in Range(g[pl])) <=> (\E pl \in WaitPlaces : m \in Range(f[pl]))
               /\ (\E pl \in SentPlaces : m \in Range(g[pl])) <=> (\E pl \in SentPlaces : m \in Range(f[pl]))
    BY <1>2, <1>3, Zenon
  <1>5. Accounted(g, r)
    BY <1>1, <1>4 DEF Accounted
  <1> QED
    BY <1>5 DEF g

\* A message that Forward takes from the queue is answered with ok at that moment,
\* and was answered with nothing before.
LEMMA PullAccounted ==
    ASSUME NEW f \in [Places -> Seq(Messages)], NEW r \in [Messages -> Answers], Accounted(f, r),
           NEW p \in WaitPlaces, NEW q \in SentPlaces, f[p] # <<>>,
           NEW s \in [Messages -> Answers], s = [r EXCEPT ![Head(f[p])] = "ok"]
    PROVE  Accounted(Move(f, p, q), s)
  <1> DEFINE g == Move(f, p, q)
             x == Head(f[p])
  <1>1. p \in Places /\ q \in Places /\ p # q /\ WaitPlaces \cap SentPlaces = {} /\ Places = WaitPlaces \cup SentPlaces
    BY PlacesSplit
  <1>2. Distinct(f) /\ Distinct(g)
    BY <1>1, MoveDistinct, Zenon DEF Accounted
  <1>3. /\ x \in Range(f[p]) /\ x \in Messages /\ Range(g[p]) = Range(f[p]) \ {x} /\ Range(g[q]) = Range(f[q]) \cup {x}
        /\ \A t \in Places \ {p, q} : Range(g[t]) = Range(f[t])
        /\ \A t \in Places \ {p} : x \notin Range(f[t])
    <2>1. Moved(f, g, p, q)
      BY <1>1, <1>2, MoveSets, Zenon
    <2> QED
      BY <2>1 DEF Moved
  <1>4. s[x] = "ok" /\ \A m \in Messages \ {x} : s[m] = r[m]
    BY <1>3
  <1> HIDE DEF g, x
  <1>5. ASSUME NEW m \in Messages \ {x}
        PROVE  /\ (\E pl \in WaitPlaces : m \in Range(g[pl])) <=> (\E pl \in WaitPlaces : m \in Range(f[pl]))
               /\ (\E pl \in SentPlaces : m \in Range(g[pl])) <=> (\E pl \in SentPlaces : m \in Range(f[pl]))
    BY <1>1, <1>3, Zenon
  <1>6. ~ \E pl \in WaitPlaces : x \in Range(g[pl])
    BY <1>1, <1>3, Zenon
  <1>7. Accounted(g, s)
    BY <1>2, <1>4, <1>5, <1>6 DEF Accounted
  <1> QED
    BY <1>7 DEF g

\* A new message enters a queue, and its sender begins to wait.
LEMMA EnterAccounted ==
    ASSUME NEW f \in [Places -> Seq(Messages)], NEW r \in [Messages -> Answers], Accounted(f, r),
           NEW p \in WaitPlaces, NEW m \in Messages, r[m] = "new"
    PROVE  Accounted([f EXCEPT ![p] = Append(f[p], m)], [r EXCEPT ![m] = "none"])
  <1> DEFINE g == [f EXCEPT ![p] = Append(f[p], m)]
             s == [r EXCEPT ![m] = "none"]
  <1>1. p \in Places /\ WaitPlaces \cap SentPlaces = {} /\ Places = WaitPlaces \cup SentPlaces
    BY PlacesSplit
  <1>2. /\ g \in [Places -> Seq(Messages)] /\ g[p] = Append(f[p], m) /\ \A t \in Places \ {p} : g[t] = f[t]
        /\ s[m] = "none" /\ \A k \in Messages \ {m} : s[k] = r[k]
    BY <1>1
  <1> HIDE DEF g, s
  <1>3. /\ Len(f[p]) \in Nat /\ Len(g[p]) = Len(f[p]) + 1
        /\ \A i \in 1..Len(f[p]) : g[p][i] = f[p][i]
    BY <1>1, <1>2
  <1>4. g[p][Len(g[p])] = m
    BY <1>1, <1>2
  <1>5. \A t \in Places : m \notin Range(f[t])
    BY <1>1 DEF Accounted
  <1>6. \A t \in Places : \A i \in 1..Len(f[t]) : f[t][i] # m
    BY <1>5, RangeOf
  <1>7. \A t \in Places : \A i \in 1..Len(g[t]) :
            \/ i \in 1..Len(f[t]) /\ g[t][i] = f[t][i] /\ g[t][i] # m
            \/ t = p /\ i = Len(g[p]) /\ g[t][i] = m
    <2>1. ASSUME NEW t \in Places, t # p, NEW i \in 1..Len(g[t])
          PROVE  i \in 1..Len(f[t]) /\ g[t][i] = f[t][i] /\ g[t][i] # m
      BY <2>1, <1>2, <1>6
    <2>2. ASSUME NEW i \in 1..Len(g[p]), i # Len(g[p])
          PROVE  i \in 1..Len(f[p]) /\ g[p][i] = f[p][i] /\ g[p][i] # m
      BY <2>2, <1>1, <1>3, <1>6
    <2> QED
      BY <2>1, <2>2, <1>4
  <1>8. Distinct(g)
    <2>1. ASSUME NEW t \in Places, NEW u \in Places, NEW i \in 1..Len(g[t]), NEW j \in 1..Len(g[u]), g[t][i] = g[u][j]
          PROVE  t = u /\ i = j
      <3>1. CASE g[t][i] = m
        BY <3>1, <2>1, <1>7
      <3>2. CASE g[t][i] # m
        <4>1. i \in 1..Len(f[t]) /\ j \in 1..Len(f[u]) /\ f[t][i] = f[u][j]
          BY <3>2, <2>1, <1>7
        <4> QED
          BY <4>1 DEF Accounted, Distinct
      <3> QED
        BY <3>1, <3>2
    <2> QED
      BY <2>1, <1>2 DEF Distinct
  <1>9. Range(g[p]) = Range(f[p]) \cup {m}
    <2>1. ASSUME NEW x \in Range(g[p]) PROVE x \in Range(f[p]) \cup {m}
      <3> g[p] \in Seq(Messages)
        BY <1>1, <1>2
      <3>1. PICK i \in 1..Len(g[p]) : g[p][i] = x
        BY <2>1, RangeOf
      <3>2. x = m \/ (i \in 1..Len(f[p]) /\ f[p][i] = x)
        BY <3>1, <1>1, <1>7
      <3> QED
        BY <3>2, <1>1, RangeOf
    <2>2. ASSUME NEW x \in Range(f[p]) PROVE x \in Range(g[p])
      <3>1. PICK i \in 1..Len(f[p]) : f[p][i] = x
        BY <2>2, <1>1, RangeOf
      <3>2. i \in 1..Len(g[p]) /\ g[p][i] = x
        BY <3>1, <1>3
      <3> QED
        BY <3>2, <1>1, <1>2, RangeOf, Zenon
    <2>3. m \in Range(g[p])
      <3>1. Len(g[p]) \in 1..Len(g[p])
        BY <1>3
      <3> QED
        BY <3>1, <1>1, <1>2, <1>4, RangeOf, Zenon
    <2> QED
      BY <2>1, <2>2, <2>3
  <1>10. ASSUME NEW k \in Messages \ {m}
         PROVE  /\ (\E pl \in WaitPlaces : k \in Range(g[pl])) <=> (\E pl \in WaitPlaces : k \in Range(f[pl]))
                /\ (\E pl \in SentPlaces : k \in Range(g[pl])) <=> (\E pl \in SentPlaces : k \in Range(f[pl]))
    BY <1>1, <1>2, <1>9, Zenon
  <1>11. (\E pl \in WaitPlaces : m \in Range(g[pl])) /\ ~ \E pl \in SentPlaces : m \in Range(g[pl])
    BY <1>1, <1>2, <1>5, <1>9, Zenon
  <1>12. Accounted(g, s)
    <2>1. ASSUME NEW k \in Messages
          PROVE  /\ s[k] = "none" <=> \E pl \in WaitPlaces : k \in Range(g[pl])
                 /\ s[k] # "ok" => \A pl \in SentPlaces : k \notin Range(g[pl])
      <3>1. CASE k = m
        BY <3>1, <1>2, <1>11
      <3>2. CASE k # m
        <4>1. /\ (\E pl \in WaitPlaces : k \in Range(g[pl])) <=> (\E pl \in WaitPlaces : k \in Range(f[pl]))
              /\ (\E pl \in SentPlaces : k \in Range(g[pl])) <=> (\E pl \in SentPlaces : k \in Range(f[pl]))
          BY <3>2, <1>10
        <4>2. s[k] = r[k]
          BY <3>2, <1>2
        <4> QED
          BY <4>1, <4>2, Zenon DEF Accounted
      <3> QED
        BY <3>1, <3>2
    <2> QED
      BY <2>1, <1>8 DEF Accounted
  <1> QED
    BY <1>12 DEF g, s

\* g is f after the queues in dropped have been emptied; of what was sent some may be lost.
Drops(f, g, dropped) ==
    /\ f \in [Places -> Seq(Messages)] /\ g \in [Places -> Seq(Messages)] /\ dropped \in SUBSET WaitPlaces
    /\ \A pl \in dropped : g[pl] = <<>>
    /\ \A pl \in WaitPlaces \ dropped : g[pl] = f[pl]
    /\ \A pl \in SentPlaces : Len(g[pl]) <= Len(f[pl]) /\ \A i \in 1..Len(g[pl]) : g[pl][i] = f[pl][i]

Answered(f, r, s, dropped, a) ==
    \A m \in Messages : s[m] = IF \E pl \in dropped : m \in Range(f[pl]) THEN a ELSE r[m]

\* Queues are emptied and the senders of their messages told so; what was sent may
\* be lost.
LEMMA DropAccounted ==
    ASSUME NEW f \in [Places -> Seq(Messages)], NEW r \in [Messages -> Answers], Accounted(f, r),
           NEW g, NEW s \in [Messages -> Answers], NEW dropped, Drops(f, g, dropped),
           NEW a \in {"PeerDialFailed", "Dropped"},
           Answered(f, r, s, dropped, a)
    PROVE  Accounted(g, s)
  <1> dropped \in SUBSET WaitPlaces /\ g \in [Places -> Seq(Messages)]
    BY Zenon DEF Drops
  <1> /\ \A pl \in dropped : g[pl] = <<>>
      /\ \A pl \in WaitPlaces \ dropped : g[pl] = f[pl]
      /\ \A pl \in SentPlaces : Len(g[pl]) <= Len(f[pl]) /\ \A i \in 1..Len(g[pl]) : g[pl][i] = f[pl][i]
    BY Zenon DEF Drops
  <1> \A m \in Messages : s[m] = IF \E pl \in dropped : m \in Range(f[pl]) THEN a ELSE r[m]
    BY DEF Answered
  <1>1. WaitPlaces \cap SentPlaces = {} /\ Places = WaitPlaces \cup SentPlaces
    BY PlacesSplit
  <1>2. \A pl \in Places : /\ Len(g[pl]) \in Nat /\ Len(f[pl]) \in Nat /\ Len(g[pl]) <= Len(f[pl])
                           /\ \A i \in 1..Len(g[pl]) : g[pl][i] = f[pl][i]
    BY <1>1
  <1>3. Distinct(g)
    <2>1. ASSUME NEW t \in Places, NEW u \in Places, NEW i \in 1..Len(g[t]), NEW j \in 1..Len(g[u]), g[t][i] = g[u][j]
          PROVE  t = u /\ i = j
      <3>1. i \in 1..Len(f[t]) /\ j \in 1..Len(f[u]) /\ f[t][i] = f[u][j]
        BY <2>1, <1>2
      <3> QED
        BY <3>1 DEF Accounted, Distinct
    <2> QED
      BY <2>1 DEF Distinct
  <1>4. \A pl \in Places : Range(g[pl]) \subseteq Range(f[pl])
    <2>1. ASSUME NEW pl \in Places, NEW x \in Range(g[pl]) PROVE x \in Range(f[pl])
      <3>1. PICK i \in 1..Len(g[pl]) : g[pl][i] = x
        BY <2>1, RangeOf
      <3>2. i \in 1..Len(f[pl]) /\ f[pl][i] = x
        BY <3>1, <1>2
      <3> QED
        BY <3>2, RangeOf
    <2> QED
      BY <2>1
  <1>5. \A pl \in dropped : Range(g[pl]) = {}
    BY DEF Range
  <1>6. \A pl, t \in Places : \A m \in Range(f[pl]) : m \in Range(f[t]) => pl = t
    <2>1. ASSUME NEW pl \in Places, NEW t \in Places, NEW m \in Range(f[pl]), m \in Range(f[t]) PROVE pl = t
      <3>1. (\E i \in 1..Len(f[pl]) : f[pl][i] = m) /\ (\E j \in 1..Len(f[t]) : f[t][j] = m)
        BY <2>1, RangeOf
      <3> QED
        BY <3>1 DEF Accounted, Distinct
    <2> QED
      BY <2>1
  <1>7. ASSUME NEW m \in Messages PROVE s[m] = "none" <=> \E pl \in WaitPlaces : m \in Range(g[pl])
    <2>1. CASE \E pl \in dropped : m \in Range(f[pl])
      <3>1. s[m] # "none"
        BY <2>1, Zenon
      <3>2. \A pl \in WaitPlaces : m \notin Range(g[pl])
        BY <2>1, <1>1, <1>4, <1>5, <1>6, Zenon
      <3> QED
        BY <3>1, <3>2
    <2>2. CASE ~ \E pl \in dropped : m \in Range(f[pl])
      <3>1. s[m] = r[m]
        BY <2>2
      <3>2. (\E pl \in WaitPlaces : m \in Range(g[pl])) <=> (\E pl \in WaitPlaces : m \in Range(f[pl]))
        BY <2>2, <1>5, Zenon
      <3> QED
        BY <3>1, <3>2 DEF Accounted
    <2> QED
      BY <2>1, <2>2
  <1>8. ASSUME NEW m \in Messages, s[m] # "ok", NEW pl \in SentPlaces PROVE m \notin Range(g[pl])
    <2>1. r[m] # "ok"
      BY <1>8 DEF Accounted
    <2> QED
      BY <2>1, <1>1, <1>4, Zenon DEF Accounted
  <1> QED
    BY <1>3, <1>7, <1>8 DEF Accounted

-----------------------------------------------------------------------------
(***************************************************************************)
(* Types, and what each step makes of a handler.                            *)
(***************************************************************************)
\* The records a handler step builds are tasks.
LEMMA Typed ==
    ASSUME NEW t \in Task, NEW c \in Pcs, NEW q \in Seq(Messages), NEW b \in Seq(Messages),
           NEW s \in BOOLEAN
    PROVE  /\ [t EXCEPT !.pc = c] \in Task
           /\ [t EXCEPT !.queue = q, !.shut = s, !.pc = c] \in Task
           /\ [t EXCEPT !.queue = q, !.buf = b] \in Task
           /\ [t EXCEPT !.buf = b] \in Task
           /\ [t EXCEPT !.pc = c, !.shut = s] \in Task
           /\ [t EXCEPT !.pc = c, !.queue = q, !.buf = b, !.shut = s] \in Task
           /\ [t EXCEPT !.queue = q] \in Task
           /\ [t EXCEPT !.queue = q, !.pc = c] \in Task
  BY Zenon DEF Task, Pcs

\* The same for the step that counts an attempt.
LEMMA TypedAttempts ==
    ASSUME NEW t \in Task, NEW n \in 0..MaxSendRetries, NEW c \in Pcs
    PROVE  [t EXCEPT !.attempts = n, !.pc = c] \in Task
  BY Zenon DEF Task, Pcs

\* A change of the link changes nothing else.
LEMMA TypedLink ==
    ASSUME NEW t \in Task, NEW l \in {"up", "closed", "down"}
    PROVE  /\ [t EXCEPT !.link = l] \in Task
           /\ LET u == [t EXCEPT !.link = l] IN u.pc = t.pc /\ u.queue = t.queue /\ u.buf = t.buf /\ u.shut = t.shut
  BY Zenon DEF Task, Pcs

\* The parts of those records.
LEMMA Values ==
    /\ <<>> \in Seq(Messages) /\ TRUE \in BOOLEAN /\ \A t \in Task : t.queue \in Seq(Messages) /\ t.buf \in Seq(Messages)
    /\ \A c \in {"free", "dial", "open", "forward", "closing", "drain", "exit"} : c \in Pcs
  BY DEF Task, Pcs

\* A free handler is a task.
LEMMA NoTaskTyped == BoundsAssumption => NoTask \in Task
  BY DEF NoTask, Task, Pcs, BoundsAssumption

\* The handler of h goes to c with queue q and buffer b, and shuts its queue at the end.
Becomes(h, c, q, b) ==
    /\ handler' \in [Handlers -> Task]
    /\ \A k \in Handlers \ {h} : handler'[k] = handler[k]
    /\ handler'[h].pc = c /\ handler'[h].queue = q /\ handler'[h].buf = b
    /\ c \in {"drain", "exit"} => handler'[h].shut

\* Set changes one handler only.
LEMMA SetBecomes ==
    ASSUME TypeOK, NEW h \in Handlers, NEW u \in Task, Set(h, u)
    PROVE  /\ handler' \in [Handlers -> Task] /\ handler'[h] = u
           /\ \A k \in Handlers \ {h} : handler'[k] = handler[k]
  BY DEF Set, TypeOK

\* try_establish failed: the handler dials again, or tells the senders of its
\* whole queue and exits.
LEMMA EstablishFailsBecomes ==
    ASSUME BoundsAssumption, TypeOK, NEW h \in Handlers, EstablishFails(h)
    PROVE  \/ Becomes(h, "dial", handler[h].queue, handler[h].buf) /\ UNCHANGED reply
           \/ /\ Becomes(h, "exit", <<>>, handler[h].buf)
              /\ reply' = Tell(Range(handler[h].queue), "PeerDialFailed")
  <1> DEFINE me == handler[h]
  <1>1. me \in Task /\ me.attempts \in 0..MaxSendRetries
    BY DEF TypeOK, Task
  <1>2. CASE MayRetry(h)
    <2> DEFINE u == [me EXCEPT !.attempts = @ + 1, !.pc = "dial"]
    <2>1. me.attempts + 1 \in 0..MaxSendRetries
      BY <1>1, <1>2 DEF MayRetry, BoundsAssumption
    <2>2. u \in Task
      BY <1>1, <2>1, Values, TypedAttempts, Zenon
    <2>3. u.pc = "dial" /\ u.queue = me.queue /\ u.buf = me.buf /\ u.shut = me.shut
      BY <1>1 DEF Task
    <2>4. Set(h, u) /\ UNCHANGED reply
      BY <1>2 DEF EstablishFails
    <2> HIDE DEF u
    <2> QED
      BY <2>2, <2>3, <2>4, SetBecomes DEF Becomes
  <1>3. CASE ~ MayRetry(h)
    <2> DEFINE u == [me EXCEPT !.queue = <<>>, !.shut = TRUE, !.pc = "exit"]
    <2>1. u \in Task
      BY <1>1, Values, Typed, Zenon
    <2>2. u.pc = "exit" /\ u.queue = <<>> /\ u.buf = me.buf /\ u.shut
      BY <1>1 DEF Task
    <2>3. Set(h, u) /\ reply' = Tell(Range(me.queue), "PeerDialFailed")
      BY <1>3 DEF EstablishFails
    <2> HIDE DEF u
    <2> QED
      BY <2>1, <2>2, <2>3, SetBecomes DEF Becomes
  <1> QED
    BY <1>2, <1>3

\* What each step of an outbound handler makes of its task: dial_peer.
LEMMA DialBecomes ==
    ASSUME TypeOK, NEW h \in Handlers, Dial(h)
    PROVE  Becomes(h, "open", handler[h].queue, handler[h].buf)
  <1> DEFINE me == handler[h]
             u == [me EXCEPT !.pc = "open"]
  <1>1. me \in Task
    BY DEF TypeOK
  <1>2. u \in Task
    BY <1>1, Values, Typed, Zenon
  <1>3. u.pc = "open" /\ u.queue = me.queue /\ u.buf = me.buf /\ u.shut = me.shut
    BY <1>1 DEF Task
  <1>4. Set(h, u)
    BY DEF Dial
  <1> HIDE DEF u
  <1> QED
    BY <1>2, <1>3, <1>4, SetBecomes DEF Becomes

\* Forward takes a message.
LEMMA PullBecomes ==
    ASSUME TypeOK, NEW h \in Handlers, Pull(h)
    PROVE  Becomes(h, handler[h].pc, Tail(handler[h].queue), Append(handler[h].buf, Head(handler[h].queue)))
  <1> DEFINE me == handler[h]
             u == [me EXCEPT !.queue = Tail(@), !.buf = Append(@, Head(me.queue))]
  <1>1. /\ me \in Task /\ me.pc \in {"forward", "closing"}
        /\ Tail(me.queue) \in Seq(Messages) /\ Append(me.buf, Head(me.queue)) \in Seq(Messages)
    BY DEF TypeOK, Task, Pull, At
  <1>2. u \in Task
    BY <1>1, Values, Typed, Zenon
  <1>3. /\ u.pc = me.pc /\ u.queue = Tail(me.queue) /\ u.buf = Append(me.buf, Head(me.queue))
        /\ u.shut = me.shut
    BY <1>1 DEF Task
  <1>4. Set(h, u)
    BY DEF Pull
  <1> HIDE DEF u
  <1> QED
    BY <1>1, <1>2, <1>3, <1>4, SetBecomes DEF Becomes

\* Forward writes a message.
LEMMA FlushBecomes ==
    ASSUME TypeOK, NEW h \in Handlers, Flush(h)
    PROVE  Becomes(h, handler[h].pc, handler[h].queue, Tail(handler[h].buf))
  <1> DEFINE me == handler[h]
             u == [me EXCEPT !.buf = Tail(@)]
  <1>1. me \in Task /\ me.pc \in {"forward", "closing"} /\ Tail(me.buf) \in Seq(Messages)
    BY DEF TypeOK, Task, Flush, At
  <1>2. u \in Task
    BY <1>1, Values, Typed, Zenon
  <1>3. u.pc = me.pc /\ u.queue = me.queue /\ u.buf = Tail(me.buf) /\ u.shut = me.shut
    BY <1>1 DEF Task
  <1>4. Set(h, u)
    BY DEF Flush
  <1> HIDE DEF u
  <1> QED
    BY <1>1, <1>2, <1>3, <1>4, SetBecomes DEF Becomes

\* take_until ends the stream.
LEMMA StreamEndsBecomes ==
    ASSUME TypeOK, NEW h \in Handlers, StreamEnds(h)
    PROVE  Becomes(h, "closing", handler[h].queue, handler[h].buf)
  <1> DEFINE me == handler[h]
             u == [me EXCEPT !.pc = "closing"]
  <1>1. me \in Task
    BY DEF TypeOK
  <1>2. u \in Task
    BY <1>1, Values, Typed, Zenon
  <1>3. u.pc = "closing" /\ u.queue = me.queue /\ u.buf = me.buf /\ u.shut = me.shut
    BY <1>1 DEF Task
  <1>4. Set(h, u)
    BY DEF StreamEnds
  <1> HIDE DEF u
  <1> QED
    BY <1>2, <1>3, <1>4, SetBecomes DEF Becomes

\* The queue is closed after the stream.
LEMMA StreamClosesBecomes ==
    ASSUME TypeOK, NEW h \in Handlers, StreamCloses(h)
    PROVE  Becomes(h, "drain", handler[h].queue, handler[h].buf)
  <1> DEFINE me == handler[h]
             u == [me EXCEPT !.pc = "drain", !.shut = TRUE]
  <1>1. me \in Task
    BY DEF TypeOK
  <1>2. u \in Task
    BY <1>1, Values, Typed, Zenon
  <1>3. u.pc = "drain" /\ u.queue = me.queue /\ u.buf = me.buf /\ u.shut
    BY <1>1 DEF Task
  <1>4. Set(h, u)
    BY DEF StreamCloses
  <1> HIDE DEF u
  <1> QED
    BY <1>2, <1>3, <1>4, SetBecomes DEF Becomes

\* Forward returned an error.
LEMMA SinkFailsBecomes ==
    ASSUME TypeOK, NEW h \in Handlers, SinkFails(h)
    PROVE  Becomes(h, "exit", <<>>, <<>>)
  <1> DEFINE me == handler[h]
             u == [me EXCEPT !.pc = "exit", !.queue = <<>>, !.buf = <<>>, !.shut = TRUE]
  <1>1. me \in Task
    BY DEF TypeOK
  <1>2. u \in Task
    BY <1>1, Values, Typed, Zenon
  <1>3. u.pc = "exit" /\ u.queue = <<>> /\ u.buf = <<>> /\ u.shut
    BY <1>1 DEF Task
  <1>4. Set(h, u)
    BY DEF SinkFails
  <1> HIDE DEF u
  <1> QED
    BY <1>2, <1>3, <1>4, SetBecomes DEF Becomes

\* The queue is drained.
LEMMA DrainedBecomes ==
    ASSUME TypeOK, NEW h \in Handlers, Drained(h)
    PROVE  Becomes(h, "exit", handler[h].queue, handler[h].buf)
  <1> DEFINE me == handler[h]
             u == [me EXCEPT !.pc = "exit", !.shut = TRUE]
  <1>1. me \in Task
    BY DEF TypeOK
  <1>2. u \in Task
    BY <1>1, Values, Typed, Zenon
  <1>3. u.pc = "exit" /\ u.queue = me.queue /\ u.buf = me.buf /\ u.shut
    BY <1>1 DEF Task
  <1>4. Set(h, u)
    BY DEF Drained
  <1> HIDE DEF u
  <1> QED
    BY <1>2, <1>3, <1>4, SetBecomes DEF Becomes

\* The inbound handler breaks off.
LEMMA RemoteClosesBecomes ==
    ASSUME TypeOK, NEW h \in Handlers, RemoteCloses(h)
    PROVE  Becomes(h, handler[h].pc, handler[h].queue, handler[h].buf)
  <1> DEFINE me == handler[h]
             u == [me EXCEPT !.link = "closed"]
  <1>1. me \in Task /\ me.pc \in {"forward", "closing"}
    BY DEF TypeOK, Task, RemoteCloses, At
  <1>2. u \in Task
    BY <1>1, TypedLink, Zenon
  <1>3. u.pc = me.pc /\ u.queue = me.queue /\ u.buf = me.buf /\ u.shut = me.shut
    BY <1>1 DEF Task
  <1>4. Set(h, u)
    BY DEF RemoteCloses
  <1> HIDE DEF u
  <1> QED
    BY <1>1, <1>2, <1>3, <1>4, SetBecomes DEF Becomes

\* A message goes to the retry queue, or with the actor gone the rest is dropped.
LEMMA RequeueBecomes ==
    ASSUME TypeOK, NEW h \in Handlers, Requeue(h), handler[h].shut
    PROVE  \/ /\ running
              /\ Becomes(h, handler[h].pc, Tail(handler[h].queue), handler[h].buf)
           \/ ~ running /\ Becomes(h, "exit", <<>>, handler[h].buf)
  <1> DEFINE me == handler[h]
  <1>1. me \in Task /\ Tail(me.queue) \in Seq(Messages)
    BY DEF TypeOK, Task, Requeue
  <1>2. CASE running
    <2> DEFINE u == [me EXCEPT !.queue = Tail(@)]
    <2>1. u \in Task
      BY <1>1, Values, Typed, Zenon
    <2>2. u.pc = me.pc /\ u.queue = Tail(me.queue) /\ u.buf = me.buf /\ u.shut = me.shut
      BY <1>1, Zenon DEF Task
    <2>3. Set(h, u)
      BY <1>2 DEF Requeue
    <2> HIDE DEF u
    <2> QED
      BY <1>2, <2>1, <2>2, <2>3, SetBecomes, Zenon DEF Becomes
  <1>3. CASE ~ running
    <2> DEFINE u == [me EXCEPT !.queue = <<>>, !.pc = "exit"]
    <2>1. u \in Task
      BY <1>1, Values, Typed, Zenon
    <2>2. u.pc = "exit" /\ u.queue = <<>> /\ u.buf = me.buf /\ u.shut = me.shut
      BY <1>1, Zenon DEF Task
    <2>3. Set(h, u)
      BY <1>3 DEF Requeue
    <2> HIDE DEF u
    <2> QED
      BY <1>3, <2>1, <2>2, <2>3, SetBecomes, Zenon DEF Becomes
  <1> QED
    BY <1>2, <1>3

\* The handler is gone.
LEMMA ExitBecomes ==
    ASSUME BoundsAssumption, TypeOK, NEW h \in Handlers, Exit(h)
    PROVE  Becomes(h, "free", <<>>, <<>>)
  <1>1. NoTask \in Task /\ Set(h, NoTask)
    BY NoTaskTyped DEF Exit
  <1>2. NoTask.pc = "free" /\ NoTask.queue = <<>> /\ NoTask.buf = <<>> /\ ~ NoTask.shut
    BY DEF NoTask
  <1> QED
    BY <1>1, <1>2, SetBecomes DEF Becomes

\* A new handler, for a message that has none.
LEMMA SendBecomes ==
    ASSUME BoundsAssumption, TypeOK, NEW m \in Messages, SendMessage(m)
    PROVE  /\ active' \in Handlers
           /\ \/ UNCHANGED handler
              \/ At(active', "free") /\ Becomes(active', "dial", <<>>, <<>>)
  <1>1. CASE active # NoHandler /\ ~ IsClosed(active)
    BY <1>1 DEF SendMessage, TypeOK
  <1>2. CASE ~ (active # NoHandler /\ ~ IsClosed(active))
    <2> DEFINE u == [NoTask EXCEPT !.pc = "dial"]
    <2>1. NoTask \in Task
      BY NoTaskTyped
    <2>2. u \in Task
      BY <2>1, Values, Typed, Zenon
    <2>3. u.pc = "dial" /\ u.queue = <<>> /\ u.buf = <<>> /\ ~ u.shut
      BY <2>1 DEF Task, NoTask
    <2>4. active' \in Handlers /\ At(active', "free") /\ Set(active', u)
      BY <1>2 DEF SendMessage, Spare
    <2> HIDE DEF u
    <2> QED
      BY <2>2, <2>3, <2>4, SetBecomes DEF Becomes
  <1> QED
    BY <1>1, <1>2

\* What a handler holds at each of its steps, and the actor between is_closed and send.
HandlersInv ==
    /\ \A h \in Handlers :
        /\ handler[h].pc \in {"free", "exit"} => handler[h].queue = <<>>
        /\ handler[h].pc \in {"free", "dial", "open", "drain", "exit"} => handler[h].buf = <<>>
        /\ handler[h].pc \in {"drain", "exit"} => handler[h].shut
    /\ passing # <<>> => active \in Handlers /\ Len(passing) = 1

\* Answers are answers.
LEMMA TellTyped ==
    ASSUME TypeOK, NEW ms, NEW a \in {"ok", "PeerDialFailed", "Dropped"}
    PROVE  Tell(ms, a) \in [Messages -> Answers]
  BY DEF Tell, TypeOK, Answers

\* Queues and buffers hold messages.
LEMMA QueuesTyped ==
    ASSUME TypeOK
    PROVE  \A h \in Handlers : handler[h].queue \in Seq(Messages) /\ handler[h].buf \in Seq(Messages)
  BY DEF TypeOK, Task

\* The send after is_closed appends to a queue that is still open.
LEMMA PassOnBecomes ==
    ASSUME TypeOK, HandlersInv, PassOn, ~ IsClosed(active)
    PROVE  /\ active \in Handlers /\ Head(passing) \in Messages
           /\ Becomes(active, handler[active].pc, Append(handler[active].queue, Head(passing)), handler[active].buf)
           /\ UNCHANGED reply
  <1> DEFINE me == handler[active]
             u == [me EXCEPT !.queue = Append(@, Head(passing))]
  <1>1. active \in Handlers /\ Head(passing) \in Messages
    BY DEF PassOn, HandlersInv, TypeOK
  <1>2. me \in Task /\ Append(me.queue, Head(passing)) \in Seq(Messages)
    BY <1>1 DEF TypeOK, Task
  <1>3. u \in Task
    BY <1>2, Values, Typed, Zenon
  <1>4. u.pc = me.pc /\ u.queue = Append(me.queue, Head(passing)) /\ u.buf = me.buf /\ u.shut = me.shut
    BY <1>2 DEF Task
  <1>5. handler' = [handler EXCEPT ![active] = u] /\ UNCHANGED reply
    BY DEF PassOn
  <1> HIDE DEF u
  <1>6. Set(active, u)
    BY <1>5 DEF Set
  <1>7. me.pc \notin {"drain", "exit"}
    BY <1>1 DEF HandlersInv, IsClosed
  <1> QED
    BY <1>1, <1>3, <1>4, <1>5, <1>6, <1>7, SetBecomes DEF Becomes

\* The connection goes down: only links and what is in flight change.
LEMMA DisconnectKeeps ==
    ASSUME BoundsAssumption, TypeOK, Disconnect
    PROVE  /\ handler' \in [Handlers -> Task]
           /\ \A h \in Handlers : /\ handler'[h].pc = handler[h].pc /\ handler'[h].queue = handler[h].queue
                                  /\ handler'[h].buf = handler[h].buf /\ handler'[h].shut = handler[h].shut
           /\ wire' \in [Handlers -> Seq(Messages)]
           /\ \A h \in Handlers : /\ Len(wire'[h]) <= Len(wire[h])
                                  /\ \A i \in 1..Len(wire'[h]) : wire'[h][i] = wire[h][i]
  <1>1. \A h \in Handlers : handler'[h] = handler[h] \/ handler'[h] = [handler[h] EXCEPT !.link = "down"]
    BY DEF Disconnect
  <1>2. DOMAIN handler' = Handlers /\ handler' = [h \in Handlers |-> handler'[h]]
    BY DEF Disconnect
  <1>3. ASSUME NEW h \in Handlers
        PROVE  /\ handler'[h] \in Task
               /\ handler'[h].pc = handler[h].pc /\ handler'[h].queue = handler[h].queue
               /\ handler'[h].buf = handler[h].buf /\ handler'[h].shut = handler[h].shut
    <2>1. handler[h] \in Task
      BY DEF TypeOK
    <2> QED
      BY <2>1, <1>1, TypedLink, ZenonT(30)
  <1>4. PICK n \in [Handlers -> 0..Window] :
            /\ \A h \in Handlers : n[h] <= Len(wire[h])
            /\ wire' = [h \in Handlers |-> SubSeq(wire[h], 1, n[h])]
    BY Zenon DEF Disconnect
  <1>5. ASSUME NEW h \in Handlers
        PROVE  /\ SubSeq(wire[h], 1, n[h]) \in Seq(Messages)
               /\ Len(SubSeq(wire[h], 1, n[h])) <= Len(wire[h])
               /\ \A i \in 1..Len(SubSeq(wire[h], 1, n[h])) : SubSeq(wire[h], 1, n[h])[i] = wire[h][i]
    BY <1>4 DEF TypeOK, BoundsAssumption
  <1>6. handler' \in [Handlers -> Task]
    BY <1>2, <1>3
  <1>7. /\ wire' \in [Handlers -> Seq(Messages)]
        /\ \A h \in Handlers : /\ Len(wire'[h]) <= Len(wire[h])
                               /\ \A i \in 1..Len(wire'[h]) : wire'[h][i] = wire[h][i]
    BY <1>4, <1>5
  <1> QED
    BY <1>3, <1>6, <1>7

\* A substream is opened, or try_establish fails.
LEMMA OpenSubstreamBecomes ==
    ASSUME BoundsAssumption, TypeOK, NEW h \in Handlers, OpenSubstream(h)
    PROVE  \/ Becomes(h, "forward", handler[h].queue, handler[h].buf) /\ UNCHANGED reply
           \/ EstablishFails(h)
  <1> DEFINE me == handler[h]
             u == [me EXCEPT !.pc = "forward"]
  <1>1. me \in Task
    BY DEF TypeOK
  <1>2. u \in Task
    BY <1>1, Values, Typed, Zenon
  <1>3. u.pc = "forward" /\ u.queue = me.queue /\ u.buf = me.buf /\ u.shut = me.shut
    BY <1>1 DEF Task
  <1>4. CASE conn = "up"
    <2>1. Set(h, u) /\ UNCHANGED reply
      BY <1>4 DEF OpenSubstream
    <2> HIDE DEF u
    <2> QED
      BY <1>2, <1>3, <2>1, SetBecomes DEF Becomes
  <1>5. CASE conn # "up"
    BY <1>5 DEF OpenSubstream
  <1> QED
    BY <1>4, <1>5

\* Type correctness, action by action.
LEMMA TypeStep == ASSUME BoundsAssumption, TypeOK, HandlersInv, [Next]_vars PROVE TypeOK'
  <1>1. ASSUME NEW m \in Messages, NewMessage(m) PROVE TypeOK'
    BY <1>1 DEF NewMessage, TypeOK, actorVars, peerVars, faults
  <1>2. ASSUME NEW m \in Messages, TaskEnds(m) PROVE TypeOK'
    BY <1>2 DEF TaskEnds, TypeOK, actorVars, peerVars, faults
  <1>3. ASSUME HandleRetry PROVE TypeOK'
    <2>1. retry # <<>> /\ Head(retry) \in Messages /\ Tail(retry) \in Seq(Messages)
      BY <1>3, SMT DEF HandleRetry, TypeOK
    <2>2. handler' \in [Handlers -> Task] /\ active' \in Handlers
      BY <1>3, <2>1, SendBecomes, Zenon DEF HandleRetry, Becomes, TypeOK
    <2> QED
      BY <1>3, <2>1, <2>2 DEF HandleRetry, SendMessage, TypeOK, actorVars, peerVars, faults
  <1>4. ASSUME HandleOutbound PROVE TypeOK'
    <2>1. outbound # <<>> /\ Head(outbound) \in Messages /\ Tail(outbound) \in Seq(Messages)
      BY <1>4, SMT DEF HandleOutbound, TypeOK
    <2>2. handler' \in [Handlers -> Task] /\ active' \in Handlers
      BY <1>4, <2>1, SendBecomes DEF HandleOutbound, Becomes, TypeOK
    <2> QED
      BY <1>4, <2>1, <2>2 DEF HandleOutbound, SendMessage, TypeOK, actorVars, peerVars, faults
  <1>5. ASSUME PassOn PROVE TypeOK'
    <2>1. handler' \in [Handlers -> Task]
      BY <1>5, PassOnBecomes, Zenon DEF PassOn, Becomes, TypeOK
    <2>2. reply' \in [Messages -> Answers]
      BY <1>5, TellTyped DEF PassOn, TypeOK, Answers
    <2> QED
      BY <1>5, <2>1, <2>2 DEF PassOn, TypeOK, Answers, actorVars, peerVars, faults
  <1>6. ASSUME HandleExited PROVE TypeOK'
    BY <1>6 DEF HandleExited, TypeOK, BoundsAssumption, peerVars, faults
  <1>7. ASSUME ShutDown PROVE TypeOK'
    <2>1. reply' \in [Messages -> Answers]
      BY <1>7, TellTyped, Zenon DEF ShutDown
    <2>2. outbound' \in Seq(Messages) /\ retry' \in Seq(Messages) /\ events' \in 0..EventCap /\ active' = NoHandler
      BY <1>7, Values DEF ShutDown, BoundsAssumption
    <2>3. running' \in BOOLEAN
      BY <1>7, Zenon DEF ShutDown
    <2>4. UNCHANGED <<passing, handler, lost, conn, wire, peerVars>>
      BY <1>7, SMT DEF ShutDown
    <2> QED
      BY <1>7, <2>1, <2>2, <2>3, <2>4 DEF TypeOK, Answers, peerVars
  <1>8. ASSUME InboundRun PROVE TypeOK'
    BY <1>8 DEF InboundRun, TypeOK, actorVars, peerVars, faults
  <1>9. ASSUME Disconnect PROVE TypeOK'
    <2>1. handler' \in [Handlers -> Task] /\ wire' \in [Handlers -> Seq(Messages)]
      BY <1>9, DisconnectKeeps
    <2> QED
      BY <1>9, <2>1 DEF Disconnect, TypeOK, actorVars, peerVars, faults
  <1>10. ASSUME NEW h \in Handlers, Dial(h) PROVE TypeOK'
    <2>1. handler' \in [Handlers -> Task]
      BY <1>10, DialBecomes DEF Becomes
    <2> QED
      BY <1>10, <2>1 DEF Dial, TypeOK, actorVars, peerVars, faults
  <1>11. ASSUME NEW h \in Handlers, Pull(h) PROVE TypeOK'
    <2>1. handler' \in [Handlers -> Task]
      BY <1>11, PullBecomes DEF Becomes
    <2>2. reply' \in [Messages -> Answers]
      BY <1>11, TellTyped, Zenon DEF Pull
    <2> QED
      BY <1>11, <2>1, <2>2, Zenon DEF Pull, TypeOK, Answers, actorVars, peerVars, faults
  <1>12. ASSUME NEW h \in Handlers, Flush(h) PROVE TypeOK'
    <2>1. handler' \in [Handlers -> Task]
      BY <1>12, FlushBecomes DEF Becomes
    <2>2. wire' \in [Handlers -> Seq(Messages)]
      BY <1>12, QueuesTyped DEF Flush, TypeOK
    <2> QED
      BY <1>12, <2>1, <2>2 DEF Flush, TypeOK, actorVars, peerVars, faults
  <1>13. ASSUME NEW h \in Handlers, StreamEnds(h) PROVE TypeOK'
    <2>1. handler' \in [Handlers -> Task]
      BY <1>13, StreamEndsBecomes DEF Becomes
    <2> QED
      BY <1>13, <2>1 DEF StreamEnds, TypeOK, actorVars, peerVars, faults
  <1>14. ASSUME NEW h \in Handlers, StreamCloses(h) PROVE TypeOK'
    <2>1. handler' \in [Handlers -> Task]
      BY <1>14, StreamClosesBecomes DEF Becomes
    <2> QED
      BY <1>14, <2>1 DEF StreamCloses, TypeOK, actorVars, peerVars, faults
  <1>15. ASSUME NEW h \in Handlers, SinkFails(h) PROVE TypeOK'
    <2>1. handler' \in [Handlers -> Task]
      BY <1>15, SinkFailsBecomes DEF Becomes
    <2>2. reply' \in [Messages -> Answers]
      BY <1>15, TellTyped, Zenon DEF SinkFails
    <2>3. lost' \subseteq Messages
      BY <1>15, QueuesTyped DEF SinkFails, TypeOK, Range
    <2> QED
      BY <1>15, <2>1, <2>2, <2>3 DEF SinkFails, TypeOK, Answers, actorVars, peerVars, faults
  <1>16. ASSUME NEW h \in Handlers, Drained(h) PROVE TypeOK'
    <2>1. handler' \in [Handlers -> Task]
      BY <1>16, DrainedBecomes DEF Becomes
    <2> QED
      BY <1>16, <2>1 DEF Drained, TypeOK, actorVars, peerVars, faults
  <1>17. ASSUME NEW h \in Handlers, RemoteCloses(h) PROVE TypeOK'
    <2>1. handler' \in [Handlers -> Task]
      BY <1>17, RemoteClosesBecomes DEF Becomes
    <2>2. wire' \in [Handlers -> Seq(Messages)]
      BY <1>17, SMT DEF RemoteCloses, TypeOK
    <2> QED
      BY <1>17, <2>1, <2>2 DEF RemoteCloses, TypeOK, actorVars, peerVars, faults
  <1>18. ASSUME NEW h \in Handlers, Requeue(h) PROVE TypeOK'
    <2>1. handler[h].shut
      BY <1>18, SMT DEF Requeue, At, HandlersInv
    <2>2. handler' \in [Handlers -> Task]
      BY <1>18, <2>1, RequeueBecomes DEF Becomes
    <2>3. reply' \in [Messages -> Answers]
      BY <1>18, TellTyped DEF Requeue, TypeOK, Answers
    <2>4. handler[h].queue # <<>> /\ (UNCHANGED retry \/ retry' = Append(retry, Head(handler[h].queue)))
      BY <1>18, SMT DEF Requeue
    <2>5. handler[h].queue \in Seq(Messages) /\ retry \in Seq(Messages)
      BY <1>18, QueuesTyped DEF TypeOK
    <2>6. Head(handler[h].queue) \in Messages
      BY <1>18, <2>4, <2>5
    <2>7. retry' \in Seq(Messages)
      BY <1>18, <2>4, <2>5, <2>6
    <2> QED
      BY <1>18, <2>1, <2>2, <2>3, <2>4, <2>5, <2>6, <2>7, Zenon DEF Requeue, TypeOK, Answers, actorVars, peerVars, faults
  <1>19. ASSUME NEW h \in Handlers, Exit(h) PROVE TypeOK'
    <2>1. handler' \in [Handlers -> Task]
      BY <1>19, ExitBecomes DEF Becomes
    <2> QED
      BY <1>19, <2>1 DEF Exit, TypeOK, BoundsAssumption, actorVars, peerVars, faults
  <1>20. ASSUME NEW h \in Handlers, DialFails(h) PROVE TypeOK'
    <2>1. handler' \in [Handlers -> Task]
      BY <1>20, EstablishFailsBecomes DEF DialFails, Becomes
    <2>2. reply' \in [Messages -> Answers]
      BY <1>20, EstablishFailsBecomes, TellTyped, Zenon DEF DialFails, TypeOK, Answers
    <2> QED
      BY <1>20, <2>1, <2>2 DEF DialFails, TypeOK, Answers, actorVars, peerVars, faults
  <1>21. ASSUME NEW h \in Handlers, OpenSubstream(h) PROVE TypeOK'
    <2>1. handler' \in [Handlers -> Task]
      BY <1>21, OpenSubstreamBecomes, EstablishFailsBecomes, Zenon DEF Becomes
    <2>2. reply' \in [Messages -> Answers]
      BY <1>21, OpenSubstreamBecomes, EstablishFailsBecomes, TellTyped, Zenon DEF TypeOK, Answers
    <2> QED
      BY <1>21, <2>1, <2>2 DEF OpenSubstream, TypeOK, Answers, actorVars, peerVars, faults
  <1>22. ASSUME NEW h \in Handlers, InboundReceive(h) PROVE TypeOK'
    BY <1>22 DEF InboundReceive, TypeOK, actorVars, peerVars, faults
  <1>23. CASE UNCHANGED vars
    BY <1>23 DEF TypeOK, vars, actorVars, peerVars, faults
  <1> QED
    BY <1>1, <1>2, <1>3, <1>4, <1>5, <1>6, <1>7, <1>8, <1>9, <1>10, <1>11, <1>12, <1>13, <1>14, <1>15,
       <1>16, <1>17, <1>18, <1>19, <1>20, <1>21, <1>22, <1>23, ZenonT(30)
    DEF Next, HandlerStep

\* A handler step keeps HandlersInv when what it leaves fits its new pc.
LEMMA BecomesKeeps ==
    ASSUME TypeOK, HandlersInv, NEW h \in Handlers, NEW c, NEW q, NEW b, Becomes(h, c, q, b),
           c \in {"free", "exit"} => q = <<>>,
           c \in {"free", "dial", "open", "drain", "exit"} => b = <<>>,
           UNCHANGED <<passing, active>>
    PROVE  HandlersInv'
  BY DEF Becomes, HandlersInv

\* HandlersInv, action by action.
LEMMA HandlersStep == ASSUME BoundsAssumption, TypeOK, HandlersInv, [Next]_vars PROVE HandlersInv'
  <1>1. ASSUME NEW m \in Messages, NewMessage(m) PROVE HandlersInv'
    BY <1>1 DEF NewMessage, HandlersInv, actorVars, peerVars, faults
  <1>2. ASSUME NEW m \in Messages, TaskEnds(m) PROVE HandlersInv'
    BY <1>2 DEF TaskEnds, HandlersInv, actorVars, peerVars, faults
  <1>3. ASSUME HandleRetry PROVE HandlersInv'
    <2>1. retry # <<>> /\ Head(retry) \in Messages
      BY <1>3, SMT DEF HandleRetry, TypeOK
    <2>2. passing' = <<Head(retry)>> /\ SendMessage(Head(retry))
      BY <1>3, SMT DEF HandleRetry, SendMessage
    <2>3. active' \in Handlers /\ (UNCHANGED handler \/ Becomes(active', "dial", <<>>, <<>>))
      BY <1>3, <2>1, <2>2, SendBecomes
    <2> QED
      BY <1>3, <2>1, <2>2, <2>3 DEF HandlersInv, Becomes
  <1>4. ASSUME HandleOutbound PROVE HandlersInv'
    <2>1. outbound # <<>> /\ Head(outbound) \in Messages
      BY <1>4, SMT DEF HandleOutbound, TypeOK
    <2>2. passing' = <<Head(outbound)>> /\ SendMessage(Head(outbound))
      BY <1>4, SMT DEF HandleOutbound, SendMessage
    <2>3. active' \in Handlers /\ (UNCHANGED handler \/ Becomes(active', "dial", <<>>, <<>>))
      BY <1>4, <2>1, <2>2, SendBecomes
    <2> QED
      BY <1>4, <2>1, <2>2, <2>3 DEF HandlersInv, Becomes
  <1>5. ASSUME PassOn PROVE HandlersInv'
    <2>1. passing' = <<>> /\ active' = active
      BY <1>5, SMT DEF PassOn
    <2>2. UNCHANGED handler \/ ~ IsClosed(active)
      BY <1>5, SMT DEF PassOn
    <2> QED
      BY <1>5, <2>1, <2>2, PassOnBecomes DEF HandlersInv, Becomes, IsClosed, At
  <1>6. ASSUME HandleExited PROVE HandlersInv'
    BY <1>6 DEF HandleExited, HandlersInv, actorVars, peerVars, faults
  <1>7. ASSUME ShutDown PROVE HandlersInv'
    BY <1>7 DEF ShutDown, HandlersInv, actorVars, peerVars, faults
  <1>8. ASSUME InboundRun PROVE HandlersInv'
    BY <1>8 DEF InboundRun, HandlersInv, actorVars, peerVars, faults
  <1>9. ASSUME Disconnect PROVE HandlersInv'
    BY <1>9, DisconnectKeeps DEF Disconnect, HandlersInv, actorVars, peerVars, faults
  <1>10. ASSUME NEW h \in Handlers, Dial(h) PROVE HandlersInv'
    <2>1. UNCHANGED <<passing, active>> /\ handler[h].pc = "dial"
      BY <1>10, SMT DEF Dial, At, actorVars
    <2> QED
      BY <1>10, <2>1, DialBecomes, BecomesKeeps, Zenon DEF HandlersInv
  <1>11. ASSUME NEW h \in Handlers, Pull(h) PROVE HandlersInv'
    <2>1. UNCHANGED <<passing, active>> /\ handler[h].pc = "forward"
      BY <1>11, SMT DEF Pull, At, actorVars
    <2> QED
      BY <1>11, <2>1, PullBecomes, BecomesKeeps
  <1>12. ASSUME NEW h \in Handlers, Flush(h) PROVE HandlersInv'
    <2>1. UNCHANGED <<passing, active>> /\ handler[h].pc \in {"forward", "closing"}
      BY <1>12, SMT DEF Flush, At, actorVars
    <2> QED
      BY <1>12, <2>1, FlushBecomes, BecomesKeeps
  <1>13. ASSUME NEW h \in Handlers, StreamEnds(h) PROVE HandlersInv'
    <2>1. UNCHANGED <<passing, active>>
      BY <1>13, SMT DEF StreamEnds, At, actorVars
    <2> QED
      BY <1>13, <2>1, StreamEndsBecomes, BecomesKeeps
  <1>14. ASSUME NEW h \in Handlers, StreamCloses(h) PROVE HandlersInv'
    <2>1. UNCHANGED <<passing, active>> /\ handler[h].buf = <<>>
      BY <1>14, SMT DEF StreamCloses, At, actorVars
    <2> QED
      BY <1>14, <2>1, StreamClosesBecomes, BecomesKeeps
  <1>15. ASSUME NEW h \in Handlers, SinkFails(h) PROVE HandlersInv'
    <2>1. UNCHANGED <<passing, active>>
      BY <1>15, SMT DEF SinkFails, At, actorVars
    <2> QED
      BY <1>15, <2>1, SinkFailsBecomes, BecomesKeeps
  <1>16. ASSUME NEW h \in Handlers, Drained(h) PROVE HandlersInv'
    <2>1. UNCHANGED <<passing, active>> /\ handler[h].queue = <<>> /\ handler[h].pc = "drain"
      BY <1>16, SMT DEF Drained, At, actorVars
    <2> QED
      BY <1>16, <2>1, DrainedBecomes, BecomesKeeps, Zenon DEF HandlersInv
  <1>17. ASSUME NEW h \in Handlers, RemoteCloses(h) PROVE HandlersInv'
    <2>1. UNCHANGED <<passing, active>> /\ handler[h].pc = "forward"
      BY <1>17, SMT DEF RemoteCloses, At, actorVars
    <2> QED
      BY <1>17, <2>1, RemoteClosesBecomes, BecomesKeeps, Zenon DEF HandlersInv
  <1>18. ASSUME NEW h \in Handlers, Requeue(h) PROVE HandlersInv'
    <2>1. UNCHANGED <<passing, active>> /\ handler[h].pc = "drain" /\ handler[h].buf = <<>> /\ handler[h].shut
      BY <1>18, SMT DEF Requeue, At, HandlersInv
    <2> QED
      BY <1>18, <2>1, RequeueBecomes, BecomesKeeps
  <1>19. ASSUME NEW h \in Handlers, Exit(h) PROVE HandlersInv'
    <2>1. UNCHANGED <<passing, active>>
      BY <1>19, SMT DEF Exit
    <2> QED
      BY <1>19, <2>1, ExitBecomes, BecomesKeeps
  <1>20. ASSUME NEW h \in Handlers, DialFails(h) PROVE HandlersInv'
    <2>1. UNCHANGED <<passing, active>> /\ handler[h].buf = <<>> /\ EstablishFails(h)
      BY <1>20, SMT DEF DialFails, At, HandlersInv, actorVars
    <2> QED
      BY <1>20, <2>1, EstablishFailsBecomes, BecomesKeeps, Zenon
  <1>21. ASSUME NEW h \in Handlers, OpenSubstream(h) PROVE HandlersInv'
    <2>1. UNCHANGED <<passing, active>> /\ handler[h].buf = <<>>
      BY <1>21, SMT DEF OpenSubstream, At, HandlersInv, actorVars
    <2> QED
      BY <1>21, <2>1, OpenSubstreamBecomes, EstablishFailsBecomes, BecomesKeeps
  <1>22. ASSUME NEW h \in Handlers, InboundReceive(h) PROVE HandlersInv'
    BY <1>22 DEF InboundReceive, HandlersInv, actorVars, peerVars, faults
  <1>23. CASE UNCHANGED vars
    BY <1>23 DEF HandlersInv, vars, actorVars, peerVars, faults
  <1> QED
    BY <1>1, <1>2, <1>3, <1>4, <1>5, <1>6, <1>7, <1>8, <1>9, <1>10, <1>11, <1>12, <1>13, <1>14, <1>15,
       <1>16, <1>17, <1>18, <1>19, <1>20, <1>21, <1>22, <1>23, ZenonT(30)
    DEF Next, HandlerStep

-----------------------------------------------------------------------------
(***************************************************************************)
(* The places of a state and of the next one.                               *)
(***************************************************************************)
\* c holds the sequences of the variables.
Holds(c, out, ret, pas, inb, del, hs, w) ==
    /\ c \in [Places -> Seq(Messages)]
    /\ c[Node("outbound")] = out /\ c[Node("retry")] = ret /\ c[Node("passing")] = pas
    /\ c[Node("inbox")] = inb /\ c[Node("delivered")] = del
    /\ \A h \in Handlers : c[<<h, "queue">>] = hs[h].queue /\ c[<<h, "buf">>] = hs[h].buf /\ c[<<h, "wire">>] = w[h]

\* Contents holds the sequences it is made of.
LEMMA ContentsOf ==
    ASSUME NEW out \in Seq(Messages), NEW ret \in Seq(Messages), NEW pas \in Seq(Messages), NEW inb \in Seq(Messages),
           NEW del \in Seq(Messages), NEW hs \in [Handlers -> Task], NEW w \in [Handlers -> Seq(Messages)]
    PROVE  Holds(Contents(out, ret, pas, inb, del, hs, w), out, ret, pas, inb, del, hs, w)
  <1>1. \A h \in Handlers : hs[h].queue \in Seq(Messages) /\ hs[h].buf \in Seq(Messages) /\ w[h] \in Seq(Messages)
    BY DEF Task
  <1>2. \A pl \in Places : /\ pl[2] \in {"outbound", "retry", "passing", "inbox", "delivered", "queue", "buf", "wire"}
                           /\ pl[2] \in {"queue", "buf", "wire"} => pl[1] \in Handlers
    BY DEF Places
  <1> DEFINE c == Contents(out, ret, pas, inb, del, hs, w)
  <1>3. c \in [Places -> Seq(Messages)]
    BY <1>1, <1>2 DEF Contents
  <1>4. /\ \A k \in {"outbound", "retry", "passing", "inbox", "delivered"} :
                Node(k) \in Places /\ Node(k)[2] = k
        /\ \A h \in Handlers : \A k \in {"queue", "buf", "wire"} :
                <<h, k>> \in Places /\ <<h, k>>[1] = h /\ <<h, k>>[2] = k
    BY DEF Node, Places
  <1>5. /\ c[Node("outbound")] = out /\ c[Node("retry")] = ret /\ c[Node("passing")] = pas
        /\ c[Node("inbox")] = inb /\ c[Node("delivered")] = del
    BY <1>4, Zenon DEF Contents
  <1>6. \A h \in Handlers :
            c[<<h, "queue">>] = hs[h].queue /\ c[<<h, "buf">>] = hs[h].buf /\ c[<<h, "wire">>] = w[h]
    BY <1>4, Zenon DEF Contents
  <1> QED
    BY <1>3, <1>5, <1>6, Zenon DEF Holds

\* The places of this state.
LEMMA ContentNow ==
    ASSUME TypeOK
    PROVE  Holds(content, outbound, retry, passing, inbox, delivered, handler, wire)
  BY ContentsOf, Zenon DEF content, TypeOK

\* The places of the next state.
LEMMA ContentNext ==
    ASSUME TypeOK'
    PROVE  Holds(content', outbound', retry', passing', inbox', delivered', handler', wire')
  BY ContentsOf, Zenon DEF content, TypeOK

\* A place belongs to the node or to a handler.
LEMMA EveryPlace ==
    \A pl \in Places : \/ \E k \in {"outbound", "retry", "passing", "inbox", "delivered"} : pl = Node(k)
                       \/ \E h \in Handlers : \E k \in {"queue", "buf", "wire"} : pl = <<h, k>>
  BY DEF Places, Node

\* Places of different kinds or owners differ.
LEMMA PlacesDiffer ==
    /\ \A k, l : Node(k) = Node(l) => k = l
    /\ \A h, i, k, l : <<h, k>> = <<i, l>> => h = i /\ k = l
    /\ \A h, k, l : Node(l) = <<h, k>> => k = l
  BY DEF Node

\* d is c after the head of p has gone to the end of q.
Shift(c, d, p, q) ==
    /\ c \in [Places -> Seq(Messages)] /\ d \in [Places -> Seq(Messages)]
    /\ p \in Places /\ q \in Places /\ p # q /\ c[p] # <<>>
    /\ d[p] = Tail(c[p]) /\ d[q] = Append(c[q], Head(c[p]))
    /\ \A pl \in Places \ {p, q} : d[pl] = c[pl]

\* A shift is a move.
LEMMA IsMove ==
    ASSUME NEW c, NEW d, NEW p, NEW q, Shift(c, d, p, q)
    PROVE  d = Move(c, p, q)
  <1>1. /\ c \in [Places -> Seq(Messages)] /\ d \in [Places -> Seq(Messages)]
        /\ p \in Places /\ q \in Places /\ p # q /\ c[p] # <<>>
    BY Zenon DEF Shift
  <1>2. /\ d[p] = Tail(c[p]) /\ d[q] = Append(c[q], Head(c[p]))
        /\ \A pl \in Places \ {p, q} : d[pl] = c[pl]
    BY Zenon DEF Shift
  <1>3. /\ Move(c, p, q) \in [Places -> Seq(Messages)]
        /\ Move(c, p, q)[p] = Tail(c[p]) /\ Move(c, p, q)[q] = Append(c[q], Head(c[p]))
        /\ \A r \in Places \ {p, q} : Move(c, p, q)[r] = c[r]
    BY <1>1, MoveFields, Zenon
  <1>4. \A pl \in Places : d[pl] = Move(c, p, q)[pl]
    BY <1>2, <1>3, Zenon
  <1> QED
    BY <1>1, <1>3, <1>4

\* A move between two places of the same sort keeps the account.
LEMMA MoveStep ==
    ASSUME TypeOK, Accounted(content, reply), UNCHANGED reply,
           NEW p, NEW q, Shift(content, content', p, q), p \in WaitPlaces <=> q \in WaitPlaces
    PROVE  Accounted(content, reply)'
  <1>1. content' = Move(content, p, q)
    BY IsMove
  <1>2. content \in [Places -> Seq(Messages)] /\ p \in Places /\ q \in Places /\ p # q /\ content[p] # <<>>
    BY Zenon DEF Shift
  <1>3. reply \in [Messages -> Answers]
    BY DEF TypeOK, Answers
  <1>4. Accounted(Move(content, p, q), reply)
    BY <1>2, <1>3, MoveAccounted, Zenon
  <1> QED
    BY <1>1, <1>4

\* A step that leaves every place alone keeps the account.
LEMMA StutterStep ==
    ASSUME TypeOK, TypeOK', Accounted(content, reply), UNCHANGED reply,
           \A pl \in Places : content'[pl] = content[pl]
    PROVE  Accounted(content, reply)'
  <1>1. content \in [Places -> Seq(Messages)] /\ content' \in [Places -> Seq(Messages)]
    BY ContentNow, ContentNext, Zenon DEF Holds
  <1>2. content' = content
    BY <1>1
  <1> QED
    BY <1>2

\* A step that empties queues and answers their senders keeps the account.
LEMMA DropStep ==
    ASSUME TypeOK, TypeOK', Accounted(content, reply),
           NEW dropped, Drops(content, content', dropped), NEW a \in {"PeerDialFailed", "Dropped"},
           reply' = Tell(UNION {Range(content[pl]) : pl \in dropped}, a)
    PROVE  Accounted(content, reply)'
  <1>1. reply \in [Messages -> Answers] /\ reply' \in [Messages -> Answers]
    BY Zenon DEF TypeOK, Answers
  <1>2. Answered(content, reply, reply', dropped, a)
    BY DEF Tell, Answered
  <1>3. content \in [Places -> Seq(Messages)]
    BY Zenon DEF Drops
  <1> QED
    BY <1>1, <1>2, <1>3, DropAccounted, Zenon

\* What a step changes, place by place.
SameNode(ks) ==
    \A k \in {"outbound", "retry", "passing", "inbox", "delivered"} \ ks : content'[Node(k)] = content[Node(k)]
SameHandlers(h, ks) ==
    \A i \in Handlers : \A k \in {"queue", "buf", "wire"} :
        (i # h \/ k \notin ks) => content'[<<i, k>>] = content[<<i, k>>]

SameBut(h, ns, ks) ==
    \A pl \in Places : \/ \E k \in ns : pl = Node(k)
                       \/ \E k \in ks : pl = <<h, k>>
                       \/ content'[pl] = content[pl]

\* The places of the node and those of the handlers are all the places.
LEMMA SamePlaces ==
    ASSUME NEW h, NEW ns, NEW ks, SameNode(ns), SameHandlers(h, ks)
    PROVE  SameBut(h, ns, ks)
  <1> SUFFICES ASSUME NEW pl \in Places
               PROVE  \/ \E k \in ns : pl = Node(k)
                      \/ \E k \in ks : pl = <<h, k>>
                      \/ content'[pl] = content[pl]
    BY DEF SameBut
  <1>1. CASE \E k \in {"outbound", "retry", "passing", "inbox", "delivered"} : pl = Node(k)
    BY <1>1, Zenon DEF SameNode
  <1>2. CASE \E i \in Handlers : \E k \in {"queue", "buf", "wire"} : pl = <<i, k>>
    BY <1>2, Zenon DEF SameHandlers
  <1> QED
    BY <1>1, <1>2, EveryPlace, Zenon

\* Variables of the node that are unchanged, as places.
LEMMA SameNow ==
    ASSUME TypeOK, TypeOK', NEW ns,
           "outbound" \in ns \/ UNCHANGED outbound, "retry" \in ns \/ UNCHANGED retry,
           "passing" \in ns \/ UNCHANGED passing, "inbox" \in ns \/ UNCHANGED inbox,
           "delivered" \in ns \/ UNCHANGED delivered
    PROVE  SameNode(ns)
  BY ContentNow, ContentNext, Zenon DEF Holds, SameNode

\* Variables of the handlers that are unchanged, as places.
LEMMA SameTasks ==
    ASSUME TypeOK, TypeOK', NEW h, NEW ks,
           \A i \in Handlers : /\ (i = h /\ "queue" \in ks) \/ handler'[i].queue = handler[i].queue
                               /\ (i = h /\ "buf" \in ks) \/ handler'[i].buf = handler[i].buf
                               /\ (i = h /\ "wire" \in ks) \/ wire'[i] = wire[i]
    PROVE  SameHandlers(h, ks)
  <1>1. \A i \in Handlers : /\ content[<<i, "queue">>] = handler[i].queue /\ content[<<i, "buf">>] = handler[i].buf
                            /\ content[<<i, "wire">>] = wire[i]
    BY ContentNow, Zenon DEF Holds
  <1>2. \A i \in Handlers : /\ content'[<<i, "queue">>] = handler'[i].queue /\ content'[<<i, "buf">>] = handler'[i].buf
                            /\ content'[<<i, "wire">>] = wire'[i]
    BY ContentNext, Zenon DEF Holds
  <1>3. ASSUME NEW i \in Handlers, NEW k \in {"queue", "buf", "wire"}, i # h \/ k \notin ks
        PROVE  content'[<<i, k>>] = content[<<i, k>>]
    <2>1. CASE k = "queue"
      <3>1. content'[<<i, "queue">>] = content[<<i, "queue">>]
        BY <1>1, <1>2, <1>3, <2>1, Zenon
      <3> QED
        BY <2>1, <3>1, Zenon
    <2>2. CASE k = "buf"
      <3>1. content'[<<i, "buf">>] = content[<<i, "buf">>]
        BY <1>1, <1>2, <1>3, <2>2, Zenon
      <3> QED
        BY <2>2, <3>1, Zenon
    <2>3. CASE k = "wire"
      <3>1. content'[<<i, "wire">>] = content[<<i, "wire">>]
        BY <1>1, <1>2, <1>3, <2>3, Zenon
      <3> QED
        BY <2>3, <3>1, Zenon
    <2> QED
      BY <2>1, <2>2, <2>3, Zenon
  <1> QED
    BY <1>3, Zenon DEF SameHandlers

\* A step that leaves the variables of every place alone keeps the account.
LEMMA StillNow ==
    ASSUME TypeOK, TypeOK', Accounted(content, reply), UNCHANGED reply, SameNode({}), NEW h, SameHandlers(h, {})
    PROVE  Accounted(content, reply)'
  <1> SameBut(h, {}, {})
    BY SamePlaces, Zenon
  <1>1. \A pl \in Places : content'[pl] = content[pl]
    BY Zenon DEF SameBut
  <1> QED
    BY <1>1, StutterStep, Zenon

\* A step empties the places dropped, and changes only the places ns of the node, which
\* are among them, and ks of h, which are emptied too.
Empties(h, ns, ks, dropped) ==
    /\ dropped \in SUBSET WaitPlaces
    /\ SameNode(ns) /\ SameHandlers(h, ks)
    /\ \A k \in ns : Node(k) \in dropped
    /\ \A k \in ks : <<h, k>> \in dropped \cup SentPlaces
    /\ \A pl \in dropped : content'[pl] = <<>>
    /\ \A k \in ks : <<h, k>> \in SentPlaces => content'[<<h, k>>] = <<>>

\* A step that empties the places it names drops them.
LEMMA DropsNow ==
    ASSUME TypeOK, TypeOK', NEW h, NEW ns, NEW ks, NEW dropped, Empties(h, ns, ks, dropped)
    PROVE  Drops(content, content', dropped)
  <1>1. content \in [Places -> Seq(Messages)] /\ content' \in [Places -> Seq(Messages)]
    BY ContentNow, ContentNext, Zenon DEF Holds
  <1>2. Places = WaitPlaces \cup SentPlaces /\ WaitPlaces \cap SentPlaces = {}
    BY PlacesSplit
  <1> SameBut(h, ns, ks)
    BY SamePlaces, Zenon DEF Empties
  <1>3. \A pl \in WaitPlaces \ dropped : content'[pl] = content[pl]
    BY <1>2, Zenon DEF SameBut, Empties
  <1>4. ASSUME NEW pl \in SentPlaces
        PROVE  Len(content'[pl]) <= Len(content[pl]) /\ \A i \in 1..Len(content'[pl]) : content'[pl][i] = content[pl][i]
    <2>1. content'[pl] = content[pl] \/ content'[pl] = <<>>
      BY <1>2, Zenon DEF SameBut, Empties
    <2>2. content[pl] \in Seq(Messages)
      BY <1>1, <1>2
    <2> QED
      BY <2>1, <2>2
  <1>5. dropped \in SUBSET WaitPlaces /\ \A pl \in dropped : content'[pl] = <<>>
    BY Zenon DEF Empties
  <1> QED
    BY <1>1, <1>3, <1>4, <1>5 DEF Drops

-----------------------------------------------------------------------------
(***************************************************************************)
(* Every action keeps the account.                                          *)
(***************************************************************************)
\* A step moves the head of p to the end of q, and changes only the places ns of the node and ks of h.
Moves(h, ns, ks, p, q) ==
    /\ p \in Places /\ q \in Places /\ p # q /\ content[p] # <<>>
    /\ content'[p] = Tail(content[p]) /\ content'[q] = Append(content[q], Head(content[p]))
    /\ SameNode(ns) /\ SameHandlers(h, ks)
    /\ \A k \in ns : Node(k) \in {p, q}
    /\ \A k \in ks : <<h, k>> \in {p, q}

\* Such a step is a shift of content.
LEMMA MovesShift ==
    ASSUME TypeOK, TypeOK', NEW h, NEW ns, NEW ks, NEW p, NEW q, Moves(h, ns, ks, p, q)
    PROVE  Shift(content, content', p, q)
  <1>1. SameBut(h, ns, ks)
    BY SamePlaces, Zenon DEF Moves
  <1>2. \A pl \in Places \ {p, q} : content'[pl] = content[pl]
    BY <1>1, Zenon DEF SameBut, Moves
  <1> QED
    BY <1>2, ContentNow, ContentNext, Zenon DEF Shift, Holds, Moves

\* A sequence without elements is empty.
LEMMA EmptySequence == ASSUME NEW s \in Seq(Messages), Len(s) = 0 PROVE s = <<>>
  OBVIOUS

\* send_message up to the send moves no message of a handler: a handler it spawns
\* has a free name, and nothing is left under it.
LEMMA SendSame ==
    ASSUME BoundsAssumption, TypeOK, TypeOK', HandlersInv, NEW m \in Messages, SendMessage(m), UNCHANGED wire
    PROVE  SameHandlers(NoHandler, {})
  <1>1. \/ UNCHANGED handler
        \/ active' \in Handlers /\ At(active', "free") /\ Becomes(active', "dial", <<>>, <<>>)
    BY SendBecomes
  <1>2. \A i \in Handlers : handler'[i].queue = handler[i].queue /\ handler'[i].buf = handler[i].buf /\ wire'[i] = wire[i]
    BY <1>1 DEF Becomes, HandlersInv, At
  <1> QED
    BY <1>2, SameTasks, Zenon

\* The actor takes a message from its retry queue.
LEMMA RetryAccounted ==
    ASSUME BoundsAssumption, TypeOK, TypeOK', HandlersInv, Accounted(content, reply), HandleRetry
    PROVE  Accounted(content, reply)'
  <1>1. retry # <<>> /\ Head(retry) \in Messages /\ passing = <<>> /\ passing' = <<Head(retry)>> /\ retry' = Tail(retry)
    BY DEF HandleRetry, SendMessage, TypeOK
  <1>2. SendMessage(Head(retry)) /\ UNCHANGED <<reply, outbound, wire, inbox, delivered>>
    BY DEF HandleRetry, peerVars
  <1>3. SameHandlers(NoHandler, {})
    BY <1>1, <1>2, SendSame, Zenon
  <1>4. SameNode({"retry", "passing"})
    BY <1>2, SameNow
  <1>5. /\ content[Node("retry")] = retry /\ content'[Node("retry")] = retry'
        /\ content[Node("passing")] = passing /\ content'[Node("passing")] = passing'
    BY ContentNow, ContentNext, Zenon DEF Holds
  <1>6. Append(passing, Head(retry)) = passing'
    BY <1>1
  <1>7. Node("retry") \in WaitPlaces <=> Node("passing") \in WaitPlaces
    BY PlacesSplit
  <1>8. Node("retry") # Node("passing") /\ Node("retry") \in Places /\ Node("passing") \in Places
    BY PlacesDiffer, PlacesSplit
  <1>9. (\A j \in {"retry", "passing"} : Node(j) \in {Node("retry"), Node("passing")}) /\ SameHandlers(NoHandler, {})
    BY <1>3, Zenon
  <1>10. Moves(NoHandler, {"retry", "passing"}, {}, Node("retry"), Node("passing"))
    BY <1>1, <1>4, <1>5, <1>6, <1>8, <1>9, Zenon DEF Moves
  <1> QED
    BY <1>2, <1>7, <1>10, MovesShift, MoveStep, Zenon

\* The actor takes a message from its request queue.
LEMMA OutboundAccounted ==
    ASSUME BoundsAssumption, TypeOK, TypeOK', HandlersInv, Accounted(content, reply), HandleOutbound
    PROVE  Accounted(content, reply)'
  <1>1. /\ outbound # <<>> /\ Head(outbound) \in Messages /\ passing = <<>>
        /\ passing' = <<Head(outbound)>> /\ outbound' = Tail(outbound)
    BY DEF HandleOutbound, SendMessage, TypeOK
  <1>2. SendMessage(Head(outbound)) /\ UNCHANGED <<reply, retry, wire, inbox, delivered>>
    BY DEF HandleOutbound, peerVars
  <1>3. SameHandlers(NoHandler, {})
    BY <1>1, <1>2, SendSame, Zenon
  <1>4. SameNode({"outbound", "passing"})
    BY <1>2, SameNow
  <1>5. /\ content[Node("outbound")] = outbound /\ content'[Node("outbound")] = outbound'
        /\ content[Node("passing")] = passing /\ content'[Node("passing")] = passing'
    BY ContentNow, ContentNext, Zenon DEF Holds
  <1>6. Append(passing, Head(outbound)) = passing'
    BY <1>1
  <1>7. Node("outbound") \in WaitPlaces <=> Node("passing") \in WaitPlaces
    BY PlacesSplit
  <1>8. Node("outbound") # Node("passing") /\ Node("outbound") \in Places /\ Node("passing") \in Places
    BY PlacesDiffer, PlacesSplit
  <1>9. (\A j \in {"outbound", "passing"} : Node(j) \in {Node("outbound"), Node("passing")}) /\ SameHandlers(NoHandler, {})
    BY <1>3, Zenon
  <1>10. Moves(NoHandler, {"outbound", "passing"}, {}, Node("outbound"), Node("passing"))
    BY <1>1, <1>4, <1>5, <1>6, <1>8, <1>9, Zenon DEF Moves
  <1> QED
    BY <1>2, <1>7, <1>10, MovesShift, MoveStep, Zenon

\* The pipeline of the peer takes a message.
LEMMA InboundRunAccounted ==
    ASSUME TypeOK, TypeOK', Accounted(content, reply), InboundRun
    PROVE  Accounted(content, reply)'
  <1>1. inbox # <<>> /\ inbox' = Tail(inbox) /\ delivered' = Append(delivered, Head(inbox))
    BY DEF InboundRun
  <1>2. UNCHANGED <<reply, outbound, retry, passing, handler, wire>>
    BY DEF InboundRun, actorVars
  <1>3. SameHandlers(NoHandler, {})
    BY <1>2, SameTasks, Zenon
  <1>4. SameNode({"inbox", "delivered"})
    BY <1>2, SameNow
  <1>5. /\ content[Node("inbox")] = inbox /\ content'[Node("inbox")] = inbox'
        /\ content[Node("delivered")] = delivered /\ content'[Node("delivered")] = delivered'
    BY ContentNow, ContentNext, Zenon DEF Holds
  <1>6. Node("inbox") \in WaitPlaces <=> Node("delivered") \in WaitPlaces
    BY PlacesSplit
  <1>7. Node("inbox") # Node("delivered") /\ Node("inbox") \in Places /\ Node("delivered") \in Places
    BY PlacesDiffer, PlacesSplit
  <1>8. (\A j \in {"inbox", "delivered"} : Node(j) \in {Node("inbox"), Node("delivered")}) /\ SameHandlers(NoHandler, {})
    BY <1>3, Zenon
  <1>9. Moves(NoHandler, {"inbox", "delivered"}, {}, Node("inbox"), Node("delivered"))
    BY <1>1, <1>4, <1>5, <1>7, <1>8, Zenon DEF Moves
  <1> QED
    BY <1>2, <1>6, <1>9, MovesShift, MoveStep, Zenon

\* A message is requested.
LEMMA NewAccounted ==
    ASSUME TypeOK, TypeOK', Accounted(content, reply), NEW m \in Messages, NewMessage(m)
    PROVE  Accounted(content, reply)'
  <1>1. reply[m] = "new" /\ reply' = [reply EXCEPT ![m] = "none"] /\ outbound' = Append(outbound, m)
    BY DEF NewMessage
  <1>2. UNCHANGED <<retry, passing, handler, wire, inbox, delivered>>
    BY DEF NewMessage, peerVars
  <1>3. SameHandlers(NoHandler, {}) /\ SameNode({"outbound"})
    BY <1>2, SameTasks, SameNow
  <1>4. SameBut(NoHandler, {"outbound"}, {})
    BY <1>3, SamePlaces, Zenon
  <1>5. /\ content \in [Places -> Seq(Messages)] /\ content' \in [Places -> Seq(Messages)]
        /\ content[Node("outbound")] = outbound /\ content'[Node("outbound")] = outbound'
    BY ContentNow, ContentNext, Zenon DEF Holds
  <1>6. Node("outbound") \in WaitPlaces /\ Node("outbound") \in Places
    BY PlacesSplit
  <1>7. content' = [content EXCEPT ![Node("outbound")] = Append(content[Node("outbound")], m)]
    <2>1. \A pl \in Places \ {Node("outbound")} : content'[pl] = content[pl]
      BY <1>4, Zenon DEF SameBut
    <2> QED
      BY <1>1, <1>5, <1>6, <2>1
  <1>8. reply \in [Messages -> Answers]
    BY DEF TypeOK, Answers
  <1> QED
    BY <1>1, <1>5, <1>6, <1>7, <1>8, EnterAccounted, Zenon

\* The send: into the queue of the handler, or dropped if it was closed meanwhile.
LEMMA PassOnAccounted ==
    ASSUME BoundsAssumption, TypeOK, TypeOK', HandlersInv, Accounted(content, reply), PassOn
    PROVE  Accounted(content, reply)'
  <1>1. /\ passing # <<>> /\ passing' = <<>> /\ Len(passing) = 1 /\ passing \in Seq(Messages) /\ active \in Handlers
        /\ UNCHANGED <<outbound, retry, wire, inbox, delivered>>
    BY DEF PassOn, HandlersInv, TypeOK, peerVars
  <1>2. Tail(passing) = <<>> /\ Range(passing) = {Head(passing)}
    <2>1. Tail(passing) \in Seq(Messages) /\ Len(Tail(passing)) = 0
      BY <1>1
    <2>2. DOMAIN passing = {1} /\ passing[1] = Head(passing)
      BY <1>1
    <2>3. Range(passing) = {Head(passing)}
      BY <2>2 DEF Range
    <2> QED
      BY <2>1, <2>3, EmptySequence, Zenon
  <1>3. SameNode({"passing"})
    BY <1>1, SameNow
  <1>4. content[Node("passing")] = passing /\ content'[Node("passing")] = passing'
    BY ContentNow, ContentNext, Zenon DEF Holds
  <1>5. CASE IsClosed(active)
    <2>1. reply' = Tell({Head(passing)}, "Dropped") /\ UNCHANGED handler
      BY <1>5 DEF PassOn
    <2>2. SameHandlers(NoHandler, {})
      BY <1>1, <2>1, SameTasks, Zenon
    <2> DEFINE dropped == {Node("passing")}
    <2>3. dropped \in SUBSET WaitPlaces
      BY PlacesSplit
    <2>4. (\A k \in {"passing"} : Node(k) \in dropped) /\ (\A pl \in dropped : content'[pl] = <<>>)
      BY <1>1, <1>4, Zenon
    <2>5. Empties(NoHandler, {"passing"}, {}, dropped)
      BY <1>3, <2>2, <2>3, <2>4, Zenon DEF Empties
    <2>6. Drops(content, content', dropped)
      BY <2>5, DropsNow, Zenon
    <2>7. UNION {Range(content[pl]) : pl \in dropped} = {Head(passing)}
      BY <1>2, <1>4
    <2> QED
      BY <2>1, <2>6, <2>7, DropStep
  <1>6. CASE ~ IsClosed(active)
    <2> DEFINE me == handler[active]
    <2>1. /\ Becomes(active, me.pc, Append(me.queue, Head(passing)), me.buf) /\ UNCHANGED reply
      BY <1>6, PassOnBecomes
    <2>2. SameHandlers(active, {"queue"})
      BY <1>1, <2>1, SameTasks DEF Becomes
    <2>3. /\ content[<<active, "queue">>] = me.queue
          /\ content'[<<active, "queue">>] = Append(me.queue, Head(passing))
      BY <1>1, <2>1, ContentNow, ContentNext, Zenon DEF Holds, Becomes
    <2>4. /\ Node("passing") \in Places /\ <<active, "queue">> \in Places
          /\ Node("passing") \in WaitPlaces /\ <<active, "queue">> \in WaitPlaces
      BY <1>1, PlacesSplit, Zenon
    <2>5. Node("passing") # <<active, "queue">>
      BY PlacesDiffer
    <2> DEFINE p == Node("passing")
               q == <<active, "queue">>
    <2>6. (\A k \in {"passing"} : Node(k) \in {p, q}) /\ (\A k \in {"queue"} : <<active, k>> \in {p, q})
      OBVIOUS
    <2>7. content[p] # <<>> /\ content'[p] = Tail(content[p]) /\ content'[q] = Append(content[q], Head(content[p]))
      BY <1>1, <1>2, <1>4, <2>3, Zenon
    <2>8. Moves(active, {"passing"}, {"queue"}, p, q)
      BY <1>3, <2>2, <2>4, <2>5, <2>6, <2>7, Zenon DEF Moves
    <2> QED
      BY <2>1, <2>4, <2>8, MovesShift, MoveStep, Zenon
  <1> QED
    BY <1>5, <1>6

\* The actor ends with the messages in its channels.
LEMMA ShutDownAccounted ==
    ASSUME TypeOK, TypeOK', Accounted(content, reply), ShutDown
    PROVE  Accounted(content, reply)'
  <1>1. /\ UNCHANGED <<passing, handler, wire, inbox, delivered>> /\ outbound' = <<>> /\ retry' = <<>>
        /\ reply' = Tell(Range(outbound) \cup Range(retry), "Dropped")
    BY DEF ShutDown, peerVars
  <1>2. SameNode({"outbound", "retry"}) /\ SameHandlers(NoHandler, {})
    BY <1>1, SameNow, SameTasks
  <1>3. /\ content[Node("outbound")] = outbound /\ content'[Node("outbound")] = outbound'
        /\ content[Node("retry")] = retry /\ content'[Node("retry")] = retry'
    BY ContentNow, ContentNext, Zenon DEF Holds
  <1> DEFINE dropped == {Node("outbound"), Node("retry")}
  <1>4. dropped \in SUBSET WaitPlaces
    BY PlacesSplit
  <1>5. (\A k \in {"outbound", "retry"} : Node(k) \in dropped) /\ (\A pl \in dropped : content'[pl] = <<>>)
    BY <1>1, <1>3, Zenon
  <1>6. Empties(NoHandler, {"outbound", "retry"}, {}, dropped)
    BY <1>2, <1>4, <1>5, Zenon DEF Empties
  <1>7. Drops(content, content', dropped)
    BY <1>6, DropsNow, Zenon
  <1>8. UNION {Range(content[pl]) : pl \in dropped} = Range(outbound) \cup Range(retry)
    BY <1>3
  <1> QED
    BY <1>1, <1>7, <1>8, DropStep

\* The handler of h goes on, and its queue and buffer stay as they are.
LEMMA BecomesStill ==
    ASSUME TypeOK, TypeOK', Accounted(content, reply), NEW h \in Handlers, NEW c,
           Becomes(h, c, handler[h].queue, handler[h].buf),
           UNCHANGED <<reply, outbound, retry, passing, inbox, delivered, wire>>
    PROVE  Accounted(content, reply)'
  <1>1. SameNode({})
    BY SameNow
  <1>2. SameHandlers(h, {})
    BY SameTasks DEF Becomes
  <1> QED
    BY <1>1, <1>2, StillNow, Zenon

\* The handler of h empties its queue and tells the senders of what was in it.
LEMMA BecomesDropped ==
    ASSUME TypeOK, TypeOK', Accounted(content, reply), NEW h \in Handlers, NEW c, NEW b, Becomes(h, c, <<>>, b),
           b = <<>> \/ b = handler[h].buf,
           NEW a \in {"PeerDialFailed", "Dropped"}, reply' = Tell(Range(handler[h].queue), a),
           UNCHANGED <<outbound, retry, passing, inbox, delivered, wire>>
    PROVE  Accounted(content, reply)'
  <1>1. SameNode({})
    BY SameNow
  <1>2. SameHandlers(h, {"queue", "buf"}) /\ (b = handler[h].buf => SameHandlers(h, {"queue"}))
    BY SameTasks DEF Becomes
  <1>3. /\ content[<<h, "queue">>] = handler[h].queue /\ content'[<<h, "queue">>] = <<>>
        /\ content'[<<h, "buf">>] = b
    BY ContentNow, ContentNext, Zenon DEF Holds, Becomes
  <1>4. <<h, "queue">> \in WaitPlaces /\ <<h, "buf">> \in SentPlaces
    BY PlacesSplit, Zenon
  <1> DEFINE dropped == {<<h, "queue">>}
  <1>5. dropped \in SUBSET WaitPlaces
    BY <1>4, Zenon
  <1>6. UNION {Range(content[pl]) : pl \in dropped} = Range(handler[h].queue)
    BY <1>3
  <1>7. CASE b = <<>>
    <2>1. /\ \A k \in {"queue", "buf"} : <<h, k>> \in dropped \cup SentPlaces
          /\ \A pl \in dropped : content'[pl] = <<>>
          /\ \A k \in {"queue", "buf"} : <<h, k>> \in SentPlaces => content'[<<h, k>>] = <<>>
      BY <1>3, <1>4, <1>7, Zenon
    <2>2. Empties(h, {}, {"queue", "buf"}, dropped)
      BY <1>1, <1>2, <1>5, <1>7, <2>1, Zenon DEF Empties
    <2>3. Drops(content, content', dropped)
      BY <2>2, DropsNow, Zenon
    <2> QED
      BY <1>6, <2>3, DropStep, Zenon
  <1>8. CASE b = handler[h].buf
    <2>1. /\ \A k \in {"queue"} : <<h, k>> \in dropped \cup SentPlaces
          /\ \A pl \in dropped : content'[pl] = <<>>
          /\ \A k \in {"queue"} : <<h, k>> \in SentPlaces => content'[<<h, k>>] = <<>>
      BY <1>3, <1>4, <1>8, Zenon
    <2>2. Empties(h, {}, {"queue"}, dropped)
      BY <1>1, <1>2, <1>5, <1>8, <2>1, Zenon DEF Empties
    <2>3. Drops(content, content', dropped)
      BY <2>2, DropsNow, Zenon
    <2> QED
      BY <1>6, <2>3, DropStep, Zenon
  <1> QED
    BY <1>7, <1>8

\* Forward takes a message and its sender is told.
LEMMA PullStepAccounted ==
    ASSUME TypeOK, TypeOK', Accounted(content, reply), NEW h \in Handlers, Pull(h)
    PROVE  Accounted(content, reply)'
  <1> DEFINE me == handler[h]
             p == <<h, "queue">>
             q == <<h, "buf">>
  <1>1. /\ UNCHANGED <<outbound, retry, passing, inbox, delivered, wire>> /\ me.queue # <<>>
        /\ reply' = Tell({Head(me.queue)}, "ok")
    BY DEF Pull, actorVars, peerVars
  <1>2. Becomes(h, me.pc, Tail(me.queue), Append(me.buf, Head(me.queue)))
    BY PullBecomes
  <1>3. SameNode({}) /\ SameHandlers(h, {"queue", "buf"})
    BY <1>1, <1>2, SameNow, SameTasks DEF Becomes
  <1>4. /\ content[p] = me.queue /\ content'[p] = Tail(me.queue)
        /\ content[q] = me.buf /\ content'[q] = Append(me.buf, Head(me.queue))
    BY <1>2, ContentNow, ContentNext, Zenon DEF Holds, Becomes
  <1>5. p \in WaitPlaces /\ q \in SentPlaces /\ p \in Places /\ q \in Places /\ p # q
    BY PlacesSplit, Zenon
  <1>6. \A k \in {"queue", "buf"} : <<h, k>> \in {p, q}
    OBVIOUS
  <1>7. Moves(h, {}, {"queue", "buf"}, p, q)
    BY <1>1, <1>3, <1>4, <1>5, <1>6, Zenon DEF Moves
  <1>8. content' = Move(content, p, q)
    BY <1>7, MovesShift, IsMove, Zenon
  <1>9. content \in [Places -> Seq(Messages)] /\ reply \in [Messages -> Answers] /\ reply' \in [Messages -> Answers]
    BY ContentNow, Zenon DEF Holds, TypeOK, Answers
  <1>10. reply' = [reply EXCEPT ![Head(content[p])] = "ok"]
    BY <1>1, <1>4, <1>9, Zenon DEF Tell
  <1> HIDE DEF p, q
  <1> QED
    BY <1>1, <1>4, <1>5, <1>8, <1>9, <1>10, PullAccounted, Zenon

\* Forward writes a message.
LEMMA FlushAccounted ==
    ASSUME TypeOK, TypeOK', Accounted(content, reply), NEW h \in Handlers, Flush(h)
    PROVE  Accounted(content, reply)'
  <1> DEFINE me == handler[h]
             p == <<h, "buf">>
             q == <<h, "wire">>
  <1>1. /\ UNCHANGED <<reply, outbound, retry, passing, inbox, delivered>> /\ me.buf # <<>>
        /\ wire' = [wire EXCEPT ![h] = Append(wire[h], Head(me.buf))]
    BY DEF Flush, actorVars, peerVars
  <1>2. wire'[h] = Append(wire[h], Head(me.buf)) /\ \A i \in Handlers \ {h} : wire'[i] = wire[i]
    BY <1>1, Zenon DEF TypeOK
  <1>3. Becomes(h, me.pc, me.queue, Tail(me.buf))
    BY FlushBecomes
  <1>4. SameNode({}) /\ SameHandlers(h, {"buf", "wire"})
    <2>1. SameNode({})
      BY <1>1, SameNow, Zenon
    <2>2. SameHandlers(h, {"buf", "wire"})
      BY <1>2, <1>3, SameTasks DEF Becomes
    <2> QED
      BY <2>1, <2>2
  <1>5. /\ content[p] = me.buf /\ content'[p] = Tail(me.buf)
        /\ content[q] = wire[h] /\ content'[q] = Append(wire[h], Head(me.buf))
    BY <1>2, <1>3, ContentNow, ContentNext, Zenon DEF Holds, Becomes
  <1>6. p \in SentPlaces /\ q \in SentPlaces /\ p \in Places /\ q \in Places /\ p # q
        /\ (p \in WaitPlaces <=> q \in WaitPlaces)
    BY PlacesSplit, Zenon
  <1>7. \A k \in {"buf", "wire"} : <<h, k>> \in {p, q}
    OBVIOUS
  <1>8. Moves(h, {}, {"buf", "wire"}, p, q)
    BY <1>1, <1>4, <1>5, <1>6, <1>7, Zenon DEF Moves
  <1> QED
    BY <1>1, <1>6, <1>8, MovesShift, MoveStep, Zenon

\* What is left goes to the retry queue, or is dropped.
LEMMA RequeueAccounted ==
    ASSUME TypeOK, TypeOK', HandlersInv, Accounted(content, reply), NEW h \in Handlers, Requeue(h)
    PROVE  Accounted(content, reply)'
  <1> DEFINE me == handler[h]
             p == <<h, "queue">>
             q == Node("retry")
  <1>1. /\ UNCHANGED <<outbound, passing, inbox, delivered, wire>> /\ me.queue # <<>>
        /\ running => retry' = Append(retry, Head(me.queue)) /\ UNCHANGED reply
        /\ ~ running => reply' = Tell(Range(me.queue), "Dropped") /\ UNCHANGED retry
    BY DEF Requeue, peerVars
  <1>2. me.shut
    BY DEF Requeue, At, HandlersInv
  <1>3. CASE running
    <2>1. Becomes(h, me.pc, Tail(me.queue), me.buf)
      BY <1>2, <1>3, RequeueBecomes
    <2>2. SameNode({"retry"}) /\ SameHandlers(h, {"queue"})
      BY <1>1, <2>1, SameNow, SameTasks, Zenon DEF Becomes
    <2>3. /\ content[p] = me.queue /\ content'[p] = Tail(me.queue)
          /\ content[q] = retry /\ content'[q] = Append(retry, Head(me.queue))
      BY <1>1, <1>3, <2>1, ContentNow, ContentNext, Zenon DEF Holds, Becomes
    <2>4. p \in WaitPlaces /\ q \in WaitPlaces /\ p \in Places /\ q \in Places
      BY PlacesSplit, Zenon
    <2>5. p # q
      BY PlacesDiffer
    <2>6. (\A k \in {"retry"} : Node(k) \in {p, q}) /\ (\A k \in {"queue"} : <<h, k>> \in {p, q})
      OBVIOUS
    <2>7. Moves(h, {"retry"}, {"queue"}, p, q)
      BY <1>1, <2>2, <2>3, <2>4, <2>5, <2>6, Zenon DEF Moves
    <2> QED
      BY <1>1, <1>3, <2>4, <2>7, MovesShift, MoveStep, Zenon
  <1>4. CASE ~ running
    <2>1. Becomes(h, "exit", <<>>, me.buf)
      BY <1>2, <1>4, RequeueBecomes, Zenon
    <2> QED
      BY <1>1, <1>4, <2>1, BecomesDropped, Zenon
  <1> QED
    BY <1>3, <1>4

\* The peer reads a message.
LEMMA ReceiveAccounted ==
    ASSUME TypeOK, TypeOK', Accounted(content, reply), NEW h \in Handlers, InboundReceive(h)
    PROVE  Accounted(content, reply)'
  <1> DEFINE p == <<h, "wire">>
             q == Node("inbox")
  <1>1. /\ UNCHANGED <<reply, outbound, retry, passing, delivered, handler>> /\ wire[h] # <<>>
        /\ inbox' = Append(inbox, Head(wire[h])) /\ wire' = [wire EXCEPT ![h] = Tail(wire[h])]
    BY DEF InboundReceive, actorVars
  <1>2. wire'[h] = Tail(wire[h]) /\ \A i \in Handlers \ {h} : wire'[i] = wire[i]
    BY <1>1 DEF TypeOK
  <1>3. SameNode({"inbox"}) /\ SameHandlers(h, {"wire"})
    BY <1>1, <1>2, SameNow, SameTasks
  <1>4. /\ content[p] = wire[h] /\ content'[p] = Tail(wire[h])
        /\ content[q] = inbox /\ content'[q] = Append(inbox, Head(wire[h]))
    BY <1>1, <1>2, ContentNow, ContentNext, Zenon DEF Holds
  <1>5. p \in SentPlaces /\ q \in SentPlaces /\ p \in Places /\ q \in Places /\ (p \in WaitPlaces <=> q \in WaitPlaces)
    BY PlacesSplit, Zenon
  <1>6. p # q
    BY PlacesDiffer
  <1>7. (\A k \in {"inbox"} : Node(k) \in {p, q}) /\ (\A k \in {"wire"} : <<h, k>> \in {p, q})
    OBVIOUS
  <1>8. Moves(h, {"inbox"}, {"wire"}, p, q)
    BY <1>1, <1>3, <1>4, <1>5, <1>6, <1>7, Zenon DEF Moves
  <1> QED
    BY <1>1, <1>5, <1>8, MovesShift, MoveStep, Zenon

\* What was in flight is lost with the substream.
LEMMA RemoteClosesAccounted ==
    ASSUME TypeOK, TypeOK', Accounted(content, reply), NEW h \in Handlers, RemoteCloses(h)
    PROVE  Accounted(content, reply)'
  <1>1. UNCHANGED <<reply, outbound, retry, passing, inbox, delivered>> /\ wire' = [wire EXCEPT ![h] = <<>>]
    BY DEF RemoteCloses, actorVars, peerVars
  <1>2. wire'[h] = <<>> /\ \A i \in Handlers \ {h} : wire'[i] = wire[i]
    BY <1>1 DEF TypeOK
  <1>3. Becomes(h, handler[h].pc, handler[h].queue, handler[h].buf)
    BY RemoteClosesBecomes
  <1>4. SameNode({}) /\ SameHandlers(h, {"wire"})
    BY <1>1, <1>2, <1>3, SameNow, SameTasks, Zenon DEF Becomes
  <1>5. content'[<<h, "wire">>] = <<>>
    BY <1>2, ContentNext, Zenon DEF Holds
  <1>6. <<h, "wire">> \in SentPlaces
    BY PlacesSplit, Zenon
  <1>7. /\ \A k \in {"wire"} : <<h, k>> \in {} \cup SentPlaces
        /\ \A k \in {"wire"} : <<h, k>> \in SentPlaces => content'[<<h, k>>] = <<>>
    BY <1>5, <1>6, Zenon
  <1>8. Empties(h, {}, {"wire"}, {})
    BY <1>4, <1>7, Zenon DEF Empties
  <1>9. Drops(content, content', {})
    BY <1>8, DropsNow, Zenon
  <1>10. reply' = Tell(UNION {Range(content[pl]) : pl \in {}}, "Dropped")
    BY <1>1 DEF Tell, TypeOK
  <1> QED
    BY <1>9, <1>10, DropStep

\* What was in flight is lost with the connection, a prefix of it excepted.
LEMMA DisconnectAccounted ==
    ASSUME BoundsAssumption, TypeOK, TypeOK', Accounted(content, reply), Disconnect
    PROVE  Accounted(content, reply)'
  <1>1. UNCHANGED <<reply, outbound, retry, passing, inbox, delivered>>
    BY DEF Disconnect, actorVars, peerVars
  <1>2. \A h \in Handlers : /\ handler'[h].queue = handler[h].queue /\ handler'[h].buf = handler[h].buf
                            /\ Len(wire'[h]) <= Len(wire[h])
                            /\ \A i \in 1..Len(wire'[h]) : wire'[h][i] = wire[h][i]
    BY DisconnectKeeps
  <1>3. content \in [Places -> Seq(Messages)] /\ content' \in [Places -> Seq(Messages)]
    BY ContentNow, ContentNext, Zenon DEF Holds
  <1>4. SameNode({})
    BY <1>1, SameNow
  <1>5. \A h \in Handlers : /\ content'[<<h, "queue">>] = content[<<h, "queue">>]
                            /\ content'[<<h, "buf">>] = content[<<h, "buf">>]
                            /\ content'[<<h, "wire">>] = wire'[h] /\ content[<<h, "wire">>] = wire[h]
    BY <1>2, ContentNow, ContentNext, Zenon DEF Holds
  <1>6. ASSUME NEW pl \in Places
        PROVE  content'[pl] = content[pl] \/ \E h \in Handlers : pl = <<h, "wire">>
    <2>1. CASE \E k \in {"outbound", "retry", "passing", "inbox", "delivered"} : pl = Node(k)
      BY <1>4, <2>1, Zenon DEF SameNode
    <2>2. CASE \E h \in Handlers : \E k \in {"queue", "buf", "wire"} : pl = <<h, k>>
      BY <1>5, <2>2, Zenon
    <2> QED
      BY <2>1, <2>2, EveryPlace, Zenon
  <1>7. Places = WaitPlaces \cup SentPlaces /\ WaitPlaces \cap SentPlaces = {} /\ \A h \in Handlers : <<h, "wire">> \in SentPlaces
    BY PlacesSplit, Zenon
  <1>8. \A pl \in WaitPlaces : content'[pl] = content[pl]
    BY <1>6, <1>7, Zenon
  <1>9. ASSUME NEW pl \in SentPlaces
        PROVE  Len(content'[pl]) <= Len(content[pl]) /\ \A i \in 1..Len(content'[pl]) : content'[pl][i] = content[pl][i]
    <2>1. CASE content'[pl] = content[pl]
      <3>1. Len(content[pl]) \in Nat
        BY <1>3, <1>7
      <3> QED
        BY <2>1, <3>1
    <2>2. CASE \E h \in Handlers : pl = <<h, "wire">>
      <3>1. PICK h \in Handlers : pl = <<h, "wire">>
        BY <2>2
      <3>2. content'[pl] = wire'[h] /\ content[pl] = wire[h]
        BY <1>5, <3>1, Zenon
      <3> QED
        BY <1>2, <3>2
    <2> QED
      BY <1>6, <1>7, <2>1, <2>2
  <1>10. Drops(content, content', {})
    BY <1>3, <1>8, <1>9 DEF Drops
  <1>11. reply' = Tell(UNION {Range(content[pl]) : pl \in {}}, "Dropped")
    BY <1>1 DEF Tell, TypeOK
  <1> QED
    BY <1>10, <1>11, DropStep

\* try_establish failed, with its attempts left or over.
LEMMA EstablishFailsAccounted ==
    ASSUME BoundsAssumption, TypeOK, TypeOK', Accounted(content, reply), NEW h \in Handlers, EstablishFails(h),
           UNCHANGED <<outbound, retry, passing, inbox, delivered, wire>>
    PROVE  Accounted(content, reply)'
  BY EstablishFailsBecomes, BecomesStill, BecomesDropped, Zenon

\* Every step accounts for every message: it moves the message from one place to the next, or answers its sender.
LEMMA AccountedStep ==
    ASSUME BoundsAssumption, TypeOK, TypeOK', HandlersInv, Accounted(content, reply), [Next]_vars
    PROVE  Accounted(content, reply)'
  <1> DEFINE Goal == Accounted(content, reply)'
             Still == UNCHANGED <<reply, outbound, retry, passing, inbox, delivered, wire>>
  <1>1. ASSUME NEW m \in Messages, NewMessage(m) PROVE Goal
    BY <1>1, NewAccounted
  <1>2. ASSUME Still, UNCHANGED handler PROVE Goal
    <2>1. SameNode({}) /\ SameHandlers(NoHandler, {})
      BY <1>2, SameNow, SameTasks
    <2> QED
      BY <1>2, <2>1, StillNow
  <1>3. ASSUME NEW m \in Messages, TaskEnds(m) PROVE Goal
    BY <1>2, <1>3 DEF TaskEnds, actorVars
  <1>4. ASSUME HandleExited PROVE Goal
    BY <1>2, <1>4 DEF HandleExited, peerVars
  <1>5. CASE UNCHANGED vars
    BY <1>2, <1>5 DEF vars, actorVars, peerVars
  <1>6. CASE HandleRetry
    BY <1>6, RetryAccounted
  <1>7. CASE HandleOutbound
    BY <1>7, OutboundAccounted
  <1>8. CASE PassOn
    BY <1>8, PassOnAccounted
  <1>9. CASE ShutDown
    BY <1>9, ShutDownAccounted
  <1>10. CASE InboundRun
    BY <1>10, InboundRunAccounted
  <1>11. CASE Disconnect
    BY <1>11, DisconnectAccounted
  <1>12. ASSUME NEW h \in Handlers, Dial(h) PROVE Goal
    <2>1. Still
      BY <1>12 DEF Dial, actorVars, peerVars
    <2> QED
      BY <1>12, <2>1, DialBecomes, BecomesStill
  <1>13. ASSUME NEW h \in Handlers, StreamEnds(h) PROVE Goal
    <2>1. Still
      BY <1>13 DEF StreamEnds, actorVars, peerVars
    <2> QED
      BY <1>13, <2>1, StreamEndsBecomes, BecomesStill
  <1>14. ASSUME NEW h \in Handlers, StreamCloses(h) PROVE Goal
    <2>1. Still
      BY <1>14 DEF StreamCloses, actorVars, peerVars
    <2> QED
      BY <1>14, <2>1, StreamClosesBecomes, BecomesStill
  <1>15. ASSUME NEW h \in Handlers, Drained(h) PROVE Goal
    <2>1. Still
      BY <1>15 DEF Drained, actorVars, peerVars
    <2> QED
      BY <1>15, <2>1, DrainedBecomes, BecomesStill
  <1>16. ASSUME NEW h \in Handlers, Exit(h) PROVE Goal
    <2>1. Still /\ handler[h].queue = <<>> /\ handler[h].buf = <<>>
      BY <1>16, Zenon DEF Exit, At, HandlersInv, peerVars
    <2> QED
      BY <1>16, <2>1, ExitBecomes, BecomesStill
  <1>17. ASSUME NEW h \in Handlers, SinkFails(h) PROVE Goal
    <2>1. UNCHANGED <<outbound, retry, passing, inbox, delivered, wire>> /\ reply' = Tell(Range(handler[h].queue), "Dropped")
      BY <1>17 DEF SinkFails, actorVars, peerVars
    <2> QED
      BY <1>17, <2>1, SinkFailsBecomes, BecomesDropped, Zenon
  <1>18. ASSUME NEW h \in Handlers, DialFails(h) PROVE Goal
    <2>1. UNCHANGED <<outbound, retry, passing, inbox, delivered, wire>> /\ EstablishFails(h)
      BY <1>18 DEF DialFails, actorVars, peerVars
    <2> QED
      BY <2>1, EstablishFailsAccounted
  <1>19. ASSUME NEW h \in Handlers, OpenSubstream(h) PROVE Goal
    <2>1. UNCHANGED <<outbound, retry, passing, inbox, delivered, wire>>
      BY <1>19 DEF OpenSubstream, actorVars, peerVars
    <2> QED
      BY <1>19, <2>1, OpenSubstreamBecomes, EstablishFailsAccounted, BecomesStill
  <1>20. ASSUME NEW h \in Handlers, Pull(h) PROVE Goal
    BY <1>20, PullStepAccounted
  <1>21. ASSUME NEW h \in Handlers, Flush(h) PROVE Goal
    BY <1>21, FlushAccounted
  <1>22. ASSUME NEW h \in Handlers, Requeue(h) PROVE Goal
    BY <1>22, RequeueAccounted
  <1>23. ASSUME NEW h \in Handlers, InboundReceive(h) PROVE Goal
    BY <1>23, ReceiveAccounted
  <1>24. ASSUME NEW h \in Handlers, RemoteCloses(h) PROVE Goal
    BY <1>24, RemoteClosesAccounted
  <1> HIDE DEF Goal, Still
  <1> QED
    BY <1>1, <1>3, <1>4, <1>5, <1>6, <1>7, <1>8, <1>9, <1>10, <1>11, <1>12, <1>13, <1>14, <1>15, <1>16, <1>17,
       <1>18, <1>19, <1>20, <1>21, <1>22, <1>23, <1>24, ZenonT(30) DEF Next, HandlerStep, Goal

-----------------------------------------------------------------------------
(***************************************************************************)
(* The invariant and the theorems.                                          *)
(***************************************************************************)
\* At first no message is anywhere.
LEMMA AccountedInit == Init => Accounted(content, reply)
  <1> SUFFICES ASSUME Init PROVE Accounted(content, reply)
    OBVIOUS
  <1>1. \A pl \in Places : content[pl] = <<>>
    <2>1. \A pl \in Places : pl[2] \in {"queue", "buf", "wire"} => pl[1] \in Handlers
      BY DEF Places
    <2>2. \A pl \in Places : pl[2] \in {"outbound", "retry", "passing", "inbox", "delivered", "queue", "buf", "wire"}
      BY DEF Places
    <2> QED
      BY <2>1, <2>2, Zenon DEF content, Contents, Init, NoTask
  <1>2. DOMAIN content = Places
    BY DEF content, Contents
  <1>3. Distinct(content)
    BY <1>1, <1>2 DEF Distinct
  <1>4. \A pl \in Places : Range(content[pl]) = {}
    BY <1>1 DEF Range
  <1>5. WaitPlaces \subseteq Places /\ SentPlaces \subseteq Places
    BY DEF WaitPlaces, SentPlaces
  <1>6. \A m \in Messages : reply[m] = "new"
    BY DEF Init
  <1> QED
    BY <1>3, <1>4, <1>5, <1>6 DEF Accounted

Inv == TypeOK /\ HandlersInv /\ Accounted(content, reply)

\* The initial states satisfy the invariant.
LEMMA InvInit == ASSUME BoundsAssumption PROVE Init => Inv
  <1> SUFFICES ASSUME Init PROVE TypeOK /\ HandlersInv
    BY AccountedInit DEF Inv
  <1>1. TypeOK
    BY NoTaskTyped DEF Init, TypeOK, BoundsAssumption, NoHandler
  <1>2. HandlersInv
    BY DEF Init, HandlersInv, NoTask
  <1> QED
    BY <1>1, <1>2

\* The inductive invariant holds in every reachable state, for any numbers of
\* messages, handlers, retries and faults.
THEOREM Invariant == BoundsAssumption /\ Spec => []Inv
  <1> SUFFICES ASSUME BoundsAssumption PROVE Spec => []Inv
    OBVIOUS
  <1>1. Init => Inv
    BY InvInit
  <1>2. Inv /\ [Next]_vars => Inv'
    BY TypeStep, HandlersStep, AccountedStep DEF Inv
  <1> QED
    BY <1>1, <1>2, PTL DEF Spec

\* The account of places is the answer of the property.
LEMMA AnswersTold == Inv => AnswerTells
  <1> SUFFICES ASSUME Inv, NEW m \in Messages
               PROVE  /\ reply[m] = "none" <=> Waiting(m)
                      /\ reply[m] \in {"PeerDialFailed", "Dropped"} => ~ Sent(m)
    BY DEF AnswerTells
  <1>1. Holds(content, outbound, retry, passing, inbox, delivered, handler, wire)
    BY ContentNow DEF Inv
  <1>2. /\ reply[m] = "none" <=> \E pl \in WaitPlaces : m \in Range(content[pl])
        /\ reply[m] # "ok" => \A pl \in SentPlaces : m \notin Range(content[pl])
    BY DEF Inv, Accounted
  <1>3. Waiting(m) => \E pl \in WaitPlaces : m \in Range(content[pl])
    <2>1. \/ m \in Range(outbound) \/ m \in Range(retry) \/ m \in Range(passing)
          \/ \E h \in Handlers : m \in Range(handler[h].queue)
          \/ ~ Waiting(m)
      BY DEF Waiting, Queues
    <2> QED
      BY <1>1, <2>1, PlacesSplit, Zenon DEF Holds
  <1>4. (\E pl \in WaitPlaces : m \in Range(content[pl])) => Waiting(m)
    <2> SUFFICES ASSUME NEW pl \in WaitPlaces, m \in Range(content[pl]) PROVE Waiting(m)
      OBVIOUS
    <2>1. pl \in Places /\ pl \notin SentPlaces
      BY PlacesSplit
    <2>2. \/ pl \in {Node("outbound"), Node("retry"), Node("passing")}
          \/ \E h \in Handlers : pl = <<h, "queue">>
      <3>1. CASE \E k \in {"outbound", "retry", "passing", "inbox", "delivered"} : pl = Node(k)
        BY <2>1, <3>1, PlacesSplit
      <3>2. CASE \E h \in Handlers : \E k \in {"queue", "buf", "wire"} : pl = <<h, k>>
        BY <2>1, <3>2, PlacesSplit, Zenon
      <3> QED
        BY <2>1, <3>1, <3>2, EveryPlace, Zenon
    <2>3. content[pl] \in Queues
      BY <1>1, <2>2, ZenonT(30) DEF Holds, Queues
    <2> QED
      BY <2>3 DEF Waiting
  <1>5. Sent(m) => \E pl \in SentPlaces : m \in Range(content[pl])
    <2>1. \/ m \in Range(inbox) \/ m \in Range(delivered)
          \/ \E h \in Handlers : m \in Range(wire[h]) \/ m \in Range(handler[h].buf)
          \/ ~ Sent(m)
      BY DEF Sent
    <2> QED
      BY <1>1, <2>1, PlacesSplit, Zenon DEF Holds
  <1> QED
    BY <1>2, <1>3, <1>4, <1>5

\* Whatever disconnects, closes or shuts down and however the handlers overlap, a
\* sender waits for its answer exactly while its message is in a queue, and is
\* told of a failure only if the message is not on its way (send_message,
\* start_forwarding_messages, run_inner).
THEOREM AnswersTell == BoundsAssumption /\ Spec => []AnswerTells
  BY Invariant, AnswersTold, PTL

\* The retry queue of the actor never sends again what a handler has sent: no
\* message is delivered twice.
THEOREM NoneDeliveredTwice == BoundsAssumption /\ Spec => []DeliveredOnce
  <1>1. Inv => DeliveredOnce
    <2> SUFFICES ASSUME Inv PROVE DeliveredOnce
      OBVIOUS
    <2>1. /\ content \in [Places -> Seq(Messages)] /\ content[Node("delivered")] = delivered
      BY ContentNow DEF Inv, Holds
    <2>2. Node("delivered") \in Places
      BY PlacesSplit
    <2>3. delivered \in Seq(Messages) /\ DOMAIN delivered = 1..Len(delivered)
      BY DEF Inv, TypeOK
    <2>4. \A i, j \in 1..Len(delivered) : delivered[i] = delivered[j] => i = j
      BY <2>1, <2>2 DEF Inv, Accounted, Distinct
    <2> QED
      BY <2>3, <2>4 DEF DeliveredOnce, IsInjective
  <1> QED
    BY <1>1, Invariant, PTL
=============================================================================
