------------------------------ MODULE LiveProofs ------------------------------
(* Theorems about live updates, for any topics, connections, queue size and     *)
(* writes, and any patches that turn one value into another: references are      *)
(* exact, no change is forgotten, and what is on its way to a page brings it to   *)
(* what its topics show.                                                         *)
EXTENDS Live, FiniteSetTheorems, TLAPS

Asks == [t : Topic, kind : {"sub", "unsub"}]

\* A connection's fields. What is in its queue does not matter here.
Fields == {"st", "done", "holds", "out", "up", "reader", "ask", "closer", "closing", "at"}
IsConn(x) == DOMAIN x = Fields

\* The reader has dropped what its id had before it makes a subscription.
ConnOK(x) ==
  /\ IsConn(x)
  /\ x.holds \subseteq Topic /\ x.closing \subseteq Topic
  /\ x.up \in Seq(Asks)
  /\ x.reader \in ReaderPc /\ x.closer \in {"none", "detach", "release"}
  /\ x.closer # "none" => x.at \in Topic
  /\ x.reader # "read" => x.ask \in Asks
  /\ x.reader \in {"detach", "release", "acquire", "hold"} => x.ask.t \notin x.holds

ConnsOK == DOMAIN conn = Conn /\ \A c \in Conn : ConnOK(conn[c])

HubOK ==
  /\ db \in [Topic -> Show] /\ todo \subseteq Topic /\ dirty \subseteq Topic
  /\ refs \in [Topic -> Int] /\ leaked \in [Topic -> Nat]
  /\ val \in [Topic -> Show \cup {None}] /\ built \in [Topic -> Show \cup {None}]
  /\ mu \in [Topic -> Conn \cup {Loop, None}] /\ subs \in [Topic -> SUBSET Conn]

\* A topic that nobody refers to does not exist: nothing of it is there.
Absent ==
  \A t \in Topic : refs[t] = 0 =>
    t \notin dirty /\ t \notin todo /\ val[t] = None /\ mu[t] = None

\* A subscriber that builds holds the topic's mu, and refers to it meanwhile.
Refers(x, t) == t \in x.holds \/ (x.closer = "detach" /\ x.at = t)
Building ==
  \A c \in Conn : conn[c].reader = "build" =>
    mu[conn[c].ask.t] = c /\ Refers(conn[c], conn[c].ask.t)

LiveInv == ConnsOK /\ HubOK /\ RefsExact /\ Absent /\ Building /\ NothingForgotten
------------------------------------------------------------------------------
\* Connections have their fields.

LEMMA OneConn ==
  ASSUME ConnsOK, NEW c \in Conn, NEW x, ConnOK(x), conn' = [conn EXCEPT ![c] = x]
  PROVE  ConnsOK'
  BY DEF ConnsOK, ConnOK, IsConn, Fields

\* The reader goes on, once it has read something.
LEMMA GoesOn ==
  ASSUME ConnsOK, NEW c \in Conn, NEW pc \in ReaderPc, conn' = [conn EXCEPT ![c].reader = pc],
         pc # "read" => conn[c].reader # "read",
         pc \in {"detach", "release", "acquire", "hold"} =>
           conn[c].reader \in {"detach", "release", "acquire", "hold"}
  PROVE  ConnsOK'
<1>. DEFINE y == [conn[c] EXCEPT !.reader = pc]
<1>1. ConnOK(y)
  BY DEF ConnsOK, ConnOK, IsConn, Fields
<1>. HIDE DEF y
<1>2. conn' = [conn EXCEPT ![c] = y]
  BY DEF y
<1>. QED  BY <1>1, <1>2, OneConn

LEMMA SetsAreSequences ==
  ASSUME NEW S, IsFiniteSet(S)
  PROVE  SetToSeq(S) \in Seq(S)
<1>1. PICK f : f \in Bijection(1..Cardinality(S), S)
  BY FS_CardinalityType DEF ExistsBijection
<1>2. f \in [1..Cardinality(S) -> S] /\ IsInjective(f)
  BY <1>1 DEF Bijection, Injection
<1>3. SetToSeq(S) \in [1..Cardinality(S) -> S]
  BY <1>2 DEF SetToSeq
<1>. QED  BY <1>3, FS_CardinalityType

\* What a page that connects asks for.
LEMMA AsksAll ==
  ASSUME NEW S, S \subseteq Topic, NEW up \in {SetToSeq({Ask(t, "sub") : t \in S})}
  PROVE  up \in Seq(Asks) /\ \A i \in DOMAIN up : up[i].kind = "sub"
<1>. DEFINE R == [t : Topic, kind : {"sub"}]
<1>. DEFINE T == {Ask(t, "sub") : t \in S}
<1>. DEFINE f == [t \in S |-> Ask(t, "sub")]
<1>1. IsFiniteSet(S)
  BY LiveAssumption, FS_Subset
<1>2. f \in Surjection(S, T)
  BY DEF Surjection
<1>3. IsFiniteSet(T)
  BY <1>1, <1>2, FS_Surjection DEF ExistsSurjection
<1>4. SetToSeq(T) \in Seq(T) /\ T \subseteq R
  BY <1>3, SetsAreSequences DEF Ask
<1>. HIDE DEF R, T
<1>5. SetToSeq(T) \in Seq(R) /\ up = SetToSeq(T)
  BY <1>4 DEF T
<1>6. \A u \in Seq(R) : \A i \in DOMAIN u : u[i] \in R
  OBVIOUS
<1>7. R \subseteq Asks /\ \A a \in R : a.kind = "sub"
  BY DEF R, Asks
<1>8. up \in Seq(R)
  BY <1>5
<1>9. up \in Seq(Asks)
  BY <1>7, <1>8
<1>10. \A i \in DOMAIN up : up[i].kind = "sub"
  BY <1>6, <1>7, <1>8
<1>. QED  BY <1>9, <1>10

LEMMA SendKeeps ==
  ASSUME NEW c \in Conn, NEW m, ConnOK(conn[c])
  PROVE  ConnOK(Send(c, m))
  BY DEF Send, ConnOK, IsConn, Fields

LEMMA ConnsKept ==
  ASSUME ConnsOK, [Next]_vars
  PROVE  ConnsOK'
<1>. SUFFICES ASSUME conn' # conn
             PROVE  ConnsOK'
  BY DEF ConnsOK
<1>1. ASSUME NEW t \in Topic, Publish(t)
      PROVE  ConnsOK'
  BY <1>1, SendKeeps DEF Publish, ConnsOK
<1>2. ASSUME NEW c \in Conn, Read(c)
      PROVE  ConnsOK'
  <2>. DEFINE ask == Head(conn[c].up)
  <2>1. ConnOK(conn[c]) /\ ask \in Asks /\ Tail(conn[c].up) \in Seq(Asks)
    BY <1>2 DEF Read, ConnsOK, ConnOK
  <2>. DEFINE y == [NotHolding(c, ask.t) EXCEPT !.up = Tail(@), !.ask = ask,
          !.reader = IF ask.t \in conn[c].holds THEN "detach"
                     ELSE IF ask.kind = "sub" THEN "acquire" ELSE "read"]
  <2>2. ConnOK(y)
    BY <2>1 DEF NotHolding, ConnOK, IsConn, Fields, ReaderPc
  <2>. HIDE DEF y
  <2>3. conn' = [conn EXCEPT ![c] = y]
    BY <1>2 DEF Read, y
  <2>. QED  BY <2>2, <2>3, OneConn
<1>3. ASSUME NEW c \in Conn,
             ReaderDetach(c) \/ ReaderRelease(c) \/ Acquire(c) \/ Hold(c) \/ BuildFirst(c)
             \/ AttachAdrift(c)
      PROVE  ConnsOK'
  <2>1. CASE ReaderDetach(c)
    BY <2>1, GoesOn DEF ReaderDetach, ReaderPc
  <2>2. CASE ReaderRelease(c)
    BY <2>2, GoesOn DEF ReaderRelease, ReaderPc
  <2>3. CASE Acquire(c)
    BY <2>3, GoesOn DEF Acquire, ReaderPc
  <2>4. CASE Hold(c)
    BY <2>4 DEF Hold, ConnsOK, ConnOK, IsConn, Fields, ReaderPc, Asks
  <2>5. CASE BuildFirst(c)
    BY <2>5, GoesOn DEF BuildFirst, ReaderPc
  <2>6. CASE AttachAdrift(c)
    <3>. DEFINE y == [conn[c] EXCEPT !.reader = "read", !.ask = None]
    <3>1. ConnOK(y)
      BY DEF ConnsOK, ConnOK, IsConn, Fields, ReaderPc
    <3>2. conn' = [conn EXCEPT ![c] = y]
      BY <2>6 DEF AttachAdrift
    <3>. HIDE DEF y
    <3>. QED  BY <3>1, <3>2, OneConn
  <2>. QED  BY <1>3, <2>1, <2>2, <2>3, <2>4, <2>5, <2>6
<1>4. ASSUME NEW c \in Conn, Attach(c)
      PROVE  ConnsOK'
  <2>1. PICK v : conn' = [conn EXCEPT ![c] = [Send(c, v) EXCEPT !.reader = "read", !.ask = None]]
    BY <1>4 DEF Attach
  <2>. DEFINE y == [Send(c, v) EXCEPT !.reader = "read", !.ask = None]
  <2>2. ConnOK(Send(c, v))
    BY SendKeeps DEF ConnsOK
  <2>3. ConnOK(y)
    BY <2>2 DEF ConnOK, IsConn, Fields, ReaderPc
  <2>. HIDE DEF y
  <2>. QED  BY <2>1, <2>3, OneConn DEF y
<1>5. ASSUME NEW c \in Conn, Close(c) \/ CloseDetach(c) \/ CloseRelease(c)
      PROVE  ConnsOK'
  <2>1. CASE Close(c)
    BY <2>1 DEF Close, ConnsOK, ConnOK, IsConn, Fields
  <2>2. CASE CloseDetach(c)
    BY <2>2 DEF CloseDetach, ConnsOK, ConnOK, IsConn, Fields
  <2>3. CASE CloseRelease(c)
    BY <2>3 DEF CloseRelease, ConnsOK, ConnOK, IsConn, Fields
  <2>. QED  BY <1>5, <2>1, <2>2, <2>3
<1>10. ASSUME NEW c \in Conn, NEW t \in Topic, CloseNext(c, t)
      PROVE  ConnsOK'
  <2>. DEFINE y == [NotHolding(c, t) EXCEPT !.closing = @ \ {t},
          !.closer = IF t \in conn[c].holds THEN "detach" ELSE "none",
          !.at = IF t \in conn[c].holds THEN t ELSE @]
  <2>1. ConnOK(y)
    BY <1>10 DEF CloseNext, NotHolding, ConnsOK, ConnOK, IsConn, Fields
  <2>. HIDE DEF y
  <2>2. conn' = [conn EXCEPT ![c] = y]
    BY <1>10 DEF CloseNext, y
  <2>. QED  BY <2>1, <2>2, OneConn
<1>6. ASSUME NEW c \in Conn, Over(c)
      PROVE  ConnsOK'
  <2>1. ConnOK(NoConn)
    BY DEF ConnOK, IsConn, Fields, NoConn, ReaderPc
  <2>. QED  BY <1>6, <2>1, OneConn DEF Over
<1>7. ASSUME NEW t \in Topic, Want(t) \/ Unwant(t)
      PROVE  ConnsOK'
  <2>1. PICK ask \in Asks : conn' = Tell(ask)
    BY <1>7 DEF Want, Unwant, Ask, Asks
  <2>. QED  BY <2>1 DEF Tell, ConnsOK, ConnOK, IsConn, Fields
<1>8. ASSUME NEW c \in Conn, Connect(c)
      PROVE  ConnsOK'
  <2>. DEFINE up == SetToSeq({Ask(t, "sub") : t \in {u \in Topic : page[u].here}})
  <2>1. up \in Seq(Asks)
    BY AsksAll
  <2>2. conn' = [conn EXCEPT ![c].st = "open", ![c].up = up]
    BY <1>8 DEF Connect
  <2>. HIDE DEF up
  <2>. QED  BY <2>1, <2>2 DEF ConnsOK, ConnOK, IsConn, Fields
<1>9. ASSUME Deliver
      PROVE  ConnsOK'
  BY <1>9 DEF Deliver, ConnsOK, ConnOK, IsConn, Fields
<1>. QED
  BY <1>1, <1>2, <1>3, <1>4, <1>5, <1>6, <1>7, <1>8, <1>9, <1>10
  DEF Next, vars, Run, Reader, Closer, Woken, Refresh, RestLoop, Resync, Rebuild, Mark, Wake, Cool, Write,
      Disconnect
------------------------------------------------------------------------------
\* The hub's variables have their types.

LEMMA HubKept ==
  ASSUME ConnsOK, HubOK, [Next]_vars
  PROVE  HubOK'
<1>. USE DEF HubOK, Show
<1>1. ASSUME NEW t \in Topic, Mark(t) \/ Wake(t) \/ Cool(t) \/ Want(t) \/ Unwant(t)
      PROVE  HubOK'
  BY <1>1 DEF Mark, Wake, Cool, Want, Unwant, topics, world, hub
<1>2. ASSUME NEW t \in Topic, NEW v \in Show, Write(t, v)
      PROVE  HubOK'
  BY <1>2 DEF Write, topics, hub
<1>11. ASSUME Resync
       PROVE  HubOK'
  BY <1>11 DEF Resync, topics, world
<1>3. ASSUME NEW t \in Topic, Rebuild(t) \/ Publish(t)
      PROVE  HubOK'
  BY <1>3 DEF Rebuild, Publish, world, hub
<1>4. ASSUME Woken \/ RestLoop \/ Refresh \/ Deliver \/ Disconnect \/ UNCHANGED vars
      PROVE  HubOK'
  BY <1>4 DEF Woken, RestLoop, Refresh, Deliver, Disconnect, vars, world, hub, topics, Exist
<1>5. ASSUME NEW c \in Conn, Read(c) \/ Hold(c) \/ AttachAdrift(c) \/ Close(c) \/ Connect(c)
                             \/ \E t \in Topic : CloseNext(c, t)
      PROVE  HubOK'
  BY <1>5 DEF Read, Hold, AttachAdrift, Close, Connect, CloseNext, world, hub, topics
<1>6. ASSUME NEW c \in Conn, Acquire(c) \/ BuildFirst(c) \/ Attach(c)
      PROVE  HubOK'
  <2>1. conn[c].ask.t \in Topic
    BY <1>6 DEF Acquire, BuildFirst, Attach, ConnsOK, ConnOK, Asks
  <2>. QED  BY <1>6, <2>1 DEF Acquire, BuildFirst, Attach, world, hub
<1>7. ASSUME NEW c \in Conn, ReaderDetach(c) \/ CloseDetach(c)
      PROVE  HubOK'
  BY <1>7 DEF ReaderDetach, CloseDetach, Detach, world, hub
<1>8. ASSUME NEW t \in Topic, Release(t), UNCHANGED <<world, leaked>>
      PROVE  HubOK'
  <2>1. db' \in [Topic -> Show] /\ todo' \subseteq Topic /\ dirty' \subseteq Topic /\ leaked' \in [Topic -> Nat]
    BY <1>8 DEF Release, world
  <2>2. refs' \in [Topic -> Int]
    <3>1. refs' = [refs EXCEPT ![t] = refs[t] - 1]
      BY <1>8 DEF Release
    <3>. QED  BY <3>1
  <2>4. subs' \in [Topic -> SUBSET Conn]
    BY <1>8 DEF Release
  <2>3. val' \in [Topic -> Show \cup {None}] /\ built' \in [Topic -> Show \cup {None}]
        /\ mu' \in [Topic -> Conn \cup {Loop, None}]
    BY <1>8 DEF Release
  <2>. QED  BY <2>1, <2>2, <2>3, <2>4
<1>9. ASSUME NEW c \in Conn, Over(c)
      PROVE  HubOK'
  BY <1>9 DEF Over, world, hub
<1>10. ASSUME NEW c \in Conn, ReaderRelease(c) \/ CloseRelease(c)
       PROVE  HubOK'
  BY <1>8, <1>10 DEF ReaderRelease, CloseRelease, ConnsOK, ConnOK, Asks
<1>. QED
  BY <1>1, <1>2, <1>3, <1>4, <1>5, <1>6, <1>7, <1>9, <1>10, <1>11 DEF Next, Run, Reader, Closer
------------------------------------------------------------------------------
\* Who refers to a topic.

Holding(t) == {c \in Conn : t \in conn[c].holds}
Closing(t) == {c \in Conn : conn[c].closer \in {"detach", "release"} /\ conn[c].at = t}
Reading(t) == {c \in Conn : conn[c].reader \in {"detach", "release", "hold"} /\ conn[c].ask.t = t}
One(c, S) == IF c \in S THEN 1 ELSE 0
Held(c, t) == One(c, Holding(t)) + One(c, Closing(t)) + One(c, Reading(t))
Sum(t) == Cardinality(Holding(t)) + Cardinality(Closing(t)) + Cardinality(Reading(t))


\* RefsExact, and a topic's sum in the order it writes it.
Exact ==
  \A t \in Topic :
    refs[t] = leaked[t] + Cardinality(Holding(t)) + Cardinality(Closing(t)) + Cardinality(Reading(t))
LEMMA ExactMeans == RefsExact <=> Exact
  BY DEF RefsExact, Exact, Holding, Closing, Reading

LEMMA Without ==
  ASSUME NEW S \in SUBSET Conn, NEW c
  PROVE  /\ Cardinality(S) \in Nat /\ Cardinality(S \ {c}) \in Nat
         /\ Cardinality(S) = Cardinality(S \ {c}) + One(c, S)
<1>1. IsFiniteSet(S) /\ IsFiniteSet(S \ {c})
  BY LiveAssumption, FS_Subset, FS_RemoveElement
<1>2. Cardinality(S) \in Nat /\ Cardinality(S \ {c}) \in Nat
  BY <1>1, FS_CardinalityType
<1>. QED  BY <1>1, <1>2, FS_RemoveElement DEF One

LEMMA SetsOfConns ==
  ASSUME NEW t
  PROVE  Holding(t) \in SUBSET Conn /\ Closing(t) \in SUBSET Conn /\ Reading(t) \in SUBSET Conn
  BY DEF Holding, Closing, Reading

LEMMA RefsMeans ==
  ASSUME HubOK
  PROVE  RefsExact <=> \A t \in Topic : refs[t] = leaked[t] + Sum(t)
<1>1. \A t \in Topic :
        /\ leaked[t] \in Nat
        /\ Cardinality(Holding(t)) \in Nat /\ Cardinality(Closing(t)) \in Nat /\ Cardinality(Reading(t)) \in Nat
  BY SetsOfConns, Without DEF HubOK
<1>2. Exact <=> \A t \in Topic : refs[t] = leaked[t] + Sum(t)
  BY <1>1 DEF Exact, Sum
<1>. QED  BY <1>2, ExactMeans

\* Two sets that differ in one connection at most.
LEMMA Differ ==
  ASSUME NEW S \in SUBSET Conn, NEW T \in SUBSET Conn, NEW c, S \ {c} = T \ {c}
  PROVE  Cardinality(T) - One(c, T) = Cardinality(S) - One(c, S)
  BY Without DEF One

LEMMA Least ==
  ASSUME NEW S \in SUBSET Conn, NEW c
  PROVE  Cardinality(S) \in Nat /\ Cardinality(S) >= One(c, S)
<1>1. /\ Cardinality(S) \in Nat /\ Cardinality(S \ {c}) \in Nat
      /\ Cardinality(S) = Cardinality(S \ {c}) + One(c, S)
  BY Without
<1>. QED  BY <1>1 DEF One

LEMMA TwoIn ==
  ASSUME NEW S \in SUBSET Conn, NEW c, NEW d, c # d
  PROVE  Cardinality(S) >= One(c, S) + One(d, S)
<1>1. Cardinality(S) = Cardinality(S \ {c}) + One(c, S)
  BY Without
<1>2. Cardinality(S \ {c}) = Cardinality((S \ {c}) \ {d}) + One(d, S \ {c})
      /\ Cardinality((S \ {c}) \ {d}) \in Nat
  BY Without
<1>. QED  BY <1>1, <1>2 DEF One

\* A topic has at least the references of any one connection, and of any two.
LEMMA AtLeast ==
  ASSUME HubOK, RefsExact, NEW t \in Topic, NEW c \in Conn
  PROVE  /\ refs[t] \in Nat /\ refs[t] >= Held(c, t)
         /\ \A d \in Conn \ {c} : refs[t] >= Held(c, t) + Held(d, t)
<1>1. refs[t] = leaked[t] + Sum(t) /\ leaked[t] \in Nat
  BY RefsMeans DEF HubOK
<1>2. Sum(t) \in Nat /\ Sum(t) >= Held(c, t)
  <2>1. /\ Cardinality(Holding(t)) \in Nat /\ Cardinality(Holding(t)) >= One(c, Holding(t))
        /\ Cardinality(Closing(t)) \in Nat /\ Cardinality(Closing(t)) >= One(c, Closing(t))
        /\ Cardinality(Reading(t)) \in Nat /\ Cardinality(Reading(t)) >= One(c, Reading(t))
    BY SetsOfConns, Least
  <2>. QED  BY <2>1 DEF Sum, Held, One
<1>3. ASSUME NEW d \in Conn \ {c}
      PROVE  Sum(t) >= Held(c, t) + Held(d, t)
  <2>1. /\ Cardinality(Holding(t)) >= One(c, Holding(t)) + One(d, Holding(t))
        /\ Cardinality(Closing(t)) >= One(c, Closing(t)) + One(d, Closing(t))
        /\ Cardinality(Reading(t)) >= One(c, Reading(t)) + One(d, Reading(t))
    BY SetsOfConns, TwoIn
  <2>2. Cardinality(Holding(t)) \in Nat /\ Cardinality(Closing(t)) \in Nat /\ Cardinality(Reading(t)) \in Nat
    BY SetsOfConns, Least
  <2>. QED  BY <2>1, <2>2 DEF Sum, Held, One
<1>4. Held(c, t) \in Nat /\ \A d \in Conn : Held(d, t) \in Nat
  BY DEF Held, One
<1>. QED  BY <1>1, <1>2, <1>3, <1>4

LEMMA RefsNat ==
  ASSUME HubOK, RefsExact
  PROVE  \A t \in Topic : refs[t] \in Nat
<1>1. \A t \in Topic : leaked[t] \in Nat /\ Sum(t) \in Nat
  <2>. TAKE t \in Topic
  <2>1. Cardinality(Holding(t)) \in Nat /\ Cardinality(Closing(t)) \in Nat /\ Cardinality(Reading(t)) \in Nat
    BY SetsOfConns, Without
  <2>. QED  BY <2>1 DEF HubOK, Sum
<1>. QED  BY <1>1, RefsMeans

LEMMA RefsMeansNext == HubOK' => (RefsExact' <=> (\A t \in Topic : refs[t] = leaked[t] + Sum(t))')
<1>1. HubOK => (RefsExact <=> \A t \in Topic : refs[t] = leaked[t] + Sum(t))
  BY RefsMeans
<1>. QED  BY <1>1, PTL

\* A step of one connection changes a topic's references by what it changes of
\* its own.
LEMMA OneMoves ==
  ASSUME HubOK, HubOK', RefsExact, NEW c \in Conn,
         \A d \in Conn \ {c} : conn'[d] = conn[d],
         \A t \in Topic : refs'[t] - leaked'[t] - Held(c, t)' = refs[t] - leaked[t] - Held(c, t)
  PROVE  RefsExact'
<1>. SUFFICES ASSUME NEW t \in Topic
             PROVE  refs'[t] = leaked'[t] + Sum(t)'
  BY RefsMeansNext
<1>1. /\ Holding(t) \ {c} = Holding(t)' \ {c}
      /\ Closing(t) \ {c} = Closing(t)' \ {c}
      /\ Reading(t) \ {c} = Reading(t)' \ {c}
  BY DEF Holding, Closing, Reading
<1>. DEFINE H == Holding(t)' C == Closing(t)' R == Reading(t)'
<1>2. H \in SUBSET Conn /\ C \in SUBSET Conn /\ R \in SUBSET Conn
  BY DEF Holding, Closing, Reading
<1>3. /\ Cardinality(H) - One(c, H) = Cardinality(Holding(t)) - One(c, Holding(t))
      /\ Cardinality(C) - One(c, C) = Cardinality(Closing(t)) - One(c, Closing(t))
      /\ Cardinality(R) - One(c, R) = Cardinality(Reading(t)) - One(c, Reading(t))
  <2>. HIDE DEF H, C, R
  <2>1. Holding(t) \ {c} = H \ {c} /\ Closing(t) \ {c} = C \ {c} /\ Reading(t) \ {c} = R \ {c}
    BY <1>1 DEF H, C, R
  <2>. QED  BY <1>2, <2>1, SetsOfConns, Differ
<1>4. Held(c, t)' = One(c, H) + One(c, C) + One(c, R)
  BY DEF Held, One
<1>5. Sum(t)' = Cardinality(H) + Cardinality(C) + Cardinality(R)
  BY DEF Sum
<1>6. refs[t] = leaked[t] + Sum(t)
  BY RefsMeans
<1>. HIDE DEF H, C, R
<1>7. /\ Cardinality(H) \in Nat /\ Cardinality(C) \in Nat /\ Cardinality(R) \in Nat
      /\ Cardinality(Holding(t)) \in Nat /\ Cardinality(Closing(t)) \in Nat /\ Cardinality(Reading(t)) \in Nat
  BY <1>2, SetsOfConns, Without
<1>8. refs[t] \in Int /\ leaked[t] \in Nat /\ refs'[t] \in Int /\ leaked'[t] \in Nat
  BY DEF HubOK
<1>. QED  BY <1>3, <1>4, <1>5, <1>6, <1>7, <1>8 DEF Held, Sum, One

\* What a connection refers to, in the terms of its fields.
Counts(x, t) ==
  (IF t \in x.holds THEN 1 ELSE 0)
  + (IF x.closer \in {"detach", "release"} /\ x.at = t THEN 1 ELSE 0)
  + (IF x.reader \in {"detach", "release", "hold"} /\ x.ask.t = t THEN 1 ELSE 0)
LEMMA HeldIs == \A c \in Conn : \A t : Held(c, t) = Counts(conn[c], t) /\ Held(c, t)' = Counts(conn'[c], t)
  BY DEF Held, Counts, One, Holding, Closing, Reading

\* A step that touches queues and nothing else of any connection.
Quiet(x, y) ==
  y.holds = x.holds /\ y.closer = x.closer /\ y.at = x.at /\ y.reader = x.reader /\ y.ask = x.ask
LEMMA QuietKeeps ==
  ASSUME HubOK, HubOK', RefsExact, \A c \in Conn : Quiet(conn[c], conn'[c]), UNCHANGED <<refs, leaked>>
  PROVE  RefsExact'
<1>. SUFFICES ASSUME NEW t \in Topic
             PROVE  refs'[t] = leaked'[t] + Sum(t)'
  BY RefsMeansNext
<1>1. Holding(t)' = Holding(t) /\ Closing(t)' = Closing(t) /\ Reading(t)' = Reading(t)
  BY DEF Holding, Closing, Reading, Quiet
<1>2. Sum(t)' = Sum(t)
  BY <1>1 DEF Sum
<1>. QED  BY <1>2, RefsMeans
------------------------------------------------------------------------------
\* Which steps are quiet.

LEMMA QuietSteps ==
  ASSUME ConnsOK,
         Run \/ Resync \/ Deliver \/ Disconnect \/ UNCHANGED vars
         \/ (\E t \in Topic : Mark(t) \/ Wake(t) \/ Cool(t) \/ Want(t) \/ Unwant(t)
                             \/ \E v \in Show : Write(t, v))
         \/ (\E c \in Conn : Connect(c) \/ Close(c))
  PROVE  (\A c \in Conn : Quiet(conn[c], conn'[c])) /\ UNCHANGED <<refs, leaked>>
<1>. USE DEF Quiet
<1>1. CASE conn' = conn /\ UNCHANGED <<refs, leaked>>
  BY <1>1
<1>2. ASSUME NEW t \in Topic, Publish(t)
      PROVE  (\A c \in Conn : Quiet(conn[c], conn'[c])) /\ UNCHANGED <<refs, leaked>>
  <2>1. \A c \in Conn : \A m : Quiet(conn[c], Send(c, m))
    BY DEF Send, ConnsOK, ConnOK, IsConn, Fields
  <2>. QED  BY <1>2, <2>1 DEF Publish
<1>3. ASSUME NEW t \in Topic, Want(t) \/ Unwant(t)
      PROVE  (\A c \in Conn : Quiet(conn[c], conn'[c])) /\ UNCHANGED <<refs, leaked>>
  <2>1. PICK ask : conn' = Tell(ask) /\ UNCHANGED topics /\ UNCHANGED leaked
    BY <1>3 DEF Want, Unwant
  <2>2. CASE link = None
    BY <2>1, <2>2 DEF Tell, topics
  <2>3. CASE link # None
    BY <2>1, <2>3 DEF Tell, topics, ConnsOK, ConnOK, IsConn, Fields
  <2>. QED  BY <2>2, <2>3
<1>4. ASSUME NEW c \in Conn, Connect(c) \/ Close(c)
      PROVE  (\A d \in Conn : Quiet(conn[d], conn'[d])) /\ UNCHANGED <<refs, leaked>>
  <2>1. CASE Close(c)
    <3>1. PICK h : conn' = [conn EXCEPT ![c].st = "closing", ![c].closing = h, ![c].out = <<>>]
      BY <2>1 DEF Close
    <3>2. UNCHANGED <<refs, leaked>>
      BY <2>1 DEF Close, topics
    <3>. QED  BY <3>1, <3>2 DEF ConnsOK, ConnOK, IsConn, Fields
  <2>2. CASE Connect(c)
    <3>1. PICK up : conn' = [conn EXCEPT ![c].st = "open", ![c].up = up]
      BY <2>2 DEF Connect
    <3>2. UNCHANGED <<refs, leaked>>
      BY <2>2 DEF Connect, topics
    <3>. QED  BY <3>1, <3>2 DEF ConnsOK, ConnOK, IsConn, Fields
  <2>. QED  BY <1>4, <2>1, <2>2
<1>5. ASSUME Deliver
      PROVE  (\A d \in Conn : Quiet(conn[d], conn'[d])) /\ UNCHANGED <<refs, leaked>>
  BY <1>5 DEF Deliver, topics, ConnsOK, ConnOK, IsConn, Fields
<1>. QED
  BY <1>1, <1>2, <1>3, <1>4, <1>5
  DEF vars, Run, Woken, Refresh, RestLoop, Resync, Rebuild, Mark, Wake, Cool, Write, Disconnect, topics
------------------------------------------------------------------------------
\* References are exact.

LEMMA RefsKept ==
  ASSUME ConnsOK, HubOK, HubOK', RefsExact, [Next]_vars
  PROVE  RefsExact'
<1>1. CASE (\A c \in Conn : Quiet(conn[c], conn'[c])) /\ UNCHANGED <<refs, leaked>>
  BY <1>1, QuietKeeps
<1>2. ASSUME NEW c \in Conn, \A d \in Conn \ {c} : conn'[d] = conn[d],
             \A t \in Topic : refs'[t] - leaked'[t] - Counts(conn'[c], t) = refs[t] - leaked[t] - Counts(conn[c], t)
      PROVE  RefsExact'
  BY <1>2, HeldIs, OneMoves
<1>3. \A t \in Topic : refs[t] \in Int /\ leaked[t] \in Nat
  BY DEF HubOK
<1>4. ASSUME NEW c \in Conn, Read(c)
      PROVE  RefsExact'
  <2>. DEFINE ask == Head(conn[c].up)
  <2>1. ConnOK(conn[c]) /\ ask \in Asks
    BY <1>4 DEF Read, ConnsOK, ConnOK
  <2>2. \A d \in Conn \ {c} : conn'[d] = conn[d]
    BY <1>4 DEF Read
  <2>3. /\ conn'[c].holds = conn[c].holds \ {ask.t} /\ conn'[c].ask = ask
        /\ conn'[c].closer = conn[c].closer /\ conn'[c].at = conn[c].at
        /\ conn'[c].reader = IF ask.t \in conn[c].holds THEN "detach"
                             ELSE IF ask.kind = "sub" THEN "acquire" ELSE "read"
    BY <1>4, <2>1 DEF Read, NotHolding, ConnsOK, ConnOK, IsConn, Fields
  <2>. HIDE DEF ask
  <2>4. conn[c].reader = "read" /\ UNCHANGED <<refs, leaked>>
    BY <1>4 DEF Read, topics
  <2>5. \A t \in Topic : Counts(conn'[c], t) = Counts(conn[c], t)
    BY <2>3, <2>4 DEF Counts
  <2>. QED  BY <1>2, <1>3, <2>2, <2>4, <2>5
<1>5. ASSUME NEW c \in Conn, ReaderDetach(c) \/ CloseDetach(c) \/ BuildFirst(c) \/ AttachAdrift(c)
      PROVE  RefsExact'
  <2>0. PICK y : conn' = [conn EXCEPT ![c] = y]
    BY <1>5 DEF ReaderDetach, CloseDetach, BuildFirst, AttachAdrift
  <2>1. \A d \in Conn \ {c} : conn'[d] = conn[d]
    BY <2>0
  <2>2. \A t \in Topic : Counts(conn'[c], t) = Counts(conn[c], t)
    BY <1>5 DEF ReaderDetach, CloseDetach, BuildFirst, AttachAdrift, Counts, ConnsOK, ConnOK, IsConn, Fields
  <2>3. UNCHANGED <<refs, leaked>>
    BY <1>5 DEF ReaderDetach, CloseDetach, BuildFirst, AttachAdrift, topics
  <2>. QED  BY <1>2, <1>3, <2>1, <2>2, <2>3
<1>6. ASSUME NEW c \in Conn, Attach(c)
      PROVE  RefsExact'
  <2>1. PICK m : conn' = [conn EXCEPT ![c] = [Send(c, m) EXCEPT !.reader = "read", !.ask = None]]
    BY <1>6 DEF Attach
  <2>2. ConnOK(Send(c, m)) /\ Quiet(conn[c], Send(c, m))
    BY SendKeeps DEF ConnsOK, Quiet, Send, ConnOK, IsConn, Fields
  <2>3. \A t \in Topic : Counts(conn'[c], t) = Counts(conn[c], t)
    <3>1. conn[c].reader \in {"build", "attach"} /\ conn'[c].reader = "read"
          /\ conn'[c].holds = conn[c].holds /\ conn'[c].closer = conn[c].closer /\ conn'[c].at = conn[c].at
      <4>1. conn[c].reader \in {"build", "attach"}
        BY <1>6 DEF Attach
      <4>2. conn'[c] = [Send(c, m) EXCEPT !.reader = "read", !.ask = None]
        BY <2>1 DEF ConnsOK
      <4>. QED  BY <4>1, <4>2, <2>2 DEF Quiet, ConnOK, IsConn, Fields
    <3>. QED  BY <3>1 DEF Counts
  <2>4. (\A d \in Conn \ {c} : conn'[d] = conn[d]) /\ UNCHANGED <<refs, leaked>>
    BY <1>6, <2>1 DEF Attach
  <2>. QED  BY <1>2, <1>3, <2>3, <2>4
<1>7. ASSUME NEW c \in Conn, Acquire(c)
      PROVE  RefsExact'
  <2>. DEFINE u == conn[c].ask.t
  <2>1. u \in Topic
    BY <1>7 DEF Acquire, ConnsOK, ConnOK, Asks
  <2>2. /\ \A d \in Conn \ {c} : conn'[d] = conn[d]
        /\ \A t \in Topic : Counts(conn'[c], t) = IF t = u THEN Counts(conn[c], t) + 1 ELSE Counts(conn[c], t)
    BY <1>7 DEF Acquire, Counts, ConnsOK, ConnOK, IsConn, Fields
  <2>3. \A t \in Topic : refs'[t] = IF t = u THEN refs[t] + 1 ELSE refs[t]
    BY <1>7 DEF Acquire, HubOK
  <2>4. leaked' = leaked
    BY <1>7 DEF Acquire
  <2>5. \A t \in Topic : Counts(conn[c], t) \in Nat
    BY DEF Counts
  <2>. QED  BY <1>2, <1>3, <2>2, <2>3, <2>4, <2>5
<1>8. ASSUME NEW c \in Conn, Hold(c)
      PROVE  RefsExact'
  <2>1. \A t \in Topic : Counts(conn'[c], t) = Counts(conn[c], t)
    <3>1. /\ conn[c].reader = "hold" /\ conn'[c].reader = "attach" /\ conn[c].ask.t \notin conn[c].holds
          /\ conn'[c].holds = conn[c].holds \cup {conn[c].ask.t}
          /\ conn'[c].closer = conn[c].closer /\ conn'[c].at = conn[c].at
      BY <1>8 DEF Hold, ConnsOK, ConnOK, IsConn, Fields
    <3>. QED  BY <3>1 DEF Counts
  <2>2. (\A d \in Conn \ {c} : conn'[d] = conn[d]) /\ UNCHANGED <<refs, leaked>>
    <3>1. PICK y : conn' = [conn EXCEPT ![c] = y]
      BY <1>8 DEF Hold
    <3>2. UNCHANGED <<refs, leaked>>
      BY <1>8 DEF Hold, topics
    <3>. QED  BY <3>1, <3>2
  <2>. QED  BY <1>2, <1>3, <2>1, <2>2
<1>9. ASSUME NEW c \in Conn, NEW t \in Topic, CloseNext(c, t)
      PROVE  RefsExact'
  <2>1. \A u \in Topic : Counts(conn'[c], u) = Counts(conn[c], u)
    <3>1. /\ conn[c].closer = "none" /\ conn'[c].reader = conn[c].reader /\ conn'[c].ask = conn[c].ask
          /\ conn'[c].holds = conn[c].holds \ {t}
          /\ conn'[c].closer = IF t \in conn[c].holds THEN "detach" ELSE "none"
          /\ t \in conn[c].holds => conn'[c].at = t
      BY <1>9 DEF CloseNext, NotHolding, ConnsOK, ConnOK, IsConn, Fields
    <3>. QED  BY <3>1 DEF Counts
  <2>2. (\A d \in Conn \ {c} : conn'[d] = conn[d]) /\ UNCHANGED <<refs, leaked>>
    BY <1>9 DEF CloseNext, topics
  <2>. QED  BY <1>2, <1>3, <2>1, <2>2
<1>10. ASSUME NEW c \in Conn, ReaderRelease(c) \/ CloseRelease(c)
       PROVE  RefsExact'
  <2>. DEFINE u == IF ReaderRelease(c) THEN conn[c].ask.t ELSE conn[c].at
  <2>1. u \in Topic
    BY <1>10 DEF ReaderRelease, CloseRelease, ConnsOK, ConnOK, Asks
  <2>2. /\ \A d \in Conn \ {c} : conn'[d] = conn[d]
        /\ \A t \in Topic : Counts(conn'[c], t) = IF t = u THEN Counts(conn[c], t) - 1 ELSE Counts(conn[c], t)
    <3>1. CASE ReaderRelease(c)
      BY <3>1 DEF ReaderRelease, Counts, ConnsOK, ConnOK, IsConn, Fields
    <3>2. CASE ~ReaderRelease(c)
      BY <3>2, <1>10 DEF CloseRelease, Counts, ConnsOK, ConnOK, IsConn, Fields
    <3>. QED  BY <3>1, <3>2
  <2>3. \A t \in Topic : refs'[t] = IF t = u THEN refs[t] - 1 ELSE refs[t]
    BY <1>10 DEF ReaderRelease, CloseRelease, Release, HubOK
  <2>4. leaked' = leaked
    BY <1>10 DEF ReaderRelease, CloseRelease
  <2>5. \A t \in Topic : Counts(conn[c], t) \in Nat
    BY DEF Counts
  <2>. QED  BY <1>2, <1>3, <2>2, <2>3, <2>4, <2>5
<1>11. ASSUME NEW c \in Conn, Over(c)
       PROVE  RefsExact'
  <2>1. /\ \A d \in Conn \ {c} : conn'[d] = conn[d]
        /\ \A t \in Topic : Counts(conn'[c], t) = 0
        /\ \A t \in Topic : Counts(conn[c], t) = IF t \in conn[c].holds THEN 1 ELSE 0
    BY <1>11 DEF Over, NoConn, Counts, ConnsOK
  <2>2. \A t \in Topic : leaked'[t] = IF t \in conn[c].holds THEN leaked[t] + 1 ELSE leaked[t]
    BY <1>11 DEF Over
  <2>3. refs' = refs
    BY <1>11 DEF Over
  <2>. QED  BY <1>2, <1>3, <2>1, <2>2, <2>3
<1>. QED
  BY <1>1, <1>4, <1>5, <1>6, <1>7, <1>8, <1>9, <1>10, <1>11, QuietSteps DEF Next, Reader, Closer
------------------------------------------------------------------------------
\* Whoever makes or drops a subscription keeps its topic there meanwhile.

LEMMA Referred ==
  ASSUME HubOK, RefsExact, NEW c \in Conn, NEW t \in Topic, Counts(conn[c], t) > 0
  PROVE  refs[t] \in Nat /\ refs[t] >= Counts(conn[c], t)
         /\ \A d \in Conn \ {c} : refs[t] >= Counts(conn[c], t) + Counts(conn[d], t)
  BY AtLeast, HeldIs

LEMMA Counted ==
  ASSUME NEW x, NEW t
  PROVE  /\ Counts(x, t) \in Nat
         /\ Refers(x, t) => Counts(x, t) > 0
         /\ x.reader = "release" /\ x.ask.t = t => Counts(x, t) > 0
         /\ x.closer = "release" /\ x.at = t => Counts(x, t) > 0
         /\ x.closer = "release" /\ x.at = t /\ Refers(x, t) => Counts(x, t) > 1
  BY DEF Counts, Refers

\* Releasing a topic somebody builds does not end it.
LEMMA ReleaseSpares ==
  ASSUME ConnsOK, HubOK, RefsExact, Building, NEW c \in Conn, NEW d \in Conn, conn[d].reader = "build",
         NEW t \in Topic, conn[d].ask.t = t,
         \/ conn[c].reader = "release" /\ conn[c].ask.t = t
         \/ conn[c].closer = "release" /\ conn[c].at = t
  PROVE  refs[t] # 1
<1>1. Refers(conn[d], t)
  BY DEF Building
<1>2. CASE c # d
  <2>1. Counts(conn[c], t) > 0 /\ Counts(conn[d], t) > 0 /\ Counts(conn[c], t) \in Nat /\ Counts(conn[d], t) \in Nat
    BY <1>1, Counted
  <2>2. refs[t] \in Nat /\ refs[t] >= Counts(conn[c], t) + Counts(conn[d], t)
    BY <1>2, <2>1, Referred
  <2>. QED  BY <2>1, <2>2
<1>3. CASE c = d
  <2>1. Counts(conn[c], t) > 1 /\ Counts(conn[c], t) \in Nat
    BY <1>1, <1>3, Counted
  <2>2. refs[t] \in Nat /\ refs[t] >= Counts(conn[c], t)
    BY <2>1, Referred
  <2>. QED  BY <2>1, <2>2
<1>. QED  BY <1>2, <1>3

LEMMA ReleaseThere ==
  ASSUME HubOK, RefsExact, NEW c \in Conn, NEW t \in Topic,
         \/ conn[c].reader = "release" /\ conn[c].ask.t = t
         \/ conn[c].closer = "release" /\ conn[c].at = t
         \/ Refers(conn[c], t)
  PROVE  refs[t] \in Nat \ {0}
  BY Counted, Referred
------------------------------------------------------------------------------
LEMMA AbsentKept ==
  ASSUME ConnsOK, HubOK, RefsExact, Absent, Building, [Next]_vars
  PROVE  Absent'
<1>. USE DEF Absent, HubOK
<1>1. CASE UNCHANGED <<refs, dirty, todo, val, mu>>
  BY <1>1
<1>2. ASSUME Refresh
      PROVE  Absent'
  BY <1>2 DEF Refresh, Exist
<1>3. ASSUME NEW t \in Topic, Rebuild(t) \/ Publish(t)
      PROVE  Absent'
  BY <1>3, LiveAssumption DEF Rebuild, Publish, hub, Loop
<1>4. ASSUME NEW c \in Conn, ReaderRelease(c) \/ CloseRelease(c)
      PROVE  Absent'
  <2>1. PICK t \in Topic :
          /\ Release(t)
          /\ \/ conn[c].reader = "release" /\ conn[c].ask.t = t
             \/ conn[c].closer = "release" /\ conn[c].at = t
    BY <1>4 DEF ReaderRelease, CloseRelease, ConnsOK, ConnOK, Asks
  <2>2. refs[t] \in Nat \ {0}
    BY <2>1, ReleaseThere
  <2>. QED  BY <2>1, <2>2 DEF Release
<1>5. ASSUME NEW c \in Conn, Acquire(c)
      PROVE  Absent'
  <2>1. conn[c].ask.t \in Topic
    BY <1>5 DEF Acquire, ConnsOK, ConnOK, Asks
  <2>2. refs[conn[c].ask.t] \in Nat
    BY <2>1, AtLeast
  <2>. QED  BY <1>5, <2>1, <2>2 DEF Acquire, hub
<1>6. ASSUME NEW c \in Conn, BuildFirst(c)
      PROVE  Absent'
  <2>1. conn[c].ask.t \in Topic /\ Refers(conn[c], conn[c].ask.t)
    BY <1>6 DEF BuildFirst, Adrift, Refers, ConnsOK, ConnOK, Asks
  <2>2. refs[conn[c].ask.t] # 0
    BY <2>1, ReleaseThere
  <2>. QED  BY <1>6, <2>1, <2>2 DEF BuildFirst, hub
<1>7. ASSUME NEW c \in Conn, Attach(c)
      PROVE  Absent'
  <2>1. conn[c].ask.t \in Topic
    BY <1>7 DEF Attach, ConnsOK, ConnOK, Asks
  <2>2. refs[conn[c].ask.t] # 0
    BY <1>7, <2>1, ReleaseThere DEF Attach, Building
  <2>. QED  BY <1>7, <2>1, <2>2 DEF Attach, hub
<1>. QED
  BY <1>1, <1>2, <1>3, <1>4, <1>5, <1>6, <1>7
  DEF Next, vars, topics, hub, Run, Woken, RestLoop, Resync, Mark, Wake, Cool, Want, Unwant, Write, Deliver,
      Disconnect, Connect, Reader, Closer, Read, ReaderDetach, Hold, AttachAdrift, Close, CloseNext,
      CloseDetach, Over, Detach

LEMMA BuildingKept ==
  ASSUME ConnsOK, HubOK, RefsExact, Absent, Building, [Next]_vars
  PROVE  Building'
<1>. USE DEF Building, HubOK
<1>1. \A d \in Conn : conn[d].reader = "build" => conn[d].ask.t \in Topic
  BY DEF ConnsOK, ConnOK, Asks
<1>2. ASSUME NEW c \in Conn, \A d \in Conn \ {c} : conn'[d] = conn[d], conn'[c].reader # "build",
             \A d \in Conn \ {c} : conn[d].reader = "build" => mu'[conn[d].ask.t] = mu[conn[d].ask.t]
      PROVE  Building'
  BY <1>2 DEF Refers
<1>3. CASE (\A c \in Conn : Quiet(conn[c], conn'[c])) /\ UNCHANGED mu
  BY <1>3 DEF Quiet, Refers
<1>4. ASSUME NEW t \in Topic, Rebuild(t) \/ Publish(t)
      PROVE  Building'
  <2>1. \A c \in Conn : Quiet(conn[c], conn'[c])
    BY <1>4, QuietSteps DEF Run
  <2>2. \A c \in Conn : conn[c].reader = "build" => mu'[conn[c].ask.t] = mu[conn[c].ask.t]
    BY <1>1, <1>4, LiveAssumption DEF Rebuild, Publish, Loop
  <2>. QED  BY <2>1, <2>2 DEF Quiet, Refers
<1>5. ASSUME NEW c \in Conn, Read(c) \/ ReaderDetach(c) \/ Acquire(c) \/ Hold(c) \/ AttachAdrift(c) \/ Over(c)
      PROVE  Building'
  <2>0. PICK y : conn' = [conn EXCEPT ![c] = y]
    BY <1>5 DEF Read, ReaderDetach, Acquire, Hold, AttachAdrift, Over
  <2>1. \A d \in Conn \ {c} : conn'[d] = conn[d]
    BY <2>0
  <2>2. mu' = mu
    BY <1>5 DEF Read, ReaderDetach, Acquire, Hold, AttachAdrift, Over, topics
  <2>3. conn'[c].reader # "build"
    <3>1. CASE Read(c)
      <4>1. PICK rest, pc : /\ conn' = [conn EXCEPT ![c] = [NotHolding(c, Head(conn[c].up).t)
                              EXCEPT !.up = rest, !.ask = Head(conn[c].up), !.reader = pc]]
                        /\ pc \in {"detach", "acquire", "read"}
        BY <3>1 DEF Read
      <4>. QED  BY <4>1 DEF NotHolding, ConnsOK, ConnOK, IsConn, Fields
    <3>2. CASE ReaderDetach(c) \/ Acquire(c)
      BY <3>2 DEF ReaderDetach, Acquire, ConnsOK, ConnOK, IsConn, Fields
    <3>3. CASE Hold(c) \/ AttachAdrift(c)
      BY <3>3 DEF Hold, AttachAdrift, ConnsOK, ConnOK, IsConn, Fields
    <3>4. CASE Over(c)
      BY <3>4 DEF Over, NoConn, ConnsOK
    <3>. QED  BY <1>5, <3>1, <3>2, <3>3, <3>4
  <2>. QED  BY <1>2, <2>1, <2>2, <2>3
<1>6. ASSUME NEW c \in Conn, Attach(c)
      PROVE  Building'
  <2>1. PICK m : conn' = [conn EXCEPT ![c] = [Send(c, m) EXCEPT !.reader = "read", !.ask = None]]
    BY <1>6 DEF Attach
  <2>2. ConnOK(Send(c, m))
    BY SendKeeps DEF ConnsOK
  <2>3. conn'[c].reader # "build" /\ \A d \in Conn \ {c} : conn'[d] = conn[d]
    BY <2>1, <2>2 DEF ConnsOK, ConnOK, IsConn, Fields
  <2>4. mu[conn[c].ask.t] \in {c, None}
    BY <1>6 DEF Attach
  <2>5. \A d \in Conn \ {c} : conn[d].reader = "build" => conn[d].ask.t # conn[c].ask.t
    BY <2>4, LiveAssumption
  <2>6. \A d \in Conn \ {c} : conn[d].reader = "build" => mu'[conn[d].ask.t] = mu[conn[d].ask.t]
    BY <1>1, <1>6, <2>5 DEF Attach
  <2>. QED  BY <1>2, <2>3, <2>6
<1>7. ASSUME NEW c \in Conn, BuildFirst(c)
      PROVE  Building'
  <2>. DEFINE t == conn[c].ask.t
  <2>1. t \in Topic /\ mu[t] = None /\ mu' = [mu EXCEPT ![t] = c] /\ Refers(conn[c], t)
    BY <1>7 DEF BuildFirst, Adrift, Refers, ConnsOK, ConnOK, Asks
  <2>2. /\ \A d \in Conn \ {c} : conn'[d] = conn[d]
        /\ conn'[c].ask = conn[c].ask /\ conn'[c].holds = conn[c].holds
        /\ conn'[c].closer = conn[c].closer /\ conn'[c].at = conn[c].at
    BY <1>7 DEF BuildFirst, ConnsOK, ConnOK, IsConn, Fields
  <2>3. ASSUME NEW d \in Conn \ {c}, conn[d].reader = "build"
        PROVE  mu'[conn[d].ask.t] = d /\ Refers(conn[d], conn[d].ask.t)
    <3>1. mu[conn[d].ask.t] = d /\ conn[d].ask.t # t
      BY <2>1, <2>3, LiveAssumption
    <3>. QED  BY <1>1, <2>1, <2>3, <3>1
  <2>4. mu'[conn'[c].ask.t] = c /\ Refers(conn'[c], conn'[c].ask.t)
    BY <2>1, <2>2 DEF Refers
  <2>. QED  BY <2>2, <2>3, <2>4
<1>8. ASSUME NEW c \in Conn, ReaderRelease(c) \/ CloseRelease(c)
      PROVE  Building'
  <2>1. PICK t \in Topic :
          /\ Release(t)
          /\ \/ conn[c].reader = "release" /\ conn[c].ask.t = t
             \/ conn[c].closer = "release" /\ conn[c].at = t
    BY <1>8 DEF ReaderRelease, CloseRelease, ConnsOK, ConnOK, Asks
  <2>2. \A d \in Conn : conn[d].reader = "build" => mu'[conn[d].ask.t] = mu[conn[d].ask.t]
    BY <1>1, <2>1, ReleaseSpares DEF Release
  <2>3. /\ \A d \in Conn \ {c} : conn'[d] = conn[d]
        /\ conn'[c].reader = "build" => conn[c].reader = "build" /\ conn[c].closer = "release"
        /\ conn'[c].ask = conn[c].ask /\ conn'[c].holds = conn[c].holds
    BY <1>8 DEF ReaderRelease, CloseRelease, ConnsOK, ConnOK, IsConn, Fields
  <2>. QED  BY <2>2, <2>3 DEF Refers
<1>9. ASSUME NEW c \in Conn, CloseDetach(c)
      PROVE  Building'
  <2>1. /\ conn[c].closer = "detach" /\ mu[conn[c].at] = None /\ mu' = mu
        /\ \A d \in Conn \ {c} : conn'[d] = conn[d]
        /\ conn'[c].ask = conn[c].ask /\ conn'[c].holds = conn[c].holds /\ conn'[c].reader = conn[c].reader
    BY <1>9 DEF CloseDetach, Detach, ConnsOK, ConnOK, IsConn, Fields
  <2>. QED  BY <2>1, LiveAssumption DEF Refers
<1>10. ASSUME NEW c \in Conn, NEW t \in Topic, CloseNext(c, t)
       PROVE  Building'
  <2>1. /\ conn[c].closer = "none" /\ mu' = mu /\ \A d \in Conn \ {c} : conn'[d] = conn[d]
        /\ conn'[c].ask = conn[c].ask /\ conn'[c].holds = conn[c].holds \ {t}
        /\ conn'[c].reader = conn[c].reader
        /\ t \in conn[c].holds => conn'[c].closer = "detach" /\ conn'[c].at = t
    BY <1>10 DEF CloseNext, NotHolding, topics, ConnsOK, ConnOK, IsConn, Fields
  <2>. QED  BY <2>1 DEF Refers
<1>. QED
  BY <1>3, <1>4, <1>5, <1>6, <1>7, <1>8, <1>9, <1>10, QuietSteps
  DEF Next, vars, topics, Run, Woken, Refresh, RestLoop, Resync, Mark, Wake, Cool, Want, Unwant, Write,
      Deliver, Disconnect, Connect, Reader, Closer, Close
------------------------------------------------------------------------------
\* What is yet to be shown is yet to be rebuilt.

Shown(t) == IF mu[t] = None THEN val[t] ELSE built[t]
ToCome(t) == t \in owed \cup marked \cup dirty \cup todo
Follows == \A t \in Topic : Shown(t) \notin {None, db[t]} => ToCome(t)
Woke ==
  /\ marked # {} => wake \/ waking # {} \/ loop = "debounce"
  /\ dirty # {} => retry \/ loop = "debounce"
  /\ todo # {} => loop = "rebuild"
LEMMA ForgottenMeans == NothingForgotten <=> Follows /\ Woke
  BY DEF NothingForgotten, Follows, Shown, ToCome, Woke

LEMMA WokeKept ==
  ASSUME Woke, [Next]_vars
  PROVE  Woke'
<1>. USE DEF Woke
<1>1. CASE UNCHANGED <<waking, hub, dirty>>
  BY <1>1 DEF hub
<1>2. ASSUME NEW t \in Topic, Mark(t) \/ Wake(t) \/ Rebuild(t)
      PROVE  Woke'
  BY <1>2 DEF Mark, Wake, Rebuild, world, topics
<1>5. CASE Resync
  BY <1>5 DEF Resync, world, topics
<1>3. ASSUME Woken \/ Refresh \/ RestLoop
      PROVE  Woke'
  BY <1>3 DEF Woken, Refresh, RestLoop, world, topics
<1>4. ASSUME NEW t, Release(t), UNCHANGED <<world, marked, wake, retry, loop>>
      PROVE  Woke'
  BY <1>4 DEF Release, world
<1>. QED
  BY <1>1, <1>2, <1>3, <1>4, <1>5
  DEF Next, vars, world, topics, Run, Publish, Cool, Want, Unwant, Write, Deliver, Disconnect, Connect, Reader,
      Closer, Read, ReaderDetach, ReaderRelease, Acquire, Hold, BuildFirst, Attach, AttachAdrift, Close,
      CloseNext, CloseDetach, CloseRelease, Over, Detach

LEMMA FollowsKept ==
  ASSUME ConnsOK, HubOK, RefsExact, Absent, Building, Follows, Woke, [Next]_vars
  PROVE  Follows'
<1>. USE DEF Follows, Shown, ToCome, HubOK
<1>1. CASE UNCHANGED <<db, owed, marked, dirty, todo, val, mu, built>>
  BY <1>1
<1>2. ASSUME NEW t \in Topic, NEW v \in Show, Write(t, v)
      PROVE  Follows'
  BY <1>2 DEF Write, hub, topics
<1>3. ASSUME NEW t \in Topic, Mark(t)
      PROVE  Follows'
  BY <1>3 DEF Mark, topics
<1>11. CASE Resync
  BY <1>11 DEF Resync, topics, world
<1>4. ASSUME Refresh
      PROVE  Follows'
  <2>1. \A t \in Topic : Shown(t)' = Shown(t) /\ db'[t] = db[t] /\ owed' = owed
    BY <1>4 DEF Refresh, world
  <2>2. todo = {}
    BY <1>4 DEF Refresh, Woke
  <2>3. ASSUME NEW t \in Topic, Shown(t) # None, t \in marked \cup dirty
        PROVE  t \in dirty' \cup todo'
    <3>1. refs[t] > 0
      BY <2>3, RefsNat DEF Absent
    <3>. QED  BY <1>4, <2>3, <3>1 DEF Refresh, Exist
  <2>. QED  BY <2>1, <2>2, <2>3
<1>5. ASSUME NEW t \in Topic, Rebuild(t)
      PROVE  Follows'
  BY <1>5, LiveAssumption DEF Rebuild, world, Loop
<1>6. ASSUME NEW t \in Topic, Publish(t)
      PROVE  Follows'
  BY <1>6, LiveAssumption DEF Publish, world, hub, Loop
<1>7. ASSUME NEW c \in Conn, BuildFirst(c)
      PROVE  Follows'
  <2>1. conn[c].ask.t \in Topic /\ c # None
    BY <1>7, LiveAssumption DEF BuildFirst, ConnsOK, ConnOK, Asks
  <2>. QED  BY <1>7, <2>1 DEF BuildFirst, world, hub
<1>8. ASSUME NEW c \in Conn, Attach(c)
      PROVE  Follows'
  <2>1. conn[c].ask.t \in Topic /\ c # None
    BY <1>8, LiveAssumption DEF Attach, ConnsOK, ConnOK, Asks
  <2>2. conn[c].reader = "build" => mu[conn[c].ask.t] = c
    BY DEF Building
  <2>. QED  BY <1>8, <2>1, <2>2 DEF Attach, world, hub
<1>9. ASSUME NEW t \in Topic, Release(t), UNCHANGED <<world, marked>>
      PROVE  Follows'
  BY <1>9 DEF Release, world
<1>10. ASSUME NEW c \in Conn, ReaderRelease(c) \/ CloseRelease(c)
       PROVE  Follows'
  BY <1>9, <1>10 DEF ReaderRelease, CloseRelease, ConnsOK, ConnOK, Asks
<1>. QED
  BY <1>1, <1>2, <1>3, <1>4, <1>5, <1>6, <1>7, <1>8, <1>10, <1>11
  DEF Next, vars, world, topics, hub, Run, Woken, RestLoop, Wake, Cool, Want, Unwant, Deliver, Disconnect,
      Connect, Reader, Closer, Read, ReaderDetach, Acquire, Hold, AttachAdrift, Close, CloseNext, CloseDetach,
      Over, Detach
------------------------------------------------------------------------------
LEMMA LiveAlways == Spec => []LiveInv
<1>1. Init => LiveInv
  <2>. SUFFICES ASSUME Init PROVE LiveInv
    OBVIOUS
  <2>1. ConnsOK
    <3>1. ConnOK(NoConn)
      BY DEF ConnOK, IsConn, Fields, NoConn, ReaderPc
    <3>. QED  BY <3>1 DEF Init, ConnsOK
  <2>2. HubOK
    BY LiveAssumption DEF Init, HubOK, Show
  <2>3. RefsExact
    <3>1. \A t \in Topic : Holding(t) = {} /\ Closing(t) = {} /\ Reading(t) = {}
      BY DEF Init, NoConn, Holding, Closing, Reading
    <3>2. \A t \in Topic : refs[t] = 0 /\ leaked[t] = 0
      BY DEF Init
    <3>. QED  BY <3>1, <3>2, FS_EmptySet, ExactMeans DEF Exact
  <2>4. Absent /\ Building /\ NothingForgotten
    BY DEF Init, Absent, Building, NothingForgotten, NoConn
  <2>. QED  BY <2>1, <2>2, <2>3, <2>4 DEF LiveInv
<1>2. LiveInv /\ [Next]_vars => LiveInv'
  BY ConnsKept, HubKept, RefsKept, AbsentKept, BuildingKept, WokeKept, FollowsKept, ForgottenMeans
  DEF LiveInv, NothingForgotten, Follows, Woke, Shown, ToCome
<1>. QED  BY <1>1, <1>2, PTL DEF Spec

\* A topic is referred to by each subscription that is there, being made or being
\* dropped, once, for any number of pages that come and go, each with two
\* goroutines that drop subscriptions (acquire, release, closeAll, unsubscribe).
THEOREM ReferencesExact == Spec => []RefsExact
  BY LiveAlways, PTL DEF LiveInv

\* A change of what a topic shows is never forgotten, whatever falls between a
\* write, its notification, the wake-up, a refresh and a rebuild, and however
\* topics come and go meanwhile (Invalidate, Run, refresh, rebuild, acquire).
THEOREM NoChangeForgotten == Spec => []NothingForgotten
  BY LiveAlways, PTL DEF LiveInv
------------------------------------------------------------------------------
(* What a page is sent.                                                        *)

\* A page's entry for a topic.
Entries == [here : BOOLEAN, awaiting : BOOLEAN, data : Show \cup {None}]

Messages ==
  [t : Topic, kind : {"value"}, is : Show]
    \cup [t : Topic, kind : {"patch"}, is : {Ops(a, b) : a \in Value, b \in Value}]

\* What a connection's queue holds, and what its goroutines do before it closes.
Serves(x) ==
  /\ x.st \in {"free", "open", "closing"} /\ x.done \in BOOLEAN
  /\ x.out \in Seq(Messages) /\ Len(x.out) <= Buffer
  /\ x.st = "free" => x = NoConn
  /\ x.st = "open" => /\ x.closer = "none" /\ x.closing = {}
                      /\ x.reader \in {"attach", "build"} => x.ask.t \in x.holds

ServesOK == \A c \in Conn : Serves(conn[c])

\* The page's connection is one the server serves, or winds up.
LinkOK == link # None => link \in Conn /\ conn[link].st # "free"

\* Whoever holds a topic's mu has read it for a build; a topic shows something before
\* it has subscribers, nothing while it is built for its first, and has none when
\* nobody refers to it.
BuildsOK ==
  /\ \A t \in Topic : mu[t] # None => built[t] # None
  /\ \A t \in Topic : subs[t] # {} => val[t] # None
  /\ \A c \in Conn : conn[c].reader = "build" => val[conn[c].ask.t] = None
  /\ \A t \in Topic : refs[t] = 0 => t \notin hot /\ subs[t] = {}

FlagsOK ==
  /\ owed \subseteq Topic /\ waking \subseteq Topic /\ marked \subseteq Topic
  /\ wake \in BOOLEAN /\ retry \in BOOLEAN /\ loop \in {"idle", "debounce", "rebuild"}
  /\ hot \subseteq Throttled /\ left \in 0 .. MaxUpsets

LEMMA FlagsKept ==
  ASSUME FlagsOK, HubOK, ConnsOK, [Next]_vars
  PROVE  FlagsOK'
<1>. USE DEF FlagsOK
<1>0. MaxUpsets \in Nat
  BY LiveAssumption
<1>1. CASE UNCHANGED <<owed, waking, marked, wake, retry, loop, hot, left>>
  BY <1>1
<1>2. ASSUME NEW t \in Topic, Mark(t) \/ Wake(t) \/ Cool(t) \/ Unwant(t) \/ Rebuild(t) \/ Publish(t)
      PROVE  FlagsOK'
  BY <1>2 DEF Mark, Wake, Cool, Unwant, Rebuild, Publish, topics, hub, world
<1>7. ASSUME NEW t \in Topic, Want(t)
      PROVE  FlagsOK'
  BY <1>0, <1>7 DEF Want, topics, hub, world
<1>3. ASSUME NEW t \in Topic, NEW v \in Show, Write(t, v)
      PROVE  FlagsOK'
  BY <1>0, <1>3 DEF Write, topics, hub
<1>4. CASE Woken \/ RestLoop \/ Deliver
  BY <1>4 DEF Woken, RestLoop, Deliver, topics, hub, world
<1>8. CASE Resync
  BY <1>0, <1>8 DEF Resync, topics, world
<1>9. CASE Disconnect
  BY <1>0, <1>9 DEF Disconnect, topics, hub, world
<1>5. CASE Refresh
  BY <1>5, LiveAssumption DEF Refresh, world, HubOK
<1>6. ASSUME NEW t, Release(t), UNCHANGED <<world, marked, wake, retry, loop, left>>
      PROVE  FlagsOK'
  BY <1>6 DEF Release, world
<1>. QED
  BY <1>1, <1>2, <1>3, <1>4, <1>5, <1>6, <1>7, <1>8, <1>9
  DEF Next, vars, world, topics, hub, Run, Connect, Reader, Closer, Read, ReaderDetach, ReaderRelease, Acquire,
      Hold, BuildFirst, Attach, AttachAdrift, Close, CloseNext, CloseDetach, CloseRelease, Over, Detach
------------------------------------------------------------------------------
\* What send does to a connection.
LEMMA Sends ==
  ASSUME NEW c \in Conn, ConnOK(conn[c]), Serves(conn[c]), NEW m \in Messages, NEW y \in {Send(c, m)}
  PROVE  /\ ConnOK(y) /\ Serves(y)
         /\ y.st = conn[c].st /\ y.holds = conn[c].holds /\ y.up = conn[c].up /\ y.reader = conn[c].reader
         /\ y.ask = conn[c].ask /\ y.closer = conn[c].closer /\ y.closing = conn[c].closing /\ y.at = conn[c].at
         /\ \/ y = conn[c] /\ (conn[c].done \/ conn[c].st # "open")
            \/ ~conn[c].done /\ conn[c].st = "open" /\ ~y.done /\ y.out = Append(conn[c].out, m)
            \/ y.done /\ y.out = conn[c].out
<1>. USE DEF ConnOK, IsConn, Fields
<1>1. CASE conn[c].done \/ conn[c].st # "open"
  BY <1>1 DEF Send
<1>2. CASE ~(conn[c].done \/ conn[c].st # "open") /\ Len(conn[c].out) < Buffer
  <2>1. y = [conn[c] EXCEPT !.out = Append(conn[c].out, m)]
    BY <1>2 DEF Send
  <2>2. Append(conn[c].out, m) \in Seq(Messages) /\ Len(Append(conn[c].out, m)) = Len(conn[c].out) + 1
        /\ Len(conn[c].out) \in Nat
    BY DEF Serves
  <2>3. Len(conn[c].out) + 1 <= Buffer
    BY <1>2, <2>2, LiveAssumption
  <2>. QED  BY <1>2, <2>1, <2>2, <2>3 DEF Serves
<1>3. CASE ~(conn[c].done \/ conn[c].st # "open") /\ ~(Len(conn[c].out) < Buffer)
  <2>1. y = [conn[c] EXCEPT !.done = TRUE]
    BY <1>3 DEF Send
  <2>. QED  BY <1>3, <2>1 DEF Serves
<1>. QED  BY <1>1, <1>2, <1>3

\* What a rebuild sends.
LEMMA NewsIs ==
  ASSUME HubOK, NEW t \in Topic, built[t] # None
  PROVE  /\ News(t) \in Messages
         /\ \/ News(t).kind = "value" /\ News(t).is = built[t]
            \/ /\ val[t] \in Value /\ built[t] \in Value
               /\ News(t).kind = "patch" /\ News(t).is = Ops(val[t], built[t])
         /\ News(t).t = t
<1>1. built[t] \in Show /\ val[t] \in Show \cup {None}
  BY DEF HubOK
<1>2. CASE built[t] = Gone \/ val[t] \in {None, Gone}
  BY <1>1, <1>2 DEF News, Snapshot, Messages
<1>3. CASE ~(built[t] = Gone \/ val[t] \in {None, Gone})
  <2>1. val[t] \in Value /\ built[t] \in Value
    BY <1>1, <1>3 DEF Show
  <2>2. News(t) = Patch(t, Ops(val[t], built[t]))
    BY <1>3 DEF News
  <2>. QED  BY <2>1, <2>2 DEF Patch, Messages
<1>. QED  BY <1>2, <1>3
------------------------------------------------------------------------------
LEMMA OneServes ==
  ASSUME ConnsOK, ServesOK, NEW c \in Conn, \A d \in Conn : d # c => conn'[d] = conn[d],
         Serves(conn'[c])
  PROVE  ServesOK'
  BY DEF ServesOK

LEMMA ServesKept ==
  ASSUME ConnsOK, ServesOK, HubOK, BuildsOK, Building, LinkOK, [Next]_vars
  PROVE  ServesOK'
<1>. USE DEF ConnsOK, ConnOK, IsConn, Fields
<1>1. CASE UNCHANGED conn
  BY <1>1 DEF ServesOK
<1>2. ASSUME NEW t \in Topic, Publish(t)
      PROVE  ServesOK'
  <2>1. built[t] # None
    BY <1>2, LiveAssumption DEF Publish, BuildsOK, Loop
  <2>2. \A d \in Conn : \A y \in {Send(d, News(t))} : Serves(y)
    BY <2>1, NewsIs, Sends DEF ServesOK
  <2>. QED  BY <1>2, <2>2 DEF Publish, ServesOK
<1>3. ASSUME NEW c \in Conn, Read(c)
      PROVE  ServesOK'
  <2>1. /\ conn'[c].st = conn[c].st /\ conn'[c].done = conn[c].done /\ conn'[c].out = conn[c].out
        /\ conn'[c].closer = conn[c].closer /\ conn'[c].closing = conn[c].closing
        /\ conn'[c].reader \in {"detach", "acquire", "read"} /\ conn[c].st # "free"
        /\ \A d \in Conn : d # c => conn'[d] = conn[d]
    <3>1. PICK rest, pc : /\ conn' = [conn EXCEPT ![c] = [NotHolding(c, Head(conn[c].up).t)
                            EXCEPT !.up = rest, !.ask = Head(conn[c].up), !.reader = pc]]
                      /\ pc \in {"detach", "acquire", "read"} /\ conn[c].st # "free"
      BY <1>3 DEF Read
    <3>. QED  BY <3>1 DEF NotHolding
  <2>2. Serves(conn'[c])
    BY <2>1 DEF ServesOK, Serves
  <2>. QED  BY <2>1, <2>2, OneServes
<1>4. ASSUME NEW c \in Conn, ReaderDetach(c) \/ ReaderRelease(c) \/ Acquire(c) \/ AttachAdrift(c)
      PROVE  ServesOK'
  <2>1. /\ conn'[c].st = conn[c].st /\ conn'[c].done = conn[c].done /\ conn'[c].out = conn[c].out
        /\ conn'[c].closer = conn[c].closer /\ conn'[c].closing = conn[c].closing
        /\ conn'[c].reader \in {"release", "acquire", "read", "hold"} /\ conn[c].reader # "read"
        /\ \A d \in Conn : d # c => conn'[d] = conn[d]
    BY <1>4 DEF ReaderDetach, ReaderRelease, Acquire, AttachAdrift
  <2>2. Serves(conn'[c])
    BY <2>1 DEF ServesOK, Serves, NoConn
  <2>. QED  BY <2>1, <2>2, OneServes
<1>5. ASSUME NEW c \in Conn, Hold(c) \/ BuildFirst(c)
      PROVE  ServesOK'
  <2>1. /\ conn'[c].st = conn[c].st /\ conn'[c].done = conn[c].done /\ conn'[c].out = conn[c].out
        /\ conn'[c].closer = conn[c].closer /\ conn'[c].closing = conn[c].closing
        /\ conn'[c].ask = conn[c].ask /\ conn[c].reader # "read"
        /\ \/ conn[c].reader = "attach" /\ conn'[c].holds = conn[c].holds
           \/ conn'[c].holds = conn[c].holds \cup {conn[c].ask.t}
        /\ \A d \in Conn : d # c => conn'[d] = conn[d]
    BY <1>5 DEF Hold, BuildFirst
  <2>2. Serves(conn'[c])
    BY <2>1 DEF ServesOK, Serves, NoConn
  <2>. QED  BY <2>1, <2>2, OneServes
<1>6. ASSUME NEW c \in Conn, Attach(c)
      PROVE  ServesOK'
  <2>. DEFINE t == conn[c].ask.t
              v == IF conn[c].reader = "build" THEN built[t] ELSE val[t]
              m == Snapshot(t, v)
  <2>1. t \in Topic /\ v \in Show
    <3>1. t \in Topic
      BY <1>6 DEF Attach, Asks
    <3>2. v # None
      <4>1. CASE conn[c].reader = "build"
        <5>1. mu[t] # None
          BY <4>1, LiveAssumption DEF Building
        <5>. QED  BY <3>1, <4>1, <5>1 DEF BuildsOK
      <4>2. CASE conn[c].reader # "build"
        BY <1>6, <4>2 DEF Attach
      <4>. QED  BY <4>1, <4>2
    <3>. QED  BY <3>1, <3>2 DEF HubOK
  <2>2. m \in Messages
    BY <2>1 DEF Snapshot, Messages
  <2>3. PICK y \in {Send(c, m)} : conn' = [conn EXCEPT ![c] = [y EXCEPT !.reader = "read", !.ask = None]]
    BY <1>6 DEF Attach
  <2>. HIDE DEF m
  <2>6. ConnOK(conn[c]) /\ Serves(conn[c]) /\ conn[c].reader # "read"
    BY <1>6 DEF ServesOK, Attach
  <2>4. IsConn(y) /\ Serves(y) /\ y.st = conn[c].st
    BY <2>2, <2>6, Sends
  <2>5. Serves(conn'[c]) /\ \A d \in Conn : d # c => conn'[d] = conn[d]
    BY <2>3, <2>4, <2>6 DEF Serves, NoConn
  <2>. QED  BY <2>5, OneServes
<1>7. ASSUME NEW c \in Conn, Close(c)
      PROVE  ServesOK'
  <2>1. Serves(conn'[c]) /\ \A d \in Conn : d # c => conn'[d] = conn[d]
    BY <1>7, LiveAssumption DEF Close, Serves, ServesOK
  <2>. QED  BY <2>1, OneServes
<1>8. ASSUME NEW c \in Conn, CloseDetach(c) \/ CloseRelease(c) \/ \E t \in Topic : CloseNext(c, t)
      PROVE  ServesOK'
  <2>1. /\ conn'[c].st = conn[c].st /\ conn'[c].done = conn[c].done /\ conn'[c].out = conn[c].out
        /\ (conn[c].closer # "none" \/ conn[c].closing # {})
        /\ \A d \in Conn : d # c => conn'[d] = conn[d]
    <3>1. CASE CloseDetach(c) \/ CloseRelease(c)
      BY <3>1 DEF CloseDetach, CloseRelease
    <3>2. CASE \E t \in Topic : CloseNext(c, t)
      BY <3>2 DEF CloseNext, NotHolding
    <3>. QED  BY <1>8, <3>1, <3>2
  <2>2. Serves(conn'[c])
    BY <2>1 DEF ServesOK, Serves, NoConn
  <2>. QED  BY <2>1, <2>2, OneServes
<1>9. ASSUME NEW c \in Conn, Over(c)
      PROVE  ServesOK'
  <2>1. conn'[c] = NoConn /\ \A d \in Conn : d # c => conn'[d] = conn[d]
    BY <1>9 DEF Over
  <2>2. Serves(NoConn)
    BY LiveAssumption DEF Serves, NoConn
  <2>. QED  BY <2>1, <2>2, OneServes
<1>10. ASSUME NEW t \in Topic, Want(t) \/ Unwant(t), conn' # conn
       PROVE  ServesOK'
  <2>1. link \in Conn /\ conn[link].st # "free" /\ \E up : conn' = [conn EXCEPT ![link].up = up]
    BY <1>10 DEF Want, Unwant, Tell, LinkOK
  <2>2. Serves(conn'[link]) /\ \A d \in Conn : d # link => conn'[d] = conn[d]
    BY <2>1 DEF Serves, ServesOK
  <2>. QED  BY <2>1, <2>2, OneServes
<1>11. ASSUME NEW c \in Conn, Connect(c)
       PROVE  ServesOK'
  <2>1. PICK up : conn[c] = NoConn /\ conn' = [conn EXCEPT ![c].st = "open", ![c].up = up]
    BY <1>11 DEF Connect, Serves, ServesOK
  <2>2. Serves(conn'[c]) /\ \A d \in Conn : d # c => conn'[d] = conn[d]
    BY <2>1, LiveAssumption DEF Serves, ServesOK, NoConn
  <2>. QED  BY <2>2, OneServes
<1>12. ASSUME Deliver
       PROVE  ServesOK'
  <2>1. /\ link \in Conn /\ conn[link].st = "open" /\ conn[link].out # <<>>
        /\ conn' = [conn EXCEPT ![link].out = Tail(conn[link].out)]
    BY <1>12 DEF Deliver, LinkOK
  <2>2. Tail(conn[link].out) \in Seq(Messages) /\ Len(Tail(conn[link].out)) <= Buffer
    BY <2>1, LiveAssumption DEF Serves, ServesOK
  <2>3. Serves(conn'[link]) /\ \A d \in Conn : d # link => conn'[d] = conn[d]
    BY <2>1, <2>2 DEF Serves, ServesOK
  <2>. QED  BY <2>1, <2>3, OneServes
<1>. QED
  BY <1>1, <1>2, <1>3, <1>4, <1>5, <1>6, <1>7, <1>8, <1>9, <1>10, <1>11, <1>12
  DEF Next, vars, Run, Reader, Closer, Woken, Refresh, RestLoop, Resync, Rebuild, Mark, Wake, Cool, Write,
      Disconnect
------------------------------------------------------------------------------
LEMMA LinkKept ==
  ASSUME ConnsOK, ServesOK, LinkOK, [Next]_vars
  PROVE  LinkOK'
<1>. USE DEF LinkOK
<1>1. SUFFICES ASSUME link' # None
               PROVE  link' \in Conn /\ conn'[link'].st # "free"
  OBVIOUS
<1>2. CASE UNCHANGED <<link, conn>>
  BY <1>1, <1>2
<1>3. ASSUME NEW c \in Conn, Connect(c)
      PROVE  conn'[c].st # "free" /\ link' = c
  BY <1>3 DEF Connect, ConnsOK, ConnOK, IsConn, Fields
<1>4. ASSUME NEW c \in Conn, Over(c)
      PROVE  link' = link /\ conn'[link] = conn[link]
  BY <1>4 DEF Over, ConnsOK
<1>5. CASE link' = link /\ \A c \in Conn : conn[c].st # "free" => conn'[c].st # "free"
  BY <1>1, <1>5
<1>6. ASSUME NEW t \in Topic, Publish(t)
      PROVE  \A c \in Conn : conn[c].st # "free" => conn'[c].st # "free"
  <2>1. \A d \in Conn : \A m : Send(d, m).st = conn[d].st
    BY DEF Send, ConnsOK, ConnOK, IsConn, Fields
  <2>. QED  BY <1>6, <2>1 DEF Publish, ConnsOK
<1>7. ASSUME NEW c \in Conn, Attach(c)
      PROVE  \A d \in Conn : conn[d].st # "free" => conn'[d].st # "free"
  <2>1. PICK m : conn' = [conn EXCEPT ![c] = [Send(c, m) EXCEPT !.reader = "read", !.ask = None]]
    BY <1>7 DEF Attach
  <2>2. Send(c, m).st = conn[c].st /\ IsConn(Send(c, m))
    BY DEF Send, ConnsOK, ConnOK, IsConn, Fields
  <2>. QED  BY <2>1, <2>2 DEF ConnsOK, IsConn, Fields
<1>8. ASSUME NEW c \in Conn, \/ Read(c) \/ ReaderDetach(c) \/ ReaderRelease(c) \/ Acquire(c) \/ Hold(c)
                             \/ BuildFirst(c) \/ AttachAdrift(c)
      PROVE  \A d \in Conn : conn[d].st # "free" => conn'[d].st # "free"
  <2>0. DOMAIN conn = Conn /\ DOMAIN conn[c] = Fields
    BY DEF ConnsOK, ConnOK, IsConn
  <2>1. CASE Read(c)
    <3>1. PICK rest, ask, pc, t : conn' = [conn EXCEPT ![c] = [NotHolding(c, t)
                                    EXCEPT !.up = rest, !.ask = ask, !.reader = pc]]
      BY <2>1 DEF Read
    <3>. QED  BY <2>0, <3>1 DEF NotHolding, Fields
  <2>2. CASE ReaderDetach(c) \/ ReaderRelease(c) \/ Acquire(c) \/ BuildFirst(c)
    <3>1. PICK pc : conn' = [conn EXCEPT ![c].reader = pc]
      BY <2>2 DEF ReaderDetach, ReaderRelease, Acquire, BuildFirst
    <3>. QED  BY <2>0, <3>1 DEF Fields
  <2>3. CASE Hold(c) \/ AttachAdrift(c)
    BY <2>0, <2>3 DEF Hold, AttachAdrift, Fields
  <2>. QED  BY <1>8, <2>1, <2>2, <2>3
<1>9. ASSUME NEW c \in Conn, Close(c) \/ CloseDetach(c) \/ CloseRelease(c) \/ \E t \in Topic : CloseNext(c, t)
      PROVE  \A d \in Conn : conn[d].st # "free" => conn'[d].st # "free"
  <2>0. DOMAIN conn = Conn /\ DOMAIN conn[c] = Fields
    BY DEF ConnsOK, ConnOK, IsConn
  <2>1. CASE Close(c) \/ CloseDetach(c) \/ CloseRelease(c)
    BY <2>0, <2>1 DEF Close, CloseDetach, CloseRelease, Fields
  <2>2. CASE \E t \in Topic : CloseNext(c, t)
    <3>1. PICK closing, closer, at, t : conn' = [conn EXCEPT ![c] = [NotHolding(c, t)
                                    EXCEPT !.closing = closing, !.closer = closer, !.at = at]]
      <4>1. PICK t \in Topic : CloseNext(c, t)
        BY <2>2
      <4>. QED  BY <4>1 DEF CloseNext
    <3>. QED  BY <2>0, <3>1 DEF NotHolding, Fields
  <2>. QED  BY <1>9, <2>1, <2>2
<1>10. ASSUME NEW t \in Topic, Want(t) \/ Unwant(t)
       PROVE  \A c \in Conn : conn[c].st # "free" => conn'[c].st # "free"
  BY <1>10 DEF Want, Unwant, Tell, ConnsOK, ConnOK, IsConn, Fields
<1>11. ASSUME Deliver
       PROVE  \A c \in Conn : conn[c].st # "free" => conn'[c].st # "free"
  BY <1>11 DEF Deliver, ConnsOK, ConnOK, IsConn, Fields
<1>12. CASE Disconnect
  BY <1>1, <1>12 DEF Disconnect
<1>13. UNCHANGED <<link, conn>> \/ UNCHANGED link \/ Disconnect \/ \E c \in Conn : Connect(c)
  BY DEF Next, vars, world, topics, hub, Run, Woken, Refresh, RestLoop, Resync, Rebuild, Publish, Mark, Wake,
      Cool, Want, Unwant, Write, Deliver, Reader, Closer, Read, ReaderDetach, ReaderRelease, Acquire, Hold,
      BuildFirst, Attach, AttachAdrift, Close, CloseNext, CloseDetach, CloseRelease, Over
<1>. QED
  BY <1>1, <1>2, <1>3, <1>4, <1>5, <1>6, <1>7, <1>8, <1>9, <1>10, <1>11, <1>12, <1>13
  DEF Next, vars, world, topics, hub, Run, Woken, Refresh, RestLoop, Resync, Rebuild, Mark, Wake,
      Cool, Write, Reader, Closer

LEMMA BuildsKept ==
  ASSUME ConnsOK, HubOK, RefsExact, Absent, Building, BuildsOK, [Next]_vars
  PROVE  BuildsOK'
<1>. USE DEF BuildsOK, HubOK
<1>0. \A d \in Conn : conn[d].reader = "build" => conn[d].ask.t \in Topic
  BY DEF ConnsOK, ConnOK, Asks
<1>1. ASSUME UNCHANGED <<refs, hot, val, mu, built, subs>>,
             \A c \in Conn : conn'[c].reader = "build" => conn[c].reader = "build" /\ conn'[c].ask = conn[c].ask
      PROVE  BuildsOK'
  BY <1>1
<1>2. ASSUME Refresh
      PROVE  BuildsOK'
  <2>1. \A t \in Topic : refs[t] = 0 => t \notin hot'
    BY <1>2 DEF Refresh, Exist, Absent
  <2>. QED  BY <1>2, <2>1 DEF Refresh
<1>3. ASSUME NEW t \in Topic, Cool(t)
      PROVE  BuildsOK'
  BY <1>3 DEF Cool
<1>4. ASSUME NEW t \in Topic, Rebuild(t)
      PROVE  BuildsOK'
  <2>1. built'[t] # None
    BY <1>4, LiveAssumption DEF Rebuild, Show
  <2>. QED  BY <1>4, <2>1 DEF Rebuild
<1>5. ASSUME NEW t \in Topic, Publish(t)
      PROVE  BuildsOK'
  <2>1. built[t] # None /\ val' = [val EXCEPT ![t] = built[t]] /\ mu[t] = Loop
    BY <1>5, LiveAssumption DEF Publish
  <2>2. \A c \in Conn : Quiet(conn[c], conn'[c])
    BY <1>5, QuietSteps DEF Run
  <2>3. \A c \in Conn : conn[c].reader = "build" => conn[c].ask.t # t
    BY <2>1, LiveAssumption DEF Building
  <2>4. \A c \in Conn : conn'[c].reader = "build" => val'[conn'[c].ask.t] = None
    BY <2>1, <2>2, <2>3, <1>0 DEF Quiet
  <2>. QED  BY <1>5, <2>1, <2>4 DEF Publish
<1>6. ASSUME NEW c \in Conn, Acquire(c)
      PROVE  BuildsOK'
  <2>1. conn[c].ask.t \in Topic /\ \A t \in Topic : refs[t] \in Nat
    BY <1>6, AtLeast DEF Acquire, ConnsOK, ConnOK, Asks
  <2>2. \A d \in Conn : conn'[d].reader = "build" => conn[d].reader = "build" /\ conn'[d].ask = conn[d].ask
    BY <1>6 DEF Acquire, ConnsOK, ConnOK, IsConn, Fields
  <2>. QED  BY <1>6, <2>1, <2>2 DEF Acquire
<1>7. ASSUME NEW c \in Conn, BuildFirst(c)
      PROVE  BuildsOK'
  <2>1. conn[c].ask.t \in Topic /\ val[conn[c].ask.t] = None /\ db[conn[c].ask.t] # None
    BY <1>7, LiveAssumption DEF BuildFirst, ConnsOK, ConnOK, Asks, Show
  <2>2. \A d \in Conn : conn'[d].ask = conn[d].ask /\ (conn'[d].reader = "build" => d = c \/ conn[d].reader = "build")
    BY <1>7 DEF BuildFirst, ConnsOK, ConnOK, IsConn, Fields
  <2>. QED  BY <1>7, <2>1, <2>2 DEF BuildFirst
<1>8. ASSUME NEW c \in Conn, Attach(c)
      PROVE  BuildsOK'
  <2>. DEFINE t == conn[c].ask.t
              v == IF conn[c].reader = "build" THEN built[t] ELSE val[t]
  <2>1. t \in Topic /\ refs[t] # 0
    BY <1>8, ReleaseThere DEF Attach, Building, Absent, ConnsOK, ConnOK, Asks
  <2>2. v # None
    <3>1. conn[c].reader = "build" => mu[t] # None
      BY LiveAssumption DEF Building
    <3>. QED  BY <1>8, <2>1, <3>1 DEF Attach
  <2>3. mu[t] \in {c, None}
    BY <1>8 DEF Attach, Building
  <2>4. PICK m : conn' = [conn EXCEPT ![c] = [Send(c, m) EXCEPT !.reader = "read", !.ask = None]]
    BY <1>8 DEF Attach
  <2>5. ConnOK(Send(c, m))
    BY SendKeeps DEF ConnsOK
  <2>6. conn'[c].reader # "build" /\ \A d \in Conn \ {c} : conn'[d] = conn[d]
    BY <2>4, <2>5 DEF ConnsOK, ConnOK, IsConn, Fields
  <2>7. \A d \in Conn \ {c} : conn[d].reader = "build" => conn[d].ask.t # t
    BY <2>3, LiveAssumption DEF Building
  <2>8. val' = [val EXCEPT ![t] = v]
    BY <1>8 DEF Attach
  <2>. HIDE DEF v
  <2>9. \A d \in Conn : conn'[d].reader = "build" => val'[conn'[d].ask.t] = None
    BY <1>0, <2>1, <2>6, <2>7, <2>8
  <2>10. \A u \in Topic : subs'[u] # {} => val'[u] # None
    BY <1>8, <2>1, <2>2, <2>8 DEF Attach
  <2>11. \A u \in Topic : mu'[u] # None => built'[u] # None
    BY <1>8, <2>1 DEF Attach
  <2>12. \A u \in Topic : refs'[u] = 0 => u \notin hot' /\ subs'[u] = {}
    BY <1>8, <2>1 DEF Attach
  <2>. QED  BY <2>9, <2>10, <2>11, <2>12
<1>9. ASSUME NEW c \in Conn, ReaderRelease(c) \/ CloseRelease(c)
      PROVE  BuildsOK'
  <2>1. PICK t \in Topic :
          /\ Release(t)
          /\ \/ conn[c].reader = "release" /\ conn[c].ask.t = t
             \/ conn[c].closer = "release" /\ conn[c].at = t
    BY <1>9 DEF ReaderRelease, CloseRelease, ConnsOK, ConnOK, Asks
  <2>2. refs[t] \in Nat \ {0}
    BY <2>1, ReleaseThere
  <2>3. \A d \in Conn : conn'[d].reader = "build" => conn[d].reader = "build" /\ conn'[d].ask = conn[d].ask
    <3>1. CASE ReaderRelease(c)
      <4>. DEFINE pc == IF conn[c].ask.kind = "sub" THEN "acquire" ELSE "read"
      <4>1. conn' = [conn EXCEPT ![c].reader = pc] /\ pc # "build"
        BY <3>1 DEF ReaderRelease
      <4>. HIDE DEF pc
      <4>. QED  BY <4>1 DEF ConnsOK, ConnOK, IsConn, Fields
    <3>2. CASE CloseRelease(c)
      <4>1. conn' = [conn EXCEPT ![c].closer = "none", ![c].at = None]
        BY <3>2 DEF CloseRelease
      <4>. QED  BY <4>1 DEF ConnsOK, ConnOK, IsConn, Fields
    <3>. QED  BY <1>9, <3>1, <3>2
  <2>4. \A u \in Topic : val'[u] = None \/ val'[u] = val[u]
    BY <2>1 DEF Release
  <2>5. \A u \in Topic : /\ mu'[u] # None => built'[u] # None
                         /\ subs'[u] # {} => val'[u] # None
    BY <2>1, <2>2 DEF Release
  <2>6. \A u \in Topic : refs'[u] = 0 => u \notin hot' /\ subs'[u] = {}
    BY <2>1, <2>2 DEF Release
  <2>. QED  BY <1>0, <2>3, <2>4, <2>5, <2>6
<1>10. ASSUME UNCHANGED <<refs, hot, val, mu, built>>, \A t \in Topic : subs'[t] \subseteq subs[t],
              \A c \in Conn : conn'[c].reader = "build" => conn[c].reader = "build" /\ conn'[c].ask = conn[c].ask
       PROVE  BuildsOK'
  BY <1>10
<1>11. ASSUME NEW c \in Conn, ReaderDetach(c) \/ CloseDetach(c) \/ Over(c)
       PROVE  BuildsOK'
  <2>1. UNCHANGED <<refs, hot, val, mu, built>> /\ \A t \in Topic : subs'[t] \subseteq subs[t]
    BY <1>11 DEF ReaderDetach, CloseDetach, Over, Detach
  <2>2. \A d \in Conn : conn'[d].reader = "build" => conn[d].reader = "build" /\ conn'[d].ask = conn[d].ask
    BY <1>11 DEF ReaderDetach, CloseDetach, Over, NoConn, ConnsOK, ConnOK, IsConn, Fields
  <2>. QED  BY <1>10, <2>1, <2>2
<1>12. ASSUME NEW c \in Conn, Read(c) \/ Hold(c) \/ AttachAdrift(c) \/ \E t \in Topic : CloseNext(c, t)
       PROVE  BuildsOK'
  <2>1. UNCHANGED <<refs, hot, val, mu, built, subs>>
    BY <1>12 DEF Read, Hold, AttachAdrift, CloseNext, topics
  <2>2. CASE Read(c)
    <3>1. PICK rest, pc : /\ conn' = [conn EXCEPT ![c] = [NotHolding(c, Head(conn[c].up).t)
                            EXCEPT !.up = rest, !.ask = Head(conn[c].up), !.reader = pc]]
                      /\ pc \in {"detach", "acquire", "read"}
      BY <2>2 DEF Read
    <3>2. \A d \in Conn : conn'[d].reader = "build" => conn[d].reader = "build" /\ conn'[d].ask = conn[d].ask
      BY <3>1 DEF NotHolding, ConnsOK, ConnOK, IsConn, Fields
    <3>. QED  BY <1>1, <2>1, <3>2
  <2>3. CASE Hold(c) \/ AttachAdrift(c) \/ \E t \in Topic : CloseNext(c, t)
    <3>1. \A d \in Conn : conn'[d].reader = "build" => conn[d].reader = "build" /\ conn'[d].ask = conn[d].ask
      <4>0. DOMAIN conn = Conn /\ DOMAIN conn[c] = Fields
        BY DEF ConnsOK, ConnOK, IsConn
      <4>1. CASE Hold(c) \/ AttachAdrift(c)
        BY <4>0, <4>1 DEF Hold, AttachAdrift, Fields
      <4>2. CASE \E t \in Topic : CloseNext(c, t)
        <5>1. PICK closing, closer, at, t : conn' = [conn EXCEPT ![c] = [NotHolding(c, t)
                                        EXCEPT !.closing = closing, !.closer = closer, !.at = at]]
          <6>1. PICK t \in Topic : CloseNext(c, t)
            BY <4>2
          <6>. QED  BY <6>1 DEF CloseNext
        <5>. QED  BY <4>0, <5>1 DEF NotHolding, Fields
      <4>. QED  BY <2>3, <4>1, <4>2
    <3>. QED  BY <1>1, <2>1, <3>1
  <2>. QED  BY <1>12, <2>2, <2>3
<1>13. CASE (\A c \in Conn : Quiet(conn[c], conn'[c])) /\ UNCHANGED <<hot, val, mu, built, subs, refs>>
  BY <1>1, <1>13 DEF Quiet
<1>14. ASSUME NEW c \in Conn, Connect(c) \/ Close(c)
       PROVE  BuildsOK'
  BY <1>13, <1>14, QuietSteps DEF Connect, Close, topics
<1>15. ASSUME NEW t \in Topic, Mark(t) \/ Wake(t) \/ Want(t) \/ Unwant(t) \/ \E v \in Show : Write(t, v)
       PROVE  BuildsOK'
  BY <1>13, <1>15, QuietSteps DEF Mark, Wake, Want, Unwant, Write, topics
<1>16. CASE Woken \/ RestLoop \/ Resync \/ Deliver \/ Disconnect \/ UNCHANGED vars
  BY <1>13, <1>16, QuietSteps DEF Run, Woken, RestLoop, Resync, Deliver, Disconnect, topics, vars
<1>. QED
  BY <1>2, <1>3, <1>4, <1>5, <1>6, <1>7, <1>8, <1>9, <1>11, <1>12, <1>14, <1>15, <1>16
  DEF Next, Run, Reader, Closer
------------------------------------------------------------------------------
\* What a page shows, as messages arrive.

Values == Show \cup {None}

PageOK == page \in [Topic -> Entries]

\* A message that brings a page from a to b.
Makes(m, a, b) ==
  \/ m.kind = "value" /\ b = m.is /\ b \in Show
  \/ m.kind = "patch" /\ a \in Value /\ b \in Value /\ m.is = Ops(a, b)

\* What a page shows of topic t while a queue of messages arrives.
Trail(t, queue, g) ==
  /\ g \in [0 .. Len(queue) -> Values]
  /\ \A i \in 1 .. Len(queue) :
       IF queue[i].t = t THEN Makes(queue[i], g[i - 1], g[i]) ELSE g[i] = g[i - 1]

\* The queue brings an entry, if it has a value, to one of those in ends.
Copied(e, t, queue, ends) ==
  \E g : /\ Trail(t, queue, g) /\ g[Len(queue)] \in ends
         /\ e.here /\ ~e.awaiting => e.data = g[0]

LEMMA Handles ==
  ASSUME NEW e \in Entries, NEW m, NEW a, NEW b, Makes(m, a, b), e.here /\ ~e.awaiting => e.data = a,
         NEW y \in {Handle(e, m)}
  PROVE  /\ y \in Entries /\ y.here = e.here
         /\ y.here /\ ~y.awaiting => y.data = b
         /\ e.here /\ m.kind = "value" => ~y.awaiting
         /\ y.awaiting => e.awaiting
<1>1. CASE ~e.here
  BY <1>1 DEF Handle
<1>2. CASE e.here /\ m.kind = "value"
  <2>1. y = [e EXCEPT !.awaiting = FALSE, !.data = m.is] /\ m.is \in Show /\ b = m.is
    BY <1>2 DEF Handle, Makes
  <2>. QED  BY <1>2, <2>1 DEF Entries
<1>3. CASE e.here /\ m.kind # "value" /\ e.awaiting
  BY <1>3 DEF Handle, Makes
<1>4. CASE e.here /\ m.kind # "value" /\ ~e.awaiting
  <2>1. a \in Value /\ b \in Value /\ m.is = Ops(a, b) /\ e.data = a
    BY <1>4 DEF Makes
  <2>2. a # None /\ a # Gone /\ b \in Show
    BY <2>1, LiveAssumption DEF Show
  <2>3. ApplyOps(a, Ops(a, b)) = b
    BY <2>1, DiffAssumption
  <2>4. y = [e EXCEPT !.data = b]
    BY <1>4, <2>1, <2>2, <2>3 DEF Handle
  <2>. QED  BY <1>4, <2>2, <2>4 DEF Entries
<1>. QED  BY <1>1, <1>2, <1>3, <1>4

LEMMA NothingSent ==
  ASSUME NEW e, NEW t, NEW v \in Values, ~e.here \/ e.awaiting
  PROVE  Copied(e, t, <<>>, {v})
<1>. DEFINE g == [i \in 0 .. 0 |-> v]
<1>1. g \in [0 .. Len(<<>>) -> Values] /\ g[0] = v /\ Len(<<>>) = 0 /\ 1 .. 0 = {}
  OBVIOUS
<1>. HIDE DEF g
<1>2. Trail(t, <<>>, g)
  BY <1>1 DEF Trail
<1>. QED  BY <1>1, <1>2 DEF Copied

LEMMA Appended ==
  ASSUME NEW e, NEW t, NEW M, NEW queue \in Seq(M), NEW m \in M, NEW E, NEW b \in Values,
         Copied(e, t, queue, E),
         \A a \in E \cap Values : IF m.t = t THEN Makes(m, a, b) ELSE b = a
  PROVE  Copied(e, t, Append(queue, m), {b})
<1>. DEFINE n == Len(queue)
            more == Append(queue, m)
<1>1. PICK g : Trail(t, queue, g) /\ g[n] \in E /\ (e.here /\ ~e.awaiting => e.data = g[0])
  BY DEF Copied
<1>. DEFINE h == [i \in 0 .. n + 1 |-> IF i = n + 1 THEN b ELSE g[i]]
<1>2. n \in Nat /\ Len(more) = n + 1 /\ more[n + 1] = m /\ \A i \in 1 .. n : more[i] = queue[i]
  OBVIOUS
<1>3. g \in [0 .. n -> Values] /\ n \in 0 .. n
  BY <1>1, <1>2 DEF Trail
<1>4. h \in [0 .. n + 1 -> Values] /\ h[n + 1] = b /\ \A i \in 0 .. n : h[i] = g[i]
  BY <1>2, <1>3
<1>. HIDE DEF h, more
<1>5. ASSUME NEW i \in 1 .. n + 1
      PROVE  IF more[i].t = t THEN Makes(more[i], h[i - 1], h[i]) ELSE h[i] = h[i - 1]
  <2>1. CASE i = n + 1
    <3>1. h[i - 1] = g[n] /\ h[i] = b /\ more[i] = m
      BY <1>2, <1>3, <1>4, <2>1
    <3>2. g[n] \in E \cap Values
      BY <1>1, <1>3
    <3>. QED  BY <3>1, <3>2
  <2>2. CASE i # n + 1
    <3>1. i \in 1 .. n /\ i - 1 \in 0 .. n /\ i \in 0 .. n
      BY <1>2, <2>2
    <3>. QED  BY <1>1, <1>2, <1>4, <3>1 DEF Trail
  <2>. QED  BY <2>1, <2>2
<1>6. Trail(t, more, h)
  BY <1>2, <1>4, <1>5 DEF Trail
<1>7. h[Len(more)] = b /\ h[0] = g[0]
  BY <1>2, <1>4
<1>8. Copied(e, t, more, {b})
  BY <1>1, <1>6, <1>7 DEF Copied
<1>. QED  BY <1>8 DEF more

\* A message about another topic changes nothing.
LEMMA SentOn ==
  ASSUME NEW e, NEW t, NEW M, NEW queue \in Seq(M), NEW m \in M, NEW E, Copied(e, t, queue, E), m.t # t
  PROVE  Copied(e, t, Append(queue, m), E)
<1>1. PICK g : /\ Trail(t, queue, g) /\ g[Len(queue)] \in E
               /\ e.here /\ ~e.awaiting => e.data = g[0]
  BY DEF Copied
<1>2. PICK v : v = g[Len(queue)]
  OBVIOUS
<1>3. v \in Values /\ v \in E
  <2>1. Len(queue) \in 0 .. Len(queue)
    OBVIOUS
  <2>. QED  BY <1>1, <1>2, <2>1 DEF Trail
<1>4. Copied(e, t, queue, {v})
  BY <1>1, <1>2 DEF Copied
<1>5. Copied(e, t, Append(queue, m), {v})
  BY <1>3, <1>4, Appended
<1>. QED  BY <1>3, <1>5 DEF Copied

LEMMA Taken ==
  ASSUME NEW e \in Entries, NEW t, NEW M, NEW queue \in Seq(M), queue # <<>>, NEW E, Copied(e, t, queue, E),
         NEW y \in {IF Head(queue).t = t THEN Handle(e, Head(queue)) ELSE e}
  PROVE  y \in Entries /\ y.here = e.here /\ Copied(y, t, Tail(queue), E)
<1>. DEFINE n == Len(queue)
            less == Tail(queue)
<1>1. PICK g : Trail(t, queue, g) /\ g[n] \in E /\ (e.here /\ ~e.awaiting => e.data = g[0])
  BY DEF Copied
<1>. DEFINE h == [i \in 0 .. n - 1 |-> g[i + 1]]
<1>2. /\ n \in Nat \ {0} /\ Len(less) = n - 1 /\ \A i \in 1 .. n - 1 : less[i] = queue[i + 1]
      /\ Head(queue) = queue[1] /\ 1 \in 1 .. n
  OBVIOUS
<1>3. g \in [0 .. n -> Values] /\ n \in 0 .. n
  BY <1>1, <1>2 DEF Trail
<1>4. h \in [0 .. n - 1 -> Values] /\ \A i \in 0 .. n - 1 : h[i] = g[i + 1]
  BY <1>2, <1>3
<1>. HIDE DEF h, less
<1>5. ASSUME NEW i \in 1 .. n - 1
      PROVE  IF less[i].t = t THEN Makes(less[i], h[i - 1], h[i]) ELSE h[i] = h[i - 1]
  <2>1. i + 1 \in 1 .. n /\ i - 1 \in 0 .. n - 1 /\ i \in 0 .. n - 1 /\ (i + 1) - 1 = i /\ (i - 1) + 1 = i
    BY <1>2
  <2>2. IF queue[i + 1].t = t THEN Makes(queue[i + 1], g[(i + 1) - 1], g[i + 1]) ELSE g[i + 1] = g[(i + 1) - 1]
    BY <1>1, <2>1 DEF Trail
  <2>3. h[i - 1] = g[i] /\ h[i] = g[i + 1] /\ less[i] = queue[i + 1]
    BY <1>2, <1>4, <2>1
  <2>. QED  BY <2>1, <2>2, <2>3
<1>6. Trail(t, less, h)
  BY <1>2, <1>4, <1>5 DEF Trail
<1>7. h[Len(less)] = g[n] /\ h[0] = g[1]
  BY <1>2, <1>4
<1>8. IF queue[1].t = t THEN Makes(queue[1], g[0], g[1]) ELSE g[1] = g[0]
  BY <1>1, <1>2 DEF Trail
<1>9. y \in Entries /\ y.here = e.here /\ (y.here /\ ~y.awaiting => y.data = g[1])
  <2>1. CASE queue[1].t = t
    BY <1>1, <1>2, <1>8, <2>1, Handles
  <2>2. CASE queue[1].t # t
    BY <1>1, <1>2, <1>8, <2>2
  <2>. QED  BY <2>1, <2>2
<1>10. Copied(y, t, less, E)
  BY <1>1, <1>6, <1>7, <1>9 DEF Copied
<1>. QED  BY <1>9, <1>10 DEF less
------------------------------------------------------------------------------
\* The copy a page has, and what is on its way, make what the topic last showed.

Ends(x, c, t) == IF ~x.done /\ c \in subs[t] THEN {val[t]} ELSE Values

Copies ==
  link # None /\ conn[link].st = "open" =>
    \A t \in Topic : Copied(page[t], t, conn[link].out, Ends(conn[link], link, t))

\* The steps that send nothing, and open and close nothing.
Alike(x, y) == y.st = x.st /\ y.done = x.done /\ y.out = x.out

LEMMA ConnsLeftAlone ==
  ASSUME ConnsOK, Run \/ Resync \/ Disconnect \/ UNCHANGED vars
                  \/ (\E t \in Topic : Mark(t) \/ Wake(t) \/ Cool(t) \/ \E v \in Show : Write(t, v)),
         ~\E t \in Topic : Publish(t)
  PROVE  conn' = conn
  BY DEF vars, Run, Woken, Refresh, RestLoop, Resync, Rebuild, Mark, Wake, Cool, Write, Disconnect

LEMMA AlikeSteps ==
  ASSUME ConnsOK, NEW c \in Conn,
         \/ Read(c) \/ ReaderDetach(c) \/ ReaderRelease(c) \/ Acquire(c) \/ Hold(c)
         \/ BuildFirst(c) \/ AttachAdrift(c) \/ CloseDetach(c) \/ CloseRelease(c) \/ \E t \in Topic : CloseNext(c, t)
  PROVE  \A d \in Conn : Alike(conn[d], conn'[d]) /\ (d # c => conn'[d] = conn[d])
<1>0. DOMAIN conn = Conn /\ DOMAIN conn[c] = Fields
  BY DEF ConnsOK, ConnOK, IsConn
<1>1. CASE Read(c)
  <2>1. PICK rest, ask, pc, t : conn' = [conn EXCEPT ![c] = [NotHolding(c, t)
                                  EXCEPT !.up = rest, !.ask = ask, !.reader = pc]]
    BY <1>1 DEF Read
  <2>. QED  BY <1>0, <2>1 DEF NotHolding, Fields, Alike
<1>2. CASE ReaderDetach(c) \/ ReaderRelease(c) \/ Acquire(c) \/ BuildFirst(c)
  <2>1. PICK pc : conn' = [conn EXCEPT ![c].reader = pc]
    BY <1>2 DEF ReaderDetach, ReaderRelease, Acquire, BuildFirst
  <2>. QED  BY <1>0, <2>1 DEF Fields, Alike
<1>3. CASE Hold(c) \/ AttachAdrift(c)
  BY <1>0, <1>3 DEF Hold, AttachAdrift, Fields, Alike
<1>4. CASE CloseDetach(c) \/ CloseRelease(c)
  BY <1>0, <1>4 DEF CloseDetach, CloseRelease, Fields, Alike
<1>5. CASE \E t \in Topic : CloseNext(c, t)
  <2>1. PICK closing, closer, at, t : conn' = [conn EXCEPT ![c] = [NotHolding(c, t)
                                  EXCEPT !.closing = closing, !.closer = closer, !.at = at]]
    <3>1. PICK t \in Topic : CloseNext(c, t)
      BY <1>5
    <3>. QED  BY <3>1 DEF CloseNext
  <2>. QED  BY <1>0, <2>1 DEF NotHolding, Fields, Alike
<1>. QED  BY <1>1, <1>2, <1>3, <1>4, <1>5

\* Nothing is sent to the page, and it handles nothing.
LEMMA NothingNew ==
  ASSUME Copies, link' = link, UNCHANGED page, link # None => Alike(conn[link], conn'[link]),
         \A t \in Topic : link \in subs'[t] => link \in subs[t] /\ val'[t] = val[t],
         HubOK
  PROVE  Copies'
<1>. SUFFICES ASSUME link # None, conn'[link].st = "open", NEW t \in Topic
             PROVE  Copied(page[t], t, conn[link].out, Ends(conn[link], link, t)')
  BY DEF Copies, Alike
<1>1. PICK g : /\ Trail(t, conn[link].out, g) /\ g[Len(conn[link].out)] \in Ends(conn[link], link, t)
               /\ page[t].here /\ ~page[t].awaiting => page[t].data = g[0]
  BY DEF Copies, Copied, Alike
<1>2. val[t] \in Values
  BY DEF HubOK, Values
<1>3. g[Len(conn[link].out)] \in Ends(conn[link], link, t)'
  BY <1>1, <1>2 DEF Ends, Alike
<1>. QED  BY <1>1, <1>3 DEF Copied

\* A page whose entry for a topic goes, or is awaited, or stays as it was.
LEMMA Forgets ==
  ASSUME Copies, link' = link, UNCHANGED <<val, subs>>, link # None => Alike(conn[link], conn'[link]),
         \A t \in Topic : page'[t].here /\ ~page'[t].awaiting => page'[t] = page[t]
  PROVE  Copies'
<1>. SUFFICES ASSUME link # None, conn'[link].st = "open", NEW t \in Topic
             PROVE  Copied(page'[t], t, conn[link].out, Ends(conn[link], link, t)')
  BY DEF Copies, Alike
<1>1. PICK g : /\ Trail(t, conn[link].out, g) /\ g[Len(conn[link].out)] \in Ends(conn[link], link, t)
               /\ page[t].here /\ ~page[t].awaiting => page[t].data = g[0]
  BY DEF Copies, Copied, Alike
<1>2. g[Len(conn[link].out)] \in Ends(conn[link], link, t)'
  BY <1>1 DEF Ends, Alike
<1>. QED  BY <1>1, <1>2 DEF Copied

\* A rebuild sends what leads from the value it replaces to the new one.
LEMMA PublishCopies ==
  ASSUME ConnsOK, ServesOK, HubOK, BuildsOK, LinkOK, Copies, NEW t \in Topic, Publish(t)
  PROVE  Copies'
<1>1. /\ built[t] # None /\ built[t] \in Show /\ val' = [val EXCEPT ![t] = built[t]]
      /\ UNCHANGED <<subs, link, page>> /\ val \in [Topic -> Values]
  BY LiveAssumption DEF Publish, BuildsOK, HubOK, Values
<1>. SUFFICES ASSUME link # None, conn'[link].st = "open", NEW u \in Topic
             PROVE  Copied(page[u], u, conn'[link].out, Ends(conn[link], link, u)')
  BY <1>1 DEF Copies
<1>2. link \in Conn /\ ConnOK(conn[link]) /\ Serves(conn[link])
  BY DEF LinkOK, ConnsOK, ServesOK
<1>3. CASE conn' = conn /\ built[t] = val[t]
  BY <1>1, <1>3 DEF Copies, Ends
<1>4. CASE conn'[link] = conn[link] /\ link \notin subs[t]
  <2>1. Copied(page[u], u, conn[link].out, Ends(conn[link], link, u))
    BY <1>4 DEF Copies
  <2>2. Ends(conn[link], link, u)' = Ends(conn[link], link, u)
    BY <1>1, <1>4 DEF Ends
  <2>. QED  BY <1>4, <2>1, <2>2
<1>5. CASE built[t] # val[t] /\ link \in subs[t]
  <2>. DEFINE m == News(t)
  <2>1. /\ m \in Messages /\ m.t = t
        /\ \/ m.kind = "value" /\ m.is = built[t]
           \/ /\ val[t] \in Value /\ built[t] \in Value
              /\ m.kind = "patch" /\ m.is = Ops(val[t], built[t])
    BY <1>1, NewsIs
  <2>2. PICK y \in {Send(link, m)} : conn'[link] = y
    BY <1>2, <1>5 DEF Publish
  <2>. HIDE DEF m
  <2>3. /\ y.st = conn[link].st
        /\ \/ y = conn[link] /\ (conn[link].done \/ conn[link].st # "open")
           \/ ~conn[link].done /\ ~y.done /\ y.out = Append(conn[link].out, m)
           \/ y.done /\ y.out = conn[link].out
    BY <1>2, <2>1, <2>2, Sends
  <2>4. Copied(page[u], u, conn[link].out, Ends(conn[link], link, u))
    BY <2>2, <2>3 DEF Copies
  <2>5. Ends(conn[link], link, u) \subseteq Values
    BY <1>1 DEF Ends
  <2>6. CASE y.done /\ y.out = conn[link].out
    <3>1. Ends(conn[link], link, u)' = Values
      BY <1>1, <2>2, <2>6 DEF Ends
    <3>. QED  BY <2>2, <2>4, <2>5, <2>6, <3>1 DEF Copied
  <2>7. CASE y = conn[link] /\ conn[link].done
    <3>1. Ends(conn[link], link, u)' = Values
      BY <1>1, <2>2, <2>7 DEF Ends
    <3>. QED  BY <2>2, <2>4, <2>5, <2>7, <3>1 DEF Copied
  <2>8. CASE ~conn[link].done /\ ~y.done /\ y.out = Append(conn[link].out, m)
    <3>1. conn[link].out \in Seq(Messages)
      BY <1>2 DEF Serves
    <3>2. CASE u = t
      <4>1. Ends(conn[link], link, u) = {val[t]} /\ Ends(conn[link], link, u)' = {built[t]}
        BY <1>1, <1>5, <2>2, <2>8, <3>2 DEF Ends
      <4>2. Makes(m, val[t], built[t]) /\ built[t] \in Values
        BY <1>1, <2>1 DEF Makes, Values
      <4>. QED  BY <2>1, <2>2, <2>4, <2>8, <3>1, <3>2, <4>1, <4>2, Appended
    <3>3. CASE u # t
      <4>1. Ends(conn[link], link, u)' = Ends(conn[link], link, u)
        BY <1>1, <2>2, <2>8, <3>3 DEF Ends
      <4>. QED  BY <2>1, <2>2, <2>4, <2>8, <3>1, <3>3, <4>1, SentOn
    <3>. QED  BY <3>2, <3>3
  <2>. QED  BY <2>2, <2>3, <2>6, <2>7, <2>8
<1>6. conn'[link] = conn[link] \/ (built[t] # val[t] /\ link \in subs[t])
  BY <1>2 DEF Publish
<1>7. built[t] = val[t] => conn' = conn
  BY DEF Publish
<1>. QED  BY <1>3, <1>4, <1>5, <1>6, <1>7

\* What a subscription is sent is a value.
LEMMA AttachShows ==
  ASSUME ConnsOK, HubOK, BuildsOK, Building, NEW c \in Conn, Attach(c)
  PROVE  (IF conn[c].reader = "build" THEN built[conn[c].ask.t] ELSE val[conn[c].ask.t]) \in Show
<1>. DEFINE t == conn[c].ask.t
<1>1. t \in Topic
  BY DEF Attach, ConnsOK, ConnOK, Asks
<1>2. CASE conn[c].reader = "build"
  <2>1. mu[t] # None
    BY <1>2, LiveAssumption DEF Building
  <2>. QED  BY <1>1, <1>2, <2>1 DEF BuildsOK, HubOK
<1>3. CASE conn[c].reader # "build"
  BY <1>1, <1>3 DEF Attach, HubOK
<1>. QED  BY <1>2, <1>3

\* A subscription is sent what the topic shows from then on.
LEMMA AttachCopies ==
  ASSUME ConnsOK, ServesOK, HubOK, BuildsOK, Building, LinkOK, Copies, NEW c \in Conn, Attach(c)
  PROVE  Copies'
<1>. DEFINE t == conn[c].ask.t
            v == IF conn[c].reader = "build" THEN built[t] ELSE val[t]
            m == Snapshot(t, v)
<1>1. /\ t \in Topic /\ val' = [val EXCEPT ![t] = v] /\ subs' = [subs EXCEPT ![t] = @ \cup {c}]
      /\ UNCHANGED <<link, page>> /\ val \in [Topic -> Values] /\ subs \in [Topic -> SUBSET Conn]
  BY DEF Attach, HubOK, Values, ConnsOK, ConnOK, Asks
<1>2. v \in Show
  BY AttachShows
<1>3. m \in Messages /\ m.t = t /\ m.kind = "value" /\ m.is = v
  BY <1>1, <1>2 DEF Snapshot, Messages
<1>4. PICK y \in {Send(c, m)} : conn' = [conn EXCEPT ![c] = [y EXCEPT !.reader = "read", !.ask = None]]
  BY DEF Attach
<1>5. conn[c].reader = "build" => val[t] = None
  BY DEF BuildsOK
<1>6. ConnOK(conn[c]) /\ Serves(conn[c])
  BY DEF ConnsOK, ServesOK
<1>7. conn[c].reader = "build" \/ v = val[t]
  OBVIOUS
<1>. HIDE DEF m, v
<1>8. /\ IsConn(y) /\ y.st = conn[c].st
      /\ \/ y = conn[c] /\ (conn[c].done \/ conn[c].st # "open")
         \/ ~conn[c].done /\ conn[c].st = "open" /\ ~y.done /\ y.out = Append(conn[c].out, m)
         \/ y.done /\ y.out = conn[c].out
  BY <1>3, <1>6, Sends DEF ConnOK
<1>9. /\ conn'[c].st = y.st /\ conn'[c].done = y.done /\ conn'[c].out = y.out
      /\ \A d \in Conn \ {c} : conn'[d] = conn[d]
  BY <1>4, <1>8 DEF IsConn, Fields, ConnsOK
<1>. SUFFICES ASSUME link # None, conn'[link].st = "open", NEW u \in Topic
             PROVE  Copied(page[u], u, conn'[link].out, Ends(conn[link], link, u)')
  BY <1>1 DEF Copies
<1>10. link \in Conn
  BY DEF LinkOK
<1>11. Copied(page[u], u, conn[link].out, Ends(conn[link], link, u)) /\ Ends(conn[link], link, u) \subseteq Values
  BY <1>1, <1>8, <1>9, <1>10 DEF Copies, Ends
<1>12. CASE link # c
  <2>1. link \in subs[t] => val'[t] = val[t]
    BY <1>1, <1>5, <1>7 DEF BuildsOK
  <2>2. Ends(conn[link], link, u)' = Ends(conn[link], link, u)
    BY <1>1, <1>9, <1>10, <1>12, <2>1 DEF Ends
  <2>. QED  BY <1>9, <1>10, <1>11, <1>12, <2>2
<1>13. CASE link = c /\ y.done /\ y.out = conn[c].out
  <2>1. Ends(conn[link], link, u)' = Values
    BY <1>1, <1>9, <1>13 DEF Ends
  <2>. QED  BY <1>9, <1>11, <1>13, <2>1 DEF Copied
<1>14. CASE link = c /\ ~conn[c].done /\ ~y.done /\ y.out = Append(conn[c].out, m)
  <2>1. conn[c].out \in Seq(Messages)
    BY <1>6 DEF Serves
  <2>2. CASE u = t
    <3>1. Ends(conn[link], link, u)' = {v}
      BY <1>1, <1>9, <1>14, <2>2 DEF Ends
    <3>2. \A a : Makes(m, a, v)
      BY <1>2, <1>3 DEF Makes
    <3>3. v \in Values
      BY <1>2 DEF Values
    <3>4. \A a \in Ends(conn[link], link, u) \cap Values : IF m.t = u THEN Makes(m, a, v) ELSE v = a
      BY <1>3, <2>2, <3>2
    <3>5. Copied(page[u], u, conn[c].out, Ends(conn[link], link, u))
      BY <1>11, <1>14
    <3>6. Copied(page[u], u, Append(conn[c].out, m), {v})
      BY <1>3, <2>1, <3>3, <3>4, <3>5, Appended
    <3>. QED  BY <1>9, <1>14, <3>1, <3>6
  <2>3. CASE u # t
    <3>1. Ends(conn[link], link, u)' = Ends(conn[link], link, u)
      BY <1>1, <1>9, <1>14, <2>3 DEF Ends
    <3>. QED  BY <1>3, <1>9, <1>11, <1>14, <2>1, <2>3, <3>1, SentOn
  <2>. QED  BY <2>2, <2>3
<1>15. CASE link = c /\ y = conn[c] /\ conn[c].done
  BY <1>13, <1>15
<1>. QED  BY <1>8, <1>9, <1>12, <1>13, <1>14, <1>15

\* The page handles the first of what it is sent.
LEMMA DeliverCopies ==
  ASSUME ConnsOK, ServesOK, LinkOK, PageOK, Copies, Deliver
  PROVE  Copies' /\ PageOK' /\ \A t \in Topic : page'[t].here = page[t].here
<1>. DEFINE queue == conn[link].out
<1>1. /\ link # None /\ link \in Conn /\ conn[link].st = "open" /\ queue # <<>> /\ link' = link
      /\ queue \in Seq(Messages) /\ UNCHANGED <<val, subs>>
      /\ conn' = [conn EXCEPT ![link].out = Tail(queue)]
      /\ page' = [page EXCEPT ![Head(queue).t] = Handle(@, Head(queue))]
  BY DEF Deliver, LinkOK, ServesOK, Serves, topics
<1>2. conn'[link].st = "open" /\ conn'[link].out = Tail(queue) /\ conn'[link].done = conn[link].done
  BY <1>1 DEF ConnsOK, ConnOK, IsConn, Fields
<1>3. page \in [Topic -> Entries] /\ Head(queue).t \in Topic
  BY <1>1 DEF PageOK, Messages
<1>4. ASSUME NEW t \in Topic
      PROVE  /\ page'[t] \in Entries /\ page'[t].here = page[t].here
             /\ Copied(page'[t], t, Tail(queue), Ends(conn[link], link, t))
  <2>1. page'[t] \in {IF Head(queue).t = t THEN Handle(page[t], Head(queue)) ELSE page[t]} /\ page[t] \in Entries
    BY <1>1, <1>3
  <2>2. Copied(page[t], t, queue, Ends(conn[link], link, t))
    BY <1>1 DEF Copies
  <2>. QED  BY <1>1, <2>1, <2>2, Taken
<1>5. PageOK'
  BY <1>1, <1>3, <1>4 DEF PageOK
<1>6. \A t \in Topic : Ends(conn[link], link, t)' = Ends(conn[link], link, t)
  BY <1>1, <1>2 DEF Ends
<1>7. Copies'
  BY <1>1, <1>2, <1>4, <1>6 DEF Copies
<1>. QED  BY <1>4, <1>5, <1>7

\* Only a subscription that is made adds a subscriber.
LEMMA SubsShrink ==
  ASSUME HubOK, NEW c \in Conn,
         \/ Read(c) \/ ReaderDetach(c) \/ ReaderRelease(c) \/ Acquire(c) \/ Hold(c)
         \/ BuildFirst(c) \/ AttachAdrift(c) \/ CloseDetach(c) \/ CloseRelease(c) \/ \E t \in Topic : CloseNext(c, t)
  PROVE  \A t \in Topic : subs'[t] \subseteq subs[t] /\ (subs'[t] # {} => val'[t] = val[t])
<1>1. ASSUME NEW t, Release(t)
      PROVE  \A u \in Topic : subs'[u] \subseteq subs[u] /\ (subs'[u] # {} => val'[u] = val[u])
  BY <1>1 DEF Release, HubOK
<1>2. CASE ReaderRelease(c) \/ CloseRelease(c)
  BY <1>1, <1>2 DEF ReaderRelease, CloseRelease
<1>3. CASE ReaderDetach(c) \/ CloseDetach(c)
  BY <1>3 DEF ReaderDetach, CloseDetach, Detach, HubOK
<1>4. CASE Read(c) \/ Acquire(c) \/ Hold(c) \/ BuildFirst(c) \/ AttachAdrift(c) \/ \E t \in Topic : CloseNext(c, t)
  BY <1>4 DEF Read, Acquire, Hold, BuildFirst, AttachAdrift, CloseNext, topics
<1>. QED  BY <1>2, <1>3, <1>4

LEMMA CopiesKept ==
  ASSUME ConnsOK, ServesOK, HubOK, BuildsOK, Building, LinkOK, PageOK, Copies, [Next]_vars
  PROVE  Copies' /\ PageOK'
<1>0. PageOK' \/ page' # page
  BY DEF PageOK
<1>1. ASSUME NEW t \in Topic, Publish(t)
      PROVE  Copies' /\ PageOK'
  BY <1>0, <1>1, PublishCopies DEF Publish
<1>2. ASSUME NEW c \in Conn, Attach(c)
      PROVE  Copies' /\ PageOK'
  BY <1>0, <1>2, AttachCopies DEF Attach
<1>3. CASE Deliver
  BY <1>3, DeliverCopies
<1>4. CASE Disconnect
  BY <1>0, <1>4 DEF Disconnect, Copies
<1>5. CASE /\ \/ Run \/ Resync \/ UNCHANGED vars
              \/ (\E t \in Topic : Mark(t) \/ Wake(t) \/ Cool(t) \/ \E v \in Show : Write(t, v))
           /\ ~\E t \in Topic : Publish(t)
  <2>1. conn' = conn
    BY <1>5, ConnsLeftAlone
  <2>2. UNCHANGED <<link, page, val, subs>>
    BY <1>5 DEF vars, topics, Run, Woken, Refresh, RestLoop, Resync, Rebuild, Mark, Wake, Cool, Write
  <2>. QED  BY <1>0, <2>1, <2>2, NothingNew DEF Alike
<1>6. ASSUME NEW c \in Conn,
             \/ Read(c) \/ ReaderDetach(c) \/ ReaderRelease(c) \/ Acquire(c) \/ Hold(c)
             \/ BuildFirst(c) \/ AttachAdrift(c) \/ CloseDetach(c) \/ CloseRelease(c)
             \/ \E t \in Topic : CloseNext(c, t)
      PROVE  Copies' /\ PageOK'
  <2>1. \A d \in Conn : Alike(conn[d], conn'[d])
    BY <1>6, AlikeSteps
  <2>2. UNCHANGED <<link, page>>
    BY <1>6 DEF Read, ReaderDetach, ReaderRelease, Acquire, Hold, BuildFirst, AttachAdrift, CloseDetach,
      CloseRelease, CloseNext
  <2>3. \A t \in Topic : subs'[t] \subseteq subs[t] /\ (subs'[t] # {} => val'[t] = val[t])
    BY <1>6, SubsShrink
  <2>4. \A t \in Topic : link \in subs'[t] => link \in subs[t] /\ val'[t] = val[t]
    BY <2>3
  <2>. QED  BY <1>0, <2>1, <2>2, <2>4, NothingNew DEF LinkOK
<1>7. ASSUME NEW c \in Conn, Close(c)
      PROVE  Copies' /\ PageOK'
  <2>1. UNCHANGED <<link, page, val, subs>> /\ \A d \in Conn \ {c} : conn'[d] = conn[d]
    BY <1>7 DEF Close, topics, ConnsOK
  <2>2. conn'[c].st = "closing"
    BY <1>7 DEF Close, ConnsOK, ConnOK, IsConn, Fields
  <2>3. CASE link = c
    BY <1>0, <2>1, <2>2, <2>3 DEF Copies
  <2>4. CASE link # c
    BY <1>0, <2>1, <2>4, NothingNew DEF Alike, LinkOK
  <2>. QED  BY <2>3, <2>4
<1>8. ASSUME NEW c \in Conn, Over(c)
      PROVE  Copies' /\ PageOK'
  <2>1. /\ UNCHANGED <<link, page, val>> /\ link # c /\ \A d \in Conn \ {c} : conn'[d] = conn[d]
        /\ \A t \in Topic : link \in subs'[t] => link \in subs[t]
    BY <1>8 DEF Over, ConnsOK, HubOK
  <2>. QED  BY <1>0, <2>1, NothingNew DEF Alike, LinkOK
<1>9. ASSUME NEW t \in Topic, Want(t) \/ Unwant(t)
      PROVE  Copies' /\ PageOK'
  <2>1. PICK e \in Entries : page' = [page EXCEPT ![t] = e] /\ e.awaiting
    <3>1. NoEntry \in Entries /\ NoEntry.awaiting
      BY DEF NoEntry, Entries
    <3>2. [NoEntry EXCEPT !.here = TRUE] \in Entries /\ [NoEntry EXCEPT !.here = TRUE].awaiting
      BY DEF NoEntry, Entries
    <3>. QED  BY <1>9, <3>1, <3>2 DEF Want, Unwant
  <2>2. UNCHANGED <<link, val, subs>>
    BY <1>9 DEF Want, Unwant, topics
  <2>3. \A d \in Conn : Alike(conn[d], conn'[d])
    <3>1. PICK ask : conn' = Tell(ask)
      BY <1>9 DEF Want, Unwant
    <3>. QED  BY <3>1 DEF Tell, Alike, ConnsOK, ConnOK, IsConn, Fields
  <2>4. PageOK' /\ \A u \in Topic : page'[u].here /\ ~page'[u].awaiting => page'[u] = page[u]
    BY <2>1 DEF PageOK
  <2>. QED  BY <2>2, <2>3, <2>4, Forgets DEF LinkOK
<1>10. ASSUME NEW c \in Conn, Connect(c)
       PROVE  Copies' /\ PageOK'
  <2>1. /\ link' = c /\ page' = [t \in Topic |-> [page[t] EXCEPT !.awaiting = TRUE]] /\ UNCHANGED <<val, subs>>
        /\ conn[c].st = "free"
    BY <1>10 DEF Connect, topics
  <2>2. conn'[c].out = <<>>
    <3>1. conn[c].out = <<>>
      BY <2>1 DEF ServesOK, Serves, NoConn
    <3>2. PICK up : conn' = [conn EXCEPT ![c].st = "open", ![c].up = up]
      BY <1>10 DEF Connect
    <3>. QED  BY <3>1, <3>2 DEF ConnsOK, ConnOK, IsConn, Fields
  <2>3. \A t \in Topic : page'[t].awaiting /\ page'[t] \in Entries
    BY <2>1 DEF PageOK, Entries
  <2>4. PageOK'
    BY <2>1, <2>3 DEF PageOK
  <2>5. ASSUME NEW t \in Topic
        PROVE  Copied(page'[t], t, conn'[c].out, Ends(conn[c], c, t)')
    <3>1. val[t] \in Values /\ val[t] \in Ends(conn[c], c, t)'
      BY <2>1 DEF HubOK, Values, Ends
    <3>2. Copied(page'[t], t, <<>>, {val[t]})
      BY <2>3, <3>1, NothingSent
    <3>. QED  BY <2>2, <3>1, <3>2 DEF Copied
  <2>6. Copies'
    BY <2>1, <2>5 DEF Copies, Ends
  <2>. QED  BY <2>4, <2>6
<1>. QED
  BY <1>1, <1>2, <1>3, <1>4, <1>5, <1>6, <1>7, <1>8, <1>9, <1>10 DEF Next, Reader, Closer
------------------------------------------------------------------------------
\* Once the server has done what the page asked about a topic, a snapshot is on its
\* way or was handled.

Pending(x, t) == (\E i \in DOMAIN x.up : x.up[i].t = t) \/ (x.reader # "read" /\ x.ask.t = t)
Newest(up, i) == \A j \in DOMAIN up : up[j].t = up[i].t => j <= i
Snapshots(queue, t) == \E i \in DOMAIN queue : queue[i].t = t /\ queue[i].kind = "value"

\* The last that the page asked about a topic that it shows is a subscription.
AskedFor(x, t) ==
  /\ \A i \in DOMAIN x.up : x.up[i].t = t /\ Newest(x.up, i) => x.up[i].kind = "sub"
  /\ x.reader # "read" /\ x.ask.t = t /\ (\A i \in DOMAIN x.up : x.up[i].t # t) => x.ask.kind = "sub"

Answered(x, e, t, member) ==
  e.here => /\ AskedFor(x, t)
            /\ ~x.done /\ member /\ ~Pending(x, t) => ~e.awaiting \/ Snapshots(x.out, t)

LEMMA AnswerStays ==
  ASSUME NEW x, NEW y, NEW e, NEW t, NEW b1, NEW b2, Answered(x, e, t, b1), b2 => b1,
         y.up = x.up, y.ask = x.ask, y.reader = "read" <=> x.reader = "read",
         ~y.done => ~x.done /\ (Snapshots(x.out, t) => Snapshots(y.out, t))
  PROVE  Answered(y, e, t, b2)
  BY DEF Answered, AskedFor, Pending

\* The reader is done with what it had read.
LEMMA AnswerEnds ==
  ASSUME NEW x, NEW y, NEW e, NEW t, NEW b1, NEW b2, Answered(x, e, t, b1), b2 => b1,
         y.up = x.up, y.reader = "read", x.ask.t # t \/ x.ask.kind # "sub",
         ~y.done => ~x.done /\ (Snapshots(x.out, t) => Snapshots(y.out, t))
  PROVE  Answered(y, e, t, b2)
  BY DEF Answered, AskedFor, Pending

LEMMA AnswerSent ==
  ASSUME NEW x, NEW y, NEW e, NEW t, NEW b1, NEW b2, Answered(x, e, t, b1),
         y.up = x.up, y.reader = "read", y.done \/ Snapshots(y.out, t)
  PROVE  Answered(y, e, t, b2)
  BY DEF Answered, AskedFor, Pending

LEMMA AnswerRead ==
  ASSUME NEW x, NEW y, NEW e, NEW t, NEW b1, x.up \in Seq(Asks), x.up # <<>>, Answered(x, e, t, b1),
         x.reader = "read", y.up = Tail(x.up), y.ask = Head(x.up), y.reader = "read" => y.ask.kind # "sub",
         y.done = x.done, y.out = x.out
  PROVE  Answered(y, e, t, b1)
<1>. DEFINE up == x.up
<1>1. /\ Len(up) \in Nat \ {0} /\ DOMAIN up = 1 .. Len(up) /\ Head(up) = up[1]
      /\ DOMAIN Tail(up) = 1 .. Len(up) - 1 /\ \A i \in 1 .. Len(up) - 1 : Tail(up)[i] = up[i + 1]
  OBVIOUS
<1>. SUFFICES ASSUME e.here
             PROVE  /\ AskedFor(y, t)
                    /\ ~y.done /\ b1 /\ ~Pending(y, t) => ~e.awaiting \/ Snapshots(y.out, t)
  BY DEF Answered
<1>2. AskedFor(x, t)
  BY DEF Answered
<1>3. (\A i \in 1 .. Len(up) - 1 : up[i + 1].t # t) /\ up[1].t = t => up[1].kind = "sub"
  <2>1. ASSUME \A i \in 1 .. Len(up) - 1 : up[i + 1].t # t, up[1].t = t
        PROVE  Newest(up, 1)
    <3>1. ASSUME NEW j \in 1 .. Len(up), up[j].t = t, j > 1
          PROVE  FALSE
      <4>1. j - 1 \in 1 .. Len(up) - 1 /\ (j - 1) + 1 = j
        BY <1>1, <3>1
      <4>. QED  BY <2>1, <3>1, <4>1
    <3>. QED  BY <1>1, <2>1, <3>1 DEF Newest
  <2>. QED  BY <1>1, <1>2, <2>1 DEF AskedFor
<1>4. ASSUME NEW i \in 1 .. Len(up) - 1, up[i + 1].t = t, Newest(Tail(up), i)
      PROVE  up[i + 1].kind = "sub"
  <2>1. ASSUME NEW j \in 1 .. Len(up), up[j].t = t
        PROVE  j <= i + 1
    <3>1. CASE j = 1
      BY <1>1, <3>1
    <3>2. CASE j # 1
      <4>1. j - 1 \in 1 .. Len(up) - 1 /\ (j - 1) + 1 = j
        BY <1>1, <3>2
      <4>2. Tail(up)[j - 1].t = t /\ Tail(up)[i].t = t
        BY <1>1, <1>4, <2>1, <4>1
      <4>3. j - 1 <= i
        BY <1>1, <1>4, <4>1, <4>2 DEF Newest
      <4>. QED  BY <4>1, <4>3
    <3>. QED  BY <3>1, <3>2
  <2>2. i + 1 \in 1 .. Len(up) /\ Newest(up, i + 1)
    BY <1>1, <1>4, <2>1 DEF Newest
  <2>. QED  BY <1>1, <1>2, <1>4, <2>2 DEF AskedFor
<1>5. AskedFor(y, t)
  <2>1. ASSUME NEW i \in DOMAIN y.up, y.up[i].t = t, Newest(y.up, i)
        PROVE  y.up[i].kind = "sub"
    <3>1. i \in 1 .. Len(up) - 1 /\ y.up[i] = up[i + 1] /\ Newest(Tail(up), i)
      BY <1>1, <2>1
    <3>. QED  BY <1>4, <2>1, <3>1
  <2>2. ASSUME y.ask.t = t, \A i \in DOMAIN y.up : y.up[i].t # t
        PROVE  y.ask.kind = "sub"
    <3>1. ASSUME NEW i \in 1 .. Len(up) - 1
          PROVE  up[i + 1].t # t
      <4>1. i \in DOMAIN y.up /\ y.up[i] = up[i + 1]
        BY <1>1
      <4>. QED  BY <2>2, <4>1
    <3>. QED  BY <1>1, <1>3, <2>2, <3>1
  <2>. QED  BY <2>1, <2>2 DEF AskedFor
<1>6. Pending(x, t) => Pending(y, t)
  <2>1. ASSUME NEW i \in 1 .. Len(up), up[i].t = t, ~Pending(y, t)
        PROVE  FALSE
    <3>1. \A j \in 1 .. Len(up) - 1 : up[j + 1].t # t
      BY <1>1, <2>1 DEF Pending
    <3>2. CASE i = 1
      BY <1>1, <1>3, <2>1, <3>1, <3>2 DEF Pending
    <3>3. CASE i # 1
      <4>1. i - 1 \in 1 .. Len(up) - 1 /\ (i - 1) + 1 = i
        BY <1>1, <3>3
      <4>. QED  BY <2>1, <3>1, <4>1
    <3>. QED  BY <3>2, <3>3
  <2>. QED  BY <1>1, <2>1 DEF Pending
<1>. QED  BY <1>5, <1>6 DEF Answered

LEMMA AnswerTold ==
  ASSUME NEW x, NEW y, NEW e, NEW t, NEW b1, NEW ask \in Asks, x.up \in Seq(Asks),
         y.up = Append(x.up, ask), y.reader = x.reader, y.ask = x.ask, y.done = x.done, y.out = x.out,
         \/ ask.t = t /\ ask.kind = "sub"
         \/ ask.t # t /\ Answered(x, e, t, b1)
  PROVE  Answered(y, e, t, b1)
<1>. DEFINE n == Len(x.up)
<1>1. /\ n \in Nat /\ DOMAIN x.up = 1 .. n /\ DOMAIN y.up = 1 .. n + 1
      /\ y.up[n + 1] = ask /\ \A i \in 1 .. n : y.up[i] = x.up[i] /\ i \in 1 .. n + 1
      /\ n + 1 \in 1 .. n + 1 /\ \A i \in 1 .. n + 1 : i = n + 1 \/ i \in 1 .. n
  OBVIOUS
<1>2. CASE ask.t = t /\ ask.kind = "sub"
  <2>1. \A i \in 1 .. n : y.up[i].t = t => ~Newest(y.up, i)
    <3>1. \A i \in 1 .. n : ~(n + 1 <= i)
      BY <1>1
    <3>. QED  BY <1>1, <1>2, <3>1 DEF Newest
  <2>. QED  BY <1>1, <1>2, <2>1 DEF Answered, AskedFor, Pending
<1>3. CASE ask.t # t /\ Answered(x, e, t, b1)
  <2>1. \A i \in 1 .. n : x.up[i].t = t /\ Newest(y.up, i) => Newest(x.up, i)
    BY <1>1 DEF Newest
  <2>. HIDE DEF n
  <2>2. e.here => AskedFor(y, t)
    BY <1>1, <1>3, <2>1 DEF Answered, AskedFor
  <2>3. Pending(x, t) => Pending(y, t)
    BY <1>1 DEF Pending
  <2>. QED  BY <1>3, <2>2, <2>3 DEF Answered
<1>. QED  BY <1>2, <1>3

LEMMA AnswerHandled ==
  ASSUME NEW x, NEW y, NEW e \in Entries, NEW f, NEW t, NEW b1, Answered(x, e, t, b1),
         x.out \in Seq(Messages), x.out # <<>>, y.out = Tail(x.out),
         y.up = x.up, y.reader = x.reader, y.ask = x.ask, y.done = x.done,
         f.here = e.here, f.awaiting => e.awaiting,
         Head(x.out).t = t /\ Head(x.out).kind = "value" /\ e.here => ~f.awaiting
  PROVE  Answered(y, f, t, b1)
<1>1. /\ Len(x.out) \in Nat \ {0} /\ DOMAIN x.out = 1 .. Len(x.out) /\ Head(x.out) = x.out[1]
      /\ DOMAIN Tail(x.out) = 1 .. Len(x.out) - 1 /\ \A i \in 1 .. Len(x.out) - 1 : Tail(x.out)[i] = x.out[i + 1]
  OBVIOUS
<1>2. e.here /\ Snapshots(x.out, t) => ~f.awaiting \/ Snapshots(y.out, t)
  <2>1. SUFFICES ASSUME e.here, NEW i \in DOMAIN x.out, x.out[i].t = t, x.out[i].kind = "value", i # 1
                 PROVE  Snapshots(Tail(x.out), t)
    BY <1>1 DEF Snapshots
  <2>2. i - 1 \in 1 .. Len(x.out) - 1 /\ (i - 1) + 1 = i
    BY <1>1, <2>1
  <2>3. i - 1 \in DOMAIN Tail(x.out) /\ Tail(x.out)[i - 1] = x.out[i]
    BY <1>1, <2>2
  <2>. QED  BY <2>1, <2>3 DEF Snapshots
<1>. QED  BY <1>2 DEF Answered, AskedFor, Pending

LEMMA SnapshotsStay ==
  ASSUME NEW M, NEW queue \in Seq(M), NEW m \in M, NEW t
  PROVE  /\ Snapshots(queue, t) => Snapshots(Append(queue, m), t)
         /\ m.t = t /\ m.kind = "value" => Snapshots(Append(queue, m), t)
<1>1. /\ DOMAIN Append(queue, m) = 1 .. Len(queue) + 1 /\ DOMAIN queue = 1 .. Len(queue)
      /\ Append(queue, m)[Len(queue) + 1] = m /\ \A i \in 1 .. Len(queue) : Append(queue, m)[i] = queue[i]
      /\ Len(queue) \in Nat
  OBVIOUS
<1>2. Len(queue) + 1 \in DOMAIN Append(queue, m) /\ \A i \in DOMAIN queue : i \in DOMAIN Append(queue, m)
  BY <1>1
<1>. QED  BY <1>1, <1>2 DEF Snapshots
------------------------------------------------------------------------------
AnswersOK ==
  link # None /\ conn[link].st = "open" =>
    \A t \in Topic : Answered(conn[link], page[t], t, link \in subs[t])

\* A connection that nobody has subscribes to nothing.
FreeOut == \A c \in Conn : conn[c].st = "free" => \A t \in Topic : c \notin subs[t]

LEMMA FreeKept ==
  ASSUME ConnsOK, ServesOK, HubOK, FreeOut, [Next]_vars
  PROVE  FreeOut'
<1>1. ASSUME NEW c \in Conn, Attach(c)
      PROVE  FreeOut'
  <2>1. PICK m : conn' = [conn EXCEPT ![c] = [Send(c, m) EXCEPT !.reader = "read", !.ask = None]]
    BY <1>1 DEF Attach
  <2>2. Send(c, m).st = conn[c].st /\ IsConn(Send(c, m))
    BY DEF Send, ConnsOK, ConnOK, IsConn, Fields
  <2>3. conn[c].st # "free"
    BY <1>1 DEF Attach, ServesOK, Serves, NoConn
  <2>4. conn'[c].st # "free" /\ \A d \in Conn \ {c} : conn'[d] = conn[d]
    BY <2>1, <2>2, <2>3 DEF ConnsOK, IsConn, Fields
  <2>5. \A t \in Topic : subs'[t] \subseteq subs[t] \cup {c}
    BY <1>1 DEF Attach, HubOK
  <2>. QED  BY <2>4, <2>5 DEF FreeOut
<1>2. ASSUME NEW c \in Conn, Over(c)
      PROVE  FreeOut'
  BY <1>2 DEF Over, FreeOut, ConnsOK, HubOK
<1>3. ASSUME \A d \in Conn : conn'[d].st = "free" => conn[d].st = "free",
             \A t \in Topic : subs'[t] \subseteq subs[t]
      PROVE  FreeOut'
  BY <1>3 DEF FreeOut
<1>4. ASSUME NEW c \in Conn,
             \/ Read(c) \/ ReaderDetach(c) \/ ReaderRelease(c) \/ Acquire(c) \/ Hold(c)
             \/ BuildFirst(c) \/ AttachAdrift(c) \/ CloseDetach(c) \/ CloseRelease(c)
             \/ \E t \in Topic : CloseNext(c, t)
      PROVE  FreeOut'
  <2>1. \A d \in Conn : conn'[d].st = conn[d].st
    BY <1>4, AlikeSteps DEF Alike
  <2>2. \A t \in Topic : subs'[t] \subseteq subs[t]
    BY <1>4, SubsShrink
  <2>. QED  BY <1>3, <2>1, <2>2
<1>5. ASSUME NEW c \in Conn, Close(c) \/ Connect(c)
      PROVE  FreeOut'
  <2>1. UNCHANGED subs
    BY <1>5 DEF Close, Connect, topics
  <2>2. conn'[c].st # "free" /\ \A d \in Conn \ {c} : conn'[d] = conn[d]
    <3>1. CASE Close(c)
      BY <3>1 DEF Close, ConnsOK, ConnOK, IsConn, Fields
    <3>2. CASE Connect(c)
      <4>1. PICK up : conn' = [conn EXCEPT ![c].st = "open", ![c].up = up]
        BY <3>2 DEF Connect
      <4>. QED  BY <4>1 DEF ConnsOK, ConnOK, IsConn, Fields
    <3>. QED  BY <1>5, <3>1, <3>2
  <2>. QED  BY <1>3, <2>1, <2>2
<1>6. ASSUME Deliver \/ \E t \in Topic : Want(t) \/ Unwant(t) \/ Publish(t)
      PROVE  FreeOut'
  <2>1. UNCHANGED subs
    BY <1>6 DEF Want, Unwant, Publish, Deliver, topics
  <2>2. \A d \in Conn : \A m : Send(d, m).st = conn[d].st
    BY DEF Send, ConnsOK, ConnOK, IsConn, Fields
  <2>3. \A d \in Conn : conn'[d].st = conn[d].st
    <3>1. CASE \E t \in Topic : Publish(t)
      BY <2>2, <3>1 DEF Publish
    <3>2. CASE \E t \in Topic : Want(t) \/ Unwant(t)
      <4>1. PICK ask : conn' = Tell(ask)
        BY <3>2 DEF Want, Unwant
      <4>. QED  BY <4>1 DEF Tell, ConnsOK, ConnOK, IsConn, Fields
    <3>3. CASE Deliver
      BY <3>3 DEF Deliver, ConnsOK, ConnOK, IsConn, Fields
    <3>. QED  BY <1>6, <3>1, <3>2, <3>3
  <2>. QED  BY <1>3, <2>1, <2>3
<1>7. CASE /\ \/ Run \/ Resync \/ Disconnect \/ UNCHANGED vars
              \/ (\E t \in Topic : Mark(t) \/ Wake(t) \/ Cool(t) \/ \E v \in Show : Write(t, v))
           /\ ~\E t \in Topic : Publish(t)
  <2>1. conn' = conn
    BY <1>7, ConnsLeftAlone
  <2>2. UNCHANGED subs
    BY <1>7 DEF vars, topics, Run, Woken, Refresh, RestLoop, Resync, Rebuild, Mark, Wake, Cool, Write, Disconnect
  <2>. QED  BY <1>3, <2>1, <2>2
<1>. QED
  BY <1>1, <1>2, <1>4, <1>5, <1>6, <1>7 DEF Next, Reader, Closer

\* Nothing of what the page's connection has to answer changes.
LEMMA AnswersStay ==
  ASSUME AnswersOK, UNCHANGED <<link, page>>,
         link # None => /\ conn'[link].st = "open" => conn[link].st = "open"
                        /\ conn'[link].up = conn[link].up /\ conn'[link].ask = conn[link].ask
                        /\ conn'[link].reader = "read" <=> conn[link].reader = "read"
                        /\ ~conn'[link].done => ~conn[link].done,
         link # None => \A t \in Topic : Snapshots(conn[link].out, t) => Snapshots(conn'[link].out, t),
         \A t \in Topic : link \in subs'[t] => link \in subs[t]
  PROVE  AnswersOK'
<1>. SUFFICES ASSUME link # None, conn'[link].st = "open", NEW t \in Topic
             PROVE  Answered(conn'[link], page[t], t, link \in subs'[t])
  BY DEF AnswersOK
<1>1. Answered(conn[link], page[t], t, link \in subs[t])
  BY DEF AnswersOK
<1>2. link \in subs'[t] => link \in subs[t]
  OBVIOUS
<1>. QED  BY <1>1, <1>2, AnswerStays

\* The reader of the page's connection does a step that sends nothing.
LEMMA ReaderAnswers ==
  ASSUME ConnsOK, ServesOK, HubOK, LinkOK, AnswersOK, NEW c \in Conn, c = link, link # None,
         conn[c].st = "open",
         \/ Read(c) \/ ReaderDetach(c) \/ ReaderRelease(c) \/ Acquire(c) \/ Hold(c)
         \/ BuildFirst(c) \/ AttachAdrift(c)
  PROVE  AnswersOK'
<1>0. /\ UNCHANGED <<link, page>> /\ Alike(conn[c], conn'[c]) /\ DOMAIN conn = Conn /\ DOMAIN conn[c] = Fields
      /\ \A t \in Topic : subs'[t] \subseteq subs[t]
      /\ conn[c].up \in Seq(Asks)
  <2>1. UNCHANGED <<link, page>>
    BY DEF Read, ReaderDetach, ReaderRelease, Acquire, Hold, BuildFirst, AttachAdrift
  <2>. QED  BY <2>1, AlikeSteps, SubsShrink DEF ConnsOK, ConnOK, IsConn
<1>1. CASE ReaderDetach(c) \/ Acquire(c) \/ BuildFirst(c) \/ (ReaderRelease(c) /\ conn[c].ask.kind = "sub")
  <2>1. PICK pc : conn' = [conn EXCEPT ![c].reader = pc] /\ pc # "read" /\ conn[c].reader # "read"
    <3>1. CASE ReaderDetach(c)
      BY <3>1 DEF ReaderDetach
    <3>2. CASE Acquire(c)
      BY <3>2 DEF Acquire
    <3>3. CASE BuildFirst(c)
      BY <3>3 DEF BuildFirst
    <3>4. CASE ReaderRelease(c) /\ conn[c].ask.kind = "sub"
      BY <3>4 DEF ReaderRelease
    <3>. QED  BY <1>1, <3>1, <3>2, <3>3, <3>4
  <2>2. conn'[c].up = conn[c].up /\ conn'[c].ask = conn[c].ask /\ conn'[c].reader = pc
    BY <1>0, <2>1 DEF Fields
  <2>. QED  BY <1>0, <2>1, <2>2, AnswersStay DEF Alike
<1>2. CASE Hold(c)
  <2>1. /\ conn'[c].up = conn[c].up /\ conn'[c].ask = conn[c].ask /\ conn'[c].reader = "attach"
        /\ conn[c].reader = "hold"
    BY <1>0, <1>2 DEF Fields, Hold
  <2>. QED  BY <1>0, <2>1, AnswersStay DEF Alike
<1>3. ~AttachAdrift(c)
  BY DEF AttachAdrift, Adrift, ServesOK, Serves
<1>8. (\A t \in Topic : Answered(conn'[c], page[t], t, link \in subs'[t])) => AnswersOK'
  BY <1>0 DEF AnswersOK
<1>9. ASSUME Read(c) \/ (ReaderRelease(c) /\ conn[c].ask.kind # "sub")
      PROVE  AnswersOK'
  <2>. SUFFICES ASSUME NEW t \in Topic
               PROVE  Answered(conn'[c], page[t], t, link \in subs'[t])
    BY <1>8
  <2>4. Answered(conn[c], page[t], t, link \in subs[t])
    BY DEF AnswersOK
  <2>5. link \in subs'[t] => link \in subs[t]
    BY <1>0
  <2>6. CASE ReaderRelease(c) /\ conn[c].ask.kind # "sub"
    <3>1. conn' = [conn EXCEPT ![c].reader = "read"]
      BY <2>6 DEF ReaderRelease
    <3>2. conn'[c].up = conn[c].up /\ conn'[c].reader = "read"
      BY <1>0, <3>1 DEF Fields
    <3>. QED  BY <1>0, <2>4, <2>5, <2>6, <3>2, AnswerEnds DEF Alike
  <2>7. CASE Read(c)
    <3>. DEFINE ask == Head(conn[c].up)
                pc == IF ask.t \in conn[c].holds THEN "detach" ELSE IF ask.kind = "sub" THEN "acquire" ELSE "read"
    <3>1. /\ conn' = [conn EXCEPT ![c] = [NotHolding(c, ask.t) EXCEPT !.up = Tail(@), !.ask = ask, !.reader = pc]]
          /\ conn[c].reader = "read" /\ conn[c].up # <<>> /\ UNCHANGED subs
      BY <2>7 DEF Read, topics
    <3>2. pc = "read" => ask.kind # "sub"
      OBVIOUS
    <3>. HIDE DEF ask, pc
    <3>3. conn'[c].up = Tail(conn[c].up) /\ conn'[c].ask = ask /\ conn'[c].reader = pc
      BY <1>0, <3>1 DEF Fields, NotHolding
    <3>4. conn'[c].done = conn[c].done /\ conn'[c].out = conn[c].out
      BY <1>0 DEF Alike
    <3>5. ask = Head(conn[c].up)
      BY DEF ask
    <3>6. /\ conn[c].up \in Seq(Asks) /\ conn[c].up # <<>> /\ conn[c].reader = "read"
          /\ conn'[c].ask = Head(conn[c].up) /\ (conn'[c].reader = "read" => conn'[c].ask.kind # "sub")
      BY <1>0, <3>1, <3>2, <3>3, <3>5
    <3>7. Answered(conn'[c], page[t], t, link \in subs[t])
      BY <2>4, <3>3, <3>4, <3>6, AnswerRead, Zenon
    <3>. QED  BY <3>1, <3>7
  <2>. QED  BY <1>9, <2>6, <2>7
<1>. QED  BY <1>1, <1>2, <1>3, <1>9

LEMMA AttachAnswers ==
  ASSUME ConnsOK, ServesOK, HubOK, BuildsOK, Building, LinkOK, AnswersOK, NEW c \in Conn, Attach(c)
  PROVE  AnswersOK'
<1>. DEFINE t == conn[c].ask.t
            v == IF conn[c].reader = "build" THEN built[t] ELSE val[t]
            m == Snapshot(t, v)
<1>1. /\ t \in Topic /\ subs' = [subs EXCEPT ![t] = @ \cup {c}]
      /\ UNCHANGED <<link, page>> /\ subs \in [Topic -> SUBSET Conn]
  BY DEF Attach, HubOK, ConnsOK, ConnOK, Asks
<1>2. v \in Show
  BY AttachShows
<1>3. m \in Messages /\ m.t = t /\ m.kind = "value"
  BY <1>1, <1>2 DEF Snapshot, Messages
<1>4. PICK y \in {Send(c, m)} : conn' = [conn EXCEPT ![c] = [y EXCEPT !.reader = "read", !.ask = None]]
  BY DEF Attach
<1>5. ConnOK(conn[c]) /\ Serves(conn[c]) /\ conn[c].out \in Seq(Messages)
  BY DEF ConnsOK, ServesOK, Serves
<1>. HIDE DEF m, v
<1>6. /\ IsConn(y) /\ y.st = conn[c].st /\ y.up = conn[c].up
      /\ \/ y = conn[c] /\ (conn[c].done \/ conn[c].st # "open")
         \/ ~conn[c].done /\ conn[c].st = "open" /\ ~y.done /\ y.out = Append(conn[c].out, m)
         \/ y.done /\ y.out = conn[c].out
  BY <1>3, <1>5, Sends DEF ConnOK
<1>7. /\ conn'[c].st = y.st /\ conn'[c].done = y.done /\ conn'[c].out = y.out /\ conn'[c].up = y.up
      /\ conn'[c].reader = "read" /\ \A d \in Conn \ {c} : conn'[d] = conn[d]
  BY <1>4, <1>6 DEF IsConn, Fields, ConnsOK
<1>8. CASE link # c
  <2>1. \A u \in Topic : link \in subs'[u] => link \in subs[u]
    BY <1>1, <1>8
  <2>2. link # None => conn'[link] = conn[link]
    BY <1>7, <1>8 DEF LinkOK
  <2>. QED  BY <1>1, <2>1, <2>2, AnswersStay
<1>9. ASSUME link = c, conn[c].st = "open", NEW u \in Topic
      PROVE  Answered(conn'[c], page[u], u, link \in subs'[u])
  <2>1. Answered(conn[c], page[u], u, link \in subs[u])
    BY <1>9, LiveAssumption DEF AnswersOK
  <2>2. Snapshots(conn[c].out, u) => Snapshots(Append(conn[c].out, m), u)
    BY <1>3, <1>5, SnapshotsStay
  <2>3. CASE u = t
    <3>1. Snapshots(Append(conn[c].out, m), u)
      BY <1>3, <1>5, <2>3, SnapshotsStay
    <3>2. conn'[c].done \/ Snapshots(conn'[c].out, u)
      BY <1>6, <1>7, <1>9, <3>1
    <3>. QED  BY <1>6, <1>7, <2>1, <3>2, AnswerSent
  <2>4. CASE u # t
    <3>1. link \in subs'[u] => link \in subs[u]
      BY <1>1, <2>4
    <3>2. ~conn'[c].done => ~conn[c].done /\ (Snapshots(conn[c].out, u) => Snapshots(conn'[c].out, u))
      BY <1>6, <1>7, <2>2
    <3>3. conn[c].ask.t # u /\ conn'[c].up = conn[c].up
      BY <1>6, <1>7, <2>4
    <3>. QED  BY <1>7, <2>1, <3>1, <3>2, <3>3, AnswerEnds
  <2>. QED  BY <2>3, <2>4
<1>10. CASE link = c
  BY <1>1, <1>6, <1>7, <1>9, <1>10 DEF AnswersOK
<1>. QED  BY <1>8, <1>10

LEMMA AnswersKept ==
  ASSUME ConnsOK, ServesOK, HubOK, BuildsOK, Building, LinkOK, PageOK, FreeOut, AnswersOK, Copies, [Next]_vars
  PROVE  AnswersOK'
<1>1. ASSUME NEW t \in Topic, Publish(t)
      PROVE  AnswersOK'
  <2>1. built[t] # None /\ UNCHANGED <<link, page, subs>>
    BY <1>1, LiveAssumption DEF Publish, BuildsOK
  <2>2. ASSUME link # None
        PROVE  /\ conn'[link].st = conn[link].st /\ conn'[link].up = conn[link].up
               /\ conn'[link].ask = conn[link].ask /\ conn'[link].reader = conn[link].reader
               /\ ~conn'[link].done => ~conn[link].done
               /\ \A u \in Topic : Snapshots(conn[link].out, u) => Snapshots(conn'[link].out, u)
    <3>1. link \in Conn /\ ConnOK(conn[link]) /\ Serves(conn[link]) /\ News(t) \in Messages
      BY <2>1, <2>2, NewsIs DEF LinkOK, ConnsOK, ServesOK
    <3>2. conn'[link] = conn[link] \/ conn'[link] = Send(link, News(t))
      BY <1>1, <3>1 DEF Publish
    <3>3. conn[link].out \in Seq(Messages)
      BY <3>1 DEF Serves
    <3>4. \A u : Snapshots(conn[link].out, u) => Snapshots(Append(conn[link].out, News(t)), u)
      BY <3>1, <3>3, SnapshotsStay
    <3>5. \A y \in {Send(link, News(t))} :
            /\ y.st = conn[link].st /\ y.up = conn[link].up /\ y.ask = conn[link].ask
            /\ y.reader = conn[link].reader
            /\ \/ y = conn[link]
               \/ ~conn[link].done /\ y.out = Append(conn[link].out, News(t))
               \/ y.done /\ y.out = conn[link].out
      BY <3>1, Sends
    <3>. QED  BY <3>2, <3>4, <3>5
  <2>. QED  BY <2>1, <2>2, AnswersStay
<1>2. ASSUME NEW c \in Conn, Attach(c)
      PROVE  AnswersOK'
  BY <1>2, AttachAnswers
<1>3. CASE Deliver
  <2>1. /\ link # None /\ link \in Conn /\ conn[link].st = "open" /\ conn[link].out # <<>> /\ link' = link
        /\ conn[link].out \in Seq(Messages) /\ UNCHANGED subs
        /\ conn' = [conn EXCEPT ![link].out = Tail(conn[link].out)]
        /\ page' = [page EXCEPT ![Head(conn[link].out).t] = Handle(@, Head(conn[link].out))]
    BY <1>3 DEF Deliver, LinkOK, ServesOK, Serves, topics
  <2>2. /\ conn'[link].out = Tail(conn[link].out) /\ conn'[link].done = conn[link].done
        /\ conn'[link].up = conn[link].up /\ conn'[link].ask = conn[link].ask
        /\ conn'[link].reader = conn[link].reader
    BY <2>1 DEF ConnsOK, ConnOK, IsConn, Fields
  <2>3. ASSUME NEW t \in Topic
        PROVE  Answered(conn'[link], page'[t], t, link \in subs[t])
    <3>1. Answered(conn[link], page[t], t, link \in subs[t]) /\ page[t] \in Entries
      BY <2>1 DEF AnswersOK, PageOK
    <3>2. page'[t] = IF Head(conn[link].out).t = t THEN Handle(page[t], Head(conn[link].out)) ELSE page[t]
      BY <2>1 DEF PageOK
    <3>3. /\ page'[t].here = page[t].here /\ (page'[t].awaiting => page[t].awaiting)
          /\ Head(conn[link].out).t = t /\ Head(conn[link].out).kind = "value" /\ page[t].here
               => ~page'[t].awaiting
      BY <3>1, <3>2 DEF Handle, Entries
    <3>. QED  BY <2>1, <2>2, <3>1, <3>3, AnswerHandled
  <2>. QED  BY <2>1, <2>3 DEF AnswersOK
<1>4. CASE Disconnect
  BY <1>4 DEF Disconnect, AnswersOK
<1>5. CASE /\ \/ Run \/ Resync \/ UNCHANGED vars
              \/ (\E t \in Topic : Mark(t) \/ Wake(t) \/ Cool(t) \/ \E v \in Show : Write(t, v))
           /\ ~\E t \in Topic : Publish(t)
  <2>1. conn' = conn
    BY <1>5, ConnsLeftAlone
  <2>2. UNCHANGED <<link, page, subs>>
    BY <1>5 DEF vars, topics, Run, Woken, Refresh, RestLoop, Resync, Rebuild, Mark, Wake, Cool, Write
  <2>. QED  BY <2>1, <2>2, AnswersStay
<1>6. ASSUME NEW c \in Conn,
             \/ Read(c) \/ ReaderDetach(c) \/ ReaderRelease(c) \/ Acquire(c) \/ Hold(c)
             \/ BuildFirst(c) \/ AttachAdrift(c) \/ CloseDetach(c) \/ CloseRelease(c)
             \/ \E t \in Topic : CloseNext(c, t)
      PROVE  AnswersOK'
  <2>1. \A d \in Conn : Alike(conn[d], conn'[d]) /\ (d # c => conn'[d] = conn[d])
    BY <1>6, AlikeSteps
  <2>2. UNCHANGED <<link, page>>
    BY <1>6 DEF Read, ReaderDetach, ReaderRelease, Acquire, Hold, BuildFirst, AttachAdrift, CloseDetach,
      CloseRelease, CloseNext
  <2>3. \A t \in Topic : subs'[t] \subseteq subs[t]
    BY <1>6, SubsShrink
  <2>4. CASE link # c
    BY <2>1, <2>2, <2>3, <2>4, AnswersStay DEF LinkOK
  <2>5. CASE link = c /\ conn[c].st # "open"
    BY <2>1, <2>2, <2>5 DEF AnswersOK, Alike
  <2>6. CASE link = c /\ conn[c].st = "open"
    <3>1. link # None /\ conn[c].closer = "none" /\ conn[c].closing = {}
      BY <2>6, LiveAssumption DEF ServesOK, Serves
    <3>2. ~(CloseDetach(c) \/ CloseRelease(c) \/ \E t \in Topic : CloseNext(c, t))
      BY <3>1 DEF CloseDetach, CloseRelease, CloseNext
    <3>. QED  BY <1>6, <2>6, <3>1, <3>2, ReaderAnswers
  <2>. QED  BY <2>4, <2>5, <2>6
<1>7. ASSUME NEW c \in Conn, Close(c)
      PROVE  AnswersOK'
  <2>1. UNCHANGED <<link, page, subs>> /\ \A d \in Conn \ {c} : conn'[d] = conn[d]
    BY <1>7 DEF Close, topics, ConnsOK
  <2>2. conn'[c].st = "closing"
    BY <1>7 DEF Close, ConnsOK, ConnOK, IsConn, Fields
  <2>3. CASE link = c
    BY <2>1, <2>2, <2>3 DEF AnswersOK
  <2>4. CASE link # c
    BY <2>1, <2>4, AnswersStay DEF LinkOK
  <2>. QED  BY <2>3, <2>4
<1>8. ASSUME NEW c \in Conn, Over(c)
      PROVE  AnswersOK'
  <2>1. /\ UNCHANGED <<link, page>> /\ link # c /\ \A d \in Conn \ {c} : conn'[d] = conn[d]
        /\ \A t \in Topic : link \in subs'[t] => link \in subs[t]
    BY <1>8 DEF Over, ConnsOK, HubOK
  <2>. QED  BY <2>1, AnswersStay DEF LinkOK
<1>9. ASSUME NEW t \in Topic, Want(t) \/ Unwant(t)
      PROVE  AnswersOK'
  <2>0. /\ UNCHANGED <<link, subs>> /\ \A u \in Topic \ {t} : page'[u] = page[u]
        /\ page'[t].here => Want(t)
    <3>1. PICK e : page' = [page EXCEPT ![t] = e] /\ UNCHANGED <<link, subs>> /\ (Want(t) \/ e = NoEntry)
      BY <1>9 DEF Want, Unwant, topics
    <3>. QED  BY <3>1 DEF PageOK, NoEntry
  <2>1. PICK ask \in Asks : /\ conn' = Tell(ask) /\ ask.t = t /\ (page'[t].here => ask.kind = "sub")
    <3>1. Ask(t, "sub") \in Asks /\ Ask(t, "unsub") \in Asks
          /\ Ask(t, "sub").t = t /\ Ask(t, "unsub").t = t /\ Ask(t, "sub").kind = "sub"
      BY DEF Ask, Asks
    <3>2. CASE Want(t)
      BY <3>1, <3>2 DEF Want
    <3>3. CASE ~Want(t)
      BY <1>9, <2>0, <3>1, <3>3 DEF Unwant
    <3>. QED  BY <3>2, <3>3
  <2>2. ASSUME link # None, conn'[link].st = "open", NEW u \in Topic
        PROVE  Answered(conn'[link], page'[u], u, link \in subs[u])
    <3>1. link \in Conn /\ conn' = [conn EXCEPT ![link].up = Append(@, ask)] /\ conn[link].up \in Seq(Asks)
      BY <2>1, <2>2 DEF LinkOK, Tell, ConnsOK, ConnOK
    <3>2. /\ conn'[link].up = Append(conn[link].up, ask) /\ conn'[link].st = conn[link].st
          /\ conn'[link].reader = conn[link].reader /\ conn'[link].ask = conn[link].ask
          /\ conn'[link].done = conn[link].done /\ conn'[link].out = conn[link].out
      BY <3>1 DEF ConnsOK, ConnOK, IsConn, Fields
    <3>3. CASE ~page'[u].here
      BY <3>3 DEF Answered
    <3>4. CASE page'[u].here
      <4>1. \/ ask.t = u /\ ask.kind = "sub"
            \/ ask.t # u /\ Answered(conn[link], page'[u], u, link \in subs[u])
        BY <2>0, <2>1, <2>2, <3>2, <3>4 DEF AnswersOK
      <4>. QED  BY <3>1, <3>2, <4>1, AnswerTold
    <3>. QED  BY <3>3, <3>4
  <2>. QED  BY <2>0, <2>2 DEF AnswersOK
<1>10. ASSUME NEW c \in Conn, Connect(c)
       PROVE  AnswersOK'
  <2>. DEFINE S == {u \in Topic : page[u].here}
              up == SetToSeq({Ask(t, "sub") : t \in S})
  <2>1. link' = c /\ UNCHANGED subs /\ conn[c].st = "free" /\ conn' = [conn EXCEPT ![c].st = "open", ![c].up = up]
    BY <1>10 DEF Connect, topics
  <2>4. \A i \in DOMAIN up : up[i].kind = "sub"
    BY AsksAll
  <2>. HIDE DEF up
  <2>3. conn'[c].up = up /\ conn'[c].reader = "read"
    <3>1. conn[c].reader = "read"
      BY <2>1 DEF ServesOK, Serves, NoConn
    <3>. QED  BY <2>1, <3>1 DEF ConnsOK, ConnOK, IsConn, Fields
  <2>5. \A t \in Topic : c \notin subs'[t]
    BY <2>1 DEF FreeOut
  <2>. QED  BY <2>1, <2>3, <2>4, <2>5 DEF AnswersOK, Answered, AskedFor
<1>. QED
  BY <1>1, <1>2, <1>3, <1>4, <1>5, <1>6, <1>7, <1>8, <1>9, <1>10 DEF Next, Reader, Closer
------------------------------------------------------------------------------
\* What an entry is when all that is on its way has arrived.

\* The order of the naturals, and that each set of them has a least.
Smaller == {p \in Nat \X Nat : p[1] < p[2]}
LEMMA SmallerWellFounded == IsWellFoundedOn(Smaller, Nat)
  BY NatLessThanWellFounded, Zenon DEF OpToRel, Smaller

LEMMA LeastOf ==
  ASSUME NEW S \in SUBSET Nat, S # {}
  PROVE  \E x \in S : \A y \in S : x <= y
<1>1. PICK x \in S : \A y \in S : ~(<<y, x>> \in Smaller)
  BY SmallerWellFounded, WFMin
<1>2. ASSUME NEW y \in S
      PROVE  x <= y
  <2>1. x \in Nat /\ y \in Nat /\ ~(<<y, x>> \in Smaller)
    BY <1>1
  <2>. QED  BY <2>1 DEF Smaller
<1>. QED  BY <1>2

LEMMA ByStep ==
  ASSUME NEW P, 0 \in P, \A n \in Nat : n \in P => n + 1 \in P
  PROVE  \A n \in Nat : n \in P
<1>. DEFINE S == {n \in Nat : n \notin P}
<1>1. SUFFICES ASSUME S # {} PROVE FALSE
  OBVIOUS
<1>2. PICK x \in S : \A y \in S : x <= y
  <2>1. S \in SUBSET Nat
    OBVIOUS
  <2>. HIDE DEF S
  <2>. QED  BY <1>1, <2>1, LeastOf
<1>3. x \in Nat \ {0} /\ x \notin P
  BY <1>2
<1>4. x - 1 \in Nat /\ (x - 1) + 1 = x /\ ~(x <= x - 1)
  BY <1>3
<1>5. x - 1 \in P
  BY <1>2, <1>4
<1>. QED  BY <1>3, <1>4, <1>5

Arrived(e, t, m) == IF m.t = t THEN Handle(e, m) ELSE e
Arrivals(e, t, queue, f) ==
  [i \in 0 .. Len(queue) |->
     IF i = 0 THEN e ELSE IF queue[i].t = t THEN Handle(f[i - 1], queue[i]) ELSE f[i - 1]]
FirstOf(e, t, queue, n, f) ==
  /\ DOMAIN f = 0 .. n /\ f[0] = e /\ f = [i \in 0 .. n |-> f[i]]
  /\ \A i \in 1 .. n : f[i] = Arrived(f[i - 1], t, queue[i])

LEMMA ArrivalsExist ==
  ASSUME NEW e, NEW t, NEW queue, NEW n \in Nat
  PROVE  \E f : FirstOf(e, t, queue, n, f)
<1>. DEFINE P == {m \in Nat : \E f : FirstOf(e, t, queue, m, f)}
<1>1. 0 \in P
  <2>. DEFINE f == [i \in 0 .. 0 |-> e]
  <2>1. DOMAIN f = 0 .. 0 /\ f[0] = e /\ f = [i \in 0 .. 0 |-> f[i]] /\ 1 .. 0 = {}
    OBVIOUS
  <2>. HIDE DEF f
  <2>2. FirstOf(e, t, queue, 0, f)
    BY <2>1 DEF FirstOf
  <2>. QED  BY <2>2
<1>2. ASSUME NEW m \in Nat, m \in P
      PROVE  m + 1 \in P
  <2>1. PICK f : FirstOf(e, t, queue, m, f)
    BY <1>2
  <2>. DEFINE last == Arrived(f[m], t, queue[m + 1])
              g == [i \in 0 .. m + 1 |-> IF i <= m THEN f[i] ELSE last]
  <2>. HIDE DEF last
  <2>2. /\ g[m + 1] = last /\ \A i \in 0 .. m : g[i] = f[i]
        /\ DOMAIN g = 0 .. m + 1 /\ g = [i \in 0 .. m + 1 |-> g[i]] /\ m \in 0 .. m /\ 0 \in 0 .. m
    OBVIOUS
  <2>. HIDE DEF g
  <2>3. ASSUME NEW i \in 1 .. m + 1
        PROVE  g[i] = Arrived(g[i - 1], t, queue[i])
    <3>1. CASE i = m + 1
      <4>1. i - 1 = m
        BY <3>1
      <4>. QED  BY <2>2, <3>1, <4>1 DEF last
    <3>2. CASE i # m + 1
      <4>1. i - 1 \in 0 .. m /\ i \in 0 .. m /\ i \in 1 .. m
        BY <3>2
      <4>. QED  BY <2>1, <2>2, <4>1 DEF FirstOf
    <3>. QED  BY <3>1, <3>2
  <2>4. FirstOf(e, t, queue, m + 1, g)
    BY <2>1, <2>2, <2>3 DEF FirstOf
  <2>. QED  BY <2>4
<1>. HIDE DEF P
<1>3. n \in P
  BY <1>1, <1>2, ByStep
<1>. QED  BY <1>3 DEF P

LEMMA AfterIs ==
  ASSUME NEW e, NEW t, NEW M, NEW queue \in Seq(M)
  PROVE  \E f : FirstOf(e, t, queue, Len(queue), f) /\ After(e, t, queue) = f[Len(queue)]
<1>. DEFINE n == Len(queue)
<1>0. n \in Nat
  OBVIOUS
<1>1. PICK f : FirstOf(e, t, queue, n, f)
  BY <1>0, ArrivalsExist
<1>2. \A i \in 0 .. n :
        f[i] = IF i = 0 THEN e ELSE IF queue[i].t = t THEN Handle(f[i - 1], queue[i]) ELSE f[i - 1]
  <2>1. TAKE i \in 0 .. n
  <2>2. i = 0 \/ i \in 1 .. n
    BY <1>0
  <2>. QED  BY <1>0, <1>1, <2>2 DEF FirstOf, Arrived
<1>3. f = [i \in 0 .. n |-> f[i]]
  BY <1>1 DEF FirstOf
<1>4. f = Arrivals(e, t, queue, f)
  BY <1>2, <1>3, Zenon DEF Arrivals
<1>. DEFINE g == CHOOSE h : h = Arrivals(e, t, queue, h)
<1>5. g = Arrivals(e, t, queue, g)
  BY <1>4, Zenon
<1>6. After(e, t, queue) = g[n]
  BY DEF After, Arrivals
<1>. HIDE DEF g
<1>7. /\ DOMAIN g = 0 .. n /\ g = [i \in 0 .. n |-> g[i]]
      /\ \A i \in 0 .. n :
           g[i] = IF i = 0 THEN e ELSE IF queue[i].t = t THEN Handle(g[i - 1], queue[i]) ELSE g[i - 1]
  BY <1>5 DEF Arrivals
<1>8. g[0] = e /\ \A i \in 1 .. n : g[i] = Arrived(g[i - 1], t, queue[i])
  <2>1. 0 \in 0 .. n /\ \A i \in 1 .. n : i \in 0 .. n /\ i # 0
    BY <1>0
  <2>. QED  BY <1>7, <2>1 DEF Arrived
<1>. QED  BY <1>6, <1>7, <1>8 DEF FirstOf

LEMMA Arrives ==
  ASSUME NEW e \in Entries, NEW t, NEW queue \in Seq(Messages), NEW ends, Copied(e, t, queue, ends), e.here,
         NEW shown, shown = After(e, t, queue)
  PROVE  /\ ~shown.awaiting => shown.data \in ends
         /\ ~e.awaiting \/ Snapshots(queue, t) => ~shown.awaiting
<1>. DEFINE n == Len(queue)
<1>0. n \in Nat /\ DOMAIN queue = 1 .. n
  OBVIOUS
<1>1. PICK g : Trail(t, queue, g) /\ g[n] \in ends /\ (e.here /\ ~e.awaiting => e.data = g[0])
  BY DEF Copied
<1>2. PICK f : FirstOf(e, t, queue, n, f) /\ After(e, t, queue) = f[n]
  BY AfterIs
<1>. HIDE DEF n
<1>. DEFINE P == {m \in Nat : m <= n =>
                   /\ f[m] \in Entries /\ f[m].here /\ (~f[m].awaiting => f[m].data = g[m])
                   /\ ~e.awaiting \/ (\E i \in 1 .. m : queue[i].t = t /\ queue[i].kind = "value")
                        => ~f[m].awaiting}
<1>3. 0 \in P
  <2>1. f[0] = e /\ 1 .. 0 = {}
    BY <1>2 DEF FirstOf
  <2>. QED  BY <1>1, <2>1
<1>4. ASSUME NEW m \in Nat, m \in P, m + 1 <= n
      PROVE  m + 1 \in P
  <2>1. m + 1 \in 1 .. n /\ (m + 1) - 1 = m /\ m <= n
    BY <1>0, <1>4
  <2>2. f[m + 1] = Arrived(f[m], t, queue[m + 1])
    BY <1>2, <2>1 DEF FirstOf
  <2>3. IF queue[m + 1].t = t THEN Makes(queue[m + 1], g[m], g[m + 1]) ELSE g[m + 1] = g[m]
    <3>1. IF queue[m + 1].t = t THEN Makes(queue[m + 1], g[(m + 1) - 1], g[m + 1])
          ELSE g[m + 1] = g[(m + 1) - 1]
      BY <1>1, <2>1 DEF Trail, n
    <3>. QED  BY <2>1, <3>1
  <2>4. /\ f[m] \in Entries /\ f[m].here /\ (~f[m].awaiting => f[m].data = g[m])
        /\ ~e.awaiting \/ (\E i \in 1 .. m : queue[i].t = t /\ queue[i].kind = "value") => ~f[m].awaiting
    BY <1>4, <2>1
  <2>5. \A i \in 1 .. m + 1 : i \in 1 .. m \/ i = m + 1
    OBVIOUS
  <2>6. CASE queue[m + 1].t = t
    <3>1. /\ f[m + 1] \in Entries /\ f[m + 1].here
          /\ ~f[m + 1].awaiting => f[m + 1].data = g[m + 1]
          /\ queue[m + 1].kind = "value" => ~f[m + 1].awaiting
          /\ f[m + 1].awaiting => f[m].awaiting
      BY <2>2, <2>3, <2>4, <2>6, Handles DEF Arrived
    <3>. QED  BY <2>4, <2>5, <3>1
  <2>7. CASE queue[m + 1].t # t
    <3>1. f[m + 1] = f[m] /\ g[m + 1] = g[m]
      BY <2>2, <2>3, <2>7 DEF Arrived
    <3>. QED  BY <2>4, <2>5, <2>7, <3>1
  <2>. QED  BY <2>6, <2>7
<1>5. \A m \in Nat : m \in P => m + 1 \in P
  <2>1. ASSUME NEW m \in Nat, ~(m + 1 <= n)
        PROVE  m + 1 \in P
    BY <1>0, <2>1
  <2>. HIDE DEF P
  <2>. QED  BY <1>4, <2>1
<1>6. n \in P
  <2>. HIDE DEF P
  <2>. QED  BY <1>0, <1>3, <1>5, ByStep
<1>7. /\ ~f[n].awaiting => f[n].data = g[n]
      /\ ~e.awaiting \/ (\E i \in 1 .. n : queue[i].t = t /\ queue[i].kind = "value") => ~f[n].awaiting
  BY <1>0, <1>6
<1>8. Snapshots(queue, t) => \E i \in 1 .. n : queue[i].t = t /\ queue[i].kind = "value"
  BY <1>0 DEF Snapshots
<1>. QED  BY <1>1, <1>2, <1>7, <1>8

PageInv ==
  /\ FlagsOK /\ ServesOK /\ BuildsOK /\ LinkOK /\ PageOK /\ FreeOut /\ Copies /\ AnswersOK

LEMMA PageAlways == Spec => []PageInv
<1>1. Init => PageInv
  <2>. SUFFICES ASSUME Init PROVE PageInv
    OBVIOUS
  <2>0. MaxUpsets \in 0 .. MaxUpsets
    BY LiveAssumption
  <2>1. FlagsOK
    <3>1. /\ owed = {} /\ waking = {} /\ marked = {} /\ wake = FALSE /\ retry = FALSE /\ loop = "idle"
          /\ hot = {} /\ left = MaxUpsets
      BY DEF Init
    <3>. QED  BY <2>0, <3>1 DEF FlagsOK
  <2>2. Serves(NoConn)
    BY LiveAssumption DEF Serves, NoConn
  <2>3. NoEntry \in Entries
    BY DEF NoEntry, Entries
  <2>4. ServesOK /\ LinkOK /\ PageOK /\ FreeOut /\ Copies /\ AnswersOK
    BY <2>2, <2>3 DEF Init, ServesOK, LinkOK, PageOK, FreeOut, Copies, AnswersOK
  <2>5. BuildsOK
    BY DEF Init, BuildsOK, NoConn
  <2>. QED  BY <2>1, <2>4, <2>5 DEF PageInv
<1>2. LiveInv /\ PageInv /\ [Next]_vars => PageInv'
  BY FlagsKept, ServesKept, BuildsKept, LinkKept, FreeKept, CopiesKept, AnswersKept DEF LiveInv, PageInv
<1>. QED  BY <1>1, <1>2, LiveAlways, PTL DEF Spec

\* Every variable has its type, whatever the order of what the pages ask, what the
\* refreshes read and what the connections lose, and nothing is left of a topic that
\* nobody refers to (acquire, release).
THEOREM LiveTypeCorrect == Spec => []TypeOK
<1>1. LiveInv /\ PageInv => TypeOK
  <2>. SUFFICES ASSUME LiveInv, PageInv PROVE TypeOK
    OBVIOUS
  <2>. USE DEF LiveInv, PageInv
  <2>1. \A t \in Topic : refs[t] \in Nat
    BY RefsNat
  <2>2. refs \in [Topic -> Nat]
    BY <2>1 DEF HubOK
  <2>3. ASSUME NEW c \in Conn
        PROVE  /\ conn[c].st \in {"free", "open", "closing"} /\ conn[c].done \in BOOLEAN
               /\ conn[c].holds \subseteq Topic /\ Len(conn[c].out) <= Buffer
               /\ conn[c].reader \in ReaderPc /\ conn[c].closing \subseteq Topic
               /\ conn[c].closer \in {"none", "detach", "release"}
               /\ conn[c].closer # "none" => conn[c].st = "closing" /\ conn[c].at \in Topic
               /\ conn[c].reader # "read" => conn[c].ask \in Asks
    <3>1. ConnOK(conn[c]) /\ Serves(conn[c])
      BY DEF ConnsOK, ServesOK
    <3>2. conn[c].closer # "none" => conn[c].st = "closing"
      BY <3>1 DEF Serves, NoConn
    <3>. QED  BY <3>1, <3>2 DEF ConnOK, Serves
  <2>4. \A t \in Topic : refs[t] = 0 =>
          t \notin dirty \cup hot \cup todo /\ val[t] = None /\ mu[t] = None /\ subs[t] = {}
    BY DEF Absent, BuildsOK
  <2>5. link \in Conn \cup {None} /\ page \in [Topic -> Entries]
    BY DEF LinkOK, PageOK
  <2>. QED  BY <2>2, <2>3, <2>4, <2>5 DEF TypeOK, HubOK, FlagsOK, Asks, Entries
<1>. QED  BY <1>1, LiveAlways, PageAlways, PTL

\* What is on its way to a page brings it to what the topic last showed its
\* subscribers: for any number of pages and topics, through lost connections,
\* queues that overflow and rebuilds that come between a subscription and its
\* snapshot, no patch is lost, sent out of order, or applied to another value than
\* it was made from (subscribe, rebuild, send, handle).
THEOREM PagesFollow == Spec => []CopyFollows
<1>1. LiveInv /\ PageInv => CopyFollows
  <2>. SUFFICES ASSUME LiveInv, PageInv, NEW t \in Topic, link # None,
                       conn[link].st = "open", ~conn[link].done, link \in subs[t], page[t].here,
                       ~\E i \in DOMAIN conn[link].up : conn[link].up[i].t = t,
                       ~(conn[link].reader # "read" /\ conn[link].ask.t = t),
                       NEW shown, shown = After(page[t], t, conn[link].out)
               PROVE  ~shown.awaiting /\ shown.data = val[t]
    BY DEF CopyFollows
  <2>. USE DEF PageInv
  <2>1. page[t] \in Entries /\ conn[link].out \in Seq(Messages)
    BY DEF PageOK, LinkOK, ServesOK, Serves
  <2>2. Copied(page[t], t, conn[link].out, {val[t]})
    BY DEF Copies, Ends
  <2>3. ~page[t].awaiting \/ Snapshots(conn[link].out, t)
    BY DEF AnswersOK, Answered, Pending
  <2>. QED  BY <2>1, <2>2, <2>3, Arrives
<1>. QED  BY <1>1, LiveAlways, PageAlways, PTL
==============================================================================
