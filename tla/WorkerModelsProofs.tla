--------------------------- MODULE WorkerModelsProofs ---------------------------
(* What WorkerModels promises, for any number of calls, models and locks.        *)
EXTENDS WorkerModels, FiniteSetTheorems, TLAPS

Where == {"idle"} \cup AudioAt \cup LlmAt
HoldAt == AudioAt \ {"wait"}
Holding(l) == {c \in Call : l[c] \in HoldAt}
Holders == Holding(at)
Users(m) == {c \in Call : at[c] = "run" /\ wants[c] = m}
Waiter == [call : Call, kind : Kind]

\* The queue holds calls that wait, each once.
Queued ==
  /\ \A i \in 1..Len(queue) :
       at[queue[i].call] = "wait" /\ wants[queue[i].call] = queue[i].kind
  /\ \A i, j \in 1..Len(queue) : queue[i].call = queue[j].call => i = j

\* The gate counts who holds it, and all of them are of the active kind.
Counted ==
  /\ count = Cardinality(Holders)
  /\ \A c \in Call : at[c] \in HoldAt => wants[c] = active /\ active \in Kind

\* Who waits is in the queue, and there is one only while the gate is held.
Awaited ==
  /\ \A c \in Call : at[c] = "wait" => \E i \in 1..Len(queue) : queue[i].call = c
  /\ queue # <<>> => count # 0

GateInv == Queued /\ Counted /\ Awaited

\* A model is reserved by as many calls as use it.
Reserved == \A m \in Kind : inFlight[m] = Cardinality(Users(m))

\* The LLM's gate is held by who is between taking it and giving it back.
LlmInv ==
  /\ \A c \in Call : at[c] \in {"drain", "open", "free"} <=> llmWriter = c
  /\ \A c \in Call : at[c] = "answer" <=> c \in llmReaders
  /\ \A c \in Call : at[c] \in LlmAt => wants[c] = Llm

\* A model is loaded into a VRAM that has none; until then what is left of the
\* others is under the locks still to be taken.
Evicted ==
  /\ \A c \in Call : at[c] = "load" => resident \cap Kind = {}
  /\ \A c, d \in Call : at[c] = "load" /\ at[d] = "load" => c = d
  /\ \A c \in Call : at[c] = "evict" =>
       \A m \in resident \cap Kind :
         m = wants[c] \/ Guard[m] = Guard[wants[c]] \/ Guard[m] \in todo[c]
  /\ \A m, n \in resident \cap Kind : m = n

\* As long as they do not overlap, each side loads into a VRAM rid of the other.
Apart ==
  ~mixed =>
    /\ \A c, d \in Call : ~(at[c] \in AudioAt /\ at[d] \in LlmAt)
    /\ \A c \in Call : at[c] \in {"evict", "load"} => Llm \notin resident
    /\ \A c \in Call : at[c] = "free" =>
         Llm \notin resident /\ \A m \in resident \cap Kind : Guard[m] \in todo[c]
    /\ ~(Llm \in resident /\ resident \cap Kind # {})

ModelsInv == ModelsTypeOK /\ GateInv /\ Reserved /\ LlmInv /\ Evicted /\ Apart
--------------------------------------------------------------------------------
(* The gate.                                                                    *)

\* Admit, of values: the queue, count, kind and places before and after.
Admits(q, n, a, l, q2, n2, a2, l2) ==
  LET k == IF n = 0 /\ q # <<>> THEN q[1].kind ELSE a
  IN \E i \in 0..Len(q) :
       /\ \A j \in 1..i : q[j].kind = k
       /\ i < Len(q) => q[i + 1].kind # k
       /\ q2 = SubSeq(q, i + 1, Len(q))
       /\ n2 = n + i
       /\ a2 = k
       /\ l2 = [c \in Call |-> IF \E j \in 1..i : q[j].call = c THEN "look" ELSE l[c]]

\* What it promises.
Admitted(q, n, a, l, q2, n2, a2, l2) ==
  /\ l2 \in [Call -> Where]
  /\ a2 \in Kind \cup {None} /\ (a2 = a \/ n = 0)
  /\ q2 \in Seq(Waiter)
  /\ n2 = Cardinality(Holding(l2)) /\ n2 \in Nat
  /\ \A c \in Call : l2[c] # l[c] =>
       /\ l[c] = "wait" /\ l2[c] = "look"
       /\ \E j \in 1..Len(q) : q[j].call = c /\ q[j].kind = a2
  /\ \A i \in 1..Len(q2) :
       /\ l2[q2[i].call] = "wait"
       /\ \E j \in 1..Len(q) : q2[i] = q[j]
  /\ \A i, j \in 1..Len(q2) : q2[i].call = q2[j].call => i = j
  /\ \A i, j \in 1..Len(q) :
       l2[q[j].call] = "look" /\ l2[q[i].call] = "wait" => j < i
  /\ \A j \in 1..Len(q) :
       l2[q[j].call] = "wait" => \E i \in 1..Len(q2) : q2[i] = q[j]
  /\ q2 # <<>> => n2 # 0

\* What admitting does to a queue q, with n holders and calls where l says.
LEMMA Admitting ==
  ASSUME IsFiniteSet(Call), NEW a \in Kind \cup {None},
         NEW q \in Seq(Waiter), NEW l \in [Call -> Where], NEW n,
         NEW q2, NEW l2, NEW n2, NEW a2,
         n = Cardinality(Holding(l)),
         \A i \in 1..Len(q) : l[q[i].call] = "wait",
         \A i, j \in 1..Len(q) : q[i].call = q[j].call => i = j,
         Admits(q, n, a, l, q2, n2, a2, l2)
  PROVE  Admitted(q, n, a, l, q2, n2, a2, l2)
<1> DEFINE H == Holding(l)
           k == IF n = 0 /\ q # <<>> THEN q[1].kind ELSE a
<1>1. PICK i \in 0..Len(q) :
        /\ \A j \in 1..i : q[j].kind = k
        /\ i < Len(q) => q[i + 1].kind # k
        /\ q2 = SubSeq(q, i + 1, Len(q))
        /\ n2 = n + i
        /\ a2 = k
        /\ l2 = [c \in Call |-> IF \E j \in 1..i : q[j].call = c THEN "look" ELSE l[c]]
  BY DEF Admits
<1> DEFINE In == {q[j].call : j \in 1..i}
           f == [j \in 1..i |-> q[j].call]
<1>2. \A j \in 1..Len(q) : q[j] \in Waiter /\ q[j].call \in Call /\ q[j].kind \in Kind
  <2>1. \A j \in 1..Len(q) : q[j] \in Waiter
    OBVIOUS
  <2> QED
    BY <2>1 DEF Waiter
<1>3. 1..i \subseteq 1..Len(q) /\ i \in Nat /\ Len(q) \in Nat
  OBVIOUS
<1>4. Cardinality(In) = i /\ IsFiniteSet(In)
  <2>1. f \in Surjection(1..i, In)
    BY DEF Surjection
  <2>2. f \in Injection(1..i, In)
    BY <2>1, <1>3 DEF Surjection, Injection, IsInjective
  <2>3. IsFiniteSet(1..i) /\ Cardinality(1..i) = i
    <3> i \in Nat
      BY <1>3
    <3>1. Cardinality(1..i) = IF 1 > i THEN 0 ELSE i - 1 + 1
      BY FS_Interval
    <3> QED
      BY <3>1, FS_Interval
  <2> QED
    BY <2>1, <2>2, <2>3, FS_Surjection
<1>5. H \cap In = {} /\ "look" \in HoldAt /\ "wait" \notin HoldAt /\ "look" \in Where
  BY <1>3 DEF HoldAt, AudioAt, Where, Holding
<1>6. Holding(l2) = H \cup In
  BY <1>1, <1>2, <1>3, <1>5 DEF Holding
<1>7. IsFiniteSet(H) /\ n \in Nat
  BY FS_Subset, FS_CardinalityType DEF Holding
<1>8. Cardinality(H \cup In) = n + i
  <2>1. Cardinality(H \cap In) = 0
    BY <1>5, FS_EmptySet
  <2>2. Cardinality(H \cup In) = Cardinality(H) + Cardinality(In) - Cardinality(H \cap In)
    BY <1>4, <1>7, FS_Union
  <2>3. n = Cardinality(H)
    OBVIOUS
  <2> HIDE DEF H, In
  <2> QED
    BY <2>1, <2>2, <2>3, <1>4, <1>7, <1>3
<1>9. l2 \in [Call -> Where]
  BY <1>1, <1>5
<1>10. a2 \in Kind \cup {None} /\ (a2 = a \/ n = 0)
  <2>1. CASE n = 0 /\ q # <<>>
    BY <1>1, <1>2, <2>1
  <2>2. CASE ~(n = 0 /\ q # <<>>)
    BY <1>1, <2>2
  <2> QED
    BY <2>1, <2>2
<1>11. /\ q2 \in Seq(Waiter)
       /\ Len(q2) = Len(q) - i
       /\ \A h \in 1..Len(q2) : q2[h] = q[h + i] /\ h + i \in 1..Len(q)
  BY <1>1, <1>2, <1>3
<1>12. \A c \in Call : l2[c] # l[c] =>
         /\ l[c] = "wait" /\ l2[c] = "look"
         /\ \E j \in 1..Len(q) : q[j].call = c /\ q[j].kind = a2
  BY <1>1, <1>3
<1>13. \A h \in 1..Len(q) : l2[q[h].call] = IF h <= i THEN "look" ELSE "wait"
  BY <1>1, <1>2, <1>3
<1>14. \A h \in 1..Len(q2) :
         l2[q2[h].call] = "wait" /\ \E j \in 1..Len(q) : q2[h] = q[j]
  <2> TAKE h \in 1..Len(q2)
  <2>1. q2[h] = q[h + i] /\ h + i \in 1..Len(q) /\ ~(h + i <= i)
    BY <1>11, <1>3
  <2> QED
    BY <2>1, <1>13
<1>15. \A h, j \in 1..Len(q2) : q2[h].call = q2[j].call => h = j
  <2> TAKE h, j \in 1..Len(q2)
  <2>1. /\ q2[h] = q[h + i] /\ h + i \in 1..Len(q)
        /\ q2[j] = q[j + i] /\ j + i \in 1..Len(q)
    BY <1>11
  <2>2. q[h + i].call = q[j + i].call => h + i = j + i
    BY <2>1
  <2> QED
    BY <2>1, <2>2, <1>3, <1>11
<1>16. \A h, j \in 1..Len(q) :
         l2[q[j].call] = "look" /\ l2[q[h].call] = "wait" => j < h
  BY <1>13, <1>3
<1>17. n2 = Cardinality(Holding(l2)) /\ n2 \in Nat
  <2>1. n2 = n + i
    BY <1>1
  <2>2. Cardinality(Holding(l2)) = n + i
    BY <1>6, <1>8
  <2> QED
    BY <2>1, <2>2, <1>3, <1>7
<1>18. ASSUME NEW j \in 1..Len(q), l2[q[j].call] = "wait"
       PROVE  \E h \in 1..Len(q2) : q2[h] = q[j]
  <2>1. j > i
    BY <1>13, <1>18
  <2>2. j - i \in 1..Len(q2) /\ (j - i) + i = j
    BY <2>1, <1>3, <1>11
  <2> QED
    BY <2>2, <1>11
<1>19. q2 # <<>> => n2 # 0
  <2> SUFFICES ASSUME q2 # <<>>, n2 = 0 PROVE FALSE
    OBVIOUS
  <2>1. n = 0 /\ i = 0
    BY <1>1, <1>3, <1>7
  <2>2. Len(q) > 0 /\ q # <<>>
    BY <2>1, <1>3, <1>11
  <2>3. q[1].kind # k
    BY <1>1, <1>3, <2>1, <2>2
  <2> QED
    BY <2>1, <2>2, <2>3
<1> HIDE DEF H, k, In, f
<1> QED
  BY <1>9, <1>10, <1>11, <1>12, <1>14, <1>15, <1>16, <1>17, <1>18, <1>19 DEF Admitted

\* A step that leaves the gate and who waits for it or holds it alone.
LEMMA GateKept ==
  ASSUME GateInv, UNCHANGED gate,
         \A c \in Call : at'[c] \in HoldAt <=> at[c] \in HoldAt,
         \A c \in Call : at'[c] = "wait" <=> at[c] = "wait",
         \A c \in Call : at[c] \in AudioAt => wants'[c] = wants[c],
         queue \in Seq(Waiter)
  PROVE  GateInv'
<1>1. Holders' = Holders
  BY DEF Holders, Holding
<1>2. Counted'
  BY <1>1 DEF GateInv, Counted, gate, HoldAt
<1>3. Queued'
  <2>1. \A i \in 1..Len(queue) : queue[i] \in Waiter
    OBVIOUS
  <2>2. \A i \in 1..Len(queue) : queue[i].call \in Call
    BY <2>1 DEF Waiter
  <2> QED
    BY <2>2 DEF GateInv, Queued, gate, AudioAt
<1>4. Awaited'
  BY DEF GateInv, Awaited, gate
<1> QED
  BY <1>2, <1>3, <1>4 DEF GateInv

\* No holder: the kind may change.
LEMMA NobodyHolds ==
  ASSUME IsFiniteSet(Call), Counted, count = 0
  PROVE  \A c \in Call : at[c] \notin HoldAt
<1>1. IsFiniteSet(Holders)
  BY FS_Subset DEF Holders, Holding
<1>2. Holders = {}
  BY <1>1, FS_EmptySet DEF Counted
<1> QED
  BY <1>2 DEF Holders, Holding

\* What a call that takes or gives back the gate does to the others.
GateMoved(c) ==
  /\ at' \in [Call -> Where] /\ active' \in Kind \cup {None}
  /\ queue' \in Seq(Waiter) /\ count' \in Nat
  /\ at'[c] \in {"idle", "wait", "look"}
  /\ \A d \in Call \ {c} : at'[d] # at[d] => at[d] = "wait" /\ at'[d] = "look"

\* The body of NotOvertaken.
InOrder ==
  \A i \in 1..Len(queue), d \in Call :
    ~Holds(d) /\ Holds(d)' /\ at'[queue[i].call] = "wait"
    => \E j \in 1..(i - 1) : queue[j].call = d

LEMMA AcquireKeepsGate ==
  ASSUME ModelsAssumption, ModelsTypeOK, GateInv, NEW c \in Call, NEW m \in Kind,
         Acquire(c, m)
  PROVE  GateInv' /\ GateMoved(c) /\ InOrder
<1>1. at[c] = "idle" /\ c \notin Holders /\ IsFiniteSet(Call) /\ IsFiniteSet(Holders)
  BY FS_Subset DEF Acquire, ModelsAssumption, Holders, Holding, HoldAt, AudioAt
<1>2. wants' = [wants EXCEPT ![c] = m] /\ wants \in [Call -> Kind \cup {Llm, None}]
      /\ at \in [Call -> Where]
  BY DEF Acquire, ModelsTypeOK, Where
<1>3. \A i \in 1..Len(queue) :
        queue[i] \in Waiter /\ queue[i].call \in Call /\ queue[i].call # c
  <2>1. queue \in Seq(Waiter)
    BY DEF ModelsTypeOK, Waiter
  <2>2. \A i \in 1..Len(queue) : queue[i] \in Waiter
    BY <2>1
  <2> QED
    BY <2>2, <1>1 DEF Waiter, GateInv, Queued
<1>4. CASE queue = <<>> /\ (count = 0 \/ active = m)
  <2>1. active' = m /\ count' = count + 1 /\ at' = [at EXCEPT ![c] = "look"] /\ queue' = queue
    BY <1>4 DEF Acquire, GoTo
  <2>2. Holders' = Holders \cup {c}
    BY <2>1, <1>2 DEF Holders, Holding, HoldAt, AudioAt
  <2>3. Cardinality(Holders') = Cardinality(Holders) + 1
    BY <2>2, <1>1, FS_AddElement
  <2>4. \A d \in Call : at[d] \in HoldAt => active = m
    BY <1>4, <1>1, NobodyHolds DEF GateInv
  <2>5. Counted'
    BY <2>1, <2>3, <2>4, <1>2 DEF GateInv, Counted
  <2>6. Queued'
    BY <2>1, <1>4 DEF Queued
  <2>7. GateMoved(c)
    BY <2>1, <1>2 DEF GateMoved, ModelsTypeOK, Waiter, Where, AudioAt
  <2>9. Awaited'
    BY <2>1, <1>2, <1>4 DEF Awaited, GateInv
  <2>8. InOrder
    BY <1>4 DEF InOrder
  <2> QED
    BY <2>5, <2>6, <2>7, <2>8, <2>9 DEF GateInv
<1>5. CASE ~(queue = <<>> /\ (count = 0 \/ active = m))
  <2> DEFINE e == [call |-> c, kind |-> m]
             q == Append(queue, e)
             l == [at EXCEPT ![c] = "wait"]
  <2>1. Admit(q, count, l)
    BY <1>5 DEF Acquire
  <2>2. e \in Waiter /\ queue \in Seq(Waiter)
    BY DEF Waiter, ModelsTypeOK
  <2>3. /\ q \in Seq(Waiter) /\ Len(q) = Len(queue) + 1 /\ Len(queue) \in Nat
        /\ \A i \in 1..Len(queue) : q[i] = queue[i]
        /\ q[Len(queue) + 1] = e
    BY <2>2
  <2>4. l \in [Call -> Where] /\ l[c] = "wait" /\ \A d \in Call \ {c} : l[d] = at[d]
    BY <1>2 DEF Where, AudioAt
  <2>5. \A i \in 1..Len(q) : i \in 1..Len(queue) \/ i = Len(queue) + 1
    BY <2>3
  <2> HIDE DEF q, l
  <2>6. \A i \in 1..Len(q) :
          l[q[i].call] = "wait" /\ wants'[q[i].call] = q[i].kind /\ q[i].call \in Call
    BY <2>3, <2>4, <2>5, <1>2, <1>3 DEF GateInv, Queued
  <2>7. \A i, j \in 1..Len(q) : q[i].call = q[j].call => i = j
    BY <2>3, <2>5, <1>3 DEF GateInv, Queued
  <2>8. Holding(l) = Holders
    BY <2>4, <1>1 DEF Holders, Holding, HoldAt
  <2>9. count = Cardinality(Holding(l))
    BY <2>8 DEF GateInv, Counted
  <2>10. active \in Kind \cup {None}
    BY DEF ModelsTypeOK
  <2>11. /\ active' \in Kind \cup {None} /\ (active' = active \/ count = 0)
         /\ count' = Cardinality(Holding(at'))
         /\ \A d \in Call : at'[d] # l[d] =>
               \E j \in 1..Len(q) : q[j].call = d /\ q[j].kind = active'
         /\ \A i \in 1..Len(queue') :
               at'[queue'[i].call] = "wait" /\ \E j \in 1..Len(q) : queue'[i] = q[j]
         /\ \A i, j \in 1..Len(queue') : queue'[i].call = queue'[j].call => i = j
         /\ at' \in [Call -> Where] /\ queue' \in Seq(Waiter) /\ count' \in Nat
         /\ \A d \in Call : at'[d] # l[d] => l[d] = "wait" /\ at'[d] = "look"
         /\ \A i, j \in 1..Len(q) :
               at'[q[j].call] = "look" /\ at'[q[i].call] = "wait" => j < i
         /\ \A j \in 1..Len(q) :
               at'[q[j].call] = "wait" => \E i \in 1..Len(queue') : queue'[i] = q[j]
         /\ queue' # <<>> => count' # 0
    <3>1. q \in Seq(Waiter) /\ l \in [Call -> Where] /\ IsFiniteSet(Call)
      BY <2>3, <2>4, <1>1
    <3>2. \A i \in 1..Len(q) : l[q[i].call] = "wait"
      BY <2>6
    <3>3. Admits(q, count, active, l, queue', count', active', at')
      BY <2>1 DEF Admit, Admits
    <3>4. Admitted(q, count, active, l, queue', count', active', at')
      BY <3>1, <3>2, <3>3, <2>7, <2>9, <2>10, Admitting
    <3> HIDE DEF e
    <3> QED
      BY <3>4 DEF Admitted
  <2>12. Queued'
    BY <2>11, <2>6 DEF Queued
  <2>13. ASSUME NEW d \in Call, at'[d] \in HoldAt
         PROVE  wants'[d] = active' /\ active' \in Kind
    <3>1. CASE at'[d] = l[d]
      <4>1. d # c /\ at[d] \in HoldAt
        BY <3>1, <2>13, <2>4 DEF HoldAt
      <4>2. wants[d] = active /\ active \in Kind /\ active' = active
        BY <4>1, <1>1, <2>11, NobodyHolds DEF GateInv, Counted
      <4> QED
        BY <4>1, <4>2, <1>2
    <3>2. CASE at'[d] # l[d]
      <4>1. PICK j \in 1..Len(q) : q[j].call = d /\ q[j].kind = active'
        BY <3>2, <2>11
      <4>2. q[j] \in Waiter
        BY <2>3
      <4> QED
        BY <4>1, <4>2, <2>6 DEF Waiter
    <3> QED
      BY <3>1, <3>2
  <2>14. Counted'
    BY <2>11, <2>13 DEF Counted, Holders, Holding
  <2>15. GateMoved(c)
    BY <2>4, <2>11 DEF GateMoved
  <2>16. InOrder
    <3> SUFFICES ASSUME NEW i \in 1..Len(queue), NEW d \in Call,
                        at[d] \notin HoldAt, at'[d] \in HoldAt, at'[queue[i].call] = "wait"
                 PROVE  \E j \in 1..(i - 1) : queue[j].call = d
      BY DEF InOrder, Holds, HoldAt
    <3>1. at'[d] # l[d]
      BY <2>4 DEF HoldAt
    <3>2. PICK j \in 1..Len(q) : q[j].call = d /\ at'[q[j].call] = "look"
      BY <3>1, <2>11
    <3>3. q[i] = queue[i] /\ i \in 1..Len(q)
      BY <2>3
    <3>4. j < i
      BY <3>2, <3>3, <2>11
    <3> QED
      BY <3>2, <3>4, <2>3
  <2>17. Awaited'
    <3>1. ASSUME NEW d \in Call, at'[d] = "wait"
          PROVE  \E j \in 1..Len(q) : q[j].call = d
      <4>1. l[d] = "wait"
        BY <3>1, <2>11
      <4>2. CASE d = c
        BY <4>2, <2>3
      <4>3. CASE d # c
        BY <4>1, <4>3, <2>3, <2>4 DEF GateInv, Awaited
      <4> QED
        BY <4>2, <4>3
    <3>2. ASSUME NEW d \in Call, at'[d] = "wait"
          PROVE  \E i \in 1..Len(queue') : queue'[i].call = d
      <4>1. PICK j \in 1..Len(q) : q[j].call = d
        BY <3>1, <3>2
      <4> QED
        BY <4>1, <3>2, <2>11
    <3> QED
      BY <3>2, <2>11 DEF Awaited
  <2> QED
    BY <2>12, <2>14, <2>15, <2>16, <2>17 DEF GateInv
<1> QED
  BY <1>4, <1>5

LEMMA LeavingKeepsGate ==
  ASSUME ModelsAssumption, ModelsTypeOK, GateInv, NEW c \in Call, LeaveGate(c)
  PROVE  GateInv' /\ GateMoved(c) /\ InOrder
<1> DEFINE l == [at EXCEPT ![c] = "idle"]
<1>1. at[c] = "leave" /\ c \in Holders /\ IsFiniteSet(Call) /\ IsFiniteSet(Holders)
  BY FS_Subset DEF LeaveGate, ModelsAssumption, Holders, Holding, HoldAt, AudioAt
<1>2. wants' = [wants EXCEPT ![c] = None] /\ wants \in [Call -> Kind \cup {Llm, None}]
      /\ at \in [Call -> Where] /\ active \in Kind \cup {None}
  BY DEF LeaveGate, ModelsTypeOK, Where
<1>3. queue \in Seq(Waiter)
  BY DEF ModelsTypeOK, Waiter
<1>4. \A i \in 1..Len(queue) : queue[i] \in Waiter
  BY <1>3
<1>5. \A i \in 1..Len(queue) :
        queue[i].call \in Call /\ queue[i].call # c /\ queue[i].kind \in Kind
  BY <1>4, <1>1 DEF Waiter, GateInv, Queued
<1>6. l \in [Call -> Where] /\ l[c] = "idle" /\ \A d \in Call \ {c} : l[d] = at[d]
  BY <1>2 DEF Where
<1>7. Admit(queue, count - 1, l)
  BY DEF LeaveGate
<1> HIDE DEF l
<1>8. Holding(l) = Holders \ {c}
  BY <1>6 DEF Holders, Holding, HoldAt, AudioAt
<1>9. count - 1 = Cardinality(Holding(l))
  BY <1>1, <1>8, FS_RemoveElement DEF GateInv, Counted
<1>10. /\ \A i \in 1..Len(queue) : l[queue[i].call] = "wait"
       /\ \A i, j \in 1..Len(queue) : queue[i].call = queue[j].call => i = j
  BY <1>5, <1>6 DEF GateInv, Queued
<1>11. /\ active' \in Kind \cup {None} /\ (active' = active \/ count - 1 = 0)
       /\ count' = Cardinality(Holding(at'))
       /\ \A d \in Call : at'[d] # l[d] =>
             \E j \in 1..Len(queue) : queue[j].call = d /\ queue[j].kind = active'
       /\ \A i \in 1..Len(queue') :
             at'[queue'[i].call] = "wait" /\ \E j \in 1..Len(queue) : queue'[i] = queue[j]
       /\ \A i, j \in 1..Len(queue') : queue'[i].call = queue'[j].call => i = j
       /\ at' \in [Call -> Where] /\ queue' \in Seq(Waiter) /\ count' \in Nat
       /\ \A d \in Call : at'[d] # l[d] => l[d] = "wait" /\ at'[d] = "look"
       /\ \A i, j \in 1..Len(queue) :
             at'[queue[j].call] = "look" /\ at'[queue[i].call] = "wait" => j < i
       /\ \A j \in 1..Len(queue) :
             at'[queue[j].call] = "wait" => \E i \in 1..Len(queue') : queue'[i] = queue[j]
       /\ queue' # <<>> => count' # 0
  <2>1. l \in [Call -> Where] /\ IsFiniteSet(Call) /\ active \in Kind \cup {None}
    BY <1>1, <1>2, <1>6
  <2>2. Admits(queue, count - 1, active, l, queue', count', active', at')
    BY <1>7 DEF Admit, Admits
  <2>3. Admitted(queue, count - 1, active, l, queue', count', active', at')
    BY <2>1, <2>2, <1>3, <1>9, <1>10, Admitting
  <2> QED
    BY <2>3 DEF Admitted
<1>12. Queued'
  BY <1>11, <1>5, <1>2 DEF Queued, GateInv
<1>13. ASSUME NEW d \in Call, at'[d] \in HoldAt
       PROVE  wants'[d] = active' /\ active' \in Kind
  <2>1. CASE at'[d] = l[d]
    <3>1. d # c /\ at[d] \in HoldAt /\ d \in Holders \ {c}
      BY <2>1, <1>13, <1>6 DEF HoldAt, AudioAt, Holders, Holding
    <3>2. count - 1 # 0
      <4>1. IsFiniteSet(Holders \ {c})
        BY <1>1, FS_RemoveElement
      <4> QED
        BY <3>1, <4>1, <1>8, <1>9, FS_EmptySet
    <3>3. wants[d] = active /\ active \in Kind /\ active' = active
      BY <3>1, <3>2, <1>11 DEF GateInv, Counted
    <3> QED
      BY <3>1, <3>3, <1>2
  <2>2. CASE at'[d] # l[d]
    <3>1. PICK j \in 1..Len(queue) : queue[j].call = d /\ queue[j].kind = active'
      BY <2>2, <1>11
    <3> QED
      BY <3>1, <1>2, <1>5 DEF GateInv, Queued
  <2> QED
    BY <2>1, <2>2
<1>14. Counted'
  BY <1>11, <1>13 DEF Counted, Holders, Holding
<1>15. GateMoved(c)
  BY <1>6, <1>11 DEF GateMoved
<1>16. InOrder
  <2> SUFFICES ASSUME NEW i \in 1..Len(queue), NEW d \in Call,
                      at[d] \notin HoldAt, at'[d] \in HoldAt, at'[queue[i].call] = "wait"
               PROVE  \E j \in 1..(i - 1) : queue[j].call = d
    BY DEF InOrder, Holds, HoldAt
  <2>1. at'[d] # l[d]
    BY <1>6 DEF HoldAt, AudioAt
  <2>2. PICK j \in 1..Len(queue) : queue[j].call = d /\ at'[queue[j].call] = "look"
    BY <2>1, <1>11
  <2>3. j < i
    BY <2>2, <1>11
  <2> QED
    BY <2>2, <2>3
<1>17. Awaited'
  <2>1. ASSUME NEW d \in Call, at'[d] = "wait"
        PROVE  \E i \in 1..Len(queue') : queue'[i].call = d
    <3>1. d # c /\ at[d] = "wait"
      BY <2>1, <1>6, <1>11
    <3>2. PICK j \in 1..Len(queue) : queue[j].call = d
      BY <3>1 DEF GateInv, Awaited
    <3> QED
      BY <3>2, <2>1, <1>11
  <2> QED
    BY <2>1, <1>11 DEF Awaited
<1> QED
  BY <1>12, <1>14, <1>15, <1>16, <1>17 DEF GateInv
--------------------------------------------------------------------------------
(* What is reserved.                                                            *)

\* Only who runs with a model has reserved it, and they are of the active kind.
LEMMA InUse ==
  ASSUME ModelsAssumption, Reserved, Counted, NEW m \in Kind, inFlight[m] # 0
  PROVE  m = active /\ \E c \in Call : at[c] = "run" /\ wants[c] = m
<1>1. Users(m) # {}
  BY FS_EmptySet DEF Reserved
<1> QED
  BY <1>1 DEF Users, Counted, HoldAt, AudioAt

LEMMA ReservedInUse ==
  ASSUME ModelsAssumption, Reserved, NEW c \in Call, at[c] = "run", wants[c] \in Kind
  PROVE  inFlight[wants[c]] \in Nat /\ inFlight[wants[c]] > 0
<1>1. IsFiniteSet(Users(wants[c])) /\ c \in Users(wants[c])
  BY FS_Subset DEF ModelsAssumption, Users
<1> QED
  BY <1>1, FS_EmptySet, FS_CardinalityType DEF Reserved

LEMMA Reserving ==
  ASSUME ModelsAssumption, ModelsTypeOK, Reserved, NEW c \in Call,
         at[c] # "run", wants[c] \in Kind, Reserve(c), UNCHANGED wants
  PROVE  Reserved'
<1> SUFFICES ASSUME NEW m \in Kind PROVE inFlight'[m] = Cardinality(Users(m)')
  BY DEF Reserved
<1>1. IsFiniteSet(Users(m)) /\ c \notin Users(m)
  BY FS_Subset DEF ModelsAssumption, Users
<1>2. Users(m)' = IF m = wants[c] THEN Users(m) \cup {c} ELSE Users(m)
  BY DEF Users, Reserve, GoTo, ModelsTypeOK
<1>3. inFlight'[m] = IF m = wants[c] THEN inFlight[m] + 1 ELSE inFlight[m]
  BY DEF Reserve, ModelsTypeOK
<1>4. m = wants[c] =>
        Cardinality(Users(m) \cup {c}) = Cardinality(Users(m)) + 1
  BY <1>1, FS_AddElement
<1>5. CASE m = wants[c]
  <2>1. Users(m)' = Users(m) \cup {c}
    BY <1>2, <1>5
  <2> QED
    BY <2>1, <1>3, <1>4, <1>5 DEF Reserved
<1>6. CASE m # wants[c]
  <2>1. Users(m)' = Users(m)
    BY <1>2, <1>6
  <2> QED
    BY <2>1, <1>3, <1>6 DEF Reserved
<1> QED
  BY <1>5, <1>6

LEMMA Releasing ==
  ASSUME ModelsAssumption, ModelsTypeOK, Reserved, Counted, NEW c \in Call, Ends(c)
  PROVE  Reserved'
<1> SUFFICES ASSUME NEW m \in Kind PROVE inFlight'[m] = Cardinality(Users(m)')
  BY DEF Reserved
<1>1. at[c] = "run" /\ wants[c] \in Kind /\ IsFiniteSet(Users(m))
  BY FS_Subset DEF Ends, Counted, HoldAt, AudioAt, ModelsAssumption, Users
<1>2. Users(m)' = IF m = wants[c] THEN Users(m) \ {c} ELSE Users(m)
  BY <1>1 DEF Users, Ends, GoTo, ModelsTypeOK
<1>3. inFlight'[m] = IF m = wants[c] THEN inFlight[m] - 1 ELSE inFlight[m]
  BY DEF Ends, ModelsTypeOK
<1>4. m = wants[c] => c \in Users(m)
  BY <1>1 DEF Users
<1>5. m = wants[c] =>
        Cardinality(Users(m) \ {c}) = Cardinality(Users(m)) - 1
  BY <1>1, <1>4, FS_RemoveElement
<1>6. CASE m = wants[c]
  <2>1. Users(m)' = Users(m) \ {c}
    BY <1>2, <1>6
  <2> QED
    BY <2>1, <1>3, <1>5, <1>6 DEF Reserved
<1>7. CASE m # wants[c]
  <2>1. Users(m)' = Users(m)
    BY <1>2, <1>7
  <2> QED
    BY <2>1, <1>3, <1>7 DEF Reserved
<1> QED
  BY <1>6, <1>7

LEMMA ReservedKept ==
  ASSUME Reserved, UNCHANGED inFlight,
         \A c \in Call : at'[c] = "run" <=> at[c] = "run",
         \A c \in Call : at[c] = "run" => wants'[c] = wants[c]
  PROVE  Reserved'
<1>1. \A m : Users(m)' = Users(m)
  BY DEF Users
<1> QED
  BY <1>1 DEF Reserved
--------------------------------------------------------------------------------
(* The invariant.                                                               *)

LEMMA ModelsStart ==
  ASSUME ModelsAssumption, ModelsInit
  PROVE  ModelsInv
<1>1. ModelsTypeOK
  <2>1. at \in [Call -> {"idle"}] /\ queue \in Seq([call : Call, kind : Kind])
    BY DEF ModelsInit
  <2>2. /\ wants \in [Call -> Kind \cup {Llm, None}] /\ todo \in [Call -> SUBSET Guards]
        /\ inFlight \in [Kind -> Nat] /\ resident \subseteq Kind \cup {Llm}
    BY DEF ModelsInit, ModelsAssumption
  <2> QED
    BY <2>1, <2>2 DEF ModelsInit, ModelsTypeOK
<1>2. Holders = {} /\ \A m : Users(m) = {}
  BY DEF ModelsInit, Holders, Holding, HoldAt, AudioAt, Users
<1>3. GateInv
  BY <1>2, FS_EmptySet DEF ModelsInit, GateInv, Queued, Counted, Awaited, HoldAt, AudioAt
<1>4. Reserved
  BY <1>2, FS_EmptySet DEF ModelsInit, Reserved
<1>5. LlmInv /\ Evicted /\ Apart
  BY DEF ModelsInit, LlmInv, Evicted, Apart, LlmAt, AudioAt, ModelsAssumption
<1> QED
  BY <1>1, <1>3, <1>4, <1>5 DEF ModelsInv

\* A step that takes and gives back no gate.
Quiet ==
  /\ UNCHANGED gate
  /\ at' \in [Call -> Where]
  /\ \A c \in Call : at'[c] \in HoldAt <=> at[c] \in HoldAt
  /\ \A c \in Call : at'[c] = "wait" <=> at[c] = "wait"
  /\ \A c \in Call : at[c] \in AudioAt => wants'[c] = wants[c]

LEMMA QuietSteps ==
  ASSUME ModelsTypeOK, LlmInv, NEW c \in Call, GoesOn(c), ~LeaveGate(c)
  PROVE  Quiet
<1>1. at \in [Call -> Where] /\ wants \in [Call -> Kind \cup {Llm, None}]
  BY DEF ModelsTypeOK, Where
<1> USE <1>1 DEF Quiet, Where, HoldAt, AudioAt, LlmAt, GoTo, gate
<1>2. CASE Look(c)
  BY <1>2 DEF Look, Reserve
<1>3. CASE TakeLlm(c) \/ FreeLlm(c)
  BY <1>3 DEF TakeLlm, FreeLlm
<1>4. CASE \E g \in Guards : Evict(c, g)
  BY <1>4 DEF Evict
<1>5. CASE StartLoad(c) \/ Loaded(c)
  BY <1>5 DEF StartLoad, Loaded, Reserve
<1>6. CASE LoadFails(c) \/ Ends(c)
  BY <1>6 DEF LoadFails, Ends
<1>7. CASE IsLoaded(c) \/ LockLlm(c)
  BY <1>7 DEF IsLoaded, LockLlm
<1>8. CASE OpenLlm(c) \/ LlmLoads(c)
  BY <1>8 DEF OpenLlm, LlmLoads
<1>9. CASE Enter(c) \/ Answer(c)
  BY <1>9 DEF Enter, Answer
<1> QED
  BY <1>2, <1>3, <1>4, <1>5, <1>6, <1>7, <1>8, <1>9 DEF GoesOn

LEMMA GateStep ==
  ASSUME ModelsAssumption, ModelsInv, ModelsNext
  PROVE  GateInv' /\ InOrder
<1>1. ModelsTypeOK /\ GateInv /\ LlmInv /\ at \in [Call -> Where]
  BY DEF ModelsInv, ModelsTypeOK, Where
<1>2. CASE \E c \in Call : LeaveGate(c) \/ \E m \in Kind : Acquire(c, m)
  BY <1>1, <1>2, AcquireKeepsGate, LeavingKeepsGate
<1>3. CASE Quiet
  <2>1. GateInv'
    BY <1>1, <1>3, GateKept DEF Quiet, ModelsTypeOK, Waiter, HoldAt
  <2>2. InOrder
    BY <1>3 DEF Quiet, InOrder, Holds, HoldAt
  <2> QED
    BY <2>1, <2>2
<1>4. ASSUME NEW c \in Call, Ask(c) PROVE Quiet
  BY <1>1, <1>4 DEF Ask, Quiet, Where, HoldAt, AudioAt, LlmAt, GoTo, gate, ModelsTypeOK
<1>5. UnloadLlm \/ (\E g \in Guards : UnloadIdle(g)) => Quiet
  BY <1>1 DEF UnloadLlm, UnloadIdle, Quiet, gate
<1> QED
  BY <1>1, <1>2, <1>3, <1>4, <1>5, QuietSteps DEF ModelsNext

\* What the two kinds of gate steps do to the rest of the state.
GateOnly(c) ==
  /\ GateMoved(c)
  /\ at[c] \in {"idle", "leave"}
  /\ UNCHANGED <<todo, resident, inFlight, llm>>
  /\ wants' \in [Call -> Kind \cup {Llm, None}]
  /\ \A d \in Call \ {c} : wants'[d] = wants[d]
  /\ IF at[c] = "idle" THEN Meets(LlmAt) ELSE mixed' = mixed /\ at'[c] = "idle"

LEMMA GateOnlySteps ==
  ASSUME ModelsAssumption, ModelsTypeOK, GateInv, NEW c \in Call,
         LeaveGate(c) \/ \E m \in Kind : Acquire(c, m)
  PROVE  GateOnly(c)
<1>1. GateMoved(c) /\ wants \in [Call -> Kind \cup {Llm, None}]
  BY AcquireKeepsGate, LeavingKeepsGate DEF ModelsTypeOK
<1>2. CASE \E m \in Kind : Acquire(c, m)
  BY <1>1, <1>2 DEF Acquire, GateOnly
<1>3. CASE LeaveGate(c)
  <2>1. at'[c] = "idle"
    <3>1. \A i \in 1..Len(queue) : at[queue[i].call] = "wait"
      BY DEF GateInv, Queued
    <3>2. \A i \in 1..Len(queue) : queue[i].call # c
      BY <3>1, <1>3 DEF LeaveGate
    <3> QED
      BY <1>3, <3>2 DEF LeaveGate, Admit, ModelsTypeOK
  <2> QED
    BY <1>1, <1>3, <2>1 DEF LeaveGate, GateOnly
<1> QED
  BY <1>2, <1>3

LEMMA TypeStep ==
  ASSUME ModelsAssumption, ModelsInv, ModelsNext
  PROVE  ModelsTypeOK'
<1>1. ModelsTypeOK /\ GateInv /\ LlmInv /\ Reserved /\ Counted
  BY DEF ModelsInv, GateInv
<1> USE <1>1
<1>2. ASSUME NEW c \in Call, LeaveGate(c) \/ \E m \in Kind : Acquire(c, m)
      PROVE  ModelsTypeOK'
  <2>1. GateOnly(c)
    BY <1>2, GateOnlySteps
  <2> QED
    BY <2>1 DEF GateOnly, GateMoved, ModelsTypeOK, llm, Meets, Where, Waiter
<1>3. ASSUME NEW c \in Call, GoesOn(c), ~LeaveGate(c)
      PROVE  ModelsTypeOK'
  <2>1. at' \in [Call -> Where] /\ UNCHANGED gate
    BY <1>3, QuietSteps DEF Quiet
  <2>2. at[c] \in HoldAt => wants[c] \in Kind
    BY DEF Counted
  <2> USE <2>1, <2>2 DEF ModelsTypeOK, Where, gate, llm, HoldAt, AudioAt
  <2>3. CASE Look(c)
    <3>1. inFlight' \in [Kind -> Nat]
      BY <2>3 DEF Look, Reserve
    <3> QED
      BY <2>3, <3>1 DEF Look
  <2>4. CASE TakeLlm(c) \/ FreeLlm(c)
    <3>1. todo' \in [Call -> SUBSET Guards]
      BY <2>4 DEF TakeLlm, FreeLlm
    <3> QED
      BY <2>4, <3>1 DEF TakeLlm, FreeLlm
  <2>5. CASE \E g \in Guards : Evict(c, g)
    BY <2>5 DEF Evict
  <2>6. CASE StartLoad(c) \/ Loaded(c)
    BY <2>6 DEF StartLoad, Loaded, Reserve
  <2>7. CASE LoadFails(c)
    BY <2>7 DEF LoadFails
  <2>8. CASE Ends(c)
    <3>1. inFlight[wants[c]] \in Nat /\ inFlight[wants[c]] > 0
      BY <2>8, ReservedInUse DEF Ends
    <3> QED
      BY <2>8, <3>1 DEF Ends
  <2>9. CASE IsLoaded(c) \/ LockLlm(c)
    BY <2>9 DEF IsLoaded, LockLlm
  <2>10. CASE OpenLlm(c)
    <3>1. todo' = todo \/ todo' = [todo EXCEPT ![c] = Guards]
      BY <2>10 DEF OpenLlm
    <3>2. todo' \in [Call -> SUBSET Guards]
      BY <3>1
    <3> QED
      BY <2>10, <3>2 DEF OpenLlm
  <2>11. CASE LlmLoads(c)
    <3>1. wants' \in [Call -> Kind \cup {Llm, None}]
      BY <2>11 DEF LlmLoads
    <3> QED
      BY <2>11, <3>1 DEF LlmLoads
  <2>12. CASE Enter(c) \/ Answer(c)
    BY <2>12 DEF Enter, Answer
  <2> QED
    BY <1>3, <2>3, <2>4, <2>5, <2>6, <2>7, <2>8, <2>9, <2>10, <2>11, <2>12 DEF GoesOn
<1>4. ASSUME NEW c \in Call, Ask(c) PROVE ModelsTypeOK'
  BY <1>4 DEF Ask, ModelsTypeOK, GoTo, gate, llm, Meets, LlmAt
<1>5. UnloadLlm \/ (\E g \in Guards : UnloadIdle(g)) => ModelsTypeOK'
  BY DEF UnloadLlm, UnloadIdle, ModelsTypeOK, gate, llm
<1> QED
  BY <1>2, <1>3, <1>4, <1>5 DEF ModelsNext

LEMMA ReservedStep ==
  ASSUME ModelsAssumption, ModelsInv, ModelsNext
  PROVE  Reserved'
<1>1. ModelsTypeOK /\ GateInv /\ LlmInv /\ Reserved /\ Counted
  BY DEF ModelsInv, GateInv
<1> USE <1>1
<1>2. ASSUME NEW c \in Call, LeaveGate(c) \/ \E m \in Kind : Acquire(c, m)
      PROVE  Reserved'
  <2>1. GateOnly(c)
    BY <1>2, GateOnlySteps
  <2> QED
    BY <2>1, ReservedKept DEF GateOnly, GateMoved
<1>3. ASSUME NEW c \in Call, GoesOn(c), ~LeaveGate(c)
      PROVE  Reserved'
  <2>1. Quiet /\ at \in [Call -> Where]
    BY <1>3, QuietSteps DEF ModelsTypeOK, Where
  <2>2. at[c] \in HoldAt => wants[c] \in Kind
    BY DEF Counted
  <2>3. CASE Reserve(c) /\ at[c] \in {"look", "evict", "load"}
    <3>1. wants[c] \in Kind /\ UNCHANGED wants
      BY <1>3, <2>2, <2>3 DEF HoldAt, AudioAt, GoesOn, Look, TakeLlm, FreeLlm, Evict,
         StartLoad, Loaded, LoadFails, Ends, IsLoaded, LockLlm, OpenLlm, LlmLoads, Enter, Answer
    <3> QED
      BY <2>3, <3>1, Reserving
  <2>4. CASE Ends(c)
    BY <2>4, Releasing
  <2>5. CASE ~(Reserve(c) /\ at[c] \in {"look", "evict", "load"}) /\ ~Ends(c)
    <3> USE <2>1, <2>2, <2>5 DEF Where, HoldAt, AudioAt, GoTo
    <3>1. UNCHANGED inFlight
      BY <1>3 DEF GoesOn, Look, TakeLlm, FreeLlm, Evict, StartLoad, Loaded, LoadFails,
         IsLoaded, LockLlm, OpenLlm, LlmLoads, Enter, Answer
    <3>2. \A d \in Call : at'[d] = "run" <=> at[d] = "run"
      BY <1>3 DEF GoesOn, Look, TakeLlm, FreeLlm, Evict, StartLoad, Loaded, LoadFails,
         IsLoaded, LockLlm, OpenLlm, LlmLoads, Enter, Answer
    <3> QED
      BY <3>1, <3>2, ReservedKept DEF Quiet
  <2> QED
    BY <2>3, <2>4, <2>5
<1>4. ASSUME NEW c \in Call, Ask(c) PROVE Reserved'
  BY <1>4, ReservedKept DEF Ask, ModelsTypeOK, GoTo
<1>5. UnloadLlm \/ (\E g \in Guards : UnloadIdle(g)) => Reserved'
  BY ReservedKept DEF UnloadLlm, UnloadIdle
<1> QED
  BY <1>2, <1>3, <1>4, <1>5 DEF ModelsNext

LEMMA LlmStep ==
  ASSUME ModelsAssumption, ModelsInv, ModelsNext
  PROVE  LlmInv'
<1>1. ModelsTypeOK /\ GateInv /\ LlmInv /\ at \in [Call -> Where] /\ None \notin Call
  BY DEF ModelsInv, ModelsTypeOK, Where, ModelsAssumption
<1>2. ASSUME NEW c \in Call, LeaveGate(c) \/ \E m \in Kind : Acquire(c, m)
      PROVE  LlmInv'
  <2>1. GateOnly(c)
    BY <1>1, <1>2, GateOnlySteps
  <2> QED
    BY <1>1, <2>1 DEF GateOnly, GateMoved, LlmInv, llm, LlmAt
<1> USE <1>1 DEF LlmInv, llm, gate, GoTo, Where, AudioAt, LlmAt, ModelsTypeOK
<1>3. ASSUME NEW c \in Call, GoesOn(c), ~LeaveGate(c)
      PROVE  LlmInv'
  <2>1. CASE Look(c) \/ StartLoad(c) \/ Loaded(c)
    BY <2>1 DEF Look, StartLoad, Loaded, Reserve
  <2>2. CASE TakeLlm(c) \/ FreeLlm(c)
    BY <2>2 DEF TakeLlm, FreeLlm
  <2>3. CASE \E g \in Guards : Evict(c, g)
    BY <2>3 DEF Evict
  <2>4. CASE LoadFails(c) \/ Ends(c)
    BY <2>4 DEF LoadFails, Ends
  <2>5. CASE IsLoaded(c) \/ LockLlm(c)
    BY <2>5 DEF IsLoaded, LockLlm
  <2>6. CASE OpenLlm(c)
    BY <2>6 DEF OpenLlm
  <2>7. CASE LlmLoads(c)
    BY <2>7 DEF LlmLoads
  <2>8. CASE Enter(c) /\ Llm \in resident
    <3>1. /\ at' = [at EXCEPT ![c] = "answer"] /\ llmReaders' = llmReaders \cup {c}
          /\ UNCHANGED <<wants, llmWriter>>
      BY <2>8 DEF Enter
    <3> QED
      BY <2>8, <3>1 DEF Enter
  <2>9. CASE Enter(c) /\ Llm \notin resident
    <3>1. /\ at' = [at EXCEPT ![c] = "idle"] /\ wants' = [wants EXCEPT ![c] = None]
          /\ UNCHANGED <<llmReaders, llmWriter>>
      BY <2>9 DEF Enter
    <3> QED
      BY <2>9, <3>1 DEF Enter
  <2>10. CASE Answer(c)
    BY <2>10 DEF Answer
  <2> QED
    BY <1>3, <2>1, <2>2, <2>3, <2>4, <2>5, <2>6, <2>7, <2>8, <2>9, <2>10 DEF GoesOn
<1>4. ASSUME NEW c \in Call, Ask(c) PROVE LlmInv'
  BY <1>4 DEF Ask
<1>5. UnloadLlm \/ (\E g \in Guards : UnloadIdle(g)) => LlmInv'
  BY DEF UnloadLlm, UnloadIdle
<1> QED
  BY <1>2, <1>3, <1>4, <1>5 DEF ModelsNext

\* Of what one lock guards, nothing stays loaded but what is in use, and that is
\* of the active kind.
LEMMA Unloading ==
  ASSUME ModelsAssumption, ModelsInv, NEW g \in Guards,
         NEW m \in Kind, m \in resident \ Unused(g), Guard[m] = g
  PROVE  m = active /\ \E c \in Call : at[c] = "run" /\ wants[c] = m
BY InUse DEF ModelsInv, GateInv, Unused

\* A step that loads nothing, starts no load and does not call for an eviction.
LEMMA EvictedKept ==
  ASSUME Evicted, resident' \subseteq resident, UNCHANGED todo,
         \A c \in Call : at'[c] = "load" => at[c] = "load",
         \A c \in Call : at'[c] = "evict" => at[c] = "evict" /\ wants'[c] = wants[c]
  PROVE  Evicted'
BY DEF Evicted

LEMMA EvictedStep ==
  ASSUME ModelsAssumption, ModelsInv, ModelsNext
  PROVE  Evicted'
<1>1. /\ ModelsTypeOK /\ GateInv /\ LlmInv /\ Evicted /\ at \in [Call -> Where]
      /\ Llm \notin Kind /\ Guard \in [Kind -> Guards]
  BY DEF ModelsInv, ModelsTypeOK, Where, ModelsAssumption
<1>2. \A c \in Call : at[c] \in HoldAt => wants[c] = active /\ active \in Kind
  BY <1>1 DEF GateInv, Counted
<1>3. ASSUME NEW c \in Call, LeaveGate(c) \/ \E m \in Kind : Acquire(c, m)
      PROVE  Evicted'
  <2>1. GateOnly(c)
    BY <1>1, <1>3, GateOnlySteps
  <2> QED
    BY <1>1, <2>1, EvictedKept DEF GateOnly, GateMoved
<1> USE <1>1 DEF GoTo, Where, AudioAt, LlmAt, ModelsTypeOK
<1>4. ASSUME NEW c \in Call, GoesOn(c), ~LeaveGate(c)
      PROVE  Evicted'
  <2>1. CASE Look(c) \/ TakeLlm(c) \/ LoadFails(c) \/ Ends(c)
    BY <2>1, EvictedKept DEF Look, Reserve, TakeLlm, LoadFails, Ends
  <2>2. CASE FreeLlm(c)
    BY <2>2, <1>2 DEF FreeLlm, Evicted, HoldAt
  <2>3. ASSUME NEW g \in Guards, Evict(c, g) PROVE Evicted'
    <3>1. \A m \in Kind : m \in resident' /\ Guard[m] = g => m = active
      BY <2>3, Unloading DEF Evict
    <3> QED
      BY <2>3, <3>1, <1>2 DEF Evict, Evicted, HoldAt
  <2>4. CASE StartLoad(c) /\ wants[c] \in resident
    BY <2>4, EvictedKept DEF StartLoad, Reserve
  <2>5. CASE StartLoad(c) /\ wants[c] \notin resident
    <3>1. wants[c] = active /\ active \in Kind /\ Guard[active] \in Guards
      BY <2>5, <1>2 DEF StartLoad, HoldAt
    <3>2. \A m \in resident \cap Kind : Guard[m] = Guard[active]
      BY <2>5, <3>1 DEF StartLoad, Evicted
    <3>3. resident' \cap Kind = {}
      BY <2>5, <3>1, <3>2, Unloading DEF StartLoad
    <3>4. \A d \in Call : at[d] # "load"
      BY <2>5, <3>1, <1>2 DEF StartLoad, Unlocked, HoldAt
    <3> QED
      BY <2>5, <3>3, <3>4 DEF StartLoad, Evicted
  <2>6. CASE Loaded(c)
    <3>1. resident' \cap Kind = {wants[c]} /\ wants[c] = active
      BY <2>6, <1>2 DEF Loaded, Evicted, HoldAt
    <3> QED
      BY <2>6, <3>1, <1>2 DEF Loaded, Reserve, Evicted, HoldAt
  <2>7. CASE IsLoaded(c) \/ LockLlm(c) \/ Enter(c) \/ Answer(c)
    BY <2>7, EvictedKept DEF IsLoaded, LockLlm, Enter, Answer
  <2>8. CASE OpenLlm(c)
    <3>1. \A d \in Call : at'[d] \in {"load", "evict"} =>
            at'[d] = at[d] /\ todo'[d] = todo[d]
      BY <2>8 DEF OpenLlm
    <3> QED
      BY <2>8, <3>1 DEF OpenLlm, Evicted
  <2>9. CASE LlmLoads(c)
    <3>1. resident' \cap Kind = resident \cap Kind
      BY <2>9 DEF LlmLoads
    <3>2. \A d \in Call : at'[d] \in {"load", "evict"} =>
            at'[d] = at[d] /\ wants'[d] = wants[d]
      BY <2>9 DEF LlmLoads
    <3> QED
      BY <2>9, <3>1, <3>2 DEF LlmLoads, Evicted
  <2> QED
    BY <1>4, <2>1, <2>2, <2>3, <2>4, <2>5, <2>6, <2>7, <2>8, <2>9 DEF GoesOn
<1>5. ASSUME NEW c \in Call, Ask(c) PROVE Evicted'
  BY <1>5, EvictedKept DEF Ask
<1>6. UnloadLlm \/ (\E g \in Guards : UnloadIdle(g)) => Evicted'
  BY EvictedKept DEF UnloadLlm, UnloadIdle
<1> QED
  BY <1>3, <1>4, <1>5, <1>6 DEF ModelsNext

\* A step that loads nothing, starts no eviction and keeps calls on their side.
LEMMA ApartKept ==
  ASSUME Apart, resident' \subseteq resident, UNCHANGED <<todo, mixed>>,
         \A c \in Call : at'[c] \in AudioAt => at[c] \in AudioAt,
         \A c \in Call : at'[c] \in LlmAt => at[c] \in LlmAt,
         \A c \in Call : at'[c] \in {"evict", "load"} => at[c] \in {"evict", "load"},
         \A c \in Call : at'[c] = "free" => at[c] = "free"
  PROVE  Apart'
BY DEF Apart

LEMMA ApartStep ==
  ASSUME ModelsAssumption, ModelsInv, ModelsNext
  PROVE  Apart'
<1>1. /\ ModelsTypeOK /\ GateInv /\ LlmInv /\ Evicted /\ Apart /\ at \in [Call -> Where]
      /\ Llm \notin Kind /\ Guard \in [Kind -> Guards] /\ None \notin Call
  BY DEF ModelsInv, ModelsTypeOK, Where, ModelsAssumption
<1>2. \A c \in Call : at[c] \in HoldAt => wants[c] = active /\ active \in Kind
  BY <1>1 DEF GateInv, Counted
<1> USE <1>1 DEF GoTo, Where, AudioAt, LlmAt, ModelsTypeOK
<1>3. ASSUME NEW c \in Call, LeaveGate(c) \/ \E m \in Kind : Acquire(c, m)
      PROVE  Apart'
  <2>1. GateOnly(c)
    BY <1>3, GateOnlySteps
  <2>2. CASE at[c] = "idle"
    BY <2>1, <2>2 DEF GateOnly, GateMoved, Meets, Apart
  <2>3. CASE at[c] = "leave"
    BY <2>1, <2>3, ApartKept DEF GateOnly, GateMoved
  <2> QED
    BY <2>1, <2>2, <2>3 DEF GateOnly
<1>4. ASSUME NEW c \in Call, GoesOn(c), ~LeaveGate(c)
      PROVE  Apart'
  <2>1. CASE Look(c) \/ TakeLlm(c) \/ LoadFails(c) \/ Ends(c)
    BY <2>1, ApartKept DEF Look, Reserve, TakeLlm, LoadFails, Ends
  <2>2. CASE FreeLlm(c)
    BY <2>2, <1>2 DEF FreeLlm, Apart
  <2>3. ASSUME NEW g \in Guards, Evict(c, g) PROVE Apart'
    <3>1. \A m \in Kind : m \in resident' /\ Guard[m] = g =>
            \E d \in Call : at[d] = "run"
      BY <2>3, Unloading DEF Evict
    <3> QED
      BY <2>3, <3>1 DEF Evict, Apart
  <2>4. CASE StartLoad(c)
    BY <2>4, ApartKept DEF StartLoad, Reserve
  <2>5. CASE Loaded(c)
    BY <2>5, <1>2 DEF Loaded, Reserve, Apart, HoldAt
  <2>6. CASE IsLoaded(c) \/ LockLlm(c) \/ Enter(c) \/ Answer(c)
    BY <2>6, ApartKept DEF IsLoaded, LockLlm, Enter, Answer
  <2>7. CASE OpenLlm(c)
    BY <2>7 DEF OpenLlm, Apart
  <2>8. CASE LlmLoads(c)
    <3>1. \A d \in Call : at'[d] # "free"
      BY <2>8 DEF LlmLoads, LlmInv
    <3> QED
      BY <2>8, <3>1 DEF LlmLoads, Apart
  <2> QED
    BY <1>4, <2>1, <2>2, <2>3, <2>4, <2>5, <2>6, <2>7, <2>8 DEF GoesOn
<1>5. ASSUME NEW c \in Call, Ask(c) PROVE Apart'
  BY <1>5 DEF Ask, Meets, Apart
<1>6. UnloadLlm \/ (\E g \in Guards : UnloadIdle(g)) => Apart'
  BY ApartKept DEF UnloadLlm, UnloadIdle
<1> QED
  BY <1>3, <1>4, <1>5, <1>6 DEF ModelsNext

LEMMA ModelsStep ==
  ASSUME ModelsAssumption, ModelsInv, [ModelsNext]_models
  PROVE  ModelsInv'
<1>1. CASE ModelsNext
  BY <1>1, TypeStep, GateStep, ReservedStep, LlmStep, EvictedStep, ApartStep DEF ModelsInv
<1>2. CASE UNCHANGED models
  BY <1>2 DEF models, gate, llm, ModelsInv, ModelsTypeOK, GateInv, Queued, Counted,
     Awaited, Holders, Holding, Reserved, Users, LlmInv, Evicted, Apart
<1> QED
  BY <1>1, <1>2
--------------------------------------------------------------------------------
\* Whatever the calls and models are, every variable keeps its type.
THEOREM ModelsTypeCorrect == ModelsSpec => []ModelsTypeOK
<1> USE ModelsAssumption
<1>1. ModelsInit => ModelsInv
  BY ModelsStart
<1>2. ModelsInv /\ [ModelsNext]_models => ModelsInv'
  BY ModelsStep
<1>3. ModelsInv => ModelsTypeOK
  BY DEF ModelsInv
<1> QED
  BY <1>1, <1>2, <1>3, PTL DEF ModelsSpec

\* However many calls there are for however many models under however many locks,
\* one audio model at a time is loaded or being loaded, and none beside the LLM as
\* long as audio calls and LLM calls do not overlap.
THEOREM OneModelResident == ModelsSpec => []OneResident
<1> USE ModelsAssumption
<1>1. ModelsInit => ModelsInv
  BY ModelsStart
<1>2. ModelsInv /\ [ModelsNext]_models => ModelsInv'
  BY ModelsStep
<1>3. ModelsInv => OneResident
  BY DEF ModelsInv, Evicted, Apart, OneResident
<1> QED
  BY <1>1, <1>2, <1>3, PTL DEF ModelsSpec

\* No model is closed under a call that runs with it: an audio model is reserved
\* by its calls, the LLM's calls share its gate.
THEOREM NothingClosedInUse == ModelsSpec => NotClosedInUse
<1> USE ModelsAssumption
<1>1. ModelsInit => ModelsInv
  BY ModelsStart
<1>2. ModelsInv /\ [ModelsNext]_models => ModelsInv'
  BY ModelsStep
<1> DEFINE Closes ==
      \A c \in Call : at[c] \in {"run", "answer"} => wants[c] \notin resident \ resident'
<1>3. ModelsInv /\ ModelsNext => Closes
  <2> SUFFICES ASSUME ModelsInv, ModelsNext, NEW c \in Call, at[c] \in {"run", "answer"},
                      wants[c] \in resident \ resident'
               PROVE  FALSE
    OBVIOUS
  <2>1. CASE at[c] = "answer"
    <3>1. wants[c] = Llm /\ c \in llmReaders
      BY <2>1 DEF ModelsInv, LlmInv, LlmAt
    <3>2. Llm \in resident' \/ llmReaders = {}
      BY <3>1 DEF ModelsAssumption,
         ModelsNext, GoesOn, Ask, Acquire, Look, TakeLlm, FreeLlm, Evict, StartLoad,
         Loaded, LoadFails, Ends, LeaveGate, IsLoaded, LockLlm, OpenLlm, LlmLoads, Enter,
         Answer, UnloadLlm, UnloadIdle, Unused, llm
    <3> QED
      BY <3>1, <3>2
  <2>2. CASE at[c] = "run"
    <3>1. wants[c] \in Kind /\ inFlight[wants[c]] # 0
      <4>1. wants[c] \in Kind
        BY <2>2 DEF ModelsInv, GateInv, Counted, HoldAt, AudioAt
      <4> QED
        BY <2>2, <4>1, ReservedInUse DEF ModelsInv
    <3>2. wants[c] \in resident'
      BY <3>1 DEF ModelsAssumption,
         ModelsNext, GoesOn, Ask, Acquire, Look, TakeLlm, FreeLlm, Evict, StartLoad,
         Loaded, LoadFails, Ends, LeaveGate, IsLoaded, LockLlm, OpenLlm, LlmLoads, Enter,
         Answer, UnloadLlm, UnloadIdle, Unused, llm
    <3> QED
      BY <3>2
  <2> QED
    BY <2>1, <2>2
<1>4. ModelsInv /\ [ModelsNext]_models => [Closes]_models
  BY <1>3
<1> QED
  BY <1>1, <1>2, <1>4, PTL DEF ModelsSpec, NotClosedInUse

\* Nobody is overtaken in the queue of the gate, however long it is.
THEOREM NobodyOvertaken == ModelsSpec => NotOvertaken
<1> USE ModelsAssumption
<1>1. ModelsInit => ModelsInv
  BY ModelsStart
<1>2. ModelsInv /\ [ModelsNext]_models => ModelsInv'
  BY ModelsStep
<1>3. ModelsInv /\ [ModelsNext]_models => [InOrder]_models
  BY GateStep
<1> QED
  BY <1>1, <1>2, <1>3, PTL DEF ModelsSpec, NotOvertaken, InOrder

\* The locks, the gate of the audio models and that of the LLM never wait for each
\* other in a circle: whoever has a model's lock waits for nobody, who has the
\* LLM's gate waits at most for its readers and for locks, and who waits for the
\* residency gate does so for a call that has it.
THEOREM NoCircleOfWaits == ModelsSpec => []SomebodyMayGoOn
<1> USE ModelsAssumption
<1>1. ModelsInit => ModelsInv
  BY ModelsStart
<1>2. ModelsInv /\ [ModelsNext]_models => ModelsInv'
  BY ModelsStep
<1>3. ModelsInv => SomebodyMayGoOn
  <2> SUFFICES ASSUME ModelsInv, NEW c \in Call, at[c] # "idle",
                      \A d \in Call : ~MayGoOn(d)
               PROVE  FALSE
    BY DEF SomebodyMayGoOn
  <2>1. \A g : Unlocked(g)
    BY DEF MayGoOn, Unlocked
  <2>2. llmReaders = {}
    BY DEF MayGoOn, ModelsInv, LlmInv, ModelsTypeOK
  <2>3. llmWriter = None
    <3> SUFFICES ASSUME llmWriter # None PROVE FALSE
      OBVIOUS
    <3>1. llmWriter \in Call /\ at[llmWriter] \in {"drain", "open", "free"}
      BY DEF ModelsInv, LlmInv, ModelsTypeOK
    <3> QED
      BY <3>1, <2>1, <2>2 DEF MayGoOn
  <2>4. \A d \in Call : at[d] \in {"idle", "wait"}
    <3> TAKE d \in Call
    <3>1. at[d] \in Where
      BY DEF ModelsInv, ModelsTypeOK, Where
    <3>2. todo[d] = {} \/ \E g \in todo[d] : Unlocked(g)
      BY <2>1
    <3> QED
      BY <3>1, <3>2, <2>1, <2>2, <2>3 DEF MayGoOn, Where, AudioAt, LlmAt
  <2>5. queue # <<>> /\ count # 0
    BY <2>4 DEF ModelsInv, GateInv, Awaited
  <2>6. Holders # {}
    BY <2>5, FS_EmptySet DEF ModelsInv, GateInv, Counted
  <2> QED
    BY <2>4, <2>6 DEF Holders, Holding, HoldAt, AudioAt
<1> QED
  BY <1>1, <1>2, <1>3, PTL DEF ModelsSpec
================================================================================
