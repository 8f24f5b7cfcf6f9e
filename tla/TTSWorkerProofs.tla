--------------------------- MODULE TTSWorkerProofs ----------------------------
(* Theorems about the worker process manager, for any calls, restarting        *)
(* goroutines and process ids.                                                 *)
EXTENDS TTSWorker, TLAPS

\* A restart that has been let through the gate holds it, and so is the only one.
HoldsGate == \A a \in Actors : pc[a] \in {"drain", "kill", "spawn", "wait"} => writer = a

\* No call is in flight from the moment the gate is drained.
GateDrained == \A a \in Actors : pc[a] \in {"kill", "spawn"} => readers = {}

Gate == HoldsGate /\ GateDrained

\* Every action preserves the types.
LEMMA TypeStep ==
  ASSUME TypeOK, [Next]_vars
  PROVE  TypeOK'
<1>. USE TTSWorkerAssumption
<1>1. ASSUME NEW c \in Calls, Begin(c)
      PROVE  TypeOK'
  BY <1>1 DEF Begin, TypeOK, process
<1>2. ASSUME NEW c \in Calls, Leave(c)
      PROVE  TypeOK'
  BY <1>2 DEF Leave, TypeOK, process
<1>3. ASSUME NEW c \in Calls, Stick(c)
      PROVE  TypeOK'
  BY <1>3 DEF Stick, TypeOK, process
<1>4. ASSUME NEW w \in Workers, Bind(w) \/ Crash(w)
      PROVE  TypeOK'
  BY <1>4 DEF Bind, Crash, Dies, TypeOK, calls
<1>5. ASSUME NEW r \in Restarters, Restart(r)
      PROVE  TypeOK'
  BY <1>5 DEF Restart, Goto, TypeOK, process, calls, Actors
<1>6. ASSUME Tick \/ HardKill
      PROVE  TypeOK'
  BY <1>6 DEF Tick, HardKill, Goto, Dies, TypeOK, process, calls, Actors
<1>7. ASSUME NEW a \in Actors, Restarting(a)
      PROVE  TypeOK'
  <2>1. CASE TakeGate(a) \/ Drained(a)
    BY <2>1 DEF TakeGate, Drained, Goto, TypeOK, process, calls
  <2>2. CASE Kill(a)
    BY <2>2 DEF Kill, Dies, Goto, TypeOK, calls
  <2>3. CASE Spawn(a)
    BY <2>3 DEF Spawn, Goto, TypeOK, calls
  <2>4. CASE Waited(a)
    BY <2>4 DEF Waited, Goto, TypeOK, process, calls
  <2>. QED  BY <1>7, <2>1, <2>2, <2>3, <2>4 DEF Restarting
<1>8. ASSUME Stop
      PROVE  TypeOK'
  BY <1>8 DEF Stop, Dies, TypeOK, calls
<1>9. CASE UNCHANGED vars
  BY <1>9 DEF vars, process, calls, TypeOK
<1>. QED  BY <1>1, <1>2, <1>3, <1>4, <1>5, <1>6, <1>7, <1>8, <1>9 DEF Next, Return, TimesOut

\* Every variable has its type, whatever crashes, hangs or is restarted; in
\* particular only a call in flight counts as stuck (beginJob, endJob).
THEOREM WorkerTypeCorrect == Spec => []TypeOK
<1>1. Init => TypeOK
  BY TTSWorkerAssumption DEF Init, TypeOK
<1>. QED  BY <1>1, TypeStep, PTL DEF Spec

-----------------------------------------------------------------------------
(* A restart never happens mid-request.                                        *)

\* A step of a restart keeps the gate: one at a time gets in, it is drained
\* before the worker is touched, and only its holder leaves it.
LEMMA RestartingKeepsGate ==
  ASSUME TypeOK, Gate, NEW a \in Actors, Restarting(a)
  PROVE  Gate'
<1>. USE TTSWorkerAssumption DEF Gate, HoldsGate, GateDrained, Goto, calls, process, TypeOK
<1>1. CASE TakeGate(a)
  BY <1>1 DEF TakeGate
<1>2. CASE Drained(a)
  BY <1>2 DEF Drained
<1>3. CASE Kill(a)
  BY <1>3 DEF Kill
<1>4. CASE Spawn(a)
  BY <1>4 DEF Spawn
<1>5. CASE Waited(a)
  BY <1>5 DEF Waited
<1>. QED  BY <1>1, <1>2, <1>3, <1>4, <1>5 DEF Restarting

LEMMA StepKeepsGate ==
  ASSUME TypeOK, Gate, [Next]_vars
  PROVE  Gate'
<1>. USE TTSWorkerAssumption DEF Gate, HoldsGate, GateDrained
<1>1. ASSUME NEW c \in Calls, Begin(c)
      PROVE  Gate'
  <2>1. \A a \in Actors : pc[a] \notin {"drain", "kill", "spawn", "wait"}
    BY <1>1 DEF Begin
  <2>. QED  BY <1>1, <2>1 DEF Begin
<1>2. ASSUME NEW c \in Calls, Return(c) \/ TimesOut(c) \/ Stick(c)
      PROVE  Gate'
  BY <1>2 DEF Return, TimesOut, Leave, Stick
<1>3. CASE (\E w \in Workers : Bind(w) \/ Crash(w)) \/ Stop
  BY <1>3 DEF Bind, Crash, Stop, calls
<1>4. CASE (\E r \in Restarters : Restart(r)) \/ Tick \/ HardKill
  BY <1>4 DEF Restart, Tick, HardKill, Goto, calls, TypeOK, Actors
<1>5. CASE \E a \in Actors : Restarting(a)
  BY <1>5, RestartingKeepsGate
<1>6. CASE UNCHANGED vars
  BY <1>6 DEF vars, calls
<1>. QED  BY <1>1, <1>2, <1>3, <1>4, <1>5, <1>6 DEF Next

\* No call is in flight when a restart kills the worker or starts the next one
\* (the comment on Manager: "a restart never happens mid-request"), for any
\* number of calls and of goroutines that restart.
THEOREM RestartsBetweenCalls == Spec => NeverMidRequest
<1>1. Init => Gate
  BY DEF Init, Gate, HoldsGate, GateDrained
<1>2. TypeOK /\ Gate /\ [Next]_vars => Gate'
  BY StepKeepsGate
<1>3. Gate => [\A a \in Actors : pc[a] \in {"kill", "spawn"} /\ pc'[a] # pc[a] => readers = {}]_vars
  BY DEF Gate, GateDrained
<1>. QED  BY <1>1, <1>2, <1>3, WorkerTypeCorrect, PTL DEF Spec, NeverMidRequest
=============================================================================
