------------------------------ MODULE TTSWorker -------------------------------
(* The worker process manager, src/backend/internal/ttsworker/manager.go: one  *)
(* worker process behind a port, calls proxied to it under the shared side of  *)
(* restartGate, restarts under its exclusive side, and a watchdog that also    *)
(* kills a worker whose call is stuck. The operating system is modelled as the *)
(* code relies on it: one process at a time holds the port, a worker that      *)
(* cannot bind it exits (cmd/ttsworker), and a call fails when the worker it   *)
(* went to dies.                                                               *)
EXTENDS FiniteSets

CONSTANTS
  Calls,      \* calls under way at once, each made again and again
  Restarters, \* goroutines that call Restart: a dashboard request, the jobs'
              \* recovery from a corrupted worker
  Watchdog,   \* the watchdog's goroutine
  Workers,    \* process ids; that of a dead worker is used again
  Nobody

Actors == Restarters \cup {Watchdog}

ASSUME TTSWorkerAssumption ==
  /\ Watchdog \notin Restarters
  /\ Nobody \notin Actors \cup Workers

VARIABLES
  alive,   \* worker processes
  port,    \* the one that holds the port
  cmd,     \* Manager.cmd and pid
  writer,  \* who holds restartGate exclusively, or waits for its readers to leave
  readers, \* calls that hold restartGate shared
  on,      \* the worker a call went to
  stuck,   \* calls in flight for longer than StuckJobTimeout (jobStarts)
  mu,      \* who holds Manager.mu
  pc,      \* where each actor is
  killed,  \* whether the watchdog's restart under way has killed the worker
  stopped  \* whether Stop was called

process == <<alive, port, cmd>>
calls == <<readers, on, stuck>>
vars == <<process, writer, calls, mu, pc, killed, stopped>>

\* Every variable has its type; a call counts as stuck only while it is in
\* flight, and only a live worker holds the port.
TypeOK ==
  /\ alive \subseteq Workers
  /\ port \in alive \cup {Nobody}
  /\ cmd \in Workers
  /\ writer \in Actors \cup {Nobody}
  /\ readers \subseteq Calls
  /\ on \in [Calls -> Workers \cup {Nobody}]
  /\ stuck \subseteq readers
  /\ mu \in Actors \cup {Nobody}
  /\ pc \in [Actors -> {"idle", "hard", "gate", "drain", "kill", "spawn", "wait"}]
  /\ killed \in BOOLEAN
  /\ stopped \in BOOLEAN

\* Start has spawned the first worker, and it answers.
Init ==
  /\ \E w \in Workers : alive = {w} /\ port = w /\ cmd = w
  /\ writer = Nobody /\ readers = {} /\ stuck = {} /\ mu = Nobody
  /\ on = [c \in Calls |-> Nobody]
  /\ pc = [a \in Actors |-> "idle"]
  /\ killed = FALSE /\ stopped = FALSE

Goto(a, l) == pc' = [pc EXCEPT ![a] = l]

\* A process is gone, and with it its hold on the port.
Dies(w) ==
  /\ alive' = alive \ {w}
  /\ port' = IF port = w THEN Nobody ELSE port
-----------------------------------------------------------------------------
(* Calls: generate, design, align, llm... all go the same way.                 *)

\* (Mutant: the call does not take the gate's shared side.)
BeginUngated(c) ==
  /\ c \notin readers
  /\ readers' = readers \cup {c}
  /\ on' = [on EXCEPT ![c] = port]
  /\ UNCHANGED <<process, writer, stuck, mu, pc, killed, stopped>>
\* A pending restart already blocks new calls (RWMutex).
Begin(c) ==
  /\ c \notin readers /\ writer = Nobody
  /\ readers' = readers \cup {c}
  /\ on' = [on EXCEPT ![c] = port]
  /\ UNCHANGED <<process, writer, stuck, mu, pc, killed, stopped>>

Leave(c) ==
  /\ readers' = readers \ {c}
  /\ on' = [on EXCEPT ![c] = Nobody]
  /\ stuck' = stuck \ {c}
  /\ UNCHANGED <<process, writer, mu, pc, killed, stopped>>

\* It returns: answered, refused, or cut off with its worker.
Return(c) ==
  /\ c \in readers
  /\ c \notin stuck \/ on[c] \notin alive
  /\ Leave(c)

\* It goes on for longer than any call should, and does not return.
Stick(c) ==
  /\ c \in readers \ stuck /\ on[c] \in alive
  /\ stuck' = stuck \cup {c}
  /\ UNCHANGED <<process, writer, readers, on, mu, pc, killed, stopped>>

\* (Mutant: the HTTP client has no timeout.)
TimesOutNever(c) == FALSE /\ Leave(c)
\* (Mutant: a call that timed out stays in jobStarts.)
TimesOutStillCounted(c) ==
  /\ c \in stuck /\ pc[Watchdog] # "idle"
  /\ readers' = readers \ {c}
  /\ on' = [on EXCEPT ![c] = Nobody]
  /\ UNCHANGED <<process, writer, stuck, mu, pc, killed, stopped>>
\* The HTTP client's timeout is four times StuckJobTimeout: a watchdog that is
\* not busy has acted by then.
TimesOut(c) ==
  /\ c \in stuck /\ pc[Watchdog] # "idle"
  /\ Leave(c)
-----------------------------------------------------------------------------
(* Worker processes.                                                           *)

\* A worker that comes up takes the port, or exits.
Bind(w) ==
  /\ w \in alive /\ w # port
  /\ IF port = Nobody
       THEN port' = w /\ UNCHANGED alive
       ELSE Dies(w)
  /\ UNCHANGED <<cmd, writer, calls, mu, pc, killed, stopped>>

Crash(w) ==
  /\ w \in alive
  /\ Dies(w)
  /\ UNCHANGED <<cmd, writer, calls, mu, pc, killed, stopped>>
-----------------------------------------------------------------------------
(* Restarts.                                                                   *)

Restart(r) ==
  /\ pc[r] = "idle"
  /\ Goto(r, "gate")
  /\ UNCHANGED <<process, writer, calls, mu, killed, stopped>>

\* A watchdog tick that finds something: the worker it knows of is gone, or is
\* too large (which the model leaves open), or has a stuck call.
Tick ==
  /\ pc[Watchdog] = "idle" /\ mu = Nobody
  /\ \/ Goto(Watchdog, "gate")
     \/ cmd \in alive /\ stuck # {} /\ Goto(Watchdog, "hard")
  /\ UNCHANGED <<process, writer, calls, mu, killed, stopped>>

\* (Mutant: mu is kept while waiting for the gate.)
HardKillKeepsMu ==
  /\ pc[Watchdog] = "hard" /\ mu = Nobody
  /\ mu' = Watchdog
  /\ Dies(cmd)
  /\ killed' = TRUE
  /\ Goto(Watchdog, "gate")
  /\ UNCHANGED <<cmd, writer, calls, stopped>>
\* hardRestart kills first, under mu alone, so that the stuck call returns.
HardKill ==
  /\ pc[Watchdog] = "hard" /\ mu = Nobody
  /\ Dies(cmd)
  /\ killed' = TRUE
  /\ Goto(Watchdog, "gate")
  /\ UNCHANGED <<cmd, writer, calls, mu, stopped>>

TakeGate(a) ==
  /\ pc[a] = "gate" /\ writer = Nobody
  /\ writer' = a
  /\ Goto(a, "drain")
  /\ UNCHANGED <<process, calls, mu, killed, stopped>>

\* (Mutant: calls in flight are not waited for.)
DrainedAtOnce(a) ==
  /\ pc[a] = "drain" /\ mu = Nobody
  /\ mu' = a
  /\ Goto(a, IF a = Watchdog /\ killed THEN "spawn" ELSE "kill")
  /\ UNCHANGED <<process, writer, calls, killed, stopped>>
\* The gate is exclusive once every call has left; then mu. The watchdog's hard
\* restart has killed the worker already.
Drained(a) ==
  /\ pc[a] = "drain" /\ readers = {} /\ mu = Nobody
  /\ mu' = a
  /\ Goto(a, IF a = Watchdog /\ killed THEN "spawn" ELSE "kill")
  /\ UNCHANGED <<process, writer, calls, killed, stopped>>

\* SIGTERM, then SIGKILL after a grace period; the process is waited for.
Kill(a) ==
  /\ pc[a] = "kill"
  /\ Dies(cmd)
  /\ Goto(a, "spawn")
  /\ UNCHANGED <<cmd, writer, calls, mu, killed, stopped>>

Spawn(a) ==
  /\ pc[a] = "spawn"
  /\ \E w \in Workers \ alive :
       /\ alive' = alive \cup {w}
       /\ cmd' = w
  /\ Goto(a, "wait")
  /\ UNCHANGED <<port, writer, calls, mu, killed, stopped>>

\* Someone answers on the port, or the wait is given up (after three minutes, or
\* with the caller's context): either way the worker stays, and both locks go.
Waited(a) ==
  /\ pc[a] = "wait"
  /\ Goto(a, "idle")
  /\ writer' = Nobody /\ mu' = Nobody
  /\ killed' = IF a = Watchdog THEN FALSE ELSE killed
  /\ UNCHANGED <<process, calls, stopped>>

\* Stop, at shutdown: the worker Manager knows of is killed, under mu.
Stop ==
  /\ ~stopped /\ mu = Nobody
  /\ stopped' = TRUE
  /\ Dies(cmd)
  /\ UNCHANGED <<cmd, writer, calls, mu, pc, killed>>

Restarting(a) == TakeGate(a) \/ Drained(a) \/ Kill(a) \/ Spawn(a) \/ Waited(a)

Next ==
  \/ \E c \in Calls : Begin(c) \/ Return(c) \/ Stick(c) \/ TimesOut(c)
  \/ \E w \in Workers : Bind(w) \/ Crash(w)
  \/ \E r \in Restarters : Restart(r)
  \/ Tick \/ HardKill
  \/ \E a \in Actors : Restarting(a)
  \/ Stop

Spec == Init /\ [][Next]_vars

(* A goroutine that can go on does, and Go's locks starve nobody; a call that  *)
(* is not stuck returns, and one that is times out in the end; a new worker    *)
(* takes the port or exits.                                                    *)
Fairness ==
  /\ \A w \in Workers : WF_vars(Bind(w))
  /\ \A c \in Calls : WF_vars(Return(c)) /\ SF_vars(TimesOut(c))
  /\ WF_vars(Tick) /\ SF_vars(HardKill)
  /\ \A a \in Actors : SF_vars(Restarting(a))

FairSpec == Spec /\ Fairness
-----------------------------------------------------------------------------
(* Properties.                                                                 *)

\* A restart never happens mid-request (the comment on Manager): whoever holds
\* the gate to kill or spawn does so with no call in flight. Only the watchdog's
\* kill of a stuck worker cuts calls off, and a crash or Stop.
NeverMidRequest ==
  [][\A a \in Actors : pc[a] \in {"kill", "spawn"} /\ pc'[a] # pc[a] => readers = {}]_vars

\* Every restart ends: the gate, mu, stuck calls and a watchdog that kills
\* before it takes the gate never wait for each other for ever (the comment on
\* hardRestart).
EveryRestartEnds == \A a \in Actors : pc[a] # "idle" ~> pc[a] = "idle"

\* Every call returns, a stuck one because its worker is killed or because the
\* client gives up on it.
EveryCallReturns == \A c \in Calls : c \in readers ~> c \notin readers

\* Manager owns the worker's lifecycle (its comment), and a killed worker is not
\* to be outlived by anything that holds the port (the comment on killWorker):
\* there is no worker process but the one it knows of, the one it can kill.
OneWorker == alive \subseteq {cmd}
=============================================================================
