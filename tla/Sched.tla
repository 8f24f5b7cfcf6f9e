-------------------------------- MODULE Sched --------------------------------
(* The job scheduler, src/backend/internal/sched/sched.go: one graph of tasks, *)
(* each wanted by named requesters (requests) and by the tasks that need it    *)
(* (needs, members, adopted), dispatched in one order under one admission rule.*)
(*                                                                             *)
(* Every exported call runs under one mutex (Scheduler.do). Inside it the code *)
(* is mutually recursive: end calls dropIfUnwanted, itself and prepare, and    *)
(* prepare calls end and itself, over Go maps whose order is arbitrary. Here   *)
(* that recursion is the variable `stack', the call stack of the do under way, *)
(* and each micro-step runs one iteration of the call on top: a call (Request, *)
(* Cancel, Finish...) is taken only while the mutex is free, its cascade runs  *)
(* to the end, then admission starts whatever may start, then the mutex is     *)
(* released. Choosing an element of a frame's `todo' set is Go's map order.    *)
EXTENDS Integers, Sequences, FiniteSets

CONSTANTS
  Keys,        \* task keys; at most one task per key is in the graph
  Sources,     \* request sources
  Contexts,    \* models of which one is resident (jobs: pools)
  NoContext,   \* the empty context, of group tasks and of a fresh scheduler
  Context,     \* [Keys -> Contexts \cup {NoContext}]
  Deps,        \* [Keys -> SUBSET Keys]: dependencies Prepare may name
  Members,     \* [Keys -> SUBSET Keys]: members Prepare may name
  Children,    \* [Keys -> SUBSET Keys]: what a task's run may Adopt or Join
  Creatable,   \* keys whose Need carries a New function
  Faulty,      \* keys whose Prepare may fail
  Capacity,    \* [Contexts -> Nat \ {0}]: tasks of a context that run at once
  Exclusive,   \* set of sets of keys no two of which may run together
  Prios,       \* request priorities, as naturals; lower is more urgent
  MaxAttempts, \* Config.MaxAttempts
  Retryable,   \* keys whose task has failures it lets be retried
  Dwell,       \* whether Config.Dwell > 0
  DwellExempt, \* Config.DwellExempt
  Batches,     \* the sets of keys a bulk call (Replace, Retain, CancelWhere) names
  Gates,       \* admission gates SetGate may install: sets of accepted keys
  FreeYield,   \* whether a run may yield at any time (jobs: a pause, a stale render)
  Ops          \* names of the operations callers use in this configuration

NoPriority == 1000000
Priority == Prios \cup {NoPriority}

ASSUME SchedAssumption ==
  /\ IsFiniteSet(Keys)
  /\ NoContext \notin Contexts
  /\ Context \in [Keys -> Contexts \cup {NoContext}]
  /\ Deps \in [Keys -> SUBSET Keys]
  /\ Members \in [Keys -> SUBSET Keys]
  /\ Children \in [Keys -> SUBSET Keys]
  /\ Creatable \subseteq Keys
  /\ Faulty \subseteq Keys
  /\ Capacity \in [Contexts -> Nat \ {0}]
  /\ Exclusive \subseteq SUBSET Keys
  /\ Prios \subseteq Nat
  /\ \A p \in Prios : p < NoPriority
  /\ MaxAttempts \in Nat \ {0}
  /\ Retryable \subseteq Keys
  /\ Dwell \in BOOLEAN
  /\ DwellExempt \in Nat
  /\ Batches \subseteq SUBSET Keys
  /\ Gates \subseteq SUBSET Keys
  /\ FreeYield \in BOOLEAN
  /\ \A k \in Keys : Deps[k] \cap Members[k] = {} /\ k \notin Children[k]

VARIABLES
  state,      \* node.state, or "absent" when the key is not in Scheduler.nodes
  requests,   \* node.requests: source -> priority (NoPriority: none)
  needs,      \* node.needs, those that are dependencies
  members,    \* node.needs, those that are members
  adopted,    \* node.adopted
  ended,      \* node.ended
  attempt,    \* node.attempt
  canceled,   \* the nodes with node.canceled set
  doomed,     \* the nodes with node.doomed set
  cur,        \* Scheduler.cur, the resident context
  switchPrio, \* Scheduler.switchPrio
  dwelling,   \* whether less than Config.Dwell has passed since Scheduler.since
  timer,      \* whether the dwell timer is armed
  gate,       \* Scheduler.gate: the keys it accepts
  closed,     \* Scheduler.closed
  stack,      \* the calls under way inside the current do, innermost first
  locked   \* whether a do holds the mutex (it runs admit before it unlocks)

graph == <<state, requests, needs, members, adopted, ended, attempt, canceled, doomed>>
dispatch == <<cur, switchPrio, dwelling, timer>>
control == <<gate, closed>>
vars == <<graph, dispatch, control, stack, locked>>

Outcome == {"ok", "error", "canceled", "dependency"}

(* The frames of the call stack. A "gone" frame is a prepare whose task ended  *)
(* in a call it made.                                                          *)
PrepareFrame == [op : {"prepare"}, key : Keys]
LinkFrame == [op : {"link", "gone"}, key : Keys, todo : SUBSET Keys,
              hard : SUBSET Keys, soft : SUBSET Keys]
EndFrame == [op : {"end"}, key : Keys, err : Outcome]
DropFrame == [op : {"drop", "cancel"}, todo : SUBSET Keys]
TellFrame == [op : {"tell"}, key : Keys, err : Outcome, todo : SUBSET Keys,
              hard : SUBSET Keys, soft : SUBSET Keys]
ReplaceFrame == [op : {"replace"}, source : Sources, prio : Prios,
                 todo : SUBSET Keys, keep : SUBSET Keys]
WithdrawFrame == [op : {"withdraw"}, source : Sources, todo : SUBSET Keys]
Frame == PrepareFrame \cup LinkFrame \cup EndFrame \cup DropFrame \cup TellFrame
           \cup ReplaceFrame \cup WithdrawFrame

Preparing(k) == [op |-> "prepare", key |-> k]
Linking(k, H, S) == [op |-> "link", key |-> k, todo |-> H \cup S, hard |-> H, soft |-> S]
Ending(k, e) == [op |-> "end", key |-> k, err |-> e]
Replacing(s, p, K, keep) ==
  [op |-> "replace", source |-> s, prio |-> p, todo |-> K, keep |-> keep]

\* A loop over K: no frame at all when there is nothing to do.
Loop(frame) == IF frame.todo = {} THEN <<>> ELSE <<frame>>
Dropping(K) == Loop([op |-> "drop", todo |-> K])
Canceling(K) == Loop([op |-> "cancel", todo |-> K])
Withdrawing(s, K) == Loop([op |-> "withdraw", source |-> s, todo |-> K])
Telling(k, e, W, H, S) ==
  Loop([op |-> "tell", key |-> k, err |-> e, todo |-> W, hard |-> H, soft |-> S])

GraphTypeOK ==
  /\ state \in [Keys -> {"absent", "waiting", "ready", "running"}]
  /\ requests \in [Keys -> [Sources -> Priority]]
  /\ needs \in [Keys -> SUBSET Keys]
  /\ members \in [Keys -> SUBSET Keys]
  /\ adopted \in [Keys -> SUBSET Keys]
  /\ ended \in [Keys -> SUBSET Keys]
  /\ attempt \in [Keys -> 0 .. MaxAttempts - 1]
  /\ canceled \subseteq Keys
  /\ doomed \subseteq Keys

DispatchTypeOK ==
  /\ cur \in Contexts \cup {NoContext}
  /\ switchPrio \in Nat
  /\ dwelling \in BOOLEAN
  /\ timer \in BOOLEAN

ControlTypeOK ==
  /\ gate \subseteq Keys
  /\ closed \in BOOLEAN
  /\ stack \in Seq(Frame)
  /\ locked \in BOOLEAN

\* Every variable has its type; in particular no task is ever on an attempt
\* beyond the last, whatever retries, yields and cancellations it went through.
TypeOK == GraphTypeOK /\ DispatchTypeOK /\ ControlTypeOK

Init ==
  /\ state = [k \in Keys |-> "absent"]
  /\ requests = [k \in Keys |-> [s \in Sources |-> NoPriority]]
  /\ needs = [k \in Keys |-> {}]
  /\ members = [k \in Keys |-> {}]
  /\ adopted = [k \in Keys |-> {}]
  /\ ended = [k \in Keys |-> {}]
  /\ attempt = [k \in Keys |-> 0]
  /\ canceled = {}
  /\ doomed = {}
  /\ cur = NoContext
  /\ switchPrio = 0
  /\ dwelling = FALSE
  /\ timer = FALSE
  /\ gate = Keys
  /\ closed = FALSE
  /\ stack = <<>>
  /\ locked = FALSE
-----------------------------------------------------------------------------
(* The graph. The wantedBy map of a node is the inverse of needs and adopted:  *)
(* the code keeps both ends of a link in step, under the mutex.                *)

Live == {k \in Keys : state[k] # "absent"}
Running == {k \in Keys : state[k] = "running"}
Wants(k) == needs[k] \cup members[k] \cup adopted[k]
WantedBy(k) == {w \in Keys : k \in Wants(w)}
Asked(k) == \E s \in Sources : requests[k][s] # NoPriority
Unwanted(k) == state[k] # "absent" /\ ~Asked(k) /\ WantedBy(k) = {}

\* The keys in K and everything that Next leads to from them, as deep as the
\* graph goes.
Closure(K, Step(_)) ==
  LET reach[i \in 0 .. Cardinality(Keys)] ==
        IF i = 0 THEN K ELSE reach[i - 1] \cup UNION {Step(k) : k \in reach[i - 1]}
  IN  reach[Cardinality(Keys)]

\* (Mutant: members are forgotten.)
OutstandingWithoutMembers(k) == needs[k]
\* What k waits for: the code keeps dependencies and members in one map.
Outstanding(k) == needs[k] \cup members[k]

\* (Mutant: only a direct need is looked at.)
ReachesDirectly(from, to) == from = to \/ to \in Outstanding(from)
\* Whether from needs to, directly or not (adopted tasks are not followed).
Reaches(from, to) == to \in Closure({from}, Outstanding)

MinOf(S) == CHOOSE x \in S : \A y \in S : x <= y

\* The effective priority: the most urgent request of the task and of whatever
\* wants it, directly or not. The code walks depth first and memoizes, which
\* reads the same as long as wanting has no cycle.
Wanters(k) == Keys \cap Closure({k}, WantedBy)
Prio(k) == MinOf({NoPriority} \cup {requests[w][s] : w \in Wanters(k), s \in Sources})

\* A request by s at p, kept if s already asks more urgently.
Urge(k, s, p) == requests' = [requests EXCEPT ![k][s] = IF p < @ THEN p ELSE @]

Add(k) == state' = [state EXCEPT ![k] = "waiting"]

\* (Mutant: a running task is ended at once.)
CancelNodeAtOnce(k, rest) ==
  stack' = <<Ending(k, "canceled")>> \o rest /\ UNCHANGED canceled
CancelNode(k, rest) ==
  IF state[k] = "running"
    THEN canceled' = canceled \cup {k} /\ stack' = rest
    ELSE stack' = <<Ending(k, "canceled")>> \o rest /\ UNCHANGED canceled

-----------------------------------------------------------------------------
(* The exported calls. Each takes the mutex; what it sets off runs as frames.  *)

Call(op) == op \in Ops /\ ~locked /\ locked' = TRUE

Request(s, p, k) ==
  /\ Call("Request")
  /\ Urge(k, s, p)
  /\ IF state[k] = "absent"
       THEN Add(k) /\ stack' = <<Preparing(k)>>
       ELSE UNCHANGED <<state, stack>>
  /\ UNCHANGED <<needs, members, adopted, ended, attempt, canceled, doomed, dispatch, control>>

\* Raise and Bump: an existing task's request by s becomes p, whatever it was.
Raise(s, p, k) ==
  /\ Call("Raise")
  /\ state[k] # "absent"
  /\ requests' = [requests EXCEPT ![k][s] = p]
  /\ UNCHANGED <<state, needs, members, adopted, ended, attempt, canceled, doomed,
                 dispatch, control, stack>>

\* Withdraw, Unbump (one key) and Retain (every key it rejects).
Withdraw(s, K) ==
  /\ Call("Withdraw")
  /\ K # {} /\ \A k \in K : requests[k][s] # NoPriority
  /\ stack' = Withdrawing(s, K)
  /\ UNCHANGED <<graph, dispatch, control>>

Replace(s, p, K) ==
  /\ Call("Replace")
  /\ stack' = <<Replacing(s, p, K, K)>>
  /\ UNCHANGED <<graph, dispatch, control>>

\* Adopt, by the running task w, of a task it builds, and Join of one that is
\* already there. Neither does anything once w has been asked to stop.
Adopt(w, k) ==
  /\ Call("Adopt")
  /\ state[w] = "running" /\ w \notin canceled
  /\ k \in Children[w]
  /\ adopted' = [adopted EXCEPT ![w] = @ \cup {k}]
  /\ IF state[k] = "absent"
       THEN Add(k) /\ stack' = <<Preparing(k)>>
       ELSE UNCHANGED <<state, stack>>
  /\ UNCHANGED <<requests, needs, members, ended, attempt, canceled, doomed, dispatch, control>>

Cancel(k) ==
  /\ Call("Cancel")
  /\ state[k] # "absent"
  /\ CancelNode(k, <<>>)
  /\ UNCHANGED <<state, requests, needs, members, adopted, ended, attempt, doomed,
                 dispatch, control>>

CancelWhere(K) ==
  /\ Call("CancelWhere")
  /\ K # {} /\ K \subseteq Live
  /\ doomed' = doomed \cup K
  /\ stack' = Canceling(K)
  /\ UNCHANGED <<state, requests, needs, members, adopted, ended, attempt, canceled,
                 dispatch, control>>

SetGate(g) ==
  /\ Call("SetGate")
  /\ gate' = g
  /\ UNCHANGED <<graph, dispatch, closed, stack>>

Close ==
  /\ "Close" \in Ops /\ ~locked /\ ~closed
  /\ closed' = TRUE
  /\ timer' = FALSE
  /\ UNCHANGED <<graph, cur, switchPrio, dwelling, gate, stack, locked>>

-----------------------------------------------------------------------------
(* The cascade: the frame on top of the stack runs one iteration.              *)

Top == Head(stack)
Rest == Tail(stack)
OnTop(op) == stack # <<>> /\ Top.op = op
\* Continue with f, or its parts, in place of the frame on top.
Proceed(frames) == stack' = frames \o Rest

\* What Prepare answered in an unfinished prepare of k further down: a call
\* nested in it, under the same lock, gets the same answer.
OuterAnswers(k) == {f \in {stack[i] : i \in 2 .. Len(stack)} : f.op = "link" /\ f.key = k}

\* prepare asks the task what it needs. The answer is the task's own business:
\* any part of what it may need, or an error.
Prepare ==
  /\ OnTop("prepare")
  /\ LET k == Top.key
         outer == OuterAnswers(k)
     IN  /\ state' = [state EXCEPT ![k] = "waiting"]
         /\ \/ \E H \in SUBSET Deps[k], S \in SUBSET Members[k] :
                 /\ \A f \in outer : H = f.hard /\ S = f.soft
                 /\ Proceed(<<Linking(k, H, S)>>)
            \/ /\ k \in Faulty /\ outer = {}
               /\ Proceed(<<Ending(k, "error")>>)
  /\ UNCHANGED <<requests, needs, members, adopted, ended, attempt, canceled, doomed,
                 dispatch, control, locked>>

\* One need of the loop in prepare: skipped if it ended for this task before,
\* is not there and not to be created, or is linked; else linked, and prepared
\* if it is new. A need that reaches back fails the task.
Link ==
  /\ OnTop("link")
  /\ \E d \in Top.todo :
       LET k == Top.key
           more == [Top EXCEPT !.todo = @ \ {d}]
           fresh == state[d] = "absent"
           skip == \/ d \in ended[k] \cup {k} \cup Outstanding(k)
                   \/ fresh /\ d \notin Creatable
       IN  \/ /\ skip
              /\ Proceed(<<more>>)
              /\ UNCHANGED <<state, needs, members>>
           \/ /\ ~skip /\ Reaches(d, k)
              /\ Proceed(<<Ending(k, "error"), more>>)
              /\ UNCHANGED <<state, needs, members>>
           \/ /\ ~skip /\ ~Reaches(d, k)
              /\ IF d \in Top.hard
                   THEN needs' = [needs EXCEPT ![k] = @ \cup {d}] /\ UNCHANGED members
                   ELSE members' = [members EXCEPT ![k] = @ \cup {d}] /\ UNCHANGED needs
              /\ IF fresh
                   THEN Add(d) /\ Proceed(<<Preparing(d), more>>)
                   ELSE Proceed(<<more>>) /\ UNCHANGED state
  /\ UNCHANGED <<requests, adopted, ended, attempt, canceled, doomed, dispatch, control, locked>>

\* The end of prepare: with nothing outstanding the task is ready.
Linked ==
  /\ OnTop("link") /\ Top.todo = {}
  /\ IF Outstanding(Top.key) = {}
       THEN state' = [state EXCEPT ![Top.key] = "ready"]
       ELSE UNCHANGED state
  /\ Proceed(<<>>)
  /\ UNCHANGED <<requests, needs, members, adopted, ended, attempt, canceled, doomed,
                 dispatch, control, locked>>

\* k is gone: its own prepare stops, and no loop under way meets it any more.
Without(f, k) ==
  CASE f.op = "link" /\ f.key = k -> [f EXCEPT !.op = "gone"]
    [] f.op \in {"drop", "cancel", "tell", "withdraw"} -> [f EXCEPT !.todo = @ \ {k}]
    [] OTHER -> f

\* end takes the task out of the graph, then drops what only it wanted, then
\* tells whatever wanted it. All its links go at once, where the code cuts each
\* as its loops come to it: a task in between is reached by neither loop.
End ==
  /\ OnTop("end")
  /\ LET k == Top.key
         Except(f) == [w \in Keys |-> f[w] \ {k}]
     IN  IF state[k] = "absent"
           THEN Proceed(<<>>) /\ UNCHANGED graph
           ELSE
             /\ state' = [state EXCEPT ![k] = "absent"]
             /\ requests' = [requests EXCEPT ![k] = [s \in Sources |-> NoPriority]]
             /\ needs' = Except([needs EXCEPT ![k] = {}])
             /\ members' = Except([members EXCEPT ![k] = {}])
             /\ adopted' = Except([adopted EXCEPT ![k] = {}])
             /\ ended' = [ended EXCEPT ![k] = {}]
             /\ attempt' = [attempt EXCEPT ![k] = 0]
             /\ canceled' = canceled \ {k}
             /\ doomed' = doomed \ {k}
             /\ stack' = Dropping(Wants(k))
                         \o Telling(k, Top.err, WantedBy(k),
                                    {w \in Keys : k \in needs[w]},
                                    {w \in Keys : k \in members[w]})
                         \o [i \in DOMAIN Rest |-> Without(Rest[i], k)]
  /\ UNCHANGED <<dispatch, control, locked>>

\* dropIfUnwanted, for each task that lost a request or a dependent.
Drop ==
  /\ OnTop("drop")
  /\ \E d \in Top.todo :
       LET rest == Dropping(Top.todo \ {d}) \o Rest
       IN  IF Unwanted(d)
             THEN CancelNode(d, rest)
             ELSE stack' = rest /\ UNCHANGED canceled
  /\ UNCHANGED <<state, requests, needs, members, adopted, ended, attempt, doomed,
                 dispatch, control, locked>>

\* One task CancelWhere picked.
CancelPicked ==
  /\ OnTop("cancel")
  /\ \E k \in Top.todo : CancelNode(k, Canceling(Top.todo \ {k}) \o Rest)
  /\ UNCHANGED <<state, requests, needs, members, adopted, ended, attempt, doomed,
                 dispatch, control, locked>>

\* w still waits for a task that has ended but has not told it yet.
AboutToHear(w, rest) ==
  \E i \in DOMAIN rest : rest[i].op = "tell" /\ w \in rest[i].todo \cap (rest[i].hard \cup rest[i].soft)

\* (Mutant: whether CancelWhere picked it is forgotten.)
FailsAsAny(w) == "dependency"
\* How a task ends when a dependency failed.
FailsAs(w) == IF w \in doomed THEN "canceled" ELSE "dependency"

\* One task that wanted the ended one hears of it. A failed dependency fails a
\* waiting task; a member, or a success, may leave it nothing to wait for.
Tell ==
  /\ OnTop("tell")
  /\ \E w \in Top.todo :
       LET rest == Loop([Top EXCEPT !.todo = @ \ {w}]) \o Rest
           fails == Top.err # "ok" /\ w \in Top.hard
       IN  IF state[w] # "waiting"
             THEN stack' = rest /\ UNCHANGED ended
             ELSE
               /\ ended' = [ended EXCEPT ![w] = @ \cup {Top.key}]
               /\ CASE fails -> stack' = <<Ending(w, FailsAs(w))>> \o rest
                    [] ~fails /\ Outstanding(w) = {} /\ ~AboutToHear(w, rest) ->
                         stack' = <<Preparing(w)>> \o rest
                    [] OTHER -> stack' = rest
  /\ UNCHANGED <<state, requests, needs, members, adopted, attempt, canceled, doomed,
                 dispatch, control, locked>>

\* Replace: first each task wanted, then the withdrawal of everything else.
ReplaceNext ==
  /\ OnTop("replace")
  /\ LET s == Top.source
         lost == {k \in Keys : requests[k][s] # NoPriority} \ Top.keep
     IN  \/ /\ Top.todo = {}
            /\ Proceed(Withdrawing(s, lost))
            /\ UNCHANGED <<state, requests>>
         \/ \E k \in Top.todo :
              LET more == [Top EXCEPT !.todo = @ \ {k}]
              IN  /\ requests' = [requests EXCEPT ![k][s] = Top.prio]
                  /\ IF state[k] = "absent"
                       THEN Add(k) /\ Proceed(<<Preparing(k), more>>)
                       ELSE Proceed(<<more>>) /\ UNCHANGED state
  /\ UNCHANGED <<needs, members, adopted, ended, attempt, canceled, doomed,
                 dispatch, control, locked>>

\* (Mutant: the task is not looked at again.)
WithdrawOnly ==
  /\ OnTop("withdraw")
  /\ \E k \in Top.todo :
       /\ requests' = [requests EXCEPT ![k][Top.source] = NoPriority]
       /\ Proceed(Withdrawing(Top.source, Top.todo \ {k}))
  /\ UNCHANGED <<state, needs, members, adopted, ended, attempt, canceled, doomed,
                 dispatch, control, locked>>
\* One request withdrawn: its task is dropped if nothing else wants it.
WithdrawNext ==
  /\ OnTop("withdraw")
  /\ \E k \in Top.todo :
       /\ requests' = [requests EXCEPT ![k][Top.source] = NoPriority]
       /\ Proceed(Dropping({k}) \o Withdrawing(Top.source, Top.todo \ {k}))
  /\ UNCHANGED <<state, needs, members, adopted, ended, attempt, canceled, doomed,
                 dispatch, control, locked>>

\* A loop whose tasks are all gone returns, and so does a prepare whose task is.
Return ==
  /\ stack # <<>>
  /\ \/ Top.op \in {"drop", "cancel", "tell", "withdraw"} /\ Top.todo = {}
     \/ Top.op = "gone"
  /\ Proceed(<<>>)
  /\ UNCHANGED <<graph, dispatch, control, locked>>

Cascade ==
  \/ Prepare \/ Link \/ Linked
  \/ End \/ Drop \/ CancelPicked \/ Tell
  \/ ReplaceNext \/ WithdrawNext
  \/ Return

-----------------------------------------------------------------------------
(* Admission.                                                                  *)

CtxRunning == {k \in Running : Context[k] # NoContext}
Admissible == {k \in Keys : state[k] = "ready" /\ k \in gate}
InCurrent(k) == Context[k] \in {NoContext, cur}

\* The task's own CanStart: jobs holds a context to its capacity and keeps
\* some kinds to one task at a time; a group always may.
CanStart(k) ==
  Context[k] # NoContext =>
    /\ Cardinality({r \in Running : Context[r] = Context[k]}) < Capacity[Context[k]]
    /\ \A X \in Exclusive : k \in X => X \cap Running = {}

\* The ready tasks that need no switch, and the others, whose most urgent
\* decides whether to switch.
Local(k) == InCurrent(k) \/ (cur = NoContext /\ CtxRunning = {})
Foreign == {k \in Admissible : ~Local(k)}
ForeignPrio == MinOf({Prio(k) : k \in Foreign})

\* (Mutant: what the gate holds back counts.)
CurrentHasAnyReady ==
  \E k \in Keys : state[k] = "ready" /\ Context[k] = cur /\ Prio(k) <= ForeignPrio
\* A tie, or better, keeps the context.
CurrentHasReady == \E k \in Admissible : Context[k] = cur /\ Prio(k) <= ForeignPrio

\* The dwell refuses a switch while work the last one was made for is left.
DwellRefuses ==
  /\ Foreign # {} /\ ~CurrentHasReady
  /\ Dwell /\ dwelling /\ ForeignPrio > DwellExempt
  /\ \E k \in Keys : /\ state[k] \in {"ready", "running"}
                     /\ Context[k] = cur /\ Prio(k) <= switchPrio

SwitchWanted == Foreign # {} /\ ~CurrentHasReady /\ ~DwellRefuses
\* (Mutant: running tasks do not hold a switch up.)
DrainingNever == FALSE
Draining == SwitchWanted /\ CtxRunning # {}

\* What may start now: nothing of the current context while it drains, and the
\* decider once it has.
Candidates ==
  IF closed THEN {}
  ELSE {k \in Admissible : Local(k) /\ CanStart(k) /\ (Draining => Context[k] = NoContext)}
         \cup {k \in Foreign : /\ SwitchWanted /\ ~Draining
                               /\ Prio(k) = ForeignPrio /\ CanStart(k)}

\* Dispatch order, up to the task's own Less and arrival.
Before(j, k) == Prio(j) < Prio(k) \/ (Prio(j) = Prio(k) /\ InCurrent(j) /\ ~InCurrent(k))

\* pop and admit: the first candidate starts, switching the context if it must.
Start(k) ==
  /\ locked /\ stack = <<>>
  /\ k \in Candidates
  /\ \A j \in Candidates : ~Before(j, k)
  /\ state' = [state EXCEPT ![k] = "running"]
  /\ IF InCurrent(k)
       THEN UNCHANGED <<cur, switchPrio, dwelling>>
       ELSE /\ cur' = Context[k]
            /\ switchPrio' = Prio(k)
            /\ dwelling' = Dwell
  /\ UNCHANGED <<requests, needs, members, adopted, ended, attempt, canceled, doomed,
                 timer, control, stack, locked>>

\* (Mutant: no timer.)
TimerNeverArmed == timer
\* A switch the dwell refused is retried by a timer.
TimerArmed == timer \/ (DwellRefuses /\ ~closed)

\* Nothing more may start: the do ends.
Unlock ==
  /\ locked /\ stack = <<>>
  /\ Candidates = {}
  /\ locked' = FALSE
  /\ timer' = TimerArmed
  /\ UNCHANGED <<graph, cur, switchPrio, dwelling, control, stack>>

-----------------------------------------------------------------------------
(* Tasks returning, and time.                                                  *)

\* Ready tasks of context c that cannot start beside what runs.
Blocked(c) ==
  {k \in Admissible : /\ Local(k) /\ Context[k] = c /\ ~CanStart(k)
                      /\ Draining => c = NoContext}
\* (Mutant: it yields to its equals as well.)
ShouldYieldToEquals(k) ==
  /\ state[k] = "running" /\ ~closed
  /\ \/ \E j \in Blocked(Context[k]) : Prio(j) <= Prio(k)
     \/ Context[k] # NoContext /\ Draining /\ ForeignPrio <= Prio(k)
\* ShouldYield: a strictly more urgent ready task cannot start in the task's
\* own context, or waits for that context to drain.
ShouldYield(k) ==
  /\ state[k] = "running" /\ ~closed
  /\ \/ \E j \in Blocked(Context[k]) : Prio(j) < Prio(k)
     \/ Context[k] # NoContext /\ Draining /\ ForeignPrio < Prio(k)

\* (Mutant: one attempt too many.)
AttemptsLeftOffByOne(k) == attempt[k] < MaxAttempts
AttemptsLeft(k) == attempt[k] + 1 < MaxAttempts

\* finish: Run returned. "fail" is a failure the task lets be retried, while
\* attempts are left; "fatal" is one it does not.
Finish(k, result) ==
  /\ ~locked /\ locked' = TRUE
  /\ state[k] = "running"
  /\ result = "yield" => FreeYield \/ ShouldYield(k)
  /\ result = "fail" => k \in Retryable
  /\ \/ /\ k \in canceled
        /\ stack' = <<Ending(k, "canceled")>>
        /\ UNCHANGED attempt
     \/ /\ k \notin canceled /\ result = "ok"
        /\ stack' = <<Ending(k, "ok")>>
        /\ UNCHANGED attempt
     \/ /\ k \notin canceled /\ result = "yield"
        /\ stack' = <<Preparing(k)>>
        /\ UNCHANGED attempt
     \/ /\ k \notin canceled /\ result = "fail" /\ AttemptsLeft(k)
        /\ attempt' = [attempt EXCEPT ![k] = @ + 1]
        /\ stack' = <<Preparing(k)>>
     \/ /\ k \notin canceled
        /\ result = "fatal" \/ (result = "fail" /\ ~AttemptsLeft(k))
        /\ stack' = <<Ending(k, "error")>>
        /\ UNCHANGED attempt
  /\ UNCHANGED <<state, requests, needs, members, adopted, ended, canceled, doomed,
                 dispatch, control>>

\* The dwell after the last switch is over.
DwellEnds ==
  /\ ~locked /\ dwelling
  /\ dwelling' = FALSE
  /\ UNCHANGED <<graph, cur, switchPrio, timer, control, stack, locked>>

\* The dwell timer calls Kick: admission alone. A timer armed for an earlier
\* switch may fire within the dwell of a later one.
TimerFires ==
  /\ ~locked /\ timer
  /\ timer' = FALSE
  /\ locked' = TRUE
  /\ UNCHANGED <<graph, cur, switchPrio, dwelling, control, stack>>

Results == {"ok", "yield", "fail", "fatal"}

\* What callers ask for.
Asking ==
  \/ \E s \in Sources, p \in Prios, k \in Keys : Request(s, p, k) \/ Raise(s, p, k)
  \/ \E s \in Sources, p \in Prios, K \in Batches : Replace(s, p, K)
  \/ \E w, k \in Keys : Adopt(w, k)

\* What callers take back, or stop.
Stopping ==
  \/ \E s \in Sources, K \in Batches : Withdraw(s, K)
  \/ \E k \in Keys : Cancel(k)
  \/ \E K \in Batches : CancelWhere(K)
  \/ \E g \in Gates : SetGate(g)
  \/ Close

Next ==
  \/ Asking
  \/ Stopping
  \/ Cascade
  \/ \E k \in Keys : Start(k)
  \/ Unlock
  \/ \E k \in Keys, r \in Results : Finish(k, r)
  \/ DwellEnds
  \/ TimerFires

Spec == Init /\ [][Next]_vars
-----------------------------------------------------------------------------
(* Properties. Between two calls, when the mutex is free, and while admission  *)
(* runs, the cascade is over.                                                  *)

Settled == stack = <<>>

\* At most one context has running tasks, and it is the resident one
\* (docs/scheduler-design.md, "Exclusivity and contexts").
SingleContext == \A k \in CtxRunning : Context[k] = cur

\* No task is left in the graph that nothing wants: once a cascade is over a
\* task has a request, or something that wants it, or is running and has been
\* asked to stop.
NothingUnwanted == Settled => \A k \in Live : Unwanted(k) => k \in canceled \cap Running

\* No lost wakeup and no early start: once a cascade is over a task waits
\* exactly if something it needs has not ended.
WaitsForSomething ==
  Settled => \A k \in Live : state[k] = "waiting" <=> needs[k] \cup members[k] # {}

\* Nothing waits for itself through what it needs, however many prepares built
\* the links.
NoNeedCycle ==
  \A k \in Keys : k \notin Closure(needs[k] \cup members[k], LAMBDA d : needs[d] \cup members[d])

\* No start is forgotten: when a call returns, whatever might start now was
\* started, except what only the end of the dwell lets start, for which the
\* timer is armed.
NoForgottenStart == ~locked /\ Candidates # {} => timer

\* The scheduler is never idle in front of work the gate lets through: drain,
\* dwell, capacity and exclusion do not together hold every ready task back.
WorkConserving == ~locked /\ ~closed /\ Admissible # {} => Running # {} \/ timer

\* What PickedEndsCanceled takes for granted of the tasks that need members: they
\* do not fail their Prepare, and what they need does not lead back to them. Only
\* such a task is prepared again between being picked and being cancelled.
GroupsPrepare ==
  \A k \in Keys : Members[k] # {} =>
    /\ k \notin Faulty
    /\ \A d \in Deps[k] \cup Members[k] :
         k \notin Closure({d}, LAMBDA j : Deps[j] \cup Members[j])

\* A task picked by CancelWhere ends canceled, never with the failure of another
\* one (the comment on CancelWhere).
PickedEndsCanceled ==
  [][\A k \in doomed : state[k] # "absent" /\ state'[k] = "absent" => Top.err = "canceled"]_vars

\* A running task leaves the graph, or the running state, only when its own Run
\* has returned: a cascade only asks it to stop. So no second run of its key
\* starts beside the first.
RunningUntilReturn ==
  [][\A k \in Running : state'[k] # "running" =>
       /\ Len(stack) = 1
       /\ Top.op \in {"end", "prepare"} /\ Top.key = k]_vars

\* Each key alone, as SchedTask has it: a Run that returned to have another
\* attempt is queued from the prepare on, and a task is gone from the call of
\* end on, which hands its outcome over to the callbacks of the do.
Leaving(k) == OnTop("end") /\ Top.key = k /\ state[k] # "absent"
Requeued(k) == OnTop("prepare") /\ Top.key = k
NodeOf(k) ==
  CASE state[k] = "absent" \/ Leaving(k) -> "absent"
    [] state[k] = "running" /\ ~Leaving(k) /\ ~Requeued(k) -> "running"
    [] OTHER -> "queued"
EndsOf(k) == [e \in Outcome |-> IF Leaving(k) /\ Top.err = e THEN 1 ELSE 0]
Task(k) == INSTANCE SchedTask WITH
  Retries <- k \in Retryable,
  node <- NodeOf(k),
  attempt <- IF Leaving(k) THEN 0 ELSE attempt[k],
  canceled <- k \in canceled /\ ~Leaving(k),
  ends <- EndsOf(k)

\* The cascades keep what the scheduler promises each task, however they cross
\* its key: a running task leaves that state only when its Run returned, so no
\* second run of its key starts beside the first; one asked to stop ends
\* canceled; retries are counted; a task that leaves does so once, with the one
\* outcome it is told.
KeepsContract == [][\A k \in Keys : UNCHANGED Task(k)!vars \/ Task(k)!Next]_vars

\* The comment on ErrCanceled: a task ends canceled when it is cancelled by hand
\* or when nothing wants it any more. For configurations in which nobody cancels
\* by hand.
CanceledOnlyUnwanted ==
  [][\A k \in Running : state'[k] = "absent" /\ Top.err = "canceled" => Unwanted(k)]_vars

-----------------------------------------------------------------------------
(* Liveness. The goroutine that holds the mutex runs on, a Run returns in the  *)
(* end and gets the mutex (Go's mutex starves nobody), and the clock advances. *)

Fairness ==
  /\ WF_vars(Cascade)
  /\ WF_vars(\E k \in Keys : Start(k))
  /\ WF_vars(Unlock)
  /\ \A k \in Keys : SF_vars(\E r \in Results : Finish(k, r))
  /\ SF_vars(DwellEnds)
  /\ SF_vars(TimerFires)

FairSpec == Spec /\ Fairness

\* Once callers ask for nothing more, and with the gate open again and the
\* scheduler not closed, every task ends: no task is starved by a drain, a dwell, a
\* tie that keeps the context or another task of its context, or by tasks that keep
\* yielding to it, and none waits for a wakeup that was lost.
QuietCallers == <>[][~Asking /\ ~Stopping]_vars
StaysOpen == <>[](gate = Keys /\ ~closed)
EveryTaskEnds == QuietCallers /\ StaysOpen => <>[](Live = {})
=============================================================================
