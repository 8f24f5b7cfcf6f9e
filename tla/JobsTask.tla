------------------------------- MODULE JobsTask -------------------------------
(* One task key of the job manager, src/backend/internal/jobs, as a blocking   *)
(* LLM pass uses it: who pushes it, who waits for its result, and what a       *)
(* chapter counts as still being generated. The scheduler under it is reduced  *)
(* to what it promises for one key (SchedTask, which Sched keeps for every     *)
(* key): the key is absent, queued or running, a running task ends only when   *)
(* its Run returns, and is told so once, after the scheduler's lock is         *)
(* released - so maybe after the key is pushed again. A second push is merged  *)
(* into the task already there.                                                *)
(*                                                                             *)
(* A task is named by the caller whose push created it. Each step is one       *)
(* critical section, of the scheduler's lock or of the manager's.              *)
EXTENDS Integers, FiniteSets

CONSTANTS
  Callers,      \* pushes of the key, each made once
  Blocking,     \* those that wait for the result
  Dependents,   \* those that are another task's Prepare naming a need
  NoTask,
  MaxAttempts   \* maxTaskAttempts, the scheduler's MaxAttempts as well

ASSUME JobsTaskAssumption ==
  /\ IsFiniteSet(Callers)
  /\ Blocking \subseteq Callers
  /\ Dependents \subseteq Callers \ Blocking
  /\ NoTask \notin Callers
  /\ MaxAttempts \in Nat \ {0}

VARIABLES
  node,      \* the key in the scheduler: "absent", "queued" or "running"
  owner,     \* the task under the key
  canceled,  \* whether the running task was asked to stop
  attempt,   \* its attempt
  resume,    \* whether it was paused and has a remainder to push (task.resume)
  run,       \* where its Run is
  result,    \* what its work came to
  resuming,  \* whether Manager.resuming names the key
  waiters,   \* task.llmWaiters of each task
  settled,   \* the tasks with task.settled set
  ending,    \* task -> how it ended, while its Ended is still to be called
  pending,   \* Manager.chapterPending of the chapter
  caller,    \* where each caller is in its push
  told,      \* how often each caller's channel was sent to
  canceler   \* where CancelChapter is

task == <<canceled, attempt, resume, run, result>>
callers == <<caller, canceler>>
vars == <<node, owner, task, resuming, waiters, settled, ending, pending, callers, told>>

Error == {"ok", "error", "canceled", "dependency"}

Count(P(_)) == Cardinality({c \in Callers : P(c)})
\* The pushes counted before the scheduler took them, and not yet uncounted.
Counted(c) == caller[c] \in {"counted", "duplicate"}
EndsSoon(c) == ending[c] # "none"

\* Every variable has its type.
TypeOK ==
  /\ node \in {"absent", "queued", "running"}
  /\ owner \in Callers \cup {NoTask}
  /\ canceled \in BOOLEAN
  /\ attempt \in 0 .. MaxAttempts - 1
  /\ resume \in BOOLEAN
  /\ run \in {"none", "begin", "resume", "resumed", "work", "result", "told", "returned"}
  /\ result \in {"none", "ok", "error", "canceled", "pause"}
  /\ resuming \in BOOLEAN
  /\ waiters \in [Callers -> SUBSET Callers]
  /\ settled \subseteq Callers
  /\ ending \in [Callers -> Error \cup {"none"}]
  /\ pending \in Int
  /\ caller \in [Callers -> {"idle", "counted", "duplicate", "waiting", "done"}]
  /\ told \in [Callers -> Nat]
  /\ canceler \in {"idle", "look", "clear"}

Init ==
  /\ node = "absent" /\ owner = NoTask
  /\ canceled = FALSE /\ attempt = 0 /\ resume = FALSE
  /\ run = "none" /\ result = "none" /\ resuming = FALSE
  /\ waiters = [c \in Callers |-> {}]
  /\ settled = {}
  /\ ending = [c \in Callers |-> "none"]
  /\ pending = 0
  /\ caller = [c \in Callers |-> "idle"]
  /\ told = [c \in Callers |-> 0]
  /\ canceler = "idle"
-----------------------------------------------------------------------------
(* Pushing.                                                                    *)

Pushed(c) == IF c \in Blocking THEN "waiting" ELSE "done"

\* c's waiter joins those of the task under the key.
Join(c) == waiters' = [waiters EXCEPT ![owner] = @ \cup ({c} \cap Blocking)]

\* c's task takes the key, which was absent.
Create(c) ==
  /\ node' = "queued"
  /\ owner' = c
  /\ waiters' = [waiters EXCEPT ![c] = {c} \cap Blocking]

\* pushTask, first part: a push is counted, unless a task that picks a
\* remainder back up takes it over.
Push(c) ==
  /\ caller[c] = "idle" /\ c \notin Dependents
  /\ IF resuming
       THEN /\ resuming' = FALSE
            /\ Join(c)
            /\ caller' = [caller EXCEPT ![c] = Pushed(c)]
            /\ UNCHANGED pending
       ELSE /\ pending' = pending + 1
            /\ caller' = [caller EXCEPT ![c] = "counted"]
            /\ UNCHANGED <<resuming, waiters>>
  /\ UNCHANGED <<node, owner, task, settled, ending, told, canceler>>

\* The scheduler takes the push, or merges it into the task already there.
Ask(c) ==
  /\ caller[c] = "counted"
  /\ IF node = "absent"
       THEN Create(c) /\ caller' = [caller EXCEPT ![c] = Pushed(c)]
       ELSE /\ Join(c)
            /\ caller' = [caller EXCEPT ![c] = "duplicate"]
            /\ UNCHANGED <<node, owner>>
  /\ UNCHANGED <<task, resuming, settled, ending, pending, told, canceler>>

\* (Mutant: a merged push stays counted.)
UncountNever(c) ==
  /\ caller[c] = "duplicate"
  /\ caller' = [caller EXCEPT ![c] = Pushed(c)]
  /\ UNCHANGED <<node, owner, task, resuming, waiters, settled, ending, pending, told, canceler>>
\* A merged push is no longer counted.
Uncount(c) ==
  /\ caller[c] = "duplicate"
  /\ pending' = pending - 1
  /\ caller' = [caller EXCEPT ![c] = Pushed(c)]
  /\ UNCHANGED <<node, owner, task, resuming, waiters, settled, ending, told, canceler>>

\* (Mutant: a task created by a dependency is not counted.)
NeedUncounted(c) ==
  /\ c \in Dependents /\ caller[c] = "idle"
  /\ node = "absent"
  /\ Create(c)
  /\ caller' = [caller EXCEPT ![c] = "done"]
  /\ UNCHANGED <<task, resuming, settled, ending, pending, told, canceler>>
\* Another task's Prepare needs the key: a task is created, and counted, under
\* the scheduler's lock.
Need(c) ==
  /\ c \in Dependents /\ caller[c] = "idle"
  /\ node = "absent"
  /\ Create(c)
  /\ pending' = pending + 1
  /\ caller' = [caller EXCEPT ![c] = "done"]
  /\ UNCHANGED <<task, resuming, settled, ending, told, canceler>>

\* The caller has its result, or its own context ended.
Receive(c) ==
  /\ caller[c] = "waiting" /\ told[c] > 0
  /\ caller' = [caller EXCEPT ![c] = "done"]
  /\ UNCHANGED <<node, owner, task, resuming, waiters, settled, ending, pending, told, canceler>>

GiveUp(c) ==
  /\ caller[c] = "waiting" /\ told[c] = 0
  /\ caller' = [caller EXCEPT ![c] = "done"]
  /\ UNCHANGED <<node, owner, task, resuming, waiters, settled, ending, pending, told, canceler>>
-----------------------------------------------------------------------------
(* Running.                                                                    *)

Start ==
  /\ node = "queued"
  /\ node' = "running"
  /\ run' = "begin"
  /\ UNCHANGED <<owner, canceled, attempt, resume, result, resuming, waiters, settled,
                 ending, pending, callers, told>>

\* A paused task announces that it takes its remainder over.
Begin ==
  /\ run = "begin"
  /\ resume' = FALSE
  /\ IF resume
       THEN resuming' = TRUE /\ run' = "resume"
       ELSE run' = "work" /\ UNCHANGED resuming
  /\ UNCHANGED <<node, owner, canceled, attempt, result, waiters, settled, ending,
                 pending, callers, told>>

\* Its callback pushes the remainder, or nothing. Another push may have come
\* first: then the remainder is merged into the task itself, which changes
\* nothing.
Requeue ==
  /\ run = "resume"
  /\ run' = "resumed"
  /\ resuming' \in {resuming, FALSE}
  /\ UNCHANGED <<node, owner, canceled, attempt, resume, result, waiters, settled,
                 ending, pending, callers, told>>

\* With nothing taken over there is nothing left to do.
Resumed ==
  /\ run = "resumed"
  /\ resuming' = FALSE
  /\ IF resuming
       THEN result' = "ok" /\ run' = "result"
       ELSE run' = "work" /\ UNCHANGED result
  /\ UNCHANGED <<node, owner, canceled, attempt, resume, waiters, settled, ending,
                 pending, callers, told>>

\* The pass itself. One asked to stop may notice, or be done before it does.
Work(r) ==
  /\ run = "work"
  /\ r = "canceled" => canceled
  /\ result' = r
  /\ run' = "result"
  /\ UNCHANGED <<node, owner, canceled, attempt, resume, resuming, waiters, settled,
                 ending, pending, callers, told>>

\* (Mutant: one attempt too many.)
RetryEligibleOffByOne == result = "error" /\ attempt < MaxAttempts
\* retryEligible: a failure that is not a cancellation, with attempts left.
RetryEligible == result = "error" /\ attempt + 1 < MaxAttempts

Tell(o) == told' = [c \in Callers |-> told[c] + IF c \in waiters[o] THEN 1 ELSE 0]

\* finishResult: a pause keeps its callers waiting, and so does a failure that
\* will be retried; anything else goes to whoever waits by then.
Deliver ==
  /\ run = "result"
  /\ IF result = "pause" \/ RetryEligible
       THEN run' = "returned" /\ resume' = (result = "pause") /\ UNCHANGED told
       ELSE run' = "told" /\ Tell(owner) /\ UNCHANGED resume
  /\ UNCHANGED <<node, owner, canceled, attempt, result, resuming, waiters, settled,
                 ending, pending, callers>>

\* handleResult then marks the task settled.
Settle ==
  /\ run = "told"
  /\ run' = "returned"
  /\ settled' = settled \cup {owner}
  /\ UNCHANGED <<node, owner, canceled, attempt, resume, result, resuming, waiters,
                 ending, pending, callers, told>>

\* The task under the key is gone; its Ended is still to be called.
End(e) ==
  /\ node' = "absent"
  /\ owner' = NoTask
  /\ ending' = [ending EXCEPT ![owner] = e]
  /\ canceled' = FALSE /\ attempt' = 0 /\ resume' = FALSE
  /\ run' = "none" /\ result' = "none"

\* The scheduler hears that Run returned.
Return ==
  /\ run = "returned"
  /\ LET retried == RetryEligible /\ owner \notin settled
     IN  \/ /\ canceled
            /\ End("canceled")
         \/ /\ ~canceled /\ result # "pause" /\ ~retried
            /\ End(result)
         \/ /\ ~canceled /\ (result = "pause" \/ retried)
            /\ node' = "queued"
            /\ attempt' = IF retried THEN attempt + 1 ELSE attempt
            /\ run' = "none" /\ result' = "none"
            /\ UNCHANGED <<owner, ending, canceled, resume>>
  /\ UNCHANGED <<resuming, waiters, settled, pending, callers, told>>

\* Cancelled by hand or because nothing wants it any more: a queued task ends,
\* a running one is asked to stop.
CancelTask ==
  IF node = "queued"
    THEN End("canceled")
    ELSE /\ canceled' = (node = "running")
         /\ UNCHANGED <<node, owner, ending, attempt, resume, run, result>>

Cancel ==
  /\ node # "absent" /\ ~canceled
  /\ CancelTask
  /\ UNCHANGED <<resuming, waiters, settled, pending, callers, told>>

DependencyFails ==
  /\ node = "queued"
  /\ End("dependency")
  /\ UNCHANGED <<resuming, waiters, settled, pending, callers, told>>

\* (Mutant: a task that settled its outcome is settled again.)
EndedAnyway(o) ==
  /\ ending[o] # "none"
  /\ ending' = [ending EXCEPT ![o] = "none"]
  /\ pending' = pending - 1
  /\ IF ending[o] = "ok" THEN UNCHANGED told ELSE Tell(o)
  /\ UNCHANGED <<node, owner, task, resuming, waiters, settled, callers>>
\* (Mutant: a cancelled task answers nobody.)
EndedSilently(o) ==
  /\ ending[o] # "none"
  /\ ending' = [ending EXCEPT ![o] = "none"]
  /\ pending' = pending - 1
  /\ IF o \in settled \/ ending[o] \in {"ok", "canceled"} THEN UNCHANGED told ELSE Tell(o)
  /\ UNCHANGED <<node, owner, task, resuming, waiters, settled, callers>>
\* (Mutant: a settled task returns before it uncounts itself.)
EndedEarlyReturn(o) ==
  /\ ending[o] # "none"
  /\ ending' = [ending EXCEPT ![o] = "none"]
  /\ IF o \in settled
       THEN UNCHANGED <<pending, told>>
       ELSE pending' = pending - 1 /\ (IF ending[o] = "ok" THEN UNCHANGED told ELSE Tell(o))
  /\ UNCHANGED <<node, owner, task, resuming, waiters, settled, callers>>
\* Ended, outside the lock: the task no longer counts, and one that settled
\* nothing fails its callers.
Ended(o) ==
  /\ ending[o] # "none"
  /\ ending' = [ending EXCEPT ![o] = "none"]
  /\ pending' = pending - 1
  /\ IF o \in settled \/ ending[o] = "ok" THEN UNCHANGED told ELSE Tell(o)
  /\ UNCHANGED <<node, owner, task, resuming, waiters, settled, callers>>

-----------------------------------------------------------------------------
(* CancelChapter: cancel, look whether the chapter still counts as being       *)
(* generated, and again if it does.                                            *)

CancelChapter ==
  /\ canceler = "idle"
  /\ canceler' = "look"
  /\ IF node = "absent" THEN UNCHANGED <<node, owner, ending, task>> ELSE CancelTask
  /\ UNCHANGED <<resuming, waiters, settled, pending, caller, told>>

Look ==
  /\ canceler = "look"
  /\ canceler' = IF pending > 0 THEN "idle" ELSE "clear"
  /\ UNCHANGED <<node, owner, task, resuming, waiters, settled, ending, pending, caller, told>>

Results == {"ok", "error", "canceled", "pause"}

Pushing == \E c \in Callers : Push(c) \/ Ask(c) \/ Uncount(c) \/ Need(c) \/ Receive(c) \/ GiveUp(c)
Running == Begin \/ Requeue \/ Resumed \/ Deliver \/ Settle \/ Return \/ \E r \in Results : Work(r)

Next ==
  \/ Pushing
  \/ Start
  \/ Running
  \/ Cancel
  \/ DependencyFails
  \/ \E o \in Callers : Ended(o)
  \/ CancelChapter
  \/ Look

Spec == Init /\ [][Next]_vars

\* The scheduler's part in this is that of SchedTask: a pause is its yield, and
\* each task that ended waits for its Ended.
EndingWith(e) == {c \in Callers : ending[c] = e}
Scheduler == INSTANCE SchedTask WITH
  Retries <- TRUE,
  ends <- [e \in Error |-> Cardinality(EndingWith(e))]

(* A goroutine under way runs on; a queued task is started in the end          *)
(* (Sched!EveryTaskEnds); a pass has finitely many batches, and does at least  *)
(* one each time it runs, so it does not pause for ever.                       *)
Fairness ==
  /\ \A c \in Callers : WF_vars(Ask(c) \/ Uncount(c))
  /\ WF_vars(Start)
  /\ WF_vars(Running)
  /\ SF_vars(\E r \in Results \ {"pause"} : Work(r))
  /\ \A o \in Callers : WF_vars(Ended(o))
  /\ WF_vars(CancelChapter \/ Look)

FairSpec == Spec /\ Fairness
-----------------------------------------------------------------------------
(* Properties.                                                                 *)

\* Whatever its Run, its callers and its chapter make of it, the key does only
\* what the scheduler lets a key do: its task leaves the running state when its
\* Run returned, ends canceled once asked to stop, and is told once how it ended.
KeepsToScheduler == Scheduler!Spec

\* No caller's channel, which has room for one result, is sent to twice: the
\* second send would block the goroutine that runs the task, or the one that
\* ended it, for ever (deliverFailure: "this never blocks").
AnsweredOnce == \A c \in Callers : told[c] <= 1

\* The chapter counts exactly the task in the scheduler, the tasks about to be
\* told they ended and the pushes under way: a chapter with a task is always
\* "generating", and one without anything never is.
CountsExactly ==
  pending = Count(Counted) + Count(EndsSoon) + IF node = "absent" THEN 0 ELSE 1

\* CancelChapter returns true only with no task of the chapter left that could
\* still write results (its doc comment).
ClearMeansDone == [][canceler' = "clear" /\ canceler # "clear" => node = "absent"]_vars

\* Whoever waits for a task that has yet to run is answered, through pauses,
\* retries, cancellation and failed dependencies.
QueuedCallerAnswered ==
  \A c \in Callers :
    (node = "queued" /\ c \in waiters[owner]) ~> told[c] > 0

\* CancelChapter, which goes on cancelling while it looks, comes to an end.
CancelChapterEnds == <>(canceler = "clear")

\* The comment on task.llmWaiters: a second caller's waiter is appended rather
\* than silently dropped, since every caller needs a real result. So a caller
\* that waits unanswered waits for a task that is still there, or about to be
\* told it ended with its outcome unsettled.
NoCallerDropped ==
  \A c \in Callers : caller[c] = "waiting" /\ told[c] = 0 =>
    \E o \in Callers :
      /\ c \in waiters[o]
      /\ (owner = o /\ node # "absent") \/ (ending[o] # "none" /\ o \notin settled)
=============================================================================
