------------------------------ MODULE SchedTask -------------------------------
(* What the scheduler promises for one task key, whatever the rest of its      *)
(* graph does: src/backend/internal/sched/sched.go seen from a task that it    *)
(* runs. The key is absent, queued (Waiting or Ready) or running. A running    *)
(* task is only ever asked to stop: it leaves that state when its Run returns, *)
(* and one asked to stop ends canceled, whatever its Run came to. Each task    *)
(* that leaves the graph is told once how it ended.                            *)
(*                                                                             *)
(* Sched keeps this promise for every key (Sched!KeepsContract), and JobsTask  *)
(* relies on nothing else (JobsTaskProofs!PassKeepsToScheduler).               *)
EXTENDS Integers

CONSTANTS
  MaxAttempts, \* Config.MaxAttempts
  Retries      \* whether the task has failures it lets be retried

VARIABLES
  node,      \* "absent", "queued" or "running"
  attempt,   \* node.attempt
  canceled,  \* node.canceled
  ends       \* outcome -> the tasks that ended so, and are still to be told

vars == <<node, attempt, canceled, ends>>

Outcome == {"ok", "error", "canceled", "dependency"}

Init ==
  /\ node = "absent"
  /\ attempt = 0
  /\ canceled = FALSE
  /\ ends = [e \in Outcome |-> 0]

\* A first request, adoption or need of the key makes its task.
Push ==
  /\ node = "absent"
  /\ node' = "queued"
  /\ UNCHANGED <<attempt, canceled, ends>>

Start ==
  /\ node = "queued"
  /\ node' = "running"
  /\ UNCHANGED <<attempt, canceled, ends>>

\* A running task is asked to stop; it goes on running.
Stop ==
  /\ node = "running" /\ ~canceled
  /\ canceled' = TRUE
  /\ UNCHANGED <<node, attempt, ends>>

\* The task leaves the graph, and nothing of it stays with the key.
Ends(e) ==
  /\ node' = "absent"
  /\ attempt' = 0
  /\ canceled' = FALSE
  /\ ends' = [ends EXCEPT ![e] = @ + 1]

\* A task that is not running ends at once: cancelled, unwanted, with a
\* dependency that failed, or because its own Prepare did.
Drop(e) ==
  /\ node = "queued"
  /\ e # "ok"
  /\ Ends(e)

\* Run returned with r. "fail" is a failure the task lets be retried, "fatal"
\* one it does not.
Return(r) ==
  /\ node = "running"
  /\ \/ canceled /\ Ends("canceled")
     \/ ~canceled /\ r = "ok" /\ Ends("ok")
     \/ /\ ~canceled /\ r = "yield"
        /\ node' = "queued"
        /\ UNCHANGED <<attempt, canceled, ends>>
     \/ /\ ~canceled /\ r = "fail" /\ Retries /\ attempt + 1 < MaxAttempts
        /\ node' = "queued"
        /\ attempt' = attempt + 1
        /\ UNCHANGED <<canceled, ends>>
     \/ /\ ~canceled
        /\ r = "fatal" \/ (r = "fail" /\ attempt + 1 >= MaxAttempts)
        /\ Ends("error")

\* A task that ended is told so.
HandOver(e) ==
  /\ ends[e] > 0
  /\ ends' = [ends EXCEPT ![e] = @ - 1]
  /\ UNCHANGED <<node, attempt, canceled>>

Results == {"ok", "yield", "fail", "fatal"}

Next ==
  \/ Push \/ Start \/ Stop
  \/ \E e \in Outcome : Drop(e) \/ HandOver(e)
  \/ \E r \in Results : Return(r)

Spec == Init /\ [][Next]_vars
=============================================================================
