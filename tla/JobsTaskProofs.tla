---------------------------- MODULE JobsTaskProofs ----------------------------
(* Theorems about the task of one key, for any callers and number of attempts: *)
(* nobody is answered twice, the chapter's count is exact, CancelChapter says  *)
(* it is clear only when it is, and the pass keeps to the scheduler's promise. *)
EXTENDS JobsTask, FiniteSetTheorems, TLAPS

\* A task is under the key unless it is absent, and runs only while it is there.
NodeOK ==
  /\ node = "absent" <=> owner = NoTask
  /\ run # "none" <=> node = "running"

\* A push that has not been taken yet has no task.
NoTaskYet ==
  \A c \in Callers : caller[c] \in {"idle", "counted", "duplicate"} =>
    owner # c /\ ending[c] = "none" /\ c \notin settled /\ waiters[c] = {}

\* A task that is about to be told it ended is not the one under the key.
EndedOnce == \A c \in Callers : ending[c] # "none" => owner # c

\* A task settles its outcome as the last thing its Run does.
SettledLast == \A c \in settled : owner = c => run = "returned" /\ result # "pause" /\ ~RetryEligible

\* A caller waits for one task.
JoinedOnce ==
  \A c, o \in Callers : c \in waiters[o] =>
    /\ caller[c] \notin {"idle", "counted"}
    /\ \A u \in Callers : c \in waiters[u] => u = o

\* Whoever was answered waits for a task that will answer nobody any more.
Outcome(o) == o \in settled \/ (owner = o /\ run = "told") \/ (owner # o /\ ending[o] = "none")
Answered ==
  \A c \in Callers : told[c] <= 1 /\ \A o \in Callers : c \in waiters[o] /\ told[c] > 0 => Outcome(o)
\* Nobody is answered before it has joined a task.
AnsweredJoined ==
  \A c \in Callers : told[c] > 0 => \E o \in Callers : c \in waiters[o]

\* A failure is told only if it is not tried again.
ToldFinal == run = "told" => result # "pause" /\ ~RetryEligible

\* A run that has come to its end came to something.
HasResult == run \in {"result", "told", "returned"} => result # "none"

TaskInv ==
  /\ TypeOK /\ NodeOK /\ NoTaskYet /\ EndedOnce /\ SettledLast /\ JoinedOnce
  /\ Answered /\ AnsweredJoined /\ ToldFinal /\ HasResult
------------------------------------------------------------------------------
\* The invariant, one action at a time.

\* A caller that joins has joined nothing before, and has not been answered.
LEMMA PushKeeps ==
  ASSUME TaskInv, NEW c \in Callers, Push(c)
  PROVE  TaskInv'
<1>. USE JobsTaskAssumption DEF TaskInv, TypeOK, Push, Join, Pushed, task
<1>1. TypeOK'
  <2>1. (waiters \in [Callers -> SUBSET Callers])'
    OBVIOUS
  <2>2. (caller \in [Callers -> {"idle", "counted", "duplicate", "waiting", "done"}] /\ pending \in Int)'
    OBVIOUS
  <2>3. (resuming \in BOOLEAN)'
    OBVIOUS
  <2>. QED  BY <2>1, <2>2, <2>3
<1>2. NodeOK'
  BY DEF NodeOK
<1>3. NoTaskYet'
  BY DEF NoTaskYet
<1>4. EndedOnce'
  BY DEF EndedOnce
<1>5. SettledLast'
  BY DEF SettledLast, RetryEligible
<1>6. JoinedOnce'
  BY DEF JoinedOnce
<1>7. Answered'
  BY DEF Answered, Outcome, JoinedOnce, AnsweredJoined
<1>8. AnsweredJoined'
  BY DEF AnsweredJoined
<1>9. ToldFinal'
  BY DEF ToldFinal, RetryEligible
<1>10. HasResult'
  BY DEF HasResult
<1>. QED  BY <1>1, <1>2, <1>3, <1>4, <1>5, <1>6, <1>7, <1>8, <1>9, <1>10 DEF TaskInv

LEMMA UncountKeeps ==
  ASSUME TaskInv, NEW c \in Callers, Uncount(c)
  PROVE  TaskInv'
<1>. USE JobsTaskAssumption DEF TaskInv, TypeOK, Uncount, Pushed, task
<1>1. TypeOK'
  OBVIOUS
<1>2. NodeOK'
  BY DEF NodeOK
<1>3. NoTaskYet'
  BY DEF NoTaskYet
<1>4. EndedOnce'
  BY DEF EndedOnce
<1>5. SettledLast'
  BY DEF SettledLast, RetryEligible
<1>6. JoinedOnce'
  BY DEF JoinedOnce
<1>7. Answered'
  BY DEF Answered, Outcome
<1>8. AnsweredJoined'
  BY DEF AnsweredJoined
<1>9. ToldFinal'
  BY DEF ToldFinal, RetryEligible
<1>10. HasResult'
  BY DEF HasResult
<1>. QED  BY <1>1, <1>2, <1>3, <1>4, <1>5, <1>6, <1>7, <1>8, <1>9, <1>10 DEF TaskInv

LEMMA ReceiveKeeps ==
  ASSUME TaskInv, NEW c \in Callers, Receive(c) \/ GiveUp(c)
  PROVE  TaskInv'
<1>. USE JobsTaskAssumption DEF TaskInv, TypeOK, Receive, GiveUp, task
<1>1. TypeOK'
  OBVIOUS
<1>2. NodeOK'
  BY DEF NodeOK
<1>3. NoTaskYet'
  BY DEF NoTaskYet
<1>4. EndedOnce'
  BY DEF EndedOnce
<1>5. SettledLast'
  BY DEF SettledLast, RetryEligible
<1>6. JoinedOnce'
  BY DEF JoinedOnce
<1>7. Answered'
  BY DEF Answered, Outcome
<1>8. AnsweredJoined'
  BY DEF AnsweredJoined
<1>9. ToldFinal'
  BY DEF ToldFinal, RetryEligible
<1>10. HasResult'
  BY DEF HasResult
<1>. QED  BY <1>1, <1>2, <1>3, <1>4, <1>5, <1>6, <1>7, <1>8, <1>9, <1>10 DEF TaskInv

\* A new task is of a caller that has had none.
LEMMA AskKeeps ==
  ASSUME TaskInv, NEW c \in Callers, Ask(c) \/ Need(c)
  PROVE  TaskInv'
<1>. USE JobsTaskAssumption DEF TaskInv, TypeOK, Ask, Need, Create, Join, Pushed, task
<1>1. TypeOK'
  OBVIOUS
<1>2. NodeOK'
  BY DEF NodeOK, NoTaskYet
<1>3. NoTaskYet'
  BY DEF NoTaskYet, JoinedOnce, NodeOK
<1>4. EndedOnce'
  BY DEF EndedOnce, NoTaskYet
<1>5. SettledLast'
  BY DEF SettledLast, RetryEligible, NoTaskYet, NodeOK
<1>6. JoinedOnce'
  BY DEF JoinedOnce, NoTaskYet
<1>7. Answered'
  BY DEF Answered, Outcome, NoTaskYet, NodeOK, AnsweredJoined, JoinedOnce
<1>8. AnsweredJoined'
  BY DEF AnsweredJoined, NoTaskYet
<1>9. ToldFinal'
  BY DEF ToldFinal, RetryEligible, NodeOK
<1>10. HasResult'
  BY DEF HasResult, NodeOK
<1>. QED  BY <1>1, <1>2, <1>3, <1>4, <1>5, <1>6, <1>7, <1>8, <1>9, <1>10 DEF TaskInv

LEMMA StartKeeps ==
  ASSUME TaskInv, Start
  PROVE  TaskInv'
<1>. USE JobsTaskAssumption DEF TaskInv, TypeOK, Start, callers
<1>1. TypeOK'
  OBVIOUS
<1>2. NodeOK'
  BY DEF NodeOK
<1>3. NoTaskYet'
  BY DEF NoTaskYet, NodeOK
<1>4. EndedOnce'
  BY DEF EndedOnce
<1>5. SettledLast'
  BY DEF SettledLast, RetryEligible, ToldFinal, NodeOK
<1>6. JoinedOnce'
  BY DEF JoinedOnce
<1>7. Answered'
  BY DEF Answered, Outcome, SettledLast, NodeOK
<1>8. AnsweredJoined'
  BY DEF AnsweredJoined
<1>9. ToldFinal'
  BY DEF ToldFinal, RetryEligible, NodeOK
<1>10. HasResult'
  BY DEF HasResult, NodeOK
<1>. QED  BY <1>1, <1>2, <1>3, <1>4, <1>5, <1>6, <1>7, <1>8, <1>9, <1>10 DEF TaskInv

LEMMA BeginKeeps ==
  ASSUME TaskInv, Begin \/ Requeue
  PROVE  TaskInv'
<1>. USE JobsTaskAssumption DEF TaskInv, TypeOK, Begin, Requeue, callers
<1>1. TypeOK'
  OBVIOUS
<1>2. NodeOK'
  BY DEF NodeOK
<1>3. NoTaskYet'
  BY DEF NoTaskYet, NodeOK
<1>4. EndedOnce'
  BY DEF EndedOnce
<1>5. SettledLast'
  BY DEF SettledLast, RetryEligible, ToldFinal, NodeOK
<1>6. JoinedOnce'
  BY DEF JoinedOnce
<1>7. Answered'
  BY DEF Answered, Outcome, SettledLast, NodeOK
<1>8. AnsweredJoined'
  BY DEF AnsweredJoined
<1>9. ToldFinal'
  BY DEF ToldFinal, RetryEligible, NodeOK
<1>10. HasResult'
  BY DEF HasResult, NodeOK
<1>. QED  BY <1>1, <1>2, <1>3, <1>4, <1>5, <1>6, <1>7, <1>8, <1>9, <1>10 DEF TaskInv

LEMMA ResumedKeeps ==
  ASSUME TaskInv, Resumed
  PROVE  TaskInv'
<1>. USE JobsTaskAssumption DEF TaskInv, TypeOK, Resumed, callers
<1>1. TypeOK'
  OBVIOUS
<1>2. NodeOK'
  BY DEF NodeOK
<1>3. NoTaskYet'
  BY DEF NoTaskYet, NodeOK
<1>4. EndedOnce'
  BY DEF EndedOnce
<1>5. SettledLast'
  BY DEF SettledLast, RetryEligible, ToldFinal, NodeOK
<1>6. JoinedOnce'
  BY DEF JoinedOnce
<1>7. Answered'
  BY DEF Answered, Outcome, SettledLast, NodeOK
<1>8. AnsweredJoined'
  BY DEF AnsweredJoined
<1>9. ToldFinal'
  BY DEF ToldFinal, RetryEligible, NodeOK
<1>10. HasResult'
  BY DEF HasResult, NodeOK
<1>. QED  BY <1>1, <1>2, <1>3, <1>4, <1>5, <1>6, <1>7, <1>8, <1>9, <1>10 DEF TaskInv

LEMMA WorkKeeps ==
  ASSUME TaskInv, NEW r \in Results, Work(r)
  PROVE  TaskInv'
<1>. USE JobsTaskAssumption DEF TaskInv, TypeOK, Work, Results, callers
<1>1. TypeOK'
  OBVIOUS
<1>2. NodeOK'
  BY DEF NodeOK
<1>3. NoTaskYet'
  BY DEF NoTaskYet, NodeOK
<1>4. EndedOnce'
  BY DEF EndedOnce
<1>5. SettledLast'
  BY DEF SettledLast, RetryEligible, ToldFinal, NodeOK
<1>6. JoinedOnce'
  BY DEF JoinedOnce
<1>7. Answered'
  BY DEF Answered, Outcome, SettledLast, NodeOK
<1>8. AnsweredJoined'
  BY DEF AnsweredJoined
<1>9. ToldFinal'
  BY DEF ToldFinal, RetryEligible, NodeOK
<1>10. HasResult'
  BY DEF HasResult, NodeOK
<1>. QED  BY <1>1, <1>2, <1>3, <1>4, <1>5, <1>6, <1>7, <1>8, <1>9, <1>10 DEF TaskInv

\* Whoever is told now was not told before: the task has not settled.
LEMMA DeliverKeeps ==
  ASSUME TaskInv, Deliver
  PROVE  TaskInv'
<1>. USE JobsTaskAssumption DEF TaskInv, TypeOK, Deliver, Tell, callers
<1>1. TypeOK'
  <2>1. (told \in [Callers -> Nat])'
    OBVIOUS
  <2>. QED  BY <2>1
<1>2. NodeOK'
  BY DEF NodeOK
<1>3. NoTaskYet'
  BY DEF NoTaskYet, NodeOK
<1>4. EndedOnce'
  BY DEF EndedOnce
<1>5. SettledLast'
  BY DEF SettledLast, RetryEligible
<1>6. JoinedOnce'
  BY DEF JoinedOnce
<1>7. Answered'
  BY DEF Answered, Outcome, JoinedOnce, SettledLast, NodeOK
<1>8. AnsweredJoined'
  BY DEF AnsweredJoined, NodeOK
<1>9. ToldFinal'
  BY DEF ToldFinal, RetryEligible
<1>10. HasResult'
  BY DEF HasResult
<1>. QED  BY <1>1, <1>2, <1>3, <1>4, <1>5, <1>6, <1>7, <1>8, <1>9, <1>10 DEF TaskInv

LEMMA SettleKeeps ==
  ASSUME TaskInv, Settle
  PROVE  TaskInv'
<1>. USE JobsTaskAssumption DEF TaskInv, TypeOK, Settle, callers
<1>1. TypeOK'
  BY DEF NodeOK
<1>2. NodeOK'
  BY DEF NodeOK
<1>3. NoTaskYet'
  BY DEF NoTaskYet, NodeOK
<1>4. EndedOnce'
  BY DEF EndedOnce
<1>5. SettledLast'
  BY DEF SettledLast, RetryEligible, ToldFinal, NodeOK
<1>6. JoinedOnce'
  BY DEF JoinedOnce
<1>7. Answered'
  BY DEF Answered, Outcome, SettledLast, NodeOK
<1>8. AnsweredJoined'
  BY DEF AnsweredJoined
<1>9. ToldFinal'
  BY DEF ToldFinal, RetryEligible, NodeOK
<1>10. HasResult'
  BY DEF HasResult, NodeOK
<1>. QED  BY <1>1, <1>2, <1>3, <1>4, <1>5, <1>6, <1>7, <1>8, <1>9, <1>10 DEF TaskInv

LEMMA LookKeeps ==
  ASSUME TaskInv, Look
  PROVE  TaskInv'
<1>. USE JobsTaskAssumption DEF TaskInv, TypeOK, Look, task
<1>1. TypeOK'
  BY DEF NodeOK
<1>2. NodeOK'
  BY DEF NodeOK
<1>3. NoTaskYet'
  BY DEF NoTaskYet, NodeOK
<1>4. EndedOnce'
  BY DEF EndedOnce
<1>5. SettledLast'
  BY DEF SettledLast, RetryEligible, ToldFinal, NodeOK
<1>6. JoinedOnce'
  BY DEF JoinedOnce
<1>7. Answered'
  BY DEF Answered, Outcome, SettledLast, NodeOK
<1>8. AnsweredJoined'
  BY DEF AnsweredJoined
<1>9. ToldFinal'
  BY DEF ToldFinal, RetryEligible, NodeOK
<1>10. HasResult'
  BY DEF HasResult, NodeOK
<1>. QED  BY <1>1, <1>2, <1>3, <1>4, <1>5, <1>6, <1>7, <1>8, <1>9, <1>10 DEF TaskInv

\* A task that settled its outcome ends here, and is not run again.
LEMMA ReturnKeeps ==
  ASSUME TaskInv, Return
  PROVE  TaskInv'
<1>. USE JobsTaskAssumption DEF TaskInv, TypeOK, Return, End, Error, callers
<1>1. TypeOK'
  <2>1. (ending \in [Callers -> Error \cup {"none"}])'
    BY DEF NodeOK
  <2>2. (node \in {"absent", "queued", "running"} /\ owner \in Callers \cup {NoTask})'
    OBVIOUS
  <2>3. (attempt \in 0 .. MaxAttempts - 1)'
    BY DEF RetryEligible
  <2>4. (canceled \in BOOLEAN)'
    OBVIOUS
  <2>5. (resume \in BOOLEAN)'
    OBVIOUS
  <2>6. (run \in {"none", "begin", "resume", "resumed", "work", "result", "told", "returned"}
           /\ result \in {"none", "ok", "error", "canceled", "pause"})'
    OBVIOUS
  <2>. QED  BY <2>1, <2>2, <2>3, <2>4, <2>5, <2>6
<1>2. NodeOK'
  BY DEF NodeOK
<1>3. NoTaskYet'
  BY DEF NoTaskYet, NodeOK
<1>4. EndedOnce'
  BY DEF EndedOnce
<1>5. SettledLast'
  BY DEF SettledLast, RetryEligible, NodeOK
<1>6. JoinedOnce'
  BY DEF JoinedOnce
<1>7. Answered'
  BY DEF Answered, Outcome, NodeOK, SettledLast
<1>8. AnsweredJoined'
  BY DEF AnsweredJoined
<1>9. ToldFinal'
  BY DEF ToldFinal, RetryEligible, NodeOK
<1>10. HasResult'
  BY DEF HasResult, NodeOK
<1>. QED  BY <1>1, <1>2, <1>3, <1>4, <1>5, <1>6, <1>7, <1>8, <1>9, <1>10 DEF TaskInv

LEMMA CancelKeeps ==
  ASSUME TaskInv, Cancel
  PROVE  TaskInv'
<1>. USE JobsTaskAssumption DEF TaskInv, TypeOK, Cancel, CancelTask, End, Error, callers, task
<1>1. TypeOK'
  <2>1. (ending \in [Callers -> Error \cup {"none"}])'
    BY DEF NodeOK
  <2>2. (node \in {"absent", "queued", "running"} /\ owner \in Callers \cup {NoTask})'
    OBVIOUS
  <2>3. (attempt \in 0 .. MaxAttempts - 1)'
    BY DEF RetryEligible
  <2>4. (canceled \in BOOLEAN)'
    OBVIOUS
  <2>5. (resume \in BOOLEAN)'
    OBVIOUS
  <2>6. (run \in {"none", "begin", "resume", "resumed", "work", "result", "told", "returned"}
           /\ result \in {"none", "ok", "error", "canceled", "pause"})'
    OBVIOUS
  <2>. QED  BY <2>1, <2>2, <2>3, <2>4, <2>5, <2>6
<1>2. NodeOK'
  BY DEF NodeOK
<1>3. NoTaskYet'
  BY DEF NoTaskYet, NodeOK
<1>4. EndedOnce'
  BY DEF EndedOnce
<1>5. SettledLast'
  BY DEF SettledLast, RetryEligible, NodeOK
<1>6. JoinedOnce'
  BY DEF JoinedOnce
<1>7. Answered'
  BY DEF Answered, Outcome, NodeOK, SettledLast
<1>8. AnsweredJoined'
  BY DEF AnsweredJoined
<1>9. ToldFinal'
  BY DEF ToldFinal, RetryEligible, NodeOK
<1>10. HasResult'
  BY DEF HasResult, NodeOK
<1>. QED  BY <1>1, <1>2, <1>3, <1>4, <1>5, <1>6, <1>7, <1>8, <1>9, <1>10 DEF TaskInv

LEMMA DependencyFailsKeeps ==
  ASSUME TaskInv, DependencyFails
  PROVE  TaskInv'
<1>. USE JobsTaskAssumption DEF TaskInv, TypeOK, DependencyFails, End, Error, callers, task
<1>1. TypeOK'
  <2>1. (ending \in [Callers -> Error \cup {"none"}])'
    BY DEF NodeOK
  <2>2. (node \in {"absent", "queued", "running"} /\ owner \in Callers \cup {NoTask})'
    OBVIOUS
  <2>3. (attempt \in 0 .. MaxAttempts - 1)'
    BY DEF RetryEligible
  <2>4. (canceled \in BOOLEAN)'
    OBVIOUS
  <2>5. (resume \in BOOLEAN)'
    OBVIOUS
  <2>6. (run \in {"none", "begin", "resume", "resumed", "work", "result", "told", "returned"}
           /\ result \in {"none", "ok", "error", "canceled", "pause"})'
    OBVIOUS
  <2>. QED  BY <2>1, <2>2, <2>3, <2>4, <2>5, <2>6
<1>2. NodeOK'
  BY DEF NodeOK
<1>3. NoTaskYet'
  BY DEF NoTaskYet, NodeOK
<1>4. EndedOnce'
  BY DEF EndedOnce
<1>5. SettledLast'
  BY DEF SettledLast, RetryEligible, NodeOK
<1>6. JoinedOnce'
  BY DEF JoinedOnce
<1>7. Answered'
  BY DEF Answered, Outcome, NodeOK, SettledLast
<1>8. AnsweredJoined'
  BY DEF AnsweredJoined
<1>9. ToldFinal'
  BY DEF ToldFinal, RetryEligible, NodeOK
<1>10. HasResult'
  BY DEF HasResult, NodeOK
<1>. QED  BY <1>1, <1>2, <1>3, <1>4, <1>5, <1>6, <1>7, <1>8, <1>9, <1>10 DEF TaskInv

LEMMA CancelChapterKeeps ==
  ASSUME TaskInv, CancelChapter
  PROVE  TaskInv'
<1>. USE JobsTaskAssumption DEF TaskInv, TypeOK, CancelChapter, CancelTask, End, Error, callers, task
<1>1. TypeOK'
  <2>1. (ending \in [Callers -> Error \cup {"none"}])'
    BY DEF NodeOK
  <2>2. (node \in {"absent", "queued", "running"} /\ owner \in Callers \cup {NoTask})'
    OBVIOUS
  <2>3. (attempt \in 0 .. MaxAttempts - 1)'
    BY DEF RetryEligible
  <2>4. (canceled \in BOOLEAN)'
    OBVIOUS
  <2>5. (resume \in BOOLEAN)'
    OBVIOUS
  <2>6. (run \in {"none", "begin", "resume", "resumed", "work", "result", "told", "returned"}
           /\ result \in {"none", "ok", "error", "canceled", "pause"})'
    OBVIOUS
  <2>. QED  BY <2>1, <2>2, <2>3, <2>4, <2>5, <2>6
<1>2. NodeOK'
  BY DEF NodeOK
<1>3. NoTaskYet'
  BY DEF NoTaskYet, NodeOK
<1>4. EndedOnce'
  BY DEF EndedOnce
<1>5. SettledLast'
  BY DEF SettledLast, RetryEligible, NodeOK
<1>6. JoinedOnce'
  BY DEF JoinedOnce
<1>7. Answered'
  BY DEF Answered, Outcome, NodeOK, SettledLast
<1>8. AnsweredJoined'
  BY DEF AnsweredJoined
<1>9. ToldFinal'
  BY DEF ToldFinal, RetryEligible, NodeOK
<1>10. HasResult'
  BY DEF HasResult, NodeOK
<1>. QED  BY <1>1, <1>2, <1>3, <1>4, <1>5, <1>6, <1>7, <1>8, <1>9, <1>10 DEF TaskInv

\* Whoever is told now was not told before: the task settled nothing.
LEMMA EndedKeeps ==
  ASSUME TaskInv, NEW o \in Callers, Ended(o)
  PROVE  TaskInv'
<1>. USE JobsTaskAssumption DEF TaskInv, TypeOK, Ended, Tell, Error, callers, task
<1>1. TypeOK'
  <2>1. (told \in [Callers -> Nat])'
    OBVIOUS
  <2>2. (ending \in [Callers -> Error \cup {"none"}])'
    OBVIOUS
  <2>3. (pending \in Int)'
    OBVIOUS
  <2>. QED  BY <2>1, <2>2, <2>3
<1>2. NodeOK'
  BY DEF NodeOK
<1>3. NoTaskYet'
  BY DEF NoTaskYet
<1>4. EndedOnce'
  BY DEF EndedOnce
<1>5. SettledLast'
  BY DEF SettledLast, RetryEligible
<1>6. JoinedOnce'
  BY DEF JoinedOnce
<1>7. Answered'
  BY DEF Answered, Outcome, EndedOnce, SettledLast, JoinedOnce, NodeOK
<1>8. AnsweredJoined'
  BY DEF AnsweredJoined
<1>9. ToldFinal'
  BY DEF ToldFinal, RetryEligible
<1>10. HasResult'
  BY DEF HasResult
<1>. QED  BY <1>1, <1>2, <1>3, <1>4, <1>5, <1>6, <1>7, <1>8, <1>9, <1>10 DEF TaskInv

LEMMA TaskStep == TaskInv /\ [Next]_vars => TaskInv'
<1>. SUFFICES ASSUME TaskInv, [Next]_vars PROVE TaskInv'
  OBVIOUS
<1>1. CASE UNCHANGED vars
  BY <1>1 DEF vars, task, callers, TaskInv, TypeOK, NodeOK, NoTaskYet, EndedOnce, SettledLast,
     JoinedOnce, Answered, AnsweredJoined, Outcome, ToldFinal, HasResult, RetryEligible
<1>2. CASE Pushing
  BY <1>2, PushKeeps, UncountKeeps, ReceiveKeeps, AskKeeps DEF Pushing
<1>3. CASE Running
  BY <1>3, BeginKeeps, ResumedKeeps, DeliverKeeps, SettleKeeps, ReturnKeeps, WorkKeeps DEF Running
<1>. QED  BY <1>1, <1>2, <1>3, StartKeeps, CancelKeeps, DependencyFailsKeeps, EndedKeeps,
             CancelChapterKeeps, LookKeeps DEF Next

LEMMA TaskStart == Init => TaskInv
<1>. SUFFICES ASSUME Init PROVE TaskInv
  OBVIOUS
<1>. USE JobsTaskAssumption DEF Init
<1>1. TypeOK
  <2>1. attempt \in 0 .. MaxAttempts - 1
    OBVIOUS
  <2>2. owner \in Callers \cup {NoTask} /\ settled \subseteq Callers /\ pending \in Int
    OBVIOUS
  <2>3. waiters \in [Callers -> SUBSET Callers] /\ told \in [Callers -> Nat]
    OBVIOUS
  <2>4. /\ ending \in [Callers -> Error \cup {"none"}]
        /\ caller \in [Callers -> {"idle", "counted", "duplicate", "waiting", "done"}]
    OBVIOUS
  <2>. QED  BY <2>1, <2>2, <2>3, <2>4 DEF TypeOK
<1>2. NodeOK /\ NoTaskYet /\ EndedOnce /\ SettledLast
  BY DEF NodeOK, NoTaskYet, EndedOnce, SettledLast
<1>3. JoinedOnce /\ Answered /\ AnsweredJoined /\ ToldFinal /\ HasResult
  BY DEF JoinedOnce, Answered, AnsweredJoined, ToldFinal, HasResult
<1>. QED  BY <1>1, <1>2, <1>3 DEF TaskInv

LEMMA TaskAlways == Spec => []TaskInv
  BY TaskStart, TaskStep, PTL DEF Spec

\* Every variable has its type; a task is never on an attempt past the last.
THEOREM TaskTypeCorrect == Spec => []TypeOK
<1>1. TaskInv => TypeOK
  BY DEF TaskInv
<1>. QED  BY <1>1, TaskAlways, PTL

\* No caller's channel is sent to twice, by the task's Run and by its Ended or
\* by two runs (finishResult, deliverFailure, Ended), for any number of callers
\* and attempts.
THEOREM NobodyAnsweredTwice == Spec => []AnsweredOnce
<1>1. TaskInv => AnsweredOnce
  BY DEF TaskInv, Answered, AnsweredOnce
<1>. QED  BY <1>1, TaskAlways, PTL
------------------------------------------------------------------------------
\* What the chapter counts.

Counting == {c \in Callers : caller[c] \in {"counted", "duplicate"}}
Ending == {c \in Callers : ending[c] # "none"}
TaskThere == IF node = "absent" THEN 0 ELSE 1
Counts == pending = Cardinality(Counting) + Cardinality(Ending) + TaskThere

LEMMA CountsMeans == CountsExactly <=> Counts
  BY DEF CountsExactly, Count, Counted, EndsSoon, Counts, Counting, Ending, TaskThere

LEMMA Finite ==
  /\ IsFiniteSet(Counting) /\ IsFiniteSet(Ending)
  /\ Cardinality(Counting) \in Nat /\ Cardinality(Ending) \in Nat
<1>1. IsFiniteSet(Counting) /\ IsFiniteSet(Ending)
  BY JobsTaskAssumption, FS_Subset DEF Counting, Ending
<1>. QED  BY <1>1, FS_CardinalityType

\* One more, one less.
LEMMA OneMore ==
  ASSUME NEW S, IsFiniteSet(S), NEW x, x \notin S
  PROVE  Cardinality(S \cup {x}) = Cardinality(S) + 1
  BY FS_AddElement
LEMMA OneLess ==
  ASSUME NEW S, IsFiniteSet(S), NEW x \in S
  PROVE  Cardinality(S \ {x}) = Cardinality(S) - 1
  BY FS_RemoveElement

\* A task that ends is counted as ending instead.
LEMMA EndCounts ==
  ASSUME TaskInv, Counts, NEW e \in Error, End(e), node # "absent", UNCHANGED <<pending, caller>>
  PROVE  Counts'
<1>1. owner \in Callers /\ owner \notin Ending
  BY DEF TaskInv, TypeOK, NodeOK, EndedOnce, Ending
<1>2. Ending' = Ending \cup {owner}
  BY <1>1 DEF End, Ending, TaskInv, TypeOK, Error
<1>3. Counting' = Counting
  BY DEF Counting
<1>4. TaskThere = 1 /\ TaskThere' = 0
  BY DEF TaskThere, End
<1>. QED  BY <1>1, <1>2, <1>3, <1>4, Finite, OneMore DEF Counts

LEMMA PushCounts ==
  ASSUME TaskInv, Counts, NEW c \in Callers, Push(c) \/ Receive(c) \/ GiveUp(c)
  PROVE  Counts'
<1>1. Ending' = Ending /\ TaskThere' = TaskThere
  BY DEF Ending, TaskThere, Push, Receive, GiveUp
<1>2. CASE caller'[c] = "counted"
  <2>1. c \notin Counting /\ Counting' = Counting \cup {c} /\ pending' = pending + 1
    BY <1>2 DEF Counting, Push, Receive, GiveUp, Pushed, TaskInv, TypeOK
  <2>2. Cardinality(Counting') = Cardinality(Counting) + 1
    BY <2>1, Finite, OneMore
  <2>. QED  BY <1>1, <2>1, <2>2, Finite DEF Counts, TaskThere
<1>3. CASE caller'[c] # "counted"
  <2>1. Counting' = Counting /\ pending' = pending
    BY <1>3 DEF Counting, Push, Receive, GiveUp, Pushed, TaskInv, TypeOK
  <2>. QED  BY <1>1, <2>1 DEF Counts
<1>. QED  BY <1>2, <1>3

LEMMA AskCounts ==
  ASSUME TaskInv, Counts, NEW c \in Callers, Ask(c)
  PROVE  Counts'
<1>. USE DEF TaskInv, TypeOK
<1>1. Ending' = Ending /\ pending' = pending /\ c \in Counting
  BY DEF Ending, Ask, Counting
<1>2. CASE node = "absent"
  <2>1. Counting' = Counting \ {c} /\ TaskThere = 0 /\ TaskThere' = 1
    BY <1>2 DEF Counting, Ask, Create, Pushed, TaskThere
  <2>. QED  BY <1>1, <2>1, Finite, OneLess DEF Counts
<1>3. CASE node # "absent"
  <2>1. Counting' = Counting /\ TaskThere' = TaskThere
    BY <1>3 DEF Counting, Ask, TaskThere
  <2>. QED  BY <1>1, <2>1 DEF Counts
<1>. QED  BY <1>2, <1>3

LEMMA UncountCounts ==
  ASSUME TaskInv, Counts, NEW c \in Callers, Uncount(c)
  PROVE  Counts'
<1>1. Ending' = Ending /\ TaskThere' = TaskThere /\ pending' = pending - 1
  BY DEF Ending, TaskThere, Uncount
<1>2. c \in Counting /\ Counting' = Counting \ {c}
  BY DEF Counting, Uncount, Pushed, TaskInv, TypeOK
<1>3. Cardinality(Counting') = Cardinality(Counting) - 1
  BY <1>2, Finite, OneLess
<1>. QED  BY <1>1, <1>3, Finite DEF Counts, TaskThere

LEMMA NeedCounts ==
  ASSUME TaskInv, Counts, NEW c \in Callers, Need(c)
  PROVE  Counts'
<1>1. Ending' = Ending /\ pending' = pending + 1 /\ TaskThere = 0 /\ TaskThere' = 1
  BY DEF Ending, TaskThere, Need, Create
<1>2. Counting' = Counting
  BY DEF Counting, Need, TaskInv, TypeOK
<1>. QED  BY <1>1, <1>2, Finite DEF Counts

LEMMA EndedCounts ==
  ASSUME TaskInv, Counts, NEW o \in Callers, Ended(o)
  PROVE  Counts'
<1>1. Counting' = Counting /\ TaskThere' = TaskThere /\ pending' = pending - 1
  BY DEF Counting, TaskThere, Ended, callers
<1>2. o \in Ending /\ Ending' = Ending \ {o}
  BY DEF Ending, Ended, TaskInv, TypeOK
<1>3. Cardinality(Ending') = Cardinality(Ending) - 1
  BY <1>2, Finite, OneLess
<1>. QED  BY <1>1, <1>3, Finite DEF Counts, TaskThere

\* The other steps end the task, or leave what is counted alone.
LEMMA RestCounts ==
  ASSUME TaskInv, Counts,
         Start \/ Running \/ Cancel \/ DependencyFails \/ CancelChapter \/ Look \/ UNCHANGED vars
  PROVE  Counts'
<1>1. UNCHANGED <<pending, caller>>
  BY DEF Start, Running, Begin, Requeue, Resumed, Work, Deliver, Settle, Return, Cancel, DependencyFails,
     CancelChapter, Look, vars, callers
<1>2. CASE \E e \in Error : End(e) /\ node # "absent"
  BY <1>1, <1>2, EndCounts
<1>3. CASE ending' = ending /\ (node' = "absent" <=> node = "absent")
  <2>1. Counting' = Counting /\ Ending' = Ending /\ TaskThere' = TaskThere
    BY <1>1, <1>3 DEF Counting, Ending, TaskThere
  <2>. QED  BY <1>1, <2>1 DEF Counts
<1>4. CASE Return
  <2>1. node # "absent" /\ result \in Error \cup {"pause"}
    BY <1>4 DEF Return, TaskInv, TypeOK, NodeOK, HasResult, Error
  <2>2. (\E e \in Error : End(e)) \/ (ending' = ending /\ node' = "queued")
    BY <1>4, <2>1 DEF Return, Error
  <2>. QED  BY <1>2, <1>3, <2>1, <2>2
<1>5. CASE Start \/ (Running /\ ~Return) \/ Look \/ UNCHANGED vars
  BY <1>3, <1>5 DEF Start, Running, Begin, Requeue, Resumed, Work, Deliver, Settle, Look, vars
<1>6. CASE Cancel \/ DependencyFails \/ CancelChapter
  <2>1. (\E e \in Error : End(e) /\ node # "absent") \/ (ending' = ending /\ node' = node)
    BY <1>6 DEF Cancel, DependencyFails, CancelChapter, CancelTask, Error
  <2>. QED  BY <1>2, <1>3, <2>1
<1>. QED  BY <1>4, <1>5, <1>6

LEMMA CountsAlways == Spec => []Counts
<1>1. Init => Counts
  <2>. SUFFICES ASSUME Init PROVE Counts
    OBVIOUS
  <2>1. Counting = {} /\ Ending = {} /\ TaskThere = 0
    BY DEF Init, Counting, Ending, TaskThere
  <2>. QED  BY <2>1, FS_EmptySet DEF Init, Counts
<1>2. TaskInv /\ Counts /\ [Next]_vars => Counts'
  BY PushCounts, AskCounts, UncountCounts, NeedCounts, EndedCounts, RestCounts DEF Next, Pushing
<1>. QED  BY <1>1, <1>2, TaskAlways, PTL DEF Spec

\* A chapter counts its task, those about to be told they ended and the pushes
\* under way, each once, whatever is merged, paused, retried, cancelled or
\* created by a dependency (notePushed, chapterPending), for any callers.
THEOREM ChapterCountsExactly == Spec => []CountsExactly
  BY CountsAlways, CountsMeans, PTL

\* CancelChapter finds nothing counted only when no task is left that could
\* still write results of the chapter.
THEOREM ClearIsClear == Spec => ClearMeansDone
<1>1. Counts /\ [Next]_vars =>
        [canceler' = "clear" /\ canceler # "clear" => node = "absent"]_vars
  <2>. SUFFICES ASSUME Counts, [Next]_vars, canceler' = "clear", canceler # "clear"
                PROVE  node = "absent"
    OBVIOUS
  <2>1. Look
    BY DEF Next, Pushing, Running, Push, Ask, Uncount, Need, Receive, GiveUp, Start, Begin, Requeue,
       Resumed, Work, Deliver, Settle, Return, Cancel, DependencyFails, Ended, CancelChapter, vars, callers
  <2>2. ~(pending > 0)
    BY <2>1 DEF Look
  <2>. QED  BY <2>2, Finite DEF Counts, TaskThere
<1>. QED  BY <1>1, CountsAlways, PTL DEF Spec, ClearMeansDone

------------------------------------------------------------------------------
\* The scheduler's part.

\* A pass is canceled only when it was asked to stop.
CanceledAsked == result = "canceled" => canceled

LEMMA AskedStep ==
  ASSUME TaskInv, CanceledAsked, [Next]_vars
  PROVE  CanceledAsked'
<1>1. CASE Pushing \/ Look \/ UNCHANGED vars \/ \E o \in Callers : Ended(o)
  BY <1>1 DEF Pushing, Push, Ask, Uncount, Need, Receive, GiveUp, Look, Ended, vars, task, CanceledAsked
<1>2. CASE Start \/ Running
  BY <1>2 DEF Start, Running, Begin, Requeue, Resumed, Work, Deliver, Settle, Return, End,
              CanceledAsked
<1>3. CASE Cancel \/ DependencyFails \/ CancelChapter
  BY <1>3 DEF Cancel, DependencyFails, CancelChapter, CancelTask, End, CanceledAsked, task,
              TaskInv, TypeOK
<1>. QED  BY <1>1, <1>2, <1>3 DEF Next

LEMMA EndingFinite ==
  ASSUME NEW e
  PROVE  IsFiniteSet(EndingWith(e)) /\ Cardinality(EndingWith(e)) \in Nat
<1>1. IsFiniteSet(EndingWith(e))
  BY JobsTaskAssumption, FS_Subset DEF EndingWith
<1>. QED  BY <1>1, FS_CardinalityType

\* How many tasks that ended are still to be told.
Untold == [e \in Error |-> Cardinality(EndingWith(e))]

LEMMA UntoldMore ==
  ASSUME TaskInv, NEW o \in Callers, ending[o] = "none", NEW e \in Error,
         ending' = [ending EXCEPT ![o] = e]
  PROVE  Untold' = [Untold EXCEPT ![e] = @ + 1]
<1>1. o \notin EndingWith(e) /\ EndingWith(e)' = EndingWith(e) \cup {o}
  BY DEF EndingWith, TaskInv, TypeOK, Error
<1>2. \A x \in Error : x # e => EndingWith(x)' = EndingWith(x)
  BY DEF EndingWith, TaskInv, TypeOK, Error
<1>3. Cardinality(EndingWith(e))' = Cardinality(EndingWith(e)) + 1
  BY <1>1, EndingFinite, OneMore
<1>4. \A x \in Error : Cardinality(EndingWith(x))' =
                       IF x = e THEN Cardinality(EndingWith(x)) + 1 ELSE Cardinality(EndingWith(x))
  BY <1>2, <1>3
<1>. QED  BY <1>4 DEF Untold

LEMMA UntoldLess ==
  ASSUME TaskInv, NEW o \in Callers, NEW e \in Error, ending[o] = e,
         ending' = [ending EXCEPT ![o] = "none"]
  PROVE  Untold[e] > 0 /\ Untold' = [Untold EXCEPT ![e] = @ - 1]
<1>1. o \in EndingWith(e) /\ EndingWith(e)' = EndingWith(e) \ {o}
  BY DEF EndingWith, TaskInv, TypeOK, Error
<1>2. \A x \in Error : x # e => EndingWith(x)' = EndingWith(x)
  BY DEF EndingWith, TaskInv, TypeOK, Error
<1>3. Cardinality(EndingWith(e))' = Cardinality(EndingWith(e)) - 1
  BY <1>1, EndingFinite, OneLess
<1>4. \A x \in Error : Cardinality(EndingWith(x))' =
                       IF x = e THEN Cardinality(EndingWith(x)) - 1 ELSE Cardinality(EndingWith(x))
  BY <1>2, <1>3
<1>5. Cardinality(EndingWith(e)) # 0
  BY <1>1, EndingFinite, FS_EmptySet
<1>6. Cardinality(EndingWith(e)) > 0
  BY <1>5, EndingFinite
<1>. QED  BY <1>4, <1>6 DEF Untold

\* The task under the key ends with e.
LEMMA EndEnds ==
  ASSUME TaskInv, NEW e \in Error, End(e), node # "absent"
  PROVE  Scheduler!Ends(e)
<1>1. owner \in Callers /\ ending[owner] = "none" /\ ending' = [ending EXCEPT ![owner] = e]
  BY DEF TaskInv, TypeOK, NodeOK, EndedOnce, End
<1>2. Untold' = [Untold EXCEPT ![e] = @ + 1]
  BY <1>1, UntoldMore
<1>. QED  BY <1>2 DEF End, Scheduler!Ends, Untold

\* A step that leaves the scheduler alone.
LEMMA Aside ==
  ASSUME UNCHANGED <<node, attempt, canceled, ending>>
  PROVE  UNCHANGED Scheduler!vars
<1>1. Untold' = Untold
  BY DEF Untold, EndingWith
<1>. QED  BY <1>1 DEF Scheduler!vars, Untold

LEMMA SchedulerStep ==
  ASSUME TaskInv, CanceledAsked, [Next]_vars
  PROVE  [Scheduler!Next]_(Scheduler!vars)
<1>. USE DEF Scheduler!Next, Scheduler!Outcome, Scheduler!Results
<1>1. ASSUME ending' = ending
      PROVE  Untold' = Untold
  BY <1>1 DEF Untold, EndingWith
<1>2. CASE \E c \in Callers : Ask(c) \/ Need(c)
  <2>1. UNCHANGED <<attempt, canceled, ending>> /\ (UNCHANGED node \/ (node = "absent" /\ node' = "queued"))
    BY <1>2 DEF Ask, Need, Create, task
  <2>2. CASE UNCHANGED node
    BY <2>1, <2>2, Aside
  <2>3. CASE node = "absent" /\ node' = "queued"
    BY <1>1, <2>1, <2>3 DEF Scheduler!Push, Untold
  <2>. QED  BY <2>1, <2>2, <2>3
<1>3. CASE \/ \E c \in Callers : Push(c) \/ Uncount(c) \/ Receive(c) \/ GiveUp(c)
           \/ Look \/ UNCHANGED vars
           \/ Begin \/ Requeue \/ Resumed \/ Deliver \/ Settle \/ \E r \in Results : Work(r)
  <2>1. UNCHANGED <<node, attempt, canceled, ending>>
    BY <1>3 DEF Push, Uncount, Receive, GiveUp, Look, vars, task, Begin, Requeue, Resumed,
                Deliver, Settle, Work
  <2>. QED  BY <2>1, Aside
<1>4. CASE Start
  <2>1. node = "queued" /\ node' = "running" /\ UNCHANGED <<attempt, canceled, ending>>
    BY <1>4 DEF Start
  <2>. QED  BY <1>1, <2>1 DEF Scheduler!Start, Untold
<1>5. CASE Return
  <2>1. node = "running" /\ result # "none" /\ CanceledAsked
    BY <1>5 DEF Return, TaskInv, NodeOK, HasResult
  <2>2. CASE canceled /\ End("canceled")
    <3>1. Scheduler!Ends("canceled")
      BY <2>1, <2>2, EndEnds DEF Error
    <3>. QED  BY <2>1, <2>2, <3>1 DEF Scheduler!Return
  <2>3. CASE ~canceled /\ result # "pause" /\ End(result)
    <3>1. result \in {"ok", "error"}
      BY <2>1, <2>3 DEF TaskInv, TypeOK, CanceledAsked
    <3>2. Scheduler!Ends(result)
      BY <2>1, <2>3, <3>1, EndEnds DEF Error
    <3>3. CASE result = "ok"
      <4>1. Scheduler!Return("ok")
        BY <2>1, <2>3, <3>2, <3>3 DEF Scheduler!Return
      <4>. QED  BY <4>1
    <3>4. CASE result = "error"
      <4>1. Scheduler!Return("fatal")
        BY <2>1, <2>3, <3>2, <3>4 DEF Scheduler!Return
      <4>. QED  BY <4>1
    <3>. QED  BY <3>1, <3>3, <3>4
  <2>4. ASSUME ~canceled, node' = "queued", UNCHANGED <<ending, canceled>>,
               \/ result = "pause" /\ attempt' = attempt
               \/ RetryEligible /\ attempt' = attempt + 1
        PROVE  Scheduler!Next
    <3>1. Untold' = Untold
      BY <1>1, <2>4
    <3>2. CASE attempt' = attempt
      <4>1. Scheduler!Return("yield")
        BY <2>1, <2>4, <3>1, <3>2 DEF Scheduler!Return, Untold
      <4>. QED  BY <4>1
    <3>3. CASE RetryEligible /\ attempt' = attempt + 1
      <4>1. Scheduler!Return("fail")
        BY <2>1, <2>4, <3>1, <3>3 DEF Scheduler!Return, Untold, RetryEligible
      <4>. QED  BY <4>1
    <3>. QED  BY <2>4, <3>2, <3>3
  <2>5. \/ canceled /\ End("canceled")
        \/ ~canceled /\ result # "pause" /\ End(result)
        \/ /\ ~canceled /\ node' = "queued" /\ UNCHANGED <<ending, canceled>>
           /\ \/ result = "pause" /\ attempt' = attempt
              \/ RetryEligible /\ attempt' = attempt + 1
    BY <1>5 DEF Return, RetryEligible
  <2>. QED  BY <2>2, <2>3, <2>4, <2>5
<1>6. ASSUME node # "absent", CancelTask
      PROVE  [Scheduler!Next]_(Scheduler!vars)
  <2>1. CASE node = "queued"
    <3>1. Scheduler!Ends("canceled")
      BY <1>6, <2>1, EndEnds DEF CancelTask, Error
    <3>2. Scheduler!Drop("canceled")
      BY <2>1, <3>1 DEF Scheduler!Drop
    <3>. QED  BY <3>2
  <2>2. CASE node = "running"
    <3>1. canceled' = TRUE /\ UNCHANGED <<node, ending, attempt>>
      BY <1>6, <2>2 DEF CancelTask
    <3>2. CASE canceled
      BY <3>1, <3>2, Aside
    <3>3. CASE ~canceled
      <4>1. Untold' = Untold
        BY <1>1, <3>1
      <4>2. Scheduler!Stop
        BY <2>2, <3>1, <3>3, <4>1 DEF Scheduler!Stop, Untold
      <4>. QED  BY <4>2
    <3>4. canceled \in BOOLEAN
      BY DEF TaskInv, TypeOK
    <3>. QED  BY <3>2, <3>3
  <2>. QED  BY <1>6, <2>1, <2>2 DEF TaskInv, TypeOK
<1>7. CASE Cancel
  BY <1>6, <1>7 DEF Cancel
<1>8. CASE CancelChapter
  <2>1. CASE node = "absent"
    BY <1>8, <2>1, Aside DEF CancelChapter, task
  <2>2. CASE node # "absent"
    BY <1>6, <1>8, <2>2 DEF CancelChapter
  <2>. QED  BY <2>1, <2>2
<1>9. CASE DependencyFails
  <2>1. Scheduler!Ends("dependency")
    BY <1>9, EndEnds DEF DependencyFails, Error
  <2>2. Scheduler!Drop("dependency")
    BY <1>9, <2>1 DEF Scheduler!Drop, DependencyFails
  <2>. QED  BY <2>2
<1>10. CASE \E o \in Callers : Ended(o)
  <2>1. PICK o \in Callers : Ended(o)
    BY <1>10
  <2>2. PICK e \in Error : e = ending[o]
    BY <2>1 DEF Ended, TaskInv, TypeOK
  <2>3. Untold[e] > 0 /\ Untold' = [Untold EXCEPT ![e] = @ - 1]
    BY <2>1, <2>2, UntoldLess DEF Ended
  <2>4. UNCHANGED <<node, attempt, canceled>>
    BY <2>1 DEF Ended, task
  <2>5. Scheduler!HandOver(e)
    BY <2>3, <2>4 DEF Scheduler!HandOver, Untold
  <2>. QED  BY <2>2, <2>5 DEF Error
<1>. QED  BY <1>2, <1>3, <1>4, <1>5, <1>7, <1>8, <1>9, <1>10 DEF Next, Pushing, Running

\* What a pass, its pushes and its chapter's cancellation do to the key is what
\* the scheduler promises of every key (SchedProofs!TasksKeepContract): pushes,
\* pauses, retries and results change nothing else of it, for any callers and
\* number of attempts.
THEOREM PassKeepsToScheduler == Spec => KeepsToScheduler
<1>1. Init => CanceledAsked
  BY DEF Init, CanceledAsked
<1>2. TaskInv /\ CanceledAsked /\ [Next]_vars => CanceledAsked' /\ [Scheduler!Next]_(Scheduler!vars)
  BY AskedStep, SchedulerStep
<1>3. Init => Scheduler!Init
  <2>. SUFFICES ASSUME Init PROVE Scheduler!Init
    OBVIOUS
  <2>1. \A e \in Error : EndingWith(e) = {}
    BY DEF Init, EndingWith, Error
  <2>2. \A e \in Error : Cardinality(EndingWith(e)) = 0
    BY <2>1, FS_EmptySet
  <2>. QED  BY <2>2 DEF Init, Scheduler!Init, Scheduler!Outcome, Error
<1>. QED  BY <1>1, <1>2, <1>3, TaskAlways, PTL DEF Spec, KeepsToScheduler, Scheduler!Spec
==============================================================================
