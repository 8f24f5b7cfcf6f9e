CONSTANTS
  p = p
  q = q
  d = d
  Callers <- CallersV
  Blocking = {p, q}
  Dependents = {d}
  NoTask = NoTask
  MaxAttempts = 2
SPECIFICATION FairSpec
INVARIANT AnsweredOnce
INVARIANT CountsExactly
PROPERTY KeepsToScheduler
PROPERTY ClearMeansDone
PROPERTY QueuedCallerAnswered
PROPERTY CancelChapterEnds
CHECK_DEADLOCK FALSE
