CONSTANTS
  p = p
  q = q
  d = d
  Callers <- CallersV
  Blocking = {p, q}
  Dependents = {d}
  NoTask = NoTask
  MaxAttempts = 2
SPECIFICATION Spec
INVARIANT NoCallerDropped
CHECK_DEADLOCK FALSE
