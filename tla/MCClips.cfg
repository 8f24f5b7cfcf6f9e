CONSTANTS
  p1 = p1
  p2 = p2
  t1 = t1
  t2 = t2
  r1 = r1
  r2 = r2
  None = None
  Para <- MCPara
  Text <- MCText
  Reading <- MCReading
  MaxAttempts = 2
  MaxUpsets = 2
  MaxAligning = 1
SYMMETRY Alike
CONSTRAINT Apart
SPECIFICATION Spec
CHECK_DEADLOCK FALSE
INVARIANT TypeOK
INVARIANT ReadyPlays
INVARIANT PartsMatch
INVARIANT ClaimsHeldByRenders
INVARIANT NotUndone
