CONSTANTS
  p1 = p1
  t1 = t1
  r1 = r1
  None = None
  Para <- MCPara
  Text <- MCText
  Reading <- MCReading
  MaxAttempts = 1
  MaxUpsets = 1
  MaxAligning = 1
SPECIFICATION Spec
CHECK_DEADLOCK FALSE
INVARIANT WordsMatch
