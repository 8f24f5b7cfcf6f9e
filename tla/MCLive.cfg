CONSTANTS
  t1 = t1
  c1 = c1
  c2 = c2
  None = None
  Gone = Gone
  First <- MCFirst
  Topic <- MCTopic
  Throttled <- MCTopic
  Conn <- MCConn
  Value <- MCValue
  Ops <- MCOps
  ApplyOps <- MCApplyOps
  Buffer = 1
  MaxUpsets = 3
SPECIFICATION Spec
CHECK_DEADLOCK FALSE
INVARIANT TypeOK
INVARIANT CopyFollows
INVARIANT NothingForgotten
INVARIANT RefsExact
PROPERTY CatchesUp
