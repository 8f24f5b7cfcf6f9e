CONSTANTS
  a = a
  b = b
  c = c
  x = x
  y = y
  none = none
  s1 = s1
  Keys <- KeysV
  Sources = {s1}
  Contexts = {x, y}
  NoContext = none
  Context <- ContextV
  Deps <- DepsV
  Members <- MembersV
  Children <- ChildrenV
  Creatable = {c}
  Faulty = {}
  Capacity <- CapacityV
  Exclusive = {{a, b}}
  Prios = {0, 1}
  MaxAttempts = 2
  Retryable = {c}
  Dwell = TRUE
  DwellExempt = 0
  Batches <- BatchesV
  Gates <- GatesV
  FreeYield = FALSE
  Ops = {"Request", "Withdraw", "SetGate", "Close", "Adopt", "Raise"}
SPECIFICATION FairSpec
INVARIANT TypeOK
INVARIANT SingleContext
INVARIANT NoForgottenStart
INVARIANT WorkConserving
PROPERTY EveryTaskEnds
