CONSTANTS
  a = a
  b = b
  x = x
  none = none
  s1 = s1
  s2 = s2
  Keys <- KeysV
  Sources = {s1, s2}
  Contexts = {x}
  NoContext = none
  Context <- ContextV
  Deps <- DepsV
  Members <- NothingV
  Children <- NothingV
  Creatable = {b}
  Faulty = {}
  Capacity <- CapacityV
  Exclusive = {}
  Prios = {0}
  MaxAttempts = 1
  Retryable = {}
  Dwell = FALSE
  DwellExempt = 0
  Batches <- BatchesV
  Gates = {}
  FreeYield = FALSE
  Ops = {"Request", "Withdraw"}
SPECIFICATION Spec
PROPERTY CanceledOnlyUnwanted
