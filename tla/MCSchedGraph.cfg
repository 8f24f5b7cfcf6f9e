CONSTANTS
  g = g
  a = a
  b = b
  x = x
  c = c
  none = none
  s1 = s1
  Keys <- KeysV
  Sources = {s1}
  Contexts = {x}
  NoContext = none
  Context <- ContextV
  Deps <- DepsV
  Members <- MembersV
  Children <- ChildrenV
  Creatable = {a, b}
  Faulty = {b}
  Capacity <- CapacityV
  Exclusive = {}
  Prios = {0}
  MaxAttempts = 2
  Retryable = {}
  Dwell = FALSE
  DwellExempt = 0
  Batches <- BatchesV
  Gates <- GatesV
  FreeYield = TRUE
  Ops = {"Request", "Withdraw", "Replace", "Adopt", "Cancel", "CancelWhere"}
SPECIFICATION Spec
INVARIANT NothingUnwanted
INVARIANT WaitsForSomething
INVARIANT NoNeedCycle
PROPERTY KeepsContract
PROPERTY PickedEndsCanceled
