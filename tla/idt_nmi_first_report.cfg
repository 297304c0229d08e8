\* Default build; an NMI may arrive while a panic is being reported.
CONSTANTS
  H1 = H1
  Vectors <- MCVectors
  Handlers <- MCHandlers
  UseTrapGate = {TRUE}
  PanicOnException = {TRUE}
  NmiPossible = TRUE
  MaxDepth = 3
SPECIFICATION Spec
INVARIANT FirstReportComplete
