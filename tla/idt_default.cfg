\* Every build of the two IDT flags (the default: trap gates, panic on
\* exceptions; and the halt build: interrupt gates, haltCatchFire on
\* vectors 0..31); NMIs possible; both sinks working.
CONSTANTS
  H1 = H1
  Vectors <- MCVectors
  Handlers <- MCHandlers
  UseTrapGate = {TRUE, FALSE}
  PanicOnException = {TRUE, FALSE}
  NmiPossible = TRUE
  MaxDepth = 3
SPECIFICATION Spec
INVARIANT TypeOK
PROPERTY PanicEventuallyHalts
