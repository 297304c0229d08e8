\* A client passes tryAllocate's failure result 0 to free.
CONSTANTS
  PageSize = 4
  MinPhysical = 8
  Span = 32
  HhdmOffset = 0
  Builds <- MCDefaultBuildSet
  PanicOnError = FALSE
  Usable <- MCUsable
  MemMaps <- MCMemMaps
  Clients <- MCNullClient
  ReserveReqs <- MCReserveReqs
SPECIFICATION Spec
INVARIANT FreeListWellFormed
