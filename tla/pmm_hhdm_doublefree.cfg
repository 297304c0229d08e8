\* HHDM active: free links the node through phys + offset while init linked it through phys. A client frees a page that is still on the freelist.
CONSTANTS
  PageSize = 4
  MinPhysical = 8
  Span = 32
  HhdmOffset = 32
  Builds <- MCDefaultBuildSet
  PanicOnError = FALSE
  Usable <- MCUsable
  MemMaps <- MCMemMaps
  Clients <- MCMisuseClient
  ReserveReqs <- MCReserveReqs
SPECIFICATION Spec
PROPERTY DoubleFreeRejected
