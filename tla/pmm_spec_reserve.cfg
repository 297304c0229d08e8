\* Honest client; the spec's promise that a reserved range is never handed out again.
CONSTANTS
  PageSize = 4
  MinPhysical = 8
  Span = 32
  HhdmOffset = 0
  Builds <- MCDefaultBuildSet
  PanicOnError = FALSE
  Usable <- MCUsable
  MemMaps <- MCMemMaps
  Clients <- MCHonestClient
  ReserveReqs <- MCReserveReqs
SPECIFICATION Spec
PROPERTY SpecReservedNeverHandedOut
