\* Both builds (the default: LIFO, no zeroing; and FIFO with zero-on-alloc
\* and zero-on-free), warn on misuse, HHDM unavailable; a client that frees
\* only what it was handed, and one that also frees a misaligned address,
\* a page on the freelist and a page it never got.
CONSTANTS
  PageSize = 4
  MinPhysical = 8
  Span = 32
  HhdmOffset = 0
  Builds <- MCBuilds
  PanicOnError = FALSE
  Usable <- MCUsable
  MemMaps <- MCMemMaps
  Clients <- MCClients
  ReserveReqs <- MCReserveReqs
SPECIFICATION Spec
INVARIANT TypeOK
INVARIANT FreeListWellFormed
INVARIANT PagesConserved
PROPERTY NoDoubleHandout
PROPERTY ReservedStaysOut
PROPERTY AllocatorRefinement
