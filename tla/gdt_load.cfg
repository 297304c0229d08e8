\* tss_instance inside a top-2-GiB kernel image below 16 MiB; load may be
\* called twice, and IDT::init before or after it, in both builds of the
\* exception gate type.
CONSTANTS
  TssAddrs <- MCTssAddrs
  RspValues <- MCRspValues
  IstArrays <- MCIstArrays
  MaxLoads = 2
  Vectors <- MCVectors
  StubAddr <- MCStubAddr
  UseTrapGate = {TRUE, FALSE}
SPECIFICATION TablesSpec
INVARIANT LoadedSegmentsAsIntended
INVARIANT FirstLoadSucceeds
INVARIANT GatesReachStubs
