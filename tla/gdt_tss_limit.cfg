\* tss_instance at addresses whose bits 24..27 are not all zero.
CONSTANTS
  TssAddrs <- MCTssAddrsWide
  RspValues <- MCRspValues
  IstArrays <- MCIstArrays
  MaxLoads = 1
  Vectors <- MCVectors
  StubAddr <- MCStubAddr
  UseTrapGate = {TRUE}
SPECIFICATION TablesSpec
INVARIANT UserIoDenied
