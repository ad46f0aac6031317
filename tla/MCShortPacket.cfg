\* A file whose last chunk is short.
CONSTANTS
  SOCKET_POOL_SIZE = 2
  fec_k = 2
  fec_r = 1
  SeqModulus = 3
  Paths = {"ts"}
  Unreadable = {}
  FileSize <- TwoChunks
  LossRates = {99}
  Faults = {}
  MaxUses <- FewToggles
SPECIFICATION Spec
INVARIANT SendsActualLength
