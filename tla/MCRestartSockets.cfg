\* A second start after a first one that could not open its file.
CONSTANTS
  SOCKET_POOL_SIZE = 2
  fec_k = 2
  fec_r = 1
  SeqModulus = 3
  Paths = {"ts", "gone"}
  Unreadable = {"gone"}
  FileSize <- OneShortChunk
  LossRates = {99}
  Faults = {}
  MaxUses <- Restarts
SPECIFICATION Spec
INVARIANT SendsOnOpenSocket
