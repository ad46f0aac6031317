\* A channel that stays disabled while the server runs.
CONSTANTS
  SOCKET_POOL_SIZE = 2
  fec_k = 2
  fec_r = 1
  SeqModulus = 3
  Paths = {"ts"}
  Unreadable = {}
  FileSize <- OneShortChunk
  LossRates = {99}
  Faults = {}
  MaxUses <- FewToggles
SPECIFICATION FairSpec
PROPERTY DisabledWorkerWaits
