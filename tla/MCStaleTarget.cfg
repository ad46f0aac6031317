\* A channel switched off between the search and the push.
CONSTANTS
  SOCKET_POOL_SIZE = 2
  fec_k = 2
  fec_r = 1
  SeqModulus = 3
  Paths = {"ts"}
  Unreadable = {}
  FileSize <- OneShortChunk
  LossRates = {99}
  Faults = {}
  MaxUses <- FewToggles
SPECIFICATION Spec
PROPERTY PushesToEnabledOnly
