\* The whole program with one channel: an unreadable and a readable file, two starts,
\* sockets that cannot be created.
CONSTANTS
  SOCKET_POOL_SIZE = 1
  fec_k = 1
  fec_r = 1
  SeqModulus = 3
  Paths = {"ts", "gone"}
  Unreadable = {"gone"}
  FileSize <- OneShortChunk
  LossRates = {0, 99}
  Faults = {"socket"}
  MaxUses <- TwoStarts
  Bars = {0, 99}
SPECIFICATION FairSimSpec
INVARIANTS NoLogToDeadWindow WindowShowsServer
PROPERTY PostedLogIsShown
