\* Two starts, of one of two readable files or one that cannot be opened, with failures
\* of the environment: no thread, a blocked call, a read error.
CONSTANTS
  SOCKET_POOL_SIZE = 2
  fec_k = 2
  fec_r = 1
  SeqModulus = 3
  Paths = {"ts", "mp", "gone"}
  Unreadable = {"gone"}
  FileSize <- OneShortChunk
  LossRates = {99}
  Faults = {"thread", "stuck", "read"}
  MaxUses <- Restarts
SPECIFICATION Spec
INVARIANTS StopWakesEveryWorker NoThreadOutlivesStop NoStalePacket OpenSocketCarriesOneFile
PROPERTY ImplementsLossyChannels
