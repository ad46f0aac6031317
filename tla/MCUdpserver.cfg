\* One transmission of a whole and a short chunk, one group of two media packets and
\* one FEC packet, with channels switched three times and a loss rate set once; the
\* counter wraps after three packets.
CONSTANTS
  SOCKET_POOL_SIZE = 2
  fec_k = 2
  fec_r = 1
  SeqModulus = 3
  Paths = {"ts", "gone"}
  Unreadable = {"gone"}
  FileSize <- TwoChunks
  LossRates = {99}
  Faults = {}
  MaxUses <- OneRun
SPECIFICATION Spec
INVARIANTS TypeOK NoLostWakeup AtMostOneLateSend ChannelOrder SeqNumbersGapFree BoundedBypass
PROPERTY ImplementsLossyChannels
