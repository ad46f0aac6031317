\* Several groups of a small shape through each entry point, with short chunks anywhere
\* in the stream and up to two failing calls of sendto.
CONSTANTS
  Apis = {"PacketByFEC", "OldPacketByFEC", "SendByUlpfec"}
  MaskTypes = {"kFecMaskRandom", "kFecMaskBursty"}
  Shapes <- SmallShapes
  FullLen = 1024
  ShortLen = 500
  MaxShort = 2
  MaxGroups = 3
  MaxCalls = 15
  MaxFailures = 2
SPECIFICATION Spec
INVARIANTS TypeOK CountersMatchWire EncodeFecDemands RepairIsExact RepairKeepsBytes
CHECK_DEADLOCK FALSE
