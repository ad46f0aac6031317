\* Every mask the tables and the interleaving can produce: one group of every
\* shape k <= 16, r <= k, every burst of at most r lost media packets.
CONSTANTS
  Apis = {"PacketByFEC"}
  MaskTypes = {"kFecMaskRandom", "kFecMaskBursty"}
  Shapes <- AllShapes
  FullLen = 1024
  ShortLen = 500
  MaxShort = 0
  MaxGroups = 1
  MaxCalls = 16
  MaxFailures = 0
SPECIFICATION Spec
INVARIANTS CoveredLossRepaired RepairIsExact
CHECK_DEADLOCK FALSE
