\* The sender's entry point, with a short chunk in a group.
CONSTANTS
  Apis = {"PacketByFEC"}
  MaskTypes = {"kFecMaskRandom"}
  Shapes <- SmallShapes
  FullLen = 1024
  ShortLen = 500
  MaxShort = 1
  MaxGroups = 1
  MaxCalls = 5
  MaxFailures = 0
SPECIFICATION Spec
INVARIANT LastPacketIsFilled
CHECK_DEADLOCK FALSE
