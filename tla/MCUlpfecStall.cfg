\* SendByUlpfec with one failing call of sendto.
CONSTANTS
  Apis = {"SendByUlpfec"}
  MaskTypes = {"kFecMaskRandom"}
  Shapes <- SmallShapes
  FullLen = 1024
  ShortLen = 500
  MaxShort = 1
  MaxGroups = 2
  MaxCalls = 6
  MaxFailures = 1
SPECIFICATION Spec
INVARIANT FullGroupIsEncoded
CHECK_DEADLOCK FALSE
