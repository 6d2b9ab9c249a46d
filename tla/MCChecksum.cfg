SPECIFICATION ChecksumFairSpec
CONSTANTS
  B = 8
  Addresses <- CornerAddresses
  Ports <- CornerPorts
  GroupPorts <- CornerGroupPorts
  Data <- CornerPayloads
INVARIANTS
  ReceiverAccepts
PROPERTIES
  WriteEnds
CHECK_DEADLOCK FALSE
