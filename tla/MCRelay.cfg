SPECIFICATION ActiveSpec
CONSTANTS
  Paths = {p1, p2}
  Groups = {g1}
  Callers = {c1}
  Insts = {i1, i2, i3}
  Sender = Sender
  None = None
  MaxCalls = 4
  ChannelBuffer = 1
  MaxPackets = 2
SYMMETRY Symmetry
CONSTRAINT NotCancelled
INVARIANTS
  TypeOK
  NeverEchoed
  InOrderAtMostOnce
  BroadcastNotBlocked
PROPERTIES
  RemovedIsSilent
CHECK_DEADLOCK FALSE
