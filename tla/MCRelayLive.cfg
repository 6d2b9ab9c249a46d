SPECIFICATION FairSpec
CONSTANTS
  Paths = {p1}
  Groups = {g1}
  Callers = {c1}
  Insts = {i1, i2}
  Sender = Sender
  None = None
  MaxCalls = 3
  ChannelBuffer = 1
  MaxPackets = 2
PROPERTIES
  RunReturns
  ReconcileEnds
  IntentApplied
  CoordSpec
CHECK_DEADLOCK FALSE
