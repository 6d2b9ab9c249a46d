SPECIFICATION ServerSpec
CONSTANTS
  p1 = p1
  p2 = p2
  p3 = p3
  ctr1 = ctr1
  Paths = {p1}
  Groups = {g1}
  Callers = {r1}
  Insts = {i1}
  Sender = Sender
  None = None
  MaxCalls = 6
  Containers = {ctr1}
  Own <- OnePid
  MaxRequests = 3
PROPERTIES
  DeleteRemoves
CHECK_DEADLOCK FALSE
