SPECIFICATION ServerSpec
CONSTANTS
  p1 = p1
  p2 = p2
  p3 = p3
  ctr1 = ctr1
  Paths = {p1, p2, p3}
  Groups = {g1}
  Callers = {r1, r2}
  Insts = {i1, i2, i3}
  Sender = Sender
  None = None
  MaxCalls = 6
  Containers = {ctr1}
  Own <- TwoPids
  MaxRequests = 3
SYMMETRY Symmetry
INVARIANTS
  RegistryMatchesIntent
  ListMatchesRegistry
  NoRequestStuck
  CoordTypeOK
  OneHolderPerPath
  NothingLeaked
  SnapshotIsLive
  IntentHasTimer
  LastIntentWins
PROPERTIES
  ImplementsNamespaceSet
CHECK_DEADLOCK FALSE
