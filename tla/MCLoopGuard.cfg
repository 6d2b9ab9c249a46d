SPECIFICATION Spec
CONSTANTS
  Payloads = {a, b}
  GroupAddrs = {g1}
  Sources = {s1, s2}
  RequestedWindow = 0
  DefaultLoopGuardWindow = 3
  MaxTime = 12
INVARIANTS
  TypeOK
  OncePerWindow
  DropOnlyRecent
  SeenBounded
CHECK_DEADLOCK FALSE
