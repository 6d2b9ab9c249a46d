SPECIFICATION Spec
CONSTANTS
  Threads = {t1, t2}
  Host = host
  Namespaces = {n1, n2}
  NGroups = 2
  MaxBuilds = 3
INVARIANTS
  SocketsInTarget
  RollbackIsBounded
CHECK_DEADLOCK FALSE
