SPECIFICATION HookSpec
CONSTANTS
  Containers = {k1, k2}
  Pids = {n1, n2, n3}
  None = None
  MaxFailures = 2
  MaxCrashes = 1
  MaxRuns = 3
INVARIANTS
  RegistryFollowsContainers
CHECK_DEADLOCK FALSE
