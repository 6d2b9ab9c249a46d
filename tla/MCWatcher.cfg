SPECIFICATION FairSpec
CONSTANTS
  Paths = {p1, p2}
  Faults = {"podman", "get", "post", "build", "relay", "monitor"}
  MaxFaults = 2
  MaxStarts = 3
INVARIANTS
  NoEventLost
PROPERTIES
  RunningIsNotRemoved
  Converges
CHECK_DEADLOCK FALSE
