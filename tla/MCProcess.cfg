SPECIFICATION FairSpec
CONSTANTS
  Procs = {p1, p2}
  Flags <- AllFlags
  None = None
  Other = Other
  NInitial = 2
  MaxStarts = 4
INVARIANTS
  ServerReachable
  LeftoversDoNotBlock
  ParsedFlagsSuffice
  ExitIsClean
PROPERTIES
  StartsAndStopsEnd
CHECK_DEADLOCK FALSE
