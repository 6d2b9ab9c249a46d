SPECIFICATION Spec
CONSTANTS
  Payloads = {a, b}
  Interfaces = {if1}
  None = None
  selfEchoWindow = 2
  MaxTime = 6
  MaxWrites = 2
  MaxClient = 1
INVARIANTS
  FreshEchoDiscarded
  DiscardOnlyRecent
CHECK_DEADLOCK FALSE
