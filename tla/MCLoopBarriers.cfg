SPECIFICATION Spec
CONSTANTS
  a = a
  b = b
  c = c
  s1 = s1
  s2 = s2
  s3 = s3
  Paths = {a, b, c}
  Links <- SharedLinks
  ClientSegments = {s1, s2, s3}
  Window = 2
  selfEchoWindow = 4
  ChannelBuffer = 2
  MaxDelay = 1
  Gap = 6
  MaxSends = 3
INVARIANTS
  NoSecondFanOut
  EverySendRelayed
CHECK_DEADLOCK FALSE
