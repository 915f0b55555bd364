CONSTANTS
  r1 = r1
  r2 = r2
  none = none
  Streams = {r1, r2}
  MaxParts = 1
SPECIFICATION SafetySpec
INVARIANT EveryRequestDelayed
CHECK_DEADLOCK FALSE
