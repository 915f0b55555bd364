CONSTANTS
  r1 = r1
  r2 = r2
  none = none
  Streams = {r1, r2}
  MaxParts = 1
SPECIFICATION Spec
INVARIANTS
  TypeOK
  DelayObserved
  LapseReported
  SchedulerUse
PROPERTIES
  ContinueWhenStopped
  Resumes
  SchedulerFreed
CHECK_DEADLOCK FALSE
