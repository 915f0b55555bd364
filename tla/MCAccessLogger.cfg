CONSTANTS
  c1 = c1
  c2 = c2
  f1 = f1
  f2 = f2
  d1 = d1
  d2 = d2
  nil = nil
  Configs = {c1, c2}
  Filters = {f1, f2}
  Dirs = {d1, d2}
  num_workers <- TwoAndNone
  dirname <- OwnDirs
SPECIFICATION Spec
INVARIANTS
  TypeOK
  ExactlyOnce
  FileOrder
  SendSucceeds
PROPERTIES
  WorkersExit
  ImplementsLogService
CHECK_DEADLOCK FALSE
