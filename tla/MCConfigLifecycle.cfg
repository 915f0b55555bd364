CONSTANTS
  w1 = w1
  x1 = x1
  x2 = x2
  x3 = x3
  nil = nil
  Workers = {w1}
  Items = {x1, x2, x3}
  numberOfVMPool = 2
SPECIFICATION Spec
INVARIANTS
  TypeOK
  ConfigsAlive
  MachinesReady
PROPERTY ImplementsPinning
