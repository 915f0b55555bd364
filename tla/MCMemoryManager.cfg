CONSTANTS
  t1 = t1
  t2 = t2
  x1 = x1
  x2 = x2
  x3 = x3
  s1 = s1
  nil = nil
  Threads = {t1, t2}
  Items = {x1, x2, x3}
  Shards = {s1}
  ShardOf <- OneShard
SPECIFICATION Spec
INVARIANTS
  TypeOK
  ForwardList
  BackLinks
  HandlesAlive
  NoLeak
PROPERTIES
  CallsReturn
  ImplementsPinning
