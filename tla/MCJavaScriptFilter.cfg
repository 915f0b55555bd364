CONSTANTS
  t1 = t1
  t2 = t2
  r1 = r1
  r2 = r2
  v1 = v1
  foo = foo
  Foo = Foo
  x1 = x1
  x2 = x2
  absent = absent
  Threads = {t1, t2}
  Streams = {r1, r2}
  VMs = {v1}
  Names = {foo, Foo}
  Values = {x1, x2}
  Written = {x1}
  Lists <- SomeLists
  lower <- TwoSpellings
SPECIFICATION Spec
INVARIANTS
  TypeOK
  ScriptsApart
  ReadsCurrent
PROPERTY HooksReturn
CHECK_DEADLOCK FALSE
