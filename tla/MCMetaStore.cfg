SPECIFICATION MCSpec
CONSTANTS
  c1 = c1
  c2 = c2
  a = a
  b = b
  Proc = {c1, c2}
  Name = {a, b}
  Deployment <- Safe
  MaxIno = 4
  Replica = {n1, n2}
  Key = {k}
  Counter = {c}
  Field = {f}
  Value = {v}
  NoValue = NoValue
  MaxLog = 3
SYMMETRY Symmetry
INVARIANTS TypesOK   StoreIsReplay
CHECK_DEADLOCK FALSE
