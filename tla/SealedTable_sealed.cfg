\* Two callers and three tables over one backend.
SPECIFICATION Spec
SYMMETRY Symmetry
CONSTANTS
  Caller = {c1, c2}
  table = table  child = child  other = other
  Handle = {table, child, other}
  Origin <- MCOrigin
  l1 = l1  l2 = l2  n1 = n1
  Lane = {l1, l2}
  LaneOf <- MCLaneOf
  ChildLane <- MCChildLane
  NoLane = NoLane
  Generation <- MCGeneration
  Secret = {s1, s2}
  NoKey = NoKey
  Name = {n1}
  Value = {v1}
  Nonce = {x1, x2, x3}
  Budget = 2
  Absent = Absent
  Dir = Dir
  Idle = Idle
  MaxCalls = 3
  MaxRestores = 1
INVARIANTS NonceIsUsedOnce   DelRemoves
