\* entries beside an unmount.
SPECIFICATION Spec
SYMMETRY Symmetry
CONSTANTS
  Caller = {c1, c2}
  Name = {a}
  plain = a
  Local <- Locals
  Path <- Paths
  Store = {root, outer, inner}
  outer = outer
  inner = inner
  Root = root
  Home <- Homes
  Watched <- WatchedPaths
  Value = {v1, v2}
  Absent = Absent
  NoMount = NoMount
  NoWord = NoWord
INVARIANTS EntriesNeverPanics
