\* Calls over one namespace, with two symbols of one local part, beside mounts and unmounts.
SPECIFICATION Spec
SYMMETRY Symmetry
CONSTANTS
  Caller = {c1, c2}
  Name = {a, q}
  plain = a
  Local <- Locals
  Path <- Paths
  Store = {root, outer, inner}
  outer = outer
  inner = inner
  Root = root
  Home <- Homes
  Watched <- WatchedPaths
  Value = {v1}
  Absent = Absent
  NoMount = NoMount
  NoWord = NoWord
INVARIANTS MadeIsNoValue TablesAreLeaves MountsShadowNothing ReadYourWrites
