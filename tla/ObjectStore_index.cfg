\* Two processes put, get and rebuild over one directory, and die at any port call.
SPECIFICATION StoreSpec
SYMMETRY Symmetry
CONSTANTS
  Client = {c1, c2}
  Object = {a, b, d}
  RebuildBound = 2
INVARIANTS IndexComplete AckedIsFound BoundIsHonest
