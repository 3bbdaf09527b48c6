\* Lookups, listings and writers of an override table, and the owners of its layers.
SPECIFICATION Spec
SYMMETRY Symmetry
CONSTANTS
  Caller = {c1, c2}
  Key = {k1}
  Value = {v1, v2}
  Loader = {l1}
  Absent = Absent
  Error = Error
  Unmade = Unmade
  Unforced = Unforced
  NoLoad = NoLoad
  NoWord = NoWord
INVARIANTS WordIsKept ReadsAreOfTheCall OneAnswer
