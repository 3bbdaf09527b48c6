SPECIFICATION Spec
CONSTANTS
    r1 = r1  r2 = r2
    Relation = {r1, r2}
    p1 = p1
    a = a  qa = qa  root = root
    Part = {p1}
    Name = {a, qa, root}
    RootName = root
    Local <- MCLocal
    NoPart = NoPart
    Value = {v1}
    NoValue = NoValue
    Slot = {h}
    HeadKey = h
    Absent = Absent
    Idle = Idle
    Foreign = {1}
    MaxGeneration <- MCMaxGeneration
    MaxDepth = 1
SYMMETRY Symmetric
INVARIANTS NamespaceIsTree OneLineage EntriesAreOfTheCall
PROPERTIES IdsAreNotReused
