\* Two callers lease, upgrade, publish, redeliver, act and crash over one port.
SPECIFICATION Spec
SYMMETRY Symmetry
CONSTANTS
  Caller = {c1, c2}
  Item = {a, b}
  NoCaller = NoCaller
  MaxFence = 2
  MaxNamespaces = 2
  WorkBound = 2
  MaxExpected = 1
  MaxBatch = 1
  MaxPrefix = 1
  Expected <- MCExpected
  Batches <- MCBatches
  FirstPrefixes <- MCPrefixes
  Acts = {TRUE}
  Datums = {a, b}
INVARIANTS CommittedClosure AckedSurvives ActionsInOrder ActionUnderExclusion
PROPERTIES EnvelopeAdvances ImplementsLog
