\* Batches of two, a log past the work bound, and every call that is begun returns.
SPECIFICATION FairSpec
CONSTANTS
  Caller = {c1, c2}
  Item = {a}
  NoCaller = NoCaller
  MaxFence = 2
  MaxNamespaces = 1
  WorkBound = 2
  MaxExpected = 1
  MaxBatch = 2
  MaxPrefix = 1
  Expected <- MCExpected
  Batches <- MCBatches
  FirstPrefixes = {}
  Acts = {TRUE, FALSE}
  Datums = {}
PROPERTIES CallsReturn
