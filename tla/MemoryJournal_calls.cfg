\* Two threads lease, publish, redeliver, act and panic, and every call returns.
SPECIFICATION FairSpec
CONSTANTS
  Caller = {c1, c2}
  Item = {a, b}
  NoCaller = NoCaller
  MaxFence = 2
  MaxLog = 1
  MaxExpected = 1
  MaxBatch = 2
  Expected <- MCExpected
  Batches <- MCBatches
  Acts = {TRUE, FALSE}
  Datums = {a, b}
INVARIANTS StateVerifies
PROPERTIES ImplementsLog CallsReturn
