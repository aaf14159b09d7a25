CONSTANTS
  r1 = r1
  r2 = r2
  f = f
  Regions = {r1, r2}
  Files = {f}
  Saved = {r1, r2}
  Backends = {"opfs", "indexeddb"}
  Budget = 1
  FaultKinds = {"asset", "open", "flush", "txn", "main"}
  MaxChanges = 2
  MaxFaults = 2
SPECIFICATION WorkerSpec
CHECK_DEADLOCK FALSE
INVARIANTS StorageIsSound StopIsClean
PROPERTIES Progress
