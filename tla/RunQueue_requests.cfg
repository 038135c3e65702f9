SPECIFICATION Spec
CONSTANTS
  u1 = u1
  u2 = u2
  w1 = w1
  w2 = w2
  f1 = f1
  f2 = f2
  Runs <- TwoRuns
  Fingerprints = {f1, f2}
  NoFingerprint = NoFingerprint
  MaxConcurrent = 1
  Users = {u1, u2}
  Workers = {w1}
  NoWorker = NoWorker
  TimelyWorkers = {}
  MaxFaults = 0
SYMMETRY SymmetricRequests
INVARIANTS OneActivePerFingerprint CancelledOnRequest
PROPERTIES ImplementsLifecycle
