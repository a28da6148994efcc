SPECIFICATION Spec
CONSTANTS
  Jobs = {j1}
  Providers = {p1}
  Suits <- MCSuits
  Workers = {w1, w2}
  MaxSessions = 2
  MaxRuns = 1
  Faults = {"store", "registry", "billing", "answer", "publish", "nak", "ack", "taskack", "expire", "crash", "workspace", "daemon"}
SYMMETRY MCSymmetry
INVARIANTS NoJobLost RunsOnce BilledWhileRunning
