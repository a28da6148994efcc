SPECIFICATION FairSpec
CONSTANTS
  Jobs = {j1}
  Providers = {p1}
  Suits <- MCSuits
  Workers = {w1}
  MaxSessions = 2
  MaxRuns = 1
  Faults = {"store", "registry", "billing", "answer", "publish", "nak", "ack", "expire", "crash", "workspace", "daemon"}
PROPERTIES EveryJobDispatched EverySessionClosed
