SPECIFICATION Spec
CONSTANTS
  Ops = {"register", "update", "status", "heartbeat", "delete"}
  Lists <- MCLists
  Metrics <- MCMetrics
  Statuses = {"offline", "maintenance"}
  Faults = {"error", "transient", "lost", "crash"}
  MaxRequests = 3
  MaxIds = 2
  MaxAttempts = 2
INVARIANTS RowsSound LocksReleased
PROPERTY MaintenanceHolds
