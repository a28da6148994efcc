SPECIFICATION FairSpec
CONSTANTS
  Jobs = {j1, j2}
  Faults = {"chain", "api", "crash"}
  Window = 2
  PageLimit = 2
PROPERTIES PayoutRespectsWindow EveryDeliveredSettled
CHECK_DEADLOCK FALSE
