SPECIFICATION Spec
CONSTANTS
  Users = {u1}
  MaxRequests = 3
  Jobs <- MCJobs
  Ops = {"create", "balance", "deposit", "withdraw", "start", "usage", "end", "dispute"}
  CovenantEnabled = TRUE
  Faults = {"store", "chain", "api", "crash"}
  Amounts <- MCAmounts
  Rates = {2}
  Costs = {1, 4}
  Powers = {1}
  MinimumBalance = 1
  WithdrawalLimit = 2
  InitialBalance = 3
  MaxChain = 3
INVARIANTS Solvent LockCovered Accounted ChargedOnce EscrowBehindSession RecordsAgree
PROPERTY EndedStaysEnded
