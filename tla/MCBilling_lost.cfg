SPECIFICATION Spec
CONSTANTS
  Users = {u1}
  MaxRequests = 2
  Jobs <- MCJobs
  Ops = {"deposit", "withdraw"}
  CovenantEnabled = FALSE
  Faults = {}
  Amounts = {1}
  Rates = {2}
  Costs = {1}
  Powers = {1}
  MinimumBalance = 1
  WithdrawalLimit = 2
  InitialBalance = 3
  MaxChain = 3
INVARIANT AccountingCorrect
