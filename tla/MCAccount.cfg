SPECIFICATION Spec
CONSTANTS
  MaxRequests = 3
  Passwords = {1, 2}
  MaxLoginAttempts = 2
  RequireVerified = TRUE
  Enable2FA = TRUE
  Accounts <- MCAccounts
  Faults = {"store", "clock", "admin"}
INVARIANTS LockHolds FactorSound TokensUsable
