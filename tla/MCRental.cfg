SPECIFICATION Spec
CONSTANTS
  Users = {u1, u2}
  GPUs = {g1}
  MaxRequests = 4
  MaxTime = 1
  Price <- MCPrice
  Hours <- MCHours
  InitialBalance = 1
  Faults = {"store"}
INVARIANTS NoGPUStranded SerialRentals
PROPERTY ImplementsReservation
