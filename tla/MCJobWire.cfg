SPECIFICATION WireSpec
CONSTANTS
  GPUModels = {"h100", "t4"}
  VRAMs = {0, 24}
  PowersW = {0, 300}
  MaxGPUs = 2
  MaxProviders = 2
  JobIds = {"j1"}
  Users = {"u1"}
  Types = {"", "h100"}
  Counts = {0, 2}
  MinVRAMs = {0, 16}
  MinPowers = {0, 400}
  Priorities = {1}
  Params = {"p1"}
  SessionIds = {"s1"}
INVARIANTS PlacedRight RequirementsKept
CHECK_DEADLOCK FALSE
