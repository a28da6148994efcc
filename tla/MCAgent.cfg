SPECIFICATION AgentSpec
CONSTANTS
  Tasks <- MCTasks
  ExecutionType <- MCExecutionType
  JobID <- MCJobID
  MaxConcurrentJobs = 1
  Helpers = {h1}
  QueueCap = 1
INVARIANTS SessionsSettled ContainersReaped Drained
PROPERTIES ShutdownReturns
CHECK_DEADLOCK FALSE
