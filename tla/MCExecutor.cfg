SPECIFICATION FairSpec
CONSTANTS
  Runs = {1, 2}
  Jobs = {"j"}
  JobOf <- OneJob
  Tasks <- MCTasks
  DockerStates = {TRUE, FALSE}
  ConfigTypes = {"docker", "script"}
  Faults = {"workspace", "docker", "lost", "start", "billing", "crash"}
INVARIANTS UsedIsBilled RunsSound
PROPERTIES EveryRunSettles ImplementsTaskRun
