SPECIFICATION Spec
CONSTANTS
  Tables <- MCTables
  Extractions = {1}
  MaxVersion = 0
  Runners = {TRUE}
  NoLine = NoLine
  NoFile = NoFile
  Torn = Torn
  MaxLaunches = 2
  RunIds <- MCRunIds
  DagRuns <- MCDagRuns
  CliOptions <- MCCliOptions
  Envs = {"prd"}
  DagEnv = "prd"
  ThresholdFiles <- MCThresholdFiles
  Scale = 2
  MaxJobName = 7
  Letters = {"s", "d", "f", "b", "a"}
  Digits = {"1"}
  Lower <- MCLower
INVARIANTS
  TypeOK
  SuccessIsExplained
  DirectJobsSerial
  DagLaunchersSerial
  GreenRunWasLaunched
  JobsHaveContracts
  JobNamesLegal
PROPERTIES
  QueuedRunsEnd
