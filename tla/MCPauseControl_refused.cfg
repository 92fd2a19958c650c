SPECIFICATION Spec
CONSTANTS
  Runs <- PipelineThenTool
  Limit = 1
  MaxTime = 2
  StopFaults = 0
PROPERTY PauseReachesOperation
