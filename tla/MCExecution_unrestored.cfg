SPECIFICATION ExecutionSpec
CONSTANTS
  r1 = r1
  j0 = j0
  Runs <- PipelineThenTool
  Limit = 2
  MaxTime = 4
  StopFaults = 1
  Room = 1
  Amount = 2
  Review = {r1}
  Ordinary = {j0}
  Tasks = {"fresh", "saved", "renewed", "image"}
INVARIANT BackingOutRestores
