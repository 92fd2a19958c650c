SPECIFICATION Spec
CONSTANTS
  j1 = j1
  j2 = j2
  j3 = j3
  d1 = d1
  d2 = d2
  r1 = r1
  r2 = r2
  Job = {j1, j2, j3}
  Dest = {d1, d2}
  DestOf <- MCDestOf
  CopyJobs <- LastJob
  ReviewedJobs <- OneJob
  EditedJobs <- OneJob
  Batches <- OneBatch
  ResumeCall = {}
  None = None
  MaxHistory = 2
  MaxPlace = 3
  MaxEpoch = 0
  MaxSession = 0
  StorageFaults = FALSE
INVARIANT HistoryReopens
PROPERTY CanceledNeverPublishes
PROPERTY ImplementsQueue
