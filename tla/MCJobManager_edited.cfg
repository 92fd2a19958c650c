SPECIFICATION Spec
CONSTANTS
  j1 = j1
  j2 = j2
  j3 = j3
  d1 = d1
  d2 = d2
  r1 = r1
  r2 = r2
  Job = {j1}
  Dest = {d1, d2}
  DestOf <- MCDestOf
  CopyJobs <- NoJobs
  ReviewedJobs <- OneJob
  EditedJobs <- OneJob
  Batches <- NoBatches
  ResumeCall = {}
  None = None
  MaxHistory = 2
  MaxPlace = 1
  MaxEpoch = 0
  MaxSession = 0
  StorageFaults = FALSE
PROPERTY PublishedStaysSucceeded
