SPECIFICATION FairSpec
CONSTANTS
  j1 = j1
  j2 = j2
  j3 = j3
  d1 = d1
  d2 = d2
  r1 = r1
  r2 = r2
  Job = {j1, j3}
  Dest = {d1, d2}
  DestOf <- MCDestOf
  CopyJobs <- LastJob
  ReviewedJobs <- NoJobs
  EditedJobs <- NoJobs
  Batches <- NoBatches
  ResumeCall = {r1, r2}
  None = None
  MaxHistory = 2
  MaxPlace = 3
  MaxEpoch = 0
  MaxSession = 0
  StorageFaults = FALSE
INVARIANT ExecutionOrder
PROPERTY CanceledEnds
PROPERTY QueueDrains
PROPERTY PublishedStaysSucceeded
