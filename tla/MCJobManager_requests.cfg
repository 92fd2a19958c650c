SPECIFICATION Spec
CONSTANTS
  j1 = j1
  j2 = j2
  j3 = j3
  d1 = d1
  d2 = d2
  r1 = r1
  r2 = r2
  Job = {j1, j2}
  Dest = {d1, d2}
  DestOf <- MCDestOf
  CopyJobs <- SecondJob
  ReviewedJobs <- NoJobs
  EditedJobs <- NoJobs
  Batches <- SmallBatch
  ResumeCall = {r1}
  None = None
  MaxHistory = 2
  MaxPlace = 3
  MaxEpoch = 1
  MaxSession = 1
  StorageFaults = TRUE
INVARIANT DestinationsDistinct
INVARIANT SuccessOwnsOutput
INVARIANT FrozenOnlyIfPaused
INVARIANT CheckpointKnown
INVARIANT StopQueueHolds
INVARIANT DiskMatchesMemory
INVARIANT StorageFailureCancels
PROPERTY OnlyRequestedCancelIsCanceled
PROPERTY NothingStartsWhileClosing
