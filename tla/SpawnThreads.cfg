SPECIFICATION FairSpec
CONSTANTS
  Threads <- TwoThreads
  Commands <- FewCommands
  Builds <- Systems
  Codes <- ExitCodes
  Outputs <- Amounts
  PipeSize = 2
  ReadSize = 1
  Handles <- TwoHandles
  StopSignal = 5
INVARIANTS TypeOK StatusReported OutputShown OnlyWaitedFor OneMoreAtMost NothingLeaked
PROPERTIES SpawnReturns
CHECK_DEADLOCK FALSE
