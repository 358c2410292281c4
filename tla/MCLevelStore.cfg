SPECIFICATION FairSpec
CONSTANTS
  w1 = w1
  w2 = w2
  w3 = w3
  Nothing = Nothing
  Writes <- MCWrites
  BatchSize <- MCBatchSize
  Syncs <- MCSyncs
  Starts <- MCStarts
  BlockSize = 5
  HeaderSize = 2
  WriteBufferSize = 1
  SmallGroup = 4
  LargeGroup = 8
  CompactionTrigger = 1
  StopTrigger = 2
  MaxErrors = 1
  MaxCrashes = 1
INVARIANTS TypeOK QueueOK NothingLost FilesPresent SequencesFresh RecordsWhole
PROPERTIES WritersReturn ImplementsAtomicStore
CHECK_DEADLOCK FALSE
