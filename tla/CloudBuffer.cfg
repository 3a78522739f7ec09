SPECIFICATION FairSpec
CONSTANTS
  Kinds <- MCKinds
  MaxHours = 3
  MaxAge = 2
  MaxSize = 2
  SyncEvery = 2
INVARIANTS TypeOK BufferIsBounded
PROPERTIES DeletesWhatItSent ReplaysInOrder BacklogDrains
