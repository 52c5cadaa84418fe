SPECIFICATION FairSpec
CONSTANTS
  Keys <- MCKeys2
  Tomb = Tomb
  NoSnapshot = NoSnapshot
  MaxSeq = 3
  MaxLevels = 3
  L0Trigger = 1
  BaseLevelBytes = 0
  LevelRatio = 2
  TargetFileSize = 1
  MemtableBytes = 1
  MaxFile = 2
  Snapshots = {}
  Vals = {v, w}
INVARIANT FileNumbers
PROPERTY StallEnds
PROPERTY EventuallyCompacted
PROPERTY CloseEnds
PROPERTY ImplementsKVStore
PROPERTY MaintenanceSinks
PROPERTY TurnsDoWork
