SPECIFICATION Spec
CONSTANTS
  Keys <- MCKeys1
  Tomb = Tomb
  MaxSeq = 2
  MaxLevels = 3
  L0Trigger = 1
  BaseLevelBytes = 0
  LevelRatio = 2
  TargetFileSize = 1
  MemtableBytes = 2
  Vals = {v}
  Fsync = "Always"
  BatchBytes = 2
  Faults = {}
  MaxMishaps = 2
INVARIANT TypeOK
INVARIANT FilesIntact
PROPERTY ImmutableFiles
PROPERTY DiskImplementsKVStore
