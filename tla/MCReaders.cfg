SPECIFICATION ReadersSpec
CONSTANTS
  Keys <- MCKeys2
  Vals = {v}
  Tomb = Tomb
  NoSnapshot = NoSnapshot
  MaxSeq = 3
  MaxLevels = 2
  L0Trigger = 1
  BaseLevelBytes = 1
  LevelRatio = 2
  TargetFileSize = 2
  MemtableBytes = 1
  MaxFile = 0
  Snapshots = {}
  BlockSize = 1
  BitsPerKey = 3
  MinBits = 4
  Word = 256
  Hash1 <- MCHash1
  Hash2 <- MCHash2
  SeqSpan = 4
  Gets = {g1}
  CacheCapacity = 1
INVARIANT ReadersTypeOK
INVARIANT GetIsAtomic
INVARIANT FailsOnlyIfReplaced
INVARIANT FilesPresent
INVARIANT CacheCurrent
