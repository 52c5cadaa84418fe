SPECIFICATION Spec
CONSTANTS
  Keys <- MCKeys3
  Vals = {v}
  Tomb = Tomb
  NoKey = NoKey
  MaxSeq = 3
  MaxLevels = 3
  L0Trigger = 1
  BaseLevelBytes = 0
  LevelRatio = 2
  TargetFileSize = 2
  BlockSize = 2
  BitsPerKey = 3
  MinBits = 4
  Word = 256
  Hash1 <- MCHash1
  Hash2 <- MCHash2
  SeqSpan = 4
  Sources = 2
INVARIANT TypeOK
INVARIANT CompactionIsSurvivors
INVARIANT ScanIsLookup
INVARIANT BuiltTablesAnswer
PROPERTY MergeOrder
CHECK_DEADLOCK FALSE
