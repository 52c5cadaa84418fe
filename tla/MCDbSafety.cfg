SPECIFICATION Spec
CONSTANTS
  Keys <- MCKeys3
  Tomb = Tomb
  NoSnapshot = NoSnapshot
  MaxSeq = 4
  MaxLevels = 3
  L0Trigger = 1
  BaseLevelBytes = 1
  LevelRatio = 2
  TargetFileSize = 2
  MemtableBytes = 2
  MaxFile = 0
  Snapshots = {}
  Vals = {v}
INVARIANT TypeOK
INVARIANT NewestFirst
INVARIANT LevelsDisjoint
INVARIANT GetMatchesScan
INVARIANT Backpressure
