SPECIFICATION Spec
CONSTANTS
  Keys <- MCKeys2
  Tomb = Tomb
  NoSnapshot = NoSnapshot
  MaxSeq = 3
  MaxLevels = 3
  L0Trigger = 1
  BaseLevelBytes = 0
  LevelRatio = 2
  TargetFileSize = 1
  MemtableBytes = 1
  MaxFile = 0
  Snapshots = {s1}
  Vals = {v}
PROPERTY DiscardsAreDead
PROPERTY SnapshotIsPresent
PROPERTY SnapshotKeepsUnwritten
PROPERTY SnapshotStableWhileNothingLost
