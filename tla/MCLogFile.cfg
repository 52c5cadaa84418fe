SPECIFICATION Spec
CONSTANTS
  Base = 6
  Magic = 6
  Names <- MCNames
  Texts <- MCTexts
  Numbers = {1}
  Crc <- MCCrc
  Kinds = {"wal", "manifest"}
  MaxAppends = 3
INVARIANT TypeOK
INVARIANT RecoversWholeRecords
INVARIANT MakesUpNothing
INVARIANT FailsOnlyBehindStump
CHECK_DEADLOCK FALSE
