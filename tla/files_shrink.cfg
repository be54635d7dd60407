SPECIFICATION Spec
CONSTANTS
  Users = {1, 2}
  Names = {"a", "b"}
  Byte = {0, 1, 2, 3, 4}
  Writes <- OwnByte
  SectorSize = 1
  SectorsPerCluster = 2
  FatSize = 6
  EndMark = 6
  ShortMark = 4
  RootEntryCount = 2
  Images <- Disks
  OpenFlags <- JustCreate
  Lengths = {3}
  Seeks = {}
  Risks = {"share"}
  MaxFD = 4
CHECK_DEADLOCK FALSE
PROPERTY OnlyTruncateShrinks
