SPECIFICATION Spec
CONSTANTS
  Names = {"a", "abc", "long1", "long2", "s~1"}
  Length <- SomeLengths
  Stem <- SomeStems
  Eighth <- SomeEighths
  Tilded = {"s"}
  One = 1
  CharMax = 7
  Long = {"long1", "long2"}
  Begins <- SomeBegins
  PieceSize = 2
  RootEntryCount = 10
  Tables <- SomeTables
  MaxDescriptor = 4
INVARIANTS
  DirectoriesTypeOK
  TableSound
  ShortNamesDistinct
  SameFile
  ReadsInOrder
CHECK_DEADLOCK FALSE
