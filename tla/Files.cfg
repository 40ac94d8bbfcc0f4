CONSTANTS
  Archive <- DirAndTwoFiles
  Names <- Numbered
  Bytes = {"a", "b", "x"}
  Data <- OneAndTwoBytes
  Counts = {1, 2}
  Offsets = {0, 1, 1023}
  Block = 2
  Digits = 3
  Word = 1024
  MaxSize = 5
  MaxFd = 2
  Unknown = Unknown
  Junk = Junk
SPECIFICATION Spec
INVARIANTS
  PositionWithinFile
  FilesIntact
PROPERTY NeverShorter
