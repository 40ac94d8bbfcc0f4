CONSTANTS
  Archive <- SysrootContents
  Names <- NamesLeft
  Paths <- SysrootNames
  Bytes <- Characters
  Data <- AnyData
  Counts = {}
  Offsets = {}
  Block = 2
  Digits = 3
  Word = 1024
  MaxSize = 4
  MaxFd = 2
  Unknown = Unknown
  Junk = Junk
  missing = missing
  nothing = nothing
  Lines <- TypedLines
  Value <- Distances
  Executables = {2}
SPECIFICATION MonitorSpec
INVARIANTS
  EntriesFound
  NothingLeftOpen
  ShownAsWritten
