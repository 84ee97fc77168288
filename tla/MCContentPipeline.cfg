CONSTANTS
  Byte <- MCByte
  Newline = "NL"
  Return = "CR"
  Nul = "NUL"
  RowSizeTarget = 3
  OverlapLines = 1
  MaxLine = 8
  ContextLines = 1
  NoPatch = NoPatch
  Quoted = {"q"}
  AndB <- MCAndB
  NoPack = NoPack
  Version <- MCVersion
  MaxEdits = 2
  PathExclusions <- MCExclusions
  BinaryExtensions = {"png"}
  MaxFileSize = 12
  SniffBytes = 4
  Config <- MCConfig
  MaxDeliver = 2
SPECIFICATION Spec
INVARIANTS
  LinesAreTrue
  NothingMissed
  NothingIsLeftBehind
PROPERTIES
  EditsAreSeen
CHECK_DEADLOCK FALSE
