SPECIFICATION Spec
CONSTANTS
  NoReply = NoReply
  Chunks = 2
  Pages = 2
  Parts = 2
  Data <- MCData
  Blank = "blank"
  Junk = "junk"
  Service <- TwoService
  File <- TwoFile
  Autostart = TRUE
  Keys = TRUE
  Masters <- Mcu
  Polls = 2
  Slow = FALSE
  MaxFaults = 0
INVARIANTS
  SystemTypeOK
PROPERTIES
  ConfiguredWhenSaid
  ErasedWhenSaid
  NothingOverwritten
  OperationsEnd
