SPECIFICATION Spec
CONSTANTS
  NoReply = NoReply
  Chunks = 2
  Pages = 1
  Parts = 2
  Data <- MCData
  Blank = "blank"
  Junk = "junk"
  Service <- OneService
  File <- OneFile
  Autostart = TRUE
  Keys = FALSE
  Masters <- Either
  Polls = 2
  Slow = TRUE
  MaxFaults = 1
INVARIANTS
  FreshCommands
  OwnReplies
PROPERTIES
  StoredUnlessFailed
  WritesEnd
