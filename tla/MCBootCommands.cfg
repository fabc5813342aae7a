SPECIFICATION Spec
CONSTANTS
  PageWords = 4
  StartPage = 1
  EndPageNoConfigs = 1
  EndPageConfigs = 2
  ConfigStart = 10
  PacketWords = 4
  InvalidAddress = 99
  Word = {"w"}
  Blank = "blank"
  Spoiled = "spoiled"
  Offered <- MCOffered
INVARIANTS
  CommandsTypeOK
  WholeInstructions
  BufferHoldsOwed
  ClosedSectionStored
PROPERTIES
  EraseConfined
  CommandEnds
