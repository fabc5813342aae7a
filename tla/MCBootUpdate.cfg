SPECIFICATION Spec
CONSTANTS
  PageWords = 8
  StartPage = 1
  EndPageNoConfigs = 1
  EndPageConfigs = 2
  ConfigStart = 22
  PacketWords = 4
  InvalidAddress = 99
  Word = {"v", "w"}
  Blank = "blank"
  Spoiled = "spoiled"
  SegmentUnit = 2
  LinearUnit = 8
  Files <- TwoFiles
  MaxFaults = 0
  MayRelaunch = FALSE
PROPERTIES
  UpdateSpec
  LockedPageKept
  ConfigErasedToBeWritten
  WriteSucceeds
