SPECIFICATION Spec
CONSTANTS
  PageWords = 6
  StartPage = 1
  EndPageNoConfigs = 1
  EndPageConfigs = 2
  ConfigStart = 16
  PacketWords = 4
  InvalidAddress = 99
  Word = {"v", "w"}
  Blank = "blank"
  Spoiled = "spoiled"
  SegmentUnit = 2
  LinearUnit = 6
  Files <- OneFile
  MaxFaults = 1
  MayRelaunch = TRUE
INVARIANTS
  VerifiedImage
  OwnReply
  ContiguousSections
PROPERTIES
  WriteEnds
