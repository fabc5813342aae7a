SPECIFICATION Spec
CONSTANTS
  PageWords = 8
  StartPage = 1
  EndPageNoConfigs = 1
  EndPageConfigs = 2
  ConfigStart = 22
  PacketWords = 4
  InvalidAddress = 99
  Word = {"v", "w"}
  Blank = "blank"
  Spoiled = "spoiled"
  SegmentUnit = 2
  LinearUnit = 8
  Files <- TwoFiles
  MaxFaults = 1
  MayRelaunch = FALSE
PROPERTIES
  PollsAgain
\* The window that no longer polls, and a device with nothing to do, are a state
\* without a next one: the run is about how the system gets there.
CHECK_DEADLOCK FALSE
