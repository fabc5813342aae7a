SPECIFICATION Spec
CONSTANTS
  NoCard = NoCard
  Junk = Junk
  Card <- MCCards
  Disk <- MCDisk
  Files <- MCFiles
  Sections <- MCSections
  Volume <- MCVolume
  Chain <- MCChain
  Number <- MCNumber
  Address <- MCAddress
  Cores <- MCCores
  Blank = Blank
  SectorSize = 2
  Fields = 2
  CONFIG_MAX = 2
  MaxPulls = 1
INVARIANTS
  StatHonest
  LookUpRight
  ListTrue
  CoreReady
PROPERTIES
  StreamSpec
  ListCleared
  ConfigEnds
