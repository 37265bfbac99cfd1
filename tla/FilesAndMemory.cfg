SPECIFICATION ServicesSpec
CONSTANTS
  NumSectors = 10
  SectorSize = 2
  NumDirect = 1
  SecondDirect = 2
  NumSecondIndex = 1
  NumDirEntries = 2
  DirectoryFileSize = 2
  FreeMapFileSize = 2
  Handles = {h1, h2}
  Paths <- MCPaths
  CallPaths <- MCCallPaths
  CopySizes <- MCCopySizes
  TransferSize = 2
  FileSizes <- MCFileSizes
  Transfers <- MCTransfers
  Positions <- MCPositions
  UserFileSize = 2
  UserTransfers <- MCUserTransfers
  Garbage <- MCGarbage
  Processes = {p1, p2}
  Root = p1
  Pages = {0, 1, 2}
  NumPhysPages = 2
  TLBSize = 2
  Values = {0, 1}
  NoProcess = none
CONSTRAINT Continues
VIEW ServicesView
CHECK_DEADLOCK FALSE
INVARIANTS
  SectorsAccounted
  OpenFilesLive
  MemoryPrivate
  MappingsExact
PROPERTIES
  CallEffects
  UserCallsExact
  TestsTidy
