SPECIFICATION Spec
CONSTANTS
  Clients <- MCClients
  Sectors <- MCSectors
  Data <- MCData
  Asks <- MCAsks
  c1 = c1
  c2 = c2
  s1 = s1
  s2 = s2
  s3 = s3
  x = x
  Blank = Blank
  NoData = NoData
  NoClient = NoClient
  CacheSize = 2
  MaxRestarts = 0
INVARIANT
  WrittenOnReturn
