SPECIFICATION MemorySpec
CONSTANTS
  Processes = {p1, p2}
  Root = p1
  Pages = {0, 1, 2}
  NumPhysPages = 2
  TLBSize = 2
  Values = {0, 1}
  NoProcess = none
CONSTRAINT MemorySound
CHECK_DEADLOCK FALSE
INVARIANT
  ForkSharesMemory
