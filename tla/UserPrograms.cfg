SPECIFICATION ProgramsSpec
CONSTANTS
  Threads = {main, t1, t2, t3}
  MainThread = main
  NoThread = NoThread
  ThreadsNumLimit = 3
  DefaultPriority = 127
  W = 4
  Registers <- MCRegisters
  MemoryBytes = 12
  JumpRegion = 8
  SyscallResult = 7
  Starts <- MCStarts
INVARIANTS
  TidInv
  ProcessesScheduled
PROPERTIES
  JoinReturnsAfterExit
  JoinReturns
  UrgentJoinSpins
  ComputesExactly
  ImplementsExecute
