SPECIFICATION ProcSpec
CONSTANTS
  Threads = {main, t1, t2, t3, t4}
  MainThread = main
  NoThread = NoThread
  ThreadsNumLimit = 4
  DefaultPriority = 127
INVARIANT
  MinAvailableTidIsLeast
