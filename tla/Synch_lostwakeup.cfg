SPECIFICATION Spec
CONSTANTS
  main = main
  a = a
  b = b
  sem = sem
  ioDone = ioDone
  lk = lk
  cv = cv
  rcv = rcv
  wcv = wcv
  mux = mux
  dev = dev
  NoThread = NoThread
  MainThread = main
  Threads <- Three
  Sems = {sem, ioDone, mux}
  Locks = {lk}
  Conds = {cv, rcv, wcv}
  Devices = {dev}
  LockOf <- OneLock
  DoneSem <- DeviceSem
  InitValue <- SemValues
  Scenarios <- FirstSendScenarios
  CntLock = lk
  ReadCV = rcv
  WriteCV = wcv
  listLock = lk
  listEmpty = rcv
  barLock = lk
  barCV = rcv
  nTotal = 3
  mutex = mux
  db = sem
  PlainConds <- Plain
INVARIANTS
  HaltsOnlyWhenStuck
