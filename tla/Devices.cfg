SPECIFICATION Spec
CONSTANTS
  SystemTick = 2
  TimerTicks = 1
  ConsoleTime = 3
  ConsoleThreads = {"t1", "t2"}
  Chars = {"c", "q", "EOF"}
  MaxTyped = 3
  Elevators = {0, 1}
  numFloors = 3
  DelayPerFloor = 3
  MaxCommands = 3
  RotationTime = 3
  SeekTime = 2
  SectorsPerTrack = 3
  NumTracks = 2
  MaxSteps = 3
  ConsoleCalls <- MCCalls
CHECK_DEADLOCK FALSE
INVARIANTS
  StopsProperly
  ConsoleSound
  ElevatorsSound
  DiskSound
PROPERTIES
  TestsProgress
