SPECIFICATION Spec
CONSTANTS
  Machines = {1, 2}
  Lossy = TRUE
  Threads = {"t1", "t2"}
  NumBoxes = 2
  Scenarios <- MCScenarios
CHECK_DEADLOCK FALSE
INVARIANTS
  InOrderUnreliable
  OneSendAtATime
  StopsOnlyOnAbsentPeer
PROPERTIES
  CallsReturn
