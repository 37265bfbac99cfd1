SPECIFICATION ObjectsSpec
CONSTANTS
  Callers = {t1, t2, t3, t4}
  InitialValue = 1
  MaxValue = 3
  ListItems = {"a", "b"}
  Keys = {0, 1, 2}
  MaxElements = 3
  SectionSizes = {0, 1, 2}
  Padding = {0, 1}
  MaxSections = 3
  NoffHeaderSize = 4
  UserStackSize = 3
  PageSize = 4
  Users = {r1, r2, w1, w2, c1}
  Readers = {r1, r2}
  Writers = {w1, w2}
  Cleaners = {c1}
  w1 = w1
  w2 = w2
  Unwritten = Unwritten
  Span <- PartialSpan
INVARIANTS
  SemInv
  ImageExact
  TransfersIsolated
PROPERTIES
  ImplementsAbstract
  ImplementsList
  FileUsersFinish
