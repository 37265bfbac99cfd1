SPECIFICATION FileFairSpec
CONSTANTS
  w1 = w1
  w2 = w2
  Users = {w1, w2}
  Readers = {}
  Writers = {w1, w2}
  Cleaners = {}
  Unwritten = Unwritten
  Span <- PartialSpan
PROPERTY
  WriteKeepsOtherBytes
