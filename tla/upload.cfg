SPECIFICATION FairSpec
CONSTANTS
  Blocks = 3
  StdinCap = 2
  StderrCap = 2
  Messages = 3
  Faulty = TRUE
CHECK_DEADLOCK FALSE
INVARIANTS UploadedWhole
PROPERTIES UploadEnds UploadTimesOut
