SPECIFICATION FairSpec
CONSTANTS
  Blocks = 3
  ConnCap = 2
  Faulty = TRUE
CHECK_DEADLOCK FALSE
INVARIANT DownloadedWhole
PROPERTIES DownloadEnds DownloadTimesOut
