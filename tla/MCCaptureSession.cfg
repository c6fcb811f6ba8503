SPECIFICATION FairSpec
CONSTANTS
  MaxSessions = 2
  MaxFaults = 2
CHECK_DEADLOCK FALSE
INVARIANTS TypeOK QuietAtEnd OwnStream FramesOwn ReportTrue
PROPERTIES StopEnds
