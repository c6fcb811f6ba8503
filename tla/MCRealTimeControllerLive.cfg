SPECIFICATION FairSpec
CONSTANTS
  c1 = c1
  Callers = {c1}
  MaxSessions = 2
PROPERTIES
  StopEndsWorker
  ExitNoticed
