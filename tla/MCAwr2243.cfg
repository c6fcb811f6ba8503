SPECIFICATION FairSpec
CONSTANTS
  Files <- MCFiles
  MaxCalls = 5
  MaxFaults = 1
CHECK_DEADLOCK FALSE
INVARIANTS TypeOK StopOkMeansQuiet StartedAgrees InitOkConfigured
PROPERTIES FreshStart CallReturns WaitSeesEnd
