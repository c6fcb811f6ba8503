SPECIFICATION FairSpec
CONSTANTS
  c1 = c1
  Callers = {c1}
  MsgIds = {"frame"}
  RetryCount = 1
  SeqMod = 2
  CntMod = 3
  MaxCmds = 2
  MaxEvents = 1
  MaxFaults = 1
  MaxReaders = 1
  MaxReady = 1
CHECK_DEADLOCK FALSE
INVARIANTS
  TypeOK
  ReadsOnlyWhenReady
  MaskMeansPending
  NobodyStranded
  ConfirmedExecuted
PROPERTIES
  CommandReturns
  EventDelivered
