SPECIFICATION FairSpec
CONSTANTS
  Size = 4
  Modulus = 16
  MaxPut = 2
  MaxGet = 3
  TimeoutMs = 1
  MaxIn = 7
  MaxLead = 2
INVARIANTS
  TypeOK
  RoomInv
  CleanGet
  ShortMeansTimeout
  EveryItemAccounted
  IInv
PROPERTIES
  ImplementsStream
  GetReturns
CHECK_DEADLOCK FALSE
