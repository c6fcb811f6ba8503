SPECIFICATION Spec
CONSTANTS
  Size = 2
  Modulus = 16
  MaxPut = 1
  MaxGet = 2
  TimeoutMs = 1
  MaxIn = 4
  MaxLead = 3
INVARIANTS
  ReadBeforeOutMoves
CHECK_DEADLOCK FALSE
