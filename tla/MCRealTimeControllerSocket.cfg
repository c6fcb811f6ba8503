SPECIFICATION Spec
CONSTANTS
  c1 = c1
  Callers = {c1}
  MaxSessions = 2
INVARIANT KeepsItsSocket
