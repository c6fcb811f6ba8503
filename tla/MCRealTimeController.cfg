SPECIFICATION Spec
CONSTANTS
  c1 = c1
  c2 = c2
  Callers = {c1, c2}
  MaxSessions = 2
SYMMETRY Symmetry
INVARIANTS
  TypeOK
  OneWorker
  StopStops
  CalmSession
