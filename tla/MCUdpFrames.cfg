SPECIFICATION Spec
CONSTANTS
  Payload = 3
  Header = 1
  Frame = 5
  FrameNum = 1
  Modulus = 64
  FrameNumInBuf = 1
  MaxSeq = 10
  MaxInFlight = 2
INVARIANTS
  TypeOK
  Aligned
  TailExact
  CountTellsHoles
  NoPacketTwice
  AtMostOneSkipped
CHECK_DEADLOCK FALSE
