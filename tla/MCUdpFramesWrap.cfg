SPECIFICATION Spec
CONSTANTS
  Payload = 3
  Header = 1
  Frame = 5
  FrameNum = 1
  Modulus = 16
  FrameNumInBuf = 1
  MaxSeq = 9
  MaxInFlight = 1
INVARIANTS
  Aligned
CHECK_DEADLOCK FALSE
