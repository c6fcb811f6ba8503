SPECIFICATION Spec
CONSTANTS
  Payload = 3
  Header = 1
  Frame = 5
  FrameNum = 1
  Modulus = 64
  FrameNumInBuf = 1
  MaxSeq = 3
  MaxInFlight = 1
INVARIANTS
  HeaderStripped
CHECK_DEADLOCK FALSE
