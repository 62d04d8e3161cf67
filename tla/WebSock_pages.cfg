SPECIFICATION Spec
CONSTANTS
  Frames <- PageFrames
  Patient = {}
  MaxFrames = 3
  MaxParts = 1
  EmptyParts = FALSE
  InHead = 2
  OutHead = 1
  SndBuf = 10
  Reserve = 2
  MinSend = 4
  TextReserve = 2
  MaxRx = 12
CHECK_DEADLOCK FALSE
INVARIANT
  HeadsAreFrames
