SPECIFICATION FairSpec
CONSTANTS
  Frames <- EchoFrames
  Patient <- EchoPatient
  MaxFrames = 2
  MaxParts = 2
  EmptyParts = FALSE
  InHead = 2
  OutHead = 1
  SndBuf = 10
  Reserve = 2
  MinSend = 4
  TextReserve = 2
  MaxRx = 9
CHECK_DEADLOCK FALSE
INVARIANTS
  HeadsAreFrames
  EchoInOrder
  TextsTaken
PROPERTIES
  AnswersInOrder
  NothingAfterEnd
  AnswerEnds
  CloseCompletes
  EchoCompletes
