\* Two objects of one and two words, in two banks; memory may run out.
SPECIFICATION Spec
CONSTANTS
  NumBanks = 2
  BankWords = 7
  MaxObjWords = 2
  Top = 4
  Bits <- MCBits
  Ids <- MCTwoIds
  ObjWords <- MCSizes
  Values <- MCValues
  HeapMayFail = TRUE
INVARIANTS HeadersDistinct
PROPERTIES CurrentNeverErased ImplementsStore
