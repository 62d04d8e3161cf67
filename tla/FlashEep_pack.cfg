\* Packing with two objects to carry over.
SPECIFICATION Spec
CONSTANTS
  NumBanks = 2
  BankWords = 9
  MaxObjWords = 2
  Top = 3
  Bits <- MCBits
  Ids <- MCIds
  ObjWords <- MCOneWordSizes
  Values <- MCOneWordValues
  HeapMayFail = FALSE
PROPERTY PackKeepsObjects
