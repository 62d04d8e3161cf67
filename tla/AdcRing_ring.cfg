\* Four slots, blocks of up to two samples, counters of five values.
SPECIFICATION Spec
CONSTANTS
  Size = 4
  SampleBytes = 4
  MsgBufSize = 8
  Wrap = 5
  MaxSample = 9
INVARIANTS BufferWhileUsed RingInOrder NeverOverreads IndexExact BlockExact
CHECK_DEADLOCK FALSE
