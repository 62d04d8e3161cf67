SPECIFICATION Spec
CONSTANTS
  Peers = {p1}
  Conns = {c1}
  Null = Null
  MaxConn = 1
  WaitRec = 1
  WaitCls = 2
  MaxTries = 1
INVARIANT ClosingRetried
