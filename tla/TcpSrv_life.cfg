\* Three endpoints and a server for two connections.
SPECIFICATION FairSpec
CONSTANTS
  Peers = {p1, p2, p3}
  Conns = {c1, c2, c3}
  Null = Null
  MaxConn = 2
  WaitRec = 1
  WaitCls = 2
  MaxTries = 1
INVARIANTS CountExact ListIsMemory CallbackOwned ToldOnce OpenIsWatched
PROPERTIES NoRevival IdleClosed
