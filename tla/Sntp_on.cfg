\* A client switched off and on twice, under everything the network may do.
SPECIFICATION FairSpec
CONSTANTS
  RetryTimeout = 3
  RetryTimeoutMax = 30
  DnsTable = 2
  MaxStops = 2
INVARIANTS NeverSilent ChainsBounded
PROPERTY KeepsTime
