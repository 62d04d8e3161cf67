\* Whether switching the client off silences it.
SPECIFICATION Spec
CONSTANTS
  RetryTimeout = 3
  RetryTimeoutMax = 12
  DnsTable = 2
  MaxStops = 1
INVARIANT NoSendWhenOff
