\* Two writers: the connection is gone when the first comes back to use it.
SPECIFICATION Spec
CONSTANTS
  Writers = {w1, w2}
  Closers = {x}
  Connectors = {}
  Socks = {s1, s2, s3}
  NoConn = NoConn
  MaxRetries = 1
  MaxCalls = 1
  MaxOutages = 1
  AttemptCap = 3
INVARIANT WriteNeverPanics
