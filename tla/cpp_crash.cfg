\* One sender and one closer, the peer away: Close comes while Reconnect sleeps.
SPECIFICATION Spec
CONSTANTS
  Senders = {w}
  Receivers = {}
  Closers = {x}
  Connectors = {}
  Socks = {s1, s2}
  NoSock = NoSock
  Nobody = Nobody
  RetryLimits <- SomeLimits
  Modes = {"Blocking"}
  MaxCalls = 1
  MaxOutages = 1
  AttemptCap = 2
INVARIANT SendNeverCrashes
CHECK_DEADLOCK FALSE
