\* Two writers and a closer share one wrapper, with unlimited retries; one outage.
SPECIFICATION FairSpec
CONSTANTS
  Writers = {w1, w2}
  Closers = {x}
  Connectors = {}
  Socks = {s1, s2, s3}
  NoConn = NoConn
  MaxRetries <- Unlimited
  MaxCalls = 2
  MaxOutages = 1
  AttemptCap = 1
INVARIANTS TypeOK OneReconnector ClosedHoldsNothing DialedIsPrivate
PROPERTIES ImplementsLink CloseReleasesEveryone StablePeerReturns
