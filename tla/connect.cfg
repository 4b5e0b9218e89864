\* Connect in every mode, two retries, then one writer and one closer.
SPECIFICATION NMFairSpec
CONSTANTS
  Writers = {w1}
  Closers = {x}
  Connectors = {g}
  Socks = {s1, s2, s3, s4}
  NoConn = NoConn
  MaxRetries = 2
  MaxCalls = 2
  MaxOutages = 1
  AttemptCap = 4
  Modes = {"Blocking", "NonBlocking", "Indefinite"}
INVARIANTS NMTypeOK HookKeepsCount DialBudget OneUserLosesNothing
PROPERTIES NoEarlySurrender ConnectReturns LimitedRetriesReturn
