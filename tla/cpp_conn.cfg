\* A sender, a receiver, the connecting thread and a closer share a wrapper, with
\* Connect waiting or not (Indefinite is Blocking), with and without a limit on
\* the retries, through two outages.
SPECIFICATION FairSpec
CONSTANTS
  Senders = {w}
  Receivers = {r}
  Closers = {x}
  Connectors = {g}
  Socks = {s1, s2}
  NoSock = NoSock
  Nobody = Nobody
  RetryLimits <- SomeLimits
  Modes = {"Blocking", "NonBlocking"}
  MaxCalls = 1
  MaxOutages = 2
  AttemptCap = 2
INVARIANTS TypeOK OnlyInstalledIsOpen CloseIsFinal OnlyCloseIsQuiet
PROPERTIES HealthyConnectionKept EverybodyReturns
CHECK_DEADLOCK FALSE
