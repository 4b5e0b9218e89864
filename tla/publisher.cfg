\* A publisher, a hook that throws, one that does not, and one that registers
\* another hook, in any order, with signals, requests and a second manager.
SPECIFICATION FairSpec
CONSTANTS
  Hooks = {p, h, k, n}
  Throwing = {h}
  Nesting = {n}
  Publishers = {p}
  Checks = 2
  MaxPosts = 2
INVARIANTS TypeOK OnePostAfterStop NothingLeftOver
PROPERTIES ImplementsOrderlyShutdown ShutdownEndsHeartbeats
CHECK_DEADLOCK FALSE
