\* The whole client: outages, pushes, commands and Close at any time.  Close stops
\* both goroutines, except in a client that was connecting while it ran.
SPECIFICATION FairSpec
CONSTANTS
  Conns = {c1, c2}
  NoConn = NoConn
  Pushes = {p1}
  ChanCap = 1
  MaxMenu = 2
  MaxCommands = 2
  MaxOutages = 2
INVARIANTS TypeOK OneConnection RegisteredBeforeCommands
PROPERTIES ImplementsSession StaysRegistered CloseStopsClient
CHECK_DEADLOCK FALSE
