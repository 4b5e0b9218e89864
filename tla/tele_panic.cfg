\* A command arrives while Close runs.
SPECIFICATION Spec
CONSTANTS
  Conns = {c1}
  NoConn = NoConn
  Pushes = {}
  ChanCap = 1
  MaxMenu = 1
  MaxCommands = 1
  MaxOutages = 0
INVARIANT CloseIsGraceful
CHECK_DEADLOCK FALSE
