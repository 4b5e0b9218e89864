\* A release unlinks the file another process is about to lock.
SPECIFICATION Spec
CONSTANTS
  Procs = {p1, p2, p3}
  Inodes = {i1, i2, i3}
  None = None
  Releasing = TRUE
  Inspecting = FALSE
  MaxCrashes = 0
SYMMETRY Symmetry
INVARIANT SingleInstance
CHECK_DEADLOCK FALSE
