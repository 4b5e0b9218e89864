\* Releases, inspections and crashes in any order.  Every process may end, and
\* then nothing is left to do.
SPECIFICATION Spec
CONSTANTS
  Procs = {p1, p2, p3}
  Inodes = {i1, i2, i3}
  None = None
  Releasing = TRUE
  Inspecting = TRUE
  MaxCrashes = 2
SYMMETRY Symmetry
INVARIANTS TypeOK PidFileNamesHolder LocksAreOwned
PROPERTIES PidFileKept
CHECK_DEADLOCK FALSE
