SPECIFICATION DaemonSpec
CONSTANTS
  Vmms = {v1, v2, v3, v4}
  NoVmm = NoVmm
  Sizes = {1, 2}
  MaxRuns = 3
  Hasty = FALSE
SYMMETRY Symmetry
INVARIANTS
  DaemonTypeOK
  OwnSocket
  OrphansExplained
  CleanEnd
CHECK_DEADLOCK FALSE
