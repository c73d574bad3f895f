SPECIFICATION PoolSpec
CONSTANTS
  Names = {vm1, vm2}
  NoName = NoName
  NoProc = NoProc
  Requests = {r1, r2}
  Autoscaler = Autoscaler
  Main = Main
  MinSize = 1
  MaxSize = 2
  Faults = {"spawn", "poll", "tap", "exit"}
SYMMETRY Symmetry
INVARIANTS
  PoolTypeOK
  NamesUnique
  NameStaysFree
  PoolBounded
PROPERTIES
  ResizedAlone
  TenantsKept
CHECK_DEADLOCK FALSE
