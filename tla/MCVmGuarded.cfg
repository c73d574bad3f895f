SPECIFICATION VmSpec
CONSTANTS
  Names = {vm1, vm2}
  NoName = NoName
  NoProc = NoProc
  Requests = {c1, d1}
  Creators = {c1}
  Deleters = {d1}
  Proxiers = {d1}
  Autoscaler = Autoscaler
  Main = Main
  MinSize = 1
  MaxSize = 2
  MaxTries = 0
  Refusals = FALSE
  Faults = {"exit"}
CHECK_DEADLOCK FALSE
SYMMETRY Symmetry
CONSTRAINT Serves
INVARIANTS
  VmTypeOK
  LookupHolds
PROPERTY ImplementsPool
