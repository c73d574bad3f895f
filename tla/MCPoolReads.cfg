SPECIFICATION ReadSpec
CONSTANTS
  Names = {vm1, vm2}
  NoName = NoName
  NoProc = NoProc
  Requests = {r1, r2}
  Readers = {r1}
  Autoscaler = Autoscaler
  Main = Main
  MinSize = 1
  MaxSize = 2
  Faults = {"poll", "exit"}
SYMMETRY Symmetry
PROPERTIES
  GetAnswersWereTrue
  ListMissesNoVm
  CountsWereTrue
  MetricsOfOneVmm
CHECK_DEADLOCK FALSE
