SPECIFICATION FairPoolSpec
CONSTANTS
  Names = {vm1, vm2}
  NoName = NoName
  NoProc = NoProc
  Requests = {r1}
  Autoscaler = Autoscaler
  Main = Main
  MinSize = 1
  MaxSize = 2
  Faults = {}
PROPERTY ScaleDownCompletes
CHECK_DEADLOCK FALSE
