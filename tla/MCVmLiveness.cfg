SPECIFICATION FairVmSpec
CONSTANTS
  Names = {vm1}
  NoName = NoName
  NoProc = NoProc
  Requests = {c1, d1}
  Creators = {c1}
  Deleters = {d1}
  Proxiers = {}
  Autoscaler = Autoscaler
  Main = Main
  MinSize = 2
  MaxSize = 2
  MaxTries = 1
  Refusals = TRUE
  Faults = {"spawn", "exit"}
CHECK_DEADLOCK FALSE
PROPERTIES
  RequestsComplete
  ShutdownCompletes
