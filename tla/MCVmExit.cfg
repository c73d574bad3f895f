SPECIFICATION VmSpec
CONSTANTS
  Names = {vm1}
  NoName = NoName
  NoProc = NoProc
  Requests = {c1}
  Creators = {c1}
  Deleters = {}
  Proxiers = {}
  Autoscaler = Autoscaler
  Main = Main
  MinSize = 1
  MaxSize = 1
  MaxTries = 0
  Refusals = FALSE
  Faults = {"exit"}
CHECK_DEADLOCK FALSE
INVARIANT EmptyIsReusable
