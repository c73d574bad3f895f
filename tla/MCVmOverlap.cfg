SPECIFICATION VmSpec
CONSTANTS
  Names = {vm1}
  NoName = NoName
  NoProc = NoProc
  Requests = {c1, d1, d2}
  Creators = {c1}
  Deleters = {d1, d2}
  Proxiers = {}
  Autoscaler = Autoscaler
  Main = Main
  MinSize = 1
  MaxSize = 1
  MaxTries = 0
  Refusals = FALSE
  Faults = {}
CHECK_DEADLOCK FALSE
INVARIANT GuestsHaveSlots
