SPECIFICATION VmSpec
CONSTANTS
  Names = {vm1, vm2}
  NoName = NoName
  NoProc = NoProc
  Requests = {c1, c2, d1}
  Creators = {c1, c2}
  Deleters = {d1}
  Proxiers = {}
  Autoscaler = Autoscaler
  Main = Main
  MinSize = 1
  MaxSize = 2
  MaxTries = 1
  Refusals = TRUE
  Faults = {"spawn", "poll", "tap"}
CHECK_DEADLOCK FALSE
SYMMETRY Symmetry
CONSTRAINT Serves
INVARIANT GuestsHaveSlots
PROPERTY CreateOkIsMine
