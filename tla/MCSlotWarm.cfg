SPECIFICATION FairSpec
CONSTANTS
  Calls = {c1, c2}
  Names = {vm1}
  NoName = NoName
  NoStatus = NoStatus
  Capacity = 2
  MaxCalls = 2
  MaxExits = 2
PROPERTY StaysWarm
CHECK_DEADLOCK FALSE
