SPECIFICATION FairSpec
CONSTANTS
  Calls = {c1, c2}
  Names = {vm1}
  NoName = NoName
  NoStatus = NoStatus
  Capacity = 1
  MaxCalls = 4
  MaxExits = 1
INVARIANTS
  TypeOK
  StatusCoherent
  GenerationStampsTenancy
  SocketFollowsVmm
  NothingLeftBehind
PROPERTIES
  ImplementsSlot
  CallsAnswered
  ExitedVmLosesSlot
  VmmRespawned
  StopsWhenTold
CHECK_DEADLOCK FALSE
