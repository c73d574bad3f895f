SPECIFICATION InputsSpec
CONSTANTS
  WordSize = 16
  KiB = 4
  MiB = 4
  MemoryInputs = {0, 1, 3, 4, 15}
  TickInputs = {0, 1, 3, 15}
  SizeInputs = {0, 3, 5}
  TicksTried = {0, 11}
  SizesTried = {0, 5}
INVARIANTS
  MemoryIntact
  BodyBoots
  TicksAddUp
  MemoryAddsUp
  SampleWasTrue
CHECK_DEADLOCK FALSE
