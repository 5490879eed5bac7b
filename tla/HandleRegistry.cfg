CONSTANTS
  MaxSlotIndex = 2
  MaxGeneration = 3
  GenerationCap = 7
  None = None
  Address = {a1}
SPECIFICATION RegistrySpec
INVARIANT TokensResolveExactly
PROPERTY KeepsTokenLifecycle
CHECK_DEADLOCK FALSE
