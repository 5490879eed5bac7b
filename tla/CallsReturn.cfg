CONSTANTS
  MaxSlotIndex = 9
  MaxGeneration = 3
  GenerationCap = 3
  None = None
  MaxAddr = 11
  Implicit = 2
  Thread = {p, q}
  Ops = {"EndTranEnvironment", "CopyDesc", "FreeDescriptor", "FreeConnection", "FreeStatement", "Disconnect", "Execute", "Cancel"}
  MaxCalls = 3
SPECIFICATION CancelSpec
PROPERTIES EveryCallReturns CancelNeverBlocks
CHECK_DEADLOCK FALSE
