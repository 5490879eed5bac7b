CONSTANTS
  MaxSlotIndex = 9
  MaxGeneration = 3
  GenerationCap = 3
  None = None
  MaxAddr = 11
  Implicit = 2
  Thread = {p, q}
  Ops = {"AllocConnection", "FreeEnvironment", "AllocStatement", "AllocDescriptor", "Disconnect", "FreeConnection", "Execute", "FreeStatement", "Cancel", "FreeDescriptor", "EndTranEnvironment"}
  MaxCalls = 4
SPECIFICATION CallsSpec
INVARIANTS NoUseAfterFree ExclusiveReferences WalkCoversEnvironment
CHECK_DEADLOCK FALSE
