CONSTANTS
  MaxSlotIndex = 8
  MaxGeneration = 3
  GenerationCap = 3
  None = None
  MaxAddr = 10
  Implicit = 2
  MaxIssued = 9
  MaxWithTwo = 7
  MaxReusing = 8
SPECIFICATION Spec
CONSTRAINT Bounded
ACTION_CONSTRAINT FewAfterAFree
INVARIANTS AllocationsOwnedOnce ParentsOutliveChildren OverridesUsable
PROPERTIES DieTogether
CHECK_DEADLOCK FALSE
