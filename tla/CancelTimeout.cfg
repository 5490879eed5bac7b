CONSTANTS
  Canceller = {c1}
  MaxExec = 2
  MaxCalls = 3
  MaxCancels = 1
  None = None
SPECIFICATION FairSpec
INVARIANTS FailureNamesItsCause NoCancelLeaks
PROPERTIES TimerThreadsEnd
CHECK_DEADLOCK FALSE
