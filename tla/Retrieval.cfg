CONSTANTS
  ColumnCount = 2
  Rows <- MCRows
  Bindings <- MCBindings
  Requests <- MCRequests
SPECIFICATION Spec
INVARIANTS PartsAssemble ReturnTellsWhatArrived
