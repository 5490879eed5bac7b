CONSTANTS
  None = None
  Stmt = {s, t}
  Text = {"search", "insert", "update"}
  Columns = {"search"}
  Marks <- MCMarks
  MaxMarks = 2
  Column = {1, 2}
  MaxData = 1
  Managed = TRUE
SPECIFICATION Spec
SYMMETRY Interchangeable
CONSTRAINT OneSequence
INVARIANTS DataReachesItsParameter ExecuteRunsPreparedText CursorOpenMatchesBackend PositionInCurrentRow EndTranLeavesNoCursor
CHECK_DEADLOCK FALSE
