CONSTANTS
  None = None
  Stmt = {s}
  Text = {"search", "insert"}
  Columns = {"search"}
  Marks <- MCMarks
  MaxMarks = 2
  Column = {}
  MaxData = 0
  Managed = TRUE
SPECIFICATION Spec
INVARIANT DataAtExecRunsItsText
CHECK_DEADLOCK FALSE
