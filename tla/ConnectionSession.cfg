CONSTANTS
  None = None
  Level = {"read", "serial", "snapshot"}
  Supported = {"read", "serial"}
  Default = "read"
  Key = {"host", "user"}
  Stmt = {s1, s2}
  Limit <- MCLimit
  Enforcers = {"source", "core", "nobody"}
  ConnStored <- MCConnStored
  StmtVaried <- MCStmtVaried
  Catalog = {"main", "sales"}
  DefaultCatalog = "main"
  Name <- MCName
  Generated <- MCGenerated
  Empty = ""
  Word <- MCWord
  OdbcIni <- MCOdbcIni
  Lower <- MCLower
  Texts <- MCTexts
  FewTexts <- MCFewTexts
  Argument <- MCArgument
SYMMETRY Symmetry
SPECIFICATION RequestSpec
INVARIANTS AttributesInForce ConnectsAsAsked ReportedInForce CursorNamesDistinct
PROPERTIES IsolationFixedInTransaction CatalogHeldUnderResultSet
