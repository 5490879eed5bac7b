SPECIFICATION Spec
CONSTANTS
  None = None
  Stmt = {s1}
  Explicit = {e1}
  Number = {0, 1}
  FieldCall <- MCFieldCall
  RecCall <- MCRecCall
  ColCall <- MCColCall
  ParamCall <- MCParamCall
  AttrCall <- MCAttrCall
  Results <- MCResults
  MaxI16 = 30
  PrecisionUndeterminable = 99
  MaxCalls = 3
INVARIANTS BindsKeepHalvesTogether DoorsAgree CopyReadsLikeSource
PROPERTY RefusalChangesNothing
CHECK_DEADLOCK FALSE
