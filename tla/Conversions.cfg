CONSTANTS
  HalfRange <- MCHalfRange
  MaxSingle = 700
  MaxDouble = 900
  Infinite = 10000
  MaxMagnitude = 999
  MaxField = 99
  MaxMonths = 127
  Today = 7
  Parameters <- MCParameters
  Columns <- MCColumns
  Reads <- MCReads
SPECIFICATION Spec
INVARIANTS NumbersSurvive DatetimesSurvive IntervalsSurvive RoutesAgree
