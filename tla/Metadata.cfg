SPECIFICATION Spec
CONSTANTS
  Collation <- MCCollation
  Sources <- MCSources
  Objects <- MCObjects
  Types <- MCTypes
  Calls <- MCCalls
  FewCalls <- MCFewCalls
  Texts <- MCTexts
  FewTexts <- MCFewTexts
  Functions <- MCFunctions
  Buffers <- MCBuffers
  MaxScan = 20
  MAX_ESCAPE_DEPTH = 2
  MaxI16 = 7
  PrecisionUndeterminable = 9
INVARIANTS AnswersItsArguments DiagnosticsTellLastCall AnswersAgree TranslationKeepsMarkers TextFits
