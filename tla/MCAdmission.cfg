SPECIFICATION Spec
CONSTANTS
  NoReading = NoReading
  Glyphs <- MCGlyphs
  Readings <- MCReadings
  Digits <- DigitGlyphs
  Limits <- LimitGlyphs
  Demands <- DemandGlyphs
  Ambiguous <- AmbiguousGlyphs
  Incomplete <- IncompleteGlyphs
  Critical <- MCCritical
  Truncated <- MCTruncated
  DecimalComma = FALSE
  NoComparator = NoComparator
INVARIANTS
  TypeOK
  NormativeDissentIsStopped
  OcrValueIsQuarantined
  AdmittedValueHasRuns
  QuarantineIsExplained
PROPERTIES
  QuarantineIsFinal
  CandidatesKept
CHECK_DEADLOCK FALSE
