SPECIFICATION Spec
CONSTANTS
  NoReading = NoReading
  Glyphs <- MCPhrases
  Readings <- MCPhraseReadings
  Digits <- DigitGlyphs
  Limits <- LimitGlyphs
  Demands <- DemandGlyphs
  Ambiguous <- AmbiguousGlyphs
  Incomplete <- IncompleteGlyphs
  Critical = {}
  Truncated = {}
  DecimalComma = FALSE
  NoComparator = NoComparator
INVARIANT LimitKeepsDirection
CHECK_DEADLOCK FALSE
