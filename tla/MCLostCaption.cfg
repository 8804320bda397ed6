SPECIFICATION ExtractionSpec
CONSTANTS
  Documents <- MCDocuments
  Norm <- MCNorm
  Blank = ""
  LimitTexts = {"Limit", "LIMIT"}
  MiniGrids = {"30 40 / 50 60"}
  NoGrid = NoGrid
  NoId = NoId
  MaxItems = 4
  Vocabularies <- NoVocabularies
  Claims <- MCClaims
  CellsOf <- MCCellsOf
  RuledOf <- MCRuledOf
  MaxSiblings = 3
INVARIANT CaptionsSurvive
CHECK_DEADLOCK FALSE
