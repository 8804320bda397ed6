SPECIFICATION ExtractionSpec
CONSTANTS
  Documents <- MCDocuments
  Norm <- MCNorm
  Blank = ""
  LimitTexts = {"Limit", "LIMIT"}
  MiniGrids = {"30 40 / 50 60"}
  NoGrid = NoGrid
  NoId = NoId
  MaxItems = 4
  Vocabularies <- MCVocabularies
  Claims <- MCClaims
  CellsOf <- MCCellsOf
  RuledOf <- MCRuledOf
  MaxSiblings = 3
INVARIANTS
  TypeOK
  DataKept
  StitchedIsRectangular
  AdmittedLimitIsFilled
  ContinuationsResolved
  SoundTableAdmitted
  CollapseIsCaught
  SectionsByLevel
  TreeReadsLikeBody
CHECK_DEADLOCK FALSE
