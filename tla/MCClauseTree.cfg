SPECIFICATION EditionSpec
CONSTANTS
  NoLabel = NoLabel
  Annex = Annex
  NoLang = NoLang
  NoNumber = NoNumber
  NoSymbol = NoSymbol
  NoName = NoName
  N = 4
  Content <- MCContent
  Vocabularies <- MCVocabularies
  TitleMaxWords = 3
  ParaTitleMaxWords = 2
CHECK_DEADLOCK FALSE
INVARIANTS
  TypeOK
  ReadingOrderKept
  NearestOpenClause
  ClauseUnderItsPrefix
  BodyStaysIncluded
  ReferencesSettled
  GapsReported
  SoundNumberingPasses
  IdsIdentify
  LimitEquationsMarked
