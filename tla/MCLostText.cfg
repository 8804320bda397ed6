SPECIFICATION EditionSpec
CONSTANTS
  NoLabel = NoLabel
  Annex = Annex
  NoLang = NoLang
  NoNumber = NoNumber
  NoSymbol = NoSymbol
  NoName = NoName
  N = 3
  Content <- MCSplit
  Vocabularies <- MCSplitOnly
  TitleMaxWords = 3
  ParaTitleMaxWords = 2
CHECK_DEADLOCK FALSE
INVARIANT
  TextSurvives
