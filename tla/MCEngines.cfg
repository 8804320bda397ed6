SPECIFICATION FairSpec
CONSTANTS
  Thread = {"t1", "t2"}
  Request = {"r1", "r2"}
  Ollama = TRUE
  NoOne = NoOne
INVARIANTS
  AnswersAreOwn
  LoadedOnce
  OneOpinion
PROPERTIES
  CallsReturn
  HandlersFinish
