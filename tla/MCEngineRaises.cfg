SPECIFICATION FairSpec
CONSTANTS
  Thread = {"t1", "t2"}
  Request = {"r1", "r2"}
  Ollama = FALSE
  NoOne = NoOne
INVARIANTS
  CallsNeverRaise
