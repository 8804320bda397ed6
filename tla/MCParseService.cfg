SPECIFICATION Spec
CONSTANTS
  get1 = get1
  get2 = get2
  get3 = get3
  batch = batch
  Doc = {"d"}
  Version <- MCVersion
  PageCount <- MCPageCount
  Pages = 1
  Proc = {"api", "cli"}
  Api = {"api"}
  Writer = {get1, batch}
  ProcOf <- MCProcOf
  Setting <- MCVariants
  Data <- MCVariants
  Rejected = {}
  MaxConcurrentParses <- MCPermits
  Permits = 1
  Absent = Absent
  Empty = Empty
  Torn = Torn
INVARIANTS
  TypeOK
  PublishedIsWhole
  ProcessedIsComplete
  PagesFollowEdition
  EditionHasItsVersion
PROPERTIES
  NeverUnpublished
  ImplementsShelf
