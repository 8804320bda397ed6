SPECIFICATION Spec
CONSTANTS
  get1 = get1
  get2 = get2
  get3 = get3
  batch = batch
  Doc = {"d"}
  Version <- MCVersion
  PageCount <- MCPageCount
  Pages = 1
  Proc = {"api", "cli"}
  Api = {"api"}
  Writer = {get1, get2}
  ProcOf <- MCProcOf
  Setting <- MCDefault
  Data <- MCDefault
  Rejected = {}
  MaxConcurrentParses <- MCPermits
  Permits = 2
  Absent = Absent
  Empty = Empty
  Torn = Torn
INVARIANT
  PublishedIsWhole
