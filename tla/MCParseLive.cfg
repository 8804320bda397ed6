SPECIFICATION FairSpec
CONSTANTS
  get1 = get1
  get2 = get2
  get3 = get3
  batch = batch
  Doc = {"d", "r"}
  Version <- MCVersion
  PageCount <- MCPageCount
  Pages = 0
  Proc = {"api"}
  Api = {"api"}
  Writer = {get1, get2, get3}
  ProcOf <- MCProcOf
  Setting <- MCDefault
  Data <- MCDefault
  Rejected = {"r"}
  MaxConcurrentParses <- MCPermits
  Permits = 2
  Absent = Absent
  Empty = Empty
  Torn = Torn
INVARIANTS
  PermitsConserved
PROPERTIES
  RequestsAnswered
