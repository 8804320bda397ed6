--------------------------- MODULE MCParseService ---------------------------
(***************************************************************************)
(* An API replica with up to three handlers and the batch CLI over one     *)
(* store.                                                                  *)
(***************************************************************************)
EXTENDS ParseService

CONSTANTS
  get1, get2, get3,    \* handlers of the replica
  batch,               \* a thread of the CLI
  Permits,             \* how many pipelines a process runs at once
  Pages                \* pages of a PDF that is not rejected

Env(tf) == [tableformer |-> tf, ocr_engine |-> ""]
MCDefault == {Env("")}
MCVariants == {Env("v2"), Env("legacy")}
MCVersion == {PIPELINE_VERSION(s) : s \in Setting}

MCProcOf == [t \in Writer |-> IF t = batch THEN "cli" ELSE "api"]
MCPageCount == [d \in Doc |-> IF d \in Rejected THEN 0 ELSE Pages]
MCPermits == [p \in Proc |-> Permits]
==============================================================================
