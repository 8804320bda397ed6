------------------------------ MODULE Extraction ------------------------------
(***************************************************************************)
(* From Docling's document to finished tables: _build_tree() walks the     *)
(* body, and every list of children it leaves goes through the passes of   *)
(* Tables.  Documents of Tables are also taken as they are, for the shapes *)
(* of tables that a walk does not tell apart.                              *)
(***************************************************************************)
EXTENDS Tables, DoclingWalk

CONSTANTS
  CellsOf(_),   \* the cells of the table that is the n-th of its siblings
  RuledOf(_)    \* the grid that is ruled there

Nothing == [siblings |-> <<>>, ruled |-> <<>>]
NoBody == Body([i \in Item |-> [label |-> "furniture", level |-> 0, located |-> FALSE]],
               [i \in Item |-> 0], NoClaims)

ExtractionInit ==
  \/ Init /\ Begin(NoBody)
  \/ WalkInit /\ source = Nothing /\ pass = "captions" /\ rest = <<>> /\ done = <<>> /\ prev = 0

---------------------------------------------------------------------------
Sorted(S) == SetToSortSeq(S, <)

CaptionsOf(n) ==
  IF nodes[n].type \in CaptionHolders THEN {m \in ChildrenOf(n) : nodes[m].type = "caption"} ELSE {}

\* The children of node n as the siblings Tables is about; a table's own
\* captions are numbered after them.
HandOver(n) ==
  LET children == Sorted(ChildrenOf(n))
      sibling(k) ==
        [Sibling(nodes[children[k]].type, k, 1,
                 IF nodes[children[k]].type = "table" THEN CellsOf(k) ELSE {})
         EXCEPT !.captions = [c \in 1 .. Cardinality(CaptionsOf(children[k])) |->
                                Len(children) + children[k] + c]]
      list == [k \in DOMAIN children |-> sibling(k)]
  IN  /\ Walked /\ children # <<>>
      /\ source' = [siblings |-> list, ruled |-> [k \in DOMAIN list |-> RuledOf(k)]]
      /\ rest' = list
      /\ body' = NoBody /\ next' = 1 /\ attach' = [i \in 0 .. MaxItems |-> Sections]
      /\ open' = <<>> /\ nodes' = <<>>
      /\ UNCHANGED <<pass, done, prev>>

ExtractionNext ==
  \/ source = Nothing /\ WalkNext /\ UNCHANGED vars
  \/ source = Nothing /\ \E n \in {0} \cup Kept : HandOver(n)
  \/ source # Nothing /\ Next /\ UNCHANGED wvars

ExtractionSpec == ExtractionInit /\ [][ExtractionNext]_<<vars, wvars>>
=============================================================================
