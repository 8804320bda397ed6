----------------------------- MODULE ClauseTree -----------------------------
(***************************************************************************)
(* How assemble() (app/pipeline/assemble.py) turns the list of top-level   *)
(* nodes Docling leaves into the clause hierarchy: the passes of           *)
(* app/pipeline/topology.py in their order, with the classification of     *)
(* section roles between them.                                             *)
(*                                                                         *)
(* Nodes are numbered in document order.  A node of the top-level list has *)
(* parent 0.  The children of a node are in document order, except that    *)
(* what is nested into it comes after the children it had.                 *)
(***************************************************************************)
EXTENDS SectionRoles, FiniteSets

CONSTANTS
  N,                  \* number of nodes
  Content,            \* what a node may be
  TitleMaxWords,      \* _TITLE_MAX_WORDS
  ParaTitleMaxWords   \* _PARA_TITLE_MAX_WORDS

(***************************************************************************)
(* A member of Content has the signals of SectionRoles, a type (section,   *)
(* paragraph, list_item, table...) and a text, of which                    *)
(*   number  is the clause number in it: NoLabel, Annex or a sequence      *)
(*   place   where: "lone" (the entire text), "leading" or "trailing"      *)
(*   words   the length, the number included                               *)
(*   gloss   the length of trailing parentheses                            *)
(***************************************************************************)
Label == (Seq(Nat) \ {<<>>}) \cup {NoLabel, Annex}

ASSUME TreeAssumption ==
  /\ N \in Nat
  /\ Annex \notin Seq(Nat) /\ NoLabel \notin Seq(Nat) /\ Annex # NoLabel
  /\ \A c \in Content :
       /\ c.text.number \in Label
       /\ {c.page, c.toc, c.captions, c.index} \subseteq Nat
       /\ c.brief \in BOOLEAN /\ c.names \subseteq Role

VARIABLES
  pass,     \* the pass that comes next
  doc,      \* doc[i]: the content of node i
  text,     \* text[i]: its text, after merging
  parent,   \* parent[i]: the node it is a child of
  dropped,  \* the nodes that are not in the tree any more
  label,    \* label[i]: clause_id
  zone,     \* zone[i]: the zone a top-level node was classified in
  role,     \* role[i]: section_role
  review,   \* the nodes with review_required
  tops,     \* the top-level list nest_by_clause walks through
  pos,      \* the node it comes to next
  stack     \* the open clauses, outermost first

vars == <<pass, doc, text, parent, dropped, label, zone, role, review, tops, pos, stack>>

Node == 1 .. N
Clause(i) == label[i] \in Seq(Nat)
Relevant(i) == role[i] = "normative"      \* compliance_relevant
IsProperPrefix(a, b) == Len(a) < Len(b) /\ \A k \in 1 .. Len(a) : a[k] = b[k]
TopLevel == {i \in Node \ dropped : parent[i] = 0}

TypeOK ==
  /\ pass \in {"merge", "assign", "classify", "hoist", "nest", "done"}
  /\ doc \in [Node -> Content]
  /\ \A i \in Node : text[i].number \in Label
  /\ parent \in [Node -> {0} \cup Node]
  /\ \A i \in Node : parent[i] < i
  /\ dropped \subseteq Node
  /\ label \in [Node -> Label]
  /\ zone \in [Node -> {"front", "body", "back", "inner"}]
  /\ role \in [Node -> Role \cup {"normative"}]
  /\ review \subseteq Node
  /\ tops \subseteq Node
  /\ pos \in 1 .. (N + 1)
  /\ stack \in Seq(Node)

\* The ancestors of every node in a forest.
AncestorsIn(forest) ==
  LET up[i \in Node] ==
        IF forest[i] = 0 THEN {} ELSE {forest[i]} \cup up[forest[i]]
  IN  up

\* What Docling's body tree and heading levels give: nodes in document order,
\* sections only under sections, other nodes under sections, list items, and
\* the tables and figures they belong to.
DocumentOrder(forest) ==
  \A i \in Node : forest[i] = 0 \/ forest[i] = i - 1
                    \/ (i > 1 /\ forest[i] \in AncestorsIn(forest)[i - 1])
Typed(forest) ==
  \A i \in Node :
    forest[i] = 0
      \/ doc[forest[i]].type = "section"
      \/ (doc[forest[i]].type \in {"list_item", "table", "figure"} /\ doc[i].type # "section")

Init ==
  /\ pass = "merge"
  /\ doc \in [Node -> Content]
  /\ \A i \in Node \ {N} : doc[i].page <= doc[i + 1].page
  /\ text = [i \in Node |-> doc[i].text]
  /\ parent \in {f \in [Node -> 0 .. (N - 1)] :
                   (\A i \in Node : f[i] < i) /\ DocumentOrder(f) /\ Typed(f)}
  /\ dropped = {}
  /\ label = [i \in Node |-> NoLabel]
  /\ zone = [i \in Node |-> "inner"]
  /\ role = [i \in Node |-> "normative"]
  /\ review = {}
  /\ tops = {}
  /\ pos = 1
  /\ stack = <<>>

---------------------------------------------------------------------------
\* A trailing number counts only if it has a dot.
extract_clause_id(t) ==
  IF t.place = "trailing" /\ Len(t.number) < 2 THEN NoLabel ELSE t.number

\* Lone clause numbers whose successor in reading order is their title.
SplitNumbers ==
  {i \in Node \ {N} :
     /\ text[i].place = "lone"
     /\ doc[i + 1].type \in {"section", "paragraph", "list_item"}
     /\ doc[i].page = doc[i + 1].page
     /\ text[i + 1].words + text[i + 1].gloss <= TitleMaxWords
     /\ extract_clause_id(text[i + 1]) = NoLabel}

Merged(lone, title) ==
  [number |-> lone.number, place |-> "leading",
   words |-> lone.words + title.words, gloss |-> title.gloss]

\* The title gets the number; the number's node goes, with all below it.
merge_split_clause_numbers ==
  /\ pass = "merge"
  /\ text' = [i \in Node |->
                IF i - 1 \in SplitNumbers THEN Merged(text[i - 1], text[i]) ELSE text[i]]
  /\ dropped' = {i \in Node : ({i} \cup AncestorsIn(parent)[i]) \cap SplitNumbers # {}}
  /\ pass' = "assign"
  /\ UNCHANGED <<doc, parent, label, zone, role, review, tops, pos, stack>>

\* Sections match any number; list items and paragraphs a leading one with a
\* dot, and only if they are as short as a title.
clause_id(type, t) ==
  IF type = "section" THEN extract_clause_id(t)
  ELSE IF /\ type \in {"list_item", "paragraph"}
          /\ t.place = "leading" /\ t.number # Annex /\ Len(t.number) > 1
          /\ t.words <= (IF type = "list_item" THEN TitleMaxWords ELSE ParaTitleMaxWords)
  THEN t.number ELSE NoLabel

assign_clause_ids ==
  /\ pass = "assign"
  /\ label' = [i \in Node |-> IF i \in dropped THEN NoLabel ELSE clause_id(doc[i].type, text[i])]
  /\ pass' = "classify"
  /\ UNCHANGED <<doc, text, parent, dropped, zone, role, review, tops, pos, stack>>

classify_document ==
  LET rank(i) == Cardinality({j \in TopLevel : j <= i})
      nth == [k \in 1 .. Cardinality(TopLevel) |-> CHOOSE i \in TopLevel : rank(i) = k]
      zones == Zones([k \in DOMAIN nth |-> label[nth[k]]],
                     [k \in DOMAIN nth |-> doc[nth[k]].index])
      result(i) == classify_section(doc[i], zones[rank(i)], rank(i) = 1)
  IN  /\ pass = "classify"
      /\ zone' = [i \in Node |-> IF i \in TopLevel THEN zones[rank(i)] ELSE "inner"]
      /\ role' = [i \in Node |-> IF i \in TopLevel THEN result(i).role ELSE "normative"]
      /\ review' = {i \in TopLevel : result(i).review}
      /\ pass' = "hoist"
      /\ UNCHANGED <<doc, text, parent, dropped, label, tops, pos, stack>>

\* The number the children of a node are judged against: its own, or what it
\* inherits; a top-level node inherits from the last numbered one before it.
ClauseContext ==
  LET numbered(i) == {j \in TopLevel : j < i /\ Clause(j)}
      running(i) == IF numbered(i) = {} THEN NoLabel
                    ELSE label[CHOOSE j \in numbered(i) : \A k \in numbered(i) : k <= j]
      context[i \in Node] ==
        IF Clause(i) THEN label[i]
        ELSE IF parent[i] = 0 THEN running(i) ELSE context[parent[i]]
  IN  context

\* Mutation: a node is judged against its parent only.
MisnestedInParent(i) ==
  /\ parent[i] # 0
  /\ Clause(i) /\ Clause(parent[i])
  /\ ~IsProperPrefix(label[parent[i]], label[i])

Misnested(i) ==
  /\ parent[i] # 0
  /\ Clause(i) /\ ClauseContext[parent[i]] # NoLabel
  /\ ~IsProperPrefix(ClauseContext[parent[i]], label[i])

hoist_misnested_clauses ==
  /\ pass = "hoist"
  /\ parent' = [i \in Node |-> IF Misnested(i) THEN 0 ELSE parent[i]]
  /\ tops' = {i \in Node \ dropped : parent'[i] = 0}
  /\ pass' = "nest"
  /\ UNCHANGED <<doc, text, dropped, label, zone, role, review, pos, stack>>

---------------------------------------------------------------------------
\* nest_by_clause: one step per top-level node, and one per clause it closes.
OpenClause == IF stack = <<>> THEN 0 ELSE stack[Len(stack)]

\* Mutation: a clause stays open for another one with its own number.
FitsOpenEqual(i) ==
  /\ OpenClause # 0 /\ Clause(OpenClause)
  /\ IsProperPrefix(label[OpenClause], label[i]) \/ label[OpenClause] = label[i]

Fits(i) ==
  /\ OpenClause # 0 /\ Clause(OpenClause)
  /\ IsProperPrefix(label[OpenClause], label[i])

Placing(i) == pass = "nest" /\ i \in tops
Advance ==
  /\ pos' = pos + 1
  /\ UNCHANGED <<pass, doc, text, dropped, label, zone, role, review, tops>>

Pop ==
  /\ Placing(pos) /\ Clause(pos)
  /\ OpenClause # 0 /\ ~Fits(pos)
  /\ stack' = SubSeq(stack, 1, Len(stack) - 1)
  /\ UNCHANGED <<pass, doc, text, parent, dropped, label, zone, role, review, tops, pos>>

\* Mutation: the entry is pushed before it is placed.
PlacePushed ==
  /\ Placing(pos) /\ Clause(pos)
  /\ OpenClause = 0 \/ Fits(pos)
  /\ parent' = [parent EXCEPT ![pos] = pos]
  /\ stack' = Append(stack, pos)
  /\ Advance

PlaceClause ==
  /\ Placing(pos) /\ Clause(pos)
  /\ OpenClause = 0 \/ Fits(pos)
  /\ parent' = [parent EXCEPT ![pos] = OpenClause]
  /\ stack' = Append(stack, pos)
  /\ Advance

\* An annex or excluded matter closes every clause.
StartsBlock(i) ==
  /\ i \in tops /\ ~Clause(i)
  /\ doc[i].type = "section" /\ (label[i] = Annex \/ ~Relevant(i))

\* Mutation: the open clauses stay open.
PlaceBlockUnder ==
  /\ Placing(pos) /\ StartsBlock(pos)
  /\ stack' = IF label[pos] = Annex THEN Append(stack, pos) ELSE stack
  /\ UNCHANGED parent
  /\ Advance

PlaceBlock ==
  /\ Placing(pos) /\ StartsBlock(pos)
  /\ stack' = IF label[pos] = Annex THEN <<pos>> ELSE <<>>
  /\ UNCHANGED parent
  /\ Advance

\* Anything else goes under the open clause.
PlaceLoose ==
  /\ Placing(pos) /\ ~Clause(pos) /\ ~StartsBlock(pos)
  /\ parent' = [parent EXCEPT ![pos] = OpenClause]
  /\ UNCHANGED stack
  /\ Advance

\* A node inside an entry moves with it.
SkipInner ==
  /\ pass = "nest" /\ pos \in Node \ tops
  /\ UNCHANGED <<parent, stack>>
  /\ Advance

Assembled ==
  /\ pass = "nest" /\ pos = N + 1
  /\ pass' = "done"
  /\ UNCHANGED <<doc, text, parent, dropped, label, zone, role, review, tops, pos, stack>>

nest_by_clause == Pop \/ PlaceClause \/ PlaceBlock \/ PlaceLoose \/ SkipInner \/ Assembled

Next ==
  \/ merge_split_clause_numbers
  \/ assign_clause_ids
  \/ classify_document
  \/ hoist_misnested_clauses
  \/ nest_by_clause

Spec == Init /\ [][Next]_vars

---------------------------------------------------------------------------
Ancestors(i) == AncestorsIn(parent)[i]

\* nest_by_clause keeps the order of the list it is given: whatever comes
\* between an entry and its parent is inside the parent, so that the tree, read
\* depth first, is the list again.
ReadingOrderKept ==
  \A j, k \in tops :
    j < pos /\ parent[j] < k /\ k < j => parent[j] <= parent[k]

\* A numbered entry is the child of the nearest clause still open: the last one
\* before it that its own number and every number since extend, with no annex
\* or excluded matter in between.
StillOpen(i, j) ==
  /\ i \in tops /\ Clause(i) /\ i < j
  /\ \A k \in tops \cap ((i + 1) .. (j - 1)) :
       ~StartsBlock(k) /\ (Clause(k) => IsProperPrefix(label[i], label[k]))
NearestOpenClause ==
  \A j \in tops : j < pos /\ Clause(j) =>
    LET open == {i \in Node : StillOpen(i, j) /\ IsProperPrefix(label[i], label[j])}
    IN  IF open = {} THEN parent[j] = 0
        ELSE parent[j] \in open /\ \A i \in open : i <= parent[j]

\* The tree follows the numbering, whatever Docling nested: the nearest numbered
\* ancestor of a clause is a proper prefix, unless an unnumbered entry of the
\* top-level list carries the clause.
NearestNumbered(i) ==
  LET numbered == {a \in Ancestors(i) : Clause(a)}
  IN  {a \in numbered : \A b \in numbered : a \notin Ancestors(b)}
CarriedBy(i) == {a \in Ancestors(i) \cap tops : ~Clause(a)}
ClauseUnderItsPrefix ==
  pass = "done" =>
    \A i \in Node \ dropped : Clause(i) /\ CarriedBy(i) = {} =>
      \A a \in NearestNumbered(i) : IsProperPrefix(label[a], label[i])

\* The normative body is protected by position: whatever is hoisted and nested,
\* nothing of a section classified in the body zone ends up under excluded
\* matter, where the chunker would skip it.
BodyStaysIncluded ==
  pass = "done" =>
    \A i \in Node \ dropped : zone[i] = "body" =>
      \A a \in {i} \cup Ancestors(i) : Relevant(a)

---------------------------------------------------------------------------
\* assemble.py: "extraction never discards".  Only the node of a lone number
\* whose title took it over may go.
TextSurvives ==
  \A i \in dropped : text[i].place = "lone" /\ i + 1 \in Node \ dropped
==============================================================================
