------------------------------ MODULE Edition ------------------------------
(***************************************************************************)
(* What assemble() does with the finished clause tree: cross-references    *)
(* are resolved (xref.py), equations that compute a limit marked           *)
(* (canon_equation.py), translations of a clause linked (lang.py), the two *)
(* gates that look at the whole document run (gates/numbering.py,          *)
(* gates/cross_reference.py), and every node gets the identifier it is     *)
(* compared by across editions (identity.py).                              *)
(***************************************************************************)
EXTENDS ClauseTree, SequencesExt

CONSTANTS
  Vocabularies,   \* sets of contents a document is drawn from
  NoLang, NoNumber, NoSymbol, NoName

(***************************************************************************)
(* A member of Content also has                                            *)
(*   refs         what its text refers to: a clause number or Annex, or    *)
(*                the number of a table                                    *)
(*   caption      the number of the table its text, a caption, announces   *)
(*   lang         the language detected, or NoLang                         *)
(*   defines      the symbol an equation defines, if it is long enough     *)
(*   uses         the symbols the text of a normative node mentions        *)
(*   designation  the standard its text starts with, or NoName             *)
(*   digest       the hash of its text                                     *)
(***************************************************************************)
Ref == [kind : {"clause"}, target : Label \ {NoLabel}] \cup [kind : {"table"}, target : Nat]

ASSUME EditionAssumption ==
  /\ \A V \in Vocabularies : V \subseteq Content
  /\ \A c \in Content : c.refs \subseteq Ref
  /\ \A c \in Content : c.caption \in Nat \cup {NoNumber}
  /\ NoNumber \notin Nat

VARIABLES
  stage,      \* the pass that comes next
  resolved,   \* resolved[i]: the references with a target_clause_id
  limits,     \* the equations with computes_limit
  group,      \* group[i]: translation_group_id
  alarms,     \* alarms[i]: the gates that have quarantined node i
  seen,       \* how often each base identifier has been given
  id          \* id[i]: the identifier of a node that has one; node 0 is the root

evars == <<stage, resolved, limits, group, alarms, seen, id>>

EditionInit ==
  /\ \E V \in Vocabularies : doc \in [Node -> V]
  /\ Init
  /\ stage = "xref"
  /\ resolved = [i \in Node |-> {}]
  /\ limits = {}
  /\ group = [i \in Node |-> NoLabel]
  /\ alarms = [i \in Node |-> {}]
  /\ seen = <<>>
  /\ id = <<>>

---------------------------------------------------------------------------
InTree == Node \ dropped
Labelled == {i \in InTree : label[i] # NoLabel}

\* Mutation: clauses are collected before lone numbers are merged away.
ClauseIdsBefore == {doc[i].text.number : i \in {j \in Node : doc[j].type = "section"}}

collect_clause_ids == {label[i] : i \in Labelled}

Step(here, next) == pass = "done" /\ stage = here /\ stage' = next /\ UNCHANGED vars

annotate_tree ==
  /\ Step("xref", "limits")
  /\ resolved' = [i \in Node |->
       IF i \in dropped THEN {}
       ELSE {r \in doc[i].refs : r.kind = "clause" /\ r.target \in collect_clause_ids}]
  /\ UNCHANGED <<limits, group, alarms, seen, id>>

Siblings(i) == {j \in InTree : parent[j] = parent[i]}

\* Mutation: only what comes before the equation is looked at.
DependsOnEarlier(i) ==
  \E j \in Siblings(i) : j < i /\ doc[j].type # "equation" /\ doc[i].defines \in doc[j].uses

\* A normative node in the same list of children mentions the symbol.
LimitDependsOn(i) ==
  \E j \in Siblings(i) : doc[j].type # "equation" /\ doc[i].defines \in doc[j].uses

annotate_computes_limit ==
  /\ Step("limits", "groups")
  /\ limits' = {i \in InTree : /\ doc[i].type = "equation" /\ doc[i].defines # NoSymbol
                               /\ LimitDependsOn(i)}
  /\ UNCHANGED <<resolved, group, alarms, seen, id>>

Languages(clause) == {doc[i].lang : i \in {j \in InTree : label[j] = clause}} \ {NoLang}
Multilingual == {c \in collect_clause_ids : Cardinality(Languages(c)) > 1}

link_translation_groups ==
  /\ Step("groups", "numbering")
  /\ group' = [i \in Node |-> IF i \in InTree /\ label[i] \in Multilingual /\ doc[i].lang # NoLang
                              THEN label[i] ELSE NoLabel]
  /\ UNCHANGED <<resolved, limits, alarms, seen, id>>

---------------------------------------------------------------------------
\* The order of one list of children: what a clause had of its own comes before
\* the entries nested into it.
InFront(i, j) ==
  IF i \in tops /\ j \notin tops THEN FALSE
  ELSE IF j \in tops /\ i \notin tops THEN TRUE
  ELSE i < j

\* The numbered sibling just before i.
Previous(i) ==
  LET before == {j \in Siblings(i) : Clause(j) /\ InFront(j, i)}
  IN  {j \in before : \A k \in before : k = j \/ InFront(k, j)}

clause_inventory == {label[i] : i \in {j \in InTree : Clause(j)}}

SameLevel(a, b) == Len(a) = Len(b) /\ Front(a) = Front(b)

\* Mutation: the last number in between is left out.
SkippedShort(a, b) ==
  {n \in Last(a) + 1 .. Last(b) - 2 : Append(Front(a), n) \notin clause_inventory}

Skipped(a, b) ==
  {n \in Last(a) + 1 .. Last(b) - 1 : Append(Front(a), n) \notin clause_inventory}

\* Mutation: a change of level counts as a gap.
GapAtAnyLevel(i) ==
  \E j \in Previous(i) : Last(label[i]) <= Last(label[j]) \/ Skipped(label[j], label[i]) # {}

GapBefore(i) ==
  \E j \in Previous(i) :
    /\ SameLevel(label[j], label[i])
    /\ Last(label[i]) <= Last(label[j]) \/ Skipped(label[j], label[i]) # {}

Quarantine(gate, nodes) ==
  alarms' = [i \in Node |-> IF i \in nodes THEN alarms[i] \cup {gate} ELSE alarms[i]]

CheckNumbering ==
  /\ Step("numbering", "references")
  /\ Quarantine("numbering", {i \in InTree : Clause(i) /\ GapBefore(i)})
  /\ UNCHANGED <<resolved, limits, group, seen, id>>

Captions == {doc[i].caption : i \in InTree} \ {NoNumber}

\* A table beyond the last caption is a table of another part of the standard.
Resolved(i, r) ==
  IF r.kind = "clause" THEN r \in resolved[i] \/ r.target \in collect_clause_ids
  ELSE r.target \in Captions \/ (Captions # {} /\ \A n \in Captions : n < r.target)

CheckReferences ==
  /\ Step("references", "identity")
  /\ Quarantine("cross_reference", {i \in InTree : \E r \in doc[i].refs : ~Resolved(i, r)})
  /\ UNCHANGED <<resolved, limits, group, seen, id>>

---------------------------------------------------------------------------
\* Reading the tree depth first: an ancestor comes before what is under it,
\* other nodes in the order of the siblings they are under.
Line(i) == {i} \cup Ancestors(i)
ReadBefore(i, j) ==
  \/ i \in Ancestors(j)
  \/ \E a \in Line(i), b \in Line(j) : a # b /\ parent[a] = parent[b] /\ InFront(a, b)

\* The designation at the start of the first such title on page 1.
derive_standard_id ==
  LET titles == {i \in InTree : /\ doc[i].type \in {"section", "paragraph", "caption"}
                                /\ doc[i].page = 1 /\ doc[i].designation # NoName}
  IN  IF titles = {} THEN NoName
      ELSE doc[CHOOSE i \in titles : \A j \in titles : i = j \/ ReadBefore(i, j)].designation

\* make_object_id: the standard and the clause, or the document and a hash.
Base(i) ==
  IF i # 0 /\ label[i] # NoLabel THEN [standard |-> derive_standard_id, path |-> label[i]]
  ELSE [digest |-> IF i = 0 THEN <<NoLabel, "">> ELSE <<text[i].number, doc[i].digest>>]

Count(base) == IF base \in DOMAIN seen THEN seen[base] ELSE 0

Stamped == DOMAIN id
Give(i, identifier) == id' = [j \in Stamped \cup {i} |-> IF j = i THEN identifier ELSE id[j]]

\* The next node in reading order; the root is the first.
Unstamped == InTree \ Stamped
IsNext(i) ==
  IF 0 \notin Stamped THEN i = 0
  ELSE i \in Unstamped /\ \A j \in Unstamped : i = j \/ ReadBefore(i, j)

\* Mutation: the suffix counts nodes of the same list only.
StampLocally(i) ==
  /\ pass = "done" /\ stage = "identity" /\ IsNext(i)
  /\ Give(i, [base |-> Base(i),
              nth |-> IF i = 0 THEN 0
                      ELSE Cardinality({j \in Siblings(i) \cap Stamped : Base(j) = Base(i)})])
  /\ UNCHANGED seen
  /\ UNCHANGED <<vars, stage, resolved, limits, group, alarms>>

\* restamp_ids, assign: the second node with a base gets "~1", and so on.
Stamp(i) ==
  /\ pass = "done" /\ stage = "identity" /\ IsNext(i)
  /\ Give(i, [base |-> Base(i), nth |-> Count(Base(i))])
  /\ seen' = [b \in DOMAIN seen \cup {Base(i)} |-> IF b = Base(i) THEN Count(b) + 1 ELSE seen[b]]
  /\ UNCHANGED <<vars, stage, resolved, limits, group, alarms>>

EditionNext ==
  \/ Next /\ UNCHANGED evars
  \/ annotate_tree \/ annotate_computes_limit \/ link_translation_groups
  \/ CheckNumbering \/ CheckReferences
  \/ \E i \in {0} \cup Node : Stamp(i)

EditionSpec == EditionInit /\ [][EditionNext]_<<vars, evars>>

---------------------------------------------------------------------------
Checked == stage = "identity" /\ Stamped = {}

\* Gate 8 and the resolver agree about the finished document: whoever refers to
\* a clause that went missing on the way, or to a table among the kept ones, is
\* in the review queue, and nobody is for a reference that can be followed
\* (gates/cross_reference.py, xref.py).
Missing(r) ==
  IF r.kind = "clause" THEN \A j \in InTree : label[j] # r.target
  ELSE /\ \A j \in InTree : doc[j].caption # r.target
       /\ \/ \A j \in InTree : doc[j].caption = NoNumber
          \/ \E j \in InTree : doc[j].caption # NoNumber /\ doc[j].caption > r.target
ReferencesSettled ==
  Checked => \A i \in InTree :
    "cross_reference" \in alarms[i] <=> \E r \in doc[i].refs : Missing(r)

\* A number that is missing between two clauses filed under one parent is
\* reported at one of them, and so is a clause out of order (gates/numbering.py),
\* unless a clause of another level stands in between.
GapsReported ==
  Checked => \A i, j \in InTree :
    /\ Clause(i) /\ Clause(j) /\ i # j
    /\ j \in Siblings(i) /\ InFront(i, j) /\ SameLevel(label[i], label[j])
    /\ \A k \in Siblings(i) :
         Clause(k) /\ InFront(i, k) /\ InFront(k, j) => SameLevel(label[i], label[k])
    /\ \/ Last(label[j]) <= Last(label[i])
       \/ \E n \in Last(label[i]) + 1 .. Last(label[j]) - 1 :
            \A k \in InTree : label[k] # Append(Front(label[i]), n)
    => \E k \in Siblings(i) \ {i} :
         InFront(i, k) /\ ~InFront(j, k) /\ "numbering" \in alarms[k]

\* A document that is numbered without a gap, each clause after its
\* predecessors, raises no alarm, however Docling has nested it; unless a clause
\* has come out of one of two siblings and is put behind the other.
Lower(a, b) ==
  \/ IsProperPrefix(a, b)
  \/ \E k \in DOMAIN a \cap DOMAIN b : a[k] < b[k] /\ \A l \in 1 .. k - 1 : a[l] = b[l]
WellNumbered ==
  /\ \A i, j \in InTree : Clause(i) /\ Clause(j) /\ i < j => Lower(label[i], label[j])
  /\ \A i \in InTree : Clause(i) =>
       \A n \in 1 .. Last(label[i]) - 1 : \E j \in InTree : label[j] = Append(Front(label[i]), n)
Overtaken(i) == \E j \in Siblings(i) : i < j /\ InFront(j, i)
SoundNumberingPasses ==
  Checked /\ WellNumbered /\ (\A i \in InTree : ~Overtaken(i))
    => \A i \in InTree : "numbering" \notin alarms[i]

\* No two objects of an edition share an identifier, the root included, so that
\* the renaming keeps every link between nodes (identity.py), and the clause
\* that is printed once has the identifier that other editions look for.
IdsIdentify ==
  /\ \A i, j \in Stamped : i # j => id[i] # id[j]
  /\ \A i \in Labelled \cap Stamped : (\A j \in Labelled \ {i} : label[j] # label[i]) => id[i].nth = 0

\* An equation and the requirement that depends on it, printed under the same
\* heading, still stand in one list when the tree is built (canon_equation.py,
\* verification-rules: the edit of such an equation is a change of a limit).
UnderSameHeading(i, j) ==
  /\ {i, j} \subseteq tops
  /\ \A k \in tops \cap (i .. j \cup j .. i) : ~Clause(k) /\ ~StartsBlock(k)
LimitEquationsMarked ==
  Checked => \A i, j \in InTree :
    /\ UnderSameHeading(i, j)
    /\ doc[i].type = "equation" /\ doc[j].type # "equation"
    /\ doc[i].defines # NoSymbol /\ doc[i].defines \in doc[j].uses
    => i \in limits
=============================================================================
