--------------------------- MODULE EditionProofs ----------------------------
(***************************************************************************)
(* What holds of every edition, whatever the length, the content and the   *)
(* nesting of the document: its clause tree is one that ClauseTree builds, *)
(* its identifiers are distinct, gate 8 reports exactly the references that*)
(* cannot be followed, the equations a limit depends on are marked, every  *)
(* gap in the numbering of siblings raises the alarm, and a document       *)
(* numbered without a gap raises none.                                     *)
(*                                                                         *)
(* The passes of Edition only read the tree: no pass of ClauseTree is left *)
(* when they start (TreeIsFinished), so that what one of them has computed *)
(* from the tree is still true of it when a later one uses it.             *)
(***************************************************************************)
EXTENDS Edition, ClauseTreeProofs

Stages == {"xref", "limits", "groups", "numbering", "references", "identity"}
TreeFirst == stage # "xref" => pass = "done"

---------------------------------------------------------------------------
\* A finished tree does not change any more (assemble.py: the passes of
\* topology.py come before the annotations).
LEMMA TreeIsFinished ==
  ASSUME pass = "done", Next
  PROVE  FALSE
BY DEF Next, merge_split_clause_numbers, assign_clause_ids, classify_document,
       hoist_misnested_clauses, nest_by_clause, Pop, PlaceClause, PlaceBlock, PlaceLoose,
       SkipInner, Assembled, Placing

\* Every step is one of the tree, of a pass, or of the identifiers.
LEMMA StepCases ==
  ASSUME [EditionNext]_<<vars, evars>>
  PROVE  \/ UNCHANGED <<vars, evars>>
         \/ Next /\ UNCHANGED evars
         \/ UNCHANGED <<vars, seen, id>> /\
              (annotate_tree \/ annotate_computes_limit \/ link_translation_groups
               \/ CheckNumbering \/ CheckReferences)
         \/ \E i \in {0} \cup Node : Stamp(i)
BY DEF EditionNext, annotate_tree, annotate_computes_limit, link_translation_groups,
       CheckNumbering, CheckReferences, Step

\* The passes of assemble.py after the tree is built leave it as it is: an
\* edition's tree is a behaviour of ClauseTree, and what holds of the one holds
\* of the other.
THEOREM EditionBuildsTheTree == EditionSpec => Spec
<1>1. EditionInit => Init
  BY DEF EditionInit
<1>2. [EditionNext]_<<vars, evars>> => [Next]_vars
  BY StepCases DEF Stamp
<1> QED BY <1>1, <1>2, PTL DEF EditionSpec, Spec

---------------------------------------------------------------------------
\* Identifiers.

BaseIsTheirs == \A i \in Stamped : id[i].base = Base(i)
CountsAreNat == \A b \in DOMAIN seen : seen[b] \in Nat
BelowCount == \A i \in Stamped : id[i].nth \in Nat /\ id[i].nth < Count(id[i].base)
CountedAreStamped == \A b \in DOMAIN seen : seen[b] > 0 => \E i \in Stamped : id[i].base = b
SuffixesDiffer ==
  \A i, j \in Stamped : i # j /\ id[i].base = id[j].base => id[i].nth # id[j].nth
SuffixMeansTwin ==
  \A i \in Stamped : id[i].nth # 0 => \E j \in Stamped \ {i} : id[j].base = id[i].base

IdInv ==
  /\ Stamped # {} => pass = "done"
  /\ Stamped \subseteq {0} \cup InTree
  /\ BaseIsTheirs /\ CountsAreNat /\ BelowCount /\ CountedAreStamped
  /\ SuffixesDiffer /\ SuffixMeansTwin

LEMMA NothingStamped == EditionInit => IdInv
BY DEF EditionInit, IdInv, Stamped, BaseIsTheirs, CountsAreNat, BelowCount, CountedAreStamped,
       SuffixesDiffer, SuffixMeansTwin

\* A pass that changes neither the tree nor the identifiers.
LEMMA IdFrame ==
  ASSUME IdInv, UNCHANGED <<vars, seen, id>>
  PROVE  IdInv'
<1>1. \A i : Base(i)' = Base(i)
  BY DEF Base, derive_standard_id, InTree, ReadBefore, Ancestors, AncestorsIn, Line, InFront,
         vars, Node
<1>2. Stamped' = Stamped /\ InTree' = InTree /\ pass' = pass /\ \A b : Count(b)' = Count(b)
  BY DEF Stamped, InTree, Count, vars
<1> QED BY <1>1, <1>2 DEF IdInv, BaseIsTheirs, CountsAreNat, BelowCount, CountedAreStamped,
                        SuffixesDiffer, SuffixMeansTwin

LEMMA Stamping ==
  ASSUME IdInv, NEW i \in {0} \cup Node, Stamp(i)
  PROVE  IdInv'
<1> DEFINE n == Count(Base(i))
           own == [base |-> Base(i), nth |-> n]
<1>1. /\ pass = "done" /\ UNCHANGED vars
      /\ i \notin Stamped /\ i \in {0} \cup InTree
  BY DEF Stamp, IsNext, Unstamped
<1>2. \A j : Base(j)' = Base(j)
  BY <1>1 DEF Base, derive_standard_id, InTree, ReadBefore, Ancestors, AncestorsIn, Line,
              InFront, vars, Node
<1>3. pass' = pass /\ InTree' = InTree
  BY <1>1 DEF vars, InTree
<1>4. /\ Stamped' = Stamped \cup {i}
      /\ id'[i] = own
      /\ \A j \in Stamped : j # i /\ id'[j] = id[j]
  BY <1>1 DEF Stamp, Give, Stamped
<1>5. n \in Nat
  BY DEF Count, IdInv, CountsAreNat
<1>6. /\ DOMAIN seen' = DOMAIN seen \cup {Base(i)}
      /\ seen'[Base(i)] = n + 1
      /\ \A b \in DOMAIN seen : b # Base(i) => seen'[b] = seen[b]
  BY DEF Stamp
<1> HIDE DEF n
<1>7. own.base = Base(i) /\ own.nth = n
  OBVIOUS
<1>8. BaseIsTheirs'
  BY <1>2, <1>4, <1>7 DEF IdInv, BaseIsTheirs
<1>9. CountsAreNat'
  BY <1>5, <1>6 DEF IdInv, CountsAreNat
<1>10. BelowCount'
  <2> SUFFICES ASSUME NEW j \in Stamped'
               PROVE  id'[j].nth \in Nat /\ id'[j].nth < Count(id[j].base)'
    BY DEF BelowCount
  <2>1. CASE j = i
    <3>1. id'[j].base = Base(i) /\ id'[j].nth = n
      BY <2>1, <1>4, <1>7
    <3>2. Count(id[j].base)' = n + 1
      BY <3>1, <1>6 DEF Count
    <3> QED BY <3>1, <3>2, <1>5
  <2>2. CASE j \in Stamped
    <3>1. id[j].nth \in Nat /\ id[j].nth < Count(id[j].base) /\ id'[j] = id[j]
      BY <2>2, <1>1, <1>4 DEF IdInv, BelowCount
    <3>2. CASE id[j].base = Base(i)
      <4>1. Count(id[j].base)' = n + 1 /\ Count(id[j].base) = n
        BY <3>1, <3>2, <1>6 DEF Count, n
      <4> QED BY <3>1, <4>1, <1>5
    <3>3. CASE id[j].base # Base(i)
      <4>1. Count(id[j].base)' = Count(id[j].base)
        BY <3>1, <3>3, <1>6 DEF Count
      <4> QED BY <3>1, <4>1
    <3> QED BY <3>2, <3>3
  <2> QED BY <2>1, <2>2, <1>4
<1>11. CountedAreStamped'
  <2> SUFFICES ASSUME NEW b \in DOMAIN seen', seen'[b] > 0
               PROVE  \E j \in Stamped' : id'[j].base = b
    BY DEF CountedAreStamped
  <2>1. CASE b = Base(i)
    BY <2>1, <1>4, <1>7
  <2>2. CASE b # Base(i)
    <3>1. b \in DOMAIN seen /\ seen[b] > 0
      BY <2>2, <1>6
    <3> QED BY <3>1, <1>4 DEF IdInv, CountedAreStamped
  <2> QED BY <2>1, <2>2
<1>12. \A j \in Stamped : id[j].base = Base(i) => id[j].nth # n
  BY <1>5 DEF IdInv, BelowCount, n
<1>13. SuffixesDiffer'
  BY <1>4, <1>7, <1>12 DEF IdInv, SuffixesDiffer
<1>14. SuffixMeansTwin'
  <2> SUFFICES ASSUME NEW j \in Stamped', id'[j].nth # 0
               PROVE  \E k \in Stamped' \ {j} : id'[k].base = id'[j].base
    BY DEF SuffixMeansTwin
  <2>1. CASE j = i
    <3>1. n > 0
      BY <2>1, <1>4, <1>5, <1>7
    <3>2. \E k \in Stamped : id[k].base = Base(i)
      BY <3>1 DEF n, Count, IdInv, CountedAreStamped
    <3> QED BY <2>1, <3>2, <1>4, <1>7
  <2>2. CASE j \in Stamped
    <3>1. \E k \in Stamped \ {j} : id[k].base = id[j].base
      BY <2>2, <1>4 DEF IdInv, SuffixMeansTwin
    <3> QED BY <2>2, <3>1, <1>4
  <2> QED BY <2>1, <2>2, <1>4
<1> QED BY <1>1, <1>3, <1>4, <1>8, <1>9, <1>10, <1>11, <1>13, <1>14 DEF IdInv

THEOREM IdInvariant == EditionSpec => []IdInv
<1>1. EditionInit => IdInv
  BY NothingStamped
<1>2. IdInv /\ [EditionNext]_<<vars, evars>> => IdInv'
  <2> SUFFICES ASSUME IdInv, [EditionNext]_<<vars, evars>> PROVE IdInv'
    OBVIOUS
  <2>1. CASE UNCHANGED <<vars, seen, id>>
    BY <2>1, IdFrame
  <2>2. CASE Next /\ UNCHANGED evars
    <3>1. Stamped = {}
      BY <2>2, TreeIsFinished DEF IdInv
    <3>2. Stamped' = {} /\ seen' = seen
      BY <2>2, <3>1 DEF Stamped, evars
    <3> QED BY <3>1, <3>2 DEF IdInv, BaseIsTheirs, CountsAreNat, BelowCount,
                              CountedAreStamped, SuffixesDiffer, SuffixMeansTwin
  <2>3. CASE \E i \in {0} \cup Node : Stamp(i)
    BY <2>3, Stamping
  <2> QED BY <2>1, <2>2, <2>3, StepCases DEF evars
<1> QED BY <1>1, <1>2, PTL DEF EditionSpec

\* No two objects of an edition share an identifier, and a clause whose number
\* is printed once has no suffix, so that the next edition finds it
\* (identity.py, restamp_ids).
THEOREM IdentifiersIdentify == EditionSpec => []IdsIdentify
<1>1. IdInv => IdsIdentify
  <2> SUFFICES ASSUME IdInv PROVE IdsIdentify
    OBVIOUS
  <2>1. \A i, j \in Stamped : i # j => id[i] # id[j]
    BY DEF IdInv, SuffixesDiffer
  <2>2. ASSUME NEW i \in Labelled \cap Stamped,
               \A j \in Labelled \ {i} : label[j] # label[i],
               id[i].nth # 0
        PROVE  FALSE
    <3>1. PICK j \in Stamped \ {i} : id[j].base = id[i].base
      BY <2>2 DEF IdInv, SuffixMeansTwin
    <3>2. Base(j) = Base(i)
      BY <3>1 DEF IdInv, BaseIsTheirs
    <3>3. i # 0 /\ label[i] # NoLabel
      BY DEF Labelled, InTree, Node
    <3>4. j # 0 /\ label[j] = label[i]
      BY <3>2, <3>3 DEF Base
    <3>5. j \in Labelled
      BY <3>1, <3>3, <3>4 DEF IdInv, Labelled
    <3> QED BY <2>2, <3>1, <3>4, <3>5
  <2> QED BY <2>1, <2>2 DEF IdsIdentify
<1> QED BY <1>1, IdInvariant, PTL

---------------------------------------------------------------------------
\* Cross-references.

RefTyped ==
  /\ doc \in [Node -> Content]
  /\ stage \in Stages
LinksAreReal ==
  \A i \in Node : \A r \in resolved[i] : r.kind = "clause" /\ r.target \in collect_clause_ids
NotYetJudged ==
  stage # "identity" => \A i \in Node : "cross_reference" \notin alarms[i]
Settled ==
  \A i \in InTree : "cross_reference" \in alarms[i] <=> \E r \in doc[i].refs : Missing(r)

RefInv ==
  /\ RefTyped /\ TreeFirst /\ LinksAreReal /\ NotYetJudged
  /\ stage = "xref" => \A i \in Node : resolved[i] = {}
  /\ stage = "identity" => Settled

\* What gate 8 cannot resolve is what is not there (cross_reference.py, _resolved).
LEMMA UnresolvedIsMissing ==
  ASSUME RefTyped, LinksAreReal, NEW i \in InTree, NEW r \in doc[i].refs
  PROVE  ~Resolved(i, r) <=> Missing(r)
<1>1. doc[i] \in Content /\ i \in Node
  BY DEF RefTyped, InTree
<1>2. r \in Ref
  BY <1>1, EditionAssumption
<1>3. CASE r.kind = "clause"
  <2>1. r.target # NoLabel
    BY <1>2, <1>3 DEF Ref
  <2>2. r.target \in collect_clause_ids <=> \E j \in InTree : label[j] = r.target
    BY <2>1 DEF collect_clause_ids, Labelled
  <2>3. Resolved(i, r) <=> r.target \in collect_clause_ids
    BY <1>1, <1>3 DEF Resolved, LinksAreReal
  <2> QED BY <1>3, <2>2, <2>3 DEF Missing
<1>4. CASE r.kind # "clause"
  <2>1. r.target \in Nat
    BY <1>2, <1>4 DEF Ref
  <2>2. \A j \in InTree : doc[j].caption \in Nat \cup {NoNumber}
    BY EditionAssumption DEF RefTyped, InTree
  <2>3. Captions \subseteq Nat
    BY <2>2 DEF Captions
  <2>4. \A n : n \in Captions <=> n # NoNumber /\ \E j \in InTree : doc[j].caption = n
    BY DEF Captions
  <2>5. r.target \in Captions <=> \E j \in InTree : doc[j].caption = r.target
    BY <2>1, <2>4, EditionAssumption
  <2>6. Captions = {} <=> \A j \in InTree : doc[j].caption = NoNumber
    BY <2>4
  <2>7. (\E n \in Captions : n > r.target) <=>
          \E j \in InTree : doc[j].caption # NoNumber /\ doc[j].caption > r.target
    BY <2>4
  <2>8. Missing(r) <=> /\ r.target \notin Captions
                       /\ Captions = {} \/ \E n \in Captions : n > r.target
    BY <1>4, <2>5, <2>6, <2>7 DEF Missing
  <2>9. r.target \notin Captions =>
          ((\E n \in Captions : n > r.target) <=> ~(\A n \in Captions : n < r.target))
    BY <2>1, <2>3
  <2> QED BY <1>4, <2>8, <2>9 DEF Resolved
<1> QED BY <1>3, <1>4

\* Quarantine adds one gate to the nodes it is given.
LEMMA Quarantining ==
  ASSUME NEW gate, NEW nodes, Quarantine(gate, nodes)
  PROVE  \A i \in Node : \A g : g \in alarms'[i] <=>
           g \in alarms[i] \/ (i \in nodes /\ g = gate)
<1> DEFINE more(i) == IF i \in nodes THEN alarms[i] \cup {gate} ELSE alarms[i]
<1>1. alarms' = [i \in Node |-> more(i)]
  BY DEF Quarantine
<1>2. \A i \in Node : \A g : g \in more(i) <=> g \in alarms[i] \/ (i \in nodes /\ g = gate)
  OBVIOUS
<1> HIDE DEF more
<1> QED BY <1>1, <1>2

LEMMA NothingJudged == EditionInit => RefInv
<1> SUFFICES ASSUME EditionInit PROVE RefInv
  OBVIOUS
<1>1. doc \in [Node -> Content]
  BY EditionAssumption DEF EditionInit
<1>2. /\ stage = "xref" /\ alarms = [i \in Node |-> {}] /\ resolved = [i \in Node |-> {}]
  BY DEF EditionInit
<1> QED BY <1>1, <1>2 DEF RefInv, RefTyped, TreeFirst, LinksAreReal, NotYetJudged, Stages

\* A step that keeps the tree, the links and the stage.
LEMMA RefFrame ==
  ASSUME RefInv, UNCHANGED <<vars, resolved, stage, alarms>>
  PROVE  RefInv'
BY DEF RefInv, RefTyped, TreeFirst, LinksAreReal, NotYetJudged, Settled, collect_clause_ids,
       Labelled, InTree, Missing, vars, Node

\* A pass between the resolver and gate 8.
LEMMA BetweenResolverAndGate ==
  ASSUME RefInv, pass = "done", UNCHANGED vars, UNCHANGED resolved,
         stage # "xref", stage \in Stages \ {"identity"},
         stage' \in Stages \ {"xref", "identity"},
         \A i \in Node : "cross_reference" \in alarms'[i] => "cross_reference" \in alarms[i]
  PROVE  RefInv'
<1>1. collect_clause_ids' = collect_clause_ids /\ Node' = Node /\ doc' = doc /\ pass' = pass
  BY DEF collect_clause_ids, Labelled, InTree, vars, Node
<1> QED BY <1>1 DEF RefInv, RefTyped, TreeFirst, LinksAreReal, NotYetJudged

THEOREM RefInvariant == EditionSpec => []RefInv
<1>1. EditionInit => RefInv
  BY NothingJudged
<1>2. RefInv /\ [EditionNext]_<<vars, evars>> => RefInv'
  <2> SUFFICES ASSUME RefInv, [EditionNext]_<<vars, evars>> PROVE RefInv'
    OBVIOUS
  <2>1. CASE UNCHANGED <<vars, evars>>
    BY <2>1, RefFrame DEF evars
  <2>2. CASE Next /\ UNCHANGED evars
    <3>1. stage = "xref" /\ \A i \in Node : resolved[i] = {}
      BY <2>2, TreeIsFinished DEF RefInv, TreeFirst
    <3>2. doc' = doc
      BY <2>2 DEF Next, merge_split_clause_numbers, assign_clause_ids, classify_document,
                  hoist_misnested_clauses, nest_by_clause, Pop, PlaceClause, PlaceBlock,
                  PlaceLoose, SkipInner, Assembled, Advance
    <3>3. stage' = stage /\ resolved' = resolved /\ alarms' = alarms /\ Node' = Node
      BY <2>2 DEF evars, Node
    <3> QED BY <3>1, <3>2, <3>3 DEF RefInv, RefTyped, TreeFirst, LinksAreReal, NotYetJudged
  <2>3. CASE annotate_tree
    <3>1. /\ stage = "xref" /\ stage' = "limits" /\ pass = "done" /\ UNCHANGED vars
          /\ alarms' = alarms
      BY <2>3 DEF annotate_tree, Step
    <3>2. /\ collect_clause_ids' = collect_clause_ids /\ Node' = Node /\ doc' = doc
          /\ pass' = pass
      BY <3>1 DEF collect_clause_ids, Labelled, InTree, vars, Node
    <3>3. LinksAreReal'
      <4>1. \A i \in Node : \A r \in resolved'[i] :
              r.kind = "clause" /\ r.target \in collect_clause_ids
        BY <2>3 DEF annotate_tree
      <4> QED BY <4>1, <3>2 DEF LinksAreReal
    <3> QED BY <3>1, <3>2, <3>3 DEF RefInv, RefTyped, TreeFirst, NotYetJudged, Stages
  <2>4. CASE annotate_computes_limit
    <3>1. /\ stage = "limits" /\ stage' = "groups" /\ pass = "done" /\ UNCHANGED vars
          /\ alarms' = alarms /\ resolved' = resolved
      BY <2>4 DEF annotate_computes_limit, Step
    <3> QED BY <3>1, BetweenResolverAndGate DEF RefInv, RefTyped, Stages
  <2>5. CASE link_translation_groups
    <3>1. /\ stage = "groups" /\ stage' = "numbering" /\ pass = "done" /\ UNCHANGED vars
          /\ alarms' = alarms /\ resolved' = resolved
      BY <2>5 DEF link_translation_groups, Step
    <3> QED BY <3>1, BetweenResolverAndGate DEF RefInv, RefTyped, Stages
  <2>6. CASE CheckNumbering
    <3>1. /\ stage = "numbering" /\ stage' = "references" /\ pass = "done" /\ UNCHANGED vars
          /\ resolved' = resolved
      BY <2>6 DEF CheckNumbering, Step
    <3>2. \A i \in Node : "cross_reference" \in alarms'[i] => "cross_reference" \in alarms[i]
      <4> DEFINE odd == {i \in InTree : Clause(i) /\ GapBefore(i)}
      <4>1. Quarantine("numbering", odd)
        BY <2>6 DEF CheckNumbering
      <4> HIDE DEF odd
      <4> QED BY <4>1, Quarantining
    <3> QED BY <3>1, <3>2, BetweenResolverAndGate DEF Stages
  <2>7. CASE CheckReferences
    <3>1. /\ stage = "references" /\ stage' = "identity" /\ pass = "done" /\ UNCHANGED vars
          /\ resolved' = resolved
      BY <2>7 DEF CheckReferences, Step
    <3>2. /\ collect_clause_ids' = collect_clause_ids /\ Node' = Node /\ doc' = doc
          /\ pass' = pass /\ InTree' = InTree /\ \A r : Missing(r)' <=> Missing(r)
      BY <3>1 DEF collect_clause_ids, Labelled, InTree, Missing, vars, Node
    <3> DEFINE dangling == {i \in InTree : \E r \in doc[i].refs : ~Resolved(i, r)}
    <3>3. \A i \in Node : "cross_reference" \in alarms'[i] <=>
            "cross_reference" \in alarms[i] \/ i \in dangling
      <4>1. Quarantine("cross_reference", dangling)
        BY <2>7 DEF CheckReferences
      <4> HIDE DEF dangling
      <4> QED BY <4>1, Quarantining
    <3>4. \A i \in InTree : i \in Node /\ "cross_reference" \notin alarms[i]
      BY <3>1 DEF RefInv, NotYetJudged, InTree
    <3>5. \A i \in InTree :
            "cross_reference" \in alarms'[i] <=> \E r \in doc[i].refs : ~Resolved(i, r)
      BY <3>3, <3>4
    <3>6. Settled'
      <4>1. \A i \in InTree :
              "cross_reference" \in alarms'[i] <=> \E r \in doc[i].refs : Missing(r)
        BY <3>5, UnresolvedIsMissing DEF RefInv
      <4> QED BY <4>1, <3>2 DEF Settled
    <3> QED BY <3>1, <3>2, <3>6
            DEF RefInv, RefTyped, TreeFirst, LinksAreReal, NotYetJudged, Stages
  <2>8. CASE \E i \in {0} \cup Node : Stamp(i)
    BY <2>8, RefFrame DEF Stamp
  <2> QED BY <2>1, <2>2, <2>3, <2>4, <2>5, <2>6, <2>7, <2>8, StepCases
<1> QED BY <1>1, <1>2, PTL DEF EditionSpec

\* Every reference to something that is not in the finished document is in the
\* review queue, and no other (gates/cross_reference.py).
THEOREM ReferencesAreSettled == EditionSpec => []ReferencesSettled
<1>1. RefInv => ReferencesSettled
  BY DEF RefInv, Settled, ReferencesSettled, Checked
<1> QED BY <1>1, RefInvariant, PTL

---------------------------------------------------------------------------
\* What the passes have written down is still what they would write of the
\* finished tree.
Computing(i) ==
  /\ doc[i].type = "equation" /\ doc[i].defines # NoSymbol /\ LimitDependsOn(i)
GateInv ==
  /\ stage \in Stages /\ TreeFirst
  /\ stage \notin {"xref", "limits"} => \A i \in InTree : i \in limits <=> Computing(i)
  /\ stage \in {"xref", "limits", "groups", "numbering"} =>
       \A i \in Node : "numbering" \notin alarms[i]
  /\ stage \in {"references", "identity"} =>
       \A i \in InTree : "numbering" \in alarms[i] <=> Clause(i) /\ GapBefore(i)

\* A step that keeps the tree keeps what is computed from it.
LEMMA TreeKeepsMeaning ==
  ASSUME UNCHANGED vars
  PROVE  /\ InTree' = InTree /\ Node' = Node
         /\ \A i : Computing(i)' <=> Computing(i)
         /\ \A i : Clause(i)' <=> Clause(i)
         /\ \A i : GapBefore(i)' <=> GapBefore(i)
<1>1. UNCHANGED <<pass, doc, text, parent, dropped, label, zone, role, review, tops, pos, stack>>
  BY DEF vars
<1>2. InTree' = InTree /\ Node' = Node
  BY <1>1 DEF InTree, Node
<1>3. \A i : Siblings(i)' = Siblings(i)
  BY <1>1, <1>2 DEF Siblings
<1>4. \A i : Clause(i)' <=> Clause(i)
  BY <1>1 DEF Clause
<1>5. \A i : Computing(i)' <=> Computing(i)
  BY <1>1, <1>3 DEF Computing, LimitDependsOn
<1>6. \A i, j : InFront(i, j)' <=> InFront(i, j)
  BY <1>1 DEF InFront
<1>7. \A i : Previous(i)' = Previous(i)
  BY <1>3, <1>4, <1>6 DEF Previous
<1>8. clause_inventory' = clause_inventory
  BY <1>1, <1>2, <1>4 DEF clause_inventory
<1>9. \A a, b : Skipped(a, b)' = Skipped(a, b)
  BY <1>8 DEF Skipped
<1>10. \A i : GapBefore(i)' <=> GapBefore(i)
  BY <1>1, <1>7, <1>9 DEF GapBefore
<1> QED BY <1>2, <1>4, <1>5, <1>10

LEMMA GatesWait == EditionInit => GateInv
BY DEF EditionInit, GateInv, TreeFirst, Stages

THEOREM GateInvariant == EditionSpec => []GateInv
<1>1. GateInv /\ [EditionNext]_<<vars, evars>> => GateInv'
  <2> SUFFICES ASSUME GateInv, [EditionNext]_<<vars, evars>> PROVE GateInv'
    OBVIOUS
  <2> USE TreeKeepsMeaning
  <2>1. CASE UNCHANGED <<vars, evars>> \/ \E i \in {0} \cup Node : Stamp(i)
    <3>1. UNCHANGED vars /\ pass' = pass /\ stage' = stage /\ limits' = limits /\ alarms' = alarms
      BY <2>1 DEF Stamp, evars, vars
    <3> QED BY <3>1 DEF GateInv, TreeFirst
  <2>2. CASE Next /\ UNCHANGED evars
    <3>1. stage = "xref"
      BY <2>2, TreeIsFinished DEF GateInv, TreeFirst
    <3>2. stage' = stage /\ alarms' = alarms /\ Node' = Node
      BY <2>2 DEF evars, Node
    <3> QED BY <3>1, <3>2 DEF GateInv, TreeFirst
  <2>3. CASE annotate_tree \/ link_translation_groups
    <3>1. /\ UNCHANGED vars /\ pass = "done" /\ pass' = pass
          /\ limits' = limits /\ alarms' = alarms
          /\ \/ stage = "xref" /\ stage' = "limits"
             \/ stage = "groups" /\ stage' = "numbering"
      BY <2>3 DEF annotate_tree, link_translation_groups, Step, vars
    <3> QED BY <3>1 DEF GateInv, TreeFirst, Stages
  <2>4. CASE annotate_computes_limit
    <3>1. /\ UNCHANGED vars /\ pass = "done" /\ pass' = pass /\ alarms' = alarms
          /\ stage = "limits" /\ stage' = "groups"
          /\ limits' = {i \in InTree : Computing(i)}
      BY <2>4 DEF annotate_computes_limit, Step, Computing, vars
    <3> QED BY <3>1 DEF GateInv, TreeFirst, Stages
  <2>5. CASE CheckNumbering
    <3> DEFINE odd == {i \in InTree : Clause(i) /\ GapBefore(i)}
    <3>1. /\ UNCHANGED vars /\ pass = "done" /\ pass' = pass /\ limits' = limits
          /\ stage = "numbering" /\ stage' = "references" /\ Quarantine("numbering", odd)
      BY <2>5 DEF CheckNumbering, Step, vars
    <3>2. \A i \in InTree : i \in Node
      BY DEF InTree
    <3>3. \A i : i \in odd <=> i \in InTree /\ Clause(i) /\ GapBefore(i)
      OBVIOUS
    <3> HIDE DEF odd
    <3>4. \A i \in Node : "numbering" \in alarms'[i] <=> "numbering" \in alarms[i] \/ i \in odd
      BY <3>1, Quarantining
    <3> QED BY <3>1, <3>2, <3>3, <3>4 DEF GateInv, TreeFirst, Stages
  <2>6. CASE CheckReferences
    <3> DEFINE dangling == {i \in InTree : \E r \in doc[i].refs : ~Resolved(i, r)}
    <3>1. /\ UNCHANGED vars /\ pass = "done" /\ pass' = pass /\ limits' = limits
          /\ stage = "references" /\ stage' = "identity"
          /\ Quarantine("cross_reference", dangling)
      BY <2>6 DEF CheckReferences, Step, vars
    <3>2. \A i \in InTree : i \in Node
      BY DEF InTree
    <3> HIDE DEF dangling
    <3>3. \A i \in Node : "numbering" \in alarms'[i] <=> "numbering" \in alarms[i]
      BY <3>1, Quarantining
    <3> QED BY <3>1, <3>2, <3>3 DEF GateInv, TreeFirst, Stages
  <2> QED BY <2>1, <2>2, <2>3, <2>4, <2>5, <2>6, StepCases
<1> QED BY <1>1, GatesWait, PTL DEF EditionSpec

\* An equation that a requirement under its heading depends on computes a limit,
\* in a document of any length: nesting has left the two in one list.
THEOREM LimitEquationsAreMarked == EditionSpec => []LimitEquationsMarked
<1>1. IInv /\ TreeInv /\ GateInv => LimitEquationsMarked
  <2> SUFFICES ASSUME IInv, TreeInv, GateInv, Checked, NEW i \in InTree, NEW j \in InTree,
                      UnderSameHeading(i, j),
                      doc[i].type = "equation", doc[j].type # "equation",
                      doc[i].defines # NoSymbol, doc[i].defines \in doc[j].uses
               PROVE  i \in limits
    BY DEF LimitEquationsMarked
  <2>1. pass = "done" /\ stage = "identity"
    BY DEF Checked, GateInv, TreeFirst
  <2>2. i \in tops /\ j \in tops /\ tops \subseteq Nat
    BY DEF UnderSameHeading, IInv, NestingTyped, Node
  <2>3. \A k \in tops : (i <= k /\ k <= j) \/ (j <= k /\ k <= i) => ~Clause(k) /\ ~StartsBlock(k)
    BY <2>2 DEF UnderSameHeading
  <2>4. parent[i] = parent[j]
    <3>1. CASE i < j
      BY <2>1, <2>2, <2>3, <3>1, SameHeadingSameParent
    <3>2. CASE j < i
      BY <2>1, <2>2, <2>3, <3>2, SameHeadingSameParent
    <3>3. CASE i = j
      BY <3>3
    <3> QED BY <2>2, <3>1, <3>2, <3>3
  <2>5. Computing(i)
    BY <2>4 DEF Computing, LimitDependsOn, Siblings
  <2> QED BY <2>1, <2>5 DEF GateInv
<1> QED BY <1>1, NestingInvariant, TreeInvariant, GateInvariant, EditionBuildsTheTree, PTL

---------------------------------------------------------------------------
\* Numbering.  What comes before a node in its list of children is what has a
\* smaller key.
Key(i) == IF i \in tops THEN N + i ELSE i

LEMMA FrontByKey ==
  ASSUME NEW i \in Node, NEW j \in Node
  PROVE  /\ Key(i) \in Nat /\ (InFront(i, j) <=> Key(i) < Key(j))
         /\ Key(i) <= 2 * N /\ (Key(i) = Key(j) => i = j)
BY TreeAssumption DEF Key, InFront, Node

\* A non-empty number is its front and its last part.
LEMMA FrontAndLast ==
  ASSUME NEW s \in Seq(Nat), s # <<>>
  PROVE  /\ Last(s) \in Nat /\ Front(s) \in Seq(Nat)
         /\ Len(s) \in Nat \ {0} /\ Len(Front(s)) = Len(s) - 1
         /\ \A k \in 1 .. Len(s) - 1 : Front(s)[k] = s[k]
         /\ Append(Front(s), Last(s)) = s
<1>1. Len(s) \in Nat /\ Len(s) # 0
  OBVIOUS
<1>2. Last(s) = s[Len(s)] /\ Front(s) = SubSeq(s, 1, Len(s) - 1)
  BY DEF Last, Front
<1>3. Last(s) \in Nat
  BY <1>1, <1>2
<1>4. /\ Front(s) \in Seq(Nat) /\ Len(Front(s)) = Len(s) - 1
      /\ \A k \in 1 .. Len(s) - 1 : Front(s)[k] = s[k]
  <2>1. \A k \in 1 .. Len(s) - 1 : s[k] \in Nat
    BY <1>1
  <2>2. /\ SubSeq(s, 1, Len(s) - 1) \in Seq(Nat)
        /\ Len(SubSeq(s, 1, Len(s) - 1)) = IF 1 <= Len(s) - 1 THEN Len(s) - 1 - 1 + 1 ELSE 0
        /\ \A k \in 1 .. Len(s) - 1 - 1 + 1 : SubSeq(s, 1, Len(s) - 1)[k] = s[1 + k - 1]
    BY <1>1, <2>1, SubSeqProperties
  <2>3. \A n \in Nat \ {0} : /\ n - 1 - 1 + 1 = n - 1
                             /\ 1 <= n - 1 \/ n - 1 = 0
    OBVIOUS
  <2>4. Len(Front(s)) = Len(s) - 1
    <3>1. CASE Len(s) - 1 = 0
      BY <1>2, <2>2, <3>1
    <3>2. CASE 1 <= Len(s) - 1
      <4>1. Len(s) - 1 - 1 + 1 = Len(s) - 1
        BY <1>1, <2>3
      <4> QED BY <1>2, <2>2, <3>2, <4>1
    <3> QED BY <1>1, <2>3, <3>1, <3>2
  <2>5. ASSUME NEW k \in 1 .. Len(s) - 1 PROVE Front(s)[k] = s[k]
    <3>1. k \in 1 .. Len(s) - 1 - 1 + 1 /\ 1 + k - 1 = k
      BY <1>1, <2>3
    <3>2. Front(s)[k] = s[1 + k - 1]
      BY <1>2, <2>2, <3>1
    <3> QED BY <3>1, <3>2
  <2> QED BY <1>2, <2>2, <2>4, <2>5
<1>5. Append(Front(s), Last(s)) = s
  <2> DEFINE t == Append(Front(s), Last(s))
  <2>1. t \in Seq(Nat) /\ Len(t) = Len(s)
    BY <1>1, <1>3, <1>4
  <2>2. ASSUME NEW k \in 1 .. Len(s) PROVE t[k] = s[k]
    <3>1. CASE k = Len(s)
      BY <1>1, <1>2, <1>3, <1>4, <3>1
    <3>2. CASE k # Len(s)
      <4>1. k \in 1 .. Len(s) - 1 /\ k \in 1 .. Len(Front(s))
        BY <1>1, <1>4, <3>2
      <4> QED BY <1>3, <1>4, <4>1
    <3> QED BY <3>1, <3>2
  <2>3. t = s
    <3> HIDE DEF t
    <3> QED BY <2>1, <2>2, SeqEqual
  <2> QED BY <2>3
<1> QED BY <1>1, <1>3, <1>4, <1>5

\* Of the numbered siblings before a node, if there are any, one is the last.
LEMMA PreviousExists ==
  ASSUME NEW i \in InTree, NEW j \in Siblings(i), Clause(j), InFront(j, i)
  PROVE  /\ Previous(i) # {}
         /\ \A p \in Previous(i) : /\ p \in Siblings(i) /\ Clause(p) /\ InFront(p, i)
                                   /\ p = j \/ InFront(j, p)
<1> DEFINE before == {k \in Siblings(i) : Clause(k) /\ InFront(k, i)}
           Dist == {2 * N - Key(k) : k \in before}
<1>1. before \subseteq Node /\ N \in Nat
  BY TreeAssumption DEF Siblings, InTree
<1>2. j \in before
  OBVIOUS
<1>3. Previous(i) = {p \in before : \A k \in before : k = p \/ InFront(k, p)}
  BY DEF Previous
<1> HIDE DEF before
<1>4. \A k \in before : Key(k) \in Nat /\ Key(k) <= 2 * N
  BY <1>1, FrontByKey
<1>5. Dist \subseteq Nat /\ Dist # {}
  BY <1>1, <1>2, <1>4
<1> HIDE DEF Dist
<1>6. PICK d \in Dist : \A e \in Dist : d <= e
  BY <1>5, Least
<1>7. PICK p \in before : d = 2 * N - Key(p)
  BY DEF Dist
<1>8. ASSUME NEW k \in before PROVE k = p \/ InFront(k, p)
  <2>1. 2 * N - Key(k) \in Dist
    BY DEF Dist
  <2>2. Key(k) <= Key(p)
    BY <1>1, <1>4, <1>6, <1>7, <2>1
  <2>3. Key(k) < Key(p) \/ Key(k) = Key(p)
    BY <1>4, <2>2
  <2> QED BY <1>1, <2>3, FrontByKey
<1>9. p \in Previous(i)
  BY <1>3, <1>8
<1>10. \A q \in Previous(i) : /\ q \in Siblings(i) /\ Clause(q) /\ InFront(q, i)
                              /\ q = j \/ InFront(j, q)
  BY <1>2, <1>3 DEF before
<1> QED BY <1>9, <1>10

\* What two numbers of one level share.
LEMMA SameLevelShares ==
  ASSUME NEW a, NEW b, NEW c, SameLevel(a, b), SameLevel(a, c)
  PROVE  SameLevel(b, c) /\ Front(b) = Front(a) /\ Front(c) = Front(a)
BY DEF SameLevel

\* Among clauses of one level filed under one parent, a number that is missing is
\* reported behind the last one before it: between two of them everything is
\* there as long as nobody has raised the alarm.
THEOREM GapsAreReported == EditionSpec => []GapsReported
<1>1. ASSUME IInv, GateInv PROVE GapsReported
  <2> SUFFICES ASSUME Checked, NEW i \in InTree, NEW j \in InTree,
                      Clause(i), Clause(j), i # j,
                      j \in Siblings(i), InFront(i, j), SameLevel(label[i], label[j]),
                      \A k \in Siblings(i) :
                        Clause(k) /\ InFront(i, k) /\ InFront(k, j) =>
                          SameLevel(label[i], label[k]),
                      \/ Last(label[j]) <= Last(label[i])
                      \/ \E n \in Last(label[i]) + 1 .. Last(label[j]) - 1 :
                           \A k \in InTree : label[k] # Append(Front(label[i]), n),
                      \A k \in Siblings(i) \ {i} :
                        ~(InFront(i, k) /\ ~InFront(j, k) /\ "numbering" \in alarms[k])
               PROVE  FALSE
    BY DEF GapsReported
  <2>1. \A k \in InTree : "numbering" \in alarms[k] <=> Clause(k) /\ GapBefore(k)
    BY <1>1 DEF GateInv, Checked
  <2>2. \A k \in InTree : Clause(k) =>
          /\ label[k] \in Seq(Nat) /\ label[k] # <<>>
          /\ label[k] \in clause_inventory
    BY <1>1, TreeAssumption DEF IInv, NestingTyped, Clause, Label, clause_inventory, InTree
  <2>3. /\ \A k \in InTree : k \in Node
        /\ \A k \in Siblings(i) : k \in InTree /\ Siblings(k) = Siblings(i)
        /\ i \in Siblings(i)
    BY DEF InTree, Siblings
  <2> DEFINE last(k) == Last(label[k])
             Reached(k) == \/ k = i
                           \/ /\ last(i) < last(k)
                              /\ \A n \in last(i) + 1 .. last(k) - 1 :
                                   Append(Front(label[i]), n) \in clause_inventory
             Between(k) == /\ k \in Siblings(i) /\ Clause(k)
                           /\ k = i \/ InFront(i, k)
                           /\ ~InFront(j, k)
             Bad == {Key(k) : k \in {m \in InTree : Between(m) /\ ~Reached(m)}}
  <2>4. \A k \in InTree : Clause(k) => last(k) \in Nat
    BY <2>2, FrontAndLast
  <2>5. ASSUME NEW k \in InTree, Between(k), ~Reached(k),
               \A m \in InTree : Between(m) /\ Key(m) < Key(k) => Reached(m)
        PROVE  FALSE
    <3>1. k # i /\ InFront(i, k) /\ Clause(k) /\ k \in Siblings(i) /\ Siblings(k) = Siblings(i)
      BY <2>3, <2>5
    <3>2. PICK p \in Previous(k) : /\ p \in Siblings(i) /\ Clause(p) /\ InFront(p, k)
                                   /\ p = i \/ InFront(i, p)
      BY <2>3, <3>1, PreviousExists
    <3>3. p \in InTree /\ p \in Node /\ k \in Node /\ i \in Node /\ j \in Node
      BY <2>3, <3>2
    <3>4. Key(p) < Key(k) /\ Key(k) <= Key(j) /\ Key(p) \in Nat /\ Key(k) \in Nat /\ Key(j) \in Nat
      <4>1. ~(Key(j) < Key(k))
        BY <2>5, <3>3, FrontByKey
      <4>2. Key(p) < Key(k) /\ Key(p) \in Nat /\ Key(k) \in Nat /\ Key(j) \in Nat
        BY <3>2, <3>3, FrontByKey
      <4> QED BY <4>1, <4>2
    <3>5. InFront(p, j) /\ ~InFront(j, p)
      BY <3>3, <3>4, FrontByKey
    <3>6. Reached(p)
      <4>1. Between(p)
        BY <3>2, <3>5
      <4> QED BY <2>5, <3>3, <3>4, <4>1
    <3>7. SameLevel(label[i], label[p])
      <4>1. SameLevel(label[i], label[i])
        BY DEF SameLevel
      <4> QED BY <3>2, <3>5, <4>1
    <3>8. SameLevel(label[i], label[k])
      <4>1. k = j \/ InFront(k, j)
        BY <3>3, <3>4, FrontByKey
      <4> QED BY <3>1, <4>1
    <3>9. SameLevel(label[p], label[k]) /\ Front(label[p]) = Front(label[i])
      BY <3>7, <3>8, SameLevelShares
    <3>10. ~GapBefore(k)
      BY <2>1, <2>5, <3>1
    <3>11. ~(last(k) <= last(p)) /\ Skipped(label[p], label[k]) = {}
      BY <3>2, <3>9, <3>10 DEF GapBefore
    <3>12. last(k) \in Nat /\ last(p) \in Nat /\ last(i) \in Nat /\ last(p) < last(k)
      BY <2>4, <3>1, <3>2, <3>3, <3>11
    <3>13. last(i) <= last(p)
      BY <3>6, <3>12
    <3>14. ASSUME NEW n \in last(i) + 1 .. last(k) - 1
           PROVE  Append(Front(label[i]), n) \in clause_inventory
      <4>1. CASE n < last(p)
        <5>1. n \in last(i) + 1 .. last(p) - 1 /\ p # i
          BY <3>12, <4>1
        <5> QED BY <3>6, <5>1
      <4>2. CASE n = last(p)
        <5>1. Append(Front(label[p]), last(p)) = label[p]
          BY <2>2, <3>2, <3>3, FrontAndLast
        <5> QED BY <2>2, <3>2, <3>3, <3>9, <4>2, <5>1
      <4>3. CASE n > last(p)
        <5>1. n \in last(p) + 1 .. last(k) - 1
          BY <3>12, <4>3
        <5> QED BY <3>9, <3>11, <5>1 DEF Skipped
      <4> QED BY <3>12, <4>1, <4>2, <4>3
    <3>15. last(i) < last(k)
      BY <3>12, <3>13
    <3> QED BY <2>5, <3>14, <3>15
  <2>6. \A k \in InTree : Between(k) => Reached(k)
    <3> SUFFICES ASSUME NEW k0 \in InTree, Between(k0), ~Reached(k0) PROVE FALSE
      OBVIOUS
    <3> HIDE DEF Between, Reached
    <3>1. Bad \subseteq Nat /\ Bad # {}
      BY <2>3, FrontByKey
    <3> HIDE DEF Bad
    <3>2. PICK d \in Bad : \A e \in Bad : d <= e
      BY <3>1, Least
    <3>3. PICK k \in InTree : Between(k) /\ ~Reached(k) /\ d = Key(k)
      BY DEF Bad
    <3>4. ASSUME NEW m \in InTree, Between(m), Key(m) < Key(k), ~Reached(m) PROVE FALSE
      <4>1. Key(m) \in Bad /\ Key(m) \in Nat /\ Key(k) \in Nat
        BY <2>3, <3>4, FrontByKey DEF Bad
      <4> QED BY <3>2, <3>3, <3>4, <4>1
    <3> QED BY <2>5, <3>3, <3>4
  <2>7. Reached(j)
    <3>1. ~InFront(j, j)
      BY <2>3, FrontByKey
    <3> QED BY <2>6, <3>1
  <2>8. PICK n \in last(i) + 1 .. last(j) - 1 :
          \A k \in InTree : label[k] # Append(Front(label[i]), n)
    BY <2>4, <2>7
  <2>9. Append(Front(label[i]), n) \in clause_inventory
    BY <2>7, <2>8
  <2> QED BY <2>8, <2>9 DEF clause_inventory
<1> QED BY <1>1, NestingInvariant, GateInvariant, EditionBuildsTheTree, PTL

\* A document numbered without a gap raises no alarm.
THEOREM SoundNumberingRaisesNone == EditionSpec => []SoundNumberingPasses
<1>1. ASSUME IInv, GateInv PROVE SoundNumberingPasses
  <2> SUFFICES ASSUME Checked, WellNumbered, \A i \in InTree : ~Overtaken(i),
                      NEW i \in InTree, Clause(i), NEW j \in Previous(i),
                      SameLevel(label[j], label[i])
               PROVE  /\ ~(Last(label[i]) <= Last(label[j]))
                      /\ Skipped(label[j], label[i]) = {}
    BY <1>1 DEF SoundNumberingPasses, GateInv, GapBefore, Checked
  <2>1. /\ j \in Siblings(i) /\ Clause(j) /\ InFront(j, i)
        /\ j \in InTree /\ j \in Node /\ i \in Node
    BY DEF Previous, Siblings, InTree
  <2>2. j < i
    <3>1. ~(i < j)
      BY <2>1 DEF Overtaken
    <3>2. i # j
      BY <2>1, FrontByKey
    <3> QED BY <2>1, <3>1, <3>2 DEF Node
  <2>3. \A k \in {i, j} : label[k] \in Seq(Nat) /\ label[k] # <<>>
    BY <1>1, <2>1, TreeAssumption DEF IInv, NestingTyped, Clause, Label
  <2> DEFINE a == label[j]
             b == label[i]
  <2>4. /\ Last(a) \in Nat /\ Last(b) \in Nat /\ Len(a) = Len(b) /\ Front(a) = Front(b)
        /\ Len(b) \in Nat \ {0} /\ Front(b) \in Seq(Nat)
        /\ \A k \in 1 .. Len(b) - 1 : a[k] = b[k] /\ b[k] \in Nat
        /\ DOMAIN a = 1 .. Len(b) /\ DOMAIN b = 1 .. Len(b)
        /\ Last(a) = a[Len(b)] /\ Last(b) = b[Len(b)]
    <3>1. a \in Seq(Nat) /\ b \in Seq(Nat) /\ a # <<>> /\ b # <<>>
      BY <2>3
    <3>2. Len(a) = Len(b) /\ Front(a) = Front(b)
      BY DEF SameLevel
    <3> HIDE DEF a, b
    <3>3. /\ Last(a) \in Nat /\ Last(b) \in Nat /\ Front(b) \in Seq(Nat)
          /\ Len(b) \in Nat \ {0}
          /\ \A k \in 1 .. Len(a) - 1 : Front(a)[k] = a[k]
          /\ \A k \in 1 .. Len(b) - 1 : Front(b)[k] = b[k]
      BY <3>1, FrontAndLast
    <3> QED BY <3>1, <3>2, <3>3 DEF Last
  <2>5. Lower(a, b)
    BY <2>1, <2>2 DEF WellNumbered
  <2> HIDE DEF a, b
  <2>6. Last(a) < Last(b)
    <3>1. ~IsProperPrefix(a, b)
      BY <2>4 DEF IsProperPrefix
    <3>2. PICK k \in 1 .. Len(b) : a[k] < b[k]
      BY <2>4, <2>5, <3>1 DEF Lower
    <3>3. k \notin 1 .. Len(b) - 1
      BY <2>4, <3>2
    <3>4. k = Len(b)
      <4>1. \A m \in Nat \ {0} : \A l \in 1 .. m : l \notin 1 .. m - 1 => l = m
        OBVIOUS
      <4> QED BY <2>4, <3>3, <4>1
    <3> QED BY <2>4, <3>2, <3>4
  <2>7. ASSUME NEW n \in Last(a) + 1 .. Last(b) - 1
        PROVE  Append(Front(a), n) \in clause_inventory
    <3>1. n \in 1 .. Last(b) - 1
      BY <2>4
    <3>2. PICK k \in InTree : label[k] = Append(Front(b), n)
      BY <3>1 DEF WellNumbered, b
    <3>3. Clause(k)
      BY <2>4, <3>1, <3>2 DEF Clause
    <3> QED BY <2>4, <3>2, <3>3 DEF clause_inventory
  <2>8. Skipped(a, b) = {}
    BY <2>7 DEF Skipped
  <2> QED BY <2>4, <2>6, <2>8 DEF a, b
<1> QED BY <1>1, NestingInvariant, GateInvariant, EditionBuildsTheTree, PTL
=============================================================================
