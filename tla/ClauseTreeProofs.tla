-------------------------- MODULE ClauseTreeProofs --------------------------
(***************************************************************************)
(* What the passes of topology.py build, for documents of any length and   *)
(* content: every numbered entry is under the nearest clause that is still *)
(* open, the reading order of the top-level list survives, the finished    *)
(* tree follows the numbering, and the normative body stays included.      *)
(*                                                                         *)
(* Nesting (IInv): between two entries the stack holds exactly the entries *)
(* that are still open, in document order, and whatever came after one of  *)
(* them is inside it.  While an entry pops, only what cannot be its parent *)
(* is missing.                                                             *)
(*                                                                         *)
(* The tree (TreeInv): what classification finds of the list and what      *)
(* hoisting leaves inside its entries is carried through nesting.  The     *)
(* ancestors of a node and the number it inherits are recursive functions; *)
(* ForestRecursion shows that they exist, and what is proved of every      *)
(* ancestor is proved by taking the first node it fails for (Least).       *)
(***************************************************************************)
EXTENDS ClauseTree, SequenceTheorems, FiniteSetTheorems, WellFoundedInduction, TLAPS

\* Entry i can still take entries at position j: it is a clause or an annex, and
\* nothing since has closed it.
OpenAt(i, j) ==
  /\ i \in tops /\ i < j
  /\ Clause(i) \/ (StartsBlock(i) /\ label[i] = Annex)
  /\ \A k \in tops : i < k /\ k < j =>
       /\ ~StartsBlock(k)
       /\ Clause(k) => Clause(i) /\ IsProperPrefix(label[i], label[k])

NestingTyped ==
  /\ N \in Nat
  /\ \A i \in Node : text[i].number \in Label
  /\ label \in [Node -> Label]
  /\ parent \in [Node -> {0} \cup Node]
  /\ \A i \in Node : parent[i] < i
  /\ dropped \subseteq Node
  /\ tops \subseteq Node
  /\ pos \in 1 .. (N + 1)
  /\ stack \in Seq(Node)

NotYetNesting == pass \notin {"nest", "done"} => tops = {} /\ pos = 1 /\ stack = <<>>
Waiting == \A j \in tops : pos <= j => parent[j] = 0
StackIsOpen == \A k \in 1 .. Len(stack) : OpenAt(stack[k], pos)
StackAscends == \A k, m \in 1 .. Len(stack) : k < m => stack[k] < stack[m]
OpenIsOnStack ==
  \A i \in tops : OpenAt(i, pos) =>
    \/ \E k \in 1 .. Len(stack) : stack[k] = i
    \/ /\ pos \in tops /\ Clause(pos)
       /\ ~(Clause(i) /\ IsProperPrefix(label[i], label[pos]))
SinceIsInside ==
  \A k \in 1 .. Len(stack) : \A j \in tops :
    stack[k] < j /\ j < pos => stack[k] <= parent[j]

IInv ==
  /\ NestingTyped /\ NotYetNesting /\ Waiting
  /\ StackIsOpen /\ StackAscends /\ OpenIsOnStack /\ SinceIsInside
  /\ NearestOpenClause /\ ReadingOrderKept

\* Being a proper prefix is transitive.
LEMMA PrefixTransitive ==
  ASSUME NEW a \in Seq(Nat), NEW b \in Seq(Nat), NEW c \in Seq(Nat),
         IsProperPrefix(a, b), IsProperPrefix(b, c)
  PROVE  IsProperPrefix(a, c)
  BY DEF IsProperPrefix

\* The open clause is the last element of the stack.
LEMMA OpenClauseIsLast ==
  ASSUME NestingTyped
  PROVE  /\ OpenClause \in {0} \cup Node
         /\ OpenClause = 0 <=> Len(stack) = 0
         /\ OpenClause # 0 => /\ Len(stack) \in 1 .. Len(stack)
                              /\ OpenClause = stack[Len(stack)]
<1>1. Len(stack) \in Nat /\ (stack = <<>> <=> Len(stack) = 0)
  BY DEF NestingTyped
<1>2. \A k \in 1 .. Len(stack) : stack[k] \in Node
  BY DEF NestingTyped
<1> QED BY <1>1, <1>2 DEF OpenClause, Node

---------------------------------------------------------------------------
\* The initial states.
LEMMA InitHolds == Init => IInv
<1> SUFFICES ASSUME Init PROVE IInv
  OBVIOUS
<1> USE TreeAssumption
<1>1. NestingTyped
  <2>1. \A i \in Node : text[i].number \in Label
    BY DEF Init
  <2>2. parent \in [Node -> {0} \cup Node] /\ \A i \in Node : parent[i] < i
    BY DEF Init, Node
  <2> QED BY <2>1, <2>2 DEF Init, NestingTyped, Node, Label
<1>2. tops = {} /\ pos = 1 /\ stack = <<>> /\ Len(stack) = 0
  BY DEF Init
<1> QED
  BY <1>1, <1>2 DEF IInv, NotYetNesting, Waiting, StackIsOpen, StackAscends, OpenIsOnStack,
     SinceIsInside, NearestOpenClause, ReadingOrderKept

\* The passes before nesting leave nothing to say but the types.
LEMMA BeforeNesting ==
  ASSUME IInv,
         merge_split_clause_numbers \/ assign_clause_ids \/ classify_document
  PROVE  IInv'
<1> USE TreeAssumption
<1>1. /\ pass \notin {"nest", "done"} /\ pass' \notin {"nest", "done"}
      /\ UNCHANGED <<parent, tops, pos, stack>>
  BY DEF merge_split_clause_numbers, assign_clause_ids, classify_document
<1>2. tops' = {} /\ pos' = 1 /\ stack' = <<>> /\ Len(stack') = 0
  BY <1>1 DEF IInv, NotYetNesting
<1>3. dropped' \subseteq Node
  BY DEF IInv, NestingTyped, merge_split_clause_numbers, assign_clause_ids, classify_document
<1>4. (\A i \in Node : text[i].number \in Label)'
  <2>1. CASE merge_split_clause_numbers
    <3>1. \A i \in Node : text'[i] = IF i - 1 \in SplitNumbers
                                     THEN Merged(text[i - 1], text[i]) ELSE text[i]
      BY <2>1 DEF merge_split_clause_numbers
    <3>2. SplitNumbers \subseteq Node
      BY DEF SplitNumbers
    <3>3. \A s, t : Merged(s, t).number = s.number
      BY DEF Merged
    <3>4. ASSUME NEW i \in Node PROVE text'[i].number \in Label
      <4>1. CASE i - 1 \in SplitNumbers
        <5>1. text'[i].number = text[i - 1].number
          BY <3>1, <3>3, <4>1
        <5> QED BY <5>1, <3>2, <4>1 DEF IInv, NestingTyped
      <4>2. CASE i - 1 \notin SplitNumbers
        BY <3>1, <4>2 DEF IInv, NestingTyped
      <4> QED BY <4>1, <4>2
    <3> QED BY <3>4 DEF Node
  <2>2. CASE assign_clause_ids \/ classify_document
    BY <2>2 DEF assign_clause_ids, classify_document, IInv, NestingTyped, Node
  <2> QED BY <2>1, <2>2
<1>5. label' \in [Node -> Label]
  <2>1. CASE assign_clause_ids
    <3>1. label' = [i \in Node |-> IF i \in dropped THEN NoLabel
                                   ELSE clause_id(doc[i].type, text[i])]
      BY <2>1 DEF assign_clause_ids
    <3>2. NoLabel \in Label
      BY DEF Label
    <3>3. \A i \in Node : clause_id(doc[i].type, text[i]) \in Label
      BY <3>2 DEF clause_id, extract_clause_id, IInv, NestingTyped
    <3> QED BY <3>1, <3>2, <3>3
  <2>2. CASE merge_split_clause_numbers \/ classify_document
    BY <2>2 DEF merge_split_clause_numbers, classify_document, IInv, NestingTyped
  <2> QED BY <2>1, <2>2
<1>6. NestingTyped'
  BY <1>1, <1>3, <1>4, <1>5 DEF IInv, NestingTyped, Node
<1> QED
  BY <1>1, <1>2, <1>6 DEF IInv, NotYetNesting, Waiting, StackIsOpen, StackAscends, OpenIsOnStack,
     SinceIsInside, NearestOpenClause, ReadingOrderKept

LEMMA Hoisting ==
  ASSUME IInv, hoist_misnested_clauses
  PROVE  IInv'
<1> USE TreeAssumption
<1>1. /\ pos' = 1 /\ stack' = <<>> /\ Len(stack') = 0
      /\ pass' = "nest" /\ UNCHANGED <<doc, text, dropped, label>>
  BY DEF hoist_misnested_clauses, IInv, NotYetNesting
<1>2. /\ parent' = [i \in Node |-> IF Misnested(i) THEN 0 ELSE parent[i]]
      /\ tops' \subseteq Node
      /\ \A i \in tops' : parent'[i] = 0
  BY DEF hoist_misnested_clauses
<1>3. NestingTyped'
  BY <1>1, <1>2 DEF IInv, NestingTyped, Node
<1>4. \A i \in tops' : i \in Nat /\ ~(i < 1)
  BY <1>2 DEF IInv, NestingTyped, Node
<1>5. NotYetNesting' /\ Waiting'
  BY <1>1, <1>2 DEF NotYetNesting, Waiting
<1>6. StackIsOpen' /\ StackAscends' /\ SinceIsInside'
  BY <1>1 DEF StackIsOpen, StackAscends, SinceIsInside
<1>7. OpenIsOnStack'
  BY <1>1, <1>4 DEF OpenIsOnStack, OpenAt
<1>8. NearestOpenClause' /\ ReadingOrderKept'
  BY <1>1, <1>4 DEF NearestOpenClause, ReadingOrderKept
<1> QED BY <1>3, <1>5, <1>6, <1>7, <1>8 DEF IInv

---------------------------------------------------------------------------
\* One step of nest_by_clause.  First what every step keeps: which entries are
\* open at a position depends on the list, the labels and the roles only.
Fixed == UNCHANGED <<doc, text, dropped, label, zone, role, review, tops>>

LEMMA FixedKeepsMeaning ==
  ASSUME Fixed
  PROVE  /\ \A i : Clause(i)' <=> Clause(i)
         /\ \A i : StartsBlock(i)' <=> StartsBlock(i)
         /\ \A i, j : OpenAt(i, j)' <=> OpenAt(i, j)
         /\ \A i, j : StillOpen(i, j)' <=> StillOpen(i, j)
<1>1. \A i : Clause(i)' <=> Clause(i)
  BY DEF Fixed, Clause
<1>2. \A i : StartsBlock(i)' <=> StartsBlock(i)
  BY DEF Fixed, StartsBlock, Clause, Relevant
<1> QED BY <1>1, <1>2 DEF Fixed, OpenAt, StillOpen, IsProperPrefix

\* An entry that is open at pos + 1 is open at pos, or is the entry at pos.
LEMMA OpenBackwards ==
  ASSUME NestingTyped, pos \in Node, NEW i \in tops, OpenAt(i, pos + 1)
  PROVE  /\ i = pos \/ OpenAt(i, pos)
         /\ i # pos /\ pos \in tops => ~StartsBlock(pos)
         /\ i # pos /\ pos \in tops /\ Clause(pos) =>
              Clause(i) /\ IsProperPrefix(label[i], label[pos])
<1>1. i \in Nat /\ pos \in Nat /\ \A k \in tops : k \in Nat
  BY DEF NestingTyped, Node
<1> QED BY <1>1 DEF OpenAt

LEMMA OpenForwards ==
  ASSUME NestingTyped, pos \in Node, NEW i \in tops, OpenAt(i, pos),
         pos \in tops =>
           /\ ~StartsBlock(pos)
           /\ Clause(pos) => Clause(i) /\ IsProperPrefix(label[i], label[pos])
  PROVE  OpenAt(i, pos + 1)
<1>1. i \in Nat /\ pos \in Nat /\ \A k \in tops : k \in Nat
  BY DEF NestingTyped, Node
<1> QED BY <1>1 DEF OpenAt

\* An entry has just been passed and the stack may only have gained it: nothing
\* changes for the entries before.
LEMMA EarlierEntries ==
  ASSUME IInv, Fixed, pos \in Node, pos' = pos + 1,
         parent' \in [Node -> {0} \cup Node],
         \A i \in Node : i # pos => parent'[i] = parent[i],
         parent'[pos] < pos,
         pos \in tops /\ Clause(pos) =>
           LET open == {i \in Node : StillOpen(i, pos) /\ IsProperPrefix(label[i], label[pos])}
           IN  IF open = {} THEN parent'[pos] = 0
               ELSE parent'[pos] \in open /\ \A i \in open : i <= parent'[pos],
         pos \in tops => \A k \in tops :
           parent'[pos] < k /\ k < pos => parent'[pos] <= parent[k]
  PROVE  Waiting' /\ NearestOpenClause' /\ ReadingOrderKept'
<1> USE FixedKeepsMeaning
<1>1. tops' = tops /\ label' = label /\ tops \subseteq Node /\ pos \in Nat
  BY DEF Fixed, IInv, NestingTyped
<1>2. \A j \in tops : j \in Nat /\ (j < pos' => j = pos \/ j < pos)
  BY <1>1 DEF Node
<1>3. Waiting'
  BY <1>1, <1>2 DEF IInv, Waiting
<1>4. NearestOpenClause'
  <2> SUFFICES ASSUME NEW j \in tops, j < pos', Clause(j)
               PROVE  LET open == {i \in Node : StillOpen(i, j)
                                                  /\ IsProperPrefix(label[i], label[j])}
                      IN  IF open = {} THEN parent'[j] = 0
                          ELSE parent'[j] \in open /\ \A i \in open : i <= parent'[j]
    BY <1>1 DEF NearestOpenClause, IsProperPrefix
  <2>1. CASE j = pos
    BY <2>1
  <2>2. CASE j # pos
    <3>1. j < pos /\ parent'[j] = parent[j]
      BY <1>1, <1>2, <2>2
    <3> QED BY <3>1 DEF IInv, NearestOpenClause
  <2> QED BY <2>1, <2>2
<1>5. ReadingOrderKept'
  <2> SUFFICES ASSUME NEW j \in tops, NEW k \in tops,
                      j < pos', parent'[j] < k, k < j
               PROVE  parent'[j] <= parent'[k]
    BY <1>1 DEF ReadingOrderKept
  <2>1. k < pos /\ k # pos /\ parent'[k] = parent[k]
    BY <1>1, <1>2 DEF Node
  <2>2. CASE j = pos
    BY <2>1, <2>2
  <2>3. CASE j # pos
    <3>1. j < pos /\ parent'[j] = parent[j]
      BY <1>1, <1>2, <2>3
    <3> QED BY <3>1, <2>1 DEF IInv, ReadingOrderKept
  <2> QED BY <2>2, <2>3
<1> QED BY <1>3, <1>4, <1>5

---------------------------------------------------------------------------
\* Popping only takes away a clause that cannot be the parent.
LEMMA Popping ==
  ASSUME IInv, Pop
  PROVE  IInv'
<1> USE FixedKeepsMeaning
<1>1. Fixed /\ UNCHANGED <<pass, parent, pos>>
  BY DEF Pop, Fixed
<1>2. /\ pass = "nest" /\ pos \in tops /\ Clause(pos)
      /\ Len(stack) \in Nat \ {0} /\ OpenClause = stack[Len(stack)] /\ ~Fits(pos)
      /\ OpenClause # 0
  BY OpenClauseIsLast DEF Pop, Placing, IInv, NestingTyped
<1>3. /\ stack' \in Seq(Node)
      /\ Len(stack') = Len(stack) - 1
      /\ \A k \in 1 .. Len(stack') : k \in 1 .. Len(stack) /\ stack'[k] = stack[k]
  <2>1. stack' = SubSeq(stack, 1, Len(stack) - 1) /\ stack \in Seq(Node)
    BY DEF Pop, IInv, NestingTyped
  <2>2. \A i \in 1 .. (Len(stack) - 1) : stack[i] \in Node
    BY <2>1
  <2>3. /\ stack' \in Seq(Node)
        /\ Len(stack') = IF 1 <= Len(stack) - 1 THEN Len(stack) - 1 - 1 + 1 ELSE 0
        /\ \A k \in 1 .. Len(stack) - 1 - 1 + 1 : stack'[k] = stack[1 + k - 1]
    BY <1>2, <2>1, <2>2, SubSeqProperties
  <2>4. Len(stack') = Len(stack) - 1
    <3>1. CASE Len(stack) = 1
      BY <2>3, <3>1
    <3>2. CASE Len(stack) # 1
      <4>1. 1 <= Len(stack) - 1 /\ Len(stack) - 1 - 1 + 1 = Len(stack) - 1
        <5>1. \A n \in Nat \ {0, 1} : 1 <= n - 1 /\ n - 1 - 1 + 1 = n - 1
          OBVIOUS
        <5> QED BY <1>2, <3>2, <5>1
      <4> QED BY <2>3, <4>1
    <3> QED BY <3>1, <3>2
  <2>5. ASSUME NEW k \in 1 .. Len(stack')
        PROVE  k \in 1 .. Len(stack) /\ stack'[k] = stack[k]
    <3>1. /\ k \in 1 .. Len(stack) - 1 - 1 + 1
          /\ 1 + k - 1 = k
          /\ k \in 1 .. Len(stack)
      BY <1>2, <2>4
    <3>2. stack'[k] = stack[1 + k - 1]
      BY <2>3, <3>1
    <3> QED BY <3>1, <3>2
  <2> QED BY <2>3, <2>4, <2>5
<1>4. NestingTyped'
  BY <1>1, <1>3 DEF IInv, NestingTyped, Fixed
<1>5. NotYetNesting'
  BY <1>1, <1>2 DEF NotYetNesting
<1>6. Waiting' /\ NearestOpenClause' /\ ReadingOrderKept'
  BY <1>1 DEF IInv, Waiting, NearestOpenClause, ReadingOrderKept, Fixed, IsProperPrefix
<1>7. StackIsOpen' /\ StackAscends' /\ SinceIsInside'
  BY <1>1, <1>3 DEF IInv, StackIsOpen, StackAscends, SinceIsInside, Fixed
<1>8. OpenIsOnStack'
  <2> SUFFICES ASSUME NEW i \in tops, OpenAt(i, pos)
               PROVE  \/ \E k \in 1 .. Len(stack') : stack'[k] = i
                      \/ ~(Clause(i) /\ IsProperPrefix(label[i], label[pos]))
    BY <1>1, <1>2 DEF OpenIsOnStack, Fixed, IsProperPrefix
  <2>1. CASE \E k \in 1 .. Len(stack) : stack[k] = i
    <3>1. PICK k \in 1 .. Len(stack) : stack[k] = i
      BY <2>1
    <3>2. CASE k = Len(stack)
      BY <1>2, <3>1, <3>2 DEF Fits
    <3>3. CASE k # Len(stack)
      BY <1>2, <1>3, <3>1, <3>3
    <3> QED BY <3>2, <3>3
  <2>2. CASE ~(Clause(i) /\ IsProperPrefix(label[i], label[pos]))
    BY <2>2
  <2> QED BY <2>1, <2>2 DEF IInv, OpenIsOnStack
<1> QED BY <1>4, <1>5, <1>6, <1>7, <1>8 DEF IInv

\* A numbered entry whose stack has been popped finds its parent on top.
LEMMA PlacingClause ==
  ASSUME IInv, PlaceClause
  PROVE  IInv'
<1> USE FixedKeepsMeaning
<1>1. Fixed /\ pos' = pos + 1 /\ pass = "nest" /\ pass' = "nest"
  BY DEF PlaceClause, Advance, Placing, Fixed
<1>2. pos \in tops /\ pos \in Node /\ Clause(pos) /\ ~StartsBlock(pos)
  BY DEF PlaceClause, Placing, IInv, NestingTyped, StartsBlock
<1>3. /\ parent' = [parent EXCEPT ![pos] = OpenClause]
      /\ stack' = Append(stack, pos)
      /\ OpenClause = 0 \/ Fits(pos)
  BY DEF PlaceClause
<1>4. /\ Len(stack) \in Nat /\ Len(stack') = Len(stack) + 1 /\ stack' \in Seq(Node)
      /\ \A k \in 1 .. Len(stack) : stack'[k] = stack[k] /\ stack[k] \in Node
      /\ stack'[Len(stack) + 1] = pos
  BY <1>2, <1>3 DEF IInv, NestingTyped
<1>5. \A k \in 1 .. Len(stack) : stack[k] \in tops /\ stack[k] < pos
  BY DEF IInv, StackIsOpen, OpenAt
<1>6. /\ OpenClause \in {0} \cup Node
      /\ OpenClause = 0 <=> Len(stack) = 0
      /\ OpenClause # 0 => Len(stack) \in 1 .. Len(stack) /\ OpenClause = stack[Len(stack)]
  BY OpenClauseIsLast DEF IInv
<1>7. OpenClause < pos
  BY <1>2, <1>5, <1>6 DEF Node
<1>8. \A i \in tops : Clause(i) => label[i] \in Seq(Nat)
  BY DEF Clause
\* Every clause on the stack is a proper prefix of the new one.
<1>9. \A k \in 1 .. Len(stack) : Clause(stack[k]) /\ IsProperPrefix(label[stack[k]], label[pos])
  <2> SUFFICES ASSUME NEW k \in 1 .. Len(stack)
               PROVE  Clause(stack[k]) /\ IsProperPrefix(label[stack[k]], label[pos])
    OBVIOUS
  <2> DEFINE s == stack[Len(stack)]
  <2>1. Len(stack) \in 1 .. Len(stack) /\ OpenClause = s /\ s \in tops /\ s < pos
    BY <1>4, <1>5, <1>6
  <2>2. Clause(s) /\ IsProperPrefix(label[s], label[pos])
    BY <1>3, <1>4, <1>6, <2>1 DEF Fits
  <2>3. CASE k = Len(stack)
    BY <2>2, <2>3
  <2>4. CASE k # Len(stack)
    <3>1. stack[k] < s /\ OpenAt(stack[k], pos)
      BY <1>4, <2>1, <2>4 DEF IInv, StackAscends, StackIsOpen
    <3>2. Clause(stack[k]) /\ IsProperPrefix(label[stack[k]], label[s])
      BY <2>1, <2>2, <3>1 DEF OpenAt
    <3> QED BY <1>2, <2>2, <3>2, PrefixTransitive DEF Clause
  <2> QED BY <2>3, <2>4
<1>10. NestingTyped'
  BY <1>1, <1>2, <1>3, <1>4, <1>6, <1>7 DEF IInv, NestingTyped, Fixed, Node
<1>11. NotYetNesting'
  BY <1>1 DEF NotYetNesting
<1>12. Waiting' /\ NearestOpenClause' /\ ReadingOrderKept'
  <2>1. /\ parent' \in [Node -> {0} \cup Node]
        /\ \A i \in Node : i # pos => parent'[i] = parent[i]
        /\ parent'[pos] = OpenClause
    BY <1>2, <1>3, <1>6 DEF IInv, NestingTyped
  <2> DEFINE open == {i \in Node : StillOpen(i, pos) /\ IsProperPrefix(label[i], label[pos])}
  <2>2. \A i \in open : i \in tops /\ Clause(i) /\ OpenAt(i, pos)
    <3> SUFFICES ASSUME NEW i \in open PROVE i \in tops /\ Clause(i) /\ OpenAt(i, pos)
      OBVIOUS
    <3>1. \A k \in tops : i < k /\ k < pos => k \in tops \cap ((i + 1) .. (pos - 1))
      BY <1>2 DEF IInv, NestingTyped, Node
    <3> QED BY <3>1 DEF StillOpen, OpenAt
  <2>3. \A i \in open : \E k \in 1 .. Len(stack) : stack[k] = i
    BY <2>2 DEF IInv, OpenIsOnStack
  <2>4. \A i \in open : i <= OpenClause /\ OpenClause # 0
    <3> SUFFICES ASSUME NEW i \in open PROVE i <= OpenClause /\ OpenClause # 0
      OBVIOUS
    <3>1. PICK k \in 1 .. Len(stack) : stack[k] = i
      BY <2>3
    <3>2. OpenClause # 0 /\ OpenClause = stack[Len(stack)] /\ Len(stack) \in 1 .. Len(stack)
      BY <1>4, <1>6
    <3>3. CASE k = Len(stack)
      BY <3>1, <3>2, <3>3, <1>6 DEF Node
    <3>4. CASE k # Len(stack)
      <4>1. stack[k] < stack[Len(stack)]
        BY <1>4, <3>2, <3>4 DEF IInv, StackAscends
      <4> QED BY <4>1, <3>1, <3>2, <1>4 DEF Node
    <3> QED BY <3>3, <3>4
  <2>5. OpenClause # 0 => OpenClause \in open
    <3> SUFFICES ASSUME OpenClause # 0 PROVE OpenClause \in open
      OBVIOUS
    <3>1. /\ OpenClause \in tops /\ OpenClause \in Node /\ OpenAt(OpenClause, pos)
          /\ Clause(OpenClause) /\ IsProperPrefix(label[OpenClause], label[pos])
      BY <1>4, <1>5, <1>6, <1>9 DEF IInv, StackIsOpen
    <3>2. \A k \in tops \cap ((OpenClause + 1) .. (pos - 1)) : OpenClause < k /\ k < pos
      BY <1>2, <3>1 DEF Node
    <3> QED BY <3>1, <3>2 DEF StillOpen, OpenAt
  <2>6. IF open = {} THEN parent'[pos] = 0
        ELSE parent'[pos] \in open /\ \A i \in open : i <= parent'[pos]
    BY <2>1, <2>4, <2>5
  <2>7. \A k \in tops : OpenClause < k /\ k < pos => OpenClause <= parent[k]
    <3>1. CASE OpenClause = 0
      BY <3>1 DEF IInv, NestingTyped, Node
    <3>2. CASE OpenClause # 0
      BY <3>2, <1>6 DEF IInv, SinceIsInside
    <3> QED BY <3>1, <3>2
  <2> QED BY <1>1, <1>2, <1>7, <2>1, <2>6, <2>7, EarlierEntries
<1>13. StackIsOpen'
  <2> SUFFICES ASSUME NEW k \in 1 .. Len(stack') PROVE OpenAt(stack'[k], pos + 1)
    BY <1>1 DEF StackIsOpen
  <2>1. CASE k = Len(stack) + 1
    BY <1>2, <1>4, <2>1 DEF OpenAt, IInv, NestingTyped, Node
  <2>2. CASE k # Len(stack) + 1
    <3>1. k \in 1 .. Len(stack) /\ stack'[k] = stack[k]
      BY <1>4, <2>2
    <3> QED BY <3>1, <1>2, <1>5, <1>9, OpenForwards DEF IInv, StackIsOpen
  <2> QED BY <2>1, <2>2
<1>14. StackAscends'
  BY <1>4, <1>5 DEF IInv, StackAscends
<1>15. OpenIsOnStack'
  <2> SUFFICES ASSUME NEW i \in tops, OpenAt(i, pos + 1)
               PROVE  \E k \in 1 .. Len(stack') : stack'[k] = i
    BY <1>1 DEF OpenIsOnStack, Fixed
  <2>1. CASE i = pos
    BY <1>4, <2>1
  <2>2. CASE i # pos
    <3>1. OpenAt(i, pos) /\ Clause(i) /\ IsProperPrefix(label[i], label[pos])
      BY <1>2, <2>2, OpenBackwards DEF IInv
    <3>2. PICK k \in 1 .. Len(stack) : stack[k] = i
      BY <3>1 DEF IInv, OpenIsOnStack
    <3> QED BY <3>2, <1>4
  <2> QED BY <2>1, <2>2
<1>16. SinceIsInside'
  <2> SUFFICES ASSUME NEW k \in 1 .. Len(stack'), NEW j \in tops,
                      stack'[k] < j, j < pos + 1
               PROVE  stack'[k] <= parent'[j]
    BY <1>1 DEF SinceIsInside, Fixed
  <2>1. j \in Node
    BY DEF IInv, NestingTyped
  <2>2. k # Len(stack) + 1
    BY <1>2, <1>4, <2>1 DEF Node
  <2>3. k \in 1 .. Len(stack) /\ stack'[k] = stack[k]
    BY <1>4, <2>2
  <2>4. CASE j = pos
    <3>1. parent'[j] = stack[Len(stack)] /\ Len(stack) \in 1 .. Len(stack)
      BY <1>2, <1>3, <1>4, <1>6, <2>3, <2>4 DEF IInv, NestingTyped
    <3> QED BY <3>1, <2>3, <1>4 DEF IInv, StackAscends, Node
  <2>5. CASE j # pos
    <3>1. j < pos /\ parent'[j] = parent[j]
      BY <1>2, <1>3, <2>1, <2>5 DEF IInv, NestingTyped, Node
    <3> QED BY <3>1, <2>3 DEF IInv, SinceIsInside
  <2> QED BY <2>4, <2>5
<1> QED BY <1>10, <1>11, <1>12, <1>13, <1>14, <1>15, <1>16 DEF IInv

\* An annex or excluded matter closes everything.
LEMMA PlacingBlock ==
  ASSUME IInv, PlaceBlock
  PROVE  IInv'
<1> USE FixedKeepsMeaning
<1>1. Fixed /\ pos' = pos + 1 /\ pass = "nest" /\ pass' = "nest" /\ parent' = parent
  BY DEF PlaceBlock, Advance, Placing, Fixed
<1>2. pos \in tops /\ pos \in Node /\ StartsBlock(pos) /\ ~Clause(pos)
  BY DEF PlaceBlock, Placing, IInv, NestingTyped, StartsBlock
<1>3. stack' = IF label[pos] = Annex THEN <<pos>> ELSE <<>>
  BY DEF PlaceBlock
<1>4. /\ stack' \in Seq(Node)
      /\ \A k \in 1 .. Len(stack') : k = 1 /\ stack'[k] = pos /\ label[pos] = Annex
      /\ label[pos] = Annex => Len(stack') = 1 /\ stack'[1] = pos
  BY <1>2, <1>3
<1>5. NestingTyped'
  BY <1>1, <1>2, <1>4 DEF IInv, NestingTyped, Fixed, Node
<1>6. NotYetNesting'
  BY <1>1 DEF NotYetNesting
<1>7. Waiting' /\ NearestOpenClause' /\ ReadingOrderKept'
  <2>1. parent[pos] = 0 /\ 0 < pos
    BY <1>2 DEF IInv, Waiting, NestingTyped, Node
  <2>2. \A k \in tops : 0 <= parent[k]
    BY DEF IInv, NestingTyped, Node
  <2>3. parent' \in [Node -> {0} \cup Node]
    BY <1>1 DEF IInv, NestingTyped
  <2> QED BY <1>1, <1>2, <2>1, <2>2, <2>3, EarlierEntries
<1>8. StackIsOpen'
  <2>1. OpenAt(pos, pos + 1) \/ label[pos] # Annex
    BY <1>2 DEF OpenAt, IInv, NestingTyped, Node
  <2> QED BY <1>1, <1>4, <2>1 DEF StackIsOpen
<1>9. StackAscends' /\ SinceIsInside'
  <2>1. \A j \in tops : ~(pos < j /\ j < pos + 1)
    BY <1>2 DEF IInv, NestingTyped, Node
  <2> QED BY <1>1, <1>4, <2>1 DEF StackAscends, SinceIsInside, Fixed
<1>10. OpenIsOnStack'
  <2> SUFFICES ASSUME NEW i \in tops, OpenAt(i, pos + 1)
               PROVE  \E k \in 1 .. Len(stack') : stack'[k] = i
    BY <1>1 DEF OpenIsOnStack, Fixed
  <2>1. i = pos
    BY <1>2, OpenBackwards DEF IInv
  <2>2. label[pos] = Annex
    BY <1>2, <2>1 DEF OpenAt
  <2> QED BY <1>4, <2>1, <2>2
<1> QED BY <1>5, <1>6, <1>7, <1>8, <1>9, <1>10 DEF IInv

\* A loose entry goes under the open clause, and a node inside an entry is not
\* looked at: the stack stays.
LEMMA PassingBy ==
  ASSUME IInv, PlaceLoose \/ SkipInner
  PROVE  IInv'
<1> USE FixedKeepsMeaning
<1>1. /\ Fixed /\ pos' = pos + 1 /\ pass = "nest" /\ pass' = "nest" /\ stack' = stack
      /\ pos \in Node
  BY DEF PlaceLoose, SkipInner, Advance, Placing, Fixed, IInv, NestingTyped
<1>2. pos \in tops => ~Clause(pos) /\ ~StartsBlock(pos)
  BY DEF PlaceLoose, SkipInner
<1>3. /\ OpenClause \in {0} \cup Node
      /\ OpenClause = 0 <=> Len(stack) = 0
      /\ OpenClause # 0 => Len(stack) \in 1 .. Len(stack) /\ OpenClause = stack[Len(stack)]
  BY OpenClauseIsLast DEF IInv
<1>4. \A k \in 1 .. Len(stack) : stack[k] \in tops /\ stack[k] < pos /\ stack[k] \in Node
  BY DEF IInv, StackIsOpen, OpenAt, NestingTyped
<1>5. /\ parent' \in [Node -> {0} \cup Node]
      /\ \A i \in Node : i # pos => parent'[i] = parent[i]
      /\ parent'[pos] < pos
      /\ pos \in tops => parent'[pos] = OpenClause
  <2>1. CASE PlaceLoose
    <3>1. parent' = [parent EXCEPT ![pos] = OpenClause]
      BY <2>1 DEF PlaceLoose
    <3>2. OpenClause < pos
      BY <1>1, <1>3, <1>4 DEF Node
    <3> QED BY <1>1, <1>3, <3>1, <3>2 DEF IInv, NestingTyped
  <2>2. CASE SkipInner
    BY <1>1, <2>2 DEF SkipInner, IInv, NestingTyped
  <2> QED BY <2>1, <2>2
<1>6. NestingTyped'
  BY <1>1, <1>5 DEF IInv, NestingTyped, Fixed, Node
<1>7. NotYetNesting'
  BY <1>1 DEF NotYetNesting
<1>8. Waiting' /\ NearestOpenClause' /\ ReadingOrderKept'
  <2>1. \A k \in tops : OpenClause < k /\ k < pos => OpenClause <= parent[k]
    <3>1. CASE OpenClause = 0
      BY <3>1 DEF IInv, NestingTyped, Node
    <3>2. CASE OpenClause # 0
      BY <3>2, <1>3 DEF IInv, SinceIsInside
    <3> QED BY <3>1, <3>2
  <2> QED BY <1>1, <1>2, <1>5, <2>1, EarlierEntries
<1>9. StackIsOpen' /\ StackAscends'
  <2>1. \A k \in 1 .. Len(stack) : OpenAt(stack[k], pos + 1)
    BY <1>1, <1>2, <1>4, OpenForwards DEF IInv, StackIsOpen
  <2> QED BY <1>1, <2>1 DEF IInv, StackIsOpen, StackAscends
<1>10. OpenIsOnStack'
  <2> SUFFICES ASSUME NEW i \in tops, OpenAt(i, pos + 1)
               PROVE  \E k \in 1 .. Len(stack) : stack[k] = i
    BY <1>1 DEF OpenIsOnStack, Fixed
  <2>1. i # pos
    BY <1>2 DEF OpenAt
  <2>2. OpenAt(i, pos)
    BY <1>1, <2>1, OpenBackwards DEF IInv
  <2> QED BY <1>2, <2>2 DEF IInv, OpenIsOnStack
<1>11. SinceIsInside'
  <2> SUFFICES ASSUME NEW k \in 1 .. Len(stack), NEW j \in tops, stack[k] < j, j < pos + 1
               PROVE  stack[k] <= parent'[j]
    BY <1>1 DEF SinceIsInside, Fixed
  <2>1. j \in Node
    BY DEF IInv, NestingTyped
  <2>2. CASE j = pos
    <3>1. parent'[j] = stack[Len(stack)] /\ Len(stack) \in 1 .. Len(stack)
      BY <1>3, <1>5, <2>2 DEF IInv, NestingTyped
    <3> QED BY <3>1, <1>4 DEF IInv, StackAscends, Node
  <2>3. CASE j # pos
    <3>1. j < pos /\ parent'[j] = parent[j]
      BY <1>1, <1>5, <2>1, <2>3 DEF Node
    <3> QED BY <3>1 DEF IInv, SinceIsInside
  <2> QED BY <2>2, <2>3
<1> QED BY <1>6, <1>7, <1>8, <1>9, <1>10, <1>11 DEF IInv

LEMMA Assembling ==
  ASSUME IInv, Assembled \/ UNCHANGED vars
  PROVE  IInv'
<1> USE FixedKeepsMeaning
<1>1. /\ Fixed /\ UNCHANGED <<parent, pos, stack>>
      /\ pass' = pass \/ (pass = "nest" /\ pass' = "done")
  BY DEF Assembled, Fixed, vars
<1>2. NestingTyped' /\ NotYetNesting'
  BY <1>1 DEF IInv, NestingTyped, NotYetNesting, Fixed
<1>3. Waiting' /\ NearestOpenClause' /\ ReadingOrderKept'
  BY <1>1 DEF IInv, Waiting, NearestOpenClause, ReadingOrderKept, Fixed, IsProperPrefix
<1>4. StackIsOpen' /\ StackAscends' /\ SinceIsInside'
  BY <1>1 DEF IInv, StackIsOpen, StackAscends, SinceIsInside, Fixed
<1>5. OpenIsOnStack'
  BY <1>1 DEF IInv, OpenIsOnStack, Fixed, IsProperPrefix
<1> QED BY <1>2, <1>3, <1>4, <1>5 DEF IInv

---------------------------------------------------------------------------
\* The inductive invariant: nest_by_clause's stack holds the open clauses.
THEOREM NestingInvariant == Spec => []IInv
<1>1. IInv /\ [Next]_vars => IInv'
  <2> SUFFICES ASSUME IInv, [Next]_vars PROVE IInv'
    OBVIOUS
  <2>1. CASE merge_split_clause_numbers \/ assign_clause_ids \/ classify_document
    BY <2>1, BeforeNesting
  <2>2. CASE hoist_misnested_clauses
    BY <2>2, Hoisting
  <2>3. CASE Pop
    BY <2>3, Popping
  <2>4. CASE PlaceClause
    BY <2>4, PlacingClause
  <2>5. CASE PlaceBlock
    BY <2>5, PlacingBlock
  <2>6. CASE PlaceLoose \/ SkipInner
    BY <2>6, PassingBy
  <2>7. CASE Assembled \/ UNCHANGED vars
    BY <2>7, Assembling
  <2> QED BY <2>1, <2>2, <2>3, <2>4, <2>5, <2>6, <2>7 DEF Next, nest_by_clause
<1> QED BY <1>1, InitHolds, PTL DEF Spec

\* A numbered entry of a document of any length is under the nearest clause still
\* open, or at top level if none is.
THEOREM ParentIsNearestOpen == Spec => []NearestOpenClause
<1>1. IInv => NearestOpenClause
  BY DEF IInv
<1> QED BY <1>1, NestingInvariant, PTL

\* Read depth first, the tree is the list nest_by_clause was given.
THEOREM OrderSurvives == Spec => []ReadingOrderKept
<1>1. IInv => ReadingOrderKept
  BY DEF IInv
<1> QED BY <1>1, NestingInvariant, PTL

---------------------------------------------------------------------------
\* Recursion down the forest.  A set of natural numbers has a least member.
LEMMA Least ==
  ASSUME NEW S, S \subseteq Nat, S # {}
  PROVE  \E m \in S : \A n \in S : m <= n
<1> DEFINE R == {ss \in Nat \X Nat : ss[1] < ss[2]}
<1>1. IsWellFoundedOn(R, Nat)
  BY NatLessThanWellFounded DEF OpToRel
<1>2. \A m, n \in Nat : n < m => <<n, m>> \in R
  OBVIOUS
<1> HIDE DEF R
<1>3. PICK m \in S : \A n \in S : <<n, m>> \notin R
  BY <1>1, WFMin
<1>4. ASSUME NEW n \in S PROVE m <= n
  <2>1. n \in Nat /\ m \in Nat
    OBVIOUS
  <2>2. ~(n < m)
    BY <1>2, <1>3, <2>1
  <2> QED BY <2>1, <2>2
<1> QED BY <1>4

\* A function may be defined at each node from its value at the parent.
Inherits(g, forest, base, step) ==
  \A i \in Node : g[i] = IF forest[i] = 0 THEN base[i] ELSE step[i][g[forest[i]]]
Descending(forest) == forest \in [Node -> Nat] /\ \A i \in Node : forest[i] < i

LEMMA ForestRecursion ==
  ASSUME NEW V, NEW forest, Descending(forest),
         NEW base \in [Node -> V], NEW step \in [Node -> [V -> V]]
  PROVE  \E g \in [Node -> V] : Inherits(g, forest, base, step)
<1> USE TreeAssumption DEF Descending
<1> DEFINE Value(g, i) == IF forest[i] = 0 THEN base[i] ELSE step[i][g[forest[i]]]
           UpTo(k) == \E g \in [1 .. k -> V] : \A i \in 1 .. k : g[i] = Value(g, i)
           Bad == {k \in 0 .. N : ~UpTo(k)}
<1>1. UpTo(0)
  <2> DEFINE g == [i \in 1 .. 0 |-> base[i]]
  <2>1. \A i \in 1 .. 0 : FALSE
    OBVIOUS
  <2>2. g \in [1 .. 0 -> V] /\ \A i \in 1 .. 0 : g[i] = Value(g, i)
    BY <2>1
  <2> HIDE DEF g, Value
  <2> QED BY <2>2
<1>2. ASSUME NEW k \in 1 .. N, UpTo(k - 1) PROVE UpTo(k)
  <2>1. PICK g \in [1 .. k - 1 -> V] : \A i \in 1 .. k - 1 : g[i] = Value(g, i)
    BY <1>2
  <2>2. ASSUME NEW i \in 1 .. k PROVE /\ i \in Node /\ forest[i] \in Nat
                                      /\ forest[i] # 0 => forest[i] \in 1 .. k - 1
    BY DEF Node
  <2>3. ASSUME NEW i \in 1 .. k PROVE Value(g, i) \in V
    <3>1. CASE forest[i] = 0
      BY <2>2, <3>1
    <3>2. CASE forest[i] # 0
      BY <2>2, <3>2
    <3> QED BY <3>1, <3>2
  <2> HIDE DEF Value
  <2> DEFINE h == [i \in 1 .. k |-> Value(g, i)]
  <2>4. h \in [1 .. k -> V]
    BY <2>3
  <2>5. \A i \in 1 .. k : h[i] = Value(g, i)
    OBVIOUS
  <2> HIDE DEF h
  <2>6. ASSUME NEW i \in 1 .. k PROVE Value(h, i) = Value(g, i)
    <3>1. forest[i] # 0 => forest[i] \in 1 .. k - 1 /\ forest[i] \in 1 .. k
      BY <2>2
    <3>2. forest[i] # 0 => h[forest[i]] = g[forest[i]]
      BY <2>1, <2>5, <3>1
    <3> QED BY <3>2 DEF Value
  <2>7. \A i \in 1 .. k : h[i] = Value(h, i)
    BY <2>5, <2>6
  <2> QED BY <2>4, <2>7
<1>3. Bad = {}
  <2> SUFFICES ASSUME Bad # {} PROVE FALSE
    OBVIOUS
  <2>1. Bad \subseteq Nat
    OBVIOUS
  <2> HIDE DEF Bad
  <2>2. PICK m \in Bad : \A n \in Bad : m <= n
    BY <2>1, Least
  <2> USE DEF Bad
  <2> HIDE DEF UpTo
  <2>3. m \in 0 .. N /\ m # 0
    BY <1>1
  <2>4. m - 1 \in 0 .. N /\ m - 1 \notin Bad
    <3> HIDE DEF Bad
    <3> QED BY <2>2, <2>3
  <2> QED BY <1>2, <2>3, <2>4
<1>4. UpTo(N)
  <2>1. N \in 0 .. N
    OBVIOUS
  <2> HIDE DEF UpTo
  <2> QED BY <1>3, <2>1
<1> QED BY <1>4 DEF Node, Inherits

\* AncestorsIn is what its recursive definition says.
LEMMA AncestorsUnfold ==
  ASSUME NEW forest, Descending(forest)
  PROVE  \A i \in Node :
           AncestorsIn(forest)[i] =
             IF forest[i] = 0 THEN {} ELSE {forest[i]} \cup AncestorsIn(forest)[forest[i]]
<1> DEFINE Up(g, i) == IF forest[i] = 0 THEN {} ELSE {forest[i]} \cup g[forest[i]]
           base == [i \in Node |-> {}]
           step == [i \in Node |-> [v \in SUBSET Nat |-> {forest[i]} \cup v]]
<1>1. AncestorsIn(forest) = CHOOSE g : g = [i \in Node |-> Up(g, i)]
  BY DEF AncestorsIn
<1>2. \E g : g = [i \in Node |-> Up(g, i)]
  <2> DEFINE V == SUBSET Nat
  <2>1. base \in [Node -> V] /\ step \in [Node -> [V -> V]]
    BY DEF Descending
  <2> HIDE DEF base, step, V
  <2>2. PICK g \in [Node -> V] : Inherits(g, forest, base, step)
    BY <2>1, ForestRecursion
  <2> USE DEF base, step, V, Inherits, Descending
  <2>3. ASSUME NEW i \in Node PROVE g[i] = Up(g, i)
    <3>1. forest[i] # 0 => forest[i] \in Node
      BY TreeAssumption DEF Node
    <3>2. CASE forest[i] = 0
      BY <2>2, <3>2
    <3>3. CASE forest[i] # 0
      <4>1. g[forest[i]] \in SUBSET Nat /\ g[i] = step[i][g[forest[i]]]
        BY <2>2, <3>1, <3>3
      <4> QED BY <3>3, <4>1
    <3> QED BY <3>2, <3>3
  <2> HIDE DEF Up
  <2>4. g = [i \in Node |-> g[i]]
    OBVIOUS
  <2>5. g = [i \in Node |-> Up(g, i)]
    BY <2>3, <2>4
  <2> QED BY <2>5
<1> HIDE DEF Up
<1>3. AncestorsIn(forest) = [i \in Node |-> Up(AncestorsIn(forest), i)]
  BY <1>1, <1>2
<1>4. \A i \in Node : AncestorsIn(forest)[i] = Up(AncestorsIn(forest), i)
  <2> DEFINE e(i) == Up(AncestorsIn(forest), i)
  <2>1. AncestorsIn(forest) = [i \in Node |-> e(i)]
    BY <1>3
  <2> HIDE DEF e
  <2>2. \A i \in Node : AncestorsIn(forest)[i] = e(i)
    BY <2>1
  <2> QED BY <2>2 DEF e
<1> QED BY <1>4 DEF Up

\* Ancestors come before their descendants.
LEMMA AncestorsAreBefore ==
  ASSUME NEW forest, Descending(forest)
  PROVE  \A i \in Node : \A a \in AncestorsIn(forest)[i] : a \in Node /\ a < i
<1>0. \A i \in Node :
        AncestorsIn(forest)[i] =
          IF forest[i] = 0 THEN {} ELSE {forest[i]} \cup AncestorsIn(forest)[forest[i]]
  BY AncestorsUnfold
<1> USE TreeAssumption DEF Node
<1> DEFINE Good(i) == \A a \in AncestorsIn(forest)[i] : a \in Node /\ a < i
           Bad == {i \in Node : ~Good(i)}
<1> SUFFICES ASSUME Bad # {} PROVE FALSE
  OBVIOUS
<1>1. Bad \subseteq Nat
  OBVIOUS
<1> HIDE DEF Bad
<1>2. PICK i \in Bad : \A j \in Bad : i <= j
  BY <1>1, Least
<1>3. i \in Node /\ ~Good(i)
  BY DEF Bad
<1>4. PICK a \in AncestorsIn(forest)[i] : ~(a \in Node /\ a < i)
  BY <1>3
<1>5. /\ forest[i] \in Node /\ forest[i] < i
      /\ a = forest[i] \/ a \in AncestorsIn(forest)[forest[i]]
  <2>1. AncestorsIn(forest)[i] =
          IF forest[i] = 0 THEN {} ELSE {forest[i]} \cup AncestorsIn(forest)[forest[i]]
    BY <1>0, <1>3
  <2>2. forest[i] # 0 /\ (a = forest[i] \/ a \in AncestorsIn(forest)[forest[i]])
    BY <1>4, <2>1
  <2>3. forest[i] \in Nat /\ forest[i] < i
    BY <1>3 DEF Descending
  <2> QED BY <1>3, <2>2, <2>3
<1>6. Good(forest[i])
  <2> HIDE DEF Good
  <2>1. forest[i] \notin Bad
    BY <1>2, <1>3, <1>5
  <2> QED BY <1>5, <2>1 DEF Bad
<1> QED BY <1>3, <1>4, <1>5, <1>6

\* ClauseContext gives a number its own node, and to any other node that of its
\* parent.
LEMMA ContextUnfold ==
  ASSUME Descending(parent)
  PROVE  \A i \in Node :
           /\ Clause(i) => ClauseContext[i] = label[i]
           /\ ~Clause(i) /\ parent[i] # 0 => ClauseContext[i] = ClauseContext[parent[i]]
<1> DEFINE numbered(i) == {j \in TopLevel : j < i /\ Clause(j)}
           running(i) == IF numbered(i) = {} THEN NoLabel
                         ELSE label[CHOOSE j \in numbered(i) : \A k \in numbered(i) : k <= j]
           Value(g, i) == IF Clause(i) THEN label[i]
                          ELSE IF parent[i] = 0 THEN running(i) ELSE g[parent[i]]
           V == {label[i] : i \in Node} \cup {running(i) : i \in Node}
           forest == [i \in Node |-> IF Clause(i) THEN 0 ELSE parent[i]]
           base == [i \in Node |-> IF Clause(i) THEN label[i] ELSE running(i)]
           step == [i \in Node |-> [v \in V |-> v]]
<1>1. ClauseContext = CHOOSE g : g = [i \in Node |-> Value(g, i)]
  BY DEF ClauseContext
<1> HIDE DEF running
<1>2. \E g : g = [i \in Node |-> Value(g, i)]
  <2>1. base \in [Node -> V] /\ step \in [Node -> [V -> V]]
    OBVIOUS
  <2>2. Descending(forest)
    BY DEF Descending, Node
  <2> HIDE DEF base, step, V, forest
  <2>3. PICK g \in [Node -> V] : Inherits(g, forest, base, step)
    BY <2>1, <2>2, ForestRecursion
  <2>4. ASSUME NEW i \in Node PROVE g[i] = Value(g, i)
    <3>1. /\ forest[i] = IF Clause(i) THEN 0 ELSE parent[i]
          /\ base[i] = IF Clause(i) THEN label[i] ELSE running(i)
          /\ \A v \in V : step[i][v] = v
      BY DEF forest, base, step
    <3>2. g[i] = IF forest[i] = 0 THEN base[i] ELSE step[i][g[forest[i]]]
      BY <2>3 DEF Inherits
    <3>3. forest[i] # 0 => forest[i] \in Node
      BY <2>2, TreeAssumption DEF Descending, Node
    <3>4. forest[i] # 0 => step[i][g[forest[i]]] = g[forest[i]]
      BY <3>1, <3>3
    <3> QED BY <3>1, <3>2, <3>4
  <2> HIDE DEF Value
  <2>5. g = [i \in Node |-> g[i]]
    OBVIOUS
  <2>6. g = [i \in Node |-> Value(g, i)]
    BY <2>4, <2>5
  <2> QED BY <2>6
<1> HIDE DEF Value
<1>3. ClauseContext = [i \in Node |-> Value(ClauseContext, i)]
  BY <1>1, <1>2
<1>4. \A i \in Node : ClauseContext[i] = Value(ClauseContext, i)
  <2> DEFINE e(i) == Value(ClauseContext, i)
  <2>1. ClauseContext = [i \in Node |-> e(i)]
    BY <1>3
  <2> HIDE DEF e
  <2>2. \A i \in Node : ClauseContext[i] = e(i)
    BY <2>1
  <2> QED BY <2>2 DEF e
<1> QED BY <1>4 DEF Value

---------------------------------------------------------------------------
\* What the passes hand to each other.
Passes == {"merge", "assign", "classify", "hoist", "nest", "done"}
TypedContents ==
  /\ pass \in Passes
  /\ doc \in [Node -> Content]
  /\ zone \in [Node -> {"front", "body", "back", "inner"}]
  /\ role \in [Node -> Role \cup {"normative"}]
  /\ review \subseteq Node

\* What is dropped is dropped with all below it, and only entries of the list
\* have no parent.
TreeShape ==
  /\ \A i \in Node : parent[i] \in dropped => i \in dropped
  /\ tops \cap dropped = {}
  /\ pass \in {"nest", "done"} => \A i \in Node \ (dropped \cup tops) : parent[i] # 0
  /\ pass = "done" => pos = N + 1

\* An entry was put under one that was open when its turn came.
ParentIsOpen == \A j \in tops : j < pos /\ parent[j] # 0 => OpenAt(parent[j], j)

\* ... and a loose one under the last that was.
LooseUnderLast ==
  \A j \in tops : j < pos /\ ~Clause(j) /\ ~StartsBlock(j) =>
    \A i \in tops : OpenAt(i, j) => i <= parent[j]

\* Inside the entries of the list, what hoisting judged the nodes by still holds.
InnerContext(context) ==
  /\ \A i \in Node : Clause(i) => context[i] = label[i]
  /\ \A i \in Node \ (dropped \cup tops) :
       IF Clause(i)
       THEN context[parent[i]] = NoLabel \/ IsProperPrefix(context[parent[i]], label[i])
       ELSE context[i] = context[parent[i]]
InnerFollowsNumbers == pass \in {"nest", "done"} => \E context : InnerContext(context)

\* The body starts with a chapter, and nothing but the body and what was hoisted
\* stands between the chapter and a section of the body.
StartsBodyOf(b, i) ==
  /\ b <= i /\ zone[b] = "body" /\ Clause(b) /\ Len(label[b]) = 1
  /\ \A k \in Node : b <= k /\ k <= i => zone[k] \in {"body", "inner"}
BodyIsNormative ==
  pass \in {"hoist", "nest", "done"} =>
    \A i \in Node :
      /\ zone[i] \in {"body", "inner"} => Relevant(i)
      /\ zone[i] = "body" => /\ i \notin dropped
                             /\ IF pass = "hoist" THEN parent[i] = 0 ELSE i \in tops
                             /\ \E b \in Node : StartsBodyOf(b, i)

TreeInv ==
  /\ TypedContents /\ TreeShape /\ ParentIsOpen /\ LooseUnderLast
  /\ InnerFollowsNumbers /\ BodyIsNormative

LEMMA TreeStarts == Init => TreeInv
<1> SUFFICES ASSUME Init PROVE TreeInv
  OBVIOUS
<1>1. TypedContents
  BY DEF Init, TypedContents, Passes
<1>2. TreeShape
  BY DEF Init, TreeShape
<1> QED
  BY <1>1, <1>2 DEF Init, TreeInv, ParentIsOpen, LooseUnderLast, InnerFollowsNumbers,
                         BodyIsNormative

\* A lone number goes with all below it.
LEMMA Merging ==
  ASSUME IInv, TreeInv, merge_split_clause_numbers
  PROVE  TreeInv'
<1>1. /\ pass' = "assign" /\ UNCHANGED <<doc, parent, zone, role, review, tops, pos>>
      /\ dropped' = {i \in Node : ({i} \cup AncestorsIn(parent)[i]) \cap SplitNumbers # {}}
      /\ tops = {}
  BY DEF merge_split_clause_numbers, IInv, NotYetNesting
<1>2. TypedContents'
  BY <1>1 DEF TreeInv, TypedContents, Passes
<1>3. Descending(parent)
  BY DEF IInv, NestingTyped, Descending, Node
<1>4. \A i \in Node : AncestorsIn(parent)[i] =
        IF parent[i] = 0 THEN {} ELSE {parent[i]} \cup AncestorsIn(parent)[parent[i]]
  BY <1>3, AncestorsUnfold
<1>5. ASSUME NEW i \in Node, parent'[i] \in dropped' PROVE i \in dropped'
  <2>1. parent[i] \in Node /\ parent[i] # 0
    BY <1>1, <1>5, TreeAssumption DEF Node
  <2>2. ({parent[i]} \cup AncestorsIn(parent)[parent[i]]) \cap SplitNumbers # {}
    BY <1>1, <1>5
  <2>3. AncestorsIn(parent)[i] = {parent[i]} \cup AncestorsIn(parent)[parent[i]]
    BY <1>4, <2>1
  <2> QED BY <1>1, <2>2, <2>3
<1>6. TreeShape'
  BY <1>1, <1>5 DEF TreeShape
<1> QED
  BY <1>1, <1>2, <1>6 DEF TreeInv, ParentIsOpen, LooseUnderLast, InnerFollowsNumbers,
                    BodyIsNormative

LEMMA Assigning ==
  ASSUME IInv, TreeInv, assign_clause_ids
  PROVE  TreeInv'
<1>1. /\ pass' = "classify" /\ UNCHANGED <<doc, parent, dropped, zone, role, review, tops, pos>>
      /\ tops = {}
  BY DEF assign_clause_ids, IInv, NotYetNesting
<1>2. TypedContents' /\ TreeShape'
  BY <1>1 DEF TreeInv, TypedContents, TreeShape, Passes
<1> QED
  BY <1>1, <1>2 DEF TreeInv, ParentIsOpen, LooseUnderLast, InnerFollowsNumbers,
                    BodyIsNormative

\* Hoisting leaves inside an entry only what follows the numbering.
LEMMA HoistingKeepsTree ==
  ASSUME IInv, TreeInv, hoist_misnested_clauses
  PROVE  TreeInv'
<1>1. /\ pass = "hoist" /\ pass' = "nest" /\ pos' = 1
      /\ UNCHANGED <<doc, text, dropped, label, zone, role, review>>
      /\ parent' = [i \in Node |-> IF Misnested(i) THEN 0 ELSE parent[i]]
      /\ tops' = {i \in Node \ dropped : parent'[i] = 0}
  BY DEF hoist_misnested_clauses, IInv, NotYetNesting
<1>2. TypedContents'
  BY <1>1 DEF TreeInv, TypedContents, Passes
<1>3. TreeShape'
  BY <1>1, TreeAssumption DEF TreeInv, TreeShape, IInv, NestingTyped, Node
<1>4. ParentIsOpen' /\ LooseUnderLast'
  <2>1. \A j \in tops' : ~(j < pos')
    BY <1>1 DEF Node
  <2> QED BY <2>1 DEF ParentIsOpen, LooseUnderLast
<1>5. Descending(parent)
  BY DEF IInv, NestingTyped, Descending, Node
\* The judgement uses the tree before the pass.
<1>6. PICK context : context = ClauseContext
  OBVIOUS
<1>7. \A i \in Node : /\ Clause(i) => context[i] = label[i]
                      /\ ~Clause(i) /\ parent[i] # 0 => context[i] = context[parent[i]]
  BY <1>5, <1>6, ContextUnfold
<1>8. ASSUME NEW i \in Node \ (dropped \cup tops')
      PROVE  /\ parent'[i] = parent[i]
             /\ IF Clause(i)
                THEN context[parent[i]] = NoLabel \/ IsProperPrefix(context[parent[i]], label[i])
                ELSE context[i] = context[parent[i]]
  <2>1. parent'[i] # 0
    BY <1>1
  <2>2. ~Misnested(i) /\ parent'[i] = parent[i]
    BY <1>1, <2>1
  <2> QED BY <1>6, <1>7, <2>1, <2>2 DEF Misnested
<1>9. InnerFollowsNumbers'
  <2>1. label' = label /\ dropped' = dropped
    BY <1>1
  <2>2. \A i \in Node : Clause(i)' => context[i] = label'[i]
    BY <1>7, <2>1 DEF Clause
  <2>3. \A i \in Node \ (dropped' \cup tops') :
           IF Clause(i)'
           THEN context[parent'[i]] = NoLabel \/ IsProperPrefix(context[parent'[i]], label'[i])
           ELSE context[i] = context[parent'[i]]
    BY <1>8, <2>1 DEF Clause
  <2> QED BY <2>2, <2>3 DEF InnerFollowsNumbers, InnerContext, IsProperPrefix
<1>10. BodyIsNormative'
  <2>1. \A i, b : StartsBodyOf(b, i)' <=> StartsBodyOf(b, i)
    BY <1>1 DEF StartsBodyOf, Clause
  <2> QED BY <1>1, <2>1 DEF TreeInv, BodyIsNormative, Relevant
<1> QED BY <1>2, <1>3, <1>4, <1>9, <1>10 DEF TreeInv

\* What a step of nest_by_clause may do to the tree: put the entry it has come to
\* under the open clause.
NestingStep ==
  /\ Fixed
  /\ pass' = pass \/ (pass = "nest" /\ pass' = "done" /\ pos = N + 1)
  /\ \/ pos' = pos /\ parent' = parent
     \/ /\ pos' = pos + 1 /\ pos \in Node /\ pass = "nest" /\ pass' = pass
        /\ \/ parent' = parent
           \/ pos \in tops /\ parent' = [parent EXCEPT ![pos] = OpenClause]

LEMMA NestingSteps ==
  ASSUME IInv, nest_by_clause \/ UNCHANGED vars
  PROVE  NestingStep
<1> USE DEF NestingStep, Fixed, Advance, Placing
<1>1. pos \in tops => pos \in Node
  BY DEF IInv, NestingTyped
<1>2. CASE Pop
  BY <1>2 DEF Pop
<1>3. CASE PlaceClause
  BY <1>1, <1>3 DEF PlaceClause
<1>4. CASE PlaceBlock
  BY <1>1, <1>4 DEF PlaceBlock
<1>5. CASE PlaceLoose
  BY <1>1, <1>5 DEF PlaceLoose
<1>6. CASE SkipInner
  BY <1>6 DEF SkipInner
<1>7. CASE Assembled \/ UNCHANGED vars
  BY <1>7 DEF Assembled, vars
<1> QED BY <1>2, <1>3, <1>4, <1>5, <1>6, <1>7 DEF nest_by_clause

LEMMA LoosePlaced ==
  ASSUME IInv, nest_by_clause \/ UNCHANGED vars, pos' = pos + 1,
         pos \in tops, ~Clause(pos), ~StartsBlock(pos)
  PROVE  parent'[pos] = OpenClause
<1>1. pos \in Nat /\ parent \in [Node -> {0} \cup Node] /\ pos \in Node
  BY DEF IInv, NestingTyped, Node
<1>2. PlaceLoose
  BY <1>1 DEF nest_by_clause, Pop, PlaceClause, PlaceBlock, SkipInner, Assembled, vars
<1> QED BY <1>1, <1>2 DEF PlaceLoose

LEMMA NestingKeepsTree ==
  ASSUME IInv, TreeInv, nest_by_clause \/ UNCHANGED vars
  PROVE  TreeInv'
<1> USE FixedKeepsMeaning
<1>1. NestingStep /\ Fixed
  BY NestingSteps DEF NestingStep
<1>2. TypedContents'
  BY <1>1 DEF NestingStep, Fixed, TreeInv, TypedContents, Passes
<1>3. /\ OpenClause \in {0} \cup tops
      /\ OpenClause # 0 => OpenAt(OpenClause, pos)
  BY OpenClauseIsLast DEF IInv, StackIsOpen, OpenAt
<1>4. /\ tops \subseteq Node /\ dropped \subseteq Node /\ 0 \notin Node
      /\ parent \in [Node -> {0} \cup Node] /\ pos \in Nat
  BY DEF IInv, NestingTyped, Node
<1>5. /\ \A i \in Node : i # pos \/ i \notin tops => parent'[i] = parent[i]
      /\ pos \in tops => parent'[pos] \in {parent[pos], OpenClause}
  BY <1>1, <1>4 DEF NestingStep
<1>6. TreeShape'
  <2>1. \A i \in Node : parent'[i] \in dropped => i \in dropped
    BY <1>3, <1>4, <1>5 DEF TreeInv, TreeShape
  <2>2. pass' \in {"nest", "done"} => \A i \in Node \ (dropped \cup tops) : parent'[i] # 0
    BY <1>1, <1>5 DEF NestingStep, TreeInv, TreeShape
  <2>3. pass' = "done" => pos' = N + 1
    BY <1>1 DEF NestingStep, TreeInv, TreeShape
  <2> QED BY <1>1, <2>1, <2>2, <2>3 DEF Fixed, TreeInv, TreeShape
<1>7. ParentIsOpen'
  <2> SUFFICES ASSUME NEW j \in tops, j < pos', parent'[j] # 0
               PROVE  OpenAt(parent'[j], j)
    BY <1>1 DEF ParentIsOpen, Fixed
  <2>1. CASE j < pos
    BY <1>4, <1>5, <2>1 DEF TreeInv, ParentIsOpen, Node
  <2>2. CASE ~(j < pos)
    <3>1. j = pos /\ parent[pos] = 0
      BY <1>1, <1>4, <2>2 DEF NestingStep, IInv, Waiting, Node
    <3> QED BY <1>3, <1>5, <3>1
  <2> QED BY <2>1, <2>2
<1>8. InnerFollowsNumbers'
  <2> SUFFICES ASSUME pass \in {"nest", "done"} PROVE \E context : InnerContext(context)'
    BY <1>1 DEF NestingStep, InnerFollowsNumbers
  <2>1. PICK context : InnerContext(context)
    BY DEF TreeInv, InnerFollowsNumbers
  <2>2. InnerContext(context)'
    BY <1>1, <1>5, <2>1 DEF InnerContext, Fixed, IsProperPrefix
  <2> QED BY <2>2
<1>9. BodyIsNormative'
  <2>1. \A i, b : StartsBodyOf(b, i)' <=> StartsBodyOf(b, i)
    BY <1>1 DEF StartsBodyOf, Fixed
  <2>2. pass' = "hoist" => pass = "hoist" /\ parent' = parent
    BY <1>1 DEF NestingStep
  <2>3. /\ pass' \in {"hoist", "nest", "done"} => pass \in {"hoist", "nest", "done"}
        /\ pass' # "hoist" /\ pass = "hoist" => FALSE
    BY <1>1 DEF NestingStep
  <2> QED BY <1>1, <2>1, <2>2, <2>3 DEF TreeInv, BodyIsNormative, Relevant, Fixed
\* The stack ascends, and its last element is the open clause.
<1>10. LooseUnderLast'
  <2> SUFFICES ASSUME NEW j \in tops, j < pos', ~Clause(j), ~StartsBlock(j),
                      NEW i \in tops, OpenAt(i, j)
               PROVE  i <= parent'[j]
    BY <1>1 DEF LooseUnderLast, Fixed
  <2>1. CASE j < pos
    BY <1>4, <1>5, <2>1 DEF TreeInv, LooseUnderLast, Node
  <2>2. CASE ~(j < pos)
    <3>1. j = pos /\ pos' = pos + 1
      BY <1>1, <1>4, <2>2 DEF NestingStep, Node
    <3>2. parent'[pos] = OpenClause
      BY <3>1, NestingSteps, LoosePlaced
    <3>3. PICK k \in 1 .. Len(stack) : stack[k] = i
      BY <3>1 DEF IInv, OpenIsOnStack
    <3>4. /\ Len(stack) \in Nat /\ Len(stack) \in 1 .. Len(stack)
          /\ \A m \in 1 .. Len(stack) : stack[m] \in Nat
          /\ OpenClause = stack[Len(stack)]
      BY <3>3, OpenClauseIsLast DEF IInv, NestingTyped, Node
    <3>5. k = Len(stack) \/ stack[k] < stack[Len(stack)]
      BY <3>4 DEF IInv, StackAscends
    <3> QED BY <3>1, <3>2, <3>3, <3>4, <3>5
  <2> QED BY <2>1, <2>2
<1> QED BY <1>2, <1>6, <1>7, <1>8, <1>9, <1>10 DEF TreeInv

---------------------------------------------------------------------------
\* The classification of section roles.

\* Of finitely many scores there is a first best one.
LEMMA FirstBest ==
  ASSUME NEW n \in Nat, n # 0, NEW f \in [1 .. n -> Int]
  PROVE  \E i \in 1 .. n : /\ \A j \in 1 .. n : f[j] <= f[i]
                           /\ \A j \in 1 .. (i - 1) : f[j] < f[i]
<1> DEFINE Best(k, i) == /\ \A j \in 1 .. k : f[j] <= f[i]
                         /\ \A j \in 1 .. (i - 1) : f[j] < f[i]
           Bad == {k \in 1 .. n : ~\E i \in 1 .. k : Best(k, i)}
<1>1. Best(1, 1)
  OBVIOUS
<1>2. ASSUME NEW k \in 1 .. n, k # n, NEW i \in 1 .. k, Best(k, i)
      PROVE  Best(k + 1, k + 1) \/ Best(k + 1, i)
  <2>1. \A j \in 1 .. k + 1 : j = k + 1 \/ j \in 1 .. k
    OBVIOUS
  <2>2. CASE f[k + 1] > f[i]
    BY <1>2, <2>1, <2>2
  <2>3. CASE ~(f[k + 1] > f[i])
    BY <1>2, <2>1, <2>3
  <2> QED BY <2>2, <2>3
<1>3. Bad = {}
  <2> HIDE DEF Best
  <2> SUFFICES ASSUME Bad # {} PROVE FALSE
    OBVIOUS
  <2>1. Bad \subseteq Nat
    OBVIOUS
  <2> HIDE DEF Bad
  <2>2. PICK m \in Bad : \A k \in Bad : m <= k
    BY <2>1, Least
  <2>3. m \in 1 .. n /\ ~\E i \in 1 .. m : Best(m, i)
    BY DEF Bad
  <2>4. m # 1
    BY <1>1, <2>3
  <2>5. m - 1 \in 1 .. n /\ m - 1 \notin Bad /\ m - 1 # n
    BY <2>2, <2>3, <2>4
  <2>6. PICK i \in 1 .. m - 1 : Best(m - 1, i)
    BY <2>5 DEF Bad
  <2>7. Best(m, m) \/ Best(m, i)
    BY <1>2, <2>3, <2>5, <2>6
  <2> QED BY <2>3, <2>6, <2>7
<1>4. n \in 1 .. n
  OBVIOUS
<1>5. n \notin Bad
  <2> HIDE DEF Bad
  <2> QED BY <1>3
<1> QED BY <1>4, <1>5

\* The role of a section is one of the dictionary's, or normative.
LEMMA RoleOfASection ==
  ASSUME NEW s \in Content, NEW z, NEW first \in BOOLEAN
  PROVE  classify_section(s, z, first).role \in Role \cup {"normative"}
<1> DEFINE candidates == Candidates(s, z, first)
           score == [i \in DOMAIN candidates |-> Score(s, candidates[i])]
           n == IF z = "front" THEN 6 ELSE 1
<1>1. /\ DOMAIN candidates = 1 .. n
      /\ \A i \in 1 .. n : candidates[i][1] \in Role /\ candidates[i][2] \in Int
  <2>1. {s.toc, s.captions, s.index} \subseteq Int /\ looks_like_title_page(s, first) \in Int
    BY TreeAssumption DEF looks_like_title_page
  <2>2. CASE z = "front"
    BY <2>1, <2>2 DEF Candidates, Role, THRESHOLDS
  <2>3. CASE z # "front"
    BY <2>1, <2>3 DEF Candidates, Role, THRESHOLDS
  <2> QED BY <2>2, <2>3
<1>2. \A r \in Role : THRESHOLDS[r].shape \in Int
  BY DEF Role, THRESHOLDS
<1>3. ASSUME NEW i \in 1 .. n PROVE Score(s, candidates[i]) \in Int
  <2> DEFINE c == candidates[i]
             weight == THRESHOLDS[c[1]].shape
  <2>1. weight \in Int /\ c[2] \in Int
    BY <1>1, <1>2
  <2> HIDE DEF weight, candidates
  <2>2. /\ weight * c[2] \in Int
        /\ (IF c[1] \in s.names THEN 100 * (10 - weight) ELSE 0) \in Int
    BY <2>1
  <2>3. weight * c[2] + (IF c[1] \in s.names THEN 100 * (10 - weight) ELSE 0) \in Int
    BY <2>2
  <2> QED BY <2>3 DEF Score, weight
<1> HIDE DEF candidates
<1>4. \E i \in 1 .. n : /\ \A j \in 1 .. n : score[j] <= score[i]
                        /\ \A j \in 1 .. (i - 1) : score[j] < score[i]
  <2>1. score \in [1 .. n -> Int] /\ n \in Nat /\ n # 0
    BY <1>1, <1>3
  <2> HIDE DEF score, n
  <2> QED BY <2>1, FirstBest
<1>5. \E i \in DOMAIN candidates :
         /\ \A j \in DOMAIN candidates : Score(s, candidates[j]) <= Score(s, candidates[i])
         /\ \A j \in 1 .. (i - 1) : Score(s, candidates[j]) < Score(s, candidates[i])
  <2>1. PICK i \in 1 .. n : /\ \A j \in 1 .. n : score[j] <= score[i]
                            /\ \A j \in 1 .. (i - 1) : score[j] < score[i]
    BY <1>4
  <2>2. i \in Nat /\ n \in Nat /\ i <= n
    OBVIOUS
  <2>3. \A j \in 1 .. (i - 1) : j \in 1 .. n
    BY <2>2
  <2> HIDE DEF n
  <2> QED BY <1>1, <2>1, <2>3
<1>6. BestCandidate(s, z, first).role \in Role
  <2> DEFINE best == CHOOSE i \in DOMAIN candidates :
                /\ \A j \in DOMAIN candidates :
                     Score(s, candidates[j]) <= Score(s, candidates[i])
                /\ \A j \in 1 .. (i - 1) : Score(s, candidates[j]) < Score(s, candidates[i])
  <2>1. best \in DOMAIN candidates
    BY <1>5
  <2>2. candidates[best][1] \in Role
    BY <1>1, <2>1
  <2>3. BestCandidate(s, z, first) = [role |-> candidates[best][1], score |-> Score(s, candidates[best])]
    BY DEF BestCandidate, candidates
  <2> HIDE DEF best
  <2> QED BY <2>2, <2>3
<1> QED BY <1>6 DEF classify_section

\* The zones are in order, and the body starts with a chapter.
LEMMA ZonesInOrder ==
  ASSUME NEW labels \in Seq(Label), NEW indexes \in Seq(Nat), Len(labels) = Len(indexes),
         NEW zones, zones = Zones(labels, indexes)
  PROVE  /\ zones \in [1 .. Len(labels) -> {"front", "body", "back"}]
         /\ \A i \in 1 .. Len(labels) : zones[i] = "body" =>
              \E b \in 1 .. i : /\ TOP_LEVEL_CLAUSE(labels[b])
                                /\ \A k \in b .. i : zones[k] = "body"
<1> DEFINE n == Len(labels)
           body == find_body_start_index(labels)
           back == find_back_zone_start(indexes)
           starts == {i \in 1 .. n : TOP_LEVEL_CLAUSE(labels[i])}
<1>1. n \in Nat /\ DOMAIN labels = 1 .. n /\ DOMAIN indexes = 1 .. n
  OBVIOUS
<1>2. zones = [i \in 1 .. n |-> IF i < body THEN "front" ELSE IF i >= back THEN "back" ELSE "body"]
  BY <1>1 DEF Zones
<1>3. back \in Nat
  <2> DEFINE HighFrom(i) == \A j \in i .. n : indexes[j] >= 50
             tails == {i \in 1 .. (n + 1) : HighFrom(i)}
  <2>1. n + 1 \in tails
    BY <1>1
  <2>2. tails \subseteq Nat
    OBVIOUS
  <2> HIDE DEF tails
  <2>3. PICK m \in tails : \A k \in tails : m <= k
    BY <2>1, <2>2, Least
  <2>4. m \in 1 .. (n + 1) /\ HighFrom(m)
    BY DEF tails
  <2>5. m = 1 \/ indexes[m - 1] < 50
    <3> SUFFICES ASSUME m # 1, ~(indexes[m - 1] < 50) PROVE FALSE
      OBVIOUS
    <3>1. m - 1 \in 1 .. n /\ indexes[m - 1] \in Nat
      BY <1>1, <2>4
    <3>2. \A j \in m - 1 .. n : j = m - 1 \/ j \in m .. n
      BY <1>1, <2>4
    <3>3. m - 1 \in tails
      BY <1>1, <2>4, <3>1, <3>2 DEF tails
    <3> QED BY <2>3, <2>4, <3>3
  <2>6. \E i \in 1 .. (Len(indexes) + 1) :
           /\ \A j \in i .. Len(indexes) : indexes[j] >= 50
           /\ i = 1 \/ indexes[i - 1] < 50
    BY <2>4, <2>5
  <2>7. back \in 1 .. (Len(indexes) + 1)
    BY <2>6 DEF find_back_zone_start
  <2> QED BY <1>1, <2>7
<1>4. body = n + 1 \/ body \in starts
  <2>1. CASE starts = {}
    BY <1>1, <2>1 DEF find_body_start_index
  <2>2. CASE starts # {}
    <3>1. starts \subseteq Nat
      OBVIOUS
    <3>2. \E i \in starts : \A j \in starts : i <= j
      BY <2>2, <3>1, Least
    <3>3. body = CHOOSE i \in starts : \A j \in starts : i <= j
      BY <1>1, <2>2 DEF find_body_start_index
    <3> HIDE DEF starts
    <3> QED BY <3>2, <3>3
  <2> QED BY <2>1, <2>2
<1>5. body \in Nat
  BY <1>1, <1>4
<1>6. ASSUME NEW i \in 1 .. n, zones[i] = "body"
      PROVE  \E b \in 1 .. i : /\ TOP_LEVEL_CLAUSE(labels[b])
                               /\ \A k \in b .. i : zones[k] = "body"
  <2>1. ~(i < body) /\ ~(i >= back)
    BY <1>2, <1>6
  <2>2. body \in starts /\ body \in 1 .. i
    BY <1>1, <1>4, <1>5, <2>1
  <2>3. \A k \in body .. i : k \in 1 .. n /\ ~(k < body) /\ ~(k >= back)
    BY <1>1, <1>3, <2>1, <2>2
  <2>4. \A k \in body .. i : zones[k] = "body"
    BY <1>2, <2>3
  <2> QED BY <2>2, <2>4
<1> QED BY <1>1, <1>2, <1>6

\* The rank of a node among the top-level ones numbers them in order.
Rank(T, i) == Cardinality({j \in T : j <= i})

LEMMA Ranks ==
  ASSUME NEW T, T \subseteq Node
  PROVE  /\ Cardinality(T) \in Nat
         /\ \A i \in T : Rank(T, i) \in 1 .. Cardinality(T)
         /\ \A i, j \in T : i < j => Rank(T, i) < Rank(T, j)
         /\ \A k \in 1 .. Cardinality(T) : \E i \in T : Rank(T, i) = k
<1> USE TreeAssumption DEF Node
<1> DEFINE n == Cardinality(T)
           UpTo(i) == {j \in T : j <= i}
<1>1. IsFiniteSet(T) /\ n \in Nat
  <2>1. IsFiniteSet(1 .. N)
    BY FS_Interval
  <2>2. IsFiniteSet(T)
    BY <2>1, FS_Subset
  <2> QED BY <2>2, FS_CardinalityType
<1>2. \A i : UpTo(i) \subseteq T
  OBVIOUS
<1>3. \A i : IsFiniteSet(UpTo(i)) /\ Cardinality(UpTo(i)) \in Nat /\ Cardinality(UpTo(i)) <= n
  <2> SUFFICES ASSUME NEW i PROVE IsFiniteSet(UpTo(i)) /\ Cardinality(UpTo(i)) \in Nat
                                    /\ Cardinality(UpTo(i)) <= n
    OBVIOUS
  <2> HIDE DEF UpTo
  <2> QED BY <1>1, <1>2, FS_Subset, FS_CardinalityType
<1>4. ASSUME NEW i \in T PROVE Cardinality(UpTo(i)) # 0
  <2>1. i \in UpTo(i)
    OBVIOUS
  <2> HIDE DEF UpTo
  <2> QED BY <1>3, <2>1, FS_EmptySet
<1>5. ASSUME NEW i \in T, NEW j \in T, i < j
      PROVE  Cardinality(UpTo(i)) < Cardinality(UpTo(j))
  <2>1. UpTo(i) \subseteq UpTo(j) /\ j \in UpTo(j) /\ j \notin UpTo(i)
    <3>1. \A k \in T : k \in Nat
      OBVIOUS
    <3>2. i \in Nat /\ j \in Nat
      BY <3>1
    <3>3. ASSUME NEW k \in T, k <= i PROVE k <= j
      BY <1>5, <3>1, <3>2, <3>3
    <3>4. j <= j /\ ~(j <= i)
      BY <1>5, <3>2
    <3>5. UpTo(i) \subseteq UpTo(j)
      BY <3>3
    <3> QED BY <3>4, <3>5
  <2> HIDE DEF UpTo
  <2>2. /\ Cardinality(UpTo(i)) <= Cardinality(UpTo(j))
        /\ Cardinality(UpTo(j)) = Cardinality(UpTo(i)) => UpTo(j) = UpTo(i)
    BY <1>3, <2>1, FS_Subset
  <2>3. Cardinality(UpTo(j)) # Cardinality(UpTo(i))
    BY <2>1, <2>2
  <2> QED BY <1>3, <2>2, <2>3
<1>6. ASSUME NEW k \in 1 .. n PROVE \E i \in T : Cardinality(UpTo(i)) = k
  <2> DEFINE S == 1 .. n
             f == [i \in T |-> Cardinality(UpTo(i))]
  <2>1. f \in [T -> S]
    <3> HIDE DEF n, UpTo
    <3>1. ASSUME NEW i \in T PROVE Cardinality(UpTo(i)) \in S
      BY <1>1, <1>3, <1>4
    <3> QED BY <3>1
  <2>2. \A i, j \in T : i # j => f[i] # f[j]
    <3> SUFFICES ASSUME NEW i \in T, NEW j \in T, i # j
                 PROVE  Cardinality(UpTo(i)) # Cardinality(UpTo(j))
      OBVIOUS
    <3>1. i < j \/ j < i
      OBVIOUS
    <3> HIDE DEF UpTo
    <3> QED BY <1>3, <1>5, <3>1
  <2> HIDE DEF f
  <2>3. f \in Injection(T, S)
    BY <2>1, <2>2 DEF Injection, IsInjective
  <2>4. IsFiniteSet(S) /\ Cardinality(S) = n
    BY <1>1, FS_Interval
  <2> HIDE DEF S, n
  <2>5. f \in Surjection(T, S)
    BY <2>3, <2>4, FS_Injection DEF n
  <2>6. \E i \in T : f[i] = k
    BY <2>5 DEF Surjection, S
  <2> QED BY <2>6 DEF f
<1> QED
  <2>1. \A i : Rank(T, i) = Cardinality(UpTo(i))
    BY DEF Rank
  <2> HIDE DEF UpTo
  <2> QED BY <1>1, <1>3, <1>4, <1>5, <1>6, <2>1

\* Classification reads the top-level sections in order.
LEMMA Classifying ==
  ASSUME IInv, TreeInv, classify_document
  PROVE  TreeInv'
<1> DEFINE T == TopLevel
           nth == [k \in 1 .. Cardinality(T) |-> CHOOSE i \in T : Rank(T, i) = k]
           labels == [k \in DOMAIN nth |-> label[nth[k]]]
           indexes == [k \in DOMAIN nth |-> doc[nth[k]].index]
           zones == Zones(labels, indexes)
           result(i) == classify_section(doc[i], zones[Rank(T, i)], Rank(T, i) = 1)
           n == Cardinality(T)
<1>1. /\ pass' = "hoist" /\ UNCHANGED <<doc, parent, dropped, label, tops, pos>>
      /\ tops = {}
  BY DEF classify_document, IInv, NotYetNesting
<1>2. /\ zone' = [i \in Node |-> IF i \in T THEN zones[Rank(T, i)] ELSE "inner"]
      /\ role' = [i \in Node |-> IF i \in T THEN result(i).role ELSE "normative"]
      /\ review' = {i \in T : result(i).review}
  BY DEF classify_document, Rank
<1>3. T \subseteq Node /\ \A i \in T : i \notin dropped /\ parent[i] = 0
  BY DEF TopLevel
<1>4. doc \in [Node -> Content] /\ label \in [Node -> Label]
  BY DEF TreeInv, TypedContents, IInv, NestingTyped
<1> HIDE DEF T
<1>5. /\ n \in Nat
      /\ \A i \in T : Rank(T, i) \in 1 .. n
      /\ \A i, j \in T : i < j => Rank(T, i) < Rank(T, j)
      /\ \A k \in 1 .. n : \E i \in T : Rank(T, i) = k
  BY <1>3, Ranks
<1>6. /\ DOMAIN nth = 1 .. n
      /\ \A k \in 1 .. n : nth[k] \in T /\ Rank(T, nth[k]) = k
  BY <1>5
<1> HIDE DEF nth, n
<1>7. /\ labels \in Seq(Label) /\ Len(labels) = n
      /\ indexes \in Seq(Nat) /\ Len(indexes) = n
      /\ \A k \in 1 .. n : labels[k] = label[nth[k]]
  <2>1. \A k \in 1 .. n : label[nth[k]] \in Label /\ doc[nth[k]].index \in Nat
    BY <1>3, <1>4, <1>6, TreeAssumption
  <2> QED BY <1>5, <1>6, <2>1
<1> HIDE DEF labels, indexes
<1>8. /\ zones \in [1 .. n -> {"front", "body", "back"}]
      /\ \A i \in 1 .. n : zones[i] = "body" =>
           \E b \in 1 .. i : TOP_LEVEL_CLAUSE(labels[b]) /\ \A k \in b .. i : zones[k] = "body"
  <2>1. zones = Zones(labels, indexes)
    OBVIOUS
  <2> HIDE DEF zones
  <2>2. /\ zones \in [1 .. Len(labels) -> {"front", "body", "back"}]
        /\ \A i \in 1 .. Len(labels) : zones[i] = "body" =>
             \E b \in 1 .. i : TOP_LEVEL_CLAUSE(labels[b]) /\ \A k \in b .. i : zones[k] = "body"
    BY <1>7, <2>1, ZonesInOrder
  <2> QED BY <1>7, <2>2
<1> HIDE DEF zones
<1>9. \A i \in T : result(i).role \in Role \cup {"normative"}
  <2> SUFFICES ASSUME NEW i \in T PROVE result(i).role \in Role \cup {"normative"}
    OBVIOUS
  <2>1. doc[i] \in Content /\ (Rank(T, i) = 1) \in BOOLEAN
    BY <1>3, <1>4
  <2> QED BY <2>1, RoleOfASection
<1>10. \A i \in T : zones[Rank(T, i)] = "body" => result(i).role = "normative"
  BY DEF classify_section
<1> HIDE DEF result
<1>11. TypedContents'
  <2>1. zone' \in [Node -> {"front", "body", "back", "inner"}]
    BY <1>2, <1>5, <1>8
  <2>2. role' \in [Node -> Role \cup {"normative"}]
    BY <1>2, <1>9
  <2>3. review' \subseteq Node
    BY <1>2, <1>3
  <2> QED BY <1>1, <1>4, <2>1, <2>2, <2>3 DEF TypedContents, Passes
<1>12. TreeShape'
  BY <1>1 DEF TreeInv, TreeShape
<1>13. ASSUME NEW i \in Node, zone'[i] = "body"
       PROVE  i \in T /\ \E b \in Node : StartsBodyOf(b, i)'
  <2>1. i \in T /\ zones[Rank(T, i)] = "body"
    BY <1>2, <1>13
  <2>2. PICK b \in 1 .. Rank(T, i) : /\ TOP_LEVEL_CLAUSE(labels[b])
                                     /\ \A k \in b .. Rank(T, i) : zones[k] = "body"
    BY <1>5, <1>8, <2>1
  <2>3. b \in Nat /\ Rank(T, i) \in Nat /\ b \in 1 .. n /\ b <= Rank(T, i)
    BY <1>5, <2>1
  <2>4. /\ nth[b] \in T /\ Rank(T, nth[b]) = b /\ nth[b] \in Node
        /\ labels[b] = label[nth[b]]
    BY <1>3, <1>6, <1>7, <2>3
  <2>5. nth[b] \in Nat /\ i \in Nat /\ nth[b] <= i
    BY <1>5, <2>1, <2>3, <2>4 DEF Node
  <2>6. Clause(nth[b]) /\ Len(label[nth[b]]) = 1
    BY <1>4, <2>2, <2>4 DEF TOP_LEVEL_CLAUSE, Clause, Label
  <2>7. ASSUME NEW k \in Node, nth[b] <= k, k <= i
        PROVE  zone'[k] \in {"body", "inner"}
    <3>1. CASE k \notin T
      BY <1>2, <3>1
    <3>2. CASE k \in T
      <4>1. k \in Nat /\ Rank(T, k) \in Nat
        BY <1>5, <3>2 DEF Node
      <4>2. (nth[b] = k \/ nth[b] < k) /\ (k = i \/ k < i)
        BY <2>5, <2>7, <4>1
      <4>3. Rank(T, k) \in b .. Rank(T, i)
        <5>1. b <= Rank(T, k)
          <6>1. CASE nth[b] = k
            BY <2>4, <4>1, <6>1
          <6>2. CASE nth[b] < k
            <7>1. Rank(T, nth[b]) < Rank(T, k)
              BY <1>5, <2>4, <3>2, <6>2
            <7> QED BY <2>3, <2>4, <4>1, <7>1
          <6> QED BY <4>2, <6>1, <6>2
        <5>2. Rank(T, k) <= Rank(T, i)
          BY <1>5, <2>1, <2>3, <3>2, <4>1, <4>2
        <5> QED BY <2>3, <4>1, <5>1, <5>2
      <4> QED BY <1>2, <2>2, <3>2, <4>3
    <3> QED BY <3>1, <3>2
  <2>8. zone'[nth[b]] = "body"
    <3>1. b \in b .. Rank(T, i)
      BY <2>3
    <3> QED BY <1>2, <2>2, <2>4, <3>1
  <2> QED BY <1>1, <2>1, <2>4, <2>5, <2>6, <2>7, <2>8 DEF StartsBodyOf, Clause
<1>14. BodyIsNormative'
  <2>1. ASSUME NEW i \in Node, zone'[i] \in {"body", "inner"} PROVE role'[i] = "normative"
    <3>1. CASE i \notin T
      BY <1>2, <3>1
    <3>2. CASE i \in T
      BY <1>2, <1>5, <1>8, <1>10, <2>1, <3>2
    <3> QED BY <3>1, <3>2
  <2> QED BY <1>1, <1>3, <1>13, <2>1 DEF BodyIsNormative, Relevant
<1>15. ParentIsOpen' /\ LooseUnderLast' /\ InnerFollowsNumbers'
  BY <1>1 DEF ParentIsOpen, LooseUnderLast, InnerFollowsNumbers
<1> QED BY <1>11, <1>12, <1>14, <1>15 DEF TreeInv

---------------------------------------------------------------------------
\* The inductive invariant of the whole assembly: what classification has found
\* of the list, and what hoisting has left inside its entries, is still true when
\* nesting is over.
THEOREM TreeInvariant == Spec => []TreeInv
<1>1. IInv /\ TreeInv /\ [Next]_vars => TreeInv'
  <2> SUFFICES ASSUME IInv, TreeInv, [Next]_vars PROVE TreeInv'
    OBVIOUS
  <2>1. CASE merge_split_clause_numbers
    BY <2>1, Merging
  <2>2. CASE assign_clause_ids
    BY <2>2, Assigning
  <2>3. CASE classify_document
    BY <2>3, Classifying
  <2>4. CASE hoist_misnested_clauses
    BY <2>4, HoistingKeepsTree
  <2>5. CASE nest_by_clause \/ UNCHANGED vars
    BY <2>5, NestingKeepsTree
  <2> QED BY <2>1, <2>2, <2>3, <2>4, <2>5 DEF Next
<1> QED BY <1>1, TreeStarts, NestingInvariant, PTL DEF Spec

THEOREM TreeTypes == Spec => []TypeOK
<1>1. IInv /\ TreeInv => TypeOK
  BY DEF IInv, NestingTyped, TreeInv, TypedContents, Passes, TypeOK
<1> QED BY <1>1, NestingInvariant, TreeInvariant, PTL

\* An ancestor of a section of the body is an entry between it and the chapter
\* the body starts with.
LEMMA BodyAncestors ==
  ASSUME IInv, TreeInv, pass = "done",
         NEW i \in Node, NEW b \in Node, b \in tops, StartsBodyOf(b, i), i \in tops
  PROVE  \A a \in Ancestors(i) : a \in Node /\ b <= a /\ a <= i
<1> USE TreeAssumption
<1>1. /\ Descending(parent) /\ tops \subseteq Node /\ Node \subseteq Nat
      /\ label \in [Node -> Label] /\ pos = N + 1 /\ 0 \notin Node
  BY DEF IInv, NestingTyped, Descending, Node, TreeInv, TreeShape
<1>2. \A j \in Node : Ancestors(j) =
        IF parent[j] = 0 THEN {} ELSE {parent[j]} \cup Ancestors(parent[j])
  BY <1>1, AncestorsUnfold DEF Ancestors
<1>3. \A p \in tops : ~(Clause(p) /\ IsProperPrefix(label[p], label[b]))
  <2> SUFFICES ASSUME NEW p \in tops, Clause(p), IsProperPrefix(label[p], label[b])
               PROVE  FALSE
    OBVIOUS
  <2>1. label[p] \in Seq(Nat) \ {<<>>}
    BY <1>1 DEF Clause, Label
  <2>2. Len(label[p]) # 0 /\ Len(label[p]) \in Nat
    BY <2>1
  <2> QED BY <2>2 DEF IsProperPrefix, StartsBodyOf
<1>4. ASSUME NEW j \in tops, b <= j, parent[j] # 0
      PROVE  parent[j] \in tops /\ b <= parent[j] /\ parent[j] < j
  <2>1. j \in Nat /\ b \in Nat /\ j < pos
    BY <1>1 DEF Node
  <2>2. OpenAt(parent[j], j)
    BY <1>4, <2>1 DEF TreeInv, ParentIsOpen
  <2>3. parent[j] \in tops /\ parent[j] \in Nat /\ parent[j] < j
    BY <1>1, <2>2 DEF OpenAt
  <2>4. CASE b = j
    <3>1. IsProperPrefix(label[parent[j]], label[j])
      BY <1>1, <1>4, <2>1, <2>4 DEF IInv, NearestOpenClause, StartsBodyOf
    <3>2. Clause(parent[j])
      BY <1>1, <1>4, <2>1, <2>4 DEF IInv, NearestOpenClause, StartsBodyOf, StillOpen
    <3> QED BY <1>3, <2>3, <2>4, <3>1, <3>2
  <2>5. CASE b # j
    <3>1. parent[j] < b => Clause(parent[j]) /\ IsProperPrefix(label[parent[j]], label[b])
      BY <1>4, <2>1, <2>2, <2>5 DEF OpenAt, StartsBodyOf
    <3> QED BY <1>3, <2>1, <2>3, <3>1
  <2> QED BY <2>4, <2>5
<1> DEFINE Good(j) == \A a \in Ancestors(j) : a \in Node /\ b <= a /\ a <= j
           Bad == {j \in tops : b <= j /\ ~Good(j)}
<1>5. Bad = {}
  <2> SUFFICES ASSUME Bad # {} PROVE FALSE
    OBVIOUS
  <2>1. Bad \subseteq Nat
    BY <1>1
  <2> HIDE DEF Bad
  <2>2. PICK j \in Bad : \A k \in Bad : j <= k
    BY <2>1, Least
  <2>3. j \in tops /\ b <= j /\ ~Good(j) /\ j \in Node /\ j \in Nat
    BY <1>1 DEF Bad
  <2>4. PICK a \in Ancestors(j) : ~(a \in Node /\ b <= a /\ a <= j)
    BY <2>3
  <2> HIDE DEF Good
  <2>5. parent[j] # 0 /\ a \in {parent[j]} \cup Ancestors(parent[j])
    BY <1>2, <2>3, <2>4
  <2>6. /\ parent[j] \in tops /\ b <= parent[j] /\ parent[j] < j
        /\ parent[j] \in Node /\ parent[j] \in Nat
    BY <1>1, <1>4, <2>3, <2>5
  <2>7. parent[j] \notin Bad
    BY <2>2, <2>3, <2>6
  <2>8. Good(parent[j])
    BY <2>6, <2>7 DEF Bad
  <2>9. CASE a = parent[j]
    BY <2>3, <2>4, <2>6, <2>9
  <2>10. CASE a \in Ancestors(parent[j])
    <3>1. a \in Node /\ b <= a /\ a <= parent[j]
      BY <2>8, <2>10 DEF Good
    <3> QED BY <2>3, <2>4, <2>6, <3>1 DEF Node
  <2> QED BY <2>5, <2>9, <2>10
<1>6. i \notin Bad
  <2> HIDE DEF Bad
  <2> QED BY <1>5
<1> QED BY <1>6 DEF StartsBodyOf

\* Nothing of the body ends up where the chunker would skip it, in a document of
\* any length: excluded matter before the body is closed by the body's first
\* chapter, and excluded matter after it comes too late.
THEOREM BodyStays == Spec => []BodyStaysIncluded
<1>1. ASSUME IInv, TreeInv PROVE BodyStaysIncluded
  <2> SUFFICES ASSUME pass = "done", NEW i \in Node \ dropped, zone[i] = "body",
                      NEW a \in {i} \cup Ancestors(i)
               PROVE  Relevant(a)
    BY DEF BodyStaysIncluded
  <2>1. Relevant(i) /\ i \in tops /\ \E b \in Node : StartsBodyOf(b, i)
    BY <1>1 DEF TreeInv, BodyIsNormative
  <2>2. PICK b \in Node : StartsBodyOf(b, i)
    BY <2>1
  <2>3. b \in tops
    BY <1>1, <2>2 DEF TreeInv, BodyIsNormative, StartsBodyOf
  <2>4. CASE a = i
    BY <2>1, <2>4
  <2>5. CASE a \in Ancestors(i)
    <3>1. a \in Node /\ b <= a /\ a <= i
      BY <1>1, <2>1, <2>2, <2>3, <2>5, BodyAncestors
    <3>2. zone[a] \in {"body", "inner"}
      BY <2>2, <3>1 DEF StartsBodyOf
    <3> QED BY <1>1, <3>1, <3>2 DEF TreeInv, BodyIsNormative
  <2> QED BY <2>4, <2>5
<1> QED BY <1>1, NestingInvariant, TreeInvariant, PTL

\* The number a node inherits is that of its nearest numbered ancestor, as long
\* as no unnumbered entry of the list is above it.
LEMMA NumberIsNearest ==
  ASSUME IInv, TreeInv, pass = "done", NEW context, InnerContext(context),
         NEW q \in Node \ dropped, \A t \in ({q} \cup Ancestors(q)) \cap tops : Clause(t)
  PROVE  \E d \in {q} \cup Ancestors(q) :
           /\ Clause(d) /\ label[d] = context[q]
           /\ \A c \in {q} \cup Ancestors(q) : Clause(c) => c = d \/ c \in Ancestors(d)
<1> USE TreeAssumption
<1>1. Descending(parent) /\ Node \subseteq Nat /\ parent \in [Node -> {0} \cup Node]
  BY DEF IInv, NestingTyped, Descending, Node
<1>2. \A j \in Node : Ancestors(j) =
        IF parent[j] = 0 THEN {} ELSE {parent[j]} \cup Ancestors(parent[j])
  BY <1>1, AncestorsUnfold DEF Ancestors
<1> DEFINE Line(j) == {j} \cup Ancestors(j)
           Uncarried(j) == \A t \in Line(j) \cap tops : Clause(t)
           Nearest(j, d) == /\ Clause(d) /\ label[d] = context[j]
                            /\ \A c \in Line(j) : Clause(c) => c = d \/ c \in Ancestors(d)
           Good(j) == \E d \in Line(j) : Nearest(j, d)
           Bad == {j \in Node \ dropped : Uncarried(j) /\ ~Good(j)}
<1>3. Bad = {}
  <2> SUFFICES ASSUME Bad # {} PROVE FALSE
    OBVIOUS
  <2>1. Bad \subseteq Nat
    BY <1>1
  <2> HIDE DEF Bad
  <2>2. PICK j \in Bad : \A k \in Bad : j <= k
    BY <2>1, Least
  <2>3. j \in Node \ dropped /\ Uncarried(j) /\ ~Good(j)
    BY DEF Bad
  <2>4. ~Clause(j)
    <3> SUFFICES ASSUME Clause(j) PROVE FALSE
      OBVIOUS
    <3>1. Nearest(j, j)
      BY <2>3 DEF InnerContext
    <3> QED BY <2>3, <3>1
  <2>5. j \notin tops
    BY <2>3, <2>4
  <2>6. /\ parent[j] # 0 /\ parent[j] \in Node \ dropped
        /\ context[j] = context[parent[j]]
    BY <1>1, <2>3, <2>4, <2>5 DEF TreeInv, TreeShape, InnerContext
  <2>7. Ancestors(j) = Line(parent[j])
    BY <1>2, <2>3, <2>6
  <2>8. Uncarried(parent[j])
    BY <2>3, <2>7
  <2> HIDE DEF Uncarried, Good
  <2>9. parent[j] \notin Bad
    <3>1. parent[j] < j /\ parent[j] \in Nat /\ j \in Nat
      BY <1>1, <2>3, <2>6 DEF Descending
    <3> QED BY <2>2, <3>1
  <2>10. Good(parent[j])
    BY <2>6, <2>8, <2>9 DEF Bad
  <2>11. PICK d \in Line(parent[j]) : Nearest(parent[j], d)
    BY <2>10 DEF Good
  <2>12. d \in Line(j) /\ Nearest(j, d)
    BY <2>4, <2>6, <2>7, <2>11
  <2> QED BY <2>3, <2>12 DEF Good
<1>4. q \notin Bad
  <2> HIDE DEF Bad
  <2> QED BY <1>3
<1> QED BY <1>4

\* The finished tree follows the numbering, in a document of any length and
\* however Docling nested it.
THEOREM ClausesFollowNumbers == Spec => []ClauseUnderItsPrefix
<1>1. ASSUME IInv, TreeInv PROVE ClauseUnderItsPrefix
  <2> SUFFICES ASSUME pass = "done", NEW i \in Node \ dropped, Clause(i), CarriedBy(i) = {},
                      NEW a \in NearestNumbered(i)
               PROVE  IsProperPrefix(label[a], label[i])
    BY DEF ClauseUnderItsPrefix
  <2> USE <1>1
  <2>1. /\ Descending(parent) /\ parent \in [Node -> {0} \cup Node] /\ Node \subseteq Nat
        /\ pos = N + 1
    <3>1. parent \in [Node -> {0} \cup Node] /\ \A j \in Node : parent[j] < j
      BY DEF IInv, NestingTyped
    <3>2. Node \subseteq Nat
      BY DEF Node
    <3>3. Descending(parent)
      BY <3>1 DEF Descending, Node
    <3>4. pos = N + 1
      BY DEF TreeInv, TreeShape
    <3> QED BY <3>1, <3>2, <3>3, <3>4
  <2>2. Ancestors(i) = IF parent[i] = 0 THEN {} ELSE {parent[i]} \cup Ancestors(parent[i])
    BY <2>1, AncestorsUnfold DEF Ancestors
  <2>3. /\ a \in Ancestors(i) /\ Clause(a)
        /\ \A b \in Ancestors(i) : Clause(b) => a \notin Ancestors(b)
    BY DEF NearestNumbered
  <2>4. parent[i] # 0 /\ Ancestors(i) = {parent[i]} \cup Ancestors(parent[i])
    BY <2>2, <2>3
  <2>5. \A t \in Ancestors(i) \cap tops : Clause(t)
    BY DEF CarriedBy
  <2>6. CASE i \in tops
    <3>1. i < pos
      BY <2>1, TreeAssumption DEF Node
    <3>2. /\ IsProperPrefix(label[parent[i]], label[i])
          /\ Clause(parent[i])
      BY <2>4, <2>6, <3>1 DEF IInv, NearestOpenClause, StillOpen
    <3>3. a = parent[i]
      BY <2>3, <2>4, <3>2
    <3> QED BY <3>2, <3>3
  <2>7. CASE i \notin tops
    <3>1. PICK context : InnerContext(context)
      BY DEF TreeInv, InnerFollowsNumbers
    <3>2. context[parent[i]] = NoLabel \/ IsProperPrefix(context[parent[i]], label[i])
      BY <2>7, <3>1 DEF InnerContext
    <3>3. parent[i] \in Node \ dropped
      BY <2>1, <2>4 DEF TreeInv, TreeShape
    <3>4. \A t \in ({parent[i]} \cup Ancestors(parent[i])) \cap tops : Clause(t)
      BY <2>4, <2>5
    <3>5. PICK d \in {parent[i]} \cup Ancestors(parent[i]) :
            /\ Clause(d) /\ label[d] = context[parent[i]]
            /\ \A c \in {parent[i]} \cup Ancestors(parent[i]) :
                 Clause(c) => c = d \/ c \in Ancestors(d)
      BY <3>1, <3>3, <3>4, NumberIsNearest
    <3>6. a = d
      BY <2>3, <2>4, <3>5
    <3>7. label[d] # NoLabel
      BY <3>5, TreeAssumption DEF Clause
    <3> QED BY <3>2, <3>5, <3>6, <3>7
  <2> QED BY <2>6, <2>7
<1> QED BY <1>1, NestingInvariant, TreeInvariant, PTL

---------------------------------------------------------------------------
\* Two loose entries with nothing but loose entries between them end up in one
\* list: the same clauses were open for both.
LEMMA SameHeadingSameParent ==
  ASSUME IInv, TreeInv, pass = "done", NEW i \in tops, NEW j \in tops, i < j,
         \A k \in tops : i <= k /\ k <= j => ~Clause(k) /\ ~StartsBlock(k)
  PROVE  parent[i] = parent[j]
<1>1. /\ pos = N + 1 /\ tops \subseteq Node /\ parent \in [Node -> {0} \cup Node]
      /\ \A k \in tops : k \in Nat /\ k < pos
  BY TreeAssumption DEF IInv, NestingTyped, TreeInv, TreeShape, Node
<1>2. ~Clause(i) /\ ~StartsBlock(i) /\ ~Clause(j) /\ ~StartsBlock(j)
  BY <1>1
<1>3. \A p \in tops : OpenAt(p, i) <=> OpenAt(p, j)
  <2> SUFFICES ASSUME NEW p \in tops PROVE OpenAt(p, i) <=> OpenAt(p, j)
    OBVIOUS
  <2>1. p \in Nat /\ i \in Nat /\ j \in Nat
    BY <1>1
  <2>2. ASSUME OpenAt(p, j) PROVE OpenAt(p, i)
    <3>1. p < i
      BY <1>1, <2>1, <2>2 DEF OpenAt
    <3> QED BY <1>1, <2>1, <2>2, <3>1 DEF OpenAt
  <2>3. ASSUME OpenAt(p, i) PROVE OpenAt(p, j)
    BY <1>1, <2>1, <2>3 DEF OpenAt
  <2> QED BY <2>2, <2>3
<1>4. /\ parent[i] # 0 => parent[i] \in tops /\ OpenAt(parent[i], i)
      /\ parent[j] # 0 => parent[j] \in tops /\ OpenAt(parent[j], j)
  BY <1>1 DEF TreeInv, ParentIsOpen, OpenAt
<1>5. /\ \A p \in tops : OpenAt(p, i) => p <= parent[i]
      /\ \A p \in tops : OpenAt(p, j) => p <= parent[j]
  BY <1>1, <1>2 DEF TreeInv, LooseUnderLast
<1>6. parent[i] \in Nat /\ parent[j] \in Nat /\ \A p \in tops : p # 0
  BY <1>1 DEF Node
<1>7. parent[i] # 0 => parent[i] <= parent[j]
  BY <1>3, <1>4, <1>5
<1>8. parent[j] # 0 => parent[j] <= parent[i]
  BY <1>3, <1>4, <1>5
<1> QED BY <1>6, <1>7, <1>8
==============================================================================
