-------------------------- MODULE DoclingWalkProofs --------------------------
(***************************************************************************)
(* What the walk builds of bodies of any length, shape and vocabulary.     *)
(*                                                                         *)
(* The outline (IInv): the open sections are nested, and every closed one  *)
(* has been closed by a heading that is not lower.                         *)
(*                                                                         *)
(* The tree (TreeInv, PathInv): an item has found no place exactly where   *)
(* something above it hides it; the nodes are what the items passed so far *)
(* bring, in their order, whoever claims captions and how often; and an    *)
(* item that is still to get children has its node on the path to the last *)
(* node, below which every open section also lies, so the next node goes   *)
(* onto that path.  What is above a node, what hides an item and what the  *)
(* items bring are recursive functions; DownwardRecursion shows that they  *)
(* exist.                                                                  *)
(***************************************************************************)
EXTENDS DoclingWalk, WellFoundedInduction, TLAPS

NodeTypes == CaptionHolders \cup {"section", "caption", "note", "paragraph", "list_item", "equation"}
Place == [item : Item, type : NodeTypes, under : Int]

BodyOK ==
  /\ body.label \in [Item -> Label] /\ body.level \in [Item -> Nat]
  /\ body.up \in [Item -> 0 .. MaxItems]
  /\ body.captions \in [Item -> Seq(Item)]

WalkTypeOK ==
  /\ BodyOK
  /\ attach \in [0 .. MaxItems -> Int]
  /\ open \in Seq(Nat)
  /\ nodes \in Seq(Place)

\* The open sections, outermost first, come one after the other and have ever
\* lower headings.
OpenIsNested ==
  /\ \A k \in DOMAIN open : open[k] \in SectionNodes
  /\ \A j, k \in DOMAIN open :
       j < k => open[j] < open[k] /\ LevelOf(open[j]) < LevelOf(open[k])

\* The walk is at a heading of this level or of a higher one.
HeadingComes(level) == Walking(next, Headings) /\ body.level[next] <= level

\* A section that is closed has been closed by a heading that is not lower:
\* that of a section open now, or the one the walk is at.
ClosedForAReason ==
  \A m \in SectionNodes :
    \/ \E k \in DOMAIN open : open[k] = m
    \/ \E k \in DOMAIN open : m < open[k] /\ LevelOf(open[k]) <= LevelOf(m)
    \/ HeadingComes(LevelOf(m))

IInv == WalkTypeOK /\ OpenIsNested /\ ClosedForAReason /\ SectionsByLevel

---------------------------------------------------------------------------
\* Every document a walk begins with is well formed.
LEMMA BodiesAreOK ==
  ASSUME NEW V \in Vocabularies, NEW things \in [Item -> V], NEW up \in BodyTrees,
         NEW captions \in Claims, body = Body(things, up, captions)
  PROVE  BodyOK
<1>1. \A i \in Item : things[i] \in Thing
  BY BodyAssumption
<1>2. \A i \in Item : things[i].label \in Label /\ things[i].level \in Nat
  BY <1>1 DEF Thing
<1>3. body.label = [i \in Item |-> things[i].label] /\ body.level = [i \in Item |-> things[i].level]
      /\ body.up = up /\ body.captions = captions
  BY DEF Body
<1>4. body.label \in [Item -> Label] /\ body.level \in [Item -> Nat]
  BY <1>2, <1>3
<1>5. body.up \in [Item -> 0 .. MaxItems]
  BY <1>3 DEF BodyTrees
<1>6. body.captions \in [Item -> Seq(Item)]
  BY <1>3, BodyAssumption DEF Item
<1> QED BY <1>4, <1>5, <1>6 DEF BodyOK

LEMMA InitHolds == WalkInit => IInv
<1> SUFFICES ASSUME WalkInit PROVE IInv
  OBVIOUS
<1>1. BodyOK
  BY BodiesAreOK DEF WalkInit, Begin
<1>2. attach = [i \in 0 .. MaxItems |-> Sections] /\ open = <<>> /\ nodes = <<>>
  BY DEF WalkInit, Begin
<1>3. SectionNodes = {}
  BY <1>2 DEF SectionNodes
<1> QED BY <1>1, <1>2, <1>3
        DEF IInv, WalkTypeOK, OpenIsNested, ClosedForAReason, SectionsByLevel, Sections

---------------------------------------------------------------------------
\* The nodes there are keep their place, item and level when others follow.
LEMMA NodesStay ==
  ASSUME IInv, NEW new \in Seq(Place), nodes' = nodes \o new, body' = body
  PROVE  /\ nodes' \in Seq(Place)
         /\ Len(nodes') = Len(nodes) + Len(new)
         /\ \A n \in DOMAIN nodes : n \in DOMAIN nodes' /\ nodes'[n] = nodes[n]
         /\ \A n \in DOMAIN nodes' : n \notin DOMAIN nodes =>
              n - Len(nodes) \in DOMAIN new /\ nodes'[n] = new[n - Len(nodes)]
BY DEF IInv, WalkTypeOK

\* A step that adds no section, and is not at a heading, changes no outline.
LEMMA NoSection ==
  ASSUME IInv, NEW new \in Seq(Place), nodes' = nodes \o new,
         \A k \in DOMAIN new : new[k].type # "section",
         UNCHANGED <<body, open>>, attach' \in [0 .. MaxItems -> Int],
         ~Walking(next, Headings)
  PROVE  IInv'
<1>1. WalkTypeOK'
  BY NodesStay DEF IInv, WalkTypeOK, BodyOK
<1>2. SectionNodes' = SectionNodes
  BY NodesStay DEF SectionNodes, IInv, WalkTypeOK
<1>3. \A n \in SectionNodes : LevelOf(n)' = LevelOf(n) /\ nodes'[n].under = nodes[n].under
  BY NodesStay DEF SectionNodes, LevelOf
<1>4. OpenIsNested'
  <2>1. \A k \in DOMAIN open : open[k] \in SectionNodes
    BY DEF IInv, OpenIsNested
  <2>2. open' = open /\ \A k \in DOMAIN open : body'.level[nodes'[open[k]].item] = LevelOf(open[k])
    BY <1>3, <2>1 DEF LevelOf
  <2>3. \A j, k \in DOMAIN open : j < k => open[j] < open[k] /\ LevelOf(open[j]) < LevelOf(open[k])
    BY DEF IInv, OpenIsNested
  <2>4. \A j, k \in DOMAIN open' :
          j < k => open'[j] < open'[k] /\ body'.level[nodes'[open'[j]].item]
                                           < body'.level[nodes'[open'[k]].item]
    BY <2>2, <2>3
  <2> QED BY <1>2, <2>1, <2>2, <2>4 DEF OpenIsNested, LevelOf
<1>5. ClosedForAReason'
  <2> SUFFICES ASSUME NEW m \in SectionNodes
               PROVE  \/ \E k \in DOMAIN open : open[k] = m
                      \/ \E k \in DOMAIN open : m < open[k] /\ LevelOf(open[k])' <= LevelOf(m)'
    BY <1>2 DEF ClosedForAReason, LevelOf
  <2>1. ~HeadingComes(LevelOf(m))
    BY DEF HeadingComes
  <2>2. \A k \in DOMAIN open : open[k] \in SectionNodes
    BY DEF IInv, OpenIsNested
  <2> QED BY <1>3, <2>1, <2>2 DEF IInv, ClosedForAReason
<1>6. SectionsByLevel'
  <2> SUFFICES ASSUME NEW n \in SectionNodes
               PROVE  LET higher == {m \in SectionNodes : m < n /\ LevelOf(m)' < LevelOf(n)'}
                      IN  IF higher = {} THEN nodes'[n].under = 0
                          ELSE nodes'[n].under \in higher /\ \A m \in higher : m <= nodes'[n].under
    BY <1>2 DEF SectionsByLevel
  <2>1. {m \in SectionNodes : m < n /\ LevelOf(m)' < LevelOf(n)'}
          = {m \in SectionNodes : m < n /\ LevelOf(m) < LevelOf(n)}
    BY <1>3
  <2> QED BY <1>3, <2>1 DEF IInv, SectionsByLevel
<1> QED BY <1>1, <1>4, <1>5, <1>6 DEF IInv

---------------------------------------------------------------------------
LEMMA InnermostIsLast ==
  ASSUME IInv
  PROVE  /\ Innermost \in Nat
         /\ open # <<>> => /\ Len(open) \in DOMAIN open /\ Innermost = open[Len(open)]
                          /\ Innermost \in SectionNodes
         /\ \A k \in DOMAIN open : open[k] <= Innermost
<1>1. open \in Seq(Nat)
  BY DEF IInv, WalkTypeOK
<1>2. CASE open = <<>>
  BY <1>2 DEF Innermost
<1>3. CASE open # <<>>
  <2>1. Len(open) \in DOMAIN open /\ Innermost = open[Len(open)] /\ Innermost \in Nat
    BY <1>1, <1>3 DEF Innermost
  <2>2. \A k \in DOMAIN open : k = Len(open) \/ k < Len(open)
    BY <1>1
  <2>3. \A k \in DOMAIN open : open[k] <= Innermost
    BY <1>1, <2>1, <2>2 DEF IInv, OpenIsNested
  <2> QED BY <2>1, <2>3 DEF IInv, OpenIsNested
<1> QED BY <1>2, <1>3

LEMMA SectionsHaveLevels ==
  ASSUME IInv, NEW m \in SectionNodes
  PROVE  m \in Nat /\ m > 0 /\ nodes[m].item \in Item /\ LevelOf(m) \in Nat
<1>1. nodes \in Seq(Place) /\ m \in DOMAIN nodes /\ body.level \in [Item -> Nat]
  BY DEF IInv, WalkTypeOK, BodyOK, SectionNodes
<1>2. m \in Nat /\ m > 0 /\ nodes[m] \in Place
  BY <1>1
<1> QED BY <1>1, <1>2 DEF Place, LevelOf

LEMMA TargetIsInt ==
  ASSUME IInv, NEW i \in Item
  PROVE  Here(i) \in Int /\ Target(i) \in Int
BY InnermostIsLast DEF IInv, WalkTypeOK, BodyOK, Here, Target

LEMMA Arriving ==
  ASSUME IInv, NEW i, NEW place \in Int, Arrive(i, place)
  PROVE  attach' \in [0 .. MaxItems -> Int] /\ body' = body /\ next' = i + 1
BY DEF IInv, WalkTypeOK, Arrive

\* A page's furniture, a group, a leaf, and whatever has a node type of its own.
LEMMA PassingOver ==
  ASSUME IInv, NEW i \in Item, i = next, PassOver(i) \/ EnterGroup(i)
  PROVE  IInv'
<1>1. <<>> \in Seq(Place) /\ nodes' = nodes \o <<>>
  BY DEF PassOver, EnterGroup, IInv, WalkTypeOK
<1>2. attach' \in [0 .. MaxItems -> Int]
  BY TargetIsInt, Arriving DEF PassOver, EnterGroup, Nowhere
<1>3. ~Walking(next, Headings)
  BY DEF PassOver, EnterGroup, Walking, Headings, Skipped
<1>4. DOMAIN <<>> = {}
  OBVIOUS
<1>5. UNCHANGED <<body, open>>
  BY DEF PassOver, EnterGroup, Arrive
<1> QED BY <1>1, <1>2, <1>3, <1>4, <1>5, NoSection

LEMMA AddingLeaf ==
  ASSUME IInv, NEW i \in Item, i = next, AddLeaf(i)
  PROVE  IInv'
<1> DEFINE node == Node(i, LeafType(i), Target(i))
<1>1. node \in Place /\ node.type # "section"
  BY TargetIsInt DEF Node, Place, LeafType, NodeTypes
<1>2. nodes' = Append(nodes, node) /\ nodes \in Seq(Place)
  BY DEF AddLeaf, IInv, WalkTypeOK
<1>3. attach' \in [0 .. MaxItems -> Int]
  BY Arriving DEF AddLeaf, Nowhere
<1>4. ~Walking(next, Headings)
  BY DEF AddLeaf, Walking, Headings, MislabelledHeadings
<1> HIDE DEF node
<1>5. /\ <<node>> \in Seq(Place) /\ nodes' = nodes \o <<node>>
      /\ \A k \in DOMAIN <<node>> : <<node>>[k].type # "section"
  BY <1>1, <1>2
<1> QED BY <1>3, <1>4, <1>5, NoSection DEF AddLeaf, Arrive

LEMMA OwnCaptions ==
  ASSUME BodyOK, NEW i \in Item
  PROVE  Own(i) \in Seq(Item)
BY DEF BodyOK, Own

LEMMA AddingContent ==
  ASSUME IInv, NEW i \in Item, i = next, AddContent(i)
  PROVE  IInv'
<1> DEFINE own == Own(i)
           more == [k \in DOMAIN own |-> Node(own[k], "caption", Len(nodes) + 1)]
           node == Node(i, NodeType(body.label[i]), Target(i))
           new == <<node>> \o more
<1>1. nodes \in Seq(Place) /\ Len(nodes) + 1 \in Int
  BY DEF IInv, WalkTypeOK
<1>2. own \in Seq(Item)
  BY OwnCaptions DEF IInv, WalkTypeOK
<1>3. body.label[i] \in Mapped /\ body.label[i] \notin Headings
  BY DEF AddContent, Walking, Headings, Mapped, CaptionHolders
<1>4. node \in Place /\ node.type # "section"
  BY <1>3, TargetIsInt DEF Node, Place, NodeType, NodeTypes, Mapped, CaptionHolders
<1>5. \A k \in DOMAIN own :
        Node(own[k], "caption", Len(nodes) + 1) \in Place
        /\ Node(own[k], "caption", Len(nodes) + 1).type # "section"
  BY <1>1, <1>2 DEF Node, Place, NodeTypes
<1>6. nodes' = Append(nodes, node) \o more
  BY DEF AddContent
<1> HIDE DEF own, node
<1>7. more \in Seq(Place) /\ \A k \in DOMAIN more : more[k].type # "section"
  BY <1>2, <1>5
<1> HIDE DEF more
<1>8. new \in Seq(Place) /\ nodes' = nodes \o new
  <2>1. <<node>> \in Seq(Place) /\ Append(nodes, node) = nodes \o <<node>>
    BY <1>1, <1>4
  <2> QED BY <1>1, <1>6, <1>7, <2>1
<1>9. \A k \in DOMAIN new : new[k].type # "section"
  <2> SUFFICES ASSUME NEW k \in DOMAIN new PROVE new[k].type # "section"
    OBVIOUS
  <2>1. CASE k = 1
    BY <1>4, <1>7, <2>1
  <2>2. CASE k # 1
    <3>1. k - 1 \in DOMAIN more /\ new[k] = more[k - 1]
      BY <1>4, <1>7, <2>2
    <3> QED BY <1>7, <3>1
  <2> QED BY <2>1, <2>2
<1>10. attach' \in [0 .. MaxItems -> Int]
  BY <1>1, Arriving DEF AddContent
<1>11. UNCHANGED <<body, open>> /\ ~Walking(next, Headings)
  BY <1>3 DEF AddContent, Arrive, Walking
<1> HIDE DEF new
<1> QED BY <1>8, <1>9, <1>10, <1>11, NoSection

---------------------------------------------------------------------------
\* A heading closes the innermost section: it is the reason for that section,
\* and for those that section was the reason for.
LEMMA ClosingSection ==
  ASSUME IInv, NEW i \in Item, i = next, CloseSection(i)
  PROVE  IInv'
<1> DEFINE last == Len(open)
<1>1. open # <<>> /\ body.level[i] <= LevelOf(Innermost) /\ Walking(next, Headings)
  BY InnermostIsLast DEF CloseSection, Closes, LevelOf, IInv, WalkTypeOK, BodyOK, SectionNodes, Place
<1>2. UNCHANGED <<body, next, attach, nodes>>
  BY DEF CloseSection
<1>3. open \in Seq(Nat) /\ last \in DOMAIN open /\ Innermost = open[last]
  BY <1>1, InnermostIsLast DEF IInv, WalkTypeOK
<1>4. /\ open' \in Seq(Nat)
      /\ \A k : k \in DOMAIN open' <=> k \in DOMAIN open /\ k # last
      /\ \A k \in DOMAIN open' : open'[k] = open[k]
  BY <1>3 DEF CloseSection
<1>5. SectionNodes' = SectionNodes /\ \A n : LevelOf(n)' = LevelOf(n)
  BY <1>2 DEF SectionNodes, LevelOf
<1>6. WalkTypeOK'
  BY <1>2, <1>4 DEF IInv, WalkTypeOK, BodyOK
<1>7. OpenIsNested'
  <2>1. \A k \in DOMAIN open' : open'[k] \in SectionNodes
    BY <1>4 DEF IInv, OpenIsNested
  <2>2. \A j, k \in DOMAIN open' :
          j < k => open'[j] < open'[k] /\ LevelOf(open'[j]) < LevelOf(open'[k])
    BY <1>4 DEF IInv, OpenIsNested
  <2> QED BY <1>2, <1>5, <2>1, <2>2 DEF OpenIsNested, LevelOf
<1>8. ClosedForAReason'
  <2> SUFFICES ASSUME NEW m \in SectionNodes
               PROVE  \/ \E k \in DOMAIN open' : open'[k] = m
                      \/ \E k \in DOMAIN open' : m < open'[k] /\ LevelOf(open'[k]) <= LevelOf(m)
                      \/ HeadingComes(LevelOf(m))
    BY <1>2, <1>5 DEF ClosedForAReason, HeadingComes, LevelOf, Walking, Here
  <2>1. LevelOf(m) \in Nat /\ body.level[i] \in Nat /\ \A k \in DOMAIN open : LevelOf(open[k]) \in Nat
    BY SectionsHaveLevels DEF IInv, WalkTypeOK, BodyOK, OpenIsNested
  <2>2. CASE \E k \in DOMAIN open : open[k] = m
    BY <1>1, <1>3, <1>4, <2>2 DEF HeadingComes
  <2>3. CASE \E k \in DOMAIN open : m < open[k] /\ LevelOf(open[k]) <= LevelOf(m)
    BY <1>1, <1>3, <1>4, <2>1, <2>3 DEF HeadingComes
  <2> QED BY <2>2, <2>3 DEF IInv, ClosedForAReason
<1>9. SectionsByLevel'
  BY <1>2 DEF IInv, SectionsByLevel, SectionNodes, LevelOf
<1> QED BY <1>6, <1>7, <1>8, <1>9 DEF IInv

\* A new section goes below the innermost one: all later ones have been closed
\* by a heading that is not lower, and none of those is open any more, so the
\* reason is the new section's own heading.
LEMMA OpeningSection ==
  ASSUME IInv, NEW i \in Item, i = next, OpenSection(i)
  PROVE  IInv'
<1> DEFINE n == Len(nodes) + 1
           new == <<Node(i, "section", Innermost)>>
<1>1. new \in Seq(Place) /\ nodes \in Seq(Place) /\ Node(i, "section", Innermost) \in Place
  BY InnermostIsLast DEF Node, Place, NodeTypes, IInv, WalkTypeOK
<1>2. nodes' = nodes \o new
  <2> DEFINE node == Node(i, "section", Innermost)
  <2>1. nodes' = Append(nodes, node) /\ new = <<node>> /\ node \in Place
    BY <1>1 DEF OpenSection
  <2> HIDE DEF node, new
  <2> QED BY <1>1, <2>1
<1>3. body' = body /\ open' = Append(open, n) /\ open \in Seq(Nat)
  BY DEF OpenSection, Arrive, IInv, WalkTypeOK
<1>4. /\ nodes' \in Seq(Place) /\ n \in DOMAIN nodes' /\ nodes'[n] = Node(i, "section", Innermost)
      /\ \A m \in DOMAIN nodes : m < n /\ m \in DOMAIN nodes' /\ nodes'[m] = nodes[m]
      /\ \A m \in DOMAIN nodes' : m = n \/ m \in DOMAIN nodes
  BY <1>1, <1>2
<1>5. body.label[i] \in Headings /\ Walking(next, Headings)
  BY DEF OpenSection, Walking
<1>6. SectionNodes' = SectionNodes \cup {n}
  BY <1>3, <1>4, <1>5 DEF SectionNodes, Node
<1>7. /\ \A m \in SectionNodes : m < n /\ LevelOf(m)' = LevelOf(m) /\ nodes'[m].under = nodes[m].under
      /\ body'.level[nodes'[n].item] = body.level[i] /\ nodes'[n].under = Innermost
  BY <1>3, <1>4 DEF SectionNodes, LevelOf, Node
<1>8. body.level[i] \in Nat /\ \A m \in SectionNodes : m \in Nat /\ LevelOf(m) \in Nat
  BY SectionsHaveLevels DEF IInv, WalkTypeOK, BodyOK
<1>9. open # <<>> => LevelOf(Innermost) < body.level[i]
  BY <1>8, InnermostIsLast DEF OpenSection, Closes, LevelOf
<1>10. \A m \in SectionNodes : m > Innermost => body.level[i] <= LevelOf(m)
  <2> SUFFICES ASSUME NEW m \in SectionNodes, m > Innermost PROVE body.level[i] <= LevelOf(m)
    OBVIOUS
  <2>1. \A k \in DOMAIN open : open[k] <= Innermost /\ open[k] \in Nat
    BY <1>3, InnermostIsLast
  <2>2. ~(\E k \in DOMAIN open : open[k] = m) /\ ~(\E k \in DOMAIN open : m < open[k])
    BY <1>8, <2>1, InnermostIsLast
  <2> QED BY <2>2 DEF IInv, ClosedForAReason, HeadingComes
<1>11. /\ open' \in Seq(Nat) /\ Len(open) + 1 \in DOMAIN open' /\ open'[Len(open) + 1] = n
       /\ \A k \in DOMAIN open : k < Len(open) + 1 /\ k \in DOMAIN open' /\ open'[k] = open[k]
       /\ \A k \in DOMAIN open' : k = Len(open) + 1 \/ k \in DOMAIN open
  BY <1>1, <1>3
<1>12. WalkTypeOK'
  <2>1. attach' \in [0 .. MaxItems -> Int]
    BY <1>1, Arriving DEF OpenSection
  <2> QED BY <1>3, <1>4, <1>11, <2>1 DEF IInv, WalkTypeOK, BodyOK
<1>13. \A k \in DOMAIN open : open[k] \in SectionNodes /\ open[k] <= Innermost
                              /\ LevelOf(open[k]) <= LevelOf(Innermost)
  <2> SUFFICES ASSUME NEW k \in DOMAIN open
               PROVE  /\ open[k] \in SectionNodes /\ open[k] <= Innermost
                      /\ LevelOf(open[k]) <= LevelOf(Innermost)
    OBVIOUS
  <2>1. open # <<>> /\ (k = Len(open) \/ k < Len(open))
    BY <1>3
  <2>2. open[k] \in SectionNodes
    BY DEF IInv, OpenIsNested
  <2>3. k < Len(open) => LevelOf(open[k]) < LevelOf(Innermost)
    BY <2>1, InnermostIsLast DEF IInv, OpenIsNested
  <2> QED BY <1>8, <2>1, <2>2, <2>3, InnermostIsLast
<1> HIDE DEF n, new
<1>14. OpenIsNested'
  <2>1. \A k \in DOMAIN open' : open'[k] \in SectionNodes'
    BY <1>6, <1>11, <1>13
  <2>2. \A j, k \in DOMAIN open' :
          j < k => open'[j] < open'[k] /\ body'.level[nodes'[open'[j]].item]
                                           < body'.level[nodes'[open'[k]].item]
    <3> SUFFICES ASSUME NEW j \in DOMAIN open', NEW k \in DOMAIN open', j < k
                 PROVE  open'[j] < open'[k] /\ body'.level[nodes'[open'[j]].item]
                                                  < body'.level[nodes'[open'[k]].item]
      OBVIOUS
    <3>1. j \in DOMAIN open /\ open'[j] = open[j]
      BY <1>3, <1>11
    <3>2. body'.level[nodes'[open'[j]].item] = LevelOf(open[j])
      BY <1>7, <1>13, <3>1 DEF LevelOf
    <3>3. CASE k \in DOMAIN open
      <4>1. open'[k] = open[k] /\ body'.level[nodes'[open'[k]].item] = LevelOf(open[k])
        BY <1>7, <1>11, <1>13, <3>3 DEF LevelOf
      <4> QED BY <3>1, <3>2, <3>3, <4>1 DEF IInv, OpenIsNested
    <3>4. CASE k = Len(open) + 1
      <4>1. open'[k] = n /\ body'.level[nodes'[open'[k]].item] = body.level[i]
        BY <1>7, <1>11, <3>4 DEF LevelOf
      <4>2. open # <<>>
        BY <3>1
      <4> QED BY <1>7, <1>8, <1>9, <1>13, <3>1, <3>2, <4>1, <4>2, InnermostIsLast
    <3> QED BY <1>11, <3>3, <3>4
  <2> QED BY <2>1, <2>2 DEF OpenIsNested, LevelOf
<1>15. ClosedForAReason'
  <2> SUFFICES ASSUME NEW m \in SectionNodes'
               PROVE  \/ \E k \in DOMAIN open' : open'[k] = m
                      \/ \E k \in DOMAIN open' : /\ m < open'[k]
                             /\ body'.level[nodes'[open'[k]].item] <= body'.level[nodes'[m].item]
    BY DEF ClosedForAReason, LevelOf
  <2>1. CASE m = n
    BY <1>11, <2>1
  <2>2. CASE m # n
    <3>1. m \in SectionNodes /\ body'.level[nodes'[m].item] = LevelOf(m) /\ m < n
      BY <1>6, <1>7, <2>2 DEF LevelOf
    <3>2. CASE \E k \in DOMAIN open : open[k] = m
      BY <1>11, <3>2
    <3>3. CASE \E k \in DOMAIN open : m < open[k] /\ LevelOf(open[k]) <= LevelOf(m)
      <4>1. PICK k \in DOMAIN open : m < open[k] /\ LevelOf(open[k]) <= LevelOf(m)
        BY <3>3
      <4>2. k \in DOMAIN open' /\ open'[k] = open[k]
            /\ body'.level[nodes'[open'[k]].item] = LevelOf(open[k])
        BY <1>7, <1>11, <1>13 DEF LevelOf
      <4> QED BY <3>1, <4>1, <4>2
    <3>4. CASE HeadingComes(LevelOf(m))
      <4>1. body'.level[nodes'[open'[Len(open) + 1]].item] = body.level[i]
        BY <1>7, <1>11 DEF LevelOf
      <4> QED BY <1>11, <3>1, <3>4, <4>1 DEF HeadingComes
    <3> QED BY <3>1, <3>2, <3>3, <3>4 DEF IInv, ClosedForAReason
  <2> QED BY <2>1, <2>2
<1>16. SectionsByLevel'
  <2> DEFINE Higher(m) == {l \in SectionNodes' : l < m /\ LevelOf(l)' < LevelOf(m)'}
  <2> SUFFICES ASSUME NEW m \in SectionNodes'
               PROVE  IF Higher(m) = {} THEN nodes'[m].under = 0
                      ELSE nodes'[m].under \in Higher(m) /\ \A l \in Higher(m) : l <= nodes'[m].under
    BY DEF SectionsByLevel
  <2>1. n \in Nat
    BY <1>1 DEF n
  <2>2. CASE m = n
    <3>1. Higher(m) = {l \in SectionNodes : LevelOf(l) < body.level[i]}
      <4>1. LevelOf(m)' = body.level[i]
        BY <1>7, <2>2 DEF LevelOf
      <4>2. \A l \in SectionNodes' : l < m => l \in SectionNodes /\ LevelOf(l)' = LevelOf(l)
        BY <1>6, <1>7, <2>1, <2>2
      <4>3. \A l \in SectionNodes : l \in SectionNodes' /\ l < m /\ LevelOf(l)' = LevelOf(l)
        BY <1>6, <1>7, <2>2
      <4> QED BY <4>1, <4>2, <4>3
    <3>2. \A l \in Higher(m) : l <= Innermost
      BY <1>8, <1>10, <3>1, InnermostIsLast
    <3>3. CASE open = <<>>
      <4>1. Innermost = 0
        BY <3>3 DEF Innermost
      <4>2. \A l \in SectionNodes : l > 0
        BY SectionsHaveLevels
      <4> QED BY <1>7, <1>8, <2>2, <3>1, <3>2, <4>1, <4>2
    <3>4. CASE open # <<>>
      BY <1>7, <1>9, <2>2, <3>1, <3>2, <3>4, InnermostIsLast
    <3> QED BY <3>3, <3>4
  <2>3. CASE m # n
    <3>1. m \in SectionNodes
      BY <1>6, <2>3
    <3>2. Higher(m) = {l \in SectionNodes : l < m /\ LevelOf(l) < LevelOf(m)}
      BY <1>6, <1>7, <1>8, <2>1, <3>1
    <3> QED BY <1>7, <3>1, <3>2 DEF IInv, SectionsByLevel
  <2> QED BY <2>2, <2>3
<1> QED BY <1>12, <1>14, <1>15, <1>16 DEF IInv

---------------------------------------------------------------------------
\* The inductive invariant: the open sections are nested, and every closed one
\* has been closed by a heading that is not lower.
THEOREM WalkInvariant == WalkSpec => []IInv
<1>1. WalkInit => IInv
  BY InitHolds
<1>2. ASSUME IInv, [WalkNext]_wvars PROVE IInv'
  <2>1. ASSUME WalkNext PROVE IInv'
    <3>1. next \in Item
      BY <2>1 DEF WalkNext, Walk, PassOver, EnterGroup, AddLeaf, CloseSection, OpenSection,
                  AddContent, Walking
    <3> QED BY <1>2, <2>1, <3>1, PassingOver, AddingLeaf, AddingContent, ClosingSection,
               OpeningSection DEF WalkNext, Walk
  <2>2. CASE UNCHANGED wvars
    BY <1>2, <2>2 DEF wvars, IInv, WalkTypeOK, BodyOK, OpenIsNested, ClosedForAReason,
       SectionsByLevel, HeadingComes, Walking, Here, SectionNodes, LevelOf
  <2> QED BY <1>2, <2>1, <2>2
<1> QED BY <1>1, <1>2, PTL DEF WalkSpec

\* In every body the sections are nested by the levels of their headings
\* (extract_docling.py, the heading-level stack).
THEOREM OutlineByLevel == WalkSpec => []SectionsByLevel
<1>1. IInv => SectionsByLevel
  BY DEF IInv
<1> QED BY <1>1, WalkInvariant, PTL

---------------------------------------------------------------------------
\* Recursion down a tree whose items come after their parents.  A set of
\* natural numbers has a least member.
LEMMA LeastMember ==
  ASSUME NEW S, S \subseteq Nat, S # {}
  PROVE  \E m \in S : \A n \in S : m <= n
<1> DEFINE R == {ss \in Nat \X Nat : ss[1] < ss[2]}
<1>1. IsWellFoundedOn(R, Nat)
  BY NatLessThanWellFounded DEF OpToRel
<1>2. \A m, n \in Nat : n < m => <<n, m>> \in R
  OBVIOUS
<1> HIDE DEF R
<1>3. PICK m \in S : \A n \in S : <<n, m>> \notin R
  BY <1>1, WFMin
<1>4. ASSUME NEW n \in S PROVE m <= n
  <2>1. n \in Nat /\ m \in Nat
    OBVIOUS
  <2>2. ~(n < m)
    BY <1>2, <1>3, <2>1
  <2> QED
    BY <2>1, <2>2
<1> QED
  BY <1>4

\* A function may be defined at each number from its value at a smaller one.
Downward(above, last) == \A i \in 1 .. last : above[i] \in 0 .. i - 1
Recurs(g, last, above, base, step) ==
  \A i \in 0 .. last : g[i] = IF i = 0 THEN base ELSE step[i][g[above[i]]]

LEMMA DownwardRecursion ==
  ASSUME NEW last \in Nat, NEW above, Downward(above, last),
         NEW V, NEW base \in V, NEW step \in [1 .. last -> [V -> V]]
  PROVE  \E g \in [0 .. last -> V] : Recurs(g, last, above, base, step)
<1> USE DEF Downward
<1> DEFINE Value(g, i) == IF i = 0 THEN base ELSE step[i][g[above[i]]]
           UpTo(k) == \E g \in [0 .. k -> V] : \A i \in 0 .. k : g[i] = Value(g, i)
           Bad == {k \in 0 .. last : ~UpTo(k)}
<1>1. UpTo(0)
  <2> DEFINE g == [i \in 0 .. 0 |-> base]
  <2>1. g \in [0 .. 0 -> V] /\ \A i \in 0 .. 0 : i = 0 /\ g[i] = base
    OBVIOUS
  <2> HIDE DEF g
  <2>2. \A i \in 0 .. 0 : g[i] = Value(g, i)
    BY <2>1
  <2> QED
    BY <2>1, <2>2
<1>2. ASSUME NEW k \in 1 .. last, UpTo(k - 1) PROVE UpTo(k)
  <2>1. PICK g \in [0 .. k - 1 -> V] : \A i \in 0 .. k - 1 : g[i] = Value(g, i)
    BY <1>2
  <2>2. ASSUME NEW i \in 0 .. k, i # 0 PROVE i \in 1 .. last /\ above[i] \in 0 .. k - 1
    BY <2>2
  <2>3. ASSUME NEW i \in 0 .. k PROVE Value(g, i) \in V
    <3>1. CASE i = 0
      BY <3>1
    <3>2. CASE i # 0
      BY <2>2, <3>2
    <3> QED
      BY <3>1, <3>2
  <2> HIDE DEF Value
  <2> DEFINE h == [i \in 0 .. k |-> Value(g, i)]
  <2>4. h \in [0 .. k -> V] /\ \A i \in 0 .. k : h[i] = Value(g, i)
    BY <2>3
  <2> HIDE DEF h
  <2>5. ASSUME NEW i \in 0 .. k PROVE Value(h, i) = Value(g, i)
    <3>1. CASE i = 0
      BY <3>1 DEF Value
    <3>2. CASE i # 0
      <4>1. above[i] \in 0 .. k - 1 /\ above[i] \in 0 .. k
        BY <2>2, <3>2
      <4>2. h[above[i]] = g[above[i]]
        BY <2>1, <2>4, <4>1
      <4> QED
        BY <4>2 DEF Value
    <3> QED
      BY <3>1, <3>2
  <2>6. \A i \in 0 .. k : h[i] = Value(h, i)
    BY <2>4, <2>5
  <2> QED
    BY <2>4, <2>6
<1>3. Bad = {}
  <2> SUFFICES ASSUME Bad # {} PROVE FALSE
    OBVIOUS
  <2>1. Bad \subseteq Nat
    OBVIOUS
  <2> HIDE DEF Bad
  <2>2. PICK m \in Bad : \A n \in Bad : m <= n
    BY <2>1, LeastMember
  <2> USE DEF Bad
  <2> HIDE DEF UpTo
  <2>3. m \in 0 .. last /\ m # 0
    BY <1>1
  <2>4. m - 1 \in 0 .. last /\ m - 1 \notin Bad
    <3> HIDE DEF Bad
    <3> QED
      BY <2>2, <2>3
  <2> QED
    BY <1>2, <2>3, <2>4
<1>4. UpTo(last)
  <2>1. last \in 0 .. last
    OBVIOUS
  <2> HIDE DEF UpTo
  <2> QED
    BY <1>3, <2>1
<1> QED
  BY <1>4 DEF Recurs

\* A list of nodes in which each is under an earlier one, or at the top.
Rooted(tree) == tree \in Seq(Place) /\ \A n \in 1 .. Len(tree) : tree[n].under \in 0 .. n - 1

\* AboveIn is what its recursive definition says.
LEMMA AboveUnfold ==
  ASSUME NEW tree, Rooted(tree)
  PROVE  /\ AboveIn(tree)[0] = {}
         /\ \A n \in 1 .. Len(tree) : AboveIn(tree)[n] = {n} \cup AboveIn(tree)[tree[n].under]
<1> DEFINE Up(g, n) == IF n = 0 THEN {} ELSE {n} \cup g[tree[n].under]
           step == [n \in 1 .. Len(tree) |-> [v \in SUBSET Nat |-> {n} \cup v]]
           above == [n \in 1 .. Len(tree) |-> tree[n].under]
<1>1. AboveIn(tree) = CHOOSE g : g = [n \in 0 .. Len(tree) |-> Up(g, n)]
  BY DEF AboveIn
<1>2. \E g : g = [n \in 0 .. Len(tree) |-> Up(g, n)]
  <2> DEFINE V == SUBSET Nat
  <2>1. Len(tree) \in Nat /\ Downward(above, Len(tree))
    BY DEF Rooted, Downward
  <2>2. step \in [1 .. Len(tree) -> [V -> V]]
    <3>1. \A n \in 1 .. Len(tree) : \A v \in V : {n} \cup v \in V
      BY <2>1
    <3> QED
      BY <3>1
  <2>3. {} \in V
    OBVIOUS
  <2> HIDE DEF above, step, V
  <2>4. PICK g \in [0 .. Len(tree) -> V] : Recurs(g, Len(tree), above, {}, step)
    BY <2>1, <2>2, <2>3, DownwardRecursion
  <2> USE DEF above, step, V, Recurs, Downward
  <2>5. ASSUME NEW n \in 0 .. Len(tree) PROVE g[n] = Up(g, n)
    <3>1. CASE n = 0
      BY <2>4, <3>1
    <3>2. CASE n # 0
      <4>1. n \in 1 .. Len(tree) /\ above[n] \in 0 .. Len(tree)
        BY <2>1, <3>2
      <4>2. g[above[n]] \in V
        BY <4>1
      <4> QED
        BY <2>4, <3>2, <4>1, <4>2
    <3> QED
      BY <3>1, <3>2
  <2> HIDE DEF Up
  <2>6. g = [n \in 0 .. Len(tree) |-> Up(g, n)]
    BY <2>5
  <2> QED
    BY <2>6
<1> HIDE DEF Up
<1>3. AboveIn(tree) = [n \in 0 .. Len(tree) |-> Up(AboveIn(tree), n)]
  BY <1>1, <1>2
<1>4. Len(tree) \in Nat
  BY DEF Rooted
<1>5. \A n \in 0 .. Len(tree) : AboveIn(tree)[n] = Up(AboveIn(tree), n)
  BY <1>3
<1>6. 0 \in 0 .. Len(tree) /\ \A n \in 1 .. Len(tree) : n \in 0 .. Len(tree) /\ n # 0
  BY <1>4
<1> QED
  BY <1>5, <1>6 DEF Up

\* What is above a node does not change when others follow.
LEMMA AboveStays ==
  ASSUME NEW tree, Rooted(tree), NEW more, Rooted(more),
         Len(tree) <= Len(more), \A n \in 1 .. Len(tree) : more[n] = tree[n]
  PROVE  \A n \in 0 .. Len(tree) : AboveIn(more)[n] = AboveIn(tree)[n]
<1> DEFINE Bad == {n \in 0 .. Len(tree) : AboveIn(more)[n] # AboveIn(tree)[n]}
<1> SUFFICES ASSUME Bad # {} PROVE FALSE
  OBVIOUS
<1>1. Len(tree) \in Nat /\ Len(more) \in Nat
  BY DEF Rooted
<1>2. Bad \subseteq Nat
  BY <1>1
<1> HIDE DEF Bad
<1>3. PICK m \in Bad : \A n \in Bad : m <= n
  BY <1>2, LeastMember
<1>4. m \in 0 .. Len(tree) /\ AboveIn(more)[m] # AboveIn(tree)[m]
  BY DEF Bad
<1>5. CASE m = 0
  BY <1>4, <1>5, AboveUnfold
<1>6. CASE m # 0
  <2>1. m \in 1 .. Len(tree) /\ m \in 1 .. Len(more) /\ more[m] = tree[m]
    BY <1>1, <1>4, <1>6
  <2>2. tree[m].under \in 0 .. m - 1
    BY <2>1 DEF Rooted
  <2>3. tree[m].under \in 0 .. Len(tree) /\ tree[m].under \notin Bad
    BY <1>1, <1>3, <2>1, <2>2
  <2>4. AboveIn(more)[tree[m].under] = AboveIn(tree)[tree[m].under]
    BY <2>3 DEF Bad
  <2>5. AboveIn(tree)[m] = {m} \cup AboveIn(tree)[tree[m].under]
    BY <2>1, AboveUnfold
  <2>6. AboveIn(more)[m] = {m} \cup AboveIn(more)[tree[m].under]
    BY <2>1, AboveUnfold
  <2> QED
    BY <1>4, <2>4, <2>5, <2>6
<1> QED
  BY <1>5, <1>6

---------------------------------------------------------------------------
\* The tree against the body.  Between two items that share a parent come only
\* what is below the first of them.
BodyIsTree ==
  \A i \in Item :
    /\ body.up[i] \in 0 .. i - 1
    /\ \A k \in Item : body.up[i] < k /\ k < i => body.up[i] <= body.up[k]
BodyShape == BodyOK /\ BodyIsTree

LEMMA BodiesHaveShape ==
  ASSUME NEW V \in Vocabularies, NEW things \in [Item -> V], NEW up \in BodyTrees,
         NEW captions \in Claims, body = Body(things, up, captions)
  PROVE  BodyShape
<1>1. body.up = up
  BY DEF Body
<1>2. BodyIsTree
  <2>1. ASSUME NEW i \in Item
        PROVE  /\ up[i] \in 0 .. i - 1
               /\ \A k \in Item : up[i] < k /\ k < i => up[i] <= up[k]
    <3>1. up[i] \in Nat /\ up[i] < i /\ i \in Nat
      BY BodyAssumption DEF BodyTrees, Item
    <3>2. ASSUME NEW k \in Item, up[i] < k, k < i PROVE up[i] <= up[k]
      <4>1. i > 1
        BY <3>2 DEF Item
      <4>2. up[k] >= up[i]
        BY <3>2, <4>1 DEF BodyTrees
      <4>3. up[k] \in Nat
        BY BodyAssumption DEF BodyTrees, Item
      <4> QED
        BY <3>1, <4>2, <4>3
    <3> QED
      BY <3>1, <3>2
  <2> QED
    BY <1>1, <2>1 DEF BodyIsTree
<1> QED
  BY <1>2, BodiesAreOK DEF BodyShape

\* HiddenBy and InGroups are what their recursive definitions say.
LEMMA HiddenUnfold ==
  ASSUME BodyShape
  PROVE  /\ HiddenBy \in [0 .. MaxItems -> BOOLEAN]
         /\ ~HiddenBy[0]
         /\ \A i \in Item : HiddenBy[i] <=> Hides(i) \/ HiddenBy[body.up[i]]
<1> DEFINE Up(g, i) == IF i = 0 THEN FALSE ELSE Hides(i) \/ g[body.up[i]]
           step == [i \in 1 .. MaxItems |-> [v \in BOOLEAN |-> Hides(i) \/ v]]
<1>1. HiddenBy = CHOOSE g : g = [i \in 0 .. MaxItems |-> Up(g, i)]
  BY DEF HiddenBy
<1>2. MaxItems \in Nat /\ Downward(body.up, MaxItems)
  BY BodyAssumption DEF Downward, BodyShape, BodyIsTree, Item
<1>3. \E g \in [0 .. MaxItems -> BOOLEAN] : g = [i \in 0 .. MaxItems |-> Up(g, i)]
  <2>1. step \in [1 .. MaxItems -> [BOOLEAN -> BOOLEAN]]
    <3>1. \A i \in 1 .. MaxItems : \A v \in BOOLEAN : (Hides(i) \/ v) \in BOOLEAN
      OBVIOUS
    <3> QED
      BY <3>1
  <2>2. FALSE \in BOOLEAN
    OBVIOUS
  <2> HIDE DEF step
  <2>3. PICK g \in [0 .. MaxItems -> BOOLEAN] : Recurs(g, MaxItems, body.up, FALSE, step)
    BY <1>2, <2>1, <2>2, DownwardRecursion
  <2>4. ASSUME NEW i \in 0 .. MaxItems PROVE g[i] = Up(g, i)
    <3>1. CASE i = 0
      BY <2>3, <3>1 DEF Recurs
    <3>2. CASE i # 0
      <4>1. i \in 1 .. MaxItems /\ body.up[i] \in 0 .. MaxItems
        BY <1>2, <3>2 DEF Downward
      <4>2. g[body.up[i]] \in BOOLEAN
        BY <4>1
      <4>3. g[i] = step[i][g[body.up[i]]]
        BY <2>3, <3>2 DEF Recurs
      <4>4. step[i][g[body.up[i]]] = (Hides(i) \/ g[body.up[i]])
        BY <4>1, <4>2 DEF step
      <4> QED
        BY <3>2, <4>3, <4>4
    <3> QED
      BY <3>1, <3>2
  <2> HIDE DEF Up
  <2>5. g = [i \in 0 .. MaxItems |-> Up(g, i)]
    BY <2>4
  <2> QED
    BY <2>5
<1> HIDE DEF Up
<1>4. HiddenBy = [i \in 0 .. MaxItems |-> Up(HiddenBy, i)]
  BY <1>1, <1>3
<1>5. \A i \in 0 .. MaxItems : HiddenBy[i] = Up(HiddenBy, i)
  BY <1>4
<1>6. \A i \in 0 .. MaxItems : Up(HiddenBy, i) \in BOOLEAN
  BY DEF Up
<1>7. 0 \in 0 .. MaxItems /\ \A i \in Item : i \in 0 .. MaxItems /\ i # 0
  BY <1>2 DEF Item
<1>8. HiddenBy \in [0 .. MaxItems -> BOOLEAN]
  BY <1>4, <1>6
<1>9. HiddenBy[0] = Up(HiddenBy, 0) /\ \A i \in Item : HiddenBy[i] = Up(HiddenBy, i)
  BY <1>5, <1>7
<1> QED
  BY <1>7, <1>8, <1>9 DEF Up

LEMMA GroupsUnfold ==
  ASSUME BodyShape
  PROVE  /\ InGroups \in [0 .. MaxItems -> BOOLEAN]
         /\ InGroups[0]
         /\ \A i \in Item : InGroups[i] <=> body.label[i] = "group" /\ InGroups[body.up[i]]
<1> DEFINE Up(g, i) == i = 0 \/ (body.label[i] = "group" /\ g[body.up[i]])
           step == [i \in 1 .. MaxItems |-> [v \in BOOLEAN |-> body.label[i] = "group" /\ v]]
<1>1. InGroups = CHOOSE g : g = [i \in 0 .. MaxItems |-> Up(g, i)]
  BY DEF InGroups
<1>2. MaxItems \in Nat /\ Downward(body.up, MaxItems)
  BY BodyAssumption DEF Downward, BodyShape, BodyIsTree, Item
<1>3. \E g \in [0 .. MaxItems -> BOOLEAN] : g = [i \in 0 .. MaxItems |-> Up(g, i)]
  <2>1. step \in [1 .. MaxItems -> [BOOLEAN -> BOOLEAN]]
    <3>1. \A i \in 1 .. MaxItems : \A v \in BOOLEAN : (body.label[i] = "group" /\ v) \in BOOLEAN
      OBVIOUS
    <3> QED
      BY <3>1
  <2>2. TRUE \in BOOLEAN
    OBVIOUS
  <2> HIDE DEF step
  <2>3. PICK g \in [0 .. MaxItems -> BOOLEAN] : Recurs(g, MaxItems, body.up, TRUE, step)
    BY <1>2, <2>1, <2>2, DownwardRecursion
  <2>4. ASSUME NEW i \in 0 .. MaxItems PROVE g[i] = Up(g, i)
    <3>1. CASE i = 0
      BY <2>3, <3>1 DEF Recurs
    <3>2. CASE i # 0
      <4>1. i \in 1 .. MaxItems /\ body.up[i] \in 0 .. MaxItems
        BY <1>2, <3>2 DEF Downward
      <4>2. g[body.up[i]] \in BOOLEAN
        BY <4>1
      <4>3. g[i] = step[i][g[body.up[i]]]
        BY <2>3, <3>2 DEF Recurs
      <4>4. step[i][g[body.up[i]]] = (body.label[i] = "group" /\ g[body.up[i]])
        BY <4>1, <4>2 DEF step
      <4> QED
        BY <3>2, <4>3, <4>4
    <3> QED
      BY <3>1, <3>2
  <2> HIDE DEF Up
  <2>5. g = [i \in 0 .. MaxItems |-> Up(g, i)]
    BY <2>4
  <2> QED
    BY <2>5
<1> HIDE DEF Up
<1>4. InGroups = [i \in 0 .. MaxItems |-> Up(InGroups, i)]
  BY <1>1, <1>3
<1>5. \A i \in 0 .. MaxItems : InGroups[i] = Up(InGroups, i)
  BY <1>4
<1>6. \A i \in 0 .. MaxItems : Up(InGroups, i) \in BOOLEAN
  BY DEF Up
<1>7. 0 \in 0 .. MaxItems /\ \A i \in Item : i \in 0 .. MaxItems /\ i # 0
  BY <1>2 DEF Item
<1>8. InGroups \in [0 .. MaxItems -> BOOLEAN]
  BY <1>4, <1>6
<1>9. InGroups[0] = Up(InGroups, 0) /\ \A i \in Item : InGroups[i] = Up(InGroups, i)
  BY <1>5, <1>7
<1> QED
  BY <1>7, <1>8, <1>9 DEF Up

\* What the items bring, and what those up to an item have brought.
LEMMA Brought ==
  ASSUME BodyShape, NEW i \in Item
  PROVE  Own(i) \in Seq(Item) /\ Brings(i) \in Seq(Item)
<1>1. Own(i) \in Seq(Item)
  BY OwnCaptions DEF BodyShape
<1>2. <<i>> \o Own(i) \in Seq(Item)
  BY <1>1
<1> QED
  BY <1>1, <1>2 DEF Brings

LEMMA ReadingUnfold ==
  ASSUME BodyShape
  PROVE  /\ Reading \in [0 .. MaxItems -> Seq(Item)]
         /\ Reading[0] = <<>>
         /\ \A i \in Item : Reading[i] = Reading[i - 1] \o Brings(i)
<1> DEFINE NextRead(g, i) == IF i = 0 THEN <<>> ELSE g[i - 1] \o Brings(i)
           before == [i \in 1 .. MaxItems |-> i - 1]
           step == [i \in 1 .. MaxItems |-> [v \in Seq(Item) |-> v \o Brings(i)]]
<1>1. Reading = CHOOSE g : g = [i \in 0 .. MaxItems |-> NextRead(g, i)]
  BY DEF Reading
<1>2. MaxItems \in Nat /\ Downward(before, MaxItems)
  BY BodyAssumption DEF Downward
<1>3. \E g : g = [i \in 0 .. MaxItems |-> NextRead(g, i)]
  <2>1. step \in [1 .. MaxItems -> [Seq(Item) -> Seq(Item)]]
    <3>1. \A i \in 1 .. MaxItems : \A v \in Seq(Item) : v \o Brings(i) \in Seq(Item)
      BY Brought DEF Item
    <3> QED
      BY <3>1
  <2>2. <<>> \in Seq(Item)
    OBVIOUS
  <2> HIDE DEF step, before
  <2>3. PICK g \in [0 .. MaxItems -> Seq(Item)] : Recurs(g, MaxItems, before, <<>>, step)
    BY <1>2, <2>1, <2>2, DownwardRecursion
  <2>4. ASSUME NEW i \in 0 .. MaxItems PROVE g[i] = NextRead(g, i)
    <3>1. CASE i = 0
      BY <2>3, <3>1 DEF Recurs
    <3>2. CASE i # 0
      <4>1. i \in 1 .. MaxItems /\ i - 1 \in 0 .. MaxItems /\ before[i] = i - 1
        BY <1>2, <3>2 DEF before
      <4>2. g[i - 1] \in Seq(Item)
        BY <4>1
      <4>3. g[i] = step[i][g[i - 1]]
        BY <2>3, <3>2, <4>1 DEF Recurs
      <4>4. step[i][g[i - 1]] = g[i - 1] \o Brings(i)
        BY <4>1, <4>2 DEF step
      <4> QED
        BY <3>2, <4>3, <4>4
    <3> QED
      BY <3>1, <3>2
  <2> HIDE DEF NextRead
  <2>5. g = [i \in 0 .. MaxItems |-> NextRead(g, i)]
    BY <2>4
  <2> QED
    BY <2>5
<1> HIDE DEF NextRead
<1>4. Reading = [i \in 0 .. MaxItems |-> NextRead(Reading, i)]
  BY <1>1, <1>3
<1>5. \A i \in 0 .. MaxItems : Reading[i] = NextRead(Reading, i)
  BY <1>4
<1>6. 0 \in 0 .. MaxItems /\ \A i \in Item : i \in 0 .. MaxItems /\ i # 0
  BY <1>2 DEF Item
<1>7. Reading[0] = <<>> /\ \A i \in Item : Reading[i] = Reading[i - 1] \o Brings(i)
  BY <1>5, <1>6 DEF NextRead
<1>8. \A i \in 0 .. MaxItems : Reading[i] \in Seq(Item)
  <2> DEFINE Bad == {i \in 0 .. MaxItems : Reading[i] \notin Seq(Item)}
  <2> SUFFICES ASSUME Bad # {} PROVE FALSE
    OBVIOUS
  <2>1. Bad \subseteq Nat
    BY <1>2
  <2> HIDE DEF Bad
  <2>2. PICK m \in Bad : \A n \in Bad : m <= n
    BY <2>1, LeastMember
  <2>3. m \in 0 .. MaxItems /\ Reading[m] \notin Seq(Item)
    BY DEF Bad
  <2>4. m # 0
    <3>1. <<>> \in Seq(Item)
      OBVIOUS
    <3> QED
      BY <1>7, <2>3, <3>1
  <2>5. m \in Item /\ m - 1 \in 0 .. MaxItems /\ m - 1 \notin Bad
    BY <1>2, <2>2, <2>3, <2>4 DEF Item
  <2>6. Reading[m - 1] \in Seq(Item)
    BY <2>5 DEF Bad
  <2>7. Reading[m - 1] \o Brings(m) \in Seq(Item)
    BY <2>5, <2>6, Brought
  <2> QED
    BY <1>7, <2>3, <2>5, <2>7
<1> QED
  BY <1>4, <1>7, <1>8

\* The body does not change, nor what depends on nothing else.
LEMMA BodyIsFixed ==
  ASSUME body' = body
  PROVE  /\ HiddenBy' = HiddenBy /\ InGroups' = InGroups
         /\ BodyShape' = BodyShape /\ FlatHeadings' = FlatHeadings /\ Reading' = Reading
<1>1. HiddenBy' = HiddenBy
  BY DEF HiddenBy, Hides
<1>2. InGroups' = InGroups
  BY DEF InGroups
<1>3. BodyShape' = BodyShape
  BY DEF BodyShape, BodyOK, BodyIsTree
<1>4. FlatHeadings' = FlatHeadings
  BY <1>2 DEF FlatHeadings
<1>5. Claimed' = Claimed /\ \A i : Seen(i)' = Seen(i) /\ Own(i)' = Own(i)
  BY <1>1 DEF Claimed, Seen, Own
<1>6. \A i : Brings(i)' = Brings(i)
  BY <1>5 DEF Brings, Silent
<1>7. Reading' = Reading
  BY <1>6 DEF Reading
<1> QED
  BY <1>1, <1>2, <1>3, <1>4, <1>7

---------------------------------------------------------------------------
\* Nodes are under earlier ones, and items have been given places so far.
AttachedBefore ==
  /\ next \in 1 .. MaxItems + 1
  /\ attach[0] = Sections
  /\ \A i \in 0 .. MaxItems : attach[i] \in {Sections, Nowhere} \cup 1 .. Len(nodes)
  /\ \A n \in 1 .. Len(nodes) : nodes[n].under \in 0 .. n - 1

\* The walk has found no place for what a skipped item hides, and only for that.
HiddenIsNowhere ==
  \A i \in 0 .. MaxItems : i < next => (attach[i] = Nowhere <=> HiddenBy[i])

\* The nodes are what the items that the walk has passed bring.
ReadSoFar ==
  LET read == Reading[next - 1]
  IN  Len(nodes) = Len(read) /\ \A n \in 1 .. Len(nodes) : nodes[n].item = read[n]

TreeInv == BodyShape /\ AttachedBefore /\ HiddenIsNowhere /\ ReadSoFar

\* Where an item's own node is put.
Put(i) == IF body.label[i] \in Headings THEN Innermost ELSE Target(i)

\* The node of i and those of the captions it owns are the new ones.
Adds(i) ==
  /\ nodes' \in Seq(Place) /\ Len(nodes') = Len(nodes) + 1 + Len(Own(i))
  /\ \A m \in 1 .. Len(nodes) : nodes'[m] = nodes[m]
  /\ nodes'[Len(nodes) + 1].item = i /\ nodes'[Len(nodes) + 1].under = Put(i)
  /\ \A k \in 1 .. Len(Own(i)) :
       /\ nodes'[Len(nodes) + 1 + k].item = Own(i)[k]
       /\ nodes'[Len(nodes) + 1 + k].under = Len(nodes) + 1

AddNode(i) == AddLeaf(i) \/ OpenSection(i) \/ AddContent(i)

LEMMA WhereItemsAre ==
  ASSUME IInv, TreeInv, NEW i \in Item, i = next
  PROVE  /\ body.up[i] \in 0 .. MaxItems /\ body.up[i] < next
         /\ Here(i) \in {Sections, Nowhere} \cup 1 .. Len(nodes)
         /\ Here(i) = Nowhere <=> ~Seen(i)
         /\ Innermost \in 0 .. Len(nodes)
         /\ Here(i) # Nowhere => Target(i) \in 0 .. Len(nodes)
         /\ Len(nodes) \in Nat /\ nodes \in Seq(Place)
<1>1. Len(nodes) \in Nat /\ nodes \in Seq(Place)
  BY DEF IInv, WalkTypeOK
<1>2. body.up[i] \in 0 .. MaxItems /\ body.up[i] < next
  BY BodyAssumption DEF TreeInv, BodyShape, BodyIsTree, Item
<1>3. Here(i) \in {Sections, Nowhere} \cup 1 .. Len(nodes)
  BY <1>2 DEF TreeInv, AttachedBefore, Here
<1>4. Here(i) = Nowhere <=> ~Seen(i)
  BY <1>2 DEF TreeInv, HiddenIsNowhere, Here, Seen
<1>5. Innermost \in 0 .. Len(nodes)
  <2>1. CASE open = <<>>
    BY <1>1, <2>1 DEF Innermost
  <2>2. CASE open # <<>>
    <3>1. Len(open) \in DOMAIN open
      BY <2>2 DEF IInv, WalkTypeOK
    <3>2. open[Len(open)] \in DOMAIN nodes
      BY <3>1 DEF IInv, OpenIsNested, SectionNodes
    <3> QED
      BY <1>1, <2>2, <3>2 DEF Innermost
  <2> QED
    BY <2>1, <2>2
<1>6. Here(i) # Nowhere => Target(i) \in 0 .. Len(nodes)
  BY <1>1, <1>3, <1>5 DEF Target
<1> QED
  BY <1>1, <1>2, <1>3, <1>4, <1>5, <1>6

LEMMA Concatenated ==
  ASSUME NEW S, NEW a \in Seq(S), NEW b \in Seq(S)
  PROVE  /\ a \o b \in Seq(S) /\ Len(a \o b) = Len(a) + Len(b)
         /\ \A k \in 1 .. Len(a) : (a \o b)[k] = a[k]
         /\ \A k \in 1 .. Len(b) : (a \o b)[Len(a) + k] = b[k]
<1>1. a \o b \in Seq(S)
  OBVIOUS
<1>2. Len(a \o b) = Len(a) + Len(b)
  OBVIOUS
<1>3. \A k \in 1 .. Len(a) : (a \o b)[k] = a[k]
  OBVIOUS
<1>4. \A k \in 1 .. Len(b) : (a \o b)[Len(a) + k] = b[k]
  OBVIOUS
<1> QED
  BY <1>1, <1>2, <1>3, <1>4

LEMMA AddedNodes ==
  ASSUME IInv, TreeInv, NEW i \in Item, i = next, AddNode(i)
  PROVE  /\ Adds(i) /\ Put(i) \in 0 .. Len(nodes)
         /\ body' = body /\ next' = i + 1
         /\ \E place \in {Nowhere, Len(nodes) + 1} : attach' = [attach EXCEPT ![i] = place]
         /\ Seen(i) /\ ~Silent(i)
<1>1. Walking(i, Headings) \/ Walking(i, MislabelledHeadings) \/ Walking(i, Mapped)
      \/ (Walking(i, {"caption"}) /\ i \notin Claimed)
  BY DEF AddNode, AddLeaf, OpenSection, AddContent
<1>2. Here(i) # Nowhere /\ Seen(i) /\ Put(i) \in 0 .. Len(nodes)
  BY <1>1, WhereItemsAre DEF Walking, Put
<1>3. ~Silent(i)
  BY <1>1 DEF Silent, Walking, Skipped, Headings, MislabelledHeadings, Mapped, CaptionHolders
<1>4. /\ body' = body /\ next' = i + 1
      /\ \E place \in {Nowhere, Len(nodes) + 1} : attach' = [attach EXCEPT ![i] = place]
  BY DEF AddNode, AddLeaf, OpenSection, AddContent, Arrive
<1> DEFINE own == Own(i)
           captions == [k \in DOMAIN own |-> Node(own[k], "caption", Len(nodes) + 1)]
<1>5. own \in Seq(Item)
  BY Brought DEF TreeInv
<1>6. nodes \in Seq(Place) /\ Len(nodes) \in Nat
  BY DEF IInv, WalkTypeOK
<1>7. /\ captions \in Seq(Place) /\ Len(captions) = Len(own)
      /\ \A k \in 1 .. Len(own) : captions[k].item = own[k] /\ captions[k].under = Len(nodes) + 1
  <2>1. \A k \in DOMAIN own : Node(own[k], "caption", Len(nodes) + 1) \in Place
    BY <1>5, <1>6 DEF Node, Place, NodeTypes
  <2> HIDE DEF own
  <2> QED
    BY <1>5, <2>1 DEF Node
<1>8. PICK type \in NodeTypes, more \in Seq(Place) :
        /\ nodes' = Append(nodes, Node(i, type, Put(i))) \o more
        /\ Len(more) = Len(own)
        /\ \A k \in 1 .. Len(own) : more[k].item = own[k] /\ more[k].under = Len(nodes) + 1
  <2>1. CASE AddContent(i)
    <3>1. body.label[i] \in Mapped /\ NodeType(body.label[i]) \in NodeTypes
      BY <2>1 DEF AddContent, Walking, Mapped, NodeType, NodeTypes, CaptionHolders
    <3>2. Put(i) = Target(i)
      BY <3>1 DEF Put, Mapped, Headings, CaptionHolders
    <3>3. nodes' = Append(nodes, Node(i, NodeType(body.label[i]), Put(i))) \o captions
      BY <2>1, <3>2 DEF AddContent
    <3> HIDE DEF captions, own
    <3> QED
      BY <1>7, <3>1, <3>3
  <2>2. CASE AddLeaf(i) \/ OpenSection(i)
    <3>1. body.label[i] \notin CaptionHolders
      BY <2>2 DEF AddLeaf, OpenSection, Walking, Headings, MislabelledHeadings, CaptionHolders
    <3>2. own = <<>>
      BY <3>1 DEF Own
    <3>3. PICK type \in NodeTypes : nodes' = Append(nodes, Node(i, type, Put(i)))
      <4>1. LeafType(i) \in NodeTypes /\ "section" \in NodeTypes
        BY DEF LeafType, NodeTypes
      <4>2. CASE AddLeaf(i)
        BY <4>1, <4>2 DEF AddLeaf, Walking, Headings, MislabelledHeadings, Put
      <4>3. CASE OpenSection(i)
        BY <4>1, <4>3 DEF OpenSection, Walking, Put
      <4> QED
        BY <2>2, <4>2, <4>3
    <3>4. Node(i, type, Put(i)) \in Place
      BY <1>2, <1>6 DEF Node, Place
    <3>5. /\ nodes' = Append(nodes, Node(i, type, Put(i))) \o <<>>
          /\ <<>> \in Seq(Place) /\ Len(<<>>) = 0 /\ Len(own) = 0
      BY <1>6, <3>2, <3>3, <3>4
    <3>6. \A k \in 1 .. 0 : FALSE
      OBVIOUS
    <3> HIDE DEF own
    <3> WITNESS type \in NodeTypes, <<>> \in Seq(Place)
    <3> QED
      BY <3>5, <3>6
  <2> QED
    BY <2>1, <2>2 DEF AddNode
<1> DEFINE node == Node(i, type, Put(i))
<1>9. node \in Place /\ node.item = i /\ node.under = Put(i)
  BY <1>2, <1>6 DEF Node, Place
<1>10. nodes' = Append(nodes, node) \o more
  BY <1>8
<1> HIDE DEF node, own
<1>11. /\ nodes' \in Seq(Place) /\ Len(nodes') = Len(nodes) + 1 + Len(own)
       /\ \A m \in 1 .. Len(nodes) : nodes'[m] = nodes[m]
       /\ nodes'[Len(nodes) + 1] = node
       /\ \A k \in 1 .. Len(own) : nodes'[Len(nodes) + 1 + k] = more[k]
  <2> DEFINE L == Append(nodes, node)
  <2>1. /\ L \in Seq(Place) /\ Len(L) = Len(nodes) + 1 /\ L[Len(nodes) + 1] = node
        /\ \A m \in 1 .. Len(nodes) : L[m] = nodes[m]
    BY <1>6, <1>9
  <2>2. nodes' = L \o more /\ Len(own) \in Nat
    BY <1>8, <1>10
  <2> HIDE DEF L
  <2> DEFINE all == L \o more
  <2>3. /\ all \in Seq(Place) /\ Len(all) = Len(L) + Len(more)
        /\ \A m \in 1 .. Len(L) : all[m] = L[m]
        /\ \A k \in 1 .. Len(more) : all[Len(L) + k] = more[k]
    <3>1. L \in Seq(Place) /\ more \in Seq(Place)
      BY <1>8, <2>1
    <3> QED
      BY <3>1, Concatenated
  <2>4. nodes' = all
    BY <2>2
  <2> HIDE DEF all
  <2>5. nodes' \in Seq(Place) /\ Len(nodes') = Len(nodes) + 1 + Len(own)
    BY <1>8, <2>1, <2>3, <2>4
  <2>6. \A m \in 1 .. Len(nodes) + 1 : nodes'[m] = L[m]
    BY <2>1, <2>3, <2>4
  <2>7. (\A m \in 1 .. Len(nodes) : nodes'[m] = nodes[m]) /\ nodes'[Len(nodes) + 1] = node
    BY <1>6, <2>1, <2>6
  <2>8. \A k \in 1 .. Len(own) : nodes'[Len(nodes) + 1 + k] = more[k]
    BY <1>8, <2>1, <2>3, <2>4
  <2> QED
    BY <2>5, <2>7, <2>8
<1>12. Adds(i)
  BY <1>8, <1>9, <1>11 DEF Adds, own
<1> QED
  BY <1>2, <1>3, <1>4, <1>12

---------------------------------------------------------------------------
\* The old places, the new node's, and those of its captions.
LEMMA Parts ==
  ASSUME NEW a \in Nat, NEW b \in Nat, NEW n \in 1 .. a + 1 + b
  PROVE  n \in 1 .. a \/ n = a + 1 \/ \E k \in 1 .. b : n = a + 1 + k
<1>1. CASE n > a + 1
  <2>1. n - a - 1 \in 1 .. b /\ n = a + 1 + (n - a - 1)
    BY <1>1
  <2> QED
    BY <2>1
<1>2. CASE ~(n > a + 1)
  BY <1>2
<1> QED
  BY <1>1, <1>2

\* The nodes added are what the item brings.
LEMMA ReadingAdded ==
  ASSUME IInv, TreeInv, NEW i \in Item, i = next, AddNode(i)
  PROVE  ReadSoFar'
<1> DEFINE n0 == Len(nodes)
           own == Own(i)
           read == Reading[i - 1]
           now == Reading[i]
           new == <<i>> \o own
<1>1. Adds(i) /\ body' = body /\ next' = i + 1 /\ Seen(i) /\ ~Silent(i)
  BY AddedNodes
<1>2. i - 1 \in 0 .. MaxItems /\ (i + 1) - 1 = i
  BY BodyAssumption DEF Item
<1>3. own \in Seq(Item) /\ read \in Seq(Item) /\ now = read \o new
  BY <1>1, <1>2, Brought, ReadingUnfold DEF TreeInv, Brings
<1>4. n0 = Len(read) /\ \A n \in 1 .. n0 : nodes[n].item = read[n]
  BY DEF TreeInv, ReadSoFar
<1>5. /\ Len(nodes') = n0 + 1 + Len(own)
      /\ \A m \in 1 .. n0 : nodes'[m] = nodes[m]
      /\ nodes'[n0 + 1].item = i
      /\ \A k \in 1 .. Len(own) : nodes'[n0 + 1 + k].item = own[k]
  BY <1>1 DEF Adds
<1>6. Reading'[next' - 1] = now
  BY <1>1, <1>2, BodyIsFixed
<1> HIDE DEF n0, own, read, now
<1>7. /\ new \in Seq(Item) /\ Len(new) = 1 + Len(own) /\ new[1] = i
      /\ \A k \in 1 .. Len(own) : new[1 + k] = own[k]
  <2>1. <<i>> \in Seq(Item) /\ Len(<<i>>) = 1 /\ <<i>>[1] = i /\ 1 \in 1 .. 1
    OBVIOUS
  <2> QED
    BY <1>3, <2>1, Concatenated
<1> HIDE DEF new
<1>8. /\ Len(now) = n0 + Len(new)
      /\ \A n \in 1 .. n0 : now[n] = read[n]
      /\ \A k \in 1 .. Len(new) : now[n0 + k] = new[k]
  <2>1. /\ Len(read \o new) = Len(read) + Len(new)
        /\ \A n \in 1 .. Len(read) : (read \o new)[n] = read[n]
        /\ \A k \in 1 .. Len(new) : (read \o new)[Len(read) + k] = new[k]
    <3>1. read \in Seq(Item) /\ new \in Seq(Item)
      BY <1>3, <1>7
    <3> QED
      BY <3>1, Concatenated
  <2> QED
    BY <1>3, <1>4, <2>1
<1>9. n0 \in Nat /\ Len(own) \in Nat
  BY <1>3, <1>4
<1>10. ASSUME NEW n \in 1 .. Len(nodes') PROVE nodes'[n].item = now[n]
  <2>1. n \in 1 .. n0 \/ n = n0 + 1 \/ \E k \in 1 .. Len(own) : n = n0 + 1 + k
    <3>1. n \in 1 .. n0 + 1 + Len(own)
      BY <1>5
    <3> QED
      BY <1>9, <3>1, Parts
  <2>2. CASE n \in 1 .. n0
    BY <1>4, <1>5, <1>8, <2>2
  <2>3. CASE n = n0 + 1
    <3>1. 1 \in 1 .. Len(new)
      BY <1>7, <1>9
    <3> QED
      BY <1>5, <1>7, <1>8, <2>3, <3>1
  <2>4. CASE \E k \in 1 .. Len(own) : n = n0 + 1 + k
    <3>1. PICK k \in 1 .. Len(own) : n = n0 + 1 + k
      BY <2>4
    <3>2. 1 + k \in 1 .. Len(new) /\ n = n0 + (1 + k)
      BY <1>7, <1>9, <3>1
    <3> QED
      BY <1>5, <1>7, <1>8, <3>1, <3>2
  <2> QED
    BY <2>1, <2>2, <2>3, <2>4
<1>11. Len(nodes') = Len(now)
  BY <1>5, <1>7, <1>8, <1>9
<1> QED
  BY <1>6, <1>10, <1>11 DEF ReadSoFar

LEMMA AddingKeepsTree ==
  ASSUME IInv, TreeInv, NEW i \in Item, i = next, AddNode(i)
  PROVE  TreeInv'
<1> DEFINE n0 == Len(nodes)
           own == Own(i)
<1>1. /\ Adds(i) /\ body' = body /\ next' = i + 1 /\ Put(i) \in 0 .. n0
      /\ Seen(i) /\ ~Silent(i)
  BY AddedNodes
<1>2. PICK place \in {Nowhere, n0 + 1} : attach' = [attach EXCEPT ![i] = place]
  BY AddedNodes
<1>3. own \in Seq(Item) /\ n0 \in Nat
  BY Brought, WhereItemsAre DEF TreeInv
<1>4. /\ nodes' \in Seq(Place) /\ Len(nodes') = n0 + 1 + Len(own)
      /\ \A m \in 1 .. n0 : nodes'[m] = nodes[m]
      /\ nodes'[n0 + 1].under = Put(i)
      /\ \A k \in 1 .. Len(own) : nodes'[n0 + 1 + k].under = n0 + 1
  BY <1>1 DEF Adds
<1> HIDE DEF n0, own
<1>5. Len(own) \in Nat
  BY <1>3
<1>6. ASSUME NEW n \in 1 .. Len(nodes')
      PROVE  n \in 1 .. n0 \/ n = n0 + 1 \/ \E k \in 1 .. Len(own) : n = n0 + 1 + k
  <2>1. n \in 1 .. n0 + 1 + Len(own)
    BY <1>4
  <2> QED
    BY <1>3, <1>5, <2>1, Parts
<1>7. i \in Int /\ next \in Int /\ MaxItems \in Nat /\ i \in 1 .. MaxItems
  BY BodyAssumption DEF Item
<1>8. BodyShape' /\ HiddenBy' = HiddenBy
  BY <1>1, BodyIsFixed DEF TreeInv
<1>9. AttachedBefore'
  <2>1. next' \in 1 .. MaxItems + 1
    BY <1>1, <1>7
  <2>2. \A j \in 0 .. MaxItems : attach'[j] = IF j = i THEN place ELSE attach[j]
    BY <1>2 DEF IInv, WalkTypeOK
  <2>3. attach'[0] = Sections
    BY <1>7, <2>2 DEF TreeInv, AttachedBefore
  <2>4. \A j \in 0 .. MaxItems : attach'[j] \in {Sections, Nowhere} \cup 1 .. Len(nodes')
    <3>1. \A j \in 0 .. MaxItems : attach[j] \in {Sections, Nowhere} \cup 1 .. n0
      BY DEF TreeInv, AttachedBefore, n0
    <3>2. 1 .. n0 \subseteq 1 .. Len(nodes') /\ n0 + 1 \in 1 .. Len(nodes')
      BY <1>3, <1>4, <1>5
    <3> QED
      BY <2>2, <3>1, <3>2
  <2>5. ASSUME NEW n \in 1 .. Len(nodes') PROVE nodes'[n].under \in 0 .. n - 1
    <3>1. CASE n \in 1 .. n0
      <4>1. nodes[n].under \in 0 .. n - 1
        BY <3>1 DEF TreeInv, AttachedBefore, n0
      <4> QED
        BY <1>4, <3>1, <4>1
    <3>2. CASE n = n0 + 1
      BY <1>1, <1>3, <1>4, <3>2
    <3>3. CASE \E k \in 1 .. Len(own) : n = n0 + 1 + k
      <4>1. PICK k \in 1 .. Len(own) : n = n0 + 1 + k
        BY <3>3
      <4>2. nodes'[n].under = n0 + 1
        BY <1>4, <4>1
      <4>3. k \in Nat /\ k > 0
        BY <1>5
      <4> QED
        BY <1>3, <4>1, <4>2, <4>3
    <3> QED
      BY <1>6, <3>1, <3>2, <3>3
  <2> QED
    BY <2>1, <2>3, <2>4, <2>5 DEF AttachedBefore
<1>10. HiddenIsNowhere'
  <2>1. ASSUME NEW j \in 0 .. MaxItems, j < next'
        PROVE  attach'[j] = Nowhere <=> HiddenBy[j]
    <3>1. CASE j # i
      <4>1. attach'[j] = attach[j] /\ j < next
        BY <1>1, <1>2, <1>7, <2>1, <3>1 DEF IInv, WalkTypeOK
      <4> QED
        BY <4>1 DEF TreeInv, HiddenIsNowhere
    <3>2. CASE j = i
      <4>1. attach'[i] = place
        BY <1>2, <1>7 DEF IInv, WalkTypeOK
      <4>2. place = Nowhere <=> AddLeaf(i)
        <5>1. AddLeaf(i) => attach'[i] = Nowhere
          BY <1>7 DEF AddLeaf, Arrive, IInv, WalkTypeOK
        <5>2. OpenSection(i) \/ AddContent(i) => attach'[i] = n0 + 1
          BY <1>7 DEF OpenSection, AddContent, Arrive, IInv, WalkTypeOK, n0
        <5> QED
          BY <1>3, <4>1, <5>1, <5>2 DEF AddNode, Nowhere
      <4>3. HiddenBy[i] <=> Hides(i)
        BY <1>1, HiddenUnfold DEF TreeInv, Seen
      <4>4. Hides(i) <=> AddLeaf(i)
        BY DEF AddNode, AddLeaf, OpenSection, AddContent, Walking, Hides, Headings,
               MislabelledHeadings, Mapped, CaptionHolders, Skipped
      <4> QED
        BY <3>2, <4>1, <4>2, <4>3, <4>4
    <3> QED
      BY <3>1, <3>2
  <2> QED
    BY <1>8, <2>1 DEF HiddenIsNowhere
<1> QED
  BY <1>8, <1>9, <1>10, ReadingAdded DEF TreeInv

LEMMA SkippingKeepsTree ==
  ASSUME IInv, TreeInv, NEW i \in Item, i = next, PassOver(i) \/ EnterGroup(i)
  PROVE  TreeInv'
<1>1. body' = body /\ next' = i + 1 /\ nodes' = nodes
  BY DEF PassOver, EnterGroup, Arrive
<1>2. PICK place \in {Nowhere, Here(i)} : attach' = [attach EXCEPT ![i] = place]
  BY DEF PassOver, EnterGroup, Arrive
<1>3. i \in Int /\ next \in Int /\ MaxItems \in Nat /\ i \in 1 .. MaxItems
  BY BodyAssumption DEF Item
<1>4. BodyShape' /\ Reading' = Reading /\ HiddenBy' = HiddenBy
  BY <1>1, BodyIsFixed DEF TreeInv
<1>5. \A j \in 0 .. MaxItems : attach'[j] = IF j = i THEN place ELSE attach[j]
  BY <1>2 DEF IInv, WalkTypeOK
<1>6. AttachedBefore'
  <2>1. place \in {Sections, Nowhere} \cup 1 .. Len(nodes)
    BY <1>2, WhereItemsAre
  <2> QED
    BY <1>1, <1>3, <1>5, <2>1 DEF TreeInv, AttachedBefore
<1>7. HiddenBy[i] <=> Hides(i) \/ ~Seen(i)
  BY HiddenUnfold DEF TreeInv, Seen
<1>8. attach'[i] = Nowhere <=> HiddenBy[i]
  <2>1. CASE EnterGroup(i)
    <3>1. attach' = [attach EXCEPT ![i] = Here(i)] /\ Here(i) # Nowhere
      BY <2>1 DEF EnterGroup, Arrive, Walking
    <3>2. attach'[i] = Here(i) /\ Seen(i) /\ ~Hides(i)
      BY <1>3, <2>1, <3>1, WhereItemsAre
      DEF IInv, WalkTypeOK, EnterGroup, Walking, Hides, Skipped, MislabelledHeadings
    <3> QED
      BY <1>7, <3>1, <3>2
  <2>2. CASE PassOver(i)
    <3>1. attach'[i] = Nowhere
      BY <1>3, <2>2 DEF PassOver, Arrive, IInv, WalkTypeOK
    <3>2. Hides(i) \/ ~Seen(i)
      BY <2>2, WhereItemsAre DEF PassOver, Walking, Hides
    <3> QED
      BY <1>7, <3>1, <3>2
  <2> QED
    BY <2>1, <2>2
<1>9. HiddenIsNowhere'
  <2>1. ASSUME NEW j \in 0 .. MaxItems, j < next' PROVE attach'[j] = Nowhere <=> HiddenBy[j]
    <3>1. CASE j = i
      BY <1>8, <3>1
    <3>2. CASE j # i
      <4>1. j < next /\ attach'[j] = attach[j]
        BY <1>1, <1>3, <1>5, <2>1, <3>2
      <4> QED
        BY <4>1 DEF TreeInv, HiddenIsNowhere
    <3> QED
      BY <3>1, <3>2
  <2> QED
    BY <1>4, <2>1 DEF HiddenIsNowhere
<1>10. ~Seen(i) \/ Silent(i)
  BY WhereItemsAre DEF PassOver, EnterGroup, Walking, Silent
<1>11. Reading[i] = Reading[i - 1]
  <2>1. Brings(i) = <<>>
    BY <1>10 DEF Brings
  <2>2. Reading[i - 1] \in Seq(Item) /\ Reading[i] = Reading[i - 1] \o <<>>
    <3>1. i - 1 \in 0 .. MaxItems
      BY <1>3
    <3> QED
      BY <2>1, <3>1, ReadingUnfold DEF TreeInv
  <2> QED
    BY <2>2
<1>12. ReadSoFar'
  <2>1. next' - 1 = i
    BY <1>1, <1>3
  <2> QED
    BY <1>1, <1>4, <1>11, <2>1 DEF TreeInv, ReadSoFar
<1> QED
  BY <1>4, <1>6, <1>9, <1>12 DEF TreeInv

\* Closing a section, and standing still, change none of this.
LEMMA TreeUnchanged ==
  ASSUME TreeInv, UNCHANGED <<body, next, attach, nodes>>
  PROVE  TreeInv'
<1>1. BodyShape' /\ HiddenBy' = HiddenBy /\ Reading' = Reading
  BY BodyIsFixed DEF TreeInv
<1> QED
  BY <1>1 DEF TreeInv, AttachedBefore, HiddenIsNowhere, ReadSoFar

LEMMA TreeInit == WalkInit => TreeInv
<1> SUFFICES ASSUME WalkInit PROVE TreeInv
  OBVIOUS
<1>1. BodyShape
  BY BodiesHaveShape DEF WalkInit, Begin
<1>2. /\ next = 1 /\ attach = [i \in 0 .. MaxItems |-> Sections]
      /\ nodes = <<>> /\ Len(nodes) = 0 /\ DOMAIN nodes = {}
  BY DEF WalkInit, Begin
<1>3. AttachedBefore
  BY <1>2, BodyAssumption DEF AttachedBefore
<1>4. HiddenIsNowhere
  <2>1. \A i \in 0 .. MaxItems : i < 1 => i = 0
    OBVIOUS
  <2> QED
    BY <1>1, <1>2, <2>1, HiddenUnfold DEF HiddenIsNowhere, Sections, Nowhere
<1>5. ReadSoFar
  BY <1>1, <1>2, ReadingUnfold DEF ReadSoFar
<1> QED
  BY <1>1, <1>3, <1>4, <1>5 DEF TreeInv

LEMMA NextIsItem ==
  ASSUME WalkNext
  PROVE  next \in Item
BY DEF WalkNext, Walk, PassOver, EnterGroup, AddLeaf, CloseSection, OpenSection, AddContent,
   Walking

\* The nodes are what the items the walk has passed bring, in their order, in
\* every body (extract_docling.py, _build_tree).
THEOREM WalkTreeInvariant == WalkSpec => []TreeInv
<1>1. IInv /\ TreeInv /\ [WalkNext]_wvars => TreeInv'
  <2>1. SUFFICES ASSUME IInv, TreeInv, [WalkNext]_wvars PROVE TreeInv'
    OBVIOUS
  <2>2. CASE UNCHANGED wvars
    BY <2>1, <2>2, TreeUnchanged DEF wvars
  <2>3. CASE WalkNext
    <3>1. next \in Item
      BY <2>3, NextIsItem
    <3>2. CASE CloseSection(next)
      BY <2>1, <3>2, TreeUnchanged DEF CloseSection
    <3>3. CASE PassOver(next) \/ EnterGroup(next)
      BY <2>1, <3>1, <3>3, SkippingKeepsTree
    <3>4. CASE AddNode(next)
      BY <2>1, <3>1, <3>4, AddingKeepsTree
    <3> QED
      BY <2>3, <3>2, <3>3, <3>4 DEF WalkNext, Walk, AddNode
  <2> QED
    BY <2>1, <2>2, <2>3
<1> QED
  BY <1>1, TreeInit, WalkInvariant, PTL DEF WalkSpec

---------------------------------------------------------------------------
\* Reading the tree depth first.  An item that is still to get children has
\* its node on the path to the last one, with all open sections above it.
StillParent(p) == \E i \in Item : next <= i /\ body.up[i] = p
Within(a, b) == b = Nowhere \/ a = Sections \/ (a > 0 /\ b > 0 /\ a \in Above[b])
OpenAbove(n) == \A k \in DOMAIN open : open[k] \in Above[n]
OpenIsChain == \A j, k \in DOMAIN open : j <= k => open[j] \in Above[open[k]]
GroupsAreOpen == \A i \in 0 .. MaxItems : i < next /\ InGroups[i] => attach[i] = Sections
ParentsAreNested ==
  \A p, q \in 0 .. MaxItems : p <= q /\ q < next /\ StillParent(p) => Within(attach[p], attach[q])
ParentsAreAbove ==
  \A p \in 0 .. MaxItems : p < next /\ StillParent(p) /\ attach[p] > 0 =>
    attach[p] \in Above[Len(nodes)] /\ OpenAbove(attach[p])
ReadsOn == \A n \in DOMAIN nodes \ {1} : nodes[n].under \in {0} \cup Above[n - 1]
PathParts ==
  /\ OpenAbove(Len(nodes)) /\ OpenIsChain /\ GroupsAreOpen
  /\ ParentsAreNested /\ ParentsAreAbove /\ ReadsOn
PathInv == FlatHeadings => PathParts

LEMMA NodesAreRooted ==
  ASSUME IInv, TreeInv
  PROVE  Rooted(nodes) /\ Above = AboveIn(nodes)
BY DEF IInv, WalkTypeOK, TreeInv, AttachedBefore, Rooted, Above

LEMMA AboveAdded ==
  ASSUME IInv, TreeInv, NEW i \in Item, Adds(i), Put(i) \in 0 .. Len(nodes), TreeInv'
  PROVE  /\ \A n \in 0 .. Len(nodes) : Above'[n] = Above[n]
         /\ Above'[Len(nodes) + 1] = {Len(nodes) + 1} \cup Above[Put(i)]
         /\ \A n \in Len(nodes) + 1 .. Len(nodes') :
              {Len(nodes) + 1} \cup Above[Put(i)] \subseteq Above'[n]
<1> DEFINE n0 == Len(nodes)
           own == Own(i)
           more == nodes'
<1>1. Rooted(nodes) /\ Above = AboveIn(nodes)
  BY NodesAreRooted
<1>2. /\ more \in Seq(Place) /\ Len(more) = n0 + 1 + Len(own)
      /\ \A m \in 1 .. n0 : more[m] = nodes[m]
      /\ more[n0 + 1].under = Put(i)
      /\ \A k \in 1 .. Len(own) : more[n0 + 1 + k].under = n0 + 1
  BY DEF Adds
<1>3. \A n \in 1 .. Len(more) : more[n].under \in 0 .. n - 1
  BY DEF TreeInv, AttachedBefore
<1>4. Above' = AboveIn(more)
  BY DEF Above
<1>5. own \in Seq(Item)
  BY Brought DEF TreeInv
<1> HIDE DEF n0, own, more
<1>6. Rooted(more)
  BY <1>2, <1>3 DEF Rooted
<1>7. n0 \in Nat /\ Len(own) \in Nat /\ n0 = Len(nodes)
  BY <1>1, <1>5 DEF n0, Rooted
<1>8. \A n \in 0 .. n0 : AboveIn(more)[n] = AboveIn(nodes)[n]
  <2>1. Len(nodes) <= Len(more) /\ \A n \in 1 .. Len(nodes) : more[n] = nodes[n]
    BY <1>2, <1>7
  <2> QED
    BY <1>1, <1>6, <1>7, <2>1, AboveStays
<1>9. AboveIn(more)[n0 + 1] = {n0 + 1} \cup AboveIn(nodes)[Put(i)]
  <2>1. n0 + 1 \in 1 .. Len(more)
    BY <1>2, <1>7
  <2>2. AboveIn(more)[n0 + 1] = {n0 + 1} \cup AboveIn(more)[more[n0 + 1].under]
    BY <1>6, <2>1, AboveUnfold
  <2>3. more[n0 + 1].under = Put(i)
    BY <1>2
  <2> QED
    BY <1>7, <1>8, <2>2, <2>3
<1>10. ASSUME NEW n \in n0 + 1 .. Len(more)
       PROVE  {n0 + 1} \cup AboveIn(nodes)[Put(i)] \subseteq AboveIn(more)[n]
  <2>1. n \in 1 .. n0 + 1 + Len(own) /\ n > n0
    BY <1>2, <1>7
  <2>2. n = n0 + 1 \/ \E k \in 1 .. Len(own) : n = n0 + 1 + k
    <3>1. n \in 1 .. n0 \/ n = n0 + 1 \/ \E k \in 1 .. Len(own) : n = n0 + 1 + k
      BY <1>7, <2>1, Parts
    <3>2. n \notin 1 .. n0
      BY <1>7, <2>1
    <3> QED
      BY <3>1, <3>2
  <2>3. CASE n = n0 + 1
    BY <1>9, <2>3
  <2>4. CASE \E k \in 1 .. Len(own) : n = n0 + 1 + k
    <3>1. PICK k \in 1 .. Len(own) : n = n0 + 1 + k
      BY <2>4
    <3>2. more[n].under = n0 + 1
      BY <1>2, <3>1
    <3>3. n \in 1 .. Len(more)
      BY <1>2, <2>1
    <3>4. AboveIn(more)[n] = {n} \cup AboveIn(more)[n0 + 1]
      BY <1>6, <3>2, <3>3, AboveUnfold
    <3> QED
      BY <1>9, <3>4
  <2> QED
    BY <2>2, <2>3, <2>4
<1> QED
  BY <1>1, <1>4, <1>7, <1>8, <1>9, <1>10 DEF more

\* The facts about the item the walk is at.
LEMMA AtTheItem ==
  ASSUME IInv, TreeInv, FlatHeadings, PathParts, NEW i \in Item, i = next
  PROVE  /\ StillParent(body.up[i])
         /\ body.label[i] \in Headings => Here(i) = Sections
         /\ \A p \in 0 .. MaxItems : p < i /\ StillParent(p)' /\ body' = body /\ next' = i + 1 =>
              StillParent(p) /\ Within(attach[p], Here(i))
<1>1. StillParent(body.up[i])
  BY DEF StillParent, Item
<1>2. body.label[i] \in Headings => Here(i) = Sections
  <2>1. body.label[i] \in Headings => InGroups[body.up[i]]
    BY DEF FlatHeadings
  <2> QED
    BY <2>1, WhereItemsAre DEF PathParts, GroupsAreOpen, Here
<1>3. ASSUME NEW p \in 0 .. MaxItems, p < i, StillParent(p)', body' = body, next' = i + 1
      PROVE  StillParent(p) /\ Within(attach[p], Here(i))
  <2>1. PICK j \in Item : i + 1 <= j /\ body.up[j] = p
    BY <1>3 DEF StillParent
  <2>2. i \in Int /\ j \in Int /\ next <= j /\ i < j
    BY <2>1 DEF Item
  <2>3. StillParent(p)
    BY <2>1, <2>2 DEF StillParent
  <2>4. p <= body.up[i]
    BY <1>3, <2>1, <2>2 DEF TreeInv, BodyShape, BodyIsTree
  <2>5. body.up[i] \in 0 .. MaxItems /\ body.up[i] < next
    BY WhereItemsAre
  <2> QED
    BY <2>3, <2>4, <2>5 DEF PathParts, ParentsAreNested, Here
<1> QED
  BY <1>1, <1>2, <1>3

\* A new node goes below all open sections, on the path to the last node.
LEMMA PutOnPath ==
  ASSUME IInv, TreeInv, FlatHeadings, PathParts, NEW i \in Item, i = next, Here(i) # Nowhere
  PROVE  /\ OpenAbove(Put(i))
         /\ Put(i) \in {0} \cup Above[Len(nodes)]
         /\ \A p \in 0 .. MaxItems : p < i /\ Within(attach[p], Here(i)) =>
              attach[p] = Sections \/ (attach[p] \in Above[Put(i)] /\ body.label[i] \notin Headings)
<1>1. OpenAbove(Innermost) /\ Innermost \in {0} \cup Above[Len(nodes)]
  <2>1. CASE open = <<>>
    <3>1. DOMAIN open = {} /\ Innermost = 0
      BY <2>1 DEF Innermost
    <3> QED
      BY <3>1 DEF OpenAbove
  <2>2. CASE open # <<>>
    <3>1. Len(open) \in DOMAIN open /\ \A k \in DOMAIN open : k <= Len(open)
      BY <2>2 DEF IInv, WalkTypeOK
    <3>2. Innermost = open[Len(open)]
      BY <2>2 DEF Innermost
    <3> QED
      BY <3>1, <3>2 DEF PathParts, OpenIsChain, OpenAbove
  <2> QED
    BY <2>1, <2>2
<1>2. CASE Here(i) = Sections
  <2>1. Put(i) = Innermost
    BY <1>2 DEF Put, Target
  <2>2. \A p \in 0 .. MaxItems : Within(attach[p], Here(i)) => attach[p] = Sections
    BY <1>2 DEF Within, Sections, Nowhere
  <2> QED
    BY <1>1, <2>1, <2>2
<1>3. CASE Here(i) # Sections
  <2>1. body.label[i] \notin Headings
    BY <1>3, AtTheItem
  <2>2. Put(i) = Here(i) /\ Here(i) \in 1 .. Len(nodes) /\ Here(i) > 0
    BY <1>3, <2>1, WhereItemsAre DEF Put, Target
  <2>3. /\ body.up[i] \in 0 .. MaxItems /\ body.up[i] < next /\ StillParent(body.up[i])
        /\ Here(i) = attach[body.up[i]]
    BY WhereItemsAre, AtTheItem DEF Here
  <2>4. Here(i) \in Above[Len(nodes)] /\ OpenAbove(Here(i))
    BY <2>2, <2>3 DEF PathParts, ParentsAreAbove
  <2>5. \A p \in 0 .. MaxItems : Within(attach[p], Here(i)) =>
          attach[p] = Sections \/ attach[p] \in Above[Put(i)]
    BY <2>2 DEF Within, Nowhere
  <2> QED
    BY <2>1, <2>2, <2>4, <2>5
<1> QED
  BY <1>2, <1>3

\* Nodes are numbered from 1; 0 is the top.
LEMMA PositiveAbove ==
  ASSUME IInv, TreeInv, NEW n \in 0 .. Len(nodes)
  PROVE  \A m \in Above[n] : m > 0
<1> DEFINE Bad == {k \in 0 .. Len(nodes) : ~(\A m \in Above[k] : m > 0)}
<1> SUFFICES ASSUME Bad # {} PROVE FALSE
  OBVIOUS
<1>1. Rooted(nodes) /\ Above = AboveIn(nodes) /\ Len(nodes) \in Nat
  BY NodesAreRooted DEF Rooted
<1>2. Bad \subseteq Nat
  BY <1>1
<1> HIDE DEF Bad
<1>3. PICK k \in Bad : \A l \in Bad : k <= l
  BY <1>2, LeastMember
<1>4. k \in 0 .. Len(nodes) /\ ~(\A m \in Above[k] : m > 0)
  BY DEF Bad
<1>5. k \in 1 .. Len(nodes)
  BY <1>1, <1>4, AboveUnfold
<1>6. Above[k] = {k} \cup Above[nodes[k].under] /\ nodes[k].under \in 0 .. k - 1
  BY <1>1, <1>5, AboveUnfold DEF Rooted
<1>7. nodes[k].under \notin Bad /\ nodes[k].under \in 0 .. Len(nodes)
  BY <1>1, <1>3, <1>5, <1>6
<1>8. \A m \in Above[nodes[k].under] : m > 0
  BY <1>7 DEF Bad
<1> QED
  BY <1>4, <1>5, <1>6, <1>8

---------------------------------------------------------------------------
\* The new node is the last on the path; only a heading opens a section, and
\* none stands where a parent has a node of its own.
LEMMA AddingKeepsPath ==
  ASSUME IInv, IInv', TreeInv, TreeInv', FlatHeadings, PathParts, NEW i \in Item, i = next,
         AddNode(i)
  PROVE  PathParts'
<1> DEFINE n0 == Len(nodes)
           p0 == Put(i)
           above == Above'
<1>1. /\ Adds(i) /\ body' = body /\ next' = i + 1 /\ p0 \in 0 .. n0
      /\ Seen(i) /\ body.label[i] # "group"
  BY AddedNodes DEF Silent
<1>2. PICK place \in {Nowhere, n0 + 1} : attach' = [attach EXCEPT ![i] = place]
  BY AddedNodes
<1>3. /\ nodes' \in Seq(Place) /\ Len(nodes') = n0 + 1 + Len(Own(i))
      /\ \A m \in 1 .. n0 : nodes'[m] = nodes[m]
      /\ nodes'[n0 + 1].under = p0
      /\ \A k \in 1 .. Len(Own(i)) : nodes'[n0 + 1 + k].under = n0 + 1
  BY <1>1 DEF Adds
<1>4. n0 \in Nat /\ Len(Own(i)) \in Nat
  BY WhereItemsAre, Brought DEF TreeInv
<1>5. /\ \A n \in 0 .. n0 : above[n] = Above[n]
      /\ above[n0 + 1] = {n0 + 1} \cup Above[p0]
      /\ \A n \in n0 + 1 .. Len(nodes') : {n0 + 1} \cup Above[p0] \subseteq above[n]
  BY <1>1, AboveAdded
<1>6. Here(i) # Nowhere
  BY <1>1, WhereItemsAre
<1>7. /\ OpenAbove(p0) /\ p0 \in {0} \cup Above[n0]
      /\ \A p \in 0 .. MaxItems : p < i /\ Within(attach[p], Here(i)) =>
           attach[p] = Sections \/ (attach[p] \in Above[p0] /\ body.label[i] \notin Headings)
  BY <1>6, PutOnPath
<1>8. \A p \in 0 .. MaxItems :
        p < i /\ StillParent(p)' => StillParent(p) /\ Within(attach[p], Here(i))
  BY <1>1, AtTheItem
<1>9. \/ open' = open
      \/ open' = Append(open, n0 + 1) /\ body.label[i] \in Headings
  BY DEF AddNode, AddLeaf, AddContent, OpenSection, Walking
<1>10. \A k \in DOMAIN open' : \/ k \in DOMAIN open /\ open'[k] = open[k]
                               \/ /\ k = Len(open) + 1 /\ open'[k] = n0 + 1
                                  /\ body.label[i] \in Headings
  <2>1. open \in Seq(Nat)
    BY DEF IInv, WalkTypeOK
  <2>2. CASE open' = open
    BY <2>2
  <2>3. CASE open' = Append(open, n0 + 1) /\ body.label[i] \in Headings
    <3> HIDE DEF n0
    <3> QED
      BY <1>4, <2>1, <2>3
  <2> QED
    BY <1>9, <2>2, <2>3
<1>11. \A k \in DOMAIN open :
         open[k] \in 0 .. n0 /\ k \in Nat /\ k <= Len(open) /\ Len(open) \in Nat
  <2>1. open \in Seq(Nat) /\ nodes \in Seq(Place)
    BY DEF IInv, WalkTypeOK
  <2>2. \A k \in DOMAIN open : open[k] \in DOMAIN nodes
    BY DEF IInv, OpenIsNested, SectionNodes
  <2> QED
    BY <2>1, <2>2
<1>12. \A j \in 0 .. MaxItems : attach'[j] = IF j = i THEN place ELSE attach[j]
  BY <1>2 DEF IInv, WalkTypeOK
<1>13. \A j \in 0 .. MaxItems : attach[j] \in {Sections, Nowhere} \cup 1 .. n0
  BY DEF TreeInv, AttachedBefore
<1>14. i \in 1 .. MaxItems /\ MaxItems \in Nat /\ i = next
  BY BodyAssumption DEF Item
<1> HIDE DEF n0, p0, above
<1>15. \A k \in DOMAIN open' : open'[k] \in {n0 + 1} \cup Above[p0]
  BY <1>7, <1>10 DEF OpenAbove
<1>16. \A n \in n0 + 1 .. Len(nodes') : OpenAbove(n)'
  <2>1. \A n \in n0 + 1 .. Len(nodes') : \A k \in DOMAIN open' : open'[k] \in above[n]
    BY <1>5, <1>15
  <2> QED
    BY <2>1 DEF OpenAbove, above
<1>17. Len(nodes') \in n0 + 1 .. Len(nodes') /\ n0 + 1 \in n0 + 1 .. Len(nodes')
  BY <1>3, <1>4
<1>18. OpenIsChain'
  <2>1. ASSUME NEW j \in DOMAIN open', NEW k \in DOMAIN open', j <= k
        PROVE  open'[j] \in above[open'[k]]
    <3>1. CASE k \in DOMAIN open /\ open'[k] = open[k]
      <4>1. j \in DOMAIN open /\ open'[j] = open[j]
        BY <1>10, <1>11, <2>1, <3>1
      <4>2. open[j] \in Above[open[k]]
        BY <2>1, <3>1, <4>1 DEF PathParts, OpenIsChain
      <4> QED
        BY <1>5, <1>11, <3>1, <4>1, <4>2
    <3>2. CASE open'[k] = n0 + 1
      BY <1>5, <1>15, <3>2
    <3> QED
      BY <1>10, <3>1, <3>2
  <2> QED
    BY <2>1 DEF OpenIsChain, above
<1>19. GroupsAreOpen'
  <2>1. InGroups' = InGroups /\ ~InGroups[i]
    BY <1>1, BodyIsFixed, GroupsUnfold DEF TreeInv
  <2>2. \A j \in 0 .. MaxItems : j < next' /\ InGroups[j] => j < next /\ j # i
    BY <1>1, <1>14, <2>1
  <2> QED
    BY <1>12, <2>1, <2>2 DEF PathParts, GroupsAreOpen
<1>20. ASSUME NEW p \in 0 .. MaxItems, p < i, StillParent(p)'
       PROVE  /\ StillParent(p) /\ attach'[p] = attach[p]
              /\ attach[p] = Sections \/ (attach[p] \in Above[p0] /\ body.label[i] \notin Headings)
  BY <1>7, <1>8, <1>12, <1>14, <1>20
<1>21. ParentsAreNested'
  <2>1. ASSUME NEW p \in 0 .. MaxItems, NEW q \in 0 .. MaxItems, p <= q, q < next', StillParent(p)'
        PROVE  \/ attach'[q] = Nowhere \/ attach'[p] = Sections
               \/ attach'[p] > 0 /\ attach'[q] > 0 /\ attach'[p] \in above[attach'[q]]
    <3>1. CASE p = i
      <4>1. q = i /\ attach'[p] = place /\ attach'[q] = place
        BY <1>1, <1>12, <1>14, <2>1, <3>1
      <4> QED
        BY <1>2, <1>4, <1>5, <4>1
    <3>2. CASE p # i /\ q = i
      <4>1. p < i /\ attach'[q] = place
        BY <1>12, <1>14, <2>1, <3>2
      <4>2. attach'[p] = Sections \/ (attach'[p] > 0 /\ attach'[p] \in Above[p0])
        <5>1. \A n \in Above[p0] : n > 0
          BY <1>1, <1>4, <4>1, PositiveAbove DEF p0, n0
        <5> QED
          BY <1>20, <2>1, <4>1, <5>1
      <4> QED
        BY <1>2, <1>4, <1>5, <4>1, <4>2
    <3>3. CASE q # i
      <4>1. p < i /\ q < next /\ attach'[q] = attach[q]
        BY <1>1, <1>12, <1>14, <2>1, <3>3
      <4>2. StillParent(p) /\ attach'[p] = attach[p]
        BY <1>20, <2>1, <4>1
      <4>3. Within(attach[p], attach[q])
        BY <2>1, <4>1, <4>2 DEF PathParts, ParentsAreNested
      <4>4. attach[q] > 0 => attach[q] \in 0 .. n0
        BY <1>4, <1>13 DEF Sections, Nowhere
      <4> QED
        BY <1>5, <4>1, <4>2, <4>3, <4>4 DEF Within
    <3> QED
      BY <3>1, <3>2, <3>3
  <2> QED
    BY <2>1 DEF ParentsAreNested, Within, above
<1>22. ParentsAreAbove'
  <2>1. ASSUME NEW p \in 0 .. MaxItems, p < next', StillParent(p)', attach'[p] > 0
        PROVE  /\ attach'[p] \in above[Len(nodes')]
               /\ \A k \in DOMAIN open' : open'[k] \in above[attach'[p]]
    <3>1. CASE p = i
      <4>1. attach'[p] = n0 + 1
        BY <1>2, <1>12, <2>1, <3>1 DEF Nowhere
      <4> QED
        BY <1>5, <1>15, <1>17, <4>1
    <3>2. CASE p # i
      <4>1. p < i /\ p < next
        BY <1>1, <1>14, <2>1, <3>2
      <4>2. StillParent(p) /\ attach'[p] = attach[p] /\ attach[p] > 0
        BY <1>20, <2>1, <4>1
      <4>3. attach[p] \in Above[p0] /\ body.label[i] \notin Headings
        BY <1>20, <2>1, <4>1, <4>2 DEF Sections
      <4>4. \A k \in DOMAIN open' : k \in DOMAIN open /\ open'[k] = open[k]
        BY <1>10, <4>3
      <4>5. OpenAbove(attach[p])
        BY <4>1, <4>2 DEF PathParts, ParentsAreAbove
      <4>6. attach[p] \in 0 .. n0
        BY <1>4, <1>13, <4>2 DEF Sections, Nowhere
      <4> QED
        BY <1>5, <1>17, <4>2, <4>3, <4>4, <4>5, <4>6 DEF OpenAbove
    <3> QED
      BY <3>1, <3>2
  <2> QED
    BY <2>1 DEF ParentsAreAbove, OpenAbove, above
<1>23. ReadsOn'
  <2>1. ASSUME NEW n \in 1 .. Len(nodes'), n # 1 PROVE nodes'[n].under \in {0} \cup above[n - 1]
    <3>1. CASE n \in 1 .. n0
      <4>1. n \in DOMAIN nodes \ {1} /\ n - 1 \in 0 .. n0
        BY <1>4, <2>1, <3>1, WhereItemsAre DEF n0
      <4>2. nodes[n].under \in {0} \cup Above[n - 1]
        BY <4>1 DEF PathParts, ReadsOn
      <4> QED
        BY <1>3, <1>5, <3>1, <4>1, <4>2
    <3>2. CASE n = n0 + 1
      <4>1. nodes'[n].under = p0
        BY <1>3, <3>2
      <4>2. n - 1 = n0 /\ n0 \in 0 .. n0
        BY <1>4, <3>2
      <4> QED
        BY <1>5, <1>7, <4>1, <4>2
    <3>3. CASE \E k \in 1 .. Len(Own(i)) : n = n0 + 1 + k
      <4>1. PICK k \in 1 .. Len(Own(i)) : n = n0 + 1 + k
        BY <3>3
      <4>2. nodes'[n].under = n0 + 1
        BY <1>3, <4>1
      <4>3. n - 1 \in n0 + 1 .. Len(nodes')
        BY <1>3, <1>4, <4>1
      <4> QED
        BY <1>5, <4>2, <4>3
    <3>4. n \in 1 .. n0 + 1 + Len(Own(i))
      BY <1>3
    <3> QED
      BY <1>4, <3>1, <3>2, <3>3, <3>4, Parts
  <2>2. DOMAIN nodes' = 1 .. Len(nodes')
    BY <1>3
  <2> QED
    BY <2>1, <2>2 DEF ReadsOn, above
<1> QED
  BY <1>16, <1>17, <1>18, <1>19, <1>21, <1>22, <1>23 DEF PathParts

\* A skipped item, and a group, whose children take its place.
LEMMA SkippingKeepsPath ==
  ASSUME IInv, TreeInv, FlatHeadings, PathParts, NEW i \in Item, i = next,
         PassOver(i) \/ EnterGroup(i)
  PROVE  PathParts'
<1>1. body' = body /\ next' = i + 1 /\ nodes' = nodes /\ open' = open
  BY DEF PassOver, EnterGroup, Arrive
<1>2. PICK place \in {Nowhere, Here(i)} : attach' = [attach EXCEPT ![i] = place]
  BY DEF PassOver, EnterGroup, Arrive
<1>3. i \in 1 .. MaxItems /\ MaxItems \in Nat /\ i = next
  BY BodyAssumption DEF Item
<1>4. \A j \in 0 .. MaxItems : attach'[j] = IF j = i THEN place ELSE attach[j]
  BY <1>2 DEF IInv, WalkTypeOK
<1>5. Above' = Above
  BY <1>1 DEF Above
<1>6. \A p \in 0 .. MaxItems :
        p < i /\ StillParent(p)' => StillParent(p) /\ Within(attach[p], Here(i))
  BY <1>1, AtTheItem
<1>7. /\ body.up[i] \in 0 .. MaxItems /\ body.up[i] < next /\ Here(i) = attach[body.up[i]]
      /\ Here(i) \in {Sections, Nowhere} \cup 1 .. Len(nodes) /\ StillParent(body.up[i])
  BY WhereItemsAre, AtTheItem DEF Here
<1>8. OpenAbove(Len(nodes))' /\ OpenIsChain' /\ ReadsOn'
  BY <1>1, <1>5 DEF PathParts, OpenAbove, OpenIsChain, ReadsOn
<1>9. GroupsAreOpen'
  <2>1. InGroups' = InGroups
    BY <1>1, BodyIsFixed
  <2>2. ASSUME InGroups[i] PROVE attach'[i] = Sections
    <3>1. body.label[i] = "group" /\ InGroups[body.up[i]]
      BY <2>2, GroupsUnfold DEF TreeInv
    <3>2. Here(i) = Sections
      BY <1>7, <3>1 DEF PathParts, GroupsAreOpen
    <3>3. EnterGroup(i)
      BY <3>1, <3>2 DEF PassOver, Walking, Skipped, Sections, Nowhere
    <3>4. attach' = [attach EXCEPT ![i] = Here(i)]
      BY <3>3 DEF EnterGroup, Arrive
    <3> QED
      BY <1>3, <3>2, <3>4 DEF IInv, WalkTypeOK
  <2>3. ASSUME NEW j \in 0 .. MaxItems, j < next', InGroups[j] PROVE attach'[j] = Sections
    <3>1. CASE j = i
      BY <2>2, <2>3, <3>1
    <3>2. CASE j # i
      <4>1. j < next /\ attach'[j] = attach[j]
        BY <1>1, <1>3, <1>4, <2>3, <3>2
      <4> QED
        BY <2>3, <4>1 DEF PathParts, GroupsAreOpen
    <3> QED
      BY <3>1, <3>2
  <2> QED
    BY <2>1, <2>3 DEF GroupsAreOpen
<1>10. ParentsAreNested'
  <2>1. ASSUME NEW p \in 0 .. MaxItems, NEW q \in 0 .. MaxItems, p <= q, q < next', StillParent(p)'
        PROVE  Within(attach'[p], attach'[q])
    <3>1. CASE p = i
      <4>1. q = i /\ attach'[p] = place /\ attach'[q] = place
        BY <1>1, <1>3, <1>4, <2>1, <3>1
      <4>2. \A n \in 1 .. Len(nodes) : n \in Above[n]
        BY NodesAreRooted, AboveUnfold
      <4> QED
        BY <1>2, <1>7, <4>1, <4>2 DEF Within
    <3>2. CASE p # i /\ q = i
      <4>1. p < i /\ attach'[q] = place /\ attach'[p] = attach[p]
        BY <1>3, <1>4, <2>1, <3>2
      <4>2. Within(attach[p], Here(i))
        BY <1>6, <2>1, <4>1
      <4> QED
        BY <1>2, <4>1, <4>2 DEF Within
    <3>3. CASE q # i
      <4>1. p < i /\ q < next /\ attach'[q] = attach[q] /\ attach'[p] = attach[p]
        BY <1>1, <1>3, <1>4, <2>1, <3>3
      <4>2. StillParent(p)
        BY <1>6, <2>1, <4>1
      <4> QED
        BY <2>1, <4>1, <4>2 DEF PathParts, ParentsAreNested
    <3> QED
      BY <3>1, <3>2, <3>3
  <2> QED
    BY <1>5, <2>1 DEF ParentsAreNested, Within
<1>11. ParentsAreAbove'
  <2>1. ASSUME NEW p \in 0 .. MaxItems, p < next', StillParent(p)', attach'[p] > 0
        PROVE  attach'[p] \in Above[Len(nodes)] /\ OpenAbove(attach'[p])
    <3>1. CASE p = i
      <4>1. attach'[p] = Here(i) /\ attach[body.up[i]] > 0
        BY <1>2, <1>4, <1>7, <2>1, <3>1 DEF Nowhere
      <4> QED
        BY <1>7, <4>1 DEF PathParts, ParentsAreAbove
    <3>2. CASE p # i
      <4>1. p < i /\ p < next /\ attach'[p] = attach[p]
        BY <1>1, <1>3, <1>4, <2>1, <3>2
      <4>2. StillParent(p)
        BY <1>6, <2>1, <4>1
      <4> QED
        BY <2>1, <4>1, <4>2 DEF PathParts, ParentsAreAbove
    <3> QED
      BY <3>1, <3>2
  <2> QED
    BY <1>1, <1>5, <2>1 DEF ParentsAreAbove, OpenAbove
<1> QED
  BY <1>8, <1>9, <1>10, <1>11 DEF PathParts

LEMMA ClosingKeepsPath ==
  ASSUME IInv, TreeInv, PathParts, NEW i \in Item, CloseSection(i)
  PROVE  PathParts'
<1>1. UNCHANGED <<body, next, attach, nodes>> /\ open # <<>>
  BY DEF CloseSection, Closes
<1>2. open \in Seq(Nat) /\ open' = SubSeq(open, 1, Len(open) - 1)
  BY DEF CloseSection, IInv, WalkTypeOK
<1>3. \A k \in DOMAIN open' : k \in DOMAIN open /\ open'[k] = open[k]
  BY <1>1, <1>2
<1>4. Above' = Above /\ InGroups' = InGroups
  BY <1>1, BodyIsFixed DEF Above
<1>5. OpenAbove(Len(nodes))' /\ OpenIsChain'
  <2>1. \A k \in DOMAIN open' : open'[k] \in Above[Len(nodes)]
    BY <1>3 DEF PathParts, OpenAbove
  <2>2. \A j, k \in DOMAIN open' : j <= k => open'[j] \in Above[open'[k]]
    BY <1>3 DEF PathParts, OpenIsChain
  <2> QED
    BY <1>1, <1>4, <2>1, <2>2 DEF OpenAbove, OpenIsChain
<1>6. \A p : StillParent(p)' <=> StillParent(p)
  BY <1>1 DEF StillParent
<1>7. GroupsAreOpen' /\ ParentsAreNested' /\ ReadsOn'
  <2>1. GroupsAreOpen'
    BY <1>1, <1>4 DEF PathParts, GroupsAreOpen
  <2>2. ParentsAreNested'
    BY <1>1, <1>4, <1>6 DEF PathParts, ParentsAreNested, Within
  <2>3. ReadsOn'
    BY <1>1, <1>4 DEF PathParts, ReadsOn
  <2> QED
    BY <2>1, <2>2, <2>3
<1>8. ParentsAreAbove'
  <2>1. ASSUME NEW p \in 0 .. MaxItems, p < next, StillParent(p), attach[p] > 0
        PROVE  /\ attach[p] \in Above[Len(nodes)]
               /\ \A k \in DOMAIN open' : open'[k] \in Above[attach[p]]
    BY <1>3, <2>1 DEF PathParts, ParentsAreAbove, OpenAbove
  <2> QED
    BY <1>1, <1>4, <1>6, <2>1 DEF ParentsAreAbove, OpenAbove
<1> QED
  BY <1>5, <1>7, <1>8 DEF PathParts

LEMMA PathUnchanged ==
  ASSUME PathParts, UNCHANGED wvars
  PROVE  PathParts'
<1>1. Above' = Above /\ InGroups' = InGroups
  BY BodyIsFixed DEF Above, wvars
<1>2. \A p : StillParent(p)' <=> StillParent(p)
  BY DEF StillParent, wvars
<1>3. OpenAbove(Len(nodes))' /\ OpenIsChain' /\ ReadsOn'
  BY <1>1 DEF PathParts, OpenAbove, OpenIsChain, ReadsOn, wvars
<1>4. GroupsAreOpen'
  BY <1>1 DEF PathParts, GroupsAreOpen, wvars
<1>5. ParentsAreNested'
  BY <1>1, <1>2 DEF PathParts, ParentsAreNested, Within, wvars
<1>6. ParentsAreAbove'
  BY <1>1, <1>2 DEF PathParts, ParentsAreAbove, OpenAbove, wvars
<1> QED
  BY <1>3, <1>4, <1>5, <1>6 DEF PathParts

LEMMA PathInit == WalkInit => PathInv
<1> SUFFICES ASSUME WalkInit PROVE PathParts
  BY DEF PathInv
<1>1. /\ next = 1 /\ attach = [i \in 0 .. MaxItems |-> Sections]
      /\ nodes = <<>> /\ DOMAIN nodes = {} /\ open = <<>> /\ DOMAIN open = {}
  BY DEF WalkInit, Begin
<1>2. OpenAbove(Len(nodes)) /\ OpenIsChain /\ ReadsOn
  BY <1>1 DEF OpenAbove, OpenIsChain, ReadsOn
<1>3. GroupsAreOpen
  BY <1>1 DEF GroupsAreOpen
<1>4. ParentsAreNested
  BY <1>1 DEF ParentsAreNested, Within
<1>5. ParentsAreAbove
  BY <1>1 DEF ParentsAreAbove, Sections
<1> QED
  BY <1>2, <1>3, <1>4, <1>5 DEF PathParts

\* Where the headings stand in nothing but groups, the nodes come depth first.
THEOREM PathInvariant == WalkSpec => []PathInv
<1>1. IInv /\ IInv' /\ TreeInv /\ TreeInv' /\ PathInv /\ [WalkNext]_wvars => PathInv'
  <2>1. SUFFICES ASSUME IInv, IInv', TreeInv, TreeInv', PathInv, [WalkNext]_wvars, FlatHeadings'
                 PROVE  PathParts'
    BY DEF PathInv
  <2>2. CASE UNCHANGED wvars
    <3>1. FlatHeadings
      BY <2>1, <2>2, BodyIsFixed DEF wvars
    <3> QED
      BY <2>1, <2>2, <3>1, PathUnchanged DEF PathInv
  <2>3. CASE WalkNext
    <3>1. next \in Item
      BY <2>3, NextIsItem
    <3>2. body' = body
      BY <2>3 DEF WalkNext, Walk, PassOver, EnterGroup, AddLeaf, CloseSection, OpenSection,
                  AddContent, Arrive
    <3>3. FlatHeadings /\ PathParts
      BY <2>1, <3>2, BodyIsFixed DEF PathInv
    <3>4. CASE CloseSection(next)
      BY <2>1, <3>1, <3>3, <3>4, ClosingKeepsPath
    <3>5. CASE PassOver(next) \/ EnterGroup(next)
      BY <2>1, <3>1, <3>3, <3>5, SkippingKeepsPath
    <3>6. CASE AddNode(next)
      BY <2>1, <3>1, <3>3, <3>6, AddingKeepsPath
    <3> QED
      BY <2>3, <3>4, <3>5, <3>6 DEF WalkNext, Walk, AddNode
  <2> QED
    BY <2>1, <2>2, <2>3
<1> QED
  BY <1>1, PathInit, WalkInvariant, WalkTreeInvariant, PTL DEF WalkSpec

\* The tree is the body again, of whatever size and shape and whoever claims
\* captions in it: its nodes are what the items bring, in the body's order, and
\* the tree reads like the body (extract_docling.py, _build_tree,
\* _claimed_caption_ids and _caption_children).
THEOREM BodyReadBack == WalkSpec => []TreeReadsLikeBody
<1>1. IInv /\ TreeInv /\ PathInv => TreeReadsLikeBody
  <2>1. SUFFICES ASSUME IInv, TreeInv, PathInv, Walked PROVE TreeReadsLikeBody
    BY DEF TreeReadsLikeBody
  <2>2. [n \in DOMAIN nodes |-> nodes[n].item] = Reading[MaxItems]
    <3>1. next - 1 = MaxItems /\ MaxItems \in 0 .. MaxItems
      BY <2>1, BodyAssumption DEF Walked
    <3>2. Reading[MaxItems] \in Seq(Item) /\ DOMAIN nodes = 1 .. Len(nodes)
      BY <2>1, <3>1, ReadingUnfold DEF TreeInv, IInv, WalkTypeOK
    <3>3. /\ Len(nodes) = Len(Reading[MaxItems])
          /\ \A n \in 1 .. Len(nodes) : nodes[n].item = Reading[MaxItems][n]
      BY <2>1, <3>1 DEF TreeInv, ReadSoFar
    <3> QED
      BY <3>2, <3>3
  <2>3. ASSUME FlatHeadings, NEW n \in DOMAIN nodes \ {1}
        PROVE  nodes[n].under \in {0} \cup Above[n - 1]
    BY <2>1, <2>3 DEF PathInv, PathParts, ReadsOn
  <2> QED
    BY <2>2, <2>3 DEF TreeReadsLikeBody
<1> QED
  BY <1>1, WalkInvariant, WalkTreeInvariant, PathInvariant, PTL
=============================================================================
