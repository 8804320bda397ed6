----------------------------- MODULE DoclingWalk -----------------------------
(***************************************************************************)
(* How _build_tree() (app/pipeline/extract_docling.py) turns a Docling     *)
(* document into nodes: one walk over the body tree in reading order, with *)
(* the sections nested by the levels of their headings and everything else *)
(* by where the walk has come from.                                        *)
(*                                                                         *)
(* The items of a body are numbered in reading order; up[i] is the item    *)
(* that item i is a child of, 0 for the body itself.                       *)
(***************************************************************************)
EXTENDS Integers, Sequences

CONSTANTS
  MaxItems,       \* the length of a body
  Vocabularies,   \* sets of things a body is made of
  Claims          \* functions from items to the captions they claim

\* What Docling calls its items, as far as the walk tells them apart.  A
\* heading that reads like a caption or a legend is not taken for one.
Headings == {"heading"}
MislabelledHeadings == {"caption_heading", "legend_heading"}
CaptionHolders == {"table", "figure"}
Mapped == CaptionHolders \cup {"text", "list_item", "equation"}
Skipped == {"furniture", "unmapped"}
Label == Headings \cup MislabelledHeadings \cup Mapped \cup Skipped \cup {"group", "caption"}

\* A thing: its label, the level of a heading, and whether it has a .prov.
Thing == [label : Label, level : Nat, located : BOOLEAN]

ASSUME BodyAssumption ==
  /\ MaxItems \in Nat
  /\ \A V \in Vocabularies : V \subseteq Thing
  /\ Claims \subseteq [1 .. MaxItems -> Seq(1 .. MaxItems)]

\* Where an item's children are attached: to the innermost open section,
\* whichever that is by then, to no node at all, or to the node so numbered.
Sections == -1
Nowhere == -2

VARIABLES
  body,     \* the document
  next,     \* the item the walk comes to next
  attach,   \* attach[i]: where the children of item i are attached
  open,     \* the open sections, outermost first
  nodes     \* the nodes made so far: of which item and type, and under which node

wvars == <<body, next, attach, open, nodes>>

Item == 1 .. MaxItems

\* Docling's trees: only these have children.
Containers == CaptionHolders \cup Headings \cup {"group", "list_item", "unmapped"}
BodyTrees ==
  {up \in [Item -> 0 .. MaxItems] :
     \A i \in Item :
       /\ up[i] < i
       /\ i > 1 => \A k \in Item : up[i] < k /\ k < i => up[k] >= up[i]}

\* Any item may claim captions, before it or behind it, one of them twice or
\* one that another claims too.  Listed is what has a text; what has none (a
\* table, a figure or a group) becomes nobody's caption, and is none itself.
NoClaims == [i \in Item |-> <<>>]
ToSetOf(s) == {s[k] : k \in DOMAIN s}
Claimable(c, things) == things[c].label \notin CaptionHolders \cup {"group"}

Body(things, up, captions) ==
  [label |-> [i \in Item |-> things[i].label],
   level |-> [i \in Item |-> things[i].level],
   located |-> {i \in Item : things[i].located},
   up |-> up, captions |-> captions]

Begin(b) ==
  /\ body = b
  /\ next = 1
  /\ attach = [i \in 0 .. MaxItems |-> Sections]
  /\ open = <<>>
  /\ nodes = <<>>
WalkInit ==
  \E V \in Vocabularies, up \in BodyTrees, captions \in Claims : \E things \in [Item -> V] :
    /\ \A i \in {j \in Item : up[j] # 0} : things[up[i]].label \in Containers
    /\ \A i \in Item : \A c \in ToSetOf(captions[i]) : Claimable(c, things)
    /\ Begin(Body(things, up, captions))

---------------------------------------------------------------------------
Innermost == IF open = <<>> THEN 0 ELSE open[Len(open)]
Here(i) == attach[body.up[i]]
Target(i) == IF Here(i) = Sections THEN Innermost ELSE Here(i)

\* Mutation: only the tables the walk has already seen claim a caption.
ClaimedSoFar == UNION {ToSetOf(body.captions[i]) : i \in {j \in Item : j <= next}}

Claimed == UNION {ToSetOf(body.captions[i]) : i \in Item}

Walking(i, labels) ==
  /\ i \in Item /\ Here(i) # Nowhere
  /\ body.label[i] \in labels

Arrive(i, place) ==
  /\ next' = i + 1
  /\ attach' = [attach EXCEPT ![i] = place]
  /\ UNCHANGED body

Node(i, type, place) == [item |-> i, type |-> type, under |-> place]

\* What has a node type of its own, or one in the schema's words.
NodeType(label) == IF label = "text" THEN "paragraph" ELSE label

\* Page furniture, what the schema has no type for, and a caption that hangs
\* under its table are passed over, with all below them.
PassOver(i) ==
  /\ \/ i \in Item /\ Here(i) = Nowhere
     \/ Walking(i, Skipped)
     \/ Walking(i, {"caption"}) /\ i \in Claimed
  /\ Arrive(i, Nowhere)
  /\ UNCHANGED <<open, nodes>>

\* A group has no node: its children take its place.
EnterGroup(i) ==
  /\ Walking(i, {"group"})
  /\ Arrive(i, Here(i))
  /\ UNCHANGED <<open, nodes>>

\* A caption nobody claims keeps its place in reading order.
LeafType(i) == IF body.label[i] = "legend_heading" THEN "note" ELSE "caption"
AddLeaf(i) ==
  /\ Walking(i, MislabelledHeadings) \/ (Walking(i, {"caption"}) /\ i \notin Claimed)
  /\ nodes' = Append(nodes, Node(i, LeafType(i), Target(i)))
  /\ Arrive(i, Nowhere)
  /\ UNCHANGED open

\* Mutation: a section stays open for the next one of its level.
ClosesDeeper(i) ==
  open # <<>> /\ body.level[nodes[Innermost].item] > body.level[i]

Closes(i) ==
  open # <<>> /\ body.level[nodes[Innermost].item] >= body.level[i]

CloseSection(i) ==
  /\ Walking(i, Headings) /\ Closes(i)
  /\ open' = SubSeq(open, 1, Len(open) - 1)
  /\ UNCHANGED <<body, next, attach, nodes>>

\* A section goes by its level, wherever its heading was found.
OpenSection(i) ==
  /\ Walking(i, Headings) /\ ~Closes(i)
  /\ nodes' = Append(nodes, Node(i, "section", Innermost))
  /\ open' = Append(open, Len(nodes) + 1)
  /\ Arrive(i, Len(nodes) + 1)

\* A table or figure is followed by the captions it claims.
Own(i) == IF body.label[i] \in CaptionHolders THEN body.captions[i] ELSE <<>>
AddContent(i) ==
  /\ Walking(i, Mapped)
  /\ LET caption(k) == Node(Own(i)[k], "caption", Len(nodes) + 1)
     IN  nodes' = Append(nodes, Node(i, NodeType(body.label[i]), Target(i)))
                    \o [k \in DOMAIN Own(i) |-> caption(k)]
  /\ Arrive(i, Len(nodes) + 1)
  /\ UNCHANGED open

Walk(i) ==
  \/ PassOver(i) \/ EnterGroup(i) \/ AddLeaf(i) \/ CloseSection(i) \/ OpenSection(i)
  \/ AddContent(i)

WalkNext == Walk(next)

WalkSpec == WalkInit /\ [][WalkNext]_wvars

---------------------------------------------------------------------------
Walked == next = MaxItems + 1

\* A node and all it is under.
AboveIn(tree) ==
  LET above[n \in 0 .. Len(tree)] == IF n = 0 THEN {} ELSE {n} \cup above[tree[n].under]
  IN  above
Above == AboveIn(nodes)

\* to_node: without a place on a page there is no node, nor what is under it.
Kept == {n \in DOMAIN nodes : \A m \in Above[n] : nodes[m].item \in body.located}

\* The list of children a node ends up with, or the list at the top.
ChildrenOf(n) == {m \in Kept : nodes[m].under = n}

---------------------------------------------------------------------------
\* The sections are nested as an outline is read: a section belongs to the last
\* one before it with a higher heading, in whatever list or group the headings
\* stand (extract_docling.py, "a heading-level stack turns them back into a
\* clause hierarchy").
SectionNodes == {n \in DOMAIN nodes : nodes[n].type = "section"}
LevelOf(n) == body.level[nodes[n].item]
SectionsByLevel ==
  \A n \in SectionNodes :
    LET higher == {m \in SectionNodes : m < n /\ LevelOf(m) < LevelOf(n)}
    IN  IF higher = {} THEN nodes[n].under = 0
        ELSE nodes[n].under \in higher /\ \A m \in higher : m <= nodes[n].under

\* The tree is the body again: every item that the schema has a type for, and
\* that nothing without one hides, brings one node and behind it those of the
\* captions it claims, in the body's order and no others (extract_docling.py,
\* "so nothing is dropped"; _claimed_caption_ids, "never silently lost").  The
\* nodes come as the tree is read depth first, unless a heading stands inside
\* another item.
Hides(i) == body.label[i] \in Skipped \cup MislabelledHeadings \cup {"caption"}
HiddenBy[i \in 0 .. MaxItems] == IF i = 0 THEN FALSE ELSE Hides(i) \/ HiddenBy[body.up[i]]
Seen(i) == ~HiddenBy[body.up[i]]
Silent(i) ==
  \/ body.label[i] \in Skipped \cup {"group"}
  \/ body.label[i] = "caption" /\ i \in Claimed
Brings(i) == IF Seen(i) /\ ~Silent(i) THEN <<i>> \o Own(i) ELSE <<>>
Reading[i \in 0 .. MaxItems] == IF i = 0 THEN <<>> ELSE Reading[i - 1] \o Brings(i)
InGroups[i \in 0 .. MaxItems] == i = 0 \/ (body.label[i] = "group" /\ InGroups[body.up[i]])
FlatHeadings == \A i \in Item : body.label[i] \in Headings => InGroups[body.up[i]]
TreeReadsLikeBody ==
  Walked =>
    /\ [n \in DOMAIN nodes |-> nodes[n].item] = Reading[MaxItems]
    /\ FlatHeadings => \A n \in DOMAIN nodes \ {1} : nodes[n].under \in {0} \cup Above[n - 1]
=============================================================================
