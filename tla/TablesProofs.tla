---------------------------- MODULE TablesProofs ----------------------------
(***************************************************************************)
(* What the passes of assemble.py make of tables, for documents of any     *)
(* length whose tables have any cells.                                     *)
(*                                                                         *)
(* BaseInv: a pass works on Docling's siblings, each at most once and in   *)
(* their order, and every cell lies in a grid that ends somewhere.         *)
(* ReadyInv: what the earlier passes have established of a sibling when    *)
(* the next takes it up: its paths are written after "headers", it is      *)
(* held after "geometry" just if no grid of its page has its size, after   *)
(* "rectangularity" just if it is not sound.                               *)
(* LinkInv: the last gate, which goes back to the last table with a        *)
(* header: what it has found between the tables it has seen stays true     *)
(* when it takes up one more, because it only writes into links nobody     *)
(* has set and never lifts a quarantine.                                   *)
(* StitchInv: while fragments are stitched, those still to come are as     *)
(* Docling gave them, and every table built so far holds the rows of its   *)
(* parts in their order and is whole if they were.                         *)
(*                                                                         *)
(* Rebuilt is the shape of every step before the last gate: the list that  *)
(* is being built gets a new last sibling.  One lemma per invariant says   *)
(* what that sibling must be like, and one per action that it is.          *)
(***************************************************************************)
EXTENDS Tables, FiniteSetTheorems, WellFoundedInduction, SequenceTheorems, TLAPS

---------------------------------------------------------------------------
\* Lists.  A pass builds its list at the end and takes the other from the front.
IsList(s) == s \in Seq(ToSet(s))

\* The elements of a list are what its positions hold.
LEMMA ListHas ==
  ASSUME NEW s, IsList(s)
  PROVE  /\ Len(s) \in Nat /\ DOMAIN s = 1 .. Len(s)
         /\ \A x : x \in ToSet(s) <=> \E i \in 1 .. Len(s) : s[i] = x
         /\ \A i \in 1 .. Len(s) : s[i] \in ToSet(s)
         /\ s = <<>> <=> Len(s) = 0
<1>1. Len(s) \in Nat /\ DOMAIN s = 1 .. Len(s) /\ (s = <<>> <=> Len(s) = 0)
  BY DEF IsList
<1> QED BY <1>1 DEF ToSet

\* A sequence over any set is a list of its elements.
LEMMA ListOf ==
  ASSUME NEW S, NEW s \in Seq(S)
  PROVE  IsList(s)
<1>1. Range(s) = ToSet(s)
  BY DEF Range, ToSet
<1> QED BY <1>1, SeqOfRange DEF IsList

\* A list with one element more.
LEMMA Appended ==
  ASSUME NEW s, IsList(s), NEW x
  PROVE  /\ IsList(Append(s, x)) /\ Len(Append(s, x)) = Len(s) + 1
         /\ \A i \in 1 .. Len(s) : Append(s, x)[i] = s[i]
         /\ Append(s, x)[Len(s) + 1] = x
         /\ ToSet(Append(s, x)) = ToSet(s) \cup {x}
<1> DEFINE U == ToSet(s) \cup {x}
<1>1. s \in Seq(U) /\ x \in U
  BY SeqMonotonic DEF IsList
<1> HIDE DEF U
<1>2. /\ Append(s, x) \in Seq(U) /\ Len(Append(s, x)) = Len(s) + 1
      /\ \A i \in 1 .. Len(s) : Append(s, x)[i] = s[i]
      /\ Append(s, x)[Len(s) + 1] = x
  BY <1>1, AppendProperties
<1>3. IsList(Append(s, x))
  BY <1>2, ListOf
<1>4. ToSet(Append(s, x)) = ToSet(s) \cup {x}
  <2>1. /\ DOMAIN Append(s, x) = 1 .. Len(s) + 1 /\ DOMAIN s = 1 .. Len(s) /\ Len(s) \in Nat
    BY <1>1, <1>2
  <2> QED BY <1>2, <2>1 DEF ToSet
<1> QED BY <1>2, <1>3, <1>4

\* A list without its first element.
LEMMA Taken ==
  ASSUME NEW s, IsList(s), s # <<>>
  PROVE  /\ IsList(Tail(s)) /\ Len(Tail(s)) = Len(s) - 1 /\ Len(s) \in Nat \ {0}
         /\ \A i \in 1 .. Len(s) - 1 : Tail(s)[i] = s[i + 1]
         /\ Head(s) = s[1]
         /\ ToSet(s) = {Head(s)} \cup ToSet(Tail(s))
<1>1. /\ Tail(s) \in Seq(ToSet(s)) /\ Len(Tail(s)) = Len(s) - 1
      /\ \A i \in 1 .. Len(Tail(s)) : Tail(s)[i] = s[i + 1]
  BY HeadTailProperties DEF IsList
<1>2. Len(s) \in Nat \ {0} /\ DOMAIN s = 1 .. Len(s) /\ Head(s) = s[1]
  BY ListHas
<1>3. IsList(Tail(s))
  BY <1>1, ListOf
<1>4. ToSet(s) = {Head(s)} \cup ToSet(Tail(s))
  <2>1. DOMAIN Tail(s) = 1 .. Len(s) - 1
    BY <1>1, <1>3, ListHas
  <2>2. ASSUME NEW i \in 1 .. Len(s) PROVE i = 1 \/ (i - 1 \in 1 .. Len(s) - 1 /\ i - 1 + 1 = i)
    BY <1>2
  <2>3. \A i \in 1 .. Len(s) : i = 1 \/ s[i] = Tail(s)[i - 1]
    BY <1>1, <2>2
  <2>4. \A i \in 1 .. Len(s) - 1 : i + 1 \in 1 .. Len(s)
    BY <1>2
  <2>5. 1 \in 1 .. Len(s)
    BY <1>2
  <2>6. ToSet(s) \subseteq {Head(s)} \cup ToSet(Tail(s))
    <3>1. ToSet(s) = {s[i] : i \in 1 .. Len(s)}
      BY <1>2 DEF ToSet
    <3>2. \A i \in 1 .. Len(s) - 1 : Tail(s)[i] \in ToSet(Tail(s))
      BY <2>1 DEF ToSet
    <3>3. ASSUME NEW i \in 1 .. Len(s) PROVE s[i] \in {Head(s)} \cup ToSet(Tail(s))
      <4>1. CASE i = 1
        BY <1>2, <4>1
      <4>2. CASE i # 1
        BY <2>2, <2>3, <3>2, <4>2
      <4> QED BY <4>1, <4>2
    <3> QED BY <3>1, <3>3
  <2>7. {Head(s)} \cup ToSet(Tail(s)) \subseteq ToSet(s)
    <3>1. \A x \in ToSet(Tail(s)) : \E i \in 1 .. Len(s) - 1 : x = s[i + 1]
      BY <1>1, <2>1 DEF ToSet
    <3> QED BY <1>2, <2>4, <2>5, <3>1 DEF ToSet
  <2> QED BY <2>6, <2>7
<1> QED BY <1>1, <1>2, <1>3, <1>4

\* A list without its last element.
LEMMA Fronted ==
  ASSUME NEW s, IsList(s), s # <<>>
  PROVE  /\ IsList(Front(s)) /\ Len(Front(s)) = Len(s) - 1 /\ Len(s) \in Nat \ {0}
         /\ \A i \in 1 .. Len(s) - 1 : Front(s)[i] = s[i]
         /\ Last(s) = s[Len(s)]
         /\ ToSet(s) = ToSet(Front(s)) \cup {Last(s)}
<1>1. /\ Len(s) \in Nat \ {0} /\ DOMAIN s = 1 .. Len(s) /\ Last(s) = s[Len(s)]
      /\ Front(s) = SubSeq(s, 1, Len(s) - 1)
  BY ListHas DEF Last, Front
<1>2. \A k \in 1 .. Len(s) - 1 : s[k] \in ToSet(s)
  BY <1>1 DEF ToSet
<1>3. /\ Front(s) \in Seq(ToSet(s))
      /\ Len(Front(s)) = IF 1 <= Len(s) - 1 THEN Len(s) - 1 - 1 + 1 ELSE 0
      /\ \A k \in 1 .. Len(s) - 1 - 1 + 1 : Front(s)[k] = s[1 + k - 1]
  BY <1>1, <1>2, SubSeqProperties DEF IsList
<1>4. \A n \in Nat \ {0} : /\ n - 1 - 1 + 1 = n - 1
                           /\ 1 <= n - 1 \/ n - 1 = 0
  OBVIOUS
<1>5. Len(Front(s)) = Len(s) - 1
  <2>1. CASE Len(s) - 1 = 0
    BY <1>3, <2>1
  <2>2. CASE 1 <= Len(s) - 1
    <3>1. Len(s) - 1 - 1 + 1 = Len(s) - 1
      BY <1>1, <1>4
    <3> QED BY <1>3, <2>2, <3>1
  <2> QED BY <1>1, <1>4, <2>1, <2>2
<1>6. ASSUME NEW k \in 1 .. Len(s) - 1 PROVE Front(s)[k] = s[k]
  <2>1. k \in 1 .. Len(s) - 1 - 1 + 1 /\ 1 + k - 1 = k
    BY <1>1, <1>4
  <2> QED BY <1>3, <2>1
<1>7. IsList(Front(s))
  BY <1>3, ListOf
<1>8. ToSet(s) = ToSet(Front(s)) \cup {Last(s)}
  <2>1. DOMAIN Front(s) = 1 .. Len(s) - 1
    BY <1>5, <1>7, ListHas
  <2>2. \A i \in 1 .. Len(s) : i = Len(s) \/ i \in 1 .. Len(s) - 1
    <3>1. \A n \in Nat \ {0} : \A i \in 1 .. n : i = n \/ i \in 1 .. n - 1
      OBVIOUS
    <3> QED BY <1>1, <3>1
  <2>3. Len(s) \in 1 .. Len(s) /\ \A i \in 1 .. Len(s) - 1 : i \in 1 .. Len(s)
    BY <1>1
  <2>4. ToSet(Front(s)) = {s[i] : i \in 1 .. Len(s) - 1}
    BY <1>6, <2>1 DEF ToSet
  <2>5. ToSet(s) = {s[i] : i \in 1 .. Len(s)}
    BY <1>1 DEF ToSet
  <2> QED BY <1>1, <2>2, <2>3, <2>4, <2>5
<1> QED BY <1>1, <1>5, <1>6, <1>7, <1>8

---------------------------------------------------------------------------
\* The siblings a pass works on are Docling's, each at most once and in their
\* order; their cells lie in a grid that ends somewhere.
SiblingFields == {"type", "id", "page", "cells", "captions", "consensus", "review",
                  "continues_to", "continues_from"}
CellFields == {"row", "col", "rowspan", "colspan", "is_column_header", "text",
               "header_path", "of"}

InGrid(d, c) ==
  /\ DOMAIN c = CellFields
  /\ c.row \in Nat /\ c.col \in Nat /\ c.rowspan \in Nat \ {0} /\ c.colspan \in Nat \ {0}
  /\ c.of \in DOMAIN d.siblings
EndsBy(cells, b) == \A c \in cells : c.row + c.rowspan <= b /\ c.col + c.colspan <= b
GridOf(d, cells) == (\A c \in cells : InGrid(d, c)) /\ \E b \in Nat : EndsBy(cells, b)

Known(d, s) ==
  /\ DOMAIN s = SiblingFields
  /\ s.id \in DOMAIN d.siblings
  /\ s.page = d.siblings[s.id].page /\ s.type = d.siblings[s.id].type
  /\ s.consensus \in {"unanimous", "majority", "quarantined"}
  /\ s.type # "table" => s.cells = {}
  /\ GridOf(d, s.cells)

Ascending(s) == \A i, j \in 1 .. Len(s) : i < j => s[i].id < s[j].id

BaseInv ==
  /\ WellFormed(source)
  /\ pass \in ToSet(Passes)
  /\ IsList(done) /\ IsList(rest)
  /\ Len(done) + Len(rest) <= Len(source.siblings)
  /\ prev \in 0 .. Len(done) /\ (pass # "continuation" => prev = 0)
  /\ pass = "end" => done = <<>>
  /\ Ascending(done) /\ Ascending(rest)
  /\ \A s \in ToSet(done), t \in ToSet(rest) : s.id < t.id
  /\ \A s \in ToSet(done) \cup ToSet(rest) : Known(source, s)

\* The passes, each with the one after it (assemble.py).
LEMMA PassesAre ==
  /\ ToSet(Passes) = {"captions", "stitch", "headers", "nested", "geometry",
                      "rectangularity", "continuation", "end"}
  /\ After("captions") = "stitch" /\ After("stitch") = "headers"
  /\ After("headers") = "nested" /\ After("nested") = "geometry"
  /\ After("geometry") = "rectangularity" /\ After("rectangularity") = "continuation"
  /\ After("continuation") = "end"
BY DEF After, Passes, ToSet

\* A sibling as Docling gives it: nothing has been said of it yet.
LEMMA SiblingIs ==
  ASSUME NEW d, WellFormed(d), NEW i \in DOMAIN d.siblings
  PROVE  /\ DOMAIN d.siblings[i] = SiblingFields
         /\ d.siblings[i].id = i /\ d.siblings[i].consensus = "unanimous"
         /\ d.siblings[i].continues_to = NoId /\ d.siblings[i].continues_from = NoId
         /\ d.siblings[i].type # "table" => d.siblings[i].cells = {}
         /\ \A c \in d.siblings[i].cells : InGrid(d, c) /\ c.of = i
<1> DEFINE s == d.siblings[i]
<1>1. [s EXCEPT !.captions = <<>>] = Sibling(s.type, i, s.page, s.cells)
  BY DEF WellFormed
<1> HIDE DEF s
<1>2. DOMAIN s = DOMAIN [s EXCEPT !.captions = <<>>]
  OBVIOUS
<1>3. DOMAIN s = SiblingFields
  BY <1>1, <1>2 DEF Sibling, SiblingFields
<1>4. /\ s.id = [s EXCEPT !.captions = <<>>].id
      /\ s.consensus = [s EXCEPT !.captions = <<>>].consensus
      /\ s.continues_to = [s EXCEPT !.captions = <<>>].continues_to
      /\ s.continues_from = [s EXCEPT !.captions = <<>>].continues_from
  BY <1>3 DEF SiblingFields
<1>5. /\ s.id = i /\ s.consensus = "unanimous"
      /\ s.continues_to = NoId /\ s.continues_from = NoId
  BY <1>1, <1>4 DEF Sibling
<1>6. ASSUME NEW c \in s.cells PROVE InGrid(d, c) /\ c.of = i
  <2>1. /\ {c.row, c.col, c.rowspan, c.colspan} \subseteq Nat
        /\ c.rowspan > 0 /\ c.colspan > 0
        /\ c = [row |-> c.row, col |-> c.col, rowspan |-> c.rowspan,
                colspan |-> c.colspan, is_column_header |-> c.is_column_header,
                text |-> c.text, header_path |-> {}, of |-> i]
    BY DEF WellFormed, s
  <2>2. DOMAIN c = CellFields /\ c.of = i
    BY <2>1 DEF CellFields
  <2> QED BY <2>1, <2>2 DEF InGrid
<1> QED BY <1>3, <1>5, <1>6 DEF WellFormed, s

\* A set of numbers has a least.
LEMMA LeastOf ==
  ASSUME NEW S, S \subseteq Nat, S # {}
  PROVE  \E m \in S : \A n \in S : m <= n
<1> DEFINE R == {ss \in Nat \X Nat : ss[1] < ss[2]}
<1>1. IsWellFoundedOn(R, Nat)
  BY NatLessThanWellFounded DEF OpToRel
<1>2. \A m, n \in Nat : n < m => <<n, m>> \in R
  OBVIOUS
<1> HIDE DEF R
<1>3. PICK m \in S : \A n \in S : <<n, m>> \notin R
  BY <1>1, WFMin
<1>4. ASSUME NEW n \in S PROVE m <= n
  <2>1. n \in Nat /\ m \in Nat
    OBVIOUS
  <2>2. ~(n < m)
    BY <1>2, <1>3, <2>1
  <2> QED BY <2>1, <2>2
<1> QED BY <1>4

\* Finitely many cells end somewhere: a smallest set of them that did not would
\* be one cell larger than one that does.
LEMMA FiniteEnds ==
  ASSUME NEW d, NEW cells, IsFiniteSet(cells), \A c \in cells : InGrid(d, c)
  PROVE  \E b \in Nat : EndsBy(cells, b)
<1> DEFINE Fits(S) == \E b \in Nat : EndsBy(S, b)
           Bad == {n \in Nat : \E S \in SUBSET cells : n = Cardinality(S) /\ ~Fits(S)}
<1> SUFFICES ASSUME ~Fits(cells) PROVE FALSE
  OBVIOUS
<1>1. \A S \in SUBSET cells : IsFiniteSet(S) /\ Cardinality(S) \in Nat
  BY FS_Subset, FS_CardinalityType
<1>2. cells \in SUBSET cells
  OBVIOUS
<1> HIDE DEF Fits
<1>3. Bad \subseteq Nat /\ Bad # {}
  BY <1>1, <1>2
<1>4. PICK n \in Bad : \A m \in Bad : n <= m
  <2> HIDE DEF Bad
  <2> QED BY <1>3, LeastOf
<1>5. PICK S \in SUBSET cells : n = Cardinality(S) /\ ~Fits(S)
  OBVIOUS
<1>6. S # {}
  <2>1. Fits({})
    BY DEF Fits, EndsBy
  <2> QED BY <1>5, <2>1
<1>7. PICK c \in S : TRUE
  BY <1>6
<1>8. /\ Cardinality(S \ {c}) = Cardinality(S) - 1 /\ Cardinality(S) \in Nat
      /\ S \ {c} \in SUBSET cells /\ Cardinality(S \ {c}) \in Nat
  BY <1>1, <1>7, FS_RemoveElement
<1>9. Fits(S \ {c})
  <2>1. Cardinality(S \ {c}) \notin Bad
    <3> HIDE DEF Bad
    <3>1. ~(n <= Cardinality(S \ {c}))
      BY <1>5, <1>8
    <3> QED BY <1>4, <3>1
  <2> QED BY <1>8, <2>1
<1>10. PICK b \in Nat : EndsBy(S \ {c}, b)
  BY <1>9 DEF Fits
<1>11. /\ c.row + c.rowspan \in Nat /\ c.col + c.colspan \in Nat
       /\ \A e \in S : e.row + e.rowspan \in Nat /\ e.col + e.colspan \in Nat
  BY <1>7 DEF InGrid
<1>12. EndsBy(S, b + (c.row + c.rowspan) + (c.col + c.colspan))
  <2> SUFFICES ASSUME NEW e \in S
               PROVE  /\ e.row + e.rowspan <= b + (c.row + c.rowspan) + (c.col + c.colspan)
                      /\ e.col + e.colspan <= b + (c.row + c.rowspan) + (c.col + c.colspan)
    BY DEF EndsBy
  <2>1. CASE e = c
    BY <1>11, <2>1
  <2>2. CASE e # c
    <3>1. e.row + e.rowspan <= b /\ e.col + e.colspan <= b
      BY <1>10, <2>2 DEF EndsBy
    <3> QED BY <1>11, <3>1
  <2> QED BY <2>1, <2>2
<1>13. b + (c.row + c.rowspan) + (c.col + c.colspan) \in Nat
  BY <1>11
<1> QED BY <1>5, <1>12, <1>13 DEF Fits

\* Docling's own siblings are known and in order.
LEMMA SourceIsKnown ==
  ASSUME NEW d, WellFormed(d)
  PROVE  /\ IsList(d.siblings) /\ Ascending(d.siblings)
         /\ \A s \in ToSet(d.siblings) : Known(d, s)
<1>1. IsList(d.siblings)
  BY DEF WellFormed, IsList
<1>2. \A i \in 1 .. Len(d.siblings) : i \in DOMAIN d.siblings
  BY <1>1, ListHas
<1>3. Ascending(d.siblings)
  BY <1>2, SiblingIs DEF Ascending
<1>4. ASSUME NEW i \in DOMAIN d.siblings PROVE Known(d, d.siblings[i])
  <2>1. IsFiniteSet(d.siblings[i].cells)
    BY DEF WellFormed
  <2>2. \A c \in d.siblings[i].cells : InGrid(d, c)
    BY SiblingIs
  <2>3. GridOf(d, d.siblings[i].cells)
    BY <2>1, <2>2, FiniteEnds DEF GridOf
  <2> QED BY <2>3, SiblingIs DEF Known
<1> QED BY <1>1, <1>3, <1>4 DEF ToSet

---------------------------------------------------------------------------
\* The size of a grid.
LEMMA MaxOf ==
  ASSUME NEW S, S \subseteq Nat, S # {}, NEW b \in Nat, \A x \in S : x <= b
  PROVE  Max(S) \in S /\ \A x \in S : x <= Max(S)
<1> DEFINE Gap == {b - x : x \in S}
<1>1. Gap \subseteq Nat /\ Gap # {}
  <2>1. ASSUME NEW x \in S PROVE b - x \in Nat
    <3>1. x \in Nat /\ x <= b
      OBVIOUS
    <3> QED BY <3>1
  <2> QED BY <2>1
<1>2. PICK g \in Gap : \A n \in Gap : g <= n
  <2> HIDE DEF Gap
  <2> QED BY <1>1, LeastOf
<1>3. PICK m \in S : g = b - m
  OBVIOUS
<1>4. \A x \in S : m >= x
  <2> SUFFICES ASSUME NEW x \in S PROVE m >= x
    OBVIOUS
  <2>1. b - x \in Gap
    OBVIOUS
  <2>2. b - m <= b - x
    BY <1>2, <1>3, <2>1
  <2>3. b \in Nat /\ m \in Nat /\ x \in Nat
    OBVIOUS
  <2> HIDE DEF Gap
  <2> QED BY <2>2, <2>3
<1>5. Max(S) \in S /\ \A x \in S : Max(S) >= x
  BY <1>4 DEF Max
<1>6. ASSUME NEW x \in S PROVE x <= Max(S)
  <2>1. x \in Nat /\ Max(S) \in Nat /\ Max(S) >= x
    BY <1>5
  <2> QED BY <2>1
<1> QED BY <1>5, <1>6

\* The least of some numbers.
LEMMA MinOf ==
  ASSUME NEW S, S \subseteq Nat, S # {}
  PROVE  Min(S) \in S /\ \A x \in S : Min(S) <= x
<1>1. \E m \in S : \A x \in S : m <= x
  BY LeastOf
<1> QED BY <1>1 DEF Min

\* No cell reaches beyond the height and the width, and some cell reaches them.
LEMMA GridSize ==
  ASSUME NEW d, NEW cells, GridOf(d, cells)
  PROVE  /\ Height(cells) \in Nat /\ Width(cells) \in Nat
         /\ \A c \in cells : c.row + c.rowspan <= Height(cells) /\ c.col + c.colspan <= Width(cells)
         /\ cells # {} => /\ \E c \in cells : c.row + c.rowspan = Height(cells)
                          /\ \E c \in cells : c.col + c.colspan = Width(cells)
         /\ cells = {} => Height(cells) = 0 /\ Width(cells) = 0
<1>1. PICK b \in Nat : EndsBy(cells, b)
  BY DEF GridOf
<1> DEFINE Rows == {0} \cup {c.row + c.rowspan : c \in cells}
           Cols == {0} \cup {c.col + c.colspan : c \in cells}
<1>2. \A c \in cells : /\ c.row + c.rowspan \in Nat \ {0} /\ c.col + c.colspan \in Nat \ {0}
                       /\ c.row + c.rowspan <= b /\ c.col + c.colspan <= b
  BY <1>1 DEF GridOf, InGrid, EndsBy
<1>3. /\ Rows \subseteq Nat /\ Rows # {} /\ \A x \in Rows : x <= b
      /\ Cols \subseteq Nat /\ Cols # {} /\ \A x \in Cols : x <= b
  BY <1>2
<1>4. /\ Height(cells) = Max(Rows) /\ Width(cells) = Max(Cols)
  BY DEF Height, Width
<1>5. /\ \A c \in cells : c.row + c.rowspan \in Rows /\ c.col + c.colspan \in Cols
      /\ \A x \in Rows : x = 0 \/ \E c \in cells : c.row + c.rowspan = x
      /\ \A x \in Cols : x = 0 \/ \E c \in cells : c.col + c.colspan = x
  OBVIOUS
<1> HIDE DEF Rows, Cols
<1>6. Max(Rows) \in Rows /\ \A x \in Rows : x <= Max(Rows)
  BY <1>3, MaxOf
<1>7. Max(Cols) \in Cols /\ \A x \in Cols : x <= Max(Cols)
  BY <1>3, MaxOf
<1>8. /\ Height(cells) \in Nat /\ Width(cells) \in Nat
      /\ \A c \in cells : c.row + c.rowspan <= Height(cells) /\ c.col + c.colspan <= Width(cells)
  BY <1>3, <1>4, <1>5, <1>6, <1>7
<1>9. ASSUME cells # {}
      PROVE  /\ \E c \in cells : c.row + c.rowspan = Height(cells)
             /\ \E c \in cells : c.col + c.colspan = Width(cells)
  <2>1. PICK c \in cells : TRUE
    BY <1>9
  <2>2. Height(cells) # 0 /\ Width(cells) # 0
    BY <1>2, <1>8, <2>1
  <2> QED BY <1>4, <1>5, <1>6, <1>7, <2>2
<1>10. ASSUME cells = {} PROVE Height(cells) = 0 /\ Width(cells) = 0
  BY <1>4, <1>5, <1>6, <1>7, <1>10
<1> QED BY <1>8, <1>9, <1>10

\* The first row of some cells.
LEMMA TopIs ==
  ASSUME NEW d, NEW cells, GridOf(d, cells), cells # {}
  PROVE  /\ Top(cells) \in Nat /\ \A c \in cells : Top(cells) <= c.row
         /\ \E c \in cells : c.row = Top(cells)
<1> DEFINE Rows == {c.row : c \in cells}
<1>1. Rows \subseteq Nat /\ Rows # {}
  BY DEF GridOf, InGrid
<1>2. Top(cells) = Min(Rows)
  BY DEF Top
<1>3. Min(Rows) \in Rows /\ \A x \in Rows : Min(Rows) <= x
  <2> HIDE DEF Rows
  <2> QED BY <1>1, MinOf
<1> QED BY <1>1, <1>2, <1>3

\* Rows moved down are as they were, but for where they stand.
Down(c, top, bottom) == [c EXCEPT !.row = @ - top + bottom]
SameButRow(m, c) ==
  /\ m.col = c.col /\ m.rowspan = c.rowspan /\ m.colspan = c.colspan /\ m.text = c.text
  /\ m.of = c.of /\ m.is_column_header = c.is_column_header

\* Rows moved from the top of their fragment to below another.
LEMMA MovedIs ==
  ASSUME NEW d, NEW cells, GridOf(d, cells), cells # {}, NEW bottom \in Nat
  PROVE  /\ MovedBelow(cells, Top(cells), bottom) = {Down(c, Top(cells), bottom) : c \in cells}
         /\ \A c \in cells :
              /\ InGrid(d, Down(c, Top(cells), bottom))
              /\ SameButRow(Down(c, Top(cells), bottom), c)
              /\ Down(c, Top(cells), bottom).row = c.row - Top(cells) + bottom
              /\ bottom <= Down(c, Top(cells), bottom).row
<1>1. ASSUME NEW c \in cells
      PROVE  /\ InGrid(d, Down(c, Top(cells), bottom))
             /\ SameButRow(Down(c, Top(cells), bottom), c)
             /\ Down(c, Top(cells), bottom).row = c.row - Top(cells) + bottom
             /\ bottom <= Down(c, Top(cells), bottom).row
  <2> DEFINE m == Down(c, Top(cells), bottom)
  <2>1. InGrid(d, c)
    BY DEF GridOf
  <2>2. Top(cells) \in Nat /\ Top(cells) <= c.row /\ c.row \in Nat
    BY <2>1, TopIs DEF InGrid
  <2>3. DOMAIN c = CellFields
    BY <2>1 DEF InGrid
  <2>4. /\ DOMAIN m = CellFields /\ SameButRow(m, c)
        /\ m.row = c.row - Top(cells) + bottom
    BY <2>3 DEF CellFields, Down, SameButRow
  <2> HIDE DEF m
  <2>5. m.row \in Nat /\ bottom <= m.row
    BY <2>2, <2>4
  <2>6. InGrid(d, m)
    BY <2>1, <2>4, <2>5 DEF InGrid, SameButRow
  <2> QED BY <2>4, <2>5, <2>6 DEF m
<1>2. MovedBelow(cells, Top(cells), bottom) = {Down(c, Top(cells), bottom) : c \in cells}
  BY DEF MovedBelow, Down
<1> QED BY <1>1, <1>2

\* Some cells of a grid are a grid.
LEMMA GridParts ==
  ASSUME NEW d, NEW cells, GridOf(d, cells), NEW some \in SUBSET cells
  PROVE  GridOf(d, some)
BY DEF GridOf, EndsBy

\* A table and the data rows of its continuation below it are a grid.
LEMMA MergedGrid ==
  ASSUME NEW d, NEW t, NEW u, Known(d, t), Known(d, u)
  PROVE  LET data == DataCells(u.cells)
         IN  GridOf(d, t.cells \cup MovedBelow(data, Top(data), Height(t.cells)))
<1> DEFINE data == DataCells(u.cells)
           moved == MovedBelow(data, Top(data), Height(t.cells))
<1>1. GridOf(d, t.cells) /\ GridOf(d, u.cells) /\ Height(t.cells) \in Nat
  BY GridSize DEF Known
<1>2. GridOf(d, data)
  BY <1>1, GridParts DEF DataCells
<1>3. CASE data = {}
  <2>1. moved = {}
    BY <1>3 DEF MovedBelow
  <2>2. t.cells \cup moved = t.cells
    BY <2>1
  <2> QED BY <1>1, <2>2
<1>4. CASE data # {}
  <2> HIDE DEF data
  <2>1. PICK a \in Nat : EndsBy(t.cells, a)
    BY <1>1 DEF GridOf
  <2>2. PICK b \in Nat : EndsBy(data, b)
    BY <1>2 DEF GridOf
  <2>3. Top(data) \in Nat
    BY <1>2, <1>4, TopIs
  <2>4. ASSUME NEW m \in moved
        PROVE  InGrid(d, m) /\ \E c \in data : /\ m.row = c.row - Top(data) + Height(t.cells)
                                               /\ m.col = c.col /\ m.rowspan = c.rowspan
                                               /\ m.colspan = c.colspan
    BY <1>1, <1>2, <1>4, MovedIs DEF SameButRow
  <2> HIDE DEF moved
  <2>5. EndsBy(t.cells \cup moved, a + b + Height(t.cells))
    <3> SUFFICES ASSUME NEW m \in t.cells \cup moved
                 PROVE  /\ m.row + m.rowspan <= a + b + Height(t.cells)
                        /\ m.col + m.colspan <= a + b + Height(t.cells)
      BY DEF EndsBy
    <3>1. CASE m \in t.cells
      <4>1. /\ m.row + m.rowspan <= a /\ m.col + m.colspan <= a
            /\ m.row + m.rowspan \in Nat /\ m.col + m.colspan \in Nat
        BY <1>1, <2>1, <3>1 DEF EndsBy, GridOf, InGrid
      <4> QED BY <1>1, <4>1
    <3>2. CASE m \in moved
      <4>1. PICK c \in data : /\ m.row = c.row - Top(data) + Height(t.cells)
                              /\ m.col = c.col /\ m.rowspan = c.rowspan /\ m.colspan = c.colspan
        BY <2>4, <3>2
      <4>2. /\ c.row + c.rowspan <= b /\ c.col + c.colspan <= b
            /\ c.row \in Nat /\ c.rowspan \in Nat /\ c.col \in Nat /\ c.colspan \in Nat
        BY <1>2, <2>2 DEF EndsBy, GridOf, InGrid
      <4> QED BY <1>1, <2>3, <4>1, <4>2
    <3> QED BY <3>1, <3>2
  <2>6. a + b + Height(t.cells) \in Nat
    BY <1>1
  <2> QED BY <1>1, <2>4, <2>5, <2>6 DEF GridOf, moved, data
<1> QED BY <1>3, <1>4

---------------------------------------------------------------------------
\* One step of a pass: what it has built, possibly without its last sibling,
\* gets a new last one, which stands for one or two of those still to visit.
LEMMA AscendingParts ==
  ASSUME NEW s, IsList(s), Ascending(s), s # <<>>
  PROVE  /\ Ascending(Tail(s)) /\ \A x \in ToSet(Tail(s)) : Head(s).id < x.id
         /\ Ascending(Front(s)) /\ \A x \in ToSet(Front(s)) : x.id < Last(s).id
<1>1. /\ IsList(Tail(s)) /\ Len(Tail(s)) = Len(s) - 1 /\ Len(s) \in Nat \ {0}
      /\ \A i \in 1 .. Len(s) - 1 : Tail(s)[i] = s[i + 1]
      /\ Head(s) = s[1]
  BY Taken
<1>2. /\ IsList(Front(s)) /\ Len(Front(s)) = Len(s) - 1
      /\ \A i \in 1 .. Len(s) - 1 : Front(s)[i] = s[i]
      /\ Last(s) = s[Len(s)]
  BY Fronted
<1>3. Ascending(Tail(s))
  <2> SUFFICES ASSUME NEW i \in 1 .. Len(s) - 1, NEW j \in 1 .. Len(s) - 1, i < j
               PROVE  Tail(s)[i].id < Tail(s)[j].id
    BY <1>1 DEF Ascending
  <2>1. i + 1 \in 1 .. Len(s) /\ j + 1 \in 1 .. Len(s) /\ i + 1 < j + 1
    BY <1>1
  <2> QED BY <1>1, <2>1 DEF Ascending
<1>4. ASSUME NEW x \in ToSet(Tail(s)) PROVE Head(s).id < x.id
  <2>1. PICK i \in 1 .. Len(s) - 1 : Tail(s)[i] = x
    <3>1. \E i \in 1 .. Len(Tail(s)) : Tail(s)[i] = x
      BY <1>1, ListHas
    <3> QED BY <1>1, <3>1
  <2>2. i + 1 \in 1 .. Len(s) /\ 1 \in 1 .. Len(s) /\ 1 < i + 1
    BY <1>1
  <2>3. s[1].id < s[i + 1].id
    BY <2>2 DEF Ascending
  <2> QED BY <1>1, <2>1, <2>3
<1>5. Ascending(Front(s))
  <2> SUFFICES ASSUME NEW i \in 1 .. Len(s) - 1, NEW j \in 1 .. Len(s) - 1, i < j
               PROVE  Front(s)[i].id < Front(s)[j].id
    BY <1>2 DEF Ascending
  <2>1. i \in 1 .. Len(s) /\ j \in 1 .. Len(s)
    BY <1>1
  <2> QED BY <1>2, <2>1 DEF Ascending
<1>6. ASSUME NEW x \in ToSet(Front(s)) PROVE x.id < Last(s).id
  <2>1. PICK i \in 1 .. Len(s) - 1 : Front(s)[i] = x
    BY <1>2, ListHas
  <2>2. i \in 1 .. Len(s) /\ Len(s) \in 1 .. Len(s) /\ i < Len(s)
    BY <1>1
  <2> QED BY <1>2, <2>1, <2>2 DEF Ascending
<1> QED BY <1>3, <1>4, <1>5, <1>6

\* A list stays in order when what is appended comes after it.
LEMMA AscendingAppended ==
  ASSUME NEW s, IsList(s), Ascending(s), NEW x, \A y \in ToSet(s) : y.id < x.id
  PROVE  Ascending(Append(s, x))
<1>1. /\ Len(Append(s, x)) = Len(s) + 1
      /\ \A i \in 1 .. Len(s) : Append(s, x)[i] = s[i]
      /\ Append(s, x)[Len(s) + 1] = x
  BY Appended
<1>2. Len(s) \in Nat /\ \A i \in 1 .. Len(s) : s[i] \in ToSet(s)
  BY ListHas
<1> SUFFICES ASSUME NEW i \in 1 .. Len(s) + 1, NEW j \in 1 .. Len(s) + 1, i < j
             PROVE  Append(s, x)[i].id < Append(s, x)[j].id
  BY <1>1 DEF Ascending
<1>3. i \in 1 .. Len(s)
  BY <1>2
<1>4. CASE j \in 1 .. Len(s)
  BY <1>1, <1>3, <1>4 DEF Ascending
<1>5. CASE j = Len(s) + 1
  BY <1>1, <1>2, <1>3, <1>5
<1> QED BY <1>2, <1>4, <1>5

\* The sibling a pass takes up.
LEMMA HeadOfRest ==
  ASSUME BaseInv, rest # <<>>
  PROVE  /\ Head(rest) \in ToSet(rest) /\ Known(source, Head(rest))
         /\ IsList(Tail(rest)) /\ Ascending(Tail(rest)) /\ Len(Tail(rest)) = Len(rest) - 1
         /\ ToSet(rest) = {Head(rest)} \cup ToSet(Tail(rest))
         /\ \A s \in ToSet(Tail(rest)) : Head(rest).id < s.id
         /\ \A s \in ToSet(done) : s.id < Head(rest).id
BY Taken, AscendingParts DEF BaseInv

\* The sibling a pass has just built.
LEMMA LastOfDone ==
  ASSUME BaseInv, done # <<>>
  PROVE  /\ Last(done) \in ToSet(done) /\ Known(source, Last(done))
         /\ IsList(Front(done)) /\ Ascending(Front(done)) /\ Len(Front(done)) = Len(done) - 1
         /\ ToSet(done) = ToSet(Front(done)) \cup {Last(done)}
         /\ \A s \in ToSet(Front(done)) : s.id < Last(done).id
         /\ \A s \in ToSet(rest) : Last(done).id < s.id
BY Fronted, AscendingParts DEF BaseInv

Rebuilt(kept, left, new) ==
  /\ kept = done \/ (done # <<>> /\ kept = Front(done))
  /\ rest # <<>>
  /\ left = Tail(rest) \/ (Len(rest) > 1 /\ left = Tail(Tail(rest)))
  /\ done' = Append(kept, new) /\ rest' = left
  /\ UNCHANGED <<pass, prev, source>> /\ pass \notin {"continuation", "end"}
  /\ Known(source, new)
  /\ (\A s \in ToSet(kept) : s.id < new.id) /\ \A s \in ToSet(left) : new.id < s.id

\* Such a step keeps the siblings known and in order.
LEMMA Rebuilding ==
  ASSUME BaseInv, NEW kept, NEW left, NEW new, Rebuilt(kept, left, new)
  PROVE  /\ BaseInv'
         /\ ToSet(kept) \subseteq ToSet(done) /\ ToSet(left) \subseteq ToSet(rest)
         /\ ToSet(done') = ToSet(kept) \cup {new} /\ ToSet(rest') = ToSet(left)
<1>1. /\ IsList(kept) /\ Ascending(kept) /\ Len(kept) <= Len(done) /\ Len(kept) \in Nat
      /\ ToSet(kept) \subseteq ToSet(done)
  <2>1. CASE kept = done
    BY <2>1, ListHas DEF BaseInv
  <2>2. CASE done # <<>> /\ kept = Front(done)
    BY <2>2, LastOfDone, ListHas DEF BaseInv
  <2> QED BY <2>1, <2>2 DEF Rebuilt
<1>2. /\ IsList(left) /\ Ascending(left) /\ Len(left) <= Len(rest) - 1 /\ Len(left) \in Nat
      /\ ToSet(left) \subseteq ToSet(rest) /\ Len(rest) \in Nat /\ Len(done) \in Nat
  <2>1. /\ IsList(Tail(rest)) /\ Ascending(Tail(rest)) /\ Len(Tail(rest)) = Len(rest) - 1
        /\ ToSet(Tail(rest)) \subseteq ToSet(rest) /\ Len(rest) \in Nat /\ Len(done) \in Nat
    BY HeadOfRest, ListHas DEF BaseInv, Rebuilt
  <2>4. Len(Tail(rest)) \in Nat
    BY <2>1, ListHas
  <2>2. CASE left = Tail(rest)
    BY <2>1, <2>2, <2>4
  <2>3. CASE Len(rest) > 1 /\ left = Tail(Tail(rest))
    <3>1. Tail(rest) # <<>>
      <4>1. \A q : q = <<>> => Len(q) = 0
        OBVIOUS
      <4>2. Len(Tail(rest)) # 0
        <5> DEFINE n == Len(Tail(rest))
        <5>1. Len(rest) > 1 /\ n = Len(rest) - 1 /\ Len(rest) \in Nat
          BY <2>1, <2>3
        <5> HIDE DEF n
        <5>2. n # 0
          BY <5>1
        <5> QED BY <5>2 DEF n
      <4> QED BY <4>1, <4>2
    <3>2. /\ IsList(left) /\ Ascending(left) /\ Len(left) = Len(Tail(rest)) - 1
          /\ ToSet(left) \subseteq ToSet(Tail(rest))
      BY <2>1, <2>3, <3>1, Taken, AscendingParts
    <3>3. Len(left) \in Nat
      BY <3>2, ListHas
    <3> QED BY <2>1, <2>4, <3>2, <3>3
  <2> QED BY <2>2, <2>3 DEF Rebuilt
<1>3. /\ IsList(Append(kept, new)) /\ Len(Append(kept, new)) = Len(kept) + 1
      /\ ToSet(Append(kept, new)) = ToSet(kept) \cup {new}
      /\ Ascending(Append(kept, new))
  BY <1>1, Appended, AscendingAppended DEF Rebuilt
<1>4. /\ done' = Append(kept, new) /\ rest' = left
      /\ pass' = pass /\ prev' = prev /\ source' = source /\ pass \notin {"continuation", "end"}
  BY DEF Rebuilt
<1>5. Len(done') + Len(rest') <= Len(source.siblings)
  <2>1. Len(done) + Len(rest) <= Len(source.siblings)
    BY DEF BaseInv
  <2>2. Len(source.siblings) \in Nat
    BY ListHas, SourceIsKnown DEF BaseInv
  <2> QED BY <1>1, <1>2, <1>3, <1>4, <2>1, <2>2
<1>6. prev' \in 0 .. Len(done') /\ prev' = 0
  BY <1>1, <1>3, <1>4 DEF BaseInv
<1>7. \A s \in ToSet(done'), t \in ToSet(rest') : s.id < t.id
  BY <1>1, <1>2, <1>3, <1>4 DEF BaseInv, Rebuilt
<1>8. \A s \in ToSet(done') \cup ToSet(rest') : Known(source', s)
  BY <1>1, <1>2, <1>3, <1>4 DEF BaseInv, Rebuilt
<1>9. BaseInv'
  BY <1>2, <1>3, <1>4, <1>5, <1>6, <1>7, <1>8 DEF BaseInv
<1> QED BY <1>1, <1>2, <1>3, <1>4, <1>9

\* What a pass may write into a sibling.
LEMMA CaptionsEdit ==
  ASSUME NEW d, NEW s, Known(d, s), NEW w
  PROVE  Known(d, [s EXCEPT !.captions = w]) /\ [s EXCEPT !.captions = w].id = s.id
BY DEF Known, SiblingFields

LEMMA ReviewEdit ==
  ASSUME NEW d, NEW s, Known(d, s), NEW w
  PROVE  Known(d, [s EXCEPT !.review = w])
BY DEF Known, SiblingFields

LEMMA ConsensusEdit ==
  ASSUME NEW d, NEW s, Known(d, s), NEW w \in {"unanimous", "majority", "quarantined"}
  PROVE  Known(d, [s EXCEPT !.consensus = w])
BY DEF Known, SiblingFields

LEMMA LinkEdit ==
  ASSUME NEW d, NEW s, Known(d, s), NEW w
  PROVE  /\ Known(d, [s EXCEPT !.continues_to = w])
         /\ Known(d, [s EXCEPT !.continues_from = w])
BY DEF Known, SiblingFields

LEMMA CellsEdit ==
  ASSUME NEW d, NEW s, Known(d, s), NEW w, GridOf(d, w), s.type = "table" \/ w = {}
  PROVE  Known(d, [s EXCEPT !.cells = w]) /\ [s EXCEPT !.cells = w].id = s.id
BY DEF Known, SiblingFields

---------------------------------------------------------------------------
\* A cell that is given its header path changes in nothing else.
WithPath(cells, c) == [c EXCEPT !.header_path = ColumnHeaderPath(cells, c.col)]
WithPaths(cells) == InHeader(cells) \cup {WithPath(cells, c) : c \in DataCells(cells)}
SameButPath(m, c) == SameButRow(m, c) /\ m.row = c.row

\* One cell with its path.
LEMMA PathIs ==
  ASSUME NEW d, NEW cells, NEW c, InGrid(d, c)
  PROVE  /\ InGrid(d, WithPath(cells, c)) /\ SameButPath(WithPath(cells, c), c)
         /\ WithPath(cells, c).header_path = ColumnHeaderPath(cells, c.col)
<1>1. DOMAIN c = CellFields
  BY DEF InGrid
<1>2. /\ DOMAIN WithPath(cells, c) = CellFields /\ SameButPath(WithPath(cells, c), c)
      /\ WithPath(cells, c).header_path = ColumnHeaderPath(cells, c.col)
  BY <1>1 DEF WithPath, CellFields, SameButPath, SameButRow
<1> QED BY <1>2 DEF InGrid, SameButPath, SameButRow

\* All cells with their paths are the grid they were.
LEMMA PathsAre ==
  ASSUME NEW d, NEW cells, GridOf(d, cells)
  PROVE  /\ GridOf(d, WithPaths(cells))
         /\ \A m \in WithPaths(cells) : \E c \in cells :
              SameButPath(m, c) /\ (m = c \/ m = WithPath(cells, c))
         /\ \A c \in cells : \E m \in WithPaths(cells) :
              SameButPath(m, c) /\ (m = c \/ m = WithPath(cells, c))
         /\ cells = {} => WithPaths(cells) = {}
<1>1. /\ InHeader(cells) \subseteq cells /\ DataCells(cells) = cells \ InHeader(cells)
  BY DEF InHeader, DataCells
<1>2. \A c \in cells : /\ InGrid(d, c) /\ InGrid(d, WithPath(cells, c))
                       /\ SameButPath(WithPath(cells, c), c)
                       /\ SameButPath(c, c)
  BY PathIs DEF GridOf, SameButPath, SameButRow
<1>3. \A m \in WithPaths(cells) : \E c \in cells :
        SameButPath(m, c) /\ (m = c \/ m = WithPath(cells, c))
  BY <1>1, <1>2 DEF WithPaths
<1>4. \A c \in cells : \E m \in WithPaths(cells) :
        SameButPath(m, c) /\ (m = c \/ m = WithPath(cells, c))
  BY <1>1, <1>2 DEF WithPaths
<1>5. GridOf(d, WithPaths(cells))
  <2>1. \A m \in WithPaths(cells) : InGrid(d, m)
    BY <1>2, <1>3
  <2>2. PICK b \in Nat : EndsBy(cells, b)
    BY DEF GridOf
  <2>3. EndsBy(WithPaths(cells), b)
    BY <1>3, <2>2 DEF EndsBy, SameButPath, SameButRow
  <2> QED BY <2>1, <2>2, <2>3 DEF GridOf
<1>6. cells = {} => WithPaths(cells) = {}
  BY <1>3
<1> QED BY <1>3, <1>4, <1>5, <1>6

---------------------------------------------------------------------------
\* What each action makes of the lists.
LEMMA AttachBackIs ==
  ASSUME BaseInv, AttachBack
  PROVE  Rebuilt(Front(done), Tail(rest),
                 [Last(done) EXCEPT !.captions = Append(@, Head(rest).id)])
<1>1. /\ pass = "captions" /\ rest # <<>> /\ done # <<>>
      /\ done' = Append(Front(done), [Last(done) EXCEPT !.captions = Append(@, Head(rest).id)])
      /\ rest' = Tail(rest) /\ UNCHANGED <<pass, prev, source>>
  BY DEF AttachBack, AfterTable
<1> DEFINE v == Append(Last(done).captions, Head(rest).id)
           new == [Last(done) EXCEPT !.captions = v]
<1>2. Known(source, new) /\ new.id = Last(done).id
  <2> HIDE DEF v
  <2> QED BY <1>1, LastOfDone, CaptionsEdit
<1>3. /\ \A s \in ToSet(Front(done)) : s.id < Last(done).id
      /\ \A s \in ToSet(Tail(rest)) : Last(done).id < s.id
  BY <1>1, LastOfDone, HeadOfRest
<1>4. new = [Last(done) EXCEPT !.captions = Append(@, Head(rest).id)]
  OBVIOUS
<1> HIDE DEF new
<1> QED BY <1>1, <1>2, <1>3, <1>4 DEF Rebuilt

LEMMA AttachForwardIs ==
  ASSUME BaseInv, AttachForward
  PROVE  /\ Rebuilt(done, Tail(Tail(rest)),
                    [rest[2] EXCEPT !.captions = <<Head(rest).id>> \o @])
         /\ rest[2] \in ToSet(rest)
<1>1. /\ pass = "captions" /\ rest # <<>> /\ Len(rest) > 1
      /\ done' = Append(done, [rest[2] EXCEPT !.captions = <<Head(rest).id>> \o @])
      /\ rest' = Tail(Tail(rest)) /\ UNCHANGED <<pass, prev, source>>
  BY DEF AttachForward, BeforeTable
<1> DEFINE v == <<Head(rest).id>> \o rest[2].captions
           new == [rest[2] EXCEPT !.captions = v]
           r == Tail(rest)
<1>2. /\ IsList(r) /\ Ascending(r) /\ r # <<>> /\ Head(r) = rest[2]
      /\ Head(r) \in ToSet(r) /\ ToSet(r) \subseteq ToSet(rest)
      /\ \A s \in ToSet(Tail(r)) : Head(r).id < s.id
  <2> DEFINE n == Len(r)
  <2>1. IsList(r) /\ Ascending(r) /\ n = Len(rest) - 1 /\ ToSet(r) \subseteq ToSet(rest)
    BY <1>1, HeadOfRest
  <2>2. Len(rest) \in Nat /\ \A i \in 1 .. Len(rest) - 1 : r[i] = rest[i + 1]
    BY <1>1, ListHas, Taken DEF BaseInv
  <2> HIDE DEF n
  <2>3. n # 0 /\ 1 \in 1 .. Len(rest) - 1
    BY <1>1, <2>1, <2>2
  <2>4. r # <<>>
    <3>1. \A q : q = <<>> => Len(q) = 0
      OBVIOUS
    <3> HIDE DEF r
    <3> QED BY <2>3, <3>1 DEF n
  <2>5. r[1] = rest[2]
    BY <2>2, <2>3
  <2> HIDE DEF r
  <2> QED BY <2>1, <2>4, <2>5, Taken, AscendingParts
<1> HIDE DEF r
<1>3. Known(source, rest[2]) /\ rest[2] \in ToSet(rest)
  BY <1>2 DEF BaseInv
<1>4. Known(source, new) /\ new.id = rest[2].id
  <2> HIDE DEF v
  <2> QED BY <1>3, CaptionsEdit
<1>5. \A s \in ToSet(done) : s.id < rest[2].id
  BY <1>3 DEF BaseInv
<1>6. new = [rest[2] EXCEPT !.captions = <<Head(rest).id>> \o @]
  OBVIOUS
<1> HIDE DEF new
<1> QED BY <1>1, <1>2, <1>3, <1>4, <1>5, <1>6 DEF Rebuilt, r

LEMMA VisitIs ==
  ASSUME BaseInv, NEW p, NEW new, Visit(p, new), p \notin {"continuation", "end"},
         rest # <<>>, Known(source, new), new.id = Head(rest).id
  PROVE  Rebuilt(done, Tail(rest), new)
BY HeadOfRest DEF Visit, Rebuilt

LEMMA StitchNextIs ==
  ASSUME BaseInv, StitchNext
  PROVE  Rebuilt(Front(done), Tail(rest), MergeTables(Last(done), Head(rest)))
<1>1. /\ pass = "stitch" /\ rest # <<>> /\ done # <<>> /\ Last(done).type = "table"
      /\ done' = Append(Front(done), MergeTables(Last(done), Head(rest)))
      /\ rest' = Tail(rest) /\ UNCHANGED <<pass, prev, source>>
  BY DEF StitchNext, Continues
<1> DEFINE t == Last(done)
           data == DataCells(Head(rest).cells)
           v == t.cells \cup MovedBelow(data, Top(data), Height(t.cells))
           new == [t EXCEPT !.cells = v]
<1>2. new = MergeTables(Last(done), Head(rest))
  BY DEF MergeTables
<1>3. Known(source, t) /\ Known(source, Head(rest))
  BY <1>1, LastOfDone, HeadOfRest
<1>4. GridOf(source, v)
  BY <1>3, MergedGrid
<1>5. Known(source, new) /\ new.id = t.id
  <2> HIDE DEF v, t
  <2>1. t.type = "table"
    BY <1>1 DEF t
  <2> QED BY <1>3, <1>4, <2>1, CellsEdit
<1> HIDE DEF new
<1>6. /\ \A s \in ToSet(Front(done)) : s.id < t.id
      /\ \A s \in ToSet(Tail(rest)) : t.id < s.id
  BY <1>1, LastOfDone, HeadOfRest
<1> QED BY <1>1, <1>2, <1>5, <1>6 DEF Rebuilt

\* A reason for review changes what is said of a sibling, not what it is.
LEMMA ReviewedIs ==
  ASSUME NEW d, NEW s, Known(d, s), NEW reason
  PROVE  /\ Known(d, Reviewed(s, reason)) /\ Known(d, Quarantined(s, reason))
         /\ \A n \in {Reviewed(s, reason), Quarantined(s, reason)} :
              /\ n.id = s.id /\ n.page = s.page /\ n.type = s.type /\ n.cells = s.cells
              /\ n.continues_to = s.continues_to /\ n.continues_from = s.continues_from
         /\ Reviewed(s, reason).consensus = s.consensus
         /\ Quarantined(s, reason).consensus = "quarantined"
<1> DEFINE w == s.review \cup {reason}
           r == [s EXCEPT !.review = w]
           q == [r EXCEPT !.consensus = "quarantined"]
<1>1. Reviewed(s, reason) = r /\ Quarantined(s, reason) = q
  BY DEF Reviewed, Quarantined
<1>2. Known(d, r) /\ Known(d, q)
  <2> HIDE DEF w
  <2>1. Known(d, r)
    BY ReviewEdit
  <2> HIDE DEF r
  <2> QED BY <2>1, ConsensusEdit
<1>3. DOMAIN s = SiblingFields
  BY DEF Known
<1>4. /\ r.id = s.id /\ r.page = s.page /\ r.type = s.type /\ r.cells = s.cells
      /\ r.continues_to = s.continues_to /\ r.continues_from = s.continues_from
      /\ r.consensus = s.consensus /\ DOMAIN r = SiblingFields
  <2> HIDE DEF w
  <2> QED BY <1>3 DEF SiblingFields
<1>5. /\ q.id = r.id /\ q.page = r.page /\ q.type = r.type /\ q.cells = r.cells
      /\ q.continues_to = r.continues_to /\ q.continues_from = r.continues_from
      /\ q.consensus = "quarantined"
  <2> HIDE DEF r
  <2> QED BY <1>4 DEF SiblingFields
<1> HIDE DEF r, q
<1> QED BY <1>1, <1>2, <1>4, <1>5

\* Only what the passes after stitching say of a sibling is new in n.
Judgement(n, s) ==
  /\ n.id = s.id /\ n.page = s.page /\ n.type = s.type /\ n.cells = s.cells
  /\ n.continues_to = s.continues_to /\ n.continues_from = s.continues_from

LEMMA KeepSiblingIs ==
  ASSUME BaseInv, KeepSibling
  PROVE  pass = "captions" /\ Rebuilt(done, Tail(rest), Head(rest))
<1>1. pass = "captions" /\ rest # <<>> /\ Visit("captions", Head(rest))
  BY DEF KeepSibling, Visit
<1> QED BY <1>1, VisitIs, HeadOfRest

LEMMA StitchNotIs ==
  ASSUME BaseInv, StitchNot
  PROVE  pass = "stitch" /\ ~Continues /\ Rebuilt(done, Tail(rest), Head(rest))
<1>1. pass = "stitch" /\ ~Continues /\ rest # <<>> /\ Visit("stitch", Head(rest))
  BY DEF StitchNot, Visit
<1> QED BY <1>1, VisitIs, HeadOfRest

LEMMA AssignHeaderPathsIs ==
  ASSUME BaseInv, AssignHeaderPaths
  PROVE  /\ pass = "headers"
         /\ Rebuilt(done, Tail(rest), [Head(rest) EXCEPT !.cells = WithPaths(Head(rest).cells)])
<1> DEFINE t == Head(rest)
           v == WithPaths(t.cells)
           new == [t EXCEPT !.cells = v]
<1>1. pass = "headers" /\ rest # <<>> /\ Visit("headers", new)
  BY DEF AssignHeaderPaths, Visit, WithPaths, WithPath
<1>2. Known(source, t)
  BY <1>1, HeadOfRest
<1>3. GridOf(source, v) /\ (t.type # "table" => v = {})
  <2>1. GridOf(source, t.cells) /\ (t.type # "table" => t.cells = {})
    BY <1>2 DEF Known
  <2> QED BY <2>1, PathsAre
<1>4. Known(source, new) /\ new.id = t.id
  <2> HIDE DEF v, t
  <2> QED BY <1>2, <1>3, CellsEdit
<1> HIDE DEF new
<1>5. Rebuilt(done, Tail(rest), new)
  BY <1>1, <1>4, VisitIs
<1> QED BY <1>1, <1>5 DEF new

LEMMA FlagNestedTableIs ==
  ASSUME BaseInv, FlagNestedTable
  PROVE  /\ pass = "nested"
         /\ \E new : /\ Rebuilt(done, Tail(rest), new) /\ Judgement(new, Head(rest))
                     /\ new.consensus = Head(rest).consensus
<1>1. PICK new \in {Head(rest), Reviewed(Head(rest), "possible_nested_table")} :
        pass = "nested" /\ rest # <<>> /\ Visit("nested", new)
  BY DEF FlagNestedTable, Visit
<1>2. /\ Known(source, new) /\ Judgement(new, Head(rest))
      /\ new.consensus = Head(rest).consensus
  BY <1>1, HeadOfRest, ReviewedIs DEF Judgement
<1>3. Rebuilt(done, Tail(rest), new)
  BY <1>1, <1>2, VisitIs DEF Judgement
<1> QED BY <1>1, <1>2, <1>3

\* Some grid that is ruled on the page has the size of the table.
RuledAlike(d, s) ==
  DoclingGrid(s.cells) \in
    {d.ruled[i] : i \in {j \in DOMAIN d.ruled : d.siblings[j].page = s.page}} \ {NoGrid}

\* The geometry check holds what no grid of the page is like, and only that.
LEMMA CheckGeometryIs ==
  ASSUME BaseInv, CheckGeometry
  PROVE  /\ pass = "geometry"
         /\ \E new : /\ Rebuilt(done, Tail(rest), new) /\ Judgement(new, Head(rest))
                     /\ IF Head(rest).cells = {} \/ Head(rest).consensus = "quarantined"
                        THEN new = Head(rest)
                        ELSE IF ~RuledAlike(source, Head(rest)) THEN new.consensus = "quarantined"
                        ELSE new.consensus \in {Head(rest).consensus, "majority"}
<1> DEFINE t == Head(rest)
           grids == PageTableGrids(t.page)
           New(agrees) == IF t.cells = {} \/ t.consensus = "quarantined" THEN t
                          ELSE Reconciled(t, grids, agrees)
<1>1. PICK agrees \in BOOLEAN :
        pass = "geometry" /\ rest # <<>> /\ Visit("geometry", New(agrees))
  BY DEF CheckGeometry, Visit
<1>2. Known(source, t)
  BY <1>1, HeadOfRest
<1>3. RuledAlike(source, t) <=> DoclingGrid(t.cells) \in grids
  BY DEF RuledAlike, PageTableGrids
<1> HIDE DEF t, grids
<1>4. ASSUME t.cells # {}, t.consensus # "quarantined"
      PROVE  /\ Known(source, New(agrees)) /\ Judgement(New(agrees), t)
             /\ IF DoclingGrid(t.cells) \notin grids THEN New(agrees).consensus = "quarantined"
                ELSE New(agrees).consensus \in {t.consensus, "majority"}
  <2>1. New(agrees) = Reconciled(t, grids, agrees)
    BY <1>4
  <2> HIDE DEF New
  <2>2. CASE DoclingGrid(t.cells) \notin grids
    <3>1. New(agrees) = Quarantined(t, "table_geometry_disagreement")
      BY <2>1, <2>2 DEF Reconciled
    <3> QED BY <1>2, <2>2, <3>1, ReviewedIs DEF Judgement
  <2>3. CASE DoclingGrid(t.cells) \in grids /\ agrees
    <3>1. New(agrees) = t
      BY <2>1, <2>3 DEF Reconciled
    <3> QED BY <1>2, <2>3, <3>1 DEF Judgement
  <2>4. CASE DoclingGrid(t.cells) \in grids /\ ~agrees
    <3> DEFINE r == Reviewed(t, "table_geometry_corroborator_differs")
               m == [r EXCEPT !.consensus = "majority"]
    <3>1. New(agrees) = m
      BY <2>1, <2>4 DEF Reconciled
    <3>2. Known(source, r) /\ Judgement(r, t)
      BY <1>2, ReviewedIs DEF Judgement
    <3> HIDE DEF r
    <3>3. Known(source, m)
      BY <3>2, ConsensusEdit
    <3>4. Judgement(m, r) /\ m.consensus = "majority"
      BY <3>2 DEF Judgement, Known, SiblingFields
    <3> QED BY <2>4, <3>1, <3>2, <3>3, <3>4 DEF Judgement
  <2> QED BY <2>2, <2>3, <2>4
<1>5. Known(source, New(agrees)) /\ Judgement(New(agrees), t)
  <2>1. CASE t.cells = {} \/ t.consensus = "quarantined"
    BY <1>2, <2>1 DEF Judgement
  <2>2. CASE t.cells # {} /\ t.consensus # "quarantined"
    BY <1>4, <2>2
  <2> QED BY <2>1, <2>2
<1>6. IF t.cells = {} \/ t.consensus = "quarantined" THEN New(agrees) = t
      ELSE IF ~RuledAlike(source, t) THEN New(agrees).consensus = "quarantined"
      ELSE New(agrees).consensus \in {t.consensus, "majority"}
  BY <1>3, <1>4
<1> HIDE DEF New
<1>7. Rebuilt(done, Tail(rest), New(agrees))
  BY <1>1, <1>5, VisitIs DEF Judgement, t
<1> QED BY <1>1, <1>5, <1>6, <1>7 DEF t

\* The rectangularity gate holds what is not whole or lacks a limit.
LEMMA CheckRectangularityIs ==
  ASSUME BaseInv, CheckRectangularity
  PROVE  /\ pass = "rectangularity"
         /\ \E new : /\ Rebuilt(done, Tail(rest), new) /\ Judgement(new, Head(rest))
                     /\ IF \/ Head(rest).cells = {}
                           \/ CoverageOk(Head(rest).cells) /\ MandatoryColumnOk(Head(rest).cells)
                        THEN new = Head(rest) ELSE new.consensus = "quarantined"
<1> DEFINE t == Head(rest)
           new == IF t.cells = {} \/ (CoverageOk(t.cells) /\ MandatoryColumnOk(t.cells)) THEN t
                  ELSE Quarantined(t, "gate_table_rectangularity")
<1>1. pass = "rectangularity" /\ rest # <<>> /\ Visit("rectangularity", new)
  BY DEF CheckRectangularity, Visit
<1>2. Known(source, t)
  BY <1>1, HeadOfRest
<1> HIDE DEF t
<1>3. Known(source, new) /\ Judgement(new, t)
  BY <1>2, ReviewedIs DEF Judgement
<1>4. IF t.cells = {} \/ (CoverageOk(t.cells) /\ MandatoryColumnOk(t.cells))
      THEN new = t ELSE new.consensus = "quarantined"
  BY <1>2, ReviewedIs
<1> HIDE DEF new
<1>5. Rebuilt(done, Tail(rest), new)
  BY <1>1, <1>3, VisitIs DEF Judgement, t
<1> QED BY <1>1, <1>3, <1>4, <1>5 DEF t

\* The cells and the place of a sibling are not the last gate's business.
SamePart(n, s) ==
  n.id = s.id /\ n.page = s.page /\ n.type = s.type /\ n.cells = s.cells

Doubtful(t, u) == PartlySame(t, u) /\ Flagged(t) # {} /\ Flagged(u) # {}

\* What the last gate says of two tables.
LEMMA JudgedIs ==
  ASSUME NEW d, NEW t, NEW u, Known(d, t), Known(d, u)
  PROVE  LET a == Judged(t, u)[1]
             b == Judged(t, u)[2]
         IN  /\ Known(d, a) /\ Known(d, b) /\ SamePart(a, t) /\ SamePart(b, u)
             /\ a.continues_from = t.continues_from /\ b.continues_to = u.continues_to
             /\ SameHeader(t, u) /\ ~Linked(t, u) =>
                  a.continues_to = u.id /\ b.continues_from = t.id
             /\ ~(SameHeader(t, u) /\ ~Linked(t, u)) =>
                  a.continues_to = t.continues_to /\ b.continues_from = u.continues_from
             /\ Doubtful(t, u) => a.consensus = "quarantined" /\ b.consensus = "quarantined"
             /\ ~Doubtful(t, u) => a.consensus = t.consensus /\ b.consensus = u.consensus
<1>0. ~(SameHeader(t, u) /\ Doubtful(t, u))
  BY DEF Doubtful, PartlySame
<1>1. CASE SameHeader(t, u) /\ ~Linked(t, u)
  <2> DEFINE a == [t EXCEPT !.continues_to = u.id]
             b == [u EXCEPT !.continues_from = t.id]
  <2>1. Judged(t, u) = <<a, b>>
    BY <1>1 DEF Judged
  <2>2. Known(d, a) /\ Known(d, b)
    BY LinkEdit
  <2>3. DOMAIN t = SiblingFields /\ DOMAIN u = SiblingFields
    BY DEF Known
  <2>4. /\ SamePart(a, t) /\ SamePart(b, u)
        /\ a.continues_from = t.continues_from /\ b.continues_to = u.continues_to
        /\ a.continues_to = u.id /\ b.continues_from = t.id
        /\ a.consensus = t.consensus /\ b.consensus = u.consensus
    BY <2>3 DEF SamePart, SiblingFields
  <2> HIDE DEF a, b
  <2> QED BY <1>0, <1>1, <2>1, <2>2, <2>4
<1>2. CASE ~(SameHeader(t, u) /\ ~Linked(t, u)) /\ Doubtful(t, u)
  <2> DEFINE a == Quarantined(t, "gate_continuation")
             b == Quarantined(u, "gate_continuation")
  <2>1. Judged(t, u) = <<a, b>>
    BY <1>2 DEF Judged, Doubtful
  <2>2. /\ Known(d, a) /\ Known(d, b) /\ Judgement(a, t) /\ Judgement(b, u)
        /\ a.consensus = "quarantined" /\ b.consensus = "quarantined"
    BY ReviewedIs DEF Judgement
  <2> HIDE DEF a, b
  <2> QED BY <1>2, <2>1, <2>2 DEF Judgement, SamePart
<1>3. CASE ~(SameHeader(t, u) /\ ~Linked(t, u)) /\ ~Doubtful(t, u)
  <2>1. Judged(t, u) = <<t, u>>
    BY <1>3 DEF Judged, Doubtful
  <2> QED BY <1>3, <2>1 DEF SamePart
<1> QED BY <1>1, <1>2, <1>3

\* The gate adds a sibling to what it has built, and may judge the table before
\* it once more.
LEMMA CheckContinuationIs ==
  ASSUME BaseInv, CheckContinuation
  PROVE  /\ pass = "continuation" /\ rest # <<>> /\ rest' = Tail(rest)
         /\ UNCHANGED <<pass, source>>
         /\ \E old, new :
              /\ IsList(old) /\ Len(old) = Len(done) /\ done' = Append(old, new)
              /\ \A i \in 1 .. Len(done) : /\ i # prev => old[i] = done[i]
                                           /\ Known(source, old[i]) /\ SamePart(old[i], done[i])
              /\ Known(source, new) /\ SamePart(new, Head(rest))
              /\ IF HeaderCells(Head(rest)) = {} THEN prev' = prev ELSE prev' = Len(done) + 1
              /\ IF HeaderCells(Head(rest)) = {} \/ prev = 0
                 THEN old = done /\ new = Head(rest)
                 ELSE /\ prev \in 1 .. Len(done)
                      /\ old[prev] = Judged(done[prev], Head(rest))[1]
                      /\ new = Judged(done[prev], Head(rest))[2]
<1> DEFINE u == Head(rest)
<1>1. /\ pass = "continuation" /\ rest # <<>> /\ rest' = Tail(rest) /\ UNCHANGED <<pass, source>>
  BY DEF CheckContinuation
<1>2. Known(source, u) /\ Len(done) \in Nat /\ DOMAIN done = 1 .. Len(done) /\ IsList(done)
  BY <1>1, HeadOfRest, ListHas DEF BaseInv
<1>3. \A i \in 1 .. Len(done) : Known(source, done[i]) /\ SamePart(done[i], done[i])
  BY ListHas DEF BaseInv, SamePart
<1>4. SamePart(u, u)
  BY DEF SamePart
<1>5. CASE HeaderCells(u) = {}
  <2>1. done' = Append(done, u) /\ prev' = prev
    BY <1>5 DEF CheckContinuation
  <2> HIDE DEF u
  <2> QED BY <1>1, <1>2, <1>3, <1>4, <1>5, <2>1 DEF u
<1>6. CASE HeaderCells(u) # {} /\ prev = 0
  <2>1. done' = Append(done, u) /\ prev' = Len(done) + 1
    BY <1>6 DEF CheckContinuation
  <2> HIDE DEF u
  <2> QED BY <1>1, <1>2, <1>3, <1>4, <1>6, <2>1 DEF u
<1>7. CASE HeaderCells(u) # {} /\ prev # 0
  <2> DEFINE a == Judged(done[prev], u)[1]
             b == Judged(done[prev], u)[2]
             old == [done EXCEPT ![prev] = a]
  <2>1. done' = Append(old, b) /\ prev' = Len(done) + 1
    BY <1>7 DEF CheckContinuation
  <2>2. prev \in 1 .. Len(done)
    BY <1>2, <1>7 DEF BaseInv
  <2>3. Known(source, a) /\ SamePart(a, done[prev]) /\ Known(source, b) /\ SamePart(b, u)
    <3> HIDE DEF u
    <3> QED BY <1>2, <1>3, <2>2, JudgedIs
  <2> HIDE DEF a, b
  <2>4. IsList(old) /\ Len(old) = Len(done)
    <3> DEFINE U == ToSet(done) \cup {a}
    <3>1. done \in Seq(U) /\ a \in U
      BY <1>2, SeqMonotonic DEF IsList
    <3> HIDE DEF U
    <3>2. old \in Seq(U) /\ Len(old) = Len(done)
      BY <2>2, <3>1, ExceptSeq
    <3> QED BY <3>2, ListOf
  <2>5. /\ \A i \in 1 .. Len(done) : i # prev => old[i] = done[i]
        /\ old[prev] = a
    BY <1>2, <2>2
  <2> HIDE DEF old
  <2>6. \A i \in 1 .. Len(done) : Known(source, old[i]) /\ SamePart(old[i], done[i])
    BY <1>3, <2>3, <2>5
  <2>7. /\ IsList(old) /\ Len(old) = Len(done) /\ done' = Append(old, b)
        /\ \A i \in 1 .. Len(done) : /\ i # prev => old[i] = done[i]
                                     /\ Known(source, old[i]) /\ SamePart(old[i], done[i])
        /\ Known(source, b) /\ SamePart(b, u)
        /\ old[prev] = Judged(done[prev], u)[1] /\ b = Judged(done[prev], u)[2]
    BY <2>1, <2>3, <2>4, <2>5, <2>6 DEF a, b
  <2> HIDE DEF u
  <2> QED BY <1>1, <1>7, <2>1, <2>2, <2>7 DEF u
<1> QED BY <1>5, <1>6, <1>7

\* The end of a pass.
LEMMA FinishIs ==
  ASSUME BaseInv, Finish
  PROVE  /\ pass # "end" /\ pass' = After(pass) /\ ToSet(rest) = {}
         /\ rest' = done /\ done' = <<>> /\ prev' = 0 /\ source' = source
         /\ IsList(done') /\ Len(done') = 0 /\ ToSet(done') = {}
         /\ pass \in {"captions", "stitch", "headers", "nested", "geometry",
                      "rectangularity", "continuation"}
<1>1. /\ pass # "end" /\ pass' = After(pass) /\ rest = <<>>
      /\ rest' = done /\ done' = <<>> /\ prev' = 0 /\ source' = source
  BY DEF Finish
<1>2. ToSet(<<>>) = {} /\ IsList(<<>>) /\ Len(<<>>) = 0
  BY DEF ToSet, IsList
<1> QED BY <1>1, <1>2, PassesAre DEF BaseInv

\* The next pass takes the list as it was built.
LEMMA FinishKeepsBase ==
  ASSUME BaseInv, Finish
  PROVE  BaseInv'
<1>1. /\ pass' \in ToSet(Passes) /\ (pass' = "end" => done' = <<>>)
  BY FinishIs, PassesAre
<1>2. Len(done') + Len(rest') <= Len(source'.siblings)
  <2>1. Len(done) + Len(rest) <= Len(source.siblings) /\ Len(done) \in Nat /\ Len(rest) \in Nat
    BY ListHas DEF BaseInv
  <2>2. Len(source.siblings) \in Nat
    BY ListHas, SourceIsKnown DEF BaseInv
  <2> QED BY <2>1, <2>2, FinishIs
<1>3. prev' \in 0 .. Len(done')
  BY FinishIs
<1>4. Ascending(done')
  BY FinishIs DEF Ascending
<1> QED BY <1>1, <1>2, <1>3, <1>4, FinishIs DEF BaseInv

\* The last gate changes an earlier sibling too, but in no cell.
LEMMA ContinuationKeepsBase ==
  ASSUME BaseInv, CheckContinuation
  PROVE  BaseInv'
<1>1. /\ pass = "continuation" /\ rest # <<>> /\ rest' = Tail(rest)
      /\ pass' = pass /\ source' = source
  BY CheckContinuationIs
<1>2. PICK old, new :
        /\ IsList(old) /\ Len(old) = Len(done) /\ done' = Append(old, new)
        /\ \A i \in 1 .. Len(done) : Known(source, old[i]) /\ SamePart(old[i], done[i])
        /\ Known(source, new) /\ SamePart(new, Head(rest))
        /\ prev' = prev \/ prev' = Len(done) + 1
  BY CheckContinuationIs
<1>3. \A s \in ToSet(old) : Known(source, s) /\ \E t \in ToSet(done) : SamePart(s, t)
  BY <1>2, ListHas DEF BaseInv
<1>4. Ascending(old)
  BY <1>2 DEF Ascending, SamePart, BaseInv
<1>5. /\ IsList(done') /\ Len(done') = Len(done) + 1 /\ ToSet(done') = ToSet(old) \cup {new}
      /\ Ascending(done')
  <2>1. \A s \in ToSet(old) : s.id < new.id
    BY <1>1, <1>2, <1>3, HeadOfRest DEF SamePart
  <2> QED BY <1>2, <1>4, <2>1, Appended, AscendingAppended
<1>6. /\ IsList(rest') /\ Len(rest') = Len(rest) - 1 /\ Ascending(rest')
      /\ ToSet(rest') \subseteq ToSet(rest)
  BY <1>1, HeadOfRest
<1>7. Len(done') + Len(rest') <= Len(source'.siblings)
  <2>1. Len(done) + Len(rest) <= Len(source.siblings) /\ Len(done) \in Nat /\ Len(rest) \in Nat
    BY ListHas DEF BaseInv
  <2>2. Len(source.siblings) \in Nat
    BY ListHas, SourceIsKnown DEF BaseInv
  <2> QED BY <1>1, <1>5, <1>6, <2>1, <2>2
<1>8. prev' \in 0 .. Len(done')
  <2>1. prev \in 0 .. Len(done) /\ Len(done) \in Nat
    BY ListHas DEF BaseInv
  <2> QED BY <1>2, <1>5, <2>1
<1>9. \A s \in ToSet(done'), t \in ToSet(rest') : s.id < t.id
  <2>1. \A t \in ToSet(rest') : new.id < t.id
    BY <1>1, <1>2, HeadOfRest DEF SamePart
  <2>2. \A s \in ToSet(old), t \in ToSet(rest') : s.id < t.id
    BY <1>3, <1>6 DEF SamePart, BaseInv
  <2> QED BY <1>5, <2>1, <2>2
<1>10. \A s \in ToSet(done') \cup ToSet(rest') : Known(source', s)
  BY <1>1, <1>2, <1>3, <1>5, <1>6 DEF BaseInv
<1> QED BY <1>1, <1>5, <1>6, <1>7, <1>8, <1>9, <1>10 DEF BaseInv

\* Every pass works on Docling's siblings, in their order.
LEMMA BaseSteps ==
  ASSUME BaseInv, [Next]_vars
  PROVE  BaseInv'
<1>1. CASE UNCHANGED vars
  BY <1>1 DEF vars, BaseInv
<1>2. CASE Finish
  BY <1>2, FinishKeepsBase
<1>3. CASE AttachBack
  BY <1>3, AttachBackIs, Rebuilding
<1>4. CASE AttachForward
  BY <1>4, AttachForwardIs, Rebuilding
<1>5. CASE KeepSibling
  BY <1>5, KeepSiblingIs, Rebuilding
<1>6. CASE StitchNext
  BY <1>6, StitchNextIs, Rebuilding
<1>7. CASE StitchNot
  BY <1>7, StitchNotIs, Rebuilding
<1>8. CASE AssignHeaderPaths
  BY <1>8, AssignHeaderPathsIs, Rebuilding
<1>9. CASE FlagNestedTable
  BY <1>9, FlagNestedTableIs, Rebuilding
<1>10. CASE CheckGeometry
  BY <1>10, CheckGeometryIs, Rebuilding
<1>11. CASE CheckRectangularity
  BY <1>11, CheckRectangularityIs, Rebuilding
<1>12. CASE CheckContinuation
  BY <1>12, ContinuationKeepsBase
<1> QED BY <1>1, <1>2, <1>3, <1>4, <1>5, <1>6, <1>7, <1>8, <1>9, <1>10, <1>11, <1>12 DEF Next

\* So the siblings are known and in order throughout.
LEMMA BaseInvariant == Spec => []BaseInv
<1>1. Init => BaseInv
  <2> SUFFICES ASSUME Init PROVE BaseInv
    OBVIOUS
  <2>1. WellFormed(source) /\ rest = source.siblings /\ done = <<>> /\ prev = 0 /\ pass = "captions"
    BY TableAssumption DEF Init
  <2>2. ToSet(done) = {} /\ IsList(done) /\ Len(done) = 0 /\ Ascending(done)
    BY <2>1 DEF ToSet, IsList, Ascending
  <2>3. Len(done) + Len(rest) <= Len(source.siblings)
    BY <2>1, <2>2, SourceIsKnown, ListHas
  <2> QED BY <2>1, <2>2, <2>3, SourceIsKnown, PassesAre DEF BaseInv
<1> QED BY <1>1, BaseSteps, PTL DEF Spec

\* Every sibling is visited once by every pass, and the cells of a table lie in
\* its grid, also after rows have been moved (continuity.py, _merge_tables).
THEOREM TableTypes == Spec => []TypeOK
<1>1. ASSUME BaseInv PROVE TypeOK
  <2>1. pass \in ToSet(Passes) /\ prev \in 0 .. Len(done)
        /\ Len(done) + Len(rest) <= Len(source.siblings)
    BY <1>1 DEF BaseInv
  <2>2. ToSet(done \o rest) \subseteq ToSet(done) \cup ToSet(rest)
    <3> DEFINE U == ToSet(done) \cup ToSet(rest)
    <3>1. done \in Seq(U) /\ rest \in Seq(U)
      BY <1>1, SeqMonotonic DEF BaseInv, IsList
    <3> HIDE DEF U
    <3>2. done \o rest \in Seq(U)
      BY <3>1
    <3>3. \A i \in DOMAIN (done \o rest) : (done \o rest)[i] \in U
      BY <3>2
    <3> QED BY <3>3 DEF ToSet, U
  <2>3. ASSUME NEW s \in ToSet(done \o rest)
        PROVE  /\ s.consensus \in {"unanimous", "majority", "quarantined"}
               /\ s.type # "table" => s.cells = {}
               /\ \A c \in s.cells : c.row \in Nat /\ c.col \in Nat /\ c.of \in DOMAIN source.siblings
    BY <1>1, <2>2 DEF BaseInv, Known, GridOf, InGrid
  <2> QED BY <2>1, <2>3 DEF TypeOK
<1> QED BY <1>1, BaseInvariant, PTL

---------------------------------------------------------------------------
\* What is known of a sibling when pass p takes it up.
Pathed(s) ==
  \A c \in DataCells(s.cells) : c.header_path = ColumnHeaderPath(s.cells, c.col)
Sound(d, s) == RuledAlike(d, s) /\ CoverageOk(s.cells) /\ MandatoryColumnOk(s.cells)
NoLinks(s) == s.continues_to = NoId /\ s.continues_from = NoId

Ready(d, p, s) ==
  /\ p \in {"nested", "geometry", "rectangularity", "continuation", "end"} => Pathed(s)
  /\ p \in {"captions", "stitch", "headers", "nested", "geometry"} => s.consensus = "unanimous"
  /\ p = "rectangularity" =>
       (s.consensus = "quarantined" <=> s.cells # {} /\ ~RuledAlike(d, s))
  /\ p = "continuation" => (s.consensus = "quarantined" <=> s.cells # {} /\ ~Sound(d, s))
  /\ p = "end" => (s.cells # {} /\ ~Sound(d, s) => s.consensus = "quarantined")
  /\ p # "end" => NoLinks(s)

ReadyInv ==
  /\ \A s \in ToSet(rest) : Ready(source, pass, s)
  /\ \A s \in ToSet(done) : Ready(source, After(pass), s)

\* The cells and the page tell whether a table is sound.
LEMMA CellsTell ==
  ASSUME NEW d, NEW n, NEW s, n.cells = s.cells, n.page = s.page
  PROVE  /\ Pathed(n) <=> Pathed(s)
         /\ RuledAlike(d, n) <=> RuledAlike(d, s)
         /\ Sound(d, n) <=> Sound(d, s)
<1>1. RuledAlike(d, n) <=> RuledAlike(d, s)
  BY DEF RuledAlike
<1>2. Pathed(n) <=> Pathed(s)
  BY DEF Pathed
<1> QED BY <1>1, <1>2 DEF Sound

\* The headers of a table stay what they are when the paths are written.
LEMMA HeadersStay ==
  ASSUME NEW d, NEW cells, GridOf(d, cells)
  PROVE  /\ HeaderRows(WithPaths(cells)) = HeaderRows(cells)
         /\ InHeader(WithPaths(cells)) = InHeader(cells)
         /\ DataCells(WithPaths(cells)) = {WithPath(cells, c) : c \in DataCells(cells)}
         /\ \A col : ColumnHeaderPath(WithPaths(cells), col) = ColumnHeaderPath(cells, col)
<1> DEFINE new == WithPaths(cells)
<1>1. /\ \A m \in new : \E c \in cells : SameButPath(m, c)
      /\ \A c \in cells : \E m \in new : SameButPath(m, c)
      /\ \A c \in cells : SameButPath(WithPath(cells, c), c)
  BY PathsAre, PathIs DEF GridOf
<1>2. new = InHeader(cells) \cup {WithPath(cells, c) : c \in DataCells(cells)}
  BY DEF WithPaths
<1> HIDE DEF new
<1>3. HeaderRows(new) = HeaderRows(cells)
  <2>1. {c.row : c \in {e \in new : e.is_column_header}}
          = {c.row : c \in {e \in cells : e.is_column_header}}
    BY <1>1 DEF SameButPath, SameButRow
  <2> QED BY <2>1 DEF HeaderRows
<1>4. /\ \A c \in InHeader(cells) : c \in cells /\ c.row \in HeaderRows(cells)
      /\ \A c \in DataCells(cells) : c \in cells /\ c.row \notin HeaderRows(cells)
  BY DEF InHeader, DataCells
<1>5. \A c \in DataCells(cells) : WithPath(cells, c).row \notin HeaderRows(cells)
  BY <1>1, <1>4 DEF SameButPath
<1>6. InHeader(new) = {c \in new : c.row \in HeaderRows(cells)}
  BY <1>3 DEF InHeader
<1>7. InHeader(new) = InHeader(cells)
  BY <1>2, <1>4, <1>5, <1>6
<1>8. DataCells(new) = {WithPath(cells, c) : c \in DataCells(cells)}
  <2>1. DataCells(new) = new \ InHeader(cells)
    BY <1>7 DEF DataCells
  <2> QED BY <1>2, <1>4, <1>5, <2>1
<1>9. \A col : ColumnHeaderPath(new, col) = ColumnHeaderPath(cells, col)
  BY <1>7 DEF ColumnHeaderPath
<1> QED BY <1>3, <1>7, <1>8, <1>9 DEF new

\* The pass over the headers writes the paths.
LEMMA PathsWritten ==
  ASSUME NEW d, NEW s, Known(d, s)
  PROVE  Pathed([s EXCEPT !.cells = WithPaths(s.cells)])
<1> DEFINE n == [s EXCEPT !.cells = WithPaths(s.cells)]
<1>1. n.cells = WithPaths(s.cells) /\ GridOf(d, s.cells)
  BY DEF Known, SiblingFields
<1> HIDE DEF n
<1>2. ASSUME NEW m \in DataCells(n.cells)
      PROVE  m.header_path = ColumnHeaderPath(n.cells, m.col)
  <2>1. PICK c \in DataCells(s.cells) : m = WithPath(s.cells, c)
    BY <1>1, <1>2, HeadersStay
  <2>2. InGrid(d, c)
    BY <1>1 DEF GridOf, DataCells
  <2>3. m.header_path = ColumnHeaderPath(s.cells, c.col) /\ m.col = c.col
    BY <2>1, <2>2, PathIs DEF SameButPath, SameButRow
  <2> QED BY <1>1, <2>3, HeadersStay
<1>3. Pathed(n)
  BY <1>2 DEF Pathed
<1> QED BY <1>3 DEF n

\* A step that rebuilds the list keeps what is known, if the new sibling is ready.
LEMMA RebuiltReady ==
  ASSUME BaseInv, ReadyInv, NEW kept, NEW left, NEW new, Rebuilt(kept, left, new),
         Ready(source, After(pass), new)
  PROVE  ReadyInv'
<1>1. /\ ToSet(kept) \subseteq ToSet(done) /\ ToSet(left) \subseteq ToSet(rest)
      /\ ToSet(done') = ToSet(kept) \cup {new} /\ ToSet(rest') = ToSet(left)
  BY Rebuilding
<1>2. pass' = pass /\ source' = source
  BY DEF Rebuilt
<1>3. \A s \in ToSet(rest') : Ready(source', pass', s)
  BY <1>1, <1>2 DEF ReadyInv
<1>4. \A s \in ToSet(done') : Ready(source', After(pass'), s)
  BY <1>1, <1>2 DEF ReadyInv
<1> QED BY <1>3, <1>4 DEF ReadyInv

\* A sibling with another caption is ready if it was.
LEMMA CaptionReady ==
  ASSUME NEW d, NEW s, Known(d, s), NEW w,
         NEW p \in {"captions", "stitch"}, NEW q \in {"captions", "stitch"}, Ready(d, p, s)
  PROVE  Ready(d, q, [s EXCEPT !.captions = w])
<1>1. /\ [s EXCEPT !.captions = w].consensus = s.consensus
      /\ [s EXCEPT !.captions = w].continues_to = s.continues_to
      /\ [s EXCEPT !.captions = w].continues_from = s.continues_from
  BY DEF Known, SiblingFields
<1> QED BY <1>1 DEF Ready, NoLinks

\* A sibling with other cells is ready for the next pass.
LEMMA CellsReady ==
  ASSUME NEW d, NEW s, Known(d, s), NEW w,
         NEW p \in {"stitch", "headers"}, NEW q \in {"stitch", "headers", "nested"}, Ready(d, p, s),
         q = "nested" => Pathed([s EXCEPT !.cells = w])
  PROVE  Ready(d, q, [s EXCEPT !.cells = w])
<1>1. /\ [s EXCEPT !.cells = w].consensus = s.consensus
      /\ [s EXCEPT !.cells = w].continues_to = s.continues_to
      /\ [s EXCEPT !.cells = w].continues_from = s.continues_from
  BY DEF Known, SiblingFields
<1> QED BY <1>1 DEF Ready, NoLinks

\* The passes, one by one: what each makes of a sibling is ready for the next.
LEMMA AttachKeepsReady ==
  ASSUME BaseInv, ReadyInv, AttachBack \/ AttachForward \/ KeepSibling
  PROVE  ReadyInv'
<1>1. pass = "captions" /\ After(pass) = "stitch" /\ rest # <<>>
  BY PassesAre DEF AttachBack, AttachForward, KeepSibling, Visit
<1>2. CASE AttachBack
  <2> DEFINE v == Append(Last(done).captions, Head(rest).id)
             new == [Last(done) EXCEPT !.captions = v]
  <2>1. Rebuilt(Front(done), Tail(rest), new)
    BY <1>2, AttachBackIs
  <2>2. Ready(source, "stitch", Last(done)) /\ Known(source, Last(done))
    BY <1>1, <1>2, LastOfDone DEF ReadyInv, AttachBack, AfterTable
  <2>3. Ready(source, "stitch", new)
    <3> HIDE DEF v
    <3> QED BY <2>2, CaptionReady
  <2> HIDE DEF new
  <2> QED BY <1>1, <2>1, <2>3, RebuiltReady
<1>3. CASE AttachForward
  <2> DEFINE v == <<Head(rest).id>> \o rest[2].captions
             new == [rest[2] EXCEPT !.captions = v]
  <2>1. Rebuilt(done, Tail(Tail(rest)), new) /\ rest[2] \in ToSet(rest)
    BY <1>3, AttachForwardIs
  <2>2. Ready(source, "captions", rest[2]) /\ Known(source, rest[2])
    BY <1>1, <2>1 DEF ReadyInv, BaseInv
  <2>3. Ready(source, "stitch", new)
    <3> HIDE DEF v
    <3> QED BY <2>2, CaptionReady
  <2> HIDE DEF new
  <2> QED BY <1>1, <2>1, <2>3, RebuiltReady
<1>4. CASE KeepSibling
  <2>1. Rebuilt(done, Tail(rest), Head(rest))
    BY <1>4, KeepSiblingIs
  <2>2. Ready(source, "captions", Head(rest))
    BY <1>1, HeadOfRest DEF ReadyInv
  <2>3. Ready(source, "stitch", Head(rest))
    BY <2>2 DEF Ready
  <2> QED BY <1>1, <2>1, <2>3, RebuiltReady
<1> QED BY <1>2, <1>3, <1>4

LEMMA StitchKeepsReady ==
  ASSUME BaseInv, ReadyInv, StitchNext \/ StitchNot
  PROVE  ReadyInv'
<1>1. pass = "stitch" /\ After(pass) = "headers" /\ rest # <<>>
  BY PassesAre DEF StitchNext, StitchNot, Continues, Visit
<1>2. CASE StitchNext
  <2> DEFINE t == Last(done)
             data == DataCells(Head(rest).cells)
             v == t.cells \cup MovedBelow(data, Top(data), Height(t.cells))
             new == [t EXCEPT !.cells = v]
  <2>1. Rebuilt(Front(done), Tail(rest), new)
    <3>1. new = MergeTables(t, Head(rest))
      BY DEF MergeTables
    <3> HIDE DEF new
    <3> QED BY <1>2, <3>1, StitchNextIs
  <2>2. Ready(source, "headers", t) /\ Known(source, t)
    BY <1>1, <1>2, LastOfDone DEF ReadyInv, StitchNext, Continues
  <2>3. Ready(source, "headers", new)
    <3> HIDE DEF v, t
    <3> QED BY <2>2, CellsReady
  <2> HIDE DEF new
  <2> QED BY <1>1, <2>1, <2>3, RebuiltReady
<1>3. CASE StitchNot
  <2>1. Rebuilt(done, Tail(rest), Head(rest))
    BY <1>3, StitchNotIs
  <2>2. Ready(source, "stitch", Head(rest))
    BY <1>1, HeadOfRest DEF ReadyInv
  <2>3. Ready(source, "headers", Head(rest))
    BY <2>2 DEF Ready
  <2> QED BY <1>1, <2>1, <2>3, RebuiltReady
<1> QED BY <1>2, <1>3

LEMMA HeadersKeepReady ==
  ASSUME BaseInv, ReadyInv, AssignHeaderPaths
  PROVE  ReadyInv'
<1> DEFINE t == Head(rest)
           v == WithPaths(t.cells)
           new == [t EXCEPT !.cells = v]
<1>1. pass = "headers" /\ After(pass) = "nested" /\ rest # <<>>
  BY PassesAre DEF AssignHeaderPaths, Visit
<1>2. Rebuilt(done, Tail(rest), new)
  BY AssignHeaderPathsIs
<1>3. Ready(source, "headers", t) /\ Known(source, t)
  BY <1>1, HeadOfRest DEF ReadyInv
<1>4. Pathed(new)
  BY <1>3, PathsWritten
<1>5. Ready(source, "nested", new)
  <2> HIDE DEF v, t
  <2> QED BY <1>3, <1>4, CellsReady
<1> HIDE DEF new
<1> QED BY <1>1, <1>2, <1>5, RebuiltReady

LEMMA JudgementKeepsReady ==
  ASSUME BaseInv, ReadyInv, FlagNestedTable \/ CheckGeometry \/ CheckRectangularity
  PROVE  ReadyInv'
<1>1. /\ rest # <<>> /\ pass \in {"nested", "geometry", "rectangularity"}
      /\ Ready(source, pass, Head(rest))
  <2>1. rest # <<>> /\ pass \in {"nested", "geometry", "rectangularity"}
    BY DEF FlagNestedTable, CheckGeometry, CheckRectangularity, Visit
  <2> QED BY <2>1, HeadOfRest DEF ReadyInv
<1>2. ASSUME NEW new, Judgement(new, Head(rest))
      PROVE  /\ new.cells = Head(rest).cells
             /\ Pathed(new) <=> Pathed(Head(rest))
             /\ RuledAlike(source, new) <=> RuledAlike(source, Head(rest))
             /\ Sound(source, new) <=> Sound(source, Head(rest))
             /\ NoLinks(new) <=> NoLinks(Head(rest))
  BY <1>2, CellsTell DEF Judgement, NoLinks
<1>3. CASE FlagNestedTable
  <2>1. PICK new : /\ Rebuilt(done, Tail(rest), new) /\ Judgement(new, Head(rest))
                   /\ new.consensus = Head(rest).consensus /\ pass = "nested"
    BY <1>3, FlagNestedTableIs
  <2>2. Ready(source, "geometry", new)
    BY <1>1, <1>2, <2>1 DEF Ready
  <2> QED BY <2>1, <2>2, RebuiltReady, PassesAre
<1>4. CASE CheckGeometry
  <2>1. PICK new : /\ Rebuilt(done, Tail(rest), new) /\ Judgement(new, Head(rest))
                   /\ pass = "geometry"
                   /\ IF Head(rest).cells = {} \/ Head(rest).consensus = "quarantined"
                      THEN new = Head(rest)
                      ELSE IF ~RuledAlike(source, Head(rest)) THEN new.consensus = "quarantined"
                      ELSE new.consensus \in {Head(rest).consensus, "majority"}
    BY <1>4, CheckGeometryIs
  <2>2. Head(rest).consensus = "unanimous" /\ Pathed(Head(rest)) /\ NoLinks(Head(rest))
    BY <1>1, <2>1 DEF Ready
  <2>3. new.consensus = "quarantined" <=> new.cells # {} /\ ~RuledAlike(source, new)
    BY <1>2, <2>1, <2>2
  <2>4. Ready(source, "rectangularity", new)
    BY <1>2, <2>1, <2>2, <2>3 DEF Ready
  <2> QED BY <2>1, <2>4, RebuiltReady, PassesAre
<1>5. CASE CheckRectangularity
  <2>1. PICK new : /\ Rebuilt(done, Tail(rest), new) /\ Judgement(new, Head(rest))
                   /\ pass = "rectangularity"
                   /\ IF \/ Head(rest).cells = {}
                         \/ CoverageOk(Head(rest).cells) /\ MandatoryColumnOk(Head(rest).cells)
                      THEN new = Head(rest) ELSE new.consensus = "quarantined"
    BY <1>5, CheckRectangularityIs
  <2>2. /\ Head(rest).consensus = "quarantined"
             <=> Head(rest).cells # {} /\ ~RuledAlike(source, Head(rest))
        /\ Pathed(Head(rest)) /\ NoLinks(Head(rest))
    BY <1>1, <2>1 DEF Ready
  <2>3. new.consensus = "quarantined" <=> new.cells # {} /\ ~Sound(source, new)
    BY <1>2, <2>1, <2>2 DEF Sound
  <2>4. Ready(source, "continuation", new)
    BY <1>2, <2>1, <2>2, <2>3 DEF Ready
  <2> QED BY <2>1, <2>4, RebuiltReady, PassesAre
<1> QED BY <1>3, <1>4, <1>5

LEMMA JudgedKeeps ==
  ASSUME NEW d, NEW t, NEW u, Known(d, t), Known(d, u)
  PROVE  /\ SamePart(Judged(t, u)[1], t) /\ SamePart(Judged(t, u)[2], u)
         /\ Judged(t, u)[1].consensus \in {t.consensus, "quarantined"}
         /\ Judged(t, u)[2].consensus \in {u.consensus, "quarantined"}
<1> DEFINE a == Judged(t, u)[1]
           b == Judged(t, u)[2]
<1>1. /\ SamePart(a, t) /\ SamePart(b, u)
      /\ \/ a.consensus = t.consensus /\ b.consensus = u.consensus
         \/ a.consensus = "quarantined" /\ b.consensus = "quarantined"
  <2>1. SamePart(a, t) /\ SamePart(b, u)
    BY JudgedIs
  <2>2. CASE Doubtful(t, u)
    BY <2>1, <2>2, JudgedIs
  <2>3. CASE ~Doubtful(t, u)
    BY <2>1, <2>3, JudgedIs
  <2> QED BY <2>2, <2>3
<1> HIDE DEF a, b
<1>2. a.consensus \in {t.consensus, "quarantined"} /\ b.consensus \in {u.consensus, "quarantined"}
  BY <1>1
<1> QED BY <1>1, <1>2 DEF a, b

LEMMA ContinuationKeepsReady ==
  ASSUME BaseInv, ReadyInv, CheckContinuation
  PROVE  ReadyInv'
<1> DEFINE u == Head(rest)
<1>1. /\ pass = "continuation" /\ After(pass) = "end" /\ rest # <<>> /\ rest' = Tail(rest)
      /\ pass' = pass /\ source' = source
  BY CheckContinuationIs, PassesAre
<1>2. PICK old, new :
        /\ IsList(old) /\ Len(old) = Len(done) /\ done' = Append(old, new)
        /\ \A i \in 1 .. Len(done) : /\ i # prev => old[i] = done[i]
                                     /\ Known(source, old[i]) /\ SamePart(old[i], done[i])
        /\ Known(source, new) /\ SamePart(new, u)
        /\ IF HeaderCells(u) = {} \/ prev = 0
           THEN old = done /\ new = u
           ELSE /\ prev \in 1 .. Len(done)
                /\ old[prev] = Judged(done[prev], u)[1]
                /\ new = Judged(done[prev], u)[2]
  BY CheckContinuationIs
<1>3. Known(source, u) /\ Ready(source, "continuation", u)
  BY <1>1, HeadOfRest DEF ReadyInv
<1>4. \A i \in 1 .. Len(done) : Known(source, done[i]) /\ Ready(source, "end", done[i])
  BY <1>1, ListHas DEF BaseInv, ReadyInv
<1> HIDE DEF u
<1>5. ASSUME NEW i \in 1 .. Len(done) PROVE Ready(source, "end", old[i])
  <2>1. CASE old[i] = done[i]
    BY <1>4, <2>1
  <2>2. CASE old[i] # done[i]
    <3>1. /\ i = prev /\ old[prev] = Judged(done[prev], u)[1]
      BY <1>2, <2>2
    <3>2. /\ SamePart(old[i], done[i])
          /\ old[i].consensus = done[i].consensus \/ old[i].consensus = "quarantined"
      BY <1>3, <1>4, <3>1, JudgedKeeps
    <3> QED BY <1>4, <3>2, CellsTell DEF Ready, SamePart
  <2> QED BY <2>1, <2>2
<1>6. Ready(source, "end", new)
  <2>1. Ready(source, "end", u)
    BY <1>3 DEF Ready
  <2>2. CASE new = u
    BY <2>1, <2>2
  <2>3. CASE new # u
    <3>1. prev \in 1 .. Len(done) /\ new = Judged(done[prev], u)[2]
      BY <1>2, <2>3
    <3>2. /\ SamePart(new, u)
          /\ new.consensus = u.consensus \/ new.consensus = "quarantined"
      BY <1>3, <1>4, <3>1, JudgedKeeps
    <3> QED BY <2>1, <3>2, CellsTell DEF Ready, SamePart
  <2> QED BY <2>2, <2>3
<1>7. ToSet(done') = ToSet(old) \cup {new}
  BY <1>2, Appended
<1>8. \A s \in ToSet(done') : Ready(source, "end", s)
  BY <1>2, <1>5, <1>6, <1>7, ListHas
<1>9. \A s \in ToSet(rest') : Ready(source, pass, s)
  BY <1>1, HeadOfRest DEF ReadyInv
<1> QED BY <1>1, <1>8, <1>9 DEF ReadyInv

\* Every step leaves the siblings ready.
LEMMA ReadySteps ==
  ASSUME BaseInv, ReadyInv, [Next]_vars
  PROVE  ReadyInv'
<1>1. CASE UNCHANGED vars
  BY <1>1 DEF vars, ReadyInv
<1>2. CASE Finish
  <2>1. pass' = After(pass) /\ rest' = done /\ source' = source /\ ToSet(done') = {}
    BY <1>2, FinishIs
  <2> QED BY <2>1 DEF ReadyInv
<1>3. CASE AttachBack \/ AttachForward \/ KeepSibling
  BY <1>3, AttachKeepsReady
<1>4. CASE StitchNext \/ StitchNot
  BY <1>4, StitchKeepsReady
<1>5. CASE AssignHeaderPaths
  BY <1>5, HeadersKeepReady
<1>6. CASE FlagNestedTable \/ CheckGeometry \/ CheckRectangularity
  BY <1>6, JudgementKeepsReady
<1>7. CASE CheckContinuation
  BY <1>7, ContinuationKeepsReady
<1> QED BY <1>1, <1>2, <1>3, <1>4, <1>5, <1>6, <1>7 DEF Next

\* So every pass finds what the ones before it have established.
LEMMA ReadyInvariant == Spec => []ReadyInv
<1>1. Init => ReadyInv
  <2> SUFFICES ASSUME Init PROVE ReadyInv
    OBVIOUS
  <2>1. WellFormed(source) /\ rest = source.siblings /\ done = <<>> /\ pass = "captions"
    BY TableAssumption DEF Init
  <2>2. ToSet(done) = {}
    BY <2>1 DEF ToSet
  <2>3. \A s \in ToSet(rest) : s.consensus = "unanimous" /\ NoLinks(s)
    BY <2>1, SiblingIs DEF ToSet, NoLinks
  <2> QED BY <2>1, <2>2, <2>3 DEF ReadyInv, Ready
<1> QED BY <1>1, BaseInvariant, ReadySteps, PTL DEF Spec

\* An admitted table has been compared and found whole, below its headers.
LEMMA AdmittedIsSound ==
  ASSUME BaseInv, ReadyInv, NEW u \in ToSet(Final)
  PROVE  /\ pass = "end" /\ u \in ToSet(rest) /\ Known(source, u) /\ Pathed(u)
         /\ u.cells # {} /\ ~Sound(source, u) => u.consensus = "quarantined"
<1>1. ToSet(<<>>) = {}
  BY DEF ToSet
<1>2. pass = "end" /\ u \in ToSet(rest)
  BY <1>1 DEF Final
<1> QED BY <1>2 DEF ReadyInv, BaseInv, Ready

\* An admitted table has no hole where a limit should be (the rectangularity
\* gate at the end reads the paths that were written after stitching).
THEOREM LimitsAreFilled == Spec => []AdmittedLimitIsFilled
<1>1. ASSUME BaseInv, ReadyInv PROVE AdmittedLimitIsFilled
  <2> SUFFICES ASSUME NEW u \in ToSet(Final), u.consensus # "quarantined",
                      NEW c \in DataCells(u.cells), NEW h \in InHeader(u.cells),
                      h.text \in LimitTexts, c.col \in h.col .. h.col + h.colspan - 1
               PROVE  c.text # Blank
    BY DEF AdmittedLimitIsFilled
  <2>1. Known(source, u) /\ Pathed(u) /\ MandatoryColumnOk(u.cells)
    <3>1. u.cells # {}
      BY DEF DataCells
    <3> QED BY <1>1, <3>1, AdmittedIsSound DEF Sound
  <2>2. h \in u.cells /\ c \in u.cells /\ InGrid(source, h) /\ InGrid(source, c)
    BY <2>1 DEF InHeader, DataCells, Known, GridOf
  <2>3. CoversCol(h, c.col)
    BY <2>2 DEF InGrid, CoversCol
  <2>4. h.text \in ColumnHeaderPath(u.cells, c.col)
    BY <2>3, TableAssumption DEF ColumnHeaderPath
  <2>5. c.header_path \cap LimitTexts # {}
    BY <2>1, <2>4 DEF Pathed
  <2> QED BY <2>1, <2>5 DEF MandatoryColumnOk
<1> QED BY <1>1, BaseInvariant, ReadyInvariant, PTL

\* Where a cell lies.
Covers(c, i, j) ==
  c.row <= i /\ i < c.row + c.rowspan /\ c.col <= j /\ j < c.col + c.colspan

\* A cell covers the places of its footprint.
LEMMA FootprintIs ==
  ASSUME NEW d, NEW c, InGrid(d, c)
  PROVE  /\ \A p \in Footprint(c) :
              /\ p = <<p[1], p[2]>> /\ p[1] \in Nat /\ p[2] \in Nat /\ Covers(c, p[1], p[2])
         /\ \A i, j \in Int : Covers(c, i, j) => <<i, j>> \in Footprint(c)
<1>1. c.row \in Nat /\ c.col \in Nat /\ c.rowspan \in Nat \ {0} /\ c.colspan \in Nat \ {0}
  BY DEF InGrid
<1>2. ASSUME NEW p \in Footprint(c)
      PROVE  /\ p = <<p[1], p[2]>> /\ p[1] \in Nat /\ p[2] \in Nat /\ Covers(c, p[1], p[2])
  <2>1. p \in (c.row .. c.row + c.rowspan - 1) \X (c.col .. c.col + c.colspan - 1)
    BY DEF Footprint
  <2>2. /\ p = <<p[1], p[2]>> /\ p[1] \in c.row .. c.row + c.rowspan - 1
        /\ p[2] \in c.col .. c.col + c.colspan - 1
    BY <2>1
  <2> QED BY <1>1, <2>2 DEF Covers
<1>3. ASSUME NEW i \in Int, NEW j \in Int, Covers(c, i, j)
      PROVE  <<i, j>> \in Footprint(c)
  <2>1. i \in c.row .. c.row + c.rowspan - 1 /\ j \in c.col .. c.col + c.colspan - 1
    BY <1>1, <1>3 DEF Covers
  <2> QED BY <2>1 DEF Footprint
<1> QED BY <1>2, <1>3

\* A table without hole or overlap: cells that meet are one cell, and some cell
\* covers every place.
Whole(cells) ==
  /\ \A c, e \in cells : \A i, j \in Nat : Covers(c, i, j) /\ Covers(e, i, j) => c = e
  /\ \A i, j \in Nat : i < Height(cells) /\ j < Width(cells) => \E c \in cells : Covers(c, i, j)

\* The gate's test for coverage finds the tables that are whole.
LEMMA CoverageIs ==
  ASSUME NEW d, NEW cells, GridOf(d, cells)
  PROVE  CoverageOk(cells) <=> Whole(cells)
<1>1. \A c \in cells : InGrid(d, c)
  BY DEF GridOf
<1>2. Height(cells) \in Nat /\ Width(cells) \in Nat
  BY GridSize
<1> DEFINE all == (0 .. Height(cells) - 1) \X (0 .. Width(cells) - 1)
<1>3. \A i, j \in Nat : i < Height(cells) /\ j < Width(cells) => <<i, j>> \in all
  BY <1>2
<1>4. \A p \in all : /\ p = <<p[1], p[2]>> /\ p[1] \in Nat /\ p[2] \in Nat
                     /\ p[1] < Height(cells) /\ p[2] < Width(cells)
  <2> SUFFICES ASSUME NEW p \in all
               PROVE  /\ p = <<p[1], p[2]>> /\ p[1] \in Nat /\ p[2] \in Nat
                      /\ p[1] < Height(cells) /\ p[2] < Width(cells)
    OBVIOUS
  <2>1. p = <<p[1], p[2]>> /\ p[1] \in 0 .. Height(cells) - 1 /\ p[2] \in 0 .. Width(cells) - 1
    OBVIOUS
  <2> QED BY <1>2, <2>1
<1> HIDE DEF all
<1>5. (\A c, e \in cells : c # e => Footprint(c) \cap Footprint(e) = {})
        <=> \A c, e \in cells : \A i, j \in Nat : Covers(c, i, j) /\ Covers(e, i, j) => c = e
  <2>1. ASSUME \A c, e \in cells : c # e => Footprint(c) \cap Footprint(e) = {},
               NEW c \in cells, NEW e \in cells, NEW i \in Nat, NEW j \in Nat,
               Covers(c, i, j), Covers(e, i, j)
        PROVE  c = e
    <3>1. <<i, j>> \in Footprint(c) /\ <<i, j>> \in Footprint(e)
      BY <1>1, <2>1, FootprintIs
    <3> QED BY <2>1, <3>1
  <2>2. ASSUME \A c, e \in cells : \A i, j \in Nat : Covers(c, i, j) /\ Covers(e, i, j) => c = e,
               NEW c \in cells, NEW e \in cells, c # e,
               NEW p \in Footprint(c) \cap Footprint(e)
        PROVE  FALSE
    <3>1. p[1] \in Nat /\ p[2] \in Nat /\ Covers(c, p[1], p[2]) /\ Covers(e, p[1], p[2])
      BY <1>1, <2>2, FootprintIs
    <3> QED BY <2>2, <3>1
  <2> QED BY <2>1, <2>2
<1>6. (all \subseteq UNION {Footprint(c) : c \in cells})
        <=> \A i, j \in Nat : i < Height(cells) /\ j < Width(cells) =>
              \E c \in cells : Covers(c, i, j)
  <2>1. ASSUME all \subseteq UNION {Footprint(c) : c \in cells},
               NEW i \in Nat, NEW j \in Nat, i < Height(cells), j < Width(cells)
        PROVE  \E c \in cells : Covers(c, i, j)
    <3>1. <<i, j>> \in all
      BY <1>3, <2>1
    <3>2. PICK c \in cells : <<i, j>> \in Footprint(c)
      BY <2>1, <3>1
    <3>3. Covers(c, <<i, j>>[1], <<i, j>>[2])
      BY <1>1, <3>2, FootprintIs
    <3> QED BY <3>3
  <2>2. ASSUME \A i, j \in Nat : i < Height(cells) /\ j < Width(cells) =>
                 \E c \in cells : Covers(c, i, j),
               NEW p \in all
        PROVE  p \in UNION {Footprint(c) : c \in cells}
    <3>1. /\ p = <<p[1], p[2]>> /\ p[1] \in Nat /\ p[2] \in Nat
          /\ p[1] < Height(cells) /\ p[2] < Width(cells)
      BY <1>4
    <3>2. PICK c \in cells : Covers(c, p[1], p[2])
      BY <2>2, <3>1
    <3>3. <<p[1], p[2]>> \in Footprint(c)
      BY <1>1, <3>1, <3>2, FootprintIs
    <3> QED BY <3>1, <3>3
  <2> QED BY <2>1, <2>2
<1> QED BY <1>5, <1>6 DEF CoverageOk, Whole, all

\* A table without hole has the size that its cells cover.
LEMMA SizeIs ==
  ASSUME NEW d, NEW cells, GridOf(d, cells), cells # {}, CoverageOk(cells)
  PROVE  Size(cells) = DoclingGrid(cells)
<1> DEFINE covered == UNION {Footprint(c) : c \in cells}
           h == Height(cells)
           w == Width(cells)
<1>1. h \in Nat /\ w \in Nat /\ h > 0 /\ w > 0
  <2>1. PICK c \in cells : TRUE
    OBVIOUS
  <2>2. InGrid(d, c) /\ c.row + c.rowspan <= h /\ c.col + c.colspan <= w /\ h \in Nat /\ w \in Nat
    BY GridSize DEF GridOf
  <2> HIDE DEF h, w
  <2> QED BY <2>2 DEF InGrid
<1>2. ASSUME NEW p \in covered
      PROVE  /\ p[1] \in 0 .. h - 1 /\ p[2] \in 0 .. w - 1
  <2>1. PICK c \in cells : p \in Footprint(c)
    OBVIOUS
  <2>2. InGrid(d, c) /\ c.row + c.rowspan <= h /\ c.col + c.colspan <= w
    BY GridSize DEF GridOf
  <2>3. p[1] \in Nat /\ p[2] \in Nat /\ Covers(c, p[1], p[2])
    BY <2>1, <2>2, FootprintIs
  <2> HIDE DEF h, w
  <2> QED BY <1>1, <2>2, <2>3 DEF Covers, InGrid
<1>3. ASSUME NEW i \in 0 .. h - 1, NEW j \in 0 .. w - 1
      PROVE  <<i, j>> \in covered
  <2>1. i \in Nat /\ j \in Nat /\ i < h /\ j < w
    <3> HIDE DEF h, w
    <3> QED BY <1>1
  <2>2. PICK c \in cells : Covers(c, i, j)
    BY <2>1, CoverageIs DEF Whole
  <2>3. InGrid(d, c)
    BY DEF GridOf
  <2>4. <<i, j>> \in Footprint(c)
    BY <2>1, <2>2, <2>3, FootprintIs
  <2> QED BY <2>4
<1>4. Size(cells) = <<Cardinality({p[1] : p \in covered}), Cardinality({p[2] : p \in covered})>>
  BY DEF Size
<1> HIDE DEF covered
<1>5. {p[1] : p \in covered} = 0 .. h - 1
  <2>1. 0 \in 0 .. w - 1
    <3> HIDE DEF w
    <3> QED BY <1>1
  <2>2. ASSUME NEW i \in 0 .. h - 1 PROVE \E p \in covered : p[1] = i
    <3>1. <<i, 0>> \in covered /\ <<i, 0>>[1] = i
      BY <1>3, <2>1
    <3> QED BY <3>1
  <2> QED BY <1>2, <2>2
<1>6. {p[2] : p \in covered} = 0 .. w - 1
  <2>1. 0 \in 0 .. h - 1
    <3> HIDE DEF h
    <3> QED BY <1>1
  <2>2. ASSUME NEW j \in 0 .. w - 1 PROVE \E p \in covered : p[2] = j
    <3>1. <<0, j>> \in covered /\ <<0, j>>[2] = j
      BY <1>3, <2>1
    <3> QED BY <3>1
  <2> QED BY <1>2, <2>2
<1>7. ASSUME NEW n \in Nat, n > 0 PROVE Cardinality(0 .. n - 1) = n
  <2>1. Cardinality(0 .. n - 1) = IF 0 > n - 1 THEN 0 ELSE n - 1 - 0 + 1
    BY FS_Interval
  <2> QED BY <1>7, <2>1
<1>8. Size(cells) = <<h, w>>
  <2> HIDE DEF h, w
  <2> QED BY <1>1, <1>4, <1>5, <1>6, <1>7
<1> QED BY <1>8 DEF DoclingGrid

\* A table is admitted only if a grid of its size is ruled on its page
\* (table_geometry.py, reconcile): the captions attached and the fragments
\* stitched before the comparison do not let it slip through.
THEOREM CollapsesAreCaught == Spec => []CollapseIsCaught
<1>1. ASSUME BaseInv, ReadyInv PROVE CollapseIsCaught
  <2> SUFFICES ASSUME NEW u \in ToSet(Final), u.cells # {}, u.consensus # "quarantined",
                      \A t \in Found : t.page = u.page => source.ruled[t.id] # Size(u.cells)
               PROVE  FALSE
    BY DEF CollapseIsCaught
  <2>1. Known(source, u) /\ RuledAlike(source, u) /\ CoverageOk(u.cells)
    BY <1>1, AdmittedIsSound DEF Sound
  <2>2. Size(u.cells) = DoclingGrid(u.cells)
    BY <2>1, SizeIs DEF Known
  <2>3. PICK i \in DOMAIN source.ruled :
          source.siblings[i].page = u.page /\ source.ruled[i] = DoclingGrid(u.cells)
    BY <2>1 DEF RuledAlike
  <2>4. i \in DOMAIN source.siblings /\ WellFormed(source)
    BY <1>1 DEF BaseInv, WellFormed
  <2>5. source.siblings[i] \in Found /\ source.siblings[i].id = i
    BY <2>4, SiblingIs DEF Found, ToSet
  <2> QED BY <2>2, <2>3, <2>5
<1> QED BY <1>1, BaseInvariant, ReadyInvariant, PTL

---------------------------------------------------------------------------
\* The last gate: what it has judged, and the last table with a header.
InARow(L, i, j) ==
  /\ i < j /\ HeaderCells(L[i]) # {} /\ HeaderCells(L[j]) # {}
  /\ \A k \in 1 .. Len(L) : i < k /\ k < j => HeaderCells(L[k]) = {}

LinkedWell(L) == \A i, j \in 1 .. Len(L) :
  /\ InARow(L, i, j) /\ SameHeader(L[i], L[j]) <=> L[i].continues_to = L[j].id
  /\ L[i].continues_to = L[j].id <=> L[j].continues_from = L[i].id
DoubtfulHeld(L) == \A i, j \in 1 .. Len(L) :
  InARow(L, i, j) /\ Doubtful(L[i], L[j]) =>
    L[i].consensus = "quarantined" /\ L[j].consensus = "quarantined"
HeldForAReason(d, L) == \A i \in 1 .. Len(L) :
  L[i].consensus = "quarantined" =>
    \/ L[i].cells # {} /\ ~Sound(d, L[i])
    \/ \E j \in 1 .. Len(L) : PartlySame(L[i], L[j]) \/ PartlySame(L[j], L[i])
LinksInside(L) == \A i \in 1 .. Len(L) :
  {L[i].continues_to, L[i].continues_from} \subseteq {NoId} \cup {L[j].id : j \in 1 .. Len(L)}

Judgements(d, L) == LinkedWell(L) /\ DoubtfulHeld(L) /\ HeldForAReason(d, L) /\ LinksInside(L)
Latest(L, p) ==
  /\ \A k \in 1 .. Len(L) : p < k => HeaderCells(L[k]) = {}
  /\ p # 0 => HeaderCells(L[p]) # {} /\ L[p].continues_to = NoId

LinkInv ==
  /\ pass = "continuation" => Judgements(source, done) /\ Latest(done, prev)
  /\ pass = "end" => Judgements(source, rest)

\* The cells tell which headers two tables have.
LEMMA HeadersTell ==
  ASSUME NEW n, NEW m, NEW s, NEW t, n.cells = s.cells, m.cells = t.cells
  PROVE  /\ HeaderCells(n) = HeaderCells(s)
         /\ SameHeader(n, m) <=> SameHeader(s, t)
         /\ PartlySame(n, m) <=> PartlySame(s, t)
         /\ Doubtful(n, m) <=> Doubtful(s, t)
<1>1. /\ HeaderCells(n) = HeaderCells(s) /\ HeaderCells(m) = HeaderCells(t)
      /\ Flagged(n) = Flagged(s) /\ Flagged(m) = Flagged(t)
  BY DEF HeaderCells, Flagged
<1>2. HeaderSignature(n) = HeaderSignature(s) /\ HeaderSignature(m) = HeaderSignature(t)
  BY <1>1 DEF HeaderSignature
<1>3. SameHeader(n, m) <=> SameHeader(s, t)
  BY <1>2 DEF SameHeader
<1>4. PartlySame(n, m) <=> PartlySame(s, t)
  BY <1>2, <1>3 DEF PartlySame
<1> QED BY <1>1, <1>3, <1>4 DEF Doubtful

\* Two tables with different headers are not linked.
LEMMA JudgedUnlinked ==
  ASSUME NEW d, NEW t, NEW u, Known(d, t), Known(d, u), ~SameHeader(t, u)
  PROVE  /\ Judged(t, u)[1].continues_to = t.continues_to
         /\ Judged(t, u)[2].continues_from = u.continues_from
<1>1. Judged(t, u)[1].continues_to = t.continues_to
  BY JudgedIs
<1>2. Judged(t, u)[2].continues_from = u.continues_from
  BY JudgedIs
<1> QED BY <1>1, <1>2

\* The gate takes up one more sibling.
LEMMA ContinuationExtends ==
  ASSUME BaseInv, ReadyInv, LinkInv, CheckContinuation
  PROVE  \E old, new :
           /\ done' = Append(old, new) /\ IsList(old) /\ Len(old) = Len(done)
           /\ \A i \in 1 .. Len(done) :
                /\ i # prev \/ HeaderCells(Head(rest)) = {} => old[i] = done[i]
                /\ SamePart(old[i], done[i]) /\ old[i].continues_from = done[i].continues_from
                /\ old[i].consensus \in {done[i].consensus, "quarantined"}
           /\ SamePart(new, Head(rest)) /\ new.continues_to = NoId
           /\ new.consensus \in {Head(rest).consensus, "quarantined"}
           /\ HeaderCells(Head(rest)) = {} \/ prev = 0 => old = done /\ new = Head(rest)
           /\ HeaderCells(Head(rest)) # {} /\ prev # 0 =>
                /\ SameHeader(done[prev], Head(rest)) =>
                     /\ old[prev].continues_to = Head(rest).id
                     /\ new.continues_from = done[prev].id
                /\ ~SameHeader(done[prev], Head(rest)) =>
                     old[prev].continues_to = NoId /\ new.continues_from = NoId
                /\ Doubtful(done[prev], Head(rest)) =>
                     old[prev].consensus = "quarantined" /\ new.consensus = "quarantined"
                /\ ~Doubtful(done[prev], Head(rest)) =>
                     /\ old[prev].consensus = done[prev].consensus
                     /\ new.consensus = Head(rest).consensus
           /\ IF HeaderCells(Head(rest)) = {} THEN prev' = prev ELSE prev' = Len(done) + 1
<1> DEFINE u == Head(rest)
<1>1. pass = "continuation" /\ rest # <<>>
  BY CheckContinuationIs
<1>2. PICK old, new :
        /\ IsList(old) /\ Len(old) = Len(done) /\ done' = Append(old, new)
        /\ \A i \in 1 .. Len(done) : /\ i # prev => old[i] = done[i]
                                     /\ Known(source, old[i]) /\ SamePart(old[i], done[i])
        /\ Known(source, new) /\ SamePart(new, u)
        /\ IF HeaderCells(u) = {} THEN prev' = prev ELSE prev' = Len(done) + 1
        /\ IF HeaderCells(u) = {} \/ prev = 0
           THEN old = done /\ new = u
           ELSE /\ prev \in 1 .. Len(done)
                /\ old[prev] = Judged(done[prev], u)[1]
                /\ new = Judged(done[prev], u)[2]
  BY CheckContinuationIs
<1>3. Known(source, u) /\ NoLinks(u)
  BY <1>1, HeadOfRest DEF ReadyInv, Ready
<1>4. \A i \in 1 .. Len(done) : Known(source, done[i])
  BY ListHas DEF BaseInv
<1>5. CASE HeaderCells(u) = {} \/ prev = 0
  <2> HIDE DEF u
  <2>1. old = done /\ new = u
    BY <1>2, <1>5
  <2>2. new.continues_to = NoId
    BY <1>3, <2>1 DEF NoLinks
  <2> QED BY <1>2, <1>5, <2>1, <2>2 DEF u
<1>6. CASE ~(HeaderCells(u) = {} \/ prev = 0)
  <2> DEFINE t == done[prev]
             a == Judged(t, u)[1]
             b == Judged(t, u)[2]
  <2> HIDE DEF u
  <2>1. prev \in 1 .. Len(done) /\ old[prev] = a /\ new = b
    BY <1>2, <1>6
  <2>2. Known(source, t) /\ t.continues_to = NoId
    BY <1>1, <1>4, <1>6, <2>1 DEF LinkInv, Latest
  <2>3. ~Linked(t, u)
    BY <1>3, <2>2 DEF Linked, NoLinks
  <2> HIDE DEF t
  <2>4. /\ SamePart(a, t) /\ SamePart(b, u) /\ a.continues_from = t.continues_from
        /\ b.continues_to = u.continues_to
    BY <1>3, <2>2, JudgedIs
  <2>5. /\ SameHeader(t, u) => a.continues_to = u.id /\ b.continues_from = t.id
        /\ ~SameHeader(t, u) => a.continues_to = NoId /\ b.continues_from = NoId
    <3>1. CASE SameHeader(t, u)
      BY <1>3, <2>2, <2>3, <3>1, JudgedIs
    <3>2. CASE ~SameHeader(t, u)
      <4>1. a.continues_to = t.continues_to /\ b.continues_from = u.continues_from
        BY <1>3, <2>2, <3>2, JudgedUnlinked
      <4> HIDE DEF a, b
      <4> QED BY <1>3, <2>2, <3>2, <4>1 DEF NoLinks
    <3> QED BY <3>1, <3>2
  <2>6. /\ Doubtful(t, u) => a.consensus = "quarantined" /\ b.consensus = "quarantined"
        /\ ~Doubtful(t, u) => a.consensus = t.consensus /\ b.consensus = u.consensus
    <3>1. CASE Doubtful(t, u)
      BY <1>3, <2>2, <3>1, JudgedIs
    <3>2. CASE ~Doubtful(t, u)
      BY <1>3, <2>2, <3>2, JudgedIs
    <3> QED BY <3>1, <3>2
  <2> HIDE DEF a, b
  <2>7. b.continues_to = NoId
    BY <1>3, <2>4 DEF NoLinks
  <2>8. /\ a.consensus \in {t.consensus, "quarantined"}
        /\ b.consensus \in {u.consensus, "quarantined"}
    BY <2>6
  <2>9. ASSUME NEW i \in 1 .. Len(done)
        PROVE  /\ i # prev \/ HeaderCells(u) = {} => old[i] = done[i]
               /\ SamePart(old[i], done[i]) /\ old[i].continues_from = done[i].continues_from
               /\ old[i].consensus \in {done[i].consensus, "quarantined"}
    <3>1. CASE i = prev
      BY <1>6, <2>1, <2>4, <2>8, <3>1 DEF t
    <3>2. CASE i # prev
      BY <1>2, <3>2
    <3> QED BY <3>1, <3>2
  <2> QED BY <1>2, <1>6, <2>1, <2>4, <2>5, <2>6, <2>7, <2>8, <2>9 DEF u, t
<1> QED BY <1>5, <1>6

\* What the gate has found between the tables it has seen stays true.
LEMMA ContinuationKeepsLinks ==
  ASSUME BaseInv, ReadyInv, LinkInv, CheckContinuation
  PROVE  LinkInv'
<1> DEFINE n == Len(done)
           M == done'
           u == Head(rest)
           headed == HeaderCells(u) # {} /\ prev # 0
<1>1. /\ pass = "continuation" /\ rest # <<>> /\ pass' = pass /\ source' = source
      /\ Judgements(source, done) /\ Latest(done, prev)
      /\ n \in Nat /\ prev \in 0 .. n /\ IsList(done)
  BY CheckContinuationIs, ListHas DEF LinkInv, BaseInv
<1>2. PICK old, new :
        /\ done' = Append(old, new) /\ IsList(old) /\ Len(old) = n
        /\ \A i \in 1 .. n :
             /\ i # prev \/ HeaderCells(u) = {} => old[i] = done[i]
             /\ SamePart(old[i], done[i]) /\ old[i].continues_from = done[i].continues_from
             /\ old[i].consensus \in {done[i].consensus, "quarantined"}
        /\ SamePart(new, u) /\ new.continues_to = NoId
        /\ new.consensus \in {u.consensus, "quarantined"}
        /\ HeaderCells(u) = {} \/ prev = 0 => old = done /\ new = u
        /\ HeaderCells(u) # {} /\ prev # 0 =>
             /\ SameHeader(done[prev], u) =>
                  old[prev].continues_to = u.id /\ new.continues_from = done[prev].id
             /\ ~SameHeader(done[prev], u) =>
                  old[prev].continues_to = NoId /\ new.continues_from = NoId
             /\ Doubtful(done[prev], u) =>
                  old[prev].consensus = "quarantined" /\ new.consensus = "quarantined"
             /\ ~Doubtful(done[prev], u) =>
                  old[prev].consensus = done[prev].consensus /\ new.consensus = u.consensus
        /\ IF HeaderCells(u) = {} THEN prev' = prev ELSE prev' = n + 1
  BY ContinuationExtends
<1>3. /\ Len(M) = n + 1 /\ M[n + 1] = new /\ \A i \in 1 .. n : M[i] = old[i]
      /\ \A i \in 1 .. n + 1 : i \in 1 .. n \/ i = n + 1
      /\ \A i \in 1 .. n : i \in 1 .. n + 1 /\ i < n + 1
  BY <1>1, <1>2, Appended
<1>4. /\ \A i \in 1 .. n : done[i].id \in Nat /\ done[i].id < u.id
      /\ u.id \in Nat /\ NoLinks(u) /\ u.id # NoId
      /\ \A i, j \in 1 .. n : done[i].id = done[j].id => i = j
      /\ u.consensus = "quarantined" => u.cells # {} /\ ~Sound(source, u)
  <2>1. \A s \in ToSet(done) \cup ToSet(rest) : s.id \in Nat
    <3>1. DOMAIN source.siblings \subseteq Nat
      BY SourceIsKnown, ListHas DEF BaseInv
    <3> QED BY <3>1 DEF BaseInv, Known
  <2>2. /\ \A i \in 1 .. n : done[i] \in ToSet(done)
        /\ u \in ToSet(rest) /\ \A s \in ToSet(done) : s.id < u.id
    BY <1>1, HeadOfRest, ListHas
  <2>3. Ready(source, "continuation", u)
    BY <1>1, <2>2 DEF ReadyInv
  <2>4. \A i, j \in 1 .. n : i < j => done[i].id < done[j].id
    BY DEF BaseInv, Ascending
  <2>5. \A i, j \in 1 .. n : done[i].id = done[j].id => i = j
    BY <1>1, <2>1, <2>2, <2>4
  <2> HIDE DEF u
  <2> QED BY <2>1, <2>2, <2>3, <2>5, TableAssumption DEF Ready
<1>5. \A i \in 1 .. n : M[i].cells = done[i].cells /\ M[i].id = done[i].id /\ M[i].page = done[i].page
  BY <1>2, <1>3 DEF SamePart
<1>6. M[n + 1].cells = u.cells /\ M[n + 1].id = u.id /\ M[n + 1].page = u.page
  BY <1>2, <1>3 DEF SamePart
<1> HIDE DEF n, M, u
<1>7. /\ \A i \in 1 .. n : HeaderCells(M[i]) = HeaderCells(done[i])
      /\ HeaderCells(M[n + 1]) = HeaderCells(u)
      /\ \A i, j \in 1 .. n : /\ SameHeader(M[i], M[j]) <=> SameHeader(done[i], done[j])
                              /\ PartlySame(M[i], M[j]) <=> PartlySame(done[i], done[j])
                              /\ Doubtful(M[i], M[j]) <=> Doubtful(done[i], done[j])
      /\ \A i \in 1 .. n : /\ SameHeader(M[i], M[n + 1]) <=> SameHeader(done[i], u)
                           /\ PartlySame(M[i], M[n + 1]) <=> PartlySame(done[i], u)
                           /\ Doubtful(M[i], M[n + 1]) <=> Doubtful(done[i], u)
  BY <1>5, <1>6, HeadersTell
<1>8. /\ \A i \in 1 .. n : Sound(source, M[i]) <=> Sound(source, done[i])
      /\ Sound(source, M[n + 1]) <=> Sound(source, u)
  BY <1>5, <1>6, CellsTell
<1>9. \A i, j \in 1 .. n : InARow(M, i, j) <=> InARow(done, i, j)
  <2> SUFFICES ASSUME NEW i \in 1 .. n, NEW j \in 1 .. n
               PROVE  InARow(M, i, j) <=> InARow(done, i, j)
    OBVIOUS
  <2>2. (\A k \in 1 .. n + 1 : i < k /\ k < j => HeaderCells(M[k]) = {})
          <=> \A k \in 1 .. n : i < k /\ k < j => HeaderCells(done[k]) = {}
    <3>1. ~(n + 1 < j)
      BY <1>1
    <3> QED BY <1>3, <1>7, <3>1
  <2> QED BY <1>3, <1>7, <2>2 DEF InARow, n
<1>10. \A i \in 1 .. n : InARow(M, i, n + 1) <=> i = prev /\ headed
  <2> SUFFICES ASSUME NEW i \in 1 .. n
               PROVE  InARow(M, i, n + 1) <=> i = prev /\ headed
    OBVIOUS
  <2>1. InARow(M, i, n + 1) <=>
          /\ HeaderCells(done[i]) # {} /\ HeaderCells(u) # {}
          /\ \A k \in 1 .. n : i < k => HeaderCells(done[k]) = {}
    <3>1. i < n + 1 /\ \A k \in 1 .. n : k < n + 1
      BY <1>1
    <3>2. (\A k \in 1 .. n + 1 : i < k /\ k < n + 1 => HeaderCells(M[k]) = {})
            <=> \A k \in 1 .. n : i < k => HeaderCells(done[k]) = {}
      <4>1. ~(n + 1 < n + 1)
        BY <1>1
      <4> QED BY <1>3, <1>7, <3>1, <4>1
    <3> QED BY <1>3, <1>7, <3>1, <3>2 DEF InARow
  <2>2. ASSUME InARow(M, i, n + 1) PROVE i = prev /\ headed
    <3>1. ~(prev < i)
      BY <1>1, <2>1, <2>2 DEF Latest, n
    <3>2. ASSUME i < prev PROVE FALSE
      <4>1. prev \in 1 .. n /\ prev # 0
        BY <1>1, <3>2
      <4>2. HeaderCells(done[prev]) = {}
        BY <2>1, <2>2, <3>2, <4>1
      <4> QED BY <1>1, <4>1, <4>2 DEF Latest
    <3>3. i = prev
      BY <1>1, <3>1, <3>2
    <3> QED BY <1>1, <2>1, <2>2, <3>3
  <2>3. ASSUME i = prev, headed PROVE InARow(M, i, n + 1)
    BY <1>1, <2>1, <2>3 DEF Latest, n
  <2> QED BY <2>2, <2>3
<1>11. \A j \in 1 .. n + 1 : ~InARow(M, n + 1, j)
  BY <1>1 DEF InARow
<1>12. \A i \in 1 .. n : {done[i].continues_to, done[i].continues_from}
                           \subseteq {NoId} \cup {done[j].id : j \in 1 .. n}
  BY <1>1 DEF Judgements, LinksInside, n
<1>13. \A i \in 1 .. n : done[i].continues_to # u.id /\ done[i].continues_from # u.id
  BY <1>4, <1>12
<1>14. ASSUME NEW i \in 1 .. n
       PROVE  /\ M[i].continues_to = u.id <=> i = prev /\ headed /\ SameHeader(done[i], u)
              /\ M[i].continues_to # u.id => M[i].continues_to = done[i].continues_to
              /\ M[i].continues_to = u.id => done[i].continues_to = NoId
              /\ M[i].continues_from = done[i].continues_from
  <2>1. M[i].continues_from = done[i].continues_from
    BY <1>2, <1>3
  <2>2. CASE i = prev /\ headed
    <3>1. done[i].continues_to = NoId
      BY <1>1, <2>2 DEF Latest
    <3>2. M[i] = old[prev]
      BY <1>3, <2>2
    <3>3. CASE SameHeader(done[i], u)
      BY <1>2, <2>1, <2>2, <3>1, <3>2, <3>3
    <3>4. CASE ~SameHeader(done[i], u)
      BY <1>2, <1>4, <2>1, <2>2, <3>1, <3>2, <3>4
    <3> QED BY <3>3, <3>4
  <2>3. CASE ~(i = prev /\ headed)
    <3>1. prev # 0 \/ i # prev
      BY <1>1
    <3>2. M[i] = done[i]
      BY <1>2, <1>3, <2>3, <3>1
    <3> QED BY <1>13, <2>1, <2>3, <3>2
  <2> QED BY <2>2, <2>3
<1>15. /\ M[n + 1].continues_to = NoId
       /\ M[n + 1].continues_from \in {NoId} \cup {done[i].id : i \in 1 .. n}
       /\ M[n + 1].continues_from # u.id
       /\ \A i \in 1 .. n : M[n + 1].continues_from = done[i].id
                              <=> i = prev /\ headed /\ SameHeader(done[i], u)
  <2>1. CASE headed
    <3>1. prev \in 1 .. n
      BY <1>1, <2>1
    <3>2. CASE SameHeader(done[prev], u)
      <4>1. M[n + 1].continues_from = done[prev].id
        BY <1>2, <1>3, <2>1, <3>2
      <4> QED BY <1>2, <1>3, <1>4, <2>1, <3>1, <3>2, <4>1
    <3>3. CASE ~SameHeader(done[prev], u)
      <4>1. M[n + 1].continues_from = NoId
        BY <1>2, <1>3, <2>1, <3>3
      <4> QED BY <1>2, <1>3, <1>4, <2>1, <3>1, <3>3, <4>1, TableAssumption
    <3> QED BY <3>2, <3>3
  <2>2. CASE ~headed
    <3>1. M[n + 1] = u
      BY <1>2, <1>3, <2>2
    <3> QED BY <1>4, <2>2, <3>1, TableAssumption DEF NoLinks
  <2> QED BY <2>1, <2>2
<1> HIDE DEF headed
<1>16. LinkedWell(M)
  <2> SUFFICES ASSUME NEW i \in 1 .. n + 1, NEW j \in 1 .. n + 1
               PROVE  /\ InARow(M, i, j) /\ SameHeader(M[i], M[j]) <=> M[i].continues_to = M[j].id
                      /\ M[i].continues_to = M[j].id <=> M[j].continues_from = M[i].id
    BY <1>3 DEF LinkedWell
  <2>1. CASE i \in 1 .. n /\ j \in 1 .. n
    <3>1. /\ InARow(done, i, j) /\ SameHeader(done[i], done[j]) <=> done[i].continues_to = done[j].id
          /\ done[i].continues_to = done[j].id <=> done[j].continues_from = done[i].id
      BY <1>1, <2>1 DEF Judgements, LinkedWell, n
    <3>2. M[i].continues_to = done[j].id <=> done[i].continues_to = done[j].id
      BY <1>4, <1>14, <2>1, TableAssumption
    <3>3. M[j].continues_from = done[j].continues_from
      BY <1>14, <2>1
    <3> QED BY <1>5, <1>7, <1>9, <2>1, <3>1, <3>2, <3>3
  <2>2. CASE i \in 1 .. n /\ j = n + 1
    <3>1. /\ InARow(M, i, j) <=> i = prev /\ headed
          /\ SameHeader(M[i], M[j]) <=> SameHeader(done[i], u)
      BY <1>7, <1>10, <2>2
    <3>2. /\ M[i].continues_to = M[j].id <=> i = prev /\ headed /\ SameHeader(done[i], u)
          /\ M[j].continues_from = M[i].id <=> i = prev /\ headed /\ SameHeader(done[i], u)
      BY <1>5, <1>6, <1>14, <1>15, <2>2
    <3> QED BY <3>1, <3>2
  <2>3. CASE i = n + 1
    <3>1. ~InARow(M, i, j)
      BY <1>11, <2>3
    <3>2. M[i].continues_to # M[j].id
      BY <1>3, <1>4, <1>5, <1>6, <1>15, <2>3, TableAssumption
    <3>3. M[j].continues_from # M[i].id
      BY <1>3, <1>6, <1>13, <1>14, <1>15, <2>3
    <3> QED BY <3>1, <3>2, <3>3
  <2> QED BY <1>3, <2>1, <2>2, <2>3
<1>17. ASSUME NEW i \in 1 .. n
       PROVE  /\ done[i].consensus = "quarantined" => M[i].consensus = "quarantined"
              /\ M[i].consensus = "quarantined" =>
                   \/ done[i].consensus = "quarantined"
                   \/ i = prev /\ headed /\ Doubtful(done[i], u)
              /\ i = prev /\ headed /\ Doubtful(done[i], u) =>
                   M[i].consensus = "quarantined" /\ M[n + 1].consensus = "quarantined"
  <2>1. M[i].consensus \in {done[i].consensus, "quarantined"}
    BY <1>2, <1>3
  <2>2. CASE i = prev /\ headed
    BY <1>2, <1>3, <2>1, <2>2 DEF headed
  <2>3. CASE ~(i = prev /\ headed)
    <3>1. prev # 0 \/ i # prev
      BY <1>1
    <3>2. M[i] = done[i]
      BY <1>2, <1>3, <2>3, <3>1 DEF headed
    <3> QED BY <2>3, <3>2
  <2> QED BY <2>2, <2>3
<1>18. DoubtfulHeld(M)
  <2> SUFFICES ASSUME NEW i \in 1 .. n + 1, NEW j \in 1 .. n + 1,
                      InARow(M, i, j), Doubtful(M[i], M[j])
               PROVE  M[i].consensus = "quarantined" /\ M[j].consensus = "quarantined"
    BY <1>3 DEF DoubtfulHeld
  <2>1. i \in 1 .. n
    BY <1>3, <1>11
  <2>2. CASE j \in 1 .. n
    <3>1. done[i].consensus = "quarantined" /\ done[j].consensus = "quarantined"
      BY <1>1, <1>7, <1>9, <2>1, <2>2 DEF Judgements, DoubtfulHeld, n
    <3> QED BY <1>17, <2>1, <2>2, <3>1
  <2>3. CASE j = n + 1
    BY <1>7, <1>10, <1>17, <2>1, <2>3
  <2> QED BY <1>3, <2>2, <2>3
<1>19. HeldForAReason(source, M)
  <2> SUFFICES ASSUME NEW i \in 1 .. n + 1, M[i].consensus = "quarantined"
               PROVE  \/ M[i].cells # {} /\ ~Sound(source, M[i])
                      \/ \E j \in 1 .. n + 1 : PartlySame(M[i], M[j]) \/ PartlySame(M[j], M[i])
    BY <1>3 DEF HeldForAReason
  <2>1. CASE i \in 1 .. n
    <3>1. CASE done[i].consensus = "quarantined"
      <4>1. \/ done[i].cells # {} /\ ~Sound(source, done[i])
            \/ \E j \in 1 .. n : PartlySame(done[i], done[j]) \/ PartlySame(done[j], done[i])
        BY <1>1, <2>1, <3>1 DEF Judgements, HeldForAReason, n
      <4> QED BY <1>3, <1>5, <1>7, <1>8, <2>1, <4>1
    <3>2. CASE done[i].consensus # "quarantined"
      <4>1. PartlySame(M[i], M[n + 1])
        BY <1>7, <1>17, <2>1, <3>2 DEF Doubtful
      <4>2. n + 1 \in 1 .. n + 1
        BY <1>1
      <4> QED BY <4>1, <4>2
    <3> QED BY <3>1, <3>2
  <2>2. CASE i = n + 1
    <3>1. CASE u.consensus = "quarantined"
      BY <1>4, <1>6, <1>8, <2>2, <3>1
    <3>2. CASE u.consensus # "quarantined"
      <4>1. headed /\ Doubtful(done[prev], u) /\ prev \in 1 .. n
        BY <1>1, <1>2, <1>3, <2>2, <3>2 DEF headed
      <4>2. PartlySame(M[prev], M[i]) /\ prev \in 1 .. n + 1
        BY <1>3, <1>7, <2>2, <4>1 DEF Doubtful
      <4> QED BY <4>2
    <3> QED BY <3>1, <3>2
  <2> QED BY <1>3, <2>1, <2>2
<1>20. LinksInside(M)
  <2>1. {NoId} \cup {done[j].id : j \in 1 .. n} \subseteq {NoId} \cup {M[j].id : j \in 1 .. n + 1}
    BY <1>3, <1>5
  <2>2. u.id \in {M[j].id : j \in 1 .. n + 1}
    <3>1. n + 1 \in 1 .. n + 1
      BY <1>1
    <3> QED BY <1>6, <3>1
  <2>3. ASSUME NEW i \in 1 .. n + 1
        PROVE  {M[i].continues_to, M[i].continues_from} \subseteq {NoId} \cup {M[j].id : j \in 1 .. n + 1}
    <3>1. CASE i \in 1 .. n
      <4>1. /\ M[i].continues_to = u.id \/ M[i].continues_to = done[i].continues_to
            /\ M[i].continues_from = done[i].continues_from
        BY <1>14, <3>1
      <4> QED BY <1>12, <2>1, <2>2, <3>1, <4>1
    <3>2. CASE i = n + 1
      BY <1>15, <2>1, <3>2
    <3> QED BY <1>3, <3>1, <3>2
  <2> QED BY <1>3, <2>3 DEF LinksInside
<1>21. Latest(M, prev')
  <2>1. CASE HeaderCells(u) = {}
    <3>1. prev' = prev /\ ~headed
      BY <1>2, <2>1 DEF headed
    <3>2. \A k \in 1 .. n + 1 : prev < k => HeaderCells(M[k]) = {}
      BY <1>1, <1>3, <1>7, <2>1 DEF Latest, n
    <3>3. prev # 0 => HeaderCells(M[prev]) # {} /\ M[prev].continues_to = NoId
      <4> SUFFICES ASSUME prev # 0 PROVE HeaderCells(M[prev]) # {} /\ M[prev].continues_to = NoId
        OBVIOUS
      <4>1. prev \in 1 .. n
        BY <1>1
      <4>2. M[prev] = done[prev]
        BY <1>2, <1>3, <2>1, <4>1
      <4> QED BY <1>1, <4>2 DEF Latest
    <3> QED BY <1>3, <3>1, <3>2, <3>3 DEF Latest
  <2>2. CASE HeaderCells(u) # {}
    <3>1. prev' = n + 1
      BY <1>2, <2>2
    <3>2. \A k \in 1 .. n + 1 : ~(n + 1 < k)
      BY <1>1
    <3> QED BY <1>3, <1>7, <1>15, <2>2, <3>1, <3>2 DEF Latest
  <2> QED BY <2>1, <2>2
<1>22. Judgements(source, M)
  BY <1>16, <1>18, <1>19, <1>20 DEF Judgements
<1> QED BY <1>1, <1>21, <1>22 DEF LinkInv, M

\* No other pass links or holds two tables.
LEMMA LinkSteps ==
  ASSUME BaseInv, ReadyInv, LinkInv, [Next]_vars
  PROVE  LinkInv'
<1>1. CASE UNCHANGED vars
  BY <1>1 DEF vars, LinkInv
<1>2. CASE Finish
  <2>1. /\ pass' = After(pass) /\ rest' = done /\ done' = <<>> /\ prev' = 0 /\ source' = source
        /\ Len(done') = 0
        /\ pass \in {"captions", "stitch", "headers", "nested", "geometry",
                     "rectangularity", "continuation"}
    BY <1>2, FinishIs
  <2>2. \A k : k \notin 1 .. Len(done')
    BY <2>1
  <2>3. Judgements(source', done') /\ Latest(done', prev')
    BY <2>1, <2>2 DEF Judgements, LinkedWell, DoubtfulHeld, HeldForAReason, LinksInside, Latest
  <2>4. pass' = "end" => pass = "continuation"
    BY <2>1, PassesAre
  <2> QED BY <2>1, <2>3, <2>4 DEF LinkInv
<1>3. CASE CheckContinuation
  BY <1>3, ContinuationKeepsLinks
<1>4. CASE /\ Next /\ ~Finish /\ ~CheckContinuation
  <2>1. pass' = pass /\ pass \notin {"continuation", "end"}
    BY <1>4 DEF Next, AttachBack, AttachForward, KeepSibling, StitchNext, StitchNot,
                AssignHeaderPaths, FlagNestedTable, CheckGeometry, CheckRectangularity, Visit
  <2> QED BY <2>1 DEF LinkInv
<1> QED BY <1>1, <1>2, <1>3, <1>4

\* So the links are what the gate promises, from its first table on.
LEMMA LinkInvariant == Spec => []LinkInv
<1>1. Init => LinkInv
  BY DEF Init, LinkInv
<1> QED BY <1>1, BaseInvariant, ReadyInvariant, LinkSteps, PTL DEF Spec

\* Two tables in a row that share a header are linked both ways, two that share
\* part of one are both held, and nothing else is linked: what the last gate
\* makes of the table it takes up never undoes what it made of those before
\* (gates/continuation.py).
THEOREM ContinuationsAreResolved == Spec => []ContinuationsResolved
<1>1. ASSUME BaseInv, LinkInv PROVE ContinuationsResolved
  <2> SUFFICES ASSUME NEW i \in DOMAIN Final, NEW j \in DOMAIN Final
               PROVE  LET t == Final[i]
                          u == Final[j]
                          inARow == /\ i < j /\ HeaderCells(t) # {} /\ HeaderCells(u) # {}
                                    /\ \A k \in i + 1 .. j - 1 : HeaderCells(Final[k]) = {}
                      IN  /\ inARow /\ SameHeader(t, u)
                               <=> t.continues_to = u.id
                          /\ t.continues_to = u.id <=> u.continues_from = t.id
                          /\ inARow /\ PartlySame(t, u) /\ Flagged(t) # {} /\ Flagged(u) # {}
                               => t.consensus = "quarantined" /\ u.consensus = "quarantined"
    BY DEF ContinuationsResolved
  <2>1. Final = rest /\ pass = "end"
    BY DEF Final
  <2>2. DOMAIN rest = 1 .. Len(rest) /\ Len(rest) \in Nat
    BY <1>1, ListHas DEF BaseInv
  <2> DEFINE t == rest[i]
             u == rest[j]
             between == i + 1 .. j - 1
             inARow == /\ i < j /\ HeaderCells(t) # {} /\ HeaderCells(u) # {}
                       /\ \A k \in between : HeaderCells(rest[k]) = {}
  <2>3. i \in 1 .. Len(rest) /\ j \in 1 .. Len(rest)
    BY <2>1, <2>2
  <2>4. \A k : k \in between <=> k \in 1 .. Len(rest) /\ i < k /\ k < j
    <3>1. ASSUME NEW n \in Nat, NEW a \in 1 .. n, NEW b \in 1 .. n
          PROVE  \A k : k \in a + 1 .. b - 1 <=> k \in 1 .. n /\ a < k /\ k < b
      OBVIOUS
    <3> QED BY <2>2, <2>3, <3>1
  <2>5. inARow <=> InARow(rest, i, j)
    <3> HIDE DEF between
    <3> QED BY <2>4 DEF InARow
  <2>6. Judgements(source, rest)
    BY <1>1, <2>1 DEF LinkInv
  <2> HIDE DEF inARow
  <2>7. inARow /\ SameHeader(t, u) <=> t.continues_to = u.id
    BY <2>3, <2>5, <2>6 DEF Judgements, LinkedWell
  <2>8. t.continues_to = u.id <=> u.continues_from = t.id
    BY <2>3, <2>6 DEF Judgements, LinkedWell
  <2>9. inARow /\ PartlySame(t, u) /\ Flagged(t) # {} /\ Flagged(u) # {}
          => t.consensus = "quarantined" /\ u.consensus = "quarantined"
    BY <2>3, <2>5, <2>6 DEF Judgements, DoubtfulHeld, Doubtful
  <2> QED BY <2>1, <2>7, <2>8, <2>9 DEF inARow
<1> QED BY <1>1, BaseInvariant, LinkInvariant, PTL

\* No table is held for nothing: one that is whole, without an empty cell, ruled
\* as Docling reads it and unlike its neighbours passes all three gates.
THEOREM SoundTablesAreAdmitted == Spec => []SoundTableAdmitted
<1>1. ASSUME BaseInv, LinkInv PROVE SoundTableAdmitted
  <2> SUFFICES ASSUME NEW u \in ToSet(Final), u.cells # {}, CoverageOk(u.cells),
                      source.ruled[u.id] = Size(u.cells),
                      \A c \in u.cells : c.text # Blank,
                      \A v \in ToSet(Final) : ~PartlySame(u, v) /\ ~PartlySame(v, u),
                      u.consensus = "quarantined"
               PROVE  FALSE
    BY DEF SoundTableAdmitted
  <2>1. Final = rest /\ pass = "end" /\ u \in ToSet(rest)
    <3>1. ToSet(<<>>) = {}
      BY DEF ToSet
    <3> QED BY <3>1 DEF Final
  <2>2. Known(source, u) /\ IsList(rest) /\ WellFormed(source)
    BY <1>1, <2>1 DEF BaseInv
  <2>3. PICK i \in 1 .. Len(rest) : u = rest[i]
    BY <2>1, <2>2, ListHas
  <2>4. \A j \in 1 .. Len(rest) : rest[j] \in ToSet(rest)
    BY <2>2, ListHas
  <2>5. u.cells # {} /\ ~Sound(source, u)
    <3>1. HeldForAReason(source, rest)
      BY <1>1, <2>1 DEF LinkInv, Judgements
    <3> QED BY <2>1, <2>3, <2>4, <3>1 DEF HeldForAReason
  <2>6. MandatoryColumnOk(u.cells)
    BY DEF MandatoryColumnOk, DataCells
  <2>7. RuledAlike(source, u)
    <3>1. GridOf(source, u.cells)
      BY <2>2 DEF Known
    <3>2. source.ruled[u.id] = DoclingGrid(u.cells)
      BY <3>1, SizeIs
    <3>3. DoclingGrid(u.cells) \in Nat \X Nat
      BY <3>1, GridSize DEF DoclingGrid
    <3>4. u.id \in DOMAIN source.ruled /\ source.siblings[u.id].page = u.page
      BY <2>2 DEF Known, WellFormed
    <3> QED BY <3>2, <3>3, <3>4, TableAssumption DEF RuledAlike
  <2> QED BY <2>5, <2>6, <2>7 DEF Sound
<1> QED BY <1>1, BaseInvariant, LinkInvariant, PTL

---------------------------------------------------------------------------
\* Where the rows of Docling's tables are, and whether a stitched table is whole.
SamePlace(m, e, shift) ==
  /\ m.row = e.row + shift /\ m.col = e.col /\ m.rowspan = e.rowspan /\ m.colspan = e.colspan
  /\ m.text = e.text
Holds(s, t) == \E shift \in Int : \A e \in DataCells(t.cells) :
  \E m \in s.cells : m.of = t.id /\ SamePlace(m, e, shift)

Stacked(s) == \A c, e \in s.cells : c.of < e.of => c.row + c.rowspan <= e.row
Parts(d, s) == {t \in ToSet(d.siblings) :
                  t.type = "table" /\ (t.id = s.id \/ \E c \in s.cells : c.of = t.id)}
WellMade(d, s) == (\A t \in Parts(d, s) : HeadedOnTop(t.cells)) => Whole(s.cells)
Untouched(d, s) == s.cells = d.siblings[s.id].cells

StitchInv ==
  /\ \A s \in ToSet(done) \cup ToSet(rest) : Stacked(s) /\ WellMade(source, s)
  /\ pass = "captions" => \A s \in ToSet(done) \cup ToSet(rest) : Untouched(source, s)
  /\ pass = "stitch" =>
       /\ \A h \in ToSet(rest) : Untouched(source, h)
       /\ \A s \in ToSet(done), h \in ToSet(rest) : \A c \in s.cells : c.of < h.id
  /\ \A t \in ToSet(source.siblings) : DataCells(t.cells) # {} =>
       \E s \in ToSet(done) \cup ToSet(rest) : Holds(s, t)

\* The cells under a header that stands on top of a whole table.
LEMMA BelowTheHeader ==
  ASSUME NEW d, NEW cells, GridOf(d, cells), HeadedOnTop(cells), DataCells(cells) # {}
  PROVE  /\ Whole(cells) /\ Top(DataCells(cells)) \in Nat
         /\ \A c \in DataCells(cells) : Top(DataCells(cells)) <= c.row
         /\ \A i, j \in Nat : /\ Top(DataCells(cells)) <= i /\ i < Height(cells) /\ j < Width(cells)
                              => \E c \in DataCells(cells) : Covers(c, i, j)
<1> DEFINE header == InHeader(cells)
           data == DataCells(cells)
           h == Height(header)
<1>1. Whole(cells) /\ HeaderRows(cells) = 0 .. h - 1
  BY CoverageIs DEF HeadedOnTop
<1>2. /\ \A c \in cells : InGrid(d, c)
      /\ \A c \in header : c \in cells /\ c.row \in HeaderRows(cells)
      /\ \A c \in data : c \in cells /\ c.row \notin HeaderRows(cells)
      /\ \A c \in cells : c \in header \/ c \in data
  BY DEF GridOf, InHeader, DataCells
<1>3. GridOf(d, header) /\ GridOf(d, data)
  <2>1. header \in SUBSET cells /\ data \in SUBSET cells
    BY <1>2
  <2> HIDE DEF header, data
  <2> QED BY <2>1, GridParts
<1>4. h \in Nat /\ \A c \in header : c.row + c.rowspan <= h
  BY <1>3, GridSize
<1>5. /\ Height(cells) \in Nat /\ Width(cells) \in Nat
      /\ \A c \in cells : c.row + c.rowspan <= Height(cells) /\ c.col + c.colspan <= Width(cells)
  BY GridSize
<1>6. Top(data) \in Nat /\ (\A c \in data : Top(data) <= c.row) /\ \E c \in data : c.row = Top(data)
  BY <1>3, TopIs
<1> HIDE DEF header, data, h
<1>7. \A c \in data : h <= c.row
  <2> SUFFICES ASSUME NEW c \in data PROVE h <= c.row
    OBVIOUS
  <2>1. c.row \in Nat /\ c.row \notin 0 .. h - 1
    BY <1>1, <1>2 DEF InGrid
  <2> QED BY <1>4, <2>1
<1>8. ASSUME NEW i \in Nat, NEW j \in Nat, h <= i, i < Height(cells), j < Width(cells)
      PROVE  \E c \in data : Covers(c, i, j)
  <2>1. PICK c \in cells : Covers(c, i, j)
    BY <1>1, <1>8 DEF Whole
  <2>2. c \notin header
    <3> SUFFICES ASSUME c \in header PROVE FALSE
      OBVIOUS
    <3>1. c.row + c.rowspan <= h /\ i < c.row + c.rowspan /\ c.row + c.rowspan \in Nat
      BY <1>2, <1>4, <2>1 DEF Covers, InGrid
    <3> QED BY <1>4, <1>8, <3>1
  <2> QED BY <1>2, <2>1, <2>2
<1>9. h <= Top(data)
  BY <1>6, <1>7
<1>10. ASSUME NEW i \in Nat, NEW j \in Nat, Top(data) <= i, i < Height(cells), j < Width(cells)
       PROVE  \E c \in data : Covers(c, i, j)
  <2>1. h <= i
    BY <1>4, <1>6, <1>9, <1>10
  <2> QED BY <1>8, <1>10, <2>1
<1> QED BY <1>1, <1>6, <1>10 DEF data

\* Two whole tables of one width, the second without its header, make a whole one.
LEMMA MergedIsWhole ==
  ASSUME NEW d, NEW cells, NEW data, NEW lower, GridOf(d, cells), GridOf(d, lower),
         Whole(cells), Whole(lower), Width(cells) = Width(lower),
         data \in SUBSET lower, data # {}, Top(data) \in Nat,
         \A i, j \in Nat : /\ Top(data) <= i /\ i < Height(lower) /\ j < Width(lower)
                           => \E c \in data : Covers(c, i, j)
  PROVE  Whole(cells \cup MovedBelow(data, Top(data), Height(cells)))
<1> DEFINE h == Height(cells)
           moved == MovedBelow(data, Top(data), h)
           top == Top(data)
           all == cells \cup moved
<1>1. GridOf(d, data)
  BY GridParts
<1>2. h \in Nat /\ Height(lower) \in Nat /\ Width(lower) \in Nat /\ top \in Nat
  BY GridSize
<1>3. /\ moved = {Down(c, top, h) : c \in data}
      /\ \A c \in data : /\ InGrid(d, Down(c, top, h)) /\ SameButRow(Down(c, top, h), c)
                         /\ Down(c, top, h).row = c.row - top + h /\ h <= Down(c, top, h).row
  BY <1>1, <1>2, MovedIs
<1>4. /\ \A c \in cells : InGrid(d, c) /\ c.row + c.rowspan <= h /\ c.col + c.colspan <= Width(lower)
      /\ \A c \in data : /\ InGrid(d, c) /\ c \in lower
                         /\ c.row + c.rowspan <= Height(lower) /\ c.col + c.colspan <= Width(lower)
  BY GridSize DEF GridOf
<1> HIDE DEF h, moved, top
<1>5. ASSUME NEW c \in data, NEW i \in Nat, NEW j \in Nat
      PROVE  /\ Covers(Down(c, top, h), i, j) => h <= i
             /\ h <= i => /\ i - h + top \in Nat
                          /\ Covers(Down(c, top, h), i, j) <=> Covers(c, i - h + top, j)
  BY <1>2, <1>3, <1>4 DEF Covers, InGrid, SameButRow
<1>6. ASSUME NEW c \in cells, NEW i \in Nat, NEW j \in Nat, Covers(c, i, j) PROVE i < h
  BY <1>2, <1>4, <1>6 DEF Covers, InGrid
<1>7. ASSUME NEW c \in all, NEW e \in all, NEW i \in Nat, NEW j \in Nat,
             Covers(c, i, j), Covers(e, i, j)
      PROVE  c = e
  <2>1. CASE i < h
    <3>1. ASSUME NEW m \in moved PROVE ~Covers(m, i, j)
      <4>1. PICK b \in data : m = Down(b, top, h)
        BY <1>3
      <4>2. ~(h <= i)
        BY <1>2, <2>1
      <4> QED BY <1>5, <4>1, <4>2
    <3>2. c \in cells /\ e \in cells
      BY <1>7, <3>1
    <3>3. \A a, b \in cells : Covers(a, i, j) /\ Covers(b, i, j) => a = b
      BY DEF Whole
    <3> QED BY <1>7, <3>2, <3>3
  <2>2. CASE h <= i
    <3>1. c \in moved /\ e \in moved
      BY <1>2, <1>6, <1>7, <2>2
    <3>2. PICK c0 \in data, e0 \in data : c = Down(c0, top, h) /\ e = Down(e0, top, h)
      BY <1>3, <3>1
    <3>3. /\ i - h + top \in Nat /\ c0 \in lower /\ e0 \in lower
          /\ Covers(c0, i - h + top, j) /\ Covers(e0, i - h + top, j)
      BY <1>4, <1>5, <1>7, <2>2, <3>2
    <3>4. c0 = e0
      BY <3>3 DEF Whole
    <3> QED BY <3>2, <3>4
  <2> QED BY <1>2, <2>1, <2>2
<1>8. GridOf(d, all)
  <2>1. PICK b \in Nat : EndsBy(lower, b)
    BY DEF GridOf
  <2>2. \A m \in all : InGrid(d, m)
    BY <1>3, <1>4
  <2>3. EndsBy(all, h + Height(lower) + Width(lower))
    <3> SUFFICES ASSUME NEW m \in all
                 PROVE  /\ m.row + m.rowspan <= h + Height(lower) + Width(lower)
                        /\ m.col + m.colspan <= h + Height(lower) + Width(lower)
      BY DEF EndsBy
    <3>1. CASE m \in cells
      <4>1. /\ m.row + m.rowspan <= h /\ m.col + m.colspan <= Width(lower)
            /\ m.row + m.rowspan \in Nat /\ m.col + m.colspan \in Nat
        BY <1>4, <3>1 DEF InGrid
      <4> QED BY <1>2, <4>1
    <3>2. CASE m \in moved
      <4>1. PICK c \in data : m = Down(c, top, h)
        BY <1>3, <3>2
      <4>2. /\ m.row = c.row - top + h /\ m.rowspan = c.rowspan
            /\ m.col = c.col /\ m.colspan = c.colspan
            /\ c.row + c.rowspan <= Height(lower) /\ c.col + c.colspan <= Width(lower)
            /\ c.row \in Nat /\ c.rowspan \in Nat /\ c.col \in Nat /\ c.colspan \in Nat
        BY <1>3, <1>4, <4>1 DEF InGrid, SameButRow
      <4> HIDE DEF all
      <4> QED BY <1>2, <4>2
    <3> QED BY <3>1, <3>2
  <2>4. h + Height(lower) + Width(lower) \in Nat
    BY <1>2
  <2> QED BY <2>2, <2>3, <2>4 DEF GridOf
<1>9. /\ Height(all) \in Nat /\ Width(all) \in Nat
      /\ all # {} => /\ \E c \in all : c.row + c.rowspan = Height(all)
                     /\ \E c \in all : c.col + c.colspan = Width(all)
      /\ all # {}
  <2>1. all # {}
    <3> HIDE DEF moved
    <3> QED BY <1>3
  <2> HIDE DEF all
  <2> QED BY <1>8, <2>1, GridSize
<1>10. Width(all) <= Width(lower)
  <2>1. PICK m \in all : m.col + m.colspan = Width(all)
    BY <1>9
  <2>2. CASE m \in cells
    BY <1>4, <2>1, <2>2
  <2>3. CASE m \in moved
    <3>1. PICK c \in data : m = Down(c, top, h)
      BY <1>3, <2>3
    <3> QED BY <1>3, <1>4, <2>1, <3>1 DEF SameButRow
  <2> QED BY <2>1, <2>2, <2>3
<1>11. \A i \in Nat : h <= i /\ i < Height(all) => i - h + top < Height(lower)
  <2> SUFFICES ASSUME NEW i \in Nat, h <= i, i < Height(all) PROVE i - h + top < Height(lower)
    OBVIOUS
  <2>1. PICK m \in all : m.row + m.rowspan = Height(all)
    BY <1>9
  <2>2. m \in moved
    <3>1. m \in cells => m.row + m.rowspan <= h
      BY <1>4
    <3> QED BY <1>2, <1>9, <2>1, <3>1
  <2>3. PICK c \in data : m = Down(c, top, h)
    BY <1>3, <2>2
  <2>4. /\ m.row = c.row - top + h /\ m.rowspan = c.rowspan /\ c.row + c.rowspan <= Height(lower)
        /\ c.row \in Nat /\ c.rowspan \in Nat
    BY <1>3, <1>4, <2>3 DEF SameButRow, InGrid
  <2> HIDE DEF all
  <2> QED BY <1>2, <1>9, <2>1, <2>4
<1>12. ASSUME NEW i \in Nat, NEW j \in Nat, i < Height(all), j < Width(all)
       PROVE  \E c \in all : Covers(c, i, j)
  <2>1. j < Width(lower)
    <3> HIDE DEF all
    <3> QED BY <1>2, <1>9, <1>10, <1>12
  <2>2. CASE i < h
    <3>1. \E c \in cells : Covers(c, i, j)
      BY <2>1, <2>2 DEF Whole, h
    <3> QED BY <3>1
  <2>3. CASE h <= i
    <3>1. i - h + top < Height(lower) /\ i - h + top \in Nat /\ top <= i - h + top
      BY <1>2, <1>11, <1>12, <2>3
    <3>2. PICK c \in data : Covers(c, i - h + top, j)
      BY <2>1, <3>1 DEF top
    <3>3. Covers(Down(c, top, h), i, j) /\ Down(c, top, h) \in all
      BY <1>3, <1>5, <2>3, <3>2
    <3> QED BY <3>3
  <2> QED BY <1>2, <2>2, <2>3
<1> HIDE DEF all
<1>13. Whole(all)
  BY <1>7, <1>12 DEF Whole
<1> QED BY <1>13 DEF all, moved, h, top

\* The cells and the identifier tell what a sibling is made of.
LEMMA CarriedOn ==
  ASSUME NEW d, NEW n, NEW s, n.id = s.id, n.cells = s.cells
  PROVE  /\ Stacked(n) <=> Stacked(s)
         /\ WellMade(d, n) <=> WellMade(d, s)
         /\ \A t : Holds(n, t) <=> Holds(s, t)
<1>1. Stacked(n) <=> Stacked(s)
  BY DEF Stacked
<1>2. WellMade(d, n) <=> WellMade(d, s)
  <2>1. Parts(d, n) = Parts(d, s)
    BY DEF Parts
  <2> QED BY <2>1 DEF WellMade
<1>3. \A t : Holds(n, t) <=> Holds(s, t)
  BY DEF Holds
<1> QED BY <1>1, <1>2, <1>3

\* A sibling without cells holds no rows.
LEMMA EmptyHoldsNothing ==
  ASSUME NEW s, NEW t, s.cells = {}, DataCells(t.cells) # {}
  PROVE  ~Holds(s, t)
BY DEF Holds

\* A step that rebuilds the list loses no row, if the new sibling has the rows
\* of those that are gone.
LEMMA RebuiltStitched ==
  ASSUME BaseInv, StitchInv, NEW kept, NEW left, NEW new, Rebuilt(kept, left, new),
         Stacked(new), WellMade(source, new),
         pass = "captions" => Untouched(source, new),
         pass = "stitch" => \A c \in new.cells : \A h \in ToSet(left) : c.of < h.id,
         \A s \in (ToSet(done) \cup ToSet(rest)) \ (ToSet(kept) \cup ToSet(left)) :
           \A t \in ToSet(source.siblings) : DataCells(t.cells) # {} /\ Holds(s, t) => Holds(new, t)
  PROVE  StitchInv'
<1>1. /\ ToSet(kept) \subseteq ToSet(done) /\ ToSet(left) \subseteq ToSet(rest)
      /\ ToSet(done') = ToSet(kept) \cup {new} /\ ToSet(rest') = ToSet(left)
  BY Rebuilding
<1>2. pass' = pass /\ source' = source
  BY DEF Rebuilt
<1>3. \A s \in ToSet(done') \cup ToSet(rest') : Stacked(s) /\ WellMade(source', s)
  BY <1>1, <1>2 DEF StitchInv
<1>4. pass' = "captions" => \A s \in ToSet(done') \cup ToSet(rest') : Untouched(source', s)
  BY <1>1, <1>2 DEF StitchInv
<1>5. pass' = "stitch" =>
        /\ \A h \in ToSet(rest') : Untouched(source', h)
        /\ \A s \in ToSet(done'), h \in ToSet(rest') : \A c \in s.cells : c.of < h.id
  BY <1>1, <1>2 DEF StitchInv
<1>6. ASSUME NEW t \in ToSet(source'.siblings), DataCells(t.cells) # {}
      PROVE  \E s \in ToSet(done') \cup ToSet(rest') : Holds(s, t)
  <2>1. t \in ToSet(source.siblings)
    BY <1>2
  <2>2. PICK s \in ToSet(done) \cup ToSet(rest) : Holds(s, t)
    BY <1>6, <2>1 DEF StitchInv
  <2>3. CASE s \in ToSet(kept) \cup ToSet(left)
    BY <1>1, <2>2, <2>3
  <2>4. CASE s \notin ToSet(kept) \cup ToSet(left)
    <3>1. Holds(new, t)
      BY <1>6, <2>1, <2>2, <2>4
    <3> QED BY <1>1, <3>1
  <2> QED BY <2>3, <2>4
<1> QED BY <1>3, <1>4, <1>5, <1>6 DEF StitchInv

\* A pass that gives a sibling other captions or another judgement.
LEMMA RelabelledKeeps ==
  ASSUME BaseInv, StitchInv, NEW kept, NEW left, NEW new, Rebuilt(kept, left, new),
         NEW s \in ToSet(done) \cup ToSet(rest), new.id = s.id, new.cells = s.cells,
         pass # "stitch",
         \A r \in (ToSet(done) \cup ToSet(rest)) \ (ToSet(kept) \cup ToSet(left)) :
           r = s \/ r.cells = {}
  PROVE  StitchInv'
<1>1. Stacked(new) /\ WellMade(source, new)
  BY CarriedOn DEF StitchInv
<1>2. pass = "captions" => Untouched(source, new)
  BY DEF StitchInv, Untouched
<1>3. \A r \in (ToSet(done) \cup ToSet(rest)) \ (ToSet(kept) \cup ToSet(left)) :
        \A t \in ToSet(source.siblings) : DataCells(t.cells) # {} /\ Holds(r, t) => Holds(new, t)
  BY CarriedOn, EmptyHoldsNothing
<1> QED BY <1>1, <1>2, <1>3, RebuiltStitched

\* The passes, one by one: no row is lost or moved between the tables.
LEMMA AttachKeepsStitched ==
  ASSUME BaseInv, StitchInv, AttachBack \/ AttachForward \/ KeepSibling
  PROVE  StitchInv'
<1>1. pass = "captions" /\ rest # <<>>
  BY DEF AttachBack, AttachForward, KeepSibling, Visit
<1>2. Head(rest).type = "caption" => Head(rest).cells = {}
  BY <1>1, HeadOfRest DEF Known
<1>3. CASE AttachBack
  <2> DEFINE v == Append(Last(done).captions, Head(rest).id)
             new == [Last(done) EXCEPT !.captions = v]
  <2>1. Rebuilt(Front(done), Tail(rest), new) /\ done # <<>> /\ Head(rest).cells = {}
    BY <1>2, <1>3, AttachBackIs DEF AttachBack, AfterTable
  <2>2. /\ ToSet(done) = ToSet(Front(done)) \cup {Last(done)}
        /\ ToSet(rest) = {Head(rest)} \cup ToSet(Tail(rest))
        /\ Known(source, Last(done))
    BY <1>1, <2>1, HeadOfRest, LastOfDone
  <2>3. new.id = Last(done).id /\ new.cells = Last(done).cells
    <3> HIDE DEF v
    <3> QED BY <2>2 DEF Known, SiblingFields
  <2> HIDE DEF new
  <2> QED BY <1>1, <2>1, <2>2, <2>3, RelabelledKeeps
<1>4. CASE AttachForward
  <2> DEFINE v == <<Head(rest).id>> \o rest[2].captions
             new == [rest[2] EXCEPT !.captions = v]
             r == Tail(rest)
  <2>1. /\ Rebuilt(done, Tail(Tail(rest)), new) /\ rest[2] \in ToSet(rest)
        /\ Len(rest) > 1 /\ Head(rest).cells = {}
    BY <1>2, <1>4, AttachForwardIs DEF AttachForward, BeforeTable
  <2>2. /\ ToSet(rest) = {Head(rest)} \cup ToSet(r) /\ IsList(r) /\ Len(r) = Len(rest) - 1
        /\ Len(rest) \in Nat /\ r[1] = rest[2]
    <3>1. Len(rest) \in Nat /\ IsList(rest)
      BY <1>1, ListHas DEF BaseInv
    <3>2. 1 \in 1 .. Len(rest) - 1
      BY <2>1, <3>1
    <3> QED BY <1>1, <3>1, <3>2, Taken
  <2>3. Known(source, rest[2])
    BY <2>1 DEF BaseInv
  <2>4. ToSet(r) = {rest[2]} \cup ToSet(Tail(r))
    <3> HIDE DEF r
    <3>1. r # <<>>
      BY <2>1, <2>2, ListHas
    <3> QED BY <2>2, <3>1, Taken
  <2>5. new.id = rest[2].id /\ new.cells = rest[2].cells
    <3> HIDE DEF v
    <3> QED BY <2>3 DEF Known, SiblingFields
  <2> HIDE DEF new
  <2> QED BY <1>1, <2>1, <2>2, <2>4, <2>5, RelabelledKeeps
<1>5. CASE KeepSibling
  <2>1. Rebuilt(done, Tail(rest), Head(rest))
    BY <1>5, KeepSiblingIs
  <2> QED BY <1>1, <2>1, HeadOfRest, RelabelledKeeps
<1> QED BY <1>3, <1>4, <1>5

LEMMA JudgementKeepsStitched ==
  ASSUME BaseInv, StitchInv, FlagNestedTable \/ CheckGeometry \/ CheckRectangularity
  PROVE  StitchInv'
<1>1. PICK new : Rebuilt(done, Tail(rest), new) /\ Judgement(new, Head(rest))
  BY FlagNestedTableIs, CheckGeometryIs, CheckRectangularityIs
<1>2. rest # <<>> /\ pass # "stitch"
  BY DEF FlagNestedTable, CheckGeometry, CheckRectangularity, Visit
<1> QED BY <1>1, <1>2, HeadOfRest, RelabelledKeeps DEF Judgement

\* The header paths move no cell.
LEMMA PathsKeep ==
  ASSUME NEW d, NEW s, Known(d, s)
  PROVE  LET n == [s EXCEPT !.cells = WithPaths(s.cells)]
         IN  /\ Stacked(s) => Stacked(n)
             /\ WellMade(d, s) => WellMade(d, n)
             /\ \A t : Holds(s, t) => Holds(n, t)
<1> DEFINE cells == s.cells
           new == WithPaths(cells)
           n == [s EXCEPT !.cells = new]
<1>1. /\ \A m \in new : \E c \in cells : SameButPath(m, c) /\ (m = c \/ m = WithPath(cells, c))
      /\ \A c \in cells : \E m \in new : SameButPath(m, c)
      /\ GridOf(d, new) /\ GridOf(d, cells)
  BY PathsAre DEF Known
<1>2. new = InHeader(cells) \cup {WithPath(cells, c) : c \in DataCells(cells)}
  BY DEF WithPaths
<1>3. \A c \in cells : InGrid(d, c) /\ SameButPath(WithPath(cells, c), c)
  BY <1>1, PathIs DEF GridOf
<1>4. n.cells = new /\ n.id = s.id
  <2> HIDE DEF new
  <2> QED BY DEF Known, SiblingFields
<1>5. \A c \in cells : c \in InHeader(cells) <=> c \notin DataCells(cells)
  BY DEF InHeader, DataCells
<1>6. InHeader(cells) \subseteq cells /\ DataCells(cells) \subseteq cells
  BY DEF InHeader, DataCells
<1> HIDE DEF n, new, cells
<1>7. Stacked(s) => Stacked(n)
  BY <1>1, <1>4 DEF Stacked, SameButPath, SameButRow, cells
<1>8. \A t : Holds(s, t) => Holds(n, t)
  <2> SUFFICES ASSUME NEW t, Holds(s, t) PROVE Holds(n, t)
    OBVIOUS
  <2>1. PICK shift \in Int : \A e \in DataCells(t.cells) :
          \E m \in cells : m.of = t.id /\ SamePlace(m, e, shift)
    BY DEF Holds, cells
  <2>2. ASSUME NEW e \in DataCells(t.cells)
        PROVE  \E m \in new : m.of = t.id /\ SamePlace(m, e, shift)
    <3>1. PICK c \in cells : c.of = t.id /\ SamePlace(c, e, shift)
      BY <2>1
    <3>2. PICK m \in new : SameButPath(m, c)
      BY <1>1
    <3> QED BY <3>1, <3>2 DEF SamePlace, SameButPath, SameButRow
  <2> QED BY <1>4, <2>2 DEF Holds
<1>9. Height(new) = Height(cells) /\ Width(new) = Width(cells)
  <2>1. {c.row + c.rowspan : c \in new} = {c.row + c.rowspan : c \in cells}
    BY <1>1 DEF SameButPath, SameButRow
  <2>2. {c.col + c.colspan : c \in new} = {c.col + c.colspan : c \in cells}
    BY <1>1 DEF SameButPath, SameButRow
  <2> QED BY <2>1, <2>2 DEF Height, Width
<1>10. ASSUME Whole(cells) PROVE Whole(new)
  <2>1. ASSUME NEW m \in new, NEW k \in new, NEW i \in Nat, NEW j \in Nat,
               Covers(m, i, j), Covers(k, i, j)
        PROVE  m = k
    <3>1. PICK c \in cells : SameButPath(m, c) /\ (c \in InHeader(cells) => m = c)
                             /\ (c \in DataCells(cells) => m = WithPath(cells, c))
      BY <1>2, <1>3, <1>5, <1>6 DEF SameButPath, SameButRow
    <3>2. PICK e \in cells : SameButPath(k, e) /\ (e \in InHeader(cells) => k = e)
                             /\ (e \in DataCells(cells) => k = WithPath(cells, e))
      BY <1>2, <1>3, <1>5, <1>6 DEF SameButPath, SameButRow
    <3>3. Covers(c, i, j) /\ Covers(e, i, j)
      BY <2>1, <3>1, <3>2 DEF Covers, SameButPath, SameButRow
    <3>4. c = e
      BY <1>10, <3>3 DEF Whole
    <3> QED BY <1>5, <3>1, <3>2, <3>4
  <2>2. ASSUME NEW i \in Nat, NEW j \in Nat, i < Height(new), j < Width(new)
        PROVE  \E m \in new : Covers(m, i, j)
    <3>1. PICK c \in cells : Covers(c, i, j)
      BY <1>9, <1>10, <2>2 DEF Whole
    <3>2. PICK m \in new : SameButPath(m, c)
      BY <1>1
    <3> QED BY <3>1, <3>2 DEF Covers, SameButPath, SameButRow
  <2> QED BY <2>1, <2>2 DEF Whole
<1>11. WellMade(d, s) => WellMade(d, n)
  <2>1. Parts(d, n) = Parts(d, s)
    <3>1. \A t : (\E c \in new : c.of = t.id) <=> (\E c \in cells : c.of = t.id)
      BY <1>1 DEF SameButPath, SameButRow
    <3> QED BY <1>4, <3>1 DEF Parts, cells
  <2> QED BY <1>4, <1>10, <2>1 DEF WellMade, cells
<1> QED BY <1>7, <1>8, <1>11 DEF n, new, cells

LEMMA HeadersKeepStitched ==
  ASSUME BaseInv, StitchInv, AssignHeaderPaths
  PROVE  StitchInv'
<1> DEFINE t == Head(rest)
           new == [t EXCEPT !.cells = WithPaths(t.cells)]
<1>1. pass = "headers" /\ rest # <<>> /\ Rebuilt(done, Tail(rest), new)
  BY AssignHeaderPathsIs DEF AssignHeaderPaths, Visit
<1>2. /\ Known(source, t) /\ t \in ToSet(rest) /\ ToSet(rest) = {t} \cup ToSet(Tail(rest))
  BY <1>1, HeadOfRest
<1>3. /\ Stacked(t) => Stacked(new)
      /\ WellMade(source, t) => WellMade(source, new)
      /\ \A f : Holds(t, f) => Holds(new, f)
  <2> HIDE DEF t
  <2> QED BY <1>2, PathsKeep
<1> HIDE DEF new, t
<1>4. Stacked(new) /\ WellMade(source, new)
  BY <1>2, <1>3 DEF StitchInv
<1>5. \A s \in (ToSet(done) \cup ToSet(rest)) \ (ToSet(done) \cup ToSet(Tail(rest))) :
        \A f \in ToSet(source.siblings) : DataCells(f.cells) # {} /\ Holds(s, f) => Holds(new, f)
  BY <1>2, <1>3
<1> QED BY <1>1, <1>4, <1>5, RebuiltStitched

\* A fragment goes below the table it continues: its rows stay together, after
\* those of the tables before it, and leave no hole between.
LEMMA MergedKeeps ==
  ASSUME NEW d, WellFormed(d), NEW t, NEW u, Known(d, t), Known(d, u), u.type = "table",
         Width(t.cells) = Width(u.cells), Stacked(t), WellMade(d, t), Untouched(d, u),
         \A c \in t.cells : c.of < u.id,
         NEW n, n.id = t.id,
         n.cells = t.cells \cup MovedBelow(DataCells(u.cells), Top(DataCells(u.cells)), Height(t.cells))
  PROVE  /\ Stacked(n) /\ WellMade(d, n)
         /\ \A c \in n.cells : c.of < u.id \/ c.of = u.id
         /\ \A f : Holds(t, f) => Holds(n, f)
         /\ \A f \in ToSet(d.siblings) : DataCells(f.cells) # {} /\ Holds(u, f) => Holds(n, f)
<1> DEFINE data == DataCells(u.cells)
           top == Top(data)
           h == Height(t.cells)
           moved == MovedBelow(data, top, h)
           f0 == d.siblings[u.id]
<1>1. GridOf(d, t.cells) /\ GridOf(d, u.cells) /\ data \in SUBSET u.cells /\ GridOf(d, data)
  <2>1. GridOf(d, t.cells) /\ GridOf(d, u.cells) /\ data \in SUBSET u.cells
    BY DEF Known, DataCells
  <2> HIDE DEF data
  <2> QED BY <2>1, GridParts
<1>2. /\ u.id \in DOMAIN d.siblings /\ u.id \in Nat /\ f0 \in ToSet(d.siblings)
      /\ f0.id = u.id /\ f0.cells = u.cells /\ f0.type = "table"
      /\ \A c \in u.cells : c.of = u.id
  <2>1. u.id \in DOMAIN d.siblings /\ DOMAIN d.siblings \subseteq Nat
    BY SourceIsKnown, ListHas DEF Known
  <2>2. f0 \in ToSet(d.siblings)
    BY <2>1 DEF ToSet
  <2>3. f0.cells = u.cells /\ f0.type = u.type
    BY DEF Untouched, Known
  <2> QED BY <2>1, <2>2, <2>3, SiblingIs
<1>3. h \in Nat /\ \A c \in t.cells : c.row + c.rowspan <= h
  BY <1>1, GridSize
<1>4. data = {} => moved = {}
  BY DEF MovedBelow
<1>5. data # {} =>
        /\ top \in Nat /\ moved = {Down(c, top, h) : c \in data}
        /\ \A c \in data : /\ SameButRow(Down(c, top, h), c)
                           /\ Down(c, top, h).row = c.row - top + h /\ h <= Down(c, top, h).row
  <2> SUFFICES ASSUME data # {}
               PROVE  /\ top \in Nat /\ moved = {Down(c, top, h) : c \in data}
                      /\ \A c \in data : /\ SameButRow(Down(c, top, h), c)
                                         /\ Down(c, top, h).row = c.row - top + h
                                         /\ h <= Down(c, top, h).row
    OBVIOUS
  <2>1. top \in Nat
    BY <1>1, TopIs
  <2> HIDE DEF data, h
  <2> QED BY <1>1, <1>3, <2>1, MovedIs
<1>6. n.cells = t.cells \cup moved
  OBVIOUS
<1> HIDE DEF data, top, h, moved, f0
<1>7. \A m \in moved : m.of = u.id /\ h <= m.row
  <2> SUFFICES ASSUME NEW m \in moved PROVE m.of = u.id /\ h <= m.row
    OBVIOUS
  <2>1. data # {}
    BY <1>4
  <2>2. PICK c \in data : m = Down(c, top, h)
    BY <1>5, <2>1
  <2> QED BY <1>1, <1>2, <1>5, <2>1, <2>2 DEF SameButRow
<1>8. \A c \in n.cells : c.of < u.id \/ c.of = u.id
  BY <1>6, <1>7
<1>9. Stacked(n)
  <2> SUFFICES ASSUME NEW c \in n.cells, NEW e \in n.cells, c.of < e.of
               PROVE  c.row + c.rowspan <= e.row
    BY DEF Stacked
  <2>1. CASE c \in t.cells /\ e \in t.cells
    BY <2>1 DEF Stacked
  <2>2. CASE c \in t.cells /\ e \in moved
    <3>1. c.row + c.rowspan <= h /\ h <= e.row /\ c.row + c.rowspan \in Nat
      BY <1>1, <1>3, <1>7, <2>2 DEF GridOf, InGrid
    <3>2. e.row \in Int
      <4>1. data # {}
        BY <1>4, <2>2
      <4>2. PICK b \in data : e = Down(b, top, h)
        BY <1>5, <2>2, <4>1
      <4>3. e.row = b.row - top + h /\ b.row \in Nat
        BY <1>1, <1>5, <4>1, <4>2 DEF GridOf, InGrid
      <4> QED BY <1>3, <1>5, <4>1, <4>3
    <3> QED BY <1>3, <3>1, <3>2
  <2>3. CASE c \in moved
    <3>1. c.of = u.id
      BY <1>7, <2>3
    <3>2. e.of < u.id \/ e.of = u.id
      BY <1>8
    <3>3. e.of \in Nat
      <4>1. DOMAIN d.siblings \subseteq Nat
        BY SourceIsKnown, ListHas
      <4>2. e \in t.cells => e.of \in Nat
        BY <1>1, <4>1 DEF GridOf, InGrid
      <4> QED BY <1>2, <1>6, <1>7, <4>2
    <3> QED BY <1>2, <3>1, <3>2, <3>3
  <2> QED BY <1>6, <2>1, <2>2, <2>3
<1>10. ASSUME NEW f, Holds(t, f) PROVE Holds(n, f)
  BY <1>6, <1>10 DEF Holds
<1>11. ASSUME NEW f \in ToSet(d.siblings), DataCells(f.cells) # {}, Holds(u, f)
       PROVE  Holds(n, f)
  <2>1. f.id = u.id
    BY <1>2, <1>11 DEF Holds
  <2>2. f.cells = u.cells
    <3>1. PICK i \in DOMAIN d.siblings : f = d.siblings[i]
      BY DEF ToSet
    <3>2. f.id = i
      BY <3>1, SiblingIs
    <3> QED BY <1>2, <2>1, <3>1, <3>2 DEF f0
  <2>3. data # {}
    BY <1>11, <2>2 DEF data
  <2>4. h - top \in Int
    BY <1>3, <1>5, <2>3
  <2>5. ASSUME NEW e \in data
        PROVE  \E m \in n.cells : m.of = f.id /\ SamePlace(m, e, h - top)
    <3>1. Down(e, top, h) \in moved
      BY <1>5, <2>3
    <3>2. Down(e, top, h).row = e.row + (h - top)
      <4>1. Down(e, top, h).row = e.row - top + h
        BY <1>5, <2>3
      <4>2. e.row \in Nat /\ top \in Nat
        BY <1>1, <1>5, <2>3 DEF GridOf, InGrid
      <4> QED BY <1>3, <4>1, <4>2
    <3>3. SameButRow(Down(e, top, h), e)
      BY <1>5, <2>3
    <3>4. SamePlace(Down(e, top, h), e, h - top)
      BY <3>2, <3>3 DEF SamePlace, SameButRow
    <3> QED BY <1>6, <1>7, <2>1, <3>1, <3>4
  <2> QED BY <2>2, <2>4, <2>5 DEF Holds, data
<1>12. WellMade(d, n)
  <2> SUFFICES ASSUME \A f \in Parts(d, n) : HeadedOnTop(f.cells) PROVE Whole(n.cells)
    BY DEF WellMade
  <2>1. Parts(d, t) \subseteq Parts(d, n)
    BY <1>6 DEF Parts
  <2>2. Whole(t.cells)
    BY <2>1 DEF WellMade
  <2>3. CASE data = {}
    BY <1>4, <1>6, <2>2, <2>3
  <2>4. CASE data # {}
    <3>1. PICK m \in moved : TRUE
      BY <1>5, <2>4
    <3>2. f0 \in Parts(d, n)
      BY <1>2, <1>6, <1>7, <3>1 DEF Parts
    <3>3. HeadedOnTop(u.cells)
      BY <1>2, <3>2
    <3>4. /\ Whole(u.cells) /\ Top(data) \in Nat
          /\ \A i, j \in Nat : /\ Top(data) <= i /\ i < Height(u.cells) /\ j < Width(u.cells)
                               => \E c \in data : Covers(c, i, j)
      BY <1>1, <2>4, <3>3, BelowTheHeader DEF data
    <3>5. Whole(t.cells \cup MovedBelow(data, Top(data), Height(t.cells)))
      BY <1>1, <2>2, <2>4, <3>4, MergedIsWhole
    <3> QED BY <1>6, <3>5 DEF moved, top, h
  <2> QED BY <2>3, <2>4
<1> QED BY <1>8, <1>9, <1>10, <1>11, <1>12

\* Stitching, with or without a continuation.
LEMMA StitchKeepsStitched ==
  ASSUME BaseInv, StitchInv, StitchNext \/ StitchNot
  PROVE  StitchInv'
<1> DEFINE u == Head(rest)
<1>1. pass = "stitch" /\ rest # <<>>
  BY DEF StitchNext, StitchNot, Continues, Visit
<1>2. /\ Known(source, u) /\ u \in ToSet(rest) /\ ToSet(rest) = {u} \cup ToSet(Tail(rest))
      /\ \A s \in ToSet(Tail(rest)) : u.id < s.id
      /\ Untouched(source, u) /\ WellFormed(source)
  BY <1>1, HeadOfRest DEF StitchInv, BaseInv
<1>3. /\ u.id \in DOMAIN source.siblings /\ DOMAIN source.siblings \subseteq Nat
      /\ \A c \in u.cells : c.of = u.id
      /\ \A s \in ToSet(rest) : s.id \in Nat
  <2>1. DOMAIN source.siblings \subseteq Nat
    BY <1>2, SourceIsKnown, ListHas
  <2> QED BY <1>2, <2>1, SiblingIs DEF Known, Untouched, BaseInv
<1>4. CASE StitchNext
  <2> DEFINE t == Last(done)
             data == DataCells(u.cells)
             v == t.cells \cup MovedBelow(data, Top(data), Height(t.cells))
             new == [t EXCEPT !.cells = v]
  <2>1. Rebuilt(Front(done), Tail(rest), new)
    <3>1. new = MergeTables(t, u)
      BY DEF MergeTables
    <3> HIDE DEF new
    <3> QED BY <1>4, <3>1, StitchNextIs
  <2>2. /\ done # <<>> /\ u.type = "table" /\ Width(t.cells) = Width(u.cells)
    BY <1>4 DEF StitchNext, Continues, IsContinuation
  <2>3. /\ Known(source, t) /\ t \in ToSet(done)
        /\ ToSet(done) = ToSet(Front(done)) \cup {t}
    BY <2>2, LastOfDone
  <2>4. Stacked(t) /\ WellMade(source, t) /\ \A c \in t.cells : c.of < u.id
    BY <1>1, <1>2, <2>3 DEF StitchInv
  <2>5. new.id = t.id /\ new.cells = v
    <3> HIDE DEF v, t
    <3> QED BY <2>3 DEF Known, SiblingFields
  <2> HIDE DEF new
  <2>6. /\ Stacked(new) /\ WellMade(source, new)
        /\ \A c \in new.cells : c.of < u.id \/ c.of = u.id
        /\ \A f : Holds(t, f) => Holds(new, f)
        /\ \A f \in ToSet(source.siblings) : DataCells(f.cells) # {} /\ Holds(u, f) => Holds(new, f)
    <3> HIDE DEF t, u
    <3> QED BY <1>2, <2>2, <2>3, <2>4, <2>5, MergedKeeps
  <2>7. ASSUME NEW c \in new.cells, NEW s \in ToSet(Tail(rest)) PROVE c.of < s.id
    <3>1. u.id < s.id /\ s.id \in Nat /\ u.id \in Nat
      BY <1>2, <1>3
    <3>2. c.of \in Nat
      <4>1. Known(source, new)
        BY <2>1 DEF Rebuilt
      <4> QED BY <1>3, <4>1 DEF Known, GridOf, InGrid
    <3> QED BY <2>6, <3>1, <3>2
  <2>8. \A s \in (ToSet(done) \cup ToSet(rest)) \ (ToSet(Front(done)) \cup ToSet(Tail(rest))) :
          s = t \/ s = u
    BY <1>2, <2>3
  <2> HIDE DEF t, u
  <2> QED BY <1>1, <2>1, <2>6, <2>7, <2>8, RebuiltStitched
<1>5. CASE StitchNot
  <2>1. Rebuilt(done, Tail(rest), u)
    BY <1>5, StitchNotIs
  <2>2. Stacked(u) /\ WellMade(source, u)
    BY <1>2 DEF StitchInv
  <2>3. \A c \in u.cells : \A s \in ToSet(Tail(rest)) : c.of < s.id
    BY <1>2, <1>3
  <2>4. \A s \in (ToSet(done) \cup ToSet(rest)) \ (ToSet(done) \cup ToSet(Tail(rest))) : s = u
    BY <1>2
  <2> HIDE DEF u
  <2> QED BY <1>1, <2>1, <2>2, <2>3, <2>4, RebuiltStitched
<1> QED BY <1>4, <1>5

LEMMA ContinuationKeepsStitched ==
  ASSUME BaseInv, StitchInv, CheckContinuation
  PROVE  StitchInv'
<1> DEFINE u == Head(rest)
<1>1. /\ pass = "continuation" /\ rest # <<>> /\ rest' = Tail(rest)
      /\ pass' = pass /\ source' = source
  BY CheckContinuationIs
<1>2. PICK old, new :
        /\ IsList(old) /\ Len(old) = Len(done) /\ done' = Append(old, new)
        /\ \A i \in 1 .. Len(done) : SamePart(old[i], done[i])
        /\ SamePart(new, u)
  BY CheckContinuationIs
<1>3. /\ ToSet(rest) = {u} \cup ToSet(Tail(rest))
      /\ ToSet(done') = ToSet(old) \cup {new} /\ IsList(done)
  BY <1>1, <1>2, HeadOfRest, Appended DEF BaseInv
<1>4. /\ \A n \in ToSet(old) : \E s \in ToSet(done) : SamePart(n, s)
      /\ \A s \in ToSet(done) : \E n \in ToSet(old) : SamePart(n, s)
  BY <1>2, <1>3, ListHas
<1>5. /\ \A n \in ToSet(done') \cup ToSet(rest') : \E s \in ToSet(done) \cup ToSet(rest) :
           SamePart(n, s)
      /\ \A s \in ToSet(done) \cup ToSet(rest) : \E n \in ToSet(done') \cup ToSet(rest') :
           SamePart(n, s)
  <2>1. \A s : SamePart(s, s)
    BY DEF SamePart
  <2> QED BY <1>1, <1>2, <1>3, <1>4, <2>1
<1>6. ASSUME NEW n \in ToSet(done') \cup ToSet(rest')
      PROVE  Stacked(n) /\ WellMade(source', n)
  <2>1. PICK s \in ToSet(done) \cup ToSet(rest) : SamePart(n, s)
    BY <1>5
  <2> QED BY <1>1, <2>1, CarriedOn DEF SamePart, StitchInv
<1>7. ASSUME NEW t \in ToSet(source'.siblings), DataCells(t.cells) # {}
      PROVE  \E n \in ToSet(done') \cup ToSet(rest') : Holds(n, t)
  <2>1. PICK s \in ToSet(done) \cup ToSet(rest) : Holds(s, t)
    BY <1>1, <1>7 DEF StitchInv
  <2>2. PICK n \in ToSet(done') \cup ToSet(rest') : SamePart(n, s)
    BY <1>5
  <2> QED BY <2>1, <2>2, CarriedOn DEF SamePart
<1> QED BY <1>1, <1>6, <1>7 DEF StitchInv

\* Every step keeps the rows where they belong.
LEMMA StitchSteps ==
  ASSUME BaseInv, StitchInv, [Next]_vars
  PROVE  StitchInv'
<1>1. CASE UNCHANGED vars
  BY <1>1 DEF vars, StitchInv
<1>2. CASE Finish
  <2>1. /\ pass' = After(pass) /\ rest' = done /\ source' = source
        /\ ToSet(done') = {} /\ ToSet(rest) = {}
    BY <1>2, FinishIs
  <2>2. pass' # "captions" /\ (pass' = "stitch" => pass = "captions")
    BY <1>2, <2>1, FinishIs, PassesAre
  <2> QED BY <2>1, <2>2 DEF StitchInv
<1>3. CASE AttachBack \/ AttachForward \/ KeepSibling
  BY <1>3, AttachKeepsStitched
<1>4. CASE StitchNext \/ StitchNot
  BY <1>4, StitchKeepsStitched
<1>5. CASE AssignHeaderPaths
  BY <1>5, HeadersKeepStitched
<1>6. CASE FlagNestedTable \/ CheckGeometry \/ CheckRectangularity
  BY <1>6, JudgementKeepsStitched
<1>7. CASE CheckContinuation
  BY <1>7, ContinuationKeepsStitched
<1> QED BY <1>1, <1>2, <1>3, <1>4, <1>5, <1>6, <1>7 DEF Next

\* So they are there at the end.
LEMMA StitchInvariant == Spec => []StitchInv
<1>1. ASSUME Init PROVE StitchInv
  <2>1. WellFormed(source) /\ rest = source.siblings /\ done = <<>> /\ pass = "captions"
    BY <1>1, TableAssumption DEF Init
  <2>2. ToSet(done) = {} /\ ToSet(rest) = ToSet(source.siblings)
    BY <2>1 DEF ToSet
  <2>3. ASSUME NEW s \in ToSet(source.siblings)
        PROVE  /\ Stacked(s) /\ WellMade(source, s) /\ Untouched(source, s)
               /\ DataCells(s.cells) # {} => Holds(s, s)
    <3>1. PICK i \in DOMAIN source.siblings : s = source.siblings[i]
      BY DEF ToSet
    <3>2. i \in Nat
      BY <2>1, SourceIsKnown, ListHas
    <3>3. /\ s.id = i /\ (s.type # "table" => s.cells = {})
          /\ \A c \in s.cells : InGrid(source, c) /\ c.of = i
      BY <2>1, <3>1, SiblingIs
    <3>4. GridOf(source, s.cells)
      BY <2>1, SourceIsKnown DEF Known
    <3>5. Stacked(s)
      BY <3>2, <3>3 DEF Stacked
    <3>6. Untouched(source, s)
      BY <3>1, <3>3 DEF Untouched
    <3>7. WellMade(source, s)
      <4>1. CASE s.type = "table"
        <5>1. s \in Parts(source, s)
          BY <4>1 DEF Parts
        <5>2. HeadedOnTop(s.cells) => Whole(s.cells)
          BY <3>4, CoverageIs DEF HeadedOnTop
        <5> QED BY <5>1, <5>2 DEF WellMade
      <4>2. CASE s.type # "table"
        <5>1. s.cells = {} /\ Height(s.cells) = 0
          BY <3>3, <3>4, <4>2, GridSize
        <5>2. \A k \in Nat : ~(k < 0)
          OBVIOUS
        <5> QED BY <5>1, <5>2 DEF WellMade, Whole
      <4> QED BY <4>1, <4>2
    <3>8. Holds(s, s)
      <4>1. ASSUME NEW e \in DataCells(s.cells)
            PROVE  \E m \in s.cells : m.of = s.id /\ SamePlace(m, e, 0)
        <5>1. e \in s.cells /\ e.of = s.id /\ e.row \in Nat
          BY <3>3 DEF DataCells, InGrid
        <5>2. SamePlace(e, e, 0)
          BY <5>1 DEF SamePlace
        <5> QED BY <5>1, <5>2
      <4> QED BY <4>1 DEF Holds
    <3> QED BY <3>5, <3>6, <3>7, <3>8
  <2> QED BY <2>1, <2>2, <2>3 DEF StitchInv
<1> QED BY <1>1, BaseInvariant, StitchSteps, PTL DEF Spec

\* No row of data is lost or torn from its table, and the rows of a later
\* fragment stand below those of an earlier one (continuity.py, _merge_tables).
THEOREM DataIsKept == Spec => []DataKept
<1>1. ASSUME BaseInv, StitchInv PROVE DataKept
  <2> DEFINE final == UNION {u.cells : u \in ToSet(Final)}
             Place(c, shift) == <<c.row + shift, c.col, c.rowspan, c.colspan, c.text>>
  <2>1. \A u \in ToSet(Final) : u \in ToSet(rest)
    <3>1. ToSet(<<>>) = {}
      BY DEF ToSet
    <3> QED BY <3>1 DEF Final
  <2>2. \A u \in ToSet(Final) : \A c, e \in u.cells : c.of < e.of => c.row + c.rowspan <= e.row
    BY <1>1, <2>1 DEF StitchInv, Stacked
  <2>3. ASSUME pass = "end", NEW t \in Found, DataCells(t.cells) # {}
        PROVE  \E c \in {k \in final : k.of = t.id}, e \in DataCells(t.cells) :
                 {Place(b, c.row - e.row) : b \in DataCells(t.cells)}
                   \subseteq {Place(b, 0) : b \in {k \in final : k.of = t.id}}
    <3> DEFINE data == DataCells(t.cells)
               came == {k \in final : k.of = t.id}
    <3>1. Final = rest /\ ToSet(done) = {} /\ t \in ToSet(source.siblings)
      BY <1>1, <2>3 DEF Final, BaseInv, ToSet, Found
    <3>2. PICK s \in ToSet(rest) : Holds(s, t)
      BY <1>1, <2>3, <3>1 DEF StitchInv
    <3>3. PICK shift \in Int : \A e \in data :
            \E m \in s.cells : m.of = t.id /\ SamePlace(m, e, shift)
      BY <3>2 DEF Holds
    <3>4. \A m \in s.cells : m.of = t.id => m \in came
      BY <3>1
    <3>5. /\ \A e \in data : e.row \in Nat
          /\ \A m \in came : m.row \in Nat
      <4>1. Known(source, t)
        BY <1>1, <3>1, SourceIsKnown DEF BaseInv
      <4>2. \A u \in ToSet(rest) : Known(source, u)
        BY <1>1 DEF BaseInv
      <4> QED BY <3>1, <4>1, <4>2 DEF Known, GridOf, InGrid, DataCells
    <3> HIDE DEF came, final
    <3>6. PICK e \in data : TRUE
      BY <2>3
    <3>7. PICK c \in came : SamePlace(c, e, shift)
      BY <3>3, <3>4
    <3>8. c.row - e.row = shift
      BY <3>5, <3>7 DEF SamePlace
    <3>9. ASSUME NEW b \in data
          PROVE  Place(b, c.row - e.row) \in {Place(k, 0) : k \in came}
      <4>1. PICK m \in came : SamePlace(m, b, shift)
        BY <3>3, <3>4
      <4>2. Place(m, 0) = Place(b, shift)
        BY <3>5, <4>1 DEF SamePlace
      <4> QED BY <3>8, <4>2
    <3> QED BY <3>9 DEF came
  <2> HIDE DEF final
  <2> QED BY <2>2, <2>3 DEF DataKept, final
<1> QED BY <1>1, BaseInvariant, StitchInvariant, PTL

\* Whole fragments that start with their header make a whole table: the gate
\* on rectangularity does not blame Docling for what stitching did.
THEOREM StitchedTablesAreRectangular == Spec => []StitchedIsRectangular
<1>1. ASSUME BaseInv, StitchInv PROVE StitchedIsRectangular
  <2> SUFFICES ASSUME NEW u \in ToSet(Final), \A t \in MadeOf(u) : HeadedOnTop(t.cells)
               PROVE  CoverageOk(u.cells)
    BY DEF StitchedIsRectangular
  <2>1. u \in ToSet(rest)
    <3>1. ToSet(<<>>) = {}
      BY DEF ToSet
    <3> QED BY <3>1 DEF Final
  <2>2. WellMade(source, u) /\ GridOf(source, u.cells)
    BY <1>1, <2>1 DEF StitchInv, BaseInv, Known
  <2>3. MadeOf(u) = Parts(source, u)
    BY DEF MadeOf, Parts, Found
  <2>4. Whole(u.cells)
    BY <2>2, <2>3 DEF WellMade
  <2> QED BY <2>2, <2>4, CoverageIs
<1> QED BY <1>1, BaseInvariant, StitchInvariant, PTL
=============================================================================
