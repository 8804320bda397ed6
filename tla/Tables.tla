------------------------------- MODULE Tables -------------------------------
(***************************************************************************)
(* The tables of one list of siblings on their way through assemble.py:    *)
(* captions are attached, fragments of a table that spans pages stitched,  *)
(* cells given the headers above them, grids compared with the ruling      *)
(* lines pdfplumber sees, and two gates run (caption_attach.py,            *)
(* continuity.py, nested_table.py, table_geometry.py, gates/).  Every pass *)
(* walks the list once: rest is still to be visited, done is what the pass *)
(* has built so far.                                                       *)
(***************************************************************************)
EXTENDS Integers, Sequences, FiniteSets, SequencesExt

CONSTANTS
  Documents,     \* siblings as Docling gives them, grids as they are ruled
  Norm,          \* the normal form of a cell's text (NFC, case, white space)
  Blank,         \* the text of an empty cell
  LimitTexts,    \* headers with a limit keyword
  MiniGrids,     \* texts that look like a grid packed into one cell
  NoGrid, NoId

VARIABLES pass, rest, done, prev, source

vars == <<pass, rest, done, prev, source>>

Passes == <<"captions", "stitch", "headers", "nested", "geometry", "rectangularity",
            "continuation", "end">>

\* A sibling: its captions in order, the cells of a table (none for the
\* others), and what the passes say of it.  A cell knows the table Docling
\* found it in (the code keeps that table's page), and identifiers count the
\* siblings of the source.
Sibling(type, id, page, cells) ==
  [type |-> type, id |-> id, page |-> page, cells |-> cells, captions |-> <<>>,
   consensus |-> "unanimous", review |-> {}, continues_to |-> NoId, continues_from |-> NoId]

\* Docling numbers rows and columns from 0, and a cell covers one of each at
\* least (extract_docling.py, _table_cells); nothing has been said of a sibling.
WellFormed(d) ==
  /\ d.siblings \in Seq(ToSet(d.siblings)) /\ DOMAIN d.ruled = DOMAIN d.siblings
  /\ \A i \in DOMAIN d.siblings :
       LET s == d.siblings[i]
       IN  /\ [s EXCEPT !.captions = <<>>] = Sibling(s.type, i, s.page, s.cells)
           /\ s.type # "table" => s.cells = {}
           /\ IsFiniteSet(s.cells)
           /\ \A c \in s.cells :
                /\ {c.row, c.col, c.rowspan, c.colspan} \subseteq Nat
                /\ c.rowspan > 0 /\ c.colspan > 0
                /\ c = [row |-> c.row, col |-> c.col, rowspan |-> c.rowspan,
                       colspan |-> c.colspan, is_column_header |-> c.is_column_header,
                       text |-> c.text, header_path |-> {}, of |-> i]

ASSUME TableAssumption ==
  /\ NoId \notin Nat /\ NoGrid \notin Nat \X Nat /\ Blank \notin LimitTexts
  /\ \A d \in Documents : WellFormed(d)

Init ==
  /\ source \in Documents
  /\ pass = "captions" /\ rest = source.siblings /\ done = <<>> /\ prev = 0

After(p) == Passes[1 + CHOOSE i \in DOMAIN Passes : Passes[i] = p]

Finish ==
  /\ pass # "end" /\ rest = <<>>
  /\ pass' = After(pass) /\ rest' = done /\ done' = <<>> /\ prev' = 0
  /\ UNCHANGED source

\* One node of the list is visited by a pass that looks at nothing else.
Visit(p, new) ==
  /\ pass = p /\ rest # <<>>
  /\ rest' = Tail(rest) /\ done' = Append(done, new)
  /\ UNCHANGED <<pass, prev, source>>

---------------------------------------------------------------------------
\* A caption next to exactly one table of its page becomes that table's child.
Attachable(caption, s) == s.type \in {"table", "figure"} /\ s.page = caption.page
AfterTable == done # <<>> /\ Attachable(Head(rest), Last(done))
BeforeTable == Len(rest) > 1 /\ Attachable(Head(rest), rest[2])

AttachBack ==
  /\ pass = "captions" /\ rest # <<>> /\ Head(rest).type = "caption"
  /\ AfterTable /\ ~BeforeTable
  /\ done' = Append(Front(done), [Last(done) EXCEPT !.captions = Append(@, Head(rest).id)])
  /\ rest' = Tail(rest)
  /\ UNCHANGED <<pass, prev, source>>

AttachForward ==
  /\ pass = "captions" /\ rest # <<>> /\ Head(rest).type = "caption"
  /\ BeforeTable /\ ~AfterTable
  /\ done' = Append(done, [rest[2] EXCEPT !.captions = <<Head(rest).id>> \o @])
  /\ rest' = Tail(Tail(rest))
  /\ UNCHANGED <<pass, prev, source>>

KeepSibling ==
  /\ rest # <<>> /\ Head(rest).type = "caption" => AfterTable = BeforeTable
  /\ Visit("captions", Head(rest))

---------------------------------------------------------------------------
Height(cells) == Max({0} \cup {c.row + c.rowspan : c \in cells})
Width(cells) == Max({0} \cup {c.col + c.colspan : c \in cells})
Top(cells) == Min({c.row : c \in cells})

HeaderRows(cells) ==
  LET flagged == {c.row : c \in {d \in cells : d.is_column_header}}
  IN  IF flagged # {} THEN flagged ELSE {0}
InHeader(cells) == {c \in cells : c.row \in HeaderRows(cells)}
DataCells(cells) == cells \ InHeader(cells)

\* The normalised texts of cells in an order that tells any two of them apart.
Texts(cells, Precedes(_, _)) ==
  [i \in 1 .. Cardinality(cells) |->
     Norm[(CHOOSE c \in cells : Cardinality({d \in cells : Precedes(d, c)}) = i - 1).text]]
RowMajor(c, d) == c.row < d.row \/ (c.row = d.row /\ c.col < d.col)
ColumnMajor(c, d) == c.col < d.col \/ (c.col = d.col /\ c.row < d.row)
RowSignature(cells) == Texts(InHeader(cells), RowMajor)

IsContinuation(t, u) ==
  /\ t.cells # {} /\ u.cells # {}
  /\ Width(t.cells) = Width(u.cells)
  /\ RowSignature(t.cells) # <<>> /\ RowSignature(t.cells) = RowSignature(u.cells)

\* Mutation: offsets the wrong way round.
MovedAbove(cells, top, bottom) ==
  {[c EXCEPT !.row = @ - bottom + top] : c \in cells}

\* The cells, which start at row top, moved down to row bottom.
MovedBelow(cells, top, bottom) ==
  {[c EXCEPT !.row = @ - top + bottom] : c \in cells}

\* Mutation: the last row's spans are not counted.
MergeTablesShort(t, u) ==
  LET data == DataCells(u.cells)
      next_row == 1 + Max({c.row : c \in t.cells})
  IN  [t EXCEPT !.cells = @ \cup MovedBelow(data, Top(data), next_row)]

\* Mutation: as many rows are dropped from the top as there are header rows.
MergeTablesTop(t, u) ==
  LET data == {c \in u.cells : c.row >= Cardinality(HeaderRows(u.cells))}
  IN  [t EXCEPT !.cells = @ \cup MovedBelow(data, Top(data), Height(t.cells))]

\* The data rows of u go below t's; u itself, and what hangs under it, is gone.
MergeTables(t, u) ==
  LET data == DataCells(u.cells)
  IN  [t EXCEPT !.cells = @ \cup MovedBelow(data, Top(data), Height(t.cells))]

Continues ==
  /\ rest # <<>> /\ done # <<>>
  /\ Head(rest).type = "table" /\ Last(done).type = "table"
  /\ IsContinuation(Last(done), Head(rest))

StitchNext ==
  /\ pass = "stitch" /\ Continues
  /\ done' = Append(Front(done), MergeTables(Last(done), Head(rest)))
  /\ rest' = Tail(rest)
  /\ UNCHANGED <<pass, prev, source>>

StitchNot == ~Continues /\ Visit("stitch", Head(rest))

\* Mutation: a header stands over its first column only.
CoversFirst(c, col) == c.col = col

CoversCol(c, col) == c.col <= col /\ col < c.col + c.colspan

ColumnHeaderPath(cells, col) ==
  {c.text : c \in {d \in InHeader(cells) : CoversCol(d, col) /\ d.text # Blank}}

AssignHeaderPaths ==
  rest # <<>> /\ Visit("headers",
    LET t == Head(rest)
    IN  [t EXCEPT !.cells =
           InHeader(@) \cup {[c EXCEPT !.header_path = ColumnHeaderPath(t.cells, c.col)]
                               : c \in DataCells(@)}])

Reviewed(s, reason) == [s EXCEPT !.review = @ \cup {reason}]
Quarantined(s, reason) == [Reviewed(s, reason) EXCEPT !.consensus = "quarantined"]

FlagNestedTable ==
  rest # <<>> /\ Visit("nested",
    IF \E c \in Head(rest).cells : c.text \in MiniGrids
    THEN Reviewed(Head(rest), "possible_nested_table") ELSE Head(rest))

---------------------------------------------------------------------------
\* Mutation: a cell is counted by its first row.
DoclingGridShort(cells) == <<1 + Max({c.row : c \in cells}), Width(cells)>>

DoclingGrid(cells) == <<Height(cells), Width(cells)>>

\* The grids pdfplumber finds on a page, whichever table they belong to.
PageTableGrids(page) ==
  {source.ruled[i] : i \in {j \in DOMAIN source.ruled : source.siblings[j].page = page}} \ {NoGrid}

\* Mutation: without ruling lines the word clusters vote.
ReconciledBorderless(t, grids, pymupdf_agrees) ==
  IF grids = {} /\ pymupdf_agrees THEN t
  ELSE IF DoclingGrid(t.cells) \notin grids THEN Quarantined(t, "table_geometry_disagreement")
  ELSE IF pymupdf_agrees THEN t
  ELSE [Reviewed(t, "table_geometry_corroborator_differs") EXCEPT !.consensus = "majority"]

\* Docling and pdfplumber vote, PyMuPDF's word clusters are only noted.
Reconciled(t, grids, pymupdf_agrees) ==
  IF DoclingGrid(t.cells) \notin grids THEN Quarantined(t, "table_geometry_disagreement")
  ELSE IF pymupdf_agrees THEN t
  ELSE [Reviewed(t, "table_geometry_corroborator_differs") EXCEPT !.consensus = "majority"]

\* The grid closest to Docling's stands for this table's: what counts is
\* whether some grid of the page has the same size.  Docling read the page from
\* the same file, so it is one of the file's pages: a table on no page of the
\* file, which the code lets pass, is not among the documents.
CheckGeometry ==
  /\ rest # <<>>
  /\ \E pymupdf_agrees \in BOOLEAN :
       Visit("geometry",
         LET t == Head(rest)
         IN  IF t.cells = {} \/ t.consensus = "quarantined" THEN t
             ELSE Reconciled(t, PageTableGrids(t.page), pymupdf_agrees))

Footprint(c) == (c.row .. c.row + c.rowspan - 1) \X (c.col .. c.col + c.colspan - 1)
CoverageOk(cells) ==
  /\ \A c, d \in cells : c # d => Footprint(c) \cap Footprint(d) = {}
  /\ (0 .. Height(cells) - 1) \X (0 .. Width(cells) - 1)
       \subseteq UNION {Footprint(c) : c \in cells}

MandatoryColumnOk(cells) ==
  \A c \in DataCells(cells) : c.header_path \cap LimitTexts # {} => c.text # Blank

CheckRectangularity ==
  rest # <<>> /\ Visit("rectangularity",
    LET t == Head(rest)
    IN  IF t.cells = {} \/ (CoverageOk(t.cells) /\ MandatoryColumnOk(t.cells)) THEN t
        ELSE Quarantined(t, "gate_table_rectangularity"))

Flagged(t) == {c \in t.cells : c.is_column_header}
HeaderCells(t) == IF Flagged(t) # {} THEN Flagged(t) ELSE {c \in t.cells : c.row = 0}
HeaderSignature(t) == Texts(HeaderCells(t), ColumnMajor)

SameHeader(t, u) == HeaderSignature(t) = HeaderSignature(u)
PartlySame(t, u) ==
  /\ ~SameHeader(t, u)
  /\ \E i \in DOMAIN HeaderSignature(t) \cap DOMAIN HeaderSignature(u) :
       HeaderSignature(t)[i] = HeaderSignature(u)[i]
Linked(t, u) == t.continues_to # NoId \/ u.continues_from # NoId

\* What the gate makes of a table and the one before it.
Judged(t, u) ==
  IF SameHeader(t, u) /\ ~Linked(t, u)
  THEN <<[t EXCEPT !.continues_to = u.id], [u EXCEPT !.continues_from = t.id]>>
  ELSE IF PartlySame(t, u) /\ Flagged(t) # {} /\ Flagged(u) # {}
  THEN <<Quarantined(t, "gate_continuation"), Quarantined(u, "gate_continuation")>>
  ELSE <<t, u>>

\* Mutation: every table is compared with the first one.
ContinuationFromFirst ==
  /\ pass = "continuation" /\ rest # <<>>
  /\ LET u == Head(rest)
         pair == IF prev # 0 /\ HeaderCells(u) # {} THEN Judged(done[prev], u) ELSE <<u, u>>
     IN  /\ done' = Append(IF prev = 0 THEN done ELSE [done EXCEPT ![prev] = pair[1]], pair[2])
         /\ prev' = IF prev = 0 /\ HeaderCells(u) # {} THEN Len(done) + 1 ELSE prev
  /\ rest' = Tail(rest)
  /\ UNCHANGED <<pass, source>>

CheckContinuation ==
  /\ pass = "continuation" /\ rest # <<>>
  /\ LET u == Head(rest)
     IN  IF HeaderCells(u) = {} THEN done' = Append(done, u) /\ UNCHANGED prev
         ELSE /\ prev' = Len(done) + 1
              /\ done' = IF prev = 0 THEN Append(done, u)
                         ELSE LET pair == Judged(done[prev], u)
                              IN  Append([done EXCEPT ![prev] = pair[1]], pair[2])
  /\ rest' = Tail(rest)
  /\ UNCHANGED <<pass, source>>

Next ==
  \/ Finish \/ AttachBack \/ AttachForward \/ KeepSibling \/ StitchNext \/ StitchNot
  \/ AssignHeaderPaths \/ FlagNestedTable \/ CheckGeometry \/ CheckRectangularity
  \/ CheckContinuation

Spec == Init /\ [][Next]_vars

---------------------------------------------------------------------------
Found == ToSet(source.siblings)
Final == IF pass = "end" THEN rest ELSE <<>>

\* The tables Docling found that a final table is made of.
MadeOf(u) == {t \in Found : t.type = "table" /\ (t.id = u.id \/ \E c \in u.cells : c.of = t.id)}

\* Every sibling is visited once, and a table's cells lie in its grid
\* (canonical_schema.py, Node and Cell).
TypeOK ==
  /\ pass \in ToSet(Passes) /\ prev \in 0 .. Len(done)
  /\ \A s \in ToSet(done \o rest) :
       /\ s.consensus \in {"unanimous", "majority", "quarantined"}
       /\ s.type # "table" => s.cells = {}
       /\ \A c \in s.cells : c.row \in Nat /\ c.col \in Nat /\ c.of \in DOMAIN source.siblings
  /\ Len(done) + Len(rest) <= Len(source.siblings)

\* No row of data is lost, torn apart or moved before another table's when
\* fragments are stitched (continuity.py: a table split over pages would
\* otherwise read as one table removed and one added).
DataKept ==
  LET final == UNION {u.cells : u \in ToSet(Final)}
      Place(c, shift) == <<c.row + shift, c.col, c.rowspan, c.colspan, c.text>>
  IN  /\ pass = "end" => \A t \in Found :
           LET data == DataCells(t.cells)
               came == {c \in final : c.of = t.id}
           IN  data = {} \/ \E c \in came, d \in data :
                 {Place(e, c.row - d.row) : e \in data} \subseteq {Place(e, 0) : e \in came}
      /\ \A u \in ToSet(Final) : \A c, d \in u.cells : c.of < d.of => c.row + c.rowspan <= d.row

\* Stitching whole fragments gives a whole table: no hole and no overlap
\* between the parts, of which the rectangularity gate would accuse Docling.
HeadedOnTop(cells) ==
  LET header == InHeader(cells)
  IN  CoverageOk(cells) /\ HeaderRows(cells) = 0 .. Height(header) - 1
StitchedIsRectangular ==
  \A u \in ToSet(Final) : (\A t \in MadeOf(u) : HeadedOnTop(t.cells)) => CoverageOk(u.cells)

\* An admitted table has no hole where a limit should be, also below a header
\* that spans columns, in a second header row, or on the page before.
AdmittedLimitIsFilled ==
  \A u \in ToSet(Final) : u.consensus # "quarantined" =>
    \A c \in DataCells(u.cells), h \in InHeader(u.cells) :
      h.text \in LimitTexts /\ c.col \in h.col .. h.col + h.colspan - 1 => c.text # Blank

\* Two tables in a row that share a header are linked both ways, two that
\* share part of one both go to review, and nothing else is linked
\* (gates/continuation.py, whatever stands between the two).
ContinuationsResolved ==
  \A i, j \in DOMAIN Final :
    LET t == Final[i]
        u == Final[j]
        inARow == /\ i < j /\ HeaderCells(t) # {} /\ HeaderCells(u) # {}
                  /\ \A k \in i + 1 .. j - 1 : HeaderCells(Final[k]) = {}
    IN  /\ inARow /\ SameHeader(t, u)
             <=> t.continues_to = u.id
        /\ t.continues_to = u.id <=> u.continues_from = t.id
        /\ inARow /\ PartlySame(t, u) /\ Flagged(t) # {} /\ Flagged(u) # {}
             => t.consensus = "quarantined" /\ u.consensus = "quarantined"

\* A sound table that is ruled as Docling reads it is not sent to review for
\* nothing: whole, no limit missing, no half-matching neighbour.
Size(cells) ==
  LET covered == UNION {Footprint(c) : c \in cells}
  IN  <<Cardinality({p[1] : p \in covered}), Cardinality({p[2] : p \in covered})>>
SoundTableAdmitted ==
  \A u \in ToSet(Final) :
    /\ u.type = "table" /\ u.cells # {} /\ Cardinality(MadeOf(u)) = 1
    /\ CoverageOk(u.cells) /\ source.ruled[u.id] = Size(u.cells)
    /\ \A c \in u.cells : c.text # Blank
    /\ \A v \in ToSet(Final) : ~PartlySame(u, v) /\ ~PartlySame(v, u)
    => u.consensus # "quarantined"

\* A table is admitted only if pdfplumber found a ruled grid of its size on its
\* page (assemble.py:570, "Docling + pdfplumber geometry must agree or the table
\* quarantines"), although the comparison comes after captions were attached
\* and fragments stitched.  Whose ruling lines these are, nobody asks.
CollapseIsCaught ==
  \A u \in ToSet(Final) :
    /\ u.type = "table" /\ u.cells # {} /\ Cardinality(MadeOf(u)) = 1
    /\ \A t \in Found : t.page = u.page => source.ruled[t.id] # Size(u.cells)
    => u.consensus = "quarantined"

\* extract_docling.py:426, "never silently lost": every caption is in the
\* finished document, under a table or beside it.
CaptionsSurvive ==
  pass = "end" => \A t \in Found : t.type = "caption" =>
    \E u \in ToSet(Final) : u.id = t.id \/ t.id \in ToSet(u.captions)
=============================================================================
