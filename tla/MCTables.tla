------------------------------ MODULE MCTables ------------------------------
(* Three siblings on two pages: tables of two columns, captions, text; and *)
(* bodies of four items, among headings of three levels or among captions. *)
EXTENDS Extraction

CONSTANT MaxSiblings

MCNorm == [t \in {"Freq", "Limit", "LIMIT", "Unit", "30", "30 40 / 50 60", Blank} |->
             IF t = "LIMIT" THEN "Limit" ELSE t]

Cell(row, col, rowspan, colspan, header, text) ==
  [row |-> row, col |-> col, rowspan |-> rowspan, colspan |-> colspan,
   is_column_header |-> header, text |-> text, header_path |-> {}]
Row(row, header, a, b) == {Cell(row, 0, 1, 1, header, a), Cell(row, 1, 1, 1, header, b)}
Limits == Row(0, TRUE, "Freq", "Limit")

Plain == Limits \cup Row(1, FALSE, "30", "30")
HoleInLimit == Row(0, TRUE, "Freq", "LIMIT") \cup Row(1, FALSE, "30", Blank)
OtherColumn == Row(0, TRUE, "Freq", "Unit") \cup Row(1, FALSE, "30", "30")
Unflagged == Row(0, FALSE, "Freq", "Limit") \cup Row(1, FALSE, "30", "30")
SpanningHeader ==
  {Cell(0, 0, 1, 2, TRUE, "Limit")} \cup Row(1, TRUE, "Freq", "Unit") \cup Row(2, FALSE, "30", Blank)
TallRow == Limits \cup {Cell(1, 0, 2, 1, FALSE, "30"), Cell(1, 1, 2, 1, FALSE, "30")}
DroppedCell == Limits \cup {Cell(1, 0, 1, 1, FALSE, "30 40 / 50 60")}
Subheader == Limits \cup Row(1, FALSE, "30", "30") \cup Row(2, TRUE, "Unit", "Unit")
               \cup Row(3, FALSE, "30", "30")

\* A kind of sibling: its type, its cells, and the grid that is ruled there.
Kind(type, cells, ruled) == [type |-> type, cells |-> cells, ruled |-> ruled]
Kinds ==
  {Kind("caption", {}, NoGrid), Kind("paragraph", {}, NoGrid), Kind("table", {}, <<2, 2>>),
   Kind("table", Plain, <<2, 2>>), Kind("table", Plain, <<3, 2>>), Kind("table", Plain, NoGrid),
   Kind("table", HoleInLimit, <<2, 2>>), Kind("table", OtherColumn, <<2, 2>>),
   Kind("table", Unflagged, <<2, 2>>), Kind("table", SpanningHeader, <<3, 2>>),
   Kind("table", TallRow, <<3, 2>>), Kind("table", DroppedCell, <<2, 2>>),
   Kind("table", Subheader, <<4, 2>>)}

MCDocuments ==
  {[siblings |-> [i \in 1 .. MaxSiblings |->
      Sibling(kinds[i].type, i, IF i <= turn THEN 1 ELSE 2,
              {[row |-> c.row, col |-> c.col, rowspan |-> c.rowspan, colspan |-> c.colspan,
                is_column_header |-> c.is_column_header, text |-> c.text,
                header_path |-> {}, of |-> i] : c \in kinds[i].cells})],
    ruled |-> [i \in 1 .. MaxSiblings |-> kinds[i].ruled]]
   : kinds \in [1 .. MaxSiblings -> Kinds], turn \in 1 .. MaxSiblings}

MCCellsOf(k) == {[row |-> c.row, col |-> c.col, rowspan |-> 1, colspan |-> 1,
                  is_column_header |-> c.is_column_header, text |-> c.text,
                  header_path |-> {}, of |-> k] : c \in Plain}
MCRuledOf(k) == <<2, 2>>

Heading(level) == [label |-> "heading", level |-> level, located |-> TRUE]
There(label) == [label |-> label, level |-> 1, located |-> TRUE]
Outline == {Heading(level) : level \in 1 .. 3} \cup {There(l) : l \in {"text", "list_item", "group"}}
Captioned == {There(l) : l \in {"table", "caption", "group", "heading", "unmapped", "caption_heading"}}
               \cup {[There("list_item") EXCEPT !.located = FALSE]}
MCVocabularies == {Outline, Captioned}
NoVocabularies == {}

\* Captions behind and before who claims them, claimed by the second of two
\* tables or by both of them, or two claimed by one.
Claiming(claims) ==
  [i \in 1 .. MaxItems |-> IF i \in DOMAIN claims THEN claims[i] ELSE <<>>]
MCClaims ==
  {Claiming(claims) : claims \in
     {<<>>, <<<<2>>>>, <<<<>>, <<1>>>>, <<<<3>>, <<4>>>>, <<<<3>>, <<3>>>>,
      <<<<2>>, <<>>, <<4>>>>, <<<<>>, <<>>, <<2, 1>>>>}}
=============================================================================
