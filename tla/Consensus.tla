------------------------------ MODULE Consensus ------------------------------
(***************************************************************************)
(* How transcriptions of one region are compared and voted on              *)
(* (app/pipeline/consensus.py, canon_equation.py, canonical_schema.py).    *)
(* A reading is what one parser says a region says: its glyphs; marked,    *)
(* what a flattening parser loses (raised digits in text, font commands in *)
(* LaTeX); loose, white space and hyphenation; header, a running header    *)
(* caught inside it.                                                       *)
(***************************************************************************)
EXTENDS Integers, Sequences, FiniteSets

CONSTANTS Glyphs, NoReading
Reading == [glyphs : Glyphs, marked : BOOLEAN, loose : BOOLEAN, header : BOOLEAN]

ASSUME ReadingAssumption == NoReading \notin Reading

Tight(r) == [glyphs |-> r.glyphs, marked |-> r.marked, loose |-> FALSE, header |-> r.header]
normalize_for_compare(r) == Tight(r)
same_text_content(a, b) == <<a.glyphs, a.header>> = <<b.glyphs, b.header>>
canonicalize_latex(r) == Tight(r)
eq_compare_form(r) == <<r.glyphs, r.header>>

\* The runs' reading if it corroborates the text, otherwise the text.
preferred_text(raw, text) ==
  IF raw # NoReading /\ (text = NoReading \/ same_text_content(raw, text)) THEN raw ELSE text

GENUINE_TEXT_PARSERS == {"pymupdf", "glm_ocr", "rapidocr", "mineru", "surya"}
TEXT_AUTHORITY_ORDER == <<"pymupdf", "glm_ocr", "surya", "rapidocr", "mineru">>
Parser == GENUINE_TEXT_PARSERS \cup {"docling", "docling_formula"}

Authority(voters) ==
  Head(SelectSeq(TEXT_AUTHORITY_ORDER, LAMBDA p : p \in DOMAIN voters))

\* The voters that say what the authority says, up to white space.
AgreeBlock(voters) ==
  {p \in DOMAIN voters : normalize_for_compare(voters[p])
                           = normalize_for_compare(voters[Authority(voters)])}

\* Mutation: a normative object, too, is admitted by majority.
ReconcileWithMercy(voters, normative) ==
  IF AgreeBlock(voters) = DOMAIN voters THEN "unanimous"
  ELSE IF 2 * Cardinality(AgreeBlock(voters)) > Cardinality(DOMAIN voters)
       THEN "majority" ELSE "quarantined"

reconcile_text(voters, normative) ==
  IF AgreeBlock(voters) = DOMAIN voters THEN "unanimous"
  ELSE IF /\ ~normative
          /\ 2 * Cardinality(AgreeBlock(voters)) > Cardinality(DOMAIN voters)
       THEN "majority" ELSE "quarantined"
=============================================================================
