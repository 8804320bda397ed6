---------------------------- MODULE MCClauseTree ----------------------------
(***************************************************************************)
(* Every document of four nodes over small vocabularies: one for the shape *)
(* of the tree, and for what is done with the tree one each of numbers,    *)
(* of references and of what identifiers are made from.                    *)
(***************************************************************************)
EXTENDS Edition

Text(n, p, w) == [number |-> n, place |-> p, words |-> w, gloss |-> 0]
Plain == [type |-> "section", text |-> Text(NoLabel, "none", 1), page |-> 2,
          toc |-> 0, captions |-> 0, index |-> 0, brief |-> FALSE, names |-> {},
          refs |-> {}, caption |-> NoNumber, lang |-> NoLang, defines |-> NoSymbol,
          uses |-> {}, designation |-> NoName, digest |-> "plain"]
Numbered(n) == [Plain EXCEPT !.text = Text(n, "leading", 2)]
Entry(n) == [Numbered(n) EXCEPT !.type = "paragraph"]
Lone(n) == [Plain EXCEPT !.text = Text(n, "lone", 1)]
Term == [Plain EXCEPT !.type = "paragraph"]
Contents == [Plain EXCEPT !.toc = 100]
Register == [Plain EXCEPT !.index = 70]
Cover == [Numbered(<<5, 3>>) EXCEPT !.page = 1, !.brief = TRUE]
AnnexA == Numbered(Annex)

Clause1 == [kind |-> "clause", target |-> <<1, 1>>]
ToAnnex == [kind |-> "clause", target |-> Annex]
Table2 == [kind |-> "table", target |-> 2]
Citing(r) == [Term EXCEPT !.refs = {r}]
Caption(n) == [Plain EXCEPT !.type = "caption", !.caption = n]
InGerman(c) == [c EXCEPT !.lang = "de"]
InEnglish(c) == [c EXCEPT !.lang = "en"]
Title == [Term EXCEPT !.page = 1, !.designation = "EN 1"]
Figure == [Plain EXCEPT !.type = "figure", !.digest = ""]
Equation == [Plain EXCEPT !.type = "equation", !.defines = "Nd"]
Requirement == [Term EXCEPT !.uses = {"Nd"}]

Shapes ==
  {Plain, Numbered(<<1>>), Numbered(<<2>>), Entry(<<1, 1>>),
   Contents, Register, AnnexA,
   Lone(<<1, 1>>), Cover}
Numbers == {Plain} \cup {Numbered(n) : n \in {<<1>>, <<3>>, <<1, 1>>, <<1, 2>>, <<1, 3>>}}
References == {Lone(<<1, 1>>), Entry(<<1, 1>>), AnnexA, Citing(Clause1), Citing(ToAnnex),
               Citing(Table2), Caption(1), Caption(2), Caption(3)}
Identities == {InEnglish(Entry(<<1, 1>>)), InGerman(Entry(<<1, 1>>)), Numbered(<<1>>),
               Title, Figure, Equation, Requirement}
MCSplit == {Plain, Lone(<<1, 1>>), Term, Entry(<<1, 1>>)}

MCVocabularies == {Shapes, Numbers, References, Identities}
MCSplitOnly == {MCSplit}
MCContent == UNION MCVocabularies
==============================================================================
