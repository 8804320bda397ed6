------------------------------ MODULE Parameters ------------------------------
(***************************************************************************)
(* Which values of a text become limits, and in which direction            *)
(* (app/pipeline/parameters.py).  A text is a sequence of tokens: words,   *)
(* frequency bands, and values with a unit, which may carry a symbol, a    *)
(* tolerance or an upper end.  How a character string falls into tokens,   *)
(* and how far the windows of 24, 30 and 50 characters reach, is left out: *)
(* the texts are short and have one band at most.                          *)
(***************************************************************************)
EXTENDS SequencesExt, Integers

CONSTANTS
  DecimalComma,   \* the document's language writes 3,5
  NoComparator    \* None

Word(w) == [is |-> "word", word |-> w]
BandOf(w) == [is |-> "band", word |-> w]
\* sym, lead and hi are the groups of _PARAM; comma: written 3,5.
Value(sym, lead, hi, comma) ==
  [is |-> "value", sym |-> sym, lead |-> lead, hi |-> hi, comma |-> comma]

SYM_COMPARATOR == ("<=" :> "lte") @@ ("<" :> "lte") @@ (">=" :> "gte") @@ (">" :> "gte")

\* The three patterns in the order they are tried; a phrase is its words.
PHRASE_COMPARATOR ==
  << [says |-> "gte", phrases |-> {<<"at", "least">>, <<"more", "than">>, <<"greater", "than">>,
                                   <<"minimum">>, <<"at", "minimum">>, <<"not", "less", "than">>}],
     [says |-> "lte", phrases |-> {<<"at", "most">>, <<"up", "to">>, <<"maximum">>, <<"not", "exceed">>,
                                   <<"no", "more", "than">>, <<"less", "than">>}],
     [says |-> "eq",  phrases |-> {<<"exactly">>, <<"equal", "to">>}] >>

\* German compounds, which are limit keywords as well.
LowerNouns == {"mindestabstand", "minimalwert"}
UpperNouns == {"höchstwert", "maximalwert"}
LIMIT_KEYWORD == {"limit", "max", "maximum", "min", "minimum", "tolerance", "threshold"}
                   \cup LowerNouns \cup UpperNouns

Has(text, words) == \E i \in DOMAIN text : text[i].is = "word" /\ text[i].word \in words

\* The phrase stands directly in front of token i.
EndsAt(phrase, text, i) ==
  /\ Len(phrase) < i
  /\ \A j \in DOMAIN phrase :
       text[i - Len(phrase) + j - 1] = Word(phrase[j])

Matching(text, i) ==
  SelectSeq(PHRASE_COMPARATOR, LAMBDA c : \E phrase \in c.phrases : EndsAt(phrase, text, i))

\* A symbol, else a phrase in front, else a German compound noun anywhere.
Comparator(text, i) ==
  IF text[i].sym # "" THEN SYM_COMPARATOR[text[i].sym]
  ELSE IF Matching(text, i) # <<>> THEN Head(Matching(text, i)).says
  ELSE IF Has(text, LowerNouns) THEN "gte"
  ELSE IF Has(text, UpperNouns) THEN "lte"
  ELSE NoComparator

\* A limit keyword earlier in the same sentence.
has_limit_keyword_near(text, i) ==
  \E j \in 1 .. i - 1 :
    /\ text[j].is = "word" /\ text[j].word \in LIMIT_KEYWORD
    /\ \A k \in j .. i - 1 : text[k] # Word(".")

\* The first band is everybody's condition; 0 if there is none.
Condition(text) == SelectInSeq(text, LAMBDA token : token.is = "band")

Interval(text, i) == text[i].hi \/ text[i].lead

\* Values that become parameters.
IsLimit(text, i) ==
  /\ text[i].is = "value"
  /\ \/ Interval(text, i)
     \/ Comparator(text, i) # NoComparator
     \/ has_limit_keyword_near(text, i)

parse_parameters(text) ==
  {[at |-> i, condition |-> Condition(text),
    comparator |-> IF Interval(text, i) THEN "range" ELSE Comparator(text, i)]
   : i \in {j \in DOMAIN text : IsLimit(text, j)}}

\* A bare comma in a language with decimal points.
decimal_ambiguous(text) ==
  \E i \in DOMAIN text : text[i].is = "value" /\ text[i].comma /\ ~DecimalComma

----------------------------------------------------------------------------
\* What the table of phrases says of token i if its longest phrase counts.
LongestPhrase(text, i) ==
  {c \in ToSet(PHRASE_COMPARATOR) : \E phrase \in c.phrases :
     /\ EndsAt(phrase, text, i)
     /\ \A d \in ToSet(PHRASE_COMPARATOR) : \A other \in d.phrases :
          EndsAt(other, text, i) => Len(other) <= Len(phrase)}

KeepsDirection(text) ==
  \A p \in parse_parameters(text) :
    p.comparator # "range" /\ text[p.at].sym = "" =>
      \A c \in LongestPhrase(text, p.at) : p.comparator = c.says
==============================================================================
