---------------------------- MODULE LimitReading ----------------------------
(***************************************************************************)
(* Admission over texts instead of opaque glyphs: what the passes and the  *)
(* gates ask of a text is computed from its tokens.                        *)
(***************************************************************************)
EXTENDS Admission, Parameters

TokenText == {g \in Glyphs : g # <<>>}
DigitGlyphs == {g \in TokenText : \E i \in DOMAIN g : g[i].is # "word"}
DemandGlyphs == {g \in TokenText : Has(g, {"shall", "must"})}
LimitGlyphs == {g \in TokenText : parse_parameters(g) # {}}
AmbiguousGlyphs == {g \in LimitGlyphs : decimal_ambiguous(g)}
IncompleteGlyphs ==
  {g \in LimitGlyphs : \E p \in parse_parameters(g) : p.comparator = NoComparator}

\* A limit is admitted, without anybody having to look at it, in the direction
\* that its text states: the longest phrase of the table in front of the value
\* (parameters.py:103 lists "no more than" among the upper bounds).
LimitKeepsDirection ==
  pass = "done" /\ parameters # NoReading /\ consensus # "quarantined" /\ ~review_required
    => KeepsDirection(parameters.glyphs)
=============================================================================
