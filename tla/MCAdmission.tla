----------------------------- MODULE MCAdmission -----------------------------
(* An object whose region says "good", read as such or misread as "bad"; or a value
   without its comparator. *)
EXTENDS LimitReading

Words(s) == [i \in DOMAIN s |-> Word(s[i])]
Plain == Value("", FALSE, FALSE, FALSE)

Good == <<Value(">=", FALSE, FALSE, TRUE)>>
Bad == Words(<<"shall">>)
Bare == Words(<<"limit">>) \o <<BandOf("80 MHz - 1 GHz"), Plain>>
MCGlyphs == {Good, Bad, Bare}
MCCritical == {Good}
MCTruncated == {Bad}

Says(g, m, l, h) == [glyphs |-> g, marked |-> m, loose |-> l, header |-> h]

\* The region's text, with white space, flattened, with a header in it; a misreading.
MCReadings ==
  {Says(Good, TRUE, FALSE, FALSE), Says(Good, TRUE, TRUE, FALSE),
   Says(Good, FALSE, FALSE, FALSE), Says(Good, TRUE, FALSE, TRUE),
   Says(Bad, FALSE, FALSE, FALSE), Says(Bare, FALSE, FALSE, FALSE)}

\* Limits put into words.
MCPhrases == {Words(phrase) \o <<Plain>> :
                phrase \in {<<"at", "least">>, <<"at", "most">>, <<"no", "more", "than">>}}
MCPhraseReadings == {Says(g, FALSE, FALSE, FALSE) : g \in MCPhrases}
=============================================================================
