------------------------------ MODULE Admission ------------------------------
(***************************************************************************)
(* One text object or equation on its way through app/pipeline/assemble.py:*)
(* the passes add what the engines say to the object, and every pass may   *)
(* put it into the review queue.  The passes rebuild children before their *)
(* parent and read nothing but the object itself, except for the gates on  *)
(* running headers, numbering and cross-references, whose view of the rest *)
(* of the document is a free choice.                                       *)
(***************************************************************************)
EXTENDS Consensus

CONSTANTS Readings,            \* the readings engines can give here
          Digits, Limits,      \* glyphs that hold digits, that state a limit
          Demands,             \* glyphs with a modal verb of a requirement
          Ambiguous,           \* limits whose decimal separator is unclear
          Incomplete,          \* limits without a unit or a comparator
          Critical,            \* glyphs with one of the critical symbols
          Truncated            \* glyphs that are unbalanced as LaTeX

\* The text with the lines of the running header taken out.
WithoutHeader(r) ==
  [glyphs |-> r.glyphs, marked |-> r.marked, loose |-> r.loose, header |-> FALSE]

ASSUME AdmissionAssumption ==
  /\ Readings \subseteq Reading
  /\ Limits \subseteq Digits
  /\ \A r \in Readings : WithoutHeader(r) \in Readings
  /\ \A r \in Readings : canonicalize_latex(r) \in Readings

VARIABLES
  pass,        \* the next pass
  kind,        \* the structural type of the object
  page,        \* what triage and PyMuPDF see of its page
  primary,     \* the OCR engine Docling runs
  text, raw, runs, latex, parameters,   \* NoReading where the code has None or []
  normative,   \* is_normative by its cdm_type
  parsers,     \* all candidates, by parser
  consensus, quarantine_reason, review_required, review_reasons

origin == <<kind, page, primary>>
words == <<text, raw, runs, latex, parameters, normative>>
verdict == <<consensus, quarantine_reason, review_required, review_reasons>>
vars == <<pass, origin, words, parsers, verdict>>

Kind == {"paragraph", "section", "equation"}
ConsensusState == {"unanimous", "majority", "quarantined"}
Order == <<"triage", "runs", "canonical", "classify", "parameters", "equations", "ocr",
           "votes", "header_footer", "run_integrity", "numbering", "units",
           "equation_integrity", "cross_reference", "done">>

\* A page: at least 40 characters of text layer, few of them garbage, images.
Page == [digital : BOOLEAN, clean : BOOLEAN, images : BOOLEAN]
classify_page ==
  IF page.digital THEN (IF page.clean THEN "DIGITAL_CLEAN" ELSE "DIGITAL_DIRTY")
  ELSE IF page.images THEN "SCANNED" ELSE "UNCERTAIN"
OCR_PAGE_CLASSES == {"SCANNED", "UNCERTAIN"}
Scanned == classify_page \in OCR_PAGE_CLASSES

RUN_TEXT_TYPES == {"paragraph"}   \* and heading, list_item, caption, note
EquationEngines == {"glm_ocr", "mineru"}
OcrTextEngines == {"glm_ocr", "surya"} \ {primary}

Init ==
  /\ pass = "triage"
  /\ kind \in Kind /\ page \in Page /\ primary \in {"rapidocr", "surya"}
  /\ text \in Readings \cup {NoReading}
  /\ kind = "equation" /\ text # NoReading => ~text.header
  /\ latex = IF kind = "equation" THEN text ELSE NoReading
  /\ raw = NoReading /\ runs = NoReading /\ parameters = NoReading
  /\ normative = FALSE
  /\ parsers = <<>>
  /\ consensus = "unanimous" /\ quarantine_reason = <<>>
  /\ review_required = FALSE /\ review_reasons = {}

Pass(here, next) == pass = here /\ pass' = next /\ UNCHANGED origin

Review(reason) ==
  /\ review_required' = TRUE
  /\ review_reasons' = review_reasons \cup {reason}

\* Mutation: the review queue is not told.
QuarantineQuietly(reason) ==
  /\ consensus' = "quarantined"
  /\ quarantine_reason' = Append(quarantine_reason, reason)
  /\ UNCHANGED <<review_required, review_reasons>>

quarantine(reason) ==
  /\ consensus' = "quarantined"
  /\ quarantine_reason' = Append(quarantine_reason, reason)
  /\ Review(reason)

---------------------------------------------------------------------------
\* The candidates of a lane's engines; one that is not available, fails or
\* gets no crop gives none, and one that has answered is not asked again.
Candidates(engines) == [engines \ DOMAIN parsers -> Readings \cup {NoReading}]
Given(answers) ==
  [p \in {q \in DOMAIN answers : answers[q] # NoReading} |-> answers[p]]
Joined(kept, new) ==
  [p \in DOMAIN kept \cup DOMAIN new |-> IF p \in DOMAIN new THEN new[p] ELSE kept[p]]

ApplyTriage ==
  /\ Pass("triage", "runs")
  /\ IF classify_page = "DIGITAL_CLEAN" THEN UNCHANGED verdict
     ELSE Review(classify_page) /\ UNCHANGED <<consensus, quarantine_reason>>
  /\ UNCHANGED <<words, parsers>>

\* PyMuPDF's runs in the object's region: none, or a reading.
BackfillRuns ==
  /\ Pass("runs", "canonical")
  /\ \E found \in Readings \cup {NoReading} :
       IF kind \in RUN_TEXT_TYPES /\ found # NoReading
       THEN /\ runs' = found /\ raw' = found
            /\ parsers' = Joined(parsers, [p \in {"pymupdf"} \cup (IF text = NoReading THEN {}
                                                                   ELSE {"docling"})
                                           |-> IF p = "pymupdf" THEN found ELSE text])
       ELSE UNCHANGED <<runs, raw, parsers>>
  /\ UNCHANGED <<text, latex, parameters, normative, verdict>>

CanonicalizeEquation ==
  /\ Pass("canonical", "classify")
  /\ IF kind = "equation" /\ latex # NoReading
     THEN /\ latex' = canonicalize_latex(latex) /\ text' = latex'
          /\ parsers' = Joined(parsers, [p \in {"docling_formula"} |-> latex'])
     ELSE UNCHANGED <<latex, text, parsers>>
  /\ UNCHANGED <<raw, runs, parameters, normative, verdict>>

ClassifyType ==
  /\ Pass("classify", "parameters")
  /\ LET preferred == preferred_text(raw, text)
     IN  normative' = (preferred # NoReading /\ preferred.glyphs \in Demands)
  /\ UNCHANGED <<text, raw, runs, latex, parameters, parsers, verdict>>

AnnotateParameters ==
  /\ Pass("parameters", "equations")
  /\ LET preferred == preferred_text(raw, text)
     IN  IF kind = "paragraph" /\ preferred # NoReading /\ preferred.glyphs \in Limits
         THEN /\ parameters' = preferred
              /\ IF preferred.glyphs \in Ambiguous
                 THEN Review("ambiguous_decimal_locale") /\ UNCHANGED <<consensus, quarantine_reason>>
                 ELSE UNCHANGED verdict
         ELSE UNCHANGED <<parameters, verdict>>
  /\ UNCHANGED <<text, raw, runs, latex, normative, parsers>>

Dissenters(answers) ==
  {p \in DOMAIN answers : eq_compare_form(answers[p]) # eq_compare_form(latex)}

CorroborateEquation ==
  /\ Pass("equations", "ocr")
  /\ IF kind = "equation" /\ latex # NoReading
     THEN \E answers \in Candidates(EquationEngines) :
            /\ parsers' = Joined(parsers, Given(answers))
            /\ IF Dissenters(Given(answers)) = {} THEN UNCHANGED verdict
               ELSE /\ consensus' = "quarantined"
                    /\ quarantine_reason' = <<"equation_engine_disagreement">>
                    /\ Review("equation_engine_disagreement")
     ELSE UNCHANGED <<parsers, verdict>>
  /\ UNCHANGED words

\* Mutation: a page's engine asks again, and what the equation lane kept is lost.
BackfillOcrAskingAgain ==
  /\ Pass("ocr", "votes")
  /\ IF Scanned /\ text # NoReading
     THEN \E answers \in [OcrTextEngines -> Readings \cup {NoReading}] :
            /\ parsers' = Joined(parsers, Joined([p \in {primary} |-> text], Given(answers)))
            /\ IF parameters # NoReading THEN quarantine("ocr_derived_parameter")
               ELSE UNCHANGED verdict
     ELSE UNCHANGED <<parsers, verdict>>
  /\ UNCHANGED words

\* Mutation: an engine that says nothing is recorded as well.
BackfillOcrKeepsNone ==
  /\ Pass("ocr", "votes")
  /\ IF Scanned /\ text # NoReading
     THEN \E answers \in Candidates(OcrTextEngines \ {primary}) :
            /\ parsers' = Joined(Joined([p \in {primary} |-> text], parsers), answers)
            /\ UNCHANGED verdict
     ELSE UNCHANGED <<parsers, verdict>>
  /\ UNCHANGED words

\* Mutation: without a second engine the lane does nothing.
BackfillOcrIfEnginesAnswer ==
  /\ Pass("ocr", "votes")
  /\ IF Scanned /\ text # NoReading
     THEN \E answers \in Candidates(OcrTextEngines) :
            IF Given(answers) = <<>> THEN UNCHANGED <<parsers, verdict>>
            ELSE /\ parsers' = Joined(Joined([p \in {primary} |-> text], parsers), Given(answers))
                 /\ IF parameters # NoReading THEN quarantine("ocr_derived_parameter")
                    ELSE UNCHANGED verdict
     ELSE UNCHANGED <<parsers, verdict>>
  /\ UNCHANGED words

\* On a scanned page the text is an OCR engine's, and so gets a vote.
BackfillOcr ==
  /\ Pass("ocr", "votes")
  /\ IF Scanned /\ text # NoReading
     THEN \E answers \in Candidates(OcrTextEngines \ {primary}) :
            /\ parsers' = Joined(Joined([p \in {primary} |-> text], parsers), Given(answers))
            /\ IF parameters # NoReading /\ consensus # "quarantined"
               THEN /\ consensus' = "quarantined"
                    /\ quarantine_reason' = <<"ocr_derived_parameter">>
                    /\ Review("ocr_derived_parameter")
               ELSE UNCHANGED verdict
     ELSE UNCHANGED <<parsers, verdict>>
  /\ UNCHANGED words

Voters == [p \in DOMAIN parsers \cap GENUINE_TEXT_PARSERS |-> parsers[p]]
is_normative == normative \/ parameters # NoReading

\* Dissent of a minority is noted, but the object is not up for review.
Settle(state) ==
  \/ state = "unanimous" /\ UNCHANGED verdict
  \/ state = "quarantined" /\ quarantine("consensus_dissent")
  \/ /\ state = "majority"
     /\ consensus' = "majority"
     /\ review_reasons' = review_reasons \cup {"consensus_minority_dissent"}
     /\ UNCHANGED <<quarantine_reason, review_required>>

\* Mutation: the vote forgets what was quarantined before.
ApplyTextConsensusAnyway ==
  /\ Pass("votes", "header_footer")
  /\ IF Cardinality(DOMAIN Voters) < 2 THEN UNCHANGED verdict
     ELSE Settle(reconcile_text(Voters, is_normative))
  /\ UNCHANGED <<words, parsers>>

ApplyTextConsensus ==
  /\ Pass("votes", "header_footer")
  /\ IF Cardinality(DOMAIN Voters) < 2 \/ consensus = "quarantined" THEN UNCHANGED verdict
     ELSE Settle(reconcile_text(Voters, is_normative))
  /\ UNCHANGED <<words, parsers>>

---------------------------------------------------------------------------
\* The gates.  Whether a line of the text repeats on three pages, and whether
\* numbering or references are broken, depends on the rest of the document.
HeaderFooter ==
  /\ Pass("header_footer", "run_integrity")
  /\ \E repeats \in BOOLEAN :
       text' = IF repeats /\ text # NoReading /\ text.header
               THEN WithoutHeader(text) ELSE text
  /\ UNCHANGED <<raw, runs, latex, parameters, normative, parsers, verdict>>

Gate(fails, reason) ==
  IF fails THEN quarantine(reason) ELSE UNCHANGED verdict

\* Mutation: what has no runs is not checked.
UnverifiableIfRuns ==
  /\ kind = "paragraph" /\ raw # NoReading
  /\ normalize_for_compare(runs) # normalize_for_compare(raw)

Unverifiable ==
  LET witness == IF raw # NoReading THEN raw ELSE text
  IN  /\ kind = "paragraph" /\ witness # NoReading
      /\ IF runs = NoReading THEN witness.glyphs \in Digits
         ELSE normalize_for_compare(runs) # normalize_for_compare(witness)

RunIntegrity ==
  /\ Pass("run_integrity", "numbering")
  /\ Gate(Unverifiable, "run_integrity")
  /\ UNCHANGED <<words, parsers>>

Numbering ==
  /\ Pass("numbering", "units")
  /\ \E broken \in BOOLEAN : Gate(broken /\ kind # "equation", "numbering")
  /\ UNCHANGED <<words, parsers>>

LosesSymbol ==
  runs # NoReading /\ runs.glyphs \in Critical /\ parameters.glyphs \notin Critical

Units ==
  /\ Pass("units", "equation_integrity")
  /\ Gate(/\ parameters # NoReading
          /\ parameters.glyphs \in Incomplete \/ LosesSymbol, "units")
  /\ UNCHANGED <<words, parsers>>

EquationIntegrity ==
  /\ Pass("equation_integrity", "cross_reference")
  /\ Gate(kind = "equation" /\ (latex = NoReading \/ latex.glyphs \in Truncated), "equations")
  /\ UNCHANGED <<words, parsers>>

CrossReference ==
  /\ Pass("cross_reference", "done")
  /\ \E dangling \in BOOLEAN : Gate(dangling /\ text # NoReading /\ kind # "equation",
                                    "cross_reference")
  /\ UNCHANGED <<words, parsers>>

Next ==
  \/ ApplyTriage \/ BackfillRuns \/ CanonicalizeEquation \/ ClassifyType
  \/ AnnotateParameters \/ CorroborateEquation \/ BackfillOcr \/ ApplyTextConsensus
  \/ HeaderFooter \/ RunIntegrity \/ Numbering \/ Units \/ EquationIntegrity
  \/ CrossReference

Spec == Init /\ [][Next]_vars

---------------------------------------------------------------------------
Steps == {Order[i] : i \in DOMAIN Order}

\* Every field has its type (canonical_schema.py, Node).
TypeOK ==
  /\ pass \in Steps /\ kind \in Kind /\ page \in Page /\ primary \in Parser
  /\ \A r \in {text, raw, runs, latex, parameters} : r \in Readings \cup {NoReading}
  /\ normative \in BOOLEAN /\ review_required \in BOOLEAN
  /\ DOMAIN parsers \subseteq Parser /\ \A p \in DOMAIN parsers : parsers[p] \in Readings
  /\ consensus \in ConsensusState

\* Nothing is taken out of the review queue: once quarantined an object stays
\* so, and a later reason is added to the earlier ones (assemble.py's passes
\* and gates.quarantine each decide for themselves whether and how to write).
QuarantineIsFinal ==
  [][consensus = "quarantined" =>
       /\ consensus' = "quarantined"
       /\ \E added \in 0 .. 1 :
            /\ Len(quarantine_reason') = Len(quarantine_reason) + added
            /\ \A i \in DOMAIN quarantine_reason : quarantine_reason'[i] = quarantine_reason[i]]_vars

\* What an engine said is kept, also when a later lane asks the same engine
\* for the same object (Node.parsers keeps every candidate including losers).
CandidatesKept ==
  [][\A p \in DOMAIN parsers : p \in DOMAIN parsers' /\ parsers'[p] = parsers[p]]_vars

\* An object with a normative word or a value in it is never admitted when two
\* transcriptions that count differ in more than white space: neither the
\* order of the lanes nor an earlier verdict lets a dissent on a limit through.
NormativeDissentIsStopped ==
  pass = "done" /\ is_normative /\ consensus # "quarantined" =>
    \A p, q \in DOMAIN Voters :
      normalize_for_compare(parsers[p]) = normalize_for_compare(parsers[q])

\* A value transcribed on a scanned page waits for a human, whichever engines
\* were up (assemble.py:398, "any OCR-derived Parameter is quarantined").
OcrValueIsQuarantined ==
  pass = "done" /\ parameters # NoReading /\ text # NoReading /\ Scanned
    => consensus = "quarantined"

\* An admitted value was seen in the page's own text layer: classification,
\* parameters and the gate that looks at runs see the object at different
\* times, and a header repair comes between them.
AdmittedValueHasRuns ==
  pass = "done" /\ parameters # NoReading /\ consensus # "quarantined" => runs # NoReading

\* A quarantine can be explained and found: it has a reason and is up for
\* review, and an object without one has no reason.
QuarantineIsExplained ==
  /\ consensus = "quarantined" <=> quarantine_reason # <<>>
  /\ consensus = "quarantined" => review_required /\ review_reasons # {}
=============================================================================
