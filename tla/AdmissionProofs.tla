--------------------------- MODULE AdmissionProofs ---------------------------
(***************************************************************************)
(* What the admission of an object guarantees, for every set of readings   *)
(* and every behaviour of the engines.                                     *)
(***************************************************************************)
EXTENDS Admission, FiniteSetTheorems, TLAPS

Early == {"triage", "runs", "canonical", "classify", "parameters"}
Voted == {"header_footer", "run_integrity", "numbering", "units", "equation_integrity",
          "cross_reference", "done"}
AfterOcr == Voted \cup {"votes"}
Verified == Voted \ {"header_footer", "run_integrity"}

Reason == {"equation_engine_disagreement", "ocr_derived_parameter", "consensus_dissent",
           "run_integrity", "numbering", "units", "equations", "cross_reference"}

Fields ==
  /\ kind \in Kind /\ primary \in Parser
  /\ text \in Readings \cup {NoReading} /\ raw \in Readings \cup {NoReading}
  /\ latex \in Readings \cup {NoReading} /\ parameters \in Readings \cup {NoReading}
  /\ DOMAIN parsers \subseteq Parser
  /\ consensus \in ConsensusState
  /\ quarantine_reason \in Seq(Reason)

\* raw_text is what the runs say, and set only together with them.
RawIsRuns == raw = runs

\* A value comes from the runs or from the text, and from nowhere else.
ValueHasSource ==
  parameters # NoReading =>
    /\ pass \notin Early /\ kind = "paragraph" /\ parameters.glyphs \in Limits
    /\ raw = NoReading => text # NoReading /\ text.glyphs = parameters.glyphs

ValueIsVerified ==
  pass \in Verified /\ parameters # NoReading /\ runs = NoReading => consensus = "quarantined"

OcrValueIsStopped ==
  pass \in AfterOcr /\ parameters # NoReading /\ text # NoReading /\ Scanned
    => consensus = "quarantined"

DissentIsStopped ==
  pass \in Voted /\ is_normative /\ consensus # "quarantined" =>
    \A p, q \in DOMAIN parsers \cap GENUINE_TEXT_PARSERS :
      normalize_for_compare(parsers[p]) = normalize_for_compare(parsers[q])

IInv ==
  /\ Fields /\ QuarantineIsExplained /\ RawIsRuns /\ ValueHasSource
  /\ ValueIsVerified /\ OcrValueIsStopped /\ DissentIsStopped

---------------------------------------------------------------------------
LEMMA HeaderIsNoGlyph ==
  ASSUME NEW r \in Readings
  PROVE  /\ WithoutHeader(r) \in Readings /\ WithoutHeader(r) # NoReading
         /\ WithoutHeader(r).glyphs = r.glyphs
         /\ r # NoReading
BY AdmissionAssumption, ReadingAssumption DEF WithoutHeader

\* A lane that quarantines by itself writes the first reason.
LEMMA FirstReason ==
  ASSUME NEW reason \in Reason, quarantine_reason' = <<reason>>,
         consensus' = "quarantined", review_required' = TRUE, review_reasons' # {}
  PROVE  consensus' \in ConsensusState /\ quarantine_reason' \in Seq(Reason) /\ QuarantineIsExplained'
<1>1. <<reason>> # <<>> /\ <<reason>> \in Seq(Reason)
  OBVIOUS
<1> QED BY <1>1 DEF ConsensusState, QuarantineIsExplained

\* What a gate or a vote does to the verdict.
LEMMA QuarantineExplains ==
  ASSUME NEW reason \in Reason, quarantine_reason \in Seq(Reason), quarantine(reason)
  PROVE  /\ consensus' = "quarantined" /\ quarantine_reason' \in Seq(Reason)
         /\ quarantine_reason' # <<>> /\ review_required' = TRUE /\ review_reasons' # {}
         /\ Len(quarantine_reason') = Len(quarantine_reason) + 1
         /\ \A i \in DOMAIN quarantine_reason : quarantine_reason'[i] = quarantine_reason[i]
BY DEF quarantine, Review

\* Fewer than two voters: any two of them are the same.
LEMMA FewVotesAgree ==
  ASSUME DOMAIN parsers \subseteq Parser, Cardinality(DOMAIN Voters) < 2,
         NEW p \in DOMAIN Voters, NEW q \in DOMAIN Voters
  PROVE  p = q
<1>1. DOMAIN Voters \subseteq GENUINE_TEXT_PARSERS
  BY DEF Voters
<1>2. IsFiniteSet(GENUINE_TEXT_PARSERS)
  <2> DEFINE S0 == {"pymupdf"}
             S1 == S0 \cup {"glm_ocr"}
             S2 == S1 \cup {"rapidocr"}
             S3 == S2 \cup {"mineru"}
             S4 == S3 \cup {"surya"}
  <2>1. IsFiniteSet(S0)
    BY FS_Singleton
  <2>2. IsFiniteSet(S1)
    BY <2>1, FS_AddElement
  <2>3. IsFiniteSet(S2)
    BY <2>2, FS_AddElement
  <2>4. IsFiniteSet(S3)
    BY <2>3, FS_AddElement
  <2>5. IsFiniteSet(S4)
    BY <2>4, FS_AddElement
  <2>6. GENUINE_TEXT_PARSERS = S4
    BY DEF GENUINE_TEXT_PARSERS
  <2> QED BY <2>5, <2>6
<1>3. IsFiniteSet(DOMAIN Voters) /\ Cardinality(DOMAIN Voters) \in Nat
  BY <1>1, <1>2, FS_Subset, FS_CardinalityType
<1>4. SUFFICES ASSUME p # q PROVE FALSE
  OBVIOUS
<1>5. IsFiniteSet({p}) /\ Cardinality({p}) = 1
  BY FS_Singleton
<1>6. IsFiniteSet({p} \cup {q}) /\ Cardinality({p} \cup {q}) = 2
  BY <1>4, <1>5, FS_AddElement
<1>7. {p} \cup {q} \subseteq DOMAIN Voters
  OBVIOUS
<1>8. Cardinality({p} \cup {q}) <= Cardinality(DOMAIN Voters)
  BY <1>3, <1>7, FS_Subset
<1> QED BY <1>3, <1>6, <1>8

LEMMA UnanimousVotersAgree ==
  ASSUME reconcile_text(Voters, TRUE) = "unanimous",
         NEW p \in DOMAIN Voters, NEW q \in DOMAIN Voters
  PROVE  normalize_for_compare(parsers[p]) = normalize_for_compare(parsers[q])
<1>1. AgreeBlock(Voters) = DOMAIN Voters
  BY DEF reconcile_text
<1>2. p \in AgreeBlock(Voters) /\ q \in AgreeBlock(Voters)
  BY <1>1
<1>3. normalize_for_compare(Voters[p]) = normalize_for_compare(Voters[q])
  BY <1>2 DEF AgreeBlock
<1>4. Voters[p] = parsers[p] /\ Voters[q] = parsers[q]
  BY DEF Voters
<1> QED BY <1>3, <1>4

\* A normative object is admitted by a unanimous vote or none.
LEMMA VoteOnNormative ==
  ASSUME Fields, ApplyTextConsensus, is_normative, consensus # "quarantined",
         consensus' # "quarantined",
         NEW p \in DOMAIN parsers \cap GENUINE_TEXT_PARSERS,
         NEW q \in DOMAIN parsers \cap GENUINE_TEXT_PARSERS
  PROVE  normalize_for_compare(parsers[p]) = normalize_for_compare(parsers[q])
<1>1. p \in DOMAIN Voters /\ q \in DOMAIN Voters
  BY DEF Voters
<1>2. CASE Cardinality(DOMAIN Voters) < 2
  BY <1>1, <1>2, FewVotesAgree DEF Fields
<1>3. CASE ~(Cardinality(DOMAIN Voters) < 2)
  <2>1. is_normative = TRUE
    BY DEF is_normative
  <2>2. reconcile_text(Voters, is_normative) \in {"unanimous", "quarantined"}
    BY DEF reconcile_text
  <2>3. reconcile_text(Voters, is_normative) # "quarantined"
    BY <1>3, <2>2 DEF ApplyTextConsensus, Settle, quarantine
  <2>4. reconcile_text(Voters, is_normative) = "unanimous"
    BY <2>2, <2>3
  <2>5. AgreeBlock(Voters) = DOMAIN Voters
    BY <2>4 DEF reconcile_text
  <2>6. reconcile_text(Voters, TRUE) = "unanimous"
    BY <2>5 DEF reconcile_text
  <2> QED BY <1>1, <2>6, UnanimousVotersAgree
<1> QED BY <1>2, <1>3

---------------------------------------------------------------------------
\* Before parameters are read, a pass that keeps the verdict's shape is safe.
LEMMA EarlyStep ==
  ASSUME IInv, pass \in Early, pass' \in Early \cup {"equations", "ocr"},
         Fields', QuarantineIsExplained', RawIsRuns', ValueHasSource'
  PROVE  IInv'
BY DEF IInv, Early, Voted, AfterOcr, Verified, ValueIsVerified, OcrValueIsStopped, DissentIsStopped

LEMMA Triaging ==
  ASSUME IInv, ApplyTriage
  PROVE  IInv'
<1>1. /\ pass \in Early /\ pass' \in Early
      /\ UNCHANGED <<kind, primary, text, raw, runs, latex, parameters, parsers, consensus, quarantine_reason>>
      /\ \/ UNCHANGED <<review_required, review_reasons>>
         \/ review_required' = TRUE /\ review_reasons' # {}
  BY DEF ApplyTriage, Pass, Early, Review, origin, words, verdict
<1>2. Fields' /\ QuarantineIsExplained' /\ RawIsRuns' /\ ValueHasSource'
  BY <1>1 DEF IInv, Fields, QuarantineIsExplained, RawIsRuns, ValueHasSource
<1> QED BY <1>1, <1>2, EarlyStep

LEMMA BackfillingRuns ==
  ASSUME IInv, BackfillRuns
  PROVE  IInv'
<1>1. /\ pass \in Early /\ pass' \in Early
      /\ UNCHANGED <<kind, primary, text, latex, parameters>> /\ UNCHANGED verdict
  BY DEF BackfillRuns, Pass, Early, origin
<1>2. PICK found \in Readings \cup {NoReading} :
        IF kind \in RUN_TEXT_TYPES /\ found # NoReading
        THEN /\ runs' = found /\ raw' = found
             /\ parsers' = Joined(parsers, [p \in {"pymupdf"} \cup (IF text = NoReading THEN {}
                                                                     ELSE {"docling"})
                                            |-> IF p = "pymupdf" THEN found ELSE text])
        ELSE UNCHANGED <<runs, raw, parsers>>
  BY DEF BackfillRuns
<1>3. raw' = runs' /\ raw' \in Readings \cup {NoReading} /\ DOMAIN parsers' \subseteq Parser
  BY <1>2 DEF IInv, RawIsRuns, Fields, Joined, Parser, GENUINE_TEXT_PARSERS
<1>4. parameters = NoReading
  BY <1>1 DEF IInv, ValueHasSource
<1>5. Fields' /\ QuarantineIsExplained' /\ RawIsRuns' /\ ValueHasSource'
  BY <1>1, <1>3, <1>4 DEF IInv, Fields, QuarantineIsExplained, RawIsRuns, ValueHasSource, verdict
<1> QED BY <1>1, <1>5, EarlyStep

LEMMA Canonicalizing ==
  ASSUME IInv, CanonicalizeEquation
  PROVE  IInv'
<1>1. /\ pass \in Early /\ pass' \in Early
      /\ UNCHANGED <<kind, primary, raw, runs, parameters>> /\ UNCHANGED verdict
  BY DEF CanonicalizeEquation, Pass, Early, origin
<1>2. /\ text' \in Readings \cup {NoReading} /\ latex' \in Readings \cup {NoReading}
      /\ DOMAIN parsers' \subseteq Parser
  BY AdmissionAssumption DEF IInv, Fields, CanonicalizeEquation, Joined, Parser
<1>3. parameters = NoReading
  BY <1>1 DEF IInv, ValueHasSource
<1>4. Fields' /\ QuarantineIsExplained' /\ RawIsRuns' /\ ValueHasSource'
  BY <1>1, <1>2, <1>3 DEF IInv, Fields, QuarantineIsExplained, RawIsRuns, ValueHasSource, verdict
<1> QED BY <1>1, <1>4, EarlyStep

LEMMA Classifying ==
  ASSUME IInv, ClassifyType
  PROVE  IInv'
<1>1. /\ pass \in Early /\ pass' \in Early
      /\ UNCHANGED <<kind, primary, text, raw, runs, latex, parameters, parsers>> /\ UNCHANGED verdict
  BY DEF ClassifyType, Pass, Early, origin
<1>2. Fields' /\ QuarantineIsExplained' /\ RawIsRuns' /\ ValueHasSource'
  BY <1>1 DEF IInv, Fields, QuarantineIsExplained, RawIsRuns, ValueHasSource, verdict
<1> QED BY <1>1, <1>2, EarlyStep

LEMMA AnnotatingParameters ==
  ASSUME IInv, AnnotateParameters
  PROVE  IInv'
<1>1. /\ pass \in Early /\ pass' = "equations"
      /\ UNCHANGED <<kind, primary, text, raw, runs, latex, parsers, consensus, quarantine_reason>>
      /\ \/ UNCHANGED <<review_required, review_reasons>>
         \/ review_required' = TRUE /\ review_reasons' # {}
  BY DEF AnnotateParameters, Pass, Early, Review, origin, verdict
<1>2. parameters = NoReading
  BY <1>1 DEF IInv, ValueHasSource
<1>3. \/ parameters' = NoReading
      \/ /\ kind = "paragraph" /\ parameters' = preferred_text(raw, text)
         /\ parameters' # NoReading /\ parameters'.glyphs \in Limits
  BY <1>2 DEF AnnotateParameters
<1>4. Fields' /\ QuarantineIsExplained' /\ RawIsRuns'
  BY <1>1, <1>3 DEF IInv, Fields, QuarantineIsExplained, RawIsRuns, preferred_text
<1>5. ValueHasSource'
  BY <1>1, <1>3 DEF ValueHasSource, preferred_text, Early
<1> QED BY <1>1, <1>4, <1>5, EarlyStep

\* Asking engines adds candidates, and never takes one away.
LEMMA AnswersAreCandidates ==
  ASSUME Fields, NEW engines \in SUBSET Parser, NEW answers \in Candidates(engines)
  PROVE  /\ DOMAIN Joined(parsers, Given(answers)) \subseteq Parser
         /\ \A p \in DOMAIN parsers : /\ p \in DOMAIN Joined(parsers, Given(answers))
                                     /\ Joined(parsers, Given(answers))[p] = parsers[p]
<1>1. DOMAIN Given(answers) \subseteq engines \ DOMAIN parsers
  BY DEF Given, Candidates
<1> QED BY <1>1 DEF Joined, Fields

LEMMA Corroborating ==
  ASSUME IInv, CorroborateEquation
  PROVE  IInv'
<1>1. pass = "equations" /\ pass' = "ocr" /\ UNCHANGED words /\ UNCHANGED origin
  BY DEF CorroborateEquation, Pass
<1>2. DOMAIN parsers' \subseteq Parser
  <2>1. CASE UNCHANGED parsers
    BY <2>1 DEF IInv, Fields
  <2>2. CASE \E answers \in Candidates(EquationEngines) : parsers' = Joined(parsers, Given(answers))
    <3>1. EquationEngines \in SUBSET Parser
      BY DEF EquationEngines, Parser, GENUINE_TEXT_PARSERS
    <3> QED BY <2>2, <3>1, AnswersAreCandidates DEF IInv
  <2> QED BY <2>1, <2>2 DEF CorroborateEquation
<1>3. \/ UNCHANGED verdict
      \/ /\ consensus' = "quarantined" /\ quarantine_reason' = <<"equation_engine_disagreement">>
         /\ review_required' = TRUE /\ review_reasons' # {}
  BY DEF CorroborateEquation, Review
<1>4. consensus' \in ConsensusState /\ quarantine_reason' \in Seq(Reason) /\ QuarantineIsExplained'
  <2>1. CASE UNCHANGED verdict
    BY <2>1 DEF IInv, Fields, QuarantineIsExplained, verdict
  <2>2. CASE ~UNCHANGED verdict
    <3>1. "equation_engine_disagreement" \in Reason
      BY DEF Reason
    <3> QED BY <1>3, <2>2, <3>1, FirstReason
  <2> QED BY <2>1, <2>2
<1>5. Fields' /\ RawIsRuns' /\ ValueHasSource'
  BY <1>1, <1>2, <1>4 DEF IInv, Fields, RawIsRuns, ValueHasSource, words, origin, Early
<1> QED BY <1>1, <1>4, <1>5 DEF IInv, Voted, AfterOcr, Verified, ValueIsVerified, OcrValueIsStopped, DissentIsStopped

LEMMA BackfillingOcr ==
  ASSUME IInv, BackfillOcr
  PROVE  IInv'
<1>1. pass = "ocr" /\ pass' = "votes" /\ UNCHANGED words /\ UNCHANGED origin
  BY DEF BackfillOcr, Pass
<1>2. primary \in Parser /\ OcrTextEngines \ {primary} \in SUBSET Parser
  BY DEF OcrTextEngines, Parser, GENUINE_TEXT_PARSERS, IInv, Fields
<1>3. DOMAIN parsers' \subseteq Parser
  <2>1. CASE UNCHANGED parsers
    BY <2>1 DEF IInv, Fields
  <2>2. CASE \E answers \in Candidates(OcrTextEngines \ {primary}) :
               parsers' = Joined(Joined([p \in {primary} |-> text], parsers), Given(answers))
    <3>1. PICK answers \in Candidates(OcrTextEngines \ {primary}) :
               parsers' = Joined(Joined([p \in {primary} |-> text], parsers), Given(answers))
      BY <2>2
    <3>2. DOMAIN Given(answers) \subseteq Parser
      BY <1>2 DEF Given, Candidates
    <3> QED BY <1>2, <3>1, <3>2 DEF Joined, IInv, Fields
  <2> QED BY <2>1, <2>2 DEF BackfillOcr
<1>4. \/ UNCHANGED verdict
      \/ /\ consensus' = "quarantined" /\ quarantine_reason' = <<"ocr_derived_parameter">>
         /\ review_required' = TRUE /\ review_reasons' # {}
  BY DEF BackfillOcr, Review
<1>5. Scanned /\ text # NoReading /\ parameters # NoReading => consensus' = "quarantined"
  BY DEF BackfillOcr, verdict
<1>6. consensus' \in ConsensusState /\ quarantine_reason' \in Seq(Reason) /\ QuarantineIsExplained'
  <2>1. CASE UNCHANGED verdict
    BY <2>1 DEF IInv, Fields, QuarantineIsExplained, verdict
  <2>2. CASE ~UNCHANGED verdict
    <3>1. "ocr_derived_parameter" \in Reason
      BY DEF Reason
    <3> QED BY <1>4, <2>2, <3>1, FirstReason
  <2> QED BY <2>1, <2>2
<1>7. Fields' /\ RawIsRuns' /\ ValueHasSource'
  BY <1>1, <1>3, <1>6 DEF IInv, Fields, RawIsRuns, ValueHasSource, words, origin, Early
<1>8. OcrValueIsStopped'
  <2>1. Scanned' <=> Scanned
    BY <1>1 DEF Scanned, classify_page, origin, OCR_PAGE_CLASSES
  <2> QED BY <1>1, <1>5, <2>1 DEF OcrValueIsStopped, words
<1> QED BY <1>1, <1>6, <1>7, <1>8 DEF IInv, Voted, Verified, ValueIsVerified, DissentIsStopped

\* A pass after the vote that may quarantine, with nothing else to change.
LEMMA Gating ==
  ASSUME IInv, pass \in Voted, pass' \in Voted, UNCHANGED words, UNCHANGED origin,
         UNCHANGED parsers, NEW fails \in BOOLEAN, NEW reason \in Reason, Gate(fails, reason),
         pass' \in Verified /\ parameters # NoReading /\ runs = NoReading
           => fails \/ consensus = "quarantined"
  PROVE  IInv'
<1>1. consensus = "quarantined" \/ fails => consensus' = "quarantined"
  BY DEF Gate, quarantine, verdict
<1>2. consensus' # "quarantined" => consensus' = consensus
  BY DEF Gate, quarantine, verdict
<1>3. Fields' /\ QuarantineIsExplained'
  <2>1. CASE fails
    <3>1. quarantine(reason) /\ quarantine_reason \in Seq(Reason)
      BY <2>1 DEF Gate, IInv, Fields
    <3> QED BY <3>1, QuarantineExplains DEF IInv, Fields, QuarantineIsExplained, words, origin,
            ConsensusState
  <2>2. CASE ~fails
    BY <2>2 DEF Gate, IInv, Fields, QuarantineIsExplained, words, origin, verdict
  <2> QED BY <2>1, <2>2
<1>4. RawIsRuns' /\ ValueHasSource'
  BY DEF IInv, RawIsRuns, ValueHasSource, words, origin, Voted, Early
<1>5. ValueIsVerified'
  BY <1>1 DEF ValueIsVerified, words
<1>6. OcrValueIsStopped'
  <2>1. Scanned' <=> Scanned
    BY DEF Scanned, classify_page, origin, OCR_PAGE_CLASSES
  <2> QED BY <1>1, <2>1 DEF IInv, OcrValueIsStopped, words, AfterOcr
<1>7. DissentIsStopped'
  <2>1. (is_normative)' <=> is_normative
    BY DEF is_normative, words
  <2> QED BY <1>2, <2>1 DEF IInv, DissentIsStopped, normalize_for_compare, Tight
<1> QED BY <1>3, <1>4, <1>5, <1>6, <1>7 DEF IInv
LEMMA Voting ==
  ASSUME IInv, ApplyTextConsensus
  PROVE  IInv'
<1>1. /\ pass = "votes" /\ pass' = "header_footer"
      /\ UNCHANGED words /\ UNCHANGED origin /\ UNCHANGED parsers
  BY DEF ApplyTextConsensus, Pass
<1>2. \/ UNCHANGED verdict
      \/ consensus # "quarantined" /\ quarantine("consensus_dissent")
      \/ /\ consensus # "quarantined" /\ consensus' = "majority"
         /\ UNCHANGED <<quarantine_reason, review_required>>
  BY DEF ApplyTextConsensus, Settle
<1>3. consensus = "quarantined" => consensus' = "quarantined"
  BY <1>2 DEF quarantine, verdict
<1>4. Fields' /\ QuarantineIsExplained'
  <2>1. CASE quarantine("consensus_dissent")
    <3>1. "consensus_dissent" \in Reason /\ quarantine_reason \in Seq(Reason)
      BY DEF Reason, IInv, Fields
    <3> QED BY <1>1, <2>1, <3>1, QuarantineExplains
         DEF IInv, Fields, QuarantineIsExplained, words, origin, ConsensusState
  <2>2. CASE UNCHANGED verdict
    BY <1>1, <2>2 DEF IInv, Fields, QuarantineIsExplained, words, origin, verdict
  <2>3. CASE /\ consensus # "quarantined" /\ consensus' = "majority"
             /\ UNCHANGED <<quarantine_reason, review_required>>
    BY <1>1, <2>3 DEF IInv, Fields, QuarantineIsExplained, words, origin, ConsensusState
  <2> QED BY <1>2, <2>1, <2>2, <2>3
<1>5. RawIsRuns' /\ ValueHasSource'
  BY <1>1 DEF IInv, RawIsRuns, ValueHasSource, words, origin, Early
<1>6. ValueIsVerified'
  BY <1>1 DEF ValueIsVerified, Verified
<1>7. OcrValueIsStopped'
  <2>1. Scanned' <=> Scanned
    BY <1>1 DEF Scanned, classify_page, origin, OCR_PAGE_CLASSES
  <2> QED BY <1>1, <1>3, <2>1 DEF IInv, OcrValueIsStopped, words, AfterOcr
<1>8. DissentIsStopped'
  <2>1. (is_normative)' <=> is_normative
    BY <1>1 DEF is_normative, words
  <2>2. SUFFICES ASSUME is_normative, consensus' # "quarantined",
                        NEW p \in DOMAIN parsers \cap GENUINE_TEXT_PARSERS,
                        NEW q \in DOMAIN parsers \cap GENUINE_TEXT_PARSERS
                 PROVE  normalize_for_compare(parsers[p]) = normalize_for_compare(parsers[q])
    BY <1>1, <2>1 DEF DissentIsStopped, normalize_for_compare, Tight
  <2> QED BY <1>3, <2>2, VoteOnNormative DEF IInv
<1> QED BY <1>4, <1>5, <1>6, <1>7, <1>8 DEF IInv

\* The header repair takes lines out of the text, and leaves its values in.
LEMMA Repairing ==
  ASSUME IInv, HeaderFooter
  PROVE  IInv'
<1>1. /\ pass = "header_footer" /\ pass' = "run_integrity" /\ UNCHANGED origin
      /\ UNCHANGED <<raw, runs, latex, parameters, normative, parsers>> /\ UNCHANGED verdict
  BY DEF HeaderFooter, Pass
<1>2. /\ text' \in Readings \cup {NoReading}
      /\ text = NoReading <=> text' = NoReading
      /\ text # NoReading => text'.glyphs = text.glyphs
  BY HeaderIsNoGlyph DEF HeaderFooter, IInv, Fields
<1>3. Fields' /\ QuarantineIsExplained' /\ RawIsRuns'
  BY <1>1, <1>2 DEF IInv, Fields, QuarantineIsExplained, RawIsRuns, origin, verdict
<1>4. ValueHasSource'
  BY <1>1, <1>2 DEF IInv, ValueHasSource, origin, Early
<1>5. ValueIsVerified'
  BY <1>1 DEF ValueIsVerified, Verified
<1>6. OcrValueIsStopped'
  <2>1. Scanned' <=> Scanned
    BY <1>1 DEF Scanned, classify_page, origin, OCR_PAGE_CLASSES
  <2> QED BY <1>1, <1>2, <2>1 DEF IInv, OcrValueIsStopped, verdict, AfterOcr, Voted
<1>7. DissentIsStopped'
  <2>1. (is_normative)' <=> is_normative
    BY <1>1 DEF is_normative
  <2>2. pass \in Voted /\ consensus' = consensus
    BY <1>1 DEF Voted, verdict
  <2> QED BY <1>1, <2>1, <2>2 DEF IInv, DissentIsStopped, normalize_for_compare, Tight
<1> QED BY <1>3, <1>4, <1>5, <1>6, <1>7 DEF IInv

\* A value without runs has the text's glyphs, which hold digits: it is stopped.
LEMMA CheckingRuns ==
  ASSUME IInv, RunIntegrity
  PROVE  IInv'
<1>1. /\ pass \in Voted /\ pass' \in Voted
      /\ UNCHANGED words /\ UNCHANGED origin /\ UNCHANGED parsers
      /\ Gate(Unverifiable, "run_integrity") /\ "run_integrity" \in Reason
  BY DEF RunIntegrity, Pass, Voted, Reason
<1>2. parameters # NoReading /\ runs = NoReading => Unverifiable
  <2>1. SUFFICES ASSUME parameters # NoReading, runs = NoReading PROVE Unverifiable
    OBVIOUS
  <2>2. kind = "paragraph" /\ raw = NoReading /\ text # NoReading
        /\ text.glyphs = parameters.glyphs /\ parameters.glyphs \in Limits
    BY <2>1 DEF IInv, RawIsRuns, ValueHasSource
  <2> QED BY <2>1, <2>2, AdmissionAssumption DEF Unverifiable
<1>3. Unverifiable \in BOOLEAN
  BY DEF Unverifiable
<1> QED BY <1>1, <1>2, <1>3, Gating

LEMMA CheckingNumbers ==
  ASSUME IInv, Numbering
  PROVE  IInv'
<1>1. /\ pass \in Voted /\ pass' \in Voted /\ pass \in Verified
      /\ UNCHANGED words /\ UNCHANGED origin /\ UNCHANGED parsers /\ "numbering" \in Reason
  BY DEF Numbering, Pass, Voted, Verified, Reason
<1>2. PICK broken \in BOOLEAN : Gate(broken /\ kind # "equation", "numbering")
  BY DEF Numbering
<1> QED BY <1>1, <1>2, Gating DEF IInv, ValueIsVerified

LEMMA CheckingUnits ==
  ASSUME IInv, Units
  PROVE  IInv'
<1> DEFINE fails == parameters # NoReading /\ (parameters.glyphs \in Incomplete \/ LosesSymbol)
<1>1. /\ pass \in Voted /\ pass' \in Voted /\ pass \in Verified
      /\ UNCHANGED words /\ UNCHANGED origin /\ UNCHANGED parsers /\ "units" \in Reason
  BY DEF Units, Pass, Voted, Verified, Reason
<1>2. fails \in BOOLEAN /\ Gate(fails, "units")
  BY DEF Units
<1> QED BY <1>1, <1>2, Gating DEF IInv, ValueIsVerified

LEMMA CheckingEquations ==
  ASSUME IInv, EquationIntegrity
  PROVE  IInv'
<1> DEFINE fails == kind = "equation" /\ (latex = NoReading \/ latex.glyphs \in Truncated)
<1>1. /\ pass \in Voted /\ pass' \in Voted /\ pass \in Verified
      /\ UNCHANGED words /\ UNCHANGED origin /\ UNCHANGED parsers /\ "equations" \in Reason
  BY DEF EquationIntegrity, Pass, Voted, Verified, Reason
<1>2. fails \in BOOLEAN /\ Gate(fails, "equations")
  BY DEF EquationIntegrity
<1> QED BY <1>1, <1>2, Gating DEF IInv, ValueIsVerified

LEMMA CheckingReferences ==
  ASSUME IInv, CrossReference
  PROVE  IInv'
<1>1. /\ pass \in Voted /\ pass' \in Voted /\ pass \in Verified
      /\ UNCHANGED words /\ UNCHANGED origin /\ UNCHANGED parsers /\ "cross_reference" \in Reason
  BY DEF CrossReference, Pass, Voted, Verified, Reason
<1>2. PICK dangling \in BOOLEAN :
        Gate(dangling /\ text # NoReading /\ kind # "equation", "cross_reference")
  BY DEF CrossReference
<1> QED BY <1>1, <1>2, Gating DEF IInv, ValueIsVerified

---------------------------------------------------------------------------
\* The reasons above hold together through every pass of assemble.py's
\* assemble and of gates.run_all, whatever the engines answer.
THEOREM AdmissionInvariant == Spec => []IInv
<1>1. Init => IInv
  <2>1. SUFFICES ASSUME Init PROVE IInv
    OBVIOUS
  <2>2. Fields
    <3>1. <<>> \in Seq(Reason) /\ DOMAIN <<>> = {}
      OBVIOUS
    <3> QED BY <2>1, <3>1 DEF Init, Fields, Parser, GENUINE_TEXT_PARSERS, ConsensusState
  <2>3. QuarantineIsExplained
    BY <2>1 DEF Init, QuarantineIsExplained
  <2> QED BY <2>1, <2>2, <2>3 DEF Init, IInv, RawIsRuns, ValueHasSource, ValueIsVerified, Verified,
          Voted, AfterOcr, OcrValueIsStopped, DissentIsStopped
<1>2. IInv /\ [Next]_vars => IInv'
  <2>1. SUFFICES ASSUME IInv, [Next]_vars PROVE IInv'
    OBVIOUS
  <2>2. CASE UNCHANGED vars
    <3>1. Scanned' <=> Scanned
      BY <2>2 DEF Scanned, classify_page, vars, origin, OCR_PAGE_CLASSES
    <3>2. (is_normative)' <=> is_normative
      BY <2>2 DEF is_normative, vars, words
    <3> QED BY <2>1, <2>2, <3>1, <3>2
         DEF vars, words, origin, verdict, IInv, Fields, QuarantineIsExplained, RawIsRuns,
             ValueHasSource, ValueIsVerified, OcrValueIsStopped, DissentIsStopped,
             normalize_for_compare, Tight
  <2> QED BY <2>1, <2>2, Triaging, BackfillingRuns, Canonicalizing, Classifying,
          AnnotatingParameters, Corroborating, BackfillingOcr, Voting, Repairing, CheckingRuns,
          CheckingNumbers, CheckingUnits, CheckingEquations, CheckingReferences
       DEF Next
<1> QED BY <1>1, <1>2, PTL DEF Spec

\* A normative object is not admitted over a dissent between transcriptions
\* that count: assemble.py's _apply_text_consensus with consensus.reconcile_text,
\* after whatever the equation and OCR lanes did and before all gates.
THEOREM DissentStopped == Spec => []NormativeDissentIsStopped
<1>1. IInv => NormativeDissentIsStopped
  BY DEF IInv, DissentIsStopped, NormativeDissentIsStopped, Voters, Voted
<1> QED BY <1>1, AdmissionInvariant, PTL

\* A value transcribed on a scanned page waits for a human, whatever
\* _ocr_text_engines returns and each engine answers.
THEOREM OcrValueStopped == Spec => []OcrValueIsQuarantined
<1>1. IInv => OcrValueIsQuarantined
  BY DEF IInv, OcrValueIsStopped, OcrValueIsQuarantined, AfterOcr, Voted
<1> QED BY <1>1, AdmissionInvariant, PTL

\* An admitted value was in the page's own text layer (gates/run_integrity.py).
THEOREM ValueSeen == Spec => []AdmittedValueHasRuns
<1>1. IInv => AdmittedValueHasRuns
  BY DEF IInv, ValueIsVerified, AdmittedValueHasRuns, Verified, Voted
<1> QED BY <1>1, AdmissionInvariant, PTL

\* A quarantine has a reason and is up for review, and nothing else has one.
THEOREM QuarantineExplained == Spec => []QuarantineIsExplained
<1>1. IInv => QuarantineIsExplained
  BY DEF IInv
<1> QED BY <1>1, AdmissionInvariant, PTL
---------------------------------------------------------------------------
\* Two lanes write instead of adding; they come before anything they could lose.
NothingToLose ==
  /\ pass \in Early \cup {"equations"} => consensus # "quarantined"
  /\ pass \in {"triage", "runs"} => DOMAIN parsers = {}
  /\ pass = "canonical" => DOMAIN parsers \subseteq {"pymupdf", "docling"}

THEOREM NothingLostBefore == Spec => []NothingToLose
<1>1. Init => NothingToLose
  BY DEF Init, NothingToLose
<1>2. NothingToLose /\ [Next]_vars => NothingToLose'
  <2>1. SUFFICES ASSUME NothingToLose, Next PROVE NothingToLose'
    BY DEF NothingToLose, vars, verdict
  <2>2. CASE ApplyTriage
    BY <2>1, <2>2 DEF ApplyTriage, Pass, NothingToLose, Early, verdict, Review
  <2>3. CASE BackfillRuns
    <3>1. DOMAIN parsers' \subseteq {"pymupdf", "docling"}
      BY <2>1, <2>3 DEF BackfillRuns, Pass, NothingToLose, Joined
    <3> QED BY <2>1, <2>3, <3>1 DEF BackfillRuns, Pass, NothingToLose, Early, verdict
  <2>4. CASE CanonicalizeEquation
    BY <2>1, <2>4 DEF CanonicalizeEquation, Pass, NothingToLose, Early, verdict
  <2>5. CASE ClassifyType
    BY <2>1, <2>5 DEF ClassifyType, Pass, NothingToLose, Early, verdict
  <2>6. CASE AnnotateParameters
    BY <2>1, <2>6 DEF AnnotateParameters, Pass, NothingToLose, Early, verdict, Review
  <2>7. CASE pass' \in Voted \cup {"ocr", "votes"}
    BY <2>7 DEF NothingToLose, Early, Voted
  <2> QED BY <2>1, <2>2, <2>3, <2>4, <2>5, <2>6, <2>7
       DEF Next, Pass, Voted, CorroborateEquation, BackfillOcr, ApplyTextConsensus, HeaderFooter,
           RunIntegrity, Numbering, Units, EquationIntegrity, CrossReference
<1> QED BY <1>1, <1>2, PTL DEF Spec

\* A step leaves a quarantined object's verdict alone or adds one reason to it.
LEMMA QuarantineStays ==
  ASSUME NothingToLose, [Next]_vars, consensus = "quarantined"
  PROVE  /\ consensus' = "quarantined"
         /\ \/ UNCHANGED quarantine_reason
            \/ \E reason \in Reason : quarantine(reason)
<1>1. CASE UNCHANGED <<consensus, quarantine_reason>>
  BY <1>1
<1>2. CASE \E fails \in BOOLEAN, reason \in Reason : Gate(fails, reason)
  BY <1>2 DEF Gate, quarantine, verdict
<1>3. UNCHANGED vars => UNCHANGED <<consensus, quarantine_reason>>
  BY DEF vars, verdict
<1>4. ApplyTriage \/ BackfillRuns \/ CanonicalizeEquation \/ ClassifyType \/ AnnotateParameters
        \/ ApplyTextConsensus \/ HeaderFooter => UNCHANGED <<consensus, quarantine_reason>>
  BY DEF ApplyTriage, BackfillRuns, CanonicalizeEquation, ClassifyType, AnnotateParameters,
         ApplyTextConsensus, HeaderFooter, verdict
<1>5. ~CorroborateEquation
  BY DEF NothingToLose, CorroborateEquation, Pass
<1>6. BackfillOcr => UNCHANGED <<consensus, quarantine_reason>>
  BY DEF BackfillOcr, verdict
<1>7. RunIntegrity => Gate(Unverifiable, "run_integrity") /\ Unverifiable \in BOOLEAN
  BY DEF RunIntegrity, Unverifiable
<1>8. Units => \E fails \in BOOLEAN : Gate(fails, "units")
  <2> DEFINE fails == parameters # NoReading /\ (parameters.glyphs \in Incomplete \/ LosesSymbol)
  <2>1. Units => fails \in BOOLEAN /\ Gate(fails, "units")
    BY DEF Units
  <2> QED BY <2>1
<1>9. EquationIntegrity => \E fails \in BOOLEAN : Gate(fails, "equations")
  <2> DEFINE fails == kind = "equation" /\ (latex = NoReading \/ latex.glyphs \in Truncated)
  <2>1. EquationIntegrity => fails \in BOOLEAN /\ Gate(fails, "equations")
    BY DEF EquationIntegrity
  <2> QED BY <2>1
<1>10. Numbering => \E fails \in BOOLEAN : Gate(fails, "numbering")
  BY DEF Numbering
<1>11. CrossReference => \E fails \in BOOLEAN : Gate(fails, "cross_reference")
  <2>1. SUFFICES ASSUME CrossReference PROVE \E fails \in BOOLEAN : Gate(fails, "cross_reference")
    OBVIOUS
  <2>2. PICK dangling \in BOOLEAN :
          Gate(dangling /\ text # NoReading /\ kind # "equation", "cross_reference")
    BY <2>1 DEF CrossReference
  <2>3. (dangling /\ text # NoReading /\ kind # "equation") \in BOOLEAN
    OBVIOUS
  <2> QED BY <2>2, <2>3
<1> QED BY <1>1, <1>2, <1>3, <1>4, <1>5, <1>6, <1>7, <1>8, <1>9, <1>10, <1>11 DEF Next, Reason

\* Nothing is taken out of the review queue: a quarantined object stays so and
\* keeps its reasons in order, though each pass of assemble.py writes its own.
THEOREM QuarantineStaysFinal == Spec => QuarantineIsFinal
<1> DEFINE Kept ==
      consensus = "quarantined" =>
        /\ consensus' = "quarantined"
        /\ \E added \in 0 .. 1 :
             /\ Len(quarantine_reason') = Len(quarantine_reason) + added
             /\ \A i \in DOMAIN quarantine_reason : quarantine_reason'[i] = quarantine_reason[i]
<1>1. IInv /\ NothingToLose /\ [Next]_vars => [Kept]_vars
  <2>1. SUFFICES ASSUME IInv, NothingToLose, [Next]_vars, consensus = "quarantined" PROVE Kept
    OBVIOUS
  <2>2. quarantine_reason \in Seq(Reason)
    BY <2>1 DEF IInv, Fields
  <2>3. CASE UNCHANGED quarantine_reason
    <3>1. 0 \in 0 .. 1 /\ Len(quarantine_reason') = Len(quarantine_reason) + 0
      BY <2>2, <2>3
    <3> QED BY <2>1, <2>3, <3>1, QuarantineStays
  <2>4. CASE \E reason \in Reason : quarantine(reason)
    <3>1. 1 \in 0 .. 1
      OBVIOUS
    <3> QED BY <2>2, <2>4, <3>1, QuarantineExplains
  <2> QED BY <2>1, <2>3, <2>4, QuarantineStays
<1> QED BY <1>1, AdmissionInvariant, NothingLostBefore, PTL DEF Spec, QuarantineIsFinal

\* What an engine said is kept through every lane (assemble.py asks an engine
\* again for the same object only when it has not answered before).
THEOREM AllCandidatesKept == Spec => CandidatesKept
<1> DEFINE Kept == \A p \in DOMAIN parsers : p \in DOMAIN parsers' /\ parsers'[p] = parsers[p]
<1>1. NothingToLose /\ [Next]_vars => [Kept]_vars
  <2>1. SUFFICES ASSUME NothingToLose, Next PROVE Kept \/ UNCHANGED parsers
    BY DEF vars
  <2>2. CASE BackfillRuns
    BY <2>1, <2>2 DEF BackfillRuns, Pass, NothingToLose
  <2>3. CASE CanonicalizeEquation
    BY <2>1, <2>3 DEF CanonicalizeEquation, Pass, NothingToLose, Joined
  <2>4. CASE CorroborateEquation
    <3>1. CASE \E answers \in Candidates(EquationEngines) : parsers' = Joined(parsers, Given(answers))
      BY <3>1 DEF Joined, Given, Candidates
    <3> QED BY <2>4, <3>1 DEF CorroborateEquation
  <2>5. CASE BackfillOcr
    <3>1. CASE \E answers \in Candidates(OcrTextEngines \ {primary}) :
                 parsers' = Joined(Joined([p \in {primary} |-> text], parsers), Given(answers))
      BY <3>1 DEF Joined, Given, Candidates
    <3> QED BY <2>5, <3>1 DEF BackfillOcr
  <2> QED BY <2>1, <2>2, <2>3, <2>4, <2>5
       DEF Next, ApplyTriage, ClassifyType, AnnotateParameters, ApplyTextConsensus, HeaderFooter,
           RunIntegrity, Numbering, Units, EquationIntegrity, CrossReference
<1> QED BY <1>1, NothingLostBefore, PTL DEF Spec, CandidatesKept

---------------------------------------------------------------------------
\* What TypeOK says beyond Fields and RawIsRuns.
Marks ==
  /\ pass \in Steps /\ page \in Page
  /\ normative \in BOOLEAN /\ review_required \in BOOLEAN

\* No parser is recorded with a silence.
CandidatesSpeak == \A p \in DOMAIN parsers : parsers[p] \in Readings

LEMMA StepNames ==
  /\ {"triage", "runs", "canonical", "classify", "parameters", "equations", "ocr"} \subseteq Steps
  /\ {"votes", "header_footer", "run_integrity", "numbering", "units"} \subseteq Steps
  /\ {"equation_integrity", "cross_reference", "done"} \subseteq Steps
<1>1. ASSUME NEW i \in 1 .. 15
      PROVE  i \in DOMAIN Order
  BY DEF Order
<1>2. /\ Order[1] = "triage" /\ Order[2] = "runs" /\ Order[3] = "canonical"
      /\ Order[4] = "classify" /\ Order[5] = "parameters" /\ Order[6] = "equations"
      /\ Order[7] = "ocr" /\ Order[8] = "votes" /\ Order[9] = "header_footer"
      /\ Order[10] = "run_integrity" /\ Order[11] = "numbering" /\ Order[12] = "units"
      /\ Order[13] = "equation_integrity" /\ Order[14] = "cross_reference" /\ Order[15] = "done"
  BY DEF Order
<1>3. \A i \in 1 .. 15 : Order[i] \in Steps
  BY <1>1 DEF Steps
<1> QED
  BY <1>2, <1>3

LEMMA JoinedSpeak ==
  ASSUME NEW kept, NEW new,
         \A p \in DOMAIN kept : kept[p] \in Readings,
         \A p \in DOMAIN new : new[p] \in Readings
  PROVE  \A p \in DOMAIN Joined(kept, new) : Joined(kept, new)[p] \in Readings
  BY DEF Joined

LEMMA GivenSpeak ==
  ASSUME NEW engines, NEW answers \in Candidates(engines)
  PROVE  \A p \in DOMAIN Given(answers) : Given(answers)[p] \in Readings
  BY DEF Given, Candidates

LEMMA CandidatesGoOnSpeaking ==
  ASSUME Fields, CandidatesSpeak, Next
  PROVE  CandidatesSpeak'
<1>1. CASE UNCHANGED parsers
  BY <1>1 DEF CandidatesSpeak
<1>2. CASE BackfillRuns /\ ~UNCHANGED parsers
  <2>1. PICK found \in Readings :
          parsers' = Joined(parsers, [p \in {"pymupdf"} \cup (IF text = NoReading THEN {}
                                                              ELSE {"docling"})
                                      |-> IF p = "pymupdf" THEN found ELSE text])
    BY <1>2 DEF BackfillRuns
  <2> DEFINE new == [p \in {"pymupdf"} \cup (IF text = NoReading THEN {} ELSE {"docling"})
                     |-> IF p = "pymupdf" THEN found ELSE text]
  <2>2. \A p \in DOMAIN new : new[p] \in Readings
    BY DEF Fields
  <2>3. parsers' = Joined(parsers, new)
    BY <2>1
  <2> HIDE DEF new
  <2> QED
    BY <2>2, <2>3, JoinedSpeak DEF CandidatesSpeak
<1>3. CASE CanonicalizeEquation /\ ~UNCHANGED parsers
  <2> DEFINE new == [p \in {"docling_formula"} |-> canonicalize_latex(latex)]
  <2>1. parsers' = Joined(parsers, new) /\ latex \in Readings
    BY <1>3 DEF CanonicalizeEquation, Fields
  <2>2. \A p \in DOMAIN new : new[p] \in Readings
    BY <2>1, AdmissionAssumption
  <2> HIDE DEF new
  <2> QED
    BY <2>1, <2>2, JoinedSpeak DEF CandidatesSpeak
<1>4. CASE CorroborateEquation /\ ~UNCHANGED parsers
  <2>1. PICK answers \in Candidates(EquationEngines) : parsers' = Joined(parsers, Given(answers))
    BY <1>4 DEF CorroborateEquation
  <2> QED
    BY <2>1, GivenSpeak, JoinedSpeak DEF CandidatesSpeak
<1>5. CASE BackfillOcr /\ ~UNCHANGED parsers
  <2> DEFINE own == [p \in {primary} |-> text]
  <2>1. text # NoReading
    BY <1>5 DEF BackfillOcr
  <2>2. PICK answers \in Candidates(OcrTextEngines \ {primary}) :
          parsers' = Joined(Joined(own, parsers), Given(answers))
    BY <1>5 DEF BackfillOcr
  <2>3. \A p \in DOMAIN own : own[p] \in Readings
    BY <2>1 DEF Fields
  <2> HIDE DEF own
  <2>4. \A p \in DOMAIN Joined(own, parsers) : Joined(own, parsers)[p] \in Readings
    BY <2>3, JoinedSpeak DEF CandidatesSpeak
  <2> QED
    BY <2>2, <2>4, GivenSpeak, JoinedSpeak DEF CandidatesSpeak
<1> QED
  BY <1>1, <1>2, <1>3, <1>4, <1>5
  DEF Next, ApplyTriage, ClassifyType, AnnotateParameters, ApplyTextConsensus, HeaderFooter,
      RunIntegrity, Numbering, Units, EquationIntegrity, CrossReference

LEMMA MarksStay ==
  ASSUME Marks, Next
  PROVE  Marks'
<1>1. pass' \in Steps /\ UNCHANGED page
  BY StepNames
  DEF Next, Pass, origin, ApplyTriage, BackfillRuns, CanonicalizeEquation, ClassifyType,
      AnnotateParameters, CorroborateEquation, BackfillOcr, ApplyTextConsensus, HeaderFooter,
      RunIntegrity, Numbering, Units, EquationIntegrity, CrossReference
<1>2. normative' \in BOOLEAN
  BY DEF Marks, words, Next, ApplyTriage, BackfillRuns, CanonicalizeEquation, ClassifyType,
      AnnotateParameters, CorroborateEquation, BackfillOcr, ApplyTextConsensus, HeaderFooter,
      RunIntegrity, Numbering, Units, EquationIntegrity, CrossReference
<1>3. review_required' = TRUE \/ UNCHANGED review_required
  BY DEF verdict, Review, Gate, Settle, quarantine,
      Next, ApplyTriage, BackfillRuns, CanonicalizeEquation, ClassifyType,
      AnnotateParameters, CorroborateEquation, BackfillOcr, ApplyTextConsensus, HeaderFooter,
      RunIntegrity, Numbering, Units, EquationIntegrity, CrossReference
<1> QED
  BY <1>1, <1>2, <1>3 DEF Marks

\* Every field keeps its type through all passes: no lane records an engine's
\* silence as a candidate, and no pass leaves the pipeline's order.
THEOREM AdmissionTypes == Spec => []TypeOK
<1>1. Init => Marks /\ CandidatesSpeak
  <2>1. Init => Marks
    BY StepNames DEF Init, Marks
  <2>2. DOMAIN <<>> = {}
    OBVIOUS
  <2>3. Init => CandidatesSpeak
    BY <2>2 DEF Init, CandidatesSpeak
  <2> QED
    BY <2>1, <2>3
<1>2. IInv /\ Marks /\ CandidatesSpeak /\ [Next]_vars => Marks' /\ CandidatesSpeak'
  <2>1. CASE UNCHANGED vars
    BY <2>1 DEF vars, origin, words, verdict, Marks, CandidatesSpeak
  <2>2. CASE Next
    BY <2>2, MarksStay, CandidatesGoOnSpeaking DEF IInv
  <2> QED
    BY <2>1, <2>2
<1>3. IInv /\ Marks /\ CandidatesSpeak => TypeOK
  BY DEF IInv, Fields, RawIsRuns, Marks, CandidatesSpeak, TypeOK
<1> QED
  BY <1>1, <1>2, <1>3, AdmissionInvariant, PTL DEF Spec
=============================================================================
