---------------------------- MODULE SectionRoles ----------------------------
(***************************************************************************)
(* Which top-level sections are front or back matter                       *)
(* (app/pipeline/section_role_classifier.py).  A section is a record of    *)
(* the signals the classifier reads: label, its clause number; page; toc,  *)
(* captions and index, the shape scores of its lines in percent; brief,    *)
(* less than 400 characters of text; names, the roles whose dictionary     *)
(* knows its heading.                                                      *)
(***************************************************************************)
EXTENDS Integers, Sequences

CONSTANTS NoLabel, Annex   \* no clause number; an annex letter

\* A clause_id is NoLabel, Annex or the non-empty sequence of its numbers.
TOP_LEVEL_CLAUSE(label) == label \notin {NoLabel, Annex} /\ Len(label) = 1

\* In tenths of a percent a combined score must reach to exclude a section, and
\* in tenths the weight of the shape; the rest is the dictionary's.
THRESHOLDS ==
  [toc             |-> [shape |-> 8,  exclude_at |-> 550],
   list_of_figures |-> [shape |-> 7,  exclude_at |-> 550],
   list_of_tables  |-> [shape |-> 7,  exclude_at |-> 550],
   index           |-> [shape |-> 8,  exclude_at |-> 550],
   foreword        |-> [shape |-> 2,  exclude_at |-> 650],
   title_page      |-> [shape |-> 10, exclude_at |-> 900],
   preface         |-> [shape |-> 2,  exclude_at |-> 750]]
Role == DOMAIN THRESHOLDS
NearMiss == 300

looks_like_title_page(s, first) == IF first /\ s.page <= 1 /\ s.brief THEN 100 ELSE 0

\* The roles a zone offers, in the order they are tried, with their shape scores.
Candidates(s, zone, first) ==
  IF zone = "front"
  THEN << <<"toc", s.toc>>, <<"list_of_figures", s.captions>>,
          <<"list_of_tables", s.captions>>,
          <<"title_page", looks_like_title_page(s, first)>>,
          <<"foreword", 0>>, <<"preface", 0>> >>
  ELSE << <<"index", s.index>> >>

Score(s, candidate) ==
  LET weight == THRESHOLDS[candidate[1]].shape
  IN  weight * candidate[2]
        + (IF candidate[1] \in s.names THEN 100 * (10 - weight) ELSE 0)

\* Of the candidates with the best score the first one wins.
BestCandidate(s, zone, first) ==
  LET candidates == Candidates(s, zone, first)
      score(i) == Score(s, candidates[i])
      best == CHOOSE i \in DOMAIN candidates :
                /\ \A j \in DOMAIN candidates : score(j) <= score(i)
                /\ \A j \in 1 .. (i - 1) : score(j) < score(i)
  IN  [role |-> candidates[best][1], score |-> score(best)]

\* Mutation: the body is not protected.
ClassifyInAnyZone(s, zone, first) ==
  LET best == BestCandidate(s, zone, first)
  IN  IF best.score >= THRESHOLDS[best.role].exclude_at
      THEN [role |-> best.role, review |-> best.role = "preface"]
      ELSE [role |-> "normative", review |-> best.score > NearMiss]

classify_section(s, zone, first) ==
  LET best == BestCandidate(s, zone, first)
  IN  IF zone = "body"
      THEN [role |-> "normative", review |-> FALSE]
      ELSE IF best.score >= THRESHOLDS[best.role].exclude_at
      THEN [role |-> best.role, review |-> best.role = "preface"]
      ELSE [role |-> "normative", review |-> best.score > NearMiss]

\* The zones, from the labels and the index scores of the sections in order.
\* One past the end when no section starts the numbered body.
find_body_start_index(labels) ==
  LET starts == {i \in DOMAIN labels : TOP_LEVEL_CLAUSE(labels[i])}
  IN  IF starts = {} THEN Len(labels) + 1
      ELSE CHOOSE i \in starts : \A j \in starts : i <= j

find_back_zone_start(indexes) ==
  CHOOSE i \in 1 .. (Len(indexes) + 1) :
    /\ \A j \in i .. Len(indexes) : indexes[j] >= 50
    /\ i = 1 \/ indexes[i - 1] < 50

Zones(labels, indexes) ==
  LET body == find_body_start_index(labels)
      back == find_back_zone_start(indexes)
  IN  [i \in DOMAIN labels |->
         IF i < body THEN "front" ELSE IF i >= back THEN "back" ELSE "body"]
==============================================================================
