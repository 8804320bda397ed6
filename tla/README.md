# doc-intel: models, model checking and proofs

A TLA+ development for the ingestion engine of this repository: PDFs of
electromagnetic-compatibility standards come in, a *canonical edition* (a tree
of typed nodes, each with provenance and a consensus state) and the page images
come out. The engine's promise is not that it reads everything rightly but that
what it is unsure of goes to a review queue, that nothing is silently lost, and
that a call may be repeated, by several processes, over one store. Those are
the behaviours modelled here.

Every definition is translated from the source; `PROJECT.json` ("map") gives the
file and the lines of each. Paths below are relative to the repository.

## 1. The system

| component | state it keeps | operations | talks to |
|---|---|---|---|
| artifact store (`app/store/artifact_store.py`) | files under `ARTIFACT_STORE_PATH`: one edition and page images per key `sha256+version`, and temporary files | `put_edition`, `put_page_image`, `exists`, `list_page_images` | called by every process; the only shared state between processes |
| parse service (`app/api.py`, `app/pipeline/run.py`, `app/cli/evaluate_dir.py`, `app/version.py`) | a semaphore per process, requests under way, environment | the handlers, the CLI's pool, `process_pdf` | store, assembly |
| assembly (`app/pipeline/assemble.py`) | the tree, rebuilt by each pass | about twenty passes in a fixed order | everything below |
| clause topology (`topology.py`) | tree, clause numbers, a stack of open clauses | merge split numbers, assign ids, hoist, nest | assembly |
| section roles (`section_role_classifier.py`, `rulepacks/`) | role and status of each top-level section | zones, scores, choice | between assigning ids and hoisting |
| consensus and gates (`consensus.py`, `gates/`) | `parsers`, `consensus`, `quarantine_reason`, `review_*` of a node | votes and eight gates | engines' candidates |
| tables (`caption_attach.py`, `continuity.py`, `nested_table.py`, `table_geometry.py`, `extract_pdfplumber.py`) | siblings, cells, links between fragments | attach, stitch, header paths, grid vote, two gates | pdfplumber's grids |
| second opinions (`engines/`, `deploy/sidecars/`) | a lazily loaded model per process, HTTP servers with one of their own | `available`, `recognize_*`, `post_image`, `do_POST` | parse threads, over HTTP |
| extraction (`extract_docling.py`) | a stack of open sections while the body is walked; the converter cache | convert, build the tree | Docling, assembly |
| cross-references, languages, equations, numbering gates, identity (`xref.py`, `lang.py`, `canon_equation.py`, `gates/`, `identity.py`) | resolved references, translation groups, limit equations, alarms, identifiers | one pass each over the finished tree | assembly |
| parameters and units (`parameters.py`, `canon_units.py`) | limits of a text, with comparator and condition | `parse_parameters` | admission |
| triage, runs | fields of the nodes | one pass each | assembly |
| scripts, evaluation, UI, document listing | none that outlives a run | | HTTP, editions |

**What is hard.** Several replicas and a batch CLI write one store without a
lock (interleaving, crash between two writes, same temporary name). A semaphore
must survive early returns, exceptions and restarts. Models load lazily under a
lock while other threads wait, loads fail, sidecars hang and die. And the
assembly itself, although sequential, is a chain of rewrites in which a later
pass reads what an earlier one decided: a number merged, a section excluded, a
table stitched or a candidate overwritten in the wrong order loses text or lets
an unverified limit value through. `PROJECT.json` ("hazards") lists each at its
line, with the properties aimed at it.

**What makes each component correct**, in a sentence: the *store* shows readers
only whole files, an edition before its images, and never takes one away; the
*service* answers "processed" only for complete documents and gives every permit
back; the *walk* over Docling's body files every item under the heading it stands below and
keeps the reading order; the *clause tree* keeps the order of the list it nests
and files a clause under the nearest open clause whose number is a prefix of its
own; *references, gaps and identifiers* are right about the finished tree, not
about the one they were read from; *section roles* never
exclude the normative body; *admission* lets no normative value through that
transcribers dispute, that comes from OCR, or that the text layer does not
show, and never takes anything out of quarantine; *parameters* read a limit in
the direction its words give; *tables* keep every data cell
and link or merge every continuation; *engines* are loaded once, answer all
threads alike, and neither block nor break a parse.

## 2. Modules

| module | models | how it corresponds to the code |
|---|---|---|
| `ArtifactStore` | `_atomic_write` of the store | `final`/`tmp`/`handle`: contents of final names, of temporary files (named by pid), and what each writer holds open. `OpenTmp` truncates, `WriteTmp` writes, `ReplaceTmp` renames (the handle then writes to the *final* name: that is what a rename does to an open file) |
| `EditionShelf` | nothing: the abstract promise | an edition or image appears whole, once an edition is there images follow in order, nothing disappears |
| `ParseService` | handlers, semaphore, `process_pdf`, CLI pool, restarts | one action per step between which another process may run: lookup, enqueue, permit, check, assemble, open/write/replace per file. `queue[p]` is the line of waiters of the process's semaphore, first in first out; `Acquire` serves its head. `INSTANCE EditionShelf WITH ...` is the refinement |
| `SectionRoles` | `classify_document` | pure operators over the flat list: zones, thresholds in percent, protected roles |
| `ClauseTree` | the passes of `topology.py`, with roles in between | `parent[i]` and `stack` for lists that are rebuilt; one action per loop iteration of nesting (`Pop`, `PlaceClause`, `PlaceBlock`, ...) |
| `Edition` | what `assemble()` does with the finished tree: `annotate_tree`, `annotate_computes_limit`, `link_translation_groups`, the numbering and cross-reference gates, `restamp_ids`. EXTENDS `ClauseTree` | `stage` is the pass that comes next; the gates judge the tree the earlier passes left; `Stamp(i)` is one call of `assign`, in reading order, with `seen` and `id` growing as the dictionaries do |
| `DoclingWalk` | `_build_tree` of `extract_docling.py` | `next` is the item the walk is at, `open` the stack of sections, `attach[i]` the node the children of item `i` go under (or nowhere); one action per branch (`PassOver`, `EnterGroup`, `AddLeaf`, `CloseSection`, `OpenSection`, `AddContent`). `body.captions` is any function of the constant `Claims`: every item may claim any captions, several of them, and one that another item or itself has claimed already |
| `Extraction` | from the walk to the assembly | `HandOver` takes any list of children the walk has left and gives it to `Tables` |
| `Parameters` | `parse_parameters` | pure operators on a text of words, frequency bands and values: windows around a value, tables of symbols and phrases in the order they are tried |
| `LimitReading` | `Admission` with texts for glyphs | what the passes and gates ask of a text is computed by `Parameters` |
| `Consensus` | `consensus.reconcile_text` and the comparison forms | a reading is what is compared: its glyphs, whether mark-up, loose white space, a header line are in it |
| `Admission` | one node's way through the lanes, the text vote and the gates, in the order of `assemble()` and `gates/__init__.py` | one action per pass; an engine's answer, and a gate's view of the *other* nodes, is a free choice |
| `Tables` | one list of siblings through attaching, stitching, header paths, grid vote, rectangularity and continuation gates | each pass walks the list once (`rest`, `done`), one action per branch of its loop |
| `Engines` | GLM-OCR (in process or Ollama) and a sidecar | `_state`/`_lock` on both sides, one action per step between which a thread can be preempted; timeouts, failing loads, hanging, death, restart |
| `ParseServiceProofs`, `PermitProofs`, `ClauseTreeProofs`, `EditionProofs`, `DoclingWalkProofs`, `TablesProofs`, `AdmissionProofs`, `EnginesProofs` | | the theorems |
| `MC*` | | instances for TLC: small vocabularies and constants |

Data is reduced to what decides a branch: a clause number is a sequence of
naturals, `Annex` or `NoLabel`; a text is where its number stands and how many
words it has; a limit's text is a sequence of words, bands and values; a cell is its place, spans and one of a few texts; the bytes of an
edition are the settings that produced them. Operators named `...Quietly`,
`...StopsShort`, `LoadFailsRetryable` and the like, commented as mutations, are
plausible bugs: each property is shown to fail when the definition they stand
next to is replaced by them (`PROJECT.json`, "mutants").

## 3. Runs

| run | instance and bounds | shows |
|---|---|---|
| `parse_service` | an API handler and a CLI thread in two processes, one one-page PDF, environments with two versions, a permit each; restarts anywhere | types; files at final names are whole; `processed` means complete; images follow their edition; an edition is under its own version; nothing complete is damaged; the store implements `EditionShelf` |
| `parse_live` | three handlers of one process on two permits, one accepted and one rejected PDF, no pages; fairness | permits are conserved; a queued request is answered, also when it has to wait for a permit while others come and go |
| `shared_tmp` (violation) | two handlers of *one* process with two permits | `PublishedIsWhole` fails, see 6 |
| `interrupted_parse` (violation) | one handler, one CLI thread, exceptions and restarts | `RetryIsSafe` fails, see 6 |
| `clause_tree` | all documents of four nodes over one of four vocabularies: nine kinds for the shape of the tree (section, clause, annex, contents, index, lone number, cover), six for numbers, nine for references and captions, seven for languages, equations and identical texts | order of the list, nearest open clause, clause under its prefix, body never excluded; references settled, gaps reported, sound numbering without alarm, distinct identifiers, limit equations marked |
| `lost_text` (violation) | three nodes, four kinds | `TextSurvives` fails, see 6 |
| `admission` | a paragraph, heading or equation, every class of page; readings that are right, mis-spaced, unmarked, with a header, wrong, or without comparator, as token texts | disputes, OCR values and unseen values are stopped; reasons exist; quarantine is final; candidates are kept |
| `inverted_limit` (violation) | the same, three limits put into words | `LimitKeepsDirection` fails, see 6 |
| `tables` | every body of four items over headings of three levels, text, lists and groups, or over captions, tables, groups, unmapped and unlocated items, is walked, with seven ways of claiming captions (none, before or behind the table, two tables with one each, one claimed by two, two of one table, claims of what is no table), and its lists handed over; and all lists of three siblings over thirteen kinds on two pages | every heading under the nearest higher one, the tree reads like the body; data kept, merged grids rectangular, limit columns filled, continuations resolved, sound tables admitted, collapsed tables caught |
| `lost_caption` (violation) | two siblings | see 6 |
| `engines` | two threads, two open requests, Ollama (the backend with the most failures); fairness | one load per life, one opinion, calls return, handlers end |
| `engine_raises` (violation) | the same, in-process model | `CallsNeverRaise` fails, see 6 |

**Why the bounds are enough.** *Store and service*: a race needs two writers; a
second page adds a third file with the same steps; two versions are the least
that can be confused; there is no counter but the permits, and three requests on two of
them are the least with which one waits while two others may return a permit and
ask again (its place in the queue is then what gets it one). *Clause tree*: four
nodes allow a chain of three levels and a sibling that must pop two of them, a
gap between two siblings with a third that fills or hides it, and a third node
with the identifier of two others; the theorems of section 5 hold for every
length. One vocabulary at a time is enough, since the groups of passes that follow
the tree have only the tree in common. *Walk*: four items are a group
with a heading inside, a heading that closes it, and content after both, or two
tables with a caption each; the theorems hold for every length and all claims. *Admission*: a node is judged
alone (the three gates that look at others are free choices), so one node of
each kind is no restriction; six readings realise every combination of
"compares equal under one form and not under the other". The phrases of
`inverted_limit` are one of each list of `parameters.py` and the one both lists
end with. *Tables*: stitching
and the continuation gate look at two neighbours at a time, and a third sibling
is what makes a link be overwritten. *Engines*: an orphaned request and the
retry of its client are two; `attempts` stops at two because one too many is
all the property needs; the constant `Request` bounds the server's threads,
which the code does not.

Deadlock checking is off in `clause_tree`, `lost_text`, `admission`,
`inverted_limit`, `tables` and `lost_caption`: a document ends with its last pass. It is
on wherever processes run.

**Fairness.** `ParseService` assumes weak fairness only: of a running thread
(local computation and engine calls with timeouts) and of `Acquire` (the event
loop wakes the waiter whose permit has come). That nobody is overtaken for ever is
not assumed but follows from the queue: `asyncio.Semaphore` and the executor's
queue are first in first out. With a semaphore that wakes whoever comes
(`AcquireBarges`, the mutant) TLC finds a request that waits for ever. `Engines` assumes it of a client
in a call (a socket has a timeout, inference ends) and of a server thread
*while the server runs*; nothing obliges anyone to call, or a sidecar to start,
hang, resume or die, and `CallsReturn` must hold even if it hangs for ever. Loads of an
in-process model are assumed to end: the code has no timeout for them.

## 4. Reading the properties

`PublishedIsWhole`, `PagesFollowEdition`, `NeverUnpublished` and
`ImplementsShelf` are the class comment of `ArtifactStore`; they hold for any
number of processes as long as each parses one document at a time, which is the
default of `INGESTION_MAX_CONCURRENT_PARSES`. `PermitsConserved` holds for any
setting (proved), `RequestsAnswered` is checked with three requests on two permits.

`NearestOpenClause` and `ReadingOrderKept` say what nesting does in terms of the
flat list, without the stack. `ClauseUnderItsPrefix` relates the finished tree to
the numbers. `BodyStaysIncluded` is about two passes: roles are decided on the
flat list, and only afterwards do sections move under one another.

The properties of `Edition` relate a pass to the *finished* document, not to what
the pass looked at. `ReferencesSettled` is an equivalence: who refers to what is
not there is in the queue, and nobody else is. `GapsReported` and
`SoundNumberingPasses` are the two sides of the numbering gate; each names its
exemption (6, *a* and *b*), and TLC refutes both at once without it.
`IdsIdentify` also asks that a suffix is given only where it must be: the next
edition looks for the bare identifier. `LimitEquationsMarked` states the
dependency on the flat list and checks it in the nested tree.

`SectionsByLevel` says where a heading belongs by looking at earlier headings
only, without the stack and without lists and groups. `TreeReadsLikeBody` computes
from the body what the nodes must be, item after item (`Reading`: an item that
nothing hides, and behind it the captions it claims, as often as it claims them),
and asks for these nodes, no others and in this order; and that this order is the
one in which the tree is read depth first. A caption is left out of its own place
just if it is claimed, wherever the claim stands in the body. What `Hides` and
`Silent` leave out is 6 (*e*).

`NormativeDissentIsStopped` is stated over the candidates kept, not over the
votes taken: whatever lane or order they came in by, two genuine transcribers
that differ on a normative node keep it out. `AdmittedValueHasRuns` ties an
admitted parameter to the text layer of its page. `CandidatesKept` and
`QuarantineIsFinal` are about every step.

`SoundTableAdmitted` is the converse of the others: a table that was read as it
is ruled, stands alone, and has its limits filled is *not* quarantined, so the
safety properties are not bought by refusing everything. `CollapseIsCaught` says
that a collapsed table is admitted only if some grid ruled on its page has the
size it was read with (which may be another table's: 6, *h*).

`OneOpinion` says that threads that ask while the model loads hear what the
others will hear. It matters because an edition is cached under a version that
does not record who was asked. `AnswersAreOwn` says that the answer to a request
that timed out, died with its server or queued behind a load is never taken for the
answer about the next region: text of one clause under another would pass every
gate. A connection kept open over a timeout breaks it.

## 5. Proofs

`ParseServiceProofs` (assuming `OneParseAtATime`: every process has one permit;
the run `shared_tmp` shows the assumption is needed). The inductive invariant
adds to the types: how many threads of a process are past the semaphore (at most
one, and exactly as many as permits are taken), that a temporary file belongs to
the pid of the only thread that may write it and has the content its place in
the loop implies, that open handles point to temporary files, and that files
before the thread's page are there. From it: type correctness, whole files,
complete answers, order, versions, `NeverUnpublished`, and the refinement of
`EditionShelf`: `InitImplements`, `NextImplements`, `ServiceImplementsShelf`.

`PermitProofs` (any number of permits; assuming finitely many tasks, so that they
can be counted). Acquiring moves one task and one permit, every way out of
`process_pdf` goes through `Finish`, and a restart sets both to their beginning:
`PermitsAreConserved`.

`ClauseTreeProofs` (any number of nodes, any content that satisfies
`TreeAssumption`: a text has a clause number, `Annex` or none, and pages, captions
and entries of the contents are counted in naturals).
*Nesting* (`IInv`): between two entries the stack holds exactly the entries that are still open, in
document order, whatever came after one of them lies inside it, and while an
entry pops, only what cannot be its parent is missing. It is needed because the
property speaks of the nearest earlier prefix while the code only looks at the
stack. From it: `ParentIsNearestOpen` and `OrderSurvives`.
*The tree* (`TreeInv`): dropping takes everything below along, so that no node
hangs under a dropped one; an entry was put under one that was open at its turn,
a loose one under the last such; the context by which hoisting judged the nodes
still describes the inside of every entry; and the body starts with a chapter
between which and any section of the body stands nothing but the body. From it:
`TreeTypes`; `ClausesFollowNumbers`, where the two halves of the way up meet (inside
an entry what hoisting saw, above it what nesting did); and `BodyStays`:
the chapter that starts the body closes everything before it (`BodyAncestors`), and
what stands between it and a section of the body is normative itself, so nothing
excluded is left to be put under.

`EditionProofs` (any number of nodes, any content that satisfies
`EditionAssumption`). No step of the tree is left when the passes start
(`TreeIsFinished`), so what one computes from the tree is still true of it later;
hence `EditionBuildsTheTree`: an edition's tree is a behaviour of `ClauseTree`, and
every theorem about the tree is one about editions.
Identifiers: the counter of a base is above every suffix given with it, and a
positive counter or suffix has a node that accounts for it; from it
`IdentifiersIdentify`. References: links lead to numbers that are in the tree,
and the cross-reference gate is the only one that raises its alarm; from it
`ReferencesAreSettled`. Gates (`GateInv`): marks and numbering alarms are, at every
later pass, those the passes would write of the finished tree; from it
`GapsAreReported` (among clauses of one level between which nobody has raised the
alarm, every number is there), `SoundNumberingRaisesNone`, and `LimitEquationsAreMarked`, which
also needs from the tree that loose entries between two headings have one parent.

`DoclingWalkProofs` (bodies of any size and shape, any headings). *Outline*
(`IInv`): open sections
are nested in one another and rise strictly in level; a section that is not open
any more was closed by a heading at least as high, which is open or about to be.
From it: `WalkInvariant` and `OutlineByLevel`. *Tree* (`TreeInv`): an item has found
no place exactly where something above it hides it, and the nodes so far are what
the items passed bring, in their order (`ReadSoFar`), whatever function from items
to sequences of captions `Claims` offers. *Path* (`PathInv`, for bodies whose
headings stand only in groups): every item that is still to get children has its
node on the path to the last node, and every open section lies on that path above
or below it, so whatever comes next is appended to the path and reads on. From
these: `BodyReadBack`, that is `TreeReadsLikeBody`. The only assumption
(`BodyAssumption`) is that things have a label, a level and a place or none, and
that claims name items of the body.

`TablesProofs` (documents of any length, tables of any cells). `TableAssumption`
says of a document what `_table_cells` guarantees: rows and columns count from 0,
spans are at least 1, a sibling has an identifier of its own, and nothing has been said of it
yet (`WellFormed`). Every pass before the last gate is one step shape (`Rebuilt`: the
list being built gets a new last sibling), so each invariant has a lemma about
what such a sibling must be like, and one per action that it is:
`BaseInv` (siblings are Docling's, each at most once, in order, in a bounded grid);
`ReadyInv` (what the earlier passes have established of a sibling: paths after
"headers", held after "geometry" just if no grid of its page has its size, after
"rectangularity" just if it is not sound); `LinkInv` (the last gate goes back to the
last table with a header: what it has found so far stays true when it takes up
one more, because it writes only links nobody has set and lifts no quarantine);
`StitchInv` (fragments still to come are as Docling gave them, and a table built so
far holds the rows of its parts in their order, and is whole if they were). From
them: `TableTypes`, `LimitsAreFilled`, `CollapsesAreCaught`,
`ContinuationsAreResolved`, `SoundTablesAreAdmitted`, `DataIsKept`,
`StitchedTablesAreRectangular`. The last one needs geometry the code never
states: that the header's rows are a prefix, that the shifted data fill the rows
below the last row of the table before, and that equal signatures mean equal
widths.

`AdmissionProofs` (any glyphs, readings and sets of limits that satisfy
`AdmissionAssumption`). The invariant records, pass by pass, where a value comes
from, when it has been verified, and what will stop it if it has not; one lemma
per pass. From it: `DissentStopped`, `OcrValueStopped`, `ValueSeen`,
`QuarantineExplained`, and the two step properties `QuarantineStaysFinal` and
`AllCandidatesKept`. `AdmissionTypes` adds that no parser is recorded with a silence.

`EnginesProofs` (any number of threads and requests). The flag of each side and
the count of its attempts change together; whoever loads holds the lock; while
the lock is held or nothing has been tried, nobody has been answered, so the
model may still come or fail without contradicting an earlier answer. From it:
`OneLoad` and `SameAnswer`. `EngineTypes` adds where calls and
requests are and what became of them, client by client and server thread by
server thread (`Traffic`); with it, `OwnAnswers`: the threads of the server may go on
with requests nobody waits for, but those have lost their client.

**Recursive definitions.** What lies above a node and what hides an item are
functions defined by recursion down the tree. The library's theorems on
recursion and induction take operators and cannot be used by the installed
provers, so `ForestRecursion` and `DownwardRecursion` show that such functions
exist: were there a number up to which none does, there would be a least one,
and the function for the number before it extends. The smallest counterexample comes from
`WFMin` and `NatLessThanWellFounded`, which take sets (`Least`, `LeastMember`).
What holds of all ancestors is proved the same way. The recursive functions of
`DoclingWalk` have the finite domain `0 .. MaxItems` for this reason.

**Only model-checked.** Of the properties of the passing runs, the three of
liveness: `RequestsAnswered`, `CallsReturn`, `HandlersFinish`, since neither
fairness nor ENABLED is within the prover's reach. Every invariant and every
property of steps that a passing run checks is a theorem. What `SectionRoles`
computes enters the proofs only through what is proved of zones (`BodyIsNormative`),
and `Parameters` not at all: `LimitKeepsDirection` is violated (6), and the
theorems on admission hold for readings whatever limits are read from them.

## 6. Where the code departs from what it says

Each is a run whose counterexample TLC finds:

* `shared_tmp`: the temporary name has the pid but not the thread; with
  `INGESTION_MAX_CONCURRENT_PARSES=2` two parses of one PDF publish a truncated
  file (`artifact_store.py:51`).
* `interrupted_parse`: the edition is written before its images and decides alone
  whether a document is processed; a crash in between is never repaired
  (`run.py:49`).
* `lost_text`: a lone clause number merged into its own first child is dropped
  together with that child (`topology.py:129`).
* `inverted_limit`: "no more than 10 V/m" is read as a *lower* bound, since the
  lower-bound pattern is tried first and ends in "more than"; nothing sends it to
  review (`parameters.py:101`; 103 lists the phrase among the upper bounds).
* `lost_caption`: stitching drops the captions of the second table
  (`continuity.py:96`).
* `engine_raises`: a sidecar that dies under a request raises through
  `post_image` and ends the parse (`_sidecar.py:52`).

Seen while reading, without a run of their own. Where a property is exempted for
one of them, the letter is used above:

* (*a*) A clause hoisted out of one sibling and nested back under the same parent
  comes after the parent's own later children (`topology.py:190-193`): well
  numbered siblings stand in the wrong order and raise a false "non-increasing"
  alarm. Nesting keeps the order of the list it is given, but not always that of
  the document.
* (*b*) The numbering gate compares neighbours of one level only
  (`gates/numbering.py:61`): with 5.1, 5.2.1, 5.4 under one parent the loss of
  5.2 and 5.3 is not reported.
* (*c*) Inventories count the entries of the table of contents
  (`gates/numbering.py:44`): a clause lost from the body but listed there is
  neither a gap nor a dangling reference; its entry takes the bare identifier
  and the real clause gets `~1`. The loss of the highest-numbered caption raises
  no alarm (`gates/cross_reference.py:83`).
* (*d*) Nodes without text share one hash, so that a table's identifier is its
  ordinal among them and moves when one is inserted before it.
* (*e*) The walk drops what hangs below an unmapped label, below a heading taken
  for a caption or below an item without a place on the page, and a caption that
  only an unmapped item claims (`extract_docling.py:553`, against "so nothing is
  dropped"); a caption claimed twice is kept twice (which `TreeReadsLikeBody`
  therefore asks for); a heading inside a list item's group leaves later items of the list before it in reading order.
* (*f*) Text to limits: "no less than" ends in an upper-bound
  phrase and is one (only "not less than" is listed); a German compound for
  a lower bound anywhere in a text ("Mindestabstand") makes lower bounds of its
  upper ones ("Maximalwert") too; "max." with its period is no keyword, and the value is
  not recorded at all; every limit shares the first frequency band as its
  condition, and the numbers of a second band may become limits.
* (*g*) "1.500 V" of a German standard is 1.5 without an alarm
  (`parameters.py:119`): only the comma is recognised as ambiguous.
* (*h*) A table may be confirmed by the ruling lines of another table of its page
  (`assemble.py:251`; 570-572 speaks of the table's own lines).
* (*i*) `scripts/start_stack.sh:91`: the trap cleans up on TERM but does not exit;
  a TERM during set-up kills the sidecars and then starts the API with their
  addresses exported, which lines 121-122 call the failure the script exists to
  prevent. Line 103 accepts whoever answers at the port as the child it started.
* `version.py:46` folds the table and OCR engine into the version, but not
  `INGESTION_OCR`, `INGESTION_GLM_OCR` or the sidecar URLs, against its own rule
  (lines 8-14): processes that differ in these share cached editions.
* A fragment without a bare integer clause may lose its first section as a title
  page (`section_role_classifier.py:180` against 175-176).
* The running context of hoisting ignores the clauses it has hoisted
  (`topology.py:247`); the docstring of `nest_by_clause` ("pass through at top
  level", 254) is not what unnumbered nodes get.
* The text vote quarantines equations whose LaTeX agrees after
  `eq_compare_form` (`assemble.py:469` against 357).
* A table stitched over pages has more rows than any ruled grid and is always
  quarantined where the first page has lines (`assemble.py:244`); a blank merged
  data cell that reaches into a limit column is not seen as empty.
* Parameters in tables of scanned pages are not quarantined as OCR-derived
  (`assemble.py:398-401`); without OCR the text of a scanned page still carries
  the OCR engine's label.
* `review_required` follows a quarantine in some branches only
  (`canonical_schema.py:319`, `assemble.py:267-270`).
* A sidecar whose load failed stays up, healthy and silent (`mineru_server.py:49,
  93`).
* Dead code: the `modal_verbs` gate (nothing sets `normalized_text`),
  `apply_ocr_ceiling`, `reconcile_table_grid`.

## 7. Not modelled, and why

Converting a PDF (Docling), measuring pages and reading spans (PyMuPDF),
finding ruling lines (pdfplumber) and recognising images are libraries' work:
what they return is an initial state or a free choice. Cutting a text into
tokens, detecting its language, canonical units, decimal separators, LaTeX
canonicalisation and modal verbs are regular expressions over characters, one
text at a time: the unit tests are the better tool, and `Parameters` and
`Edition` start from their result. Evaluation tools and the UI read finished
editions; read-only routes change nothing. `start_stack.sh` handles processes
and signals around the engine; what it can leave behind (a sidecar absent, hung
or dead at any time) is the environment of `Engines`, and the races of the
script itself are listed as hazards. Configuration (devices, OCR engines,
converter options, rule packs as data) is constants. A table whose page is not one
of the file's (`assemble.py:246`, which lets it pass the grid vote) is not among the
documents of `Tables`: Docling reads its page numbers from the same file. The server
of a sidecar has as many threads as there are requests, `Engines` as many as
`Request`: a call that finds none free is one that is not made yet.

"One edition, end to end" is not one state machine: `Extraction` composes the walk
with `Tables`, `Edition` the clause tree with everything after it, and between
the two the hand-over is by the shape of the initial states: `ClauseTree` starts
from every tree the walk can leave (sections under sections, content under
sections, list items, tables and figures), which `Typed` and `DocumentOrder`
state. Composed in one run they would multiply to more states than TLC can visit
without showing an interaction, since the passes run one after the other.

## 8. The order of the work, and what could follow

Store and service with the refinement and its proofs; clause tree with roles, and
the proofs of nesting; admission and its proofs; tables; engines; then the walk
that produces the trees, the passes and gates over the finished tree,
identifiers, the reading of limits, and the proofs of permits, identifiers,
references and the outline; then the proofs of the tree as a whole, of the
numbering gate, of reading the body back, and of tables.

Could follow: that what `HandOver` takes from a walk satisfies `WellFormed`, which
`TablesProofs` assumes of documents (it is checked on the lists the run `tables` hands
over); and lemmas on the operators of `SectionRoles` and `Parameters`, for example
that a protected role is never chosen for matter in front of the body.
