---------------------------- MODULE ParseService ----------------------------
(***************************************************************************)
(* The processes that turn PDFs into stored editions: API replicas         *)
(* (app/api.py) and the batch CLI (app/cli/evaluate_dir.py), all running   *)
(* process_pdf (app/pipeline/run.py) against one artifact store.           *)
(*                                                                         *)
(* A task is a request handler of a replica, or a worker thread of the     *)
(* CLI's pool.  Each step of a task that others can observe is an action   *)
(* of its own; a process may be killed between any two of them.            *)
(***************************************************************************)
EXTENDS ArtifactStore, FiniteSets, Sequences

CONSTANTS
  Setting,               \* the environments a process can be started with
  Rejected,              \* the PDFs quarantine.check refuses
  Api,                   \* the processes that are API replicas, not the CLI
  MaxConcurrentParses    \* [Proc -> Nat \ {0}]

\* What of the environment decides how a PDF is extracted: the values of
\* INGESTION_TABLEFORMER and INGESTION_OCR_ENGINE, and whether INGESTION_OCR
\* permits OCR.  app/version.py folds the first two into the version.
tableformer_variant(s) ==
  IF s.tableformer \in {"v1", "1", "tableformer", "legacy"} THEN "v1" ELSE "v2"
ocr_engine_variant(s) == IF s.ocr_engine = "surya" THEN "surya" ELSE "rapidocr"
PIPELINE_VERSION(s) == <<tableformer_variant(s), ocr_engine_variant(s)>>

ASSUME ServiceAssumption ==
  /\ Data = Setting
  /\ \A s \in Setting : PIPELINE_VERSION(s) \in Version
  /\ Rejected \subseteq Doc
  /\ Api \subseteq Proc
  /\ Key # {}
  /\ MaxConcurrentParses \in [Proc -> Nat \ {0}]

VARIABLES
  setting,   \* setting[p]: the environment p was started with
  permits,   \* permits[p]: free permits of _parse_semaphore (idle pool workers)
  queue,     \* queue[p]: the tasks that wait for a permit, the first one first
  pc,        \* pc[t]: where task t is
  key,       \* key[t]: the key the request is about
  page,      \* page[t]: the item being written, 0 for the edition
  answer     \* answer[t]: the result of the last request

vars == <<final, tmp, handle, setting, permits, queue, pc, key, page, answer>>

Task == Writer
Running == {"check", "assemble", "open", "write", "replace"}
Answers == {"none", "processed", "already_processed", "quarantined", "failed"}

QueueTypeOK == queue \in [Proc -> Seq(Task)]

TypeOK ==
  /\ StoreTypeOK
  /\ setting \in [Proc -> Setting]
  /\ permits \in [Proc -> Nat]
  /\ QueueTypeOK
  /\ pc \in [Task -> {"idle", "queued"} \cup Running]
  /\ key \in [Task -> Key]
  /\ page \in [Task -> Nat]
  /\ answer \in [Task -> Answers]

\* Mutation: the key leaves the pipeline version out.
DigestOnly(p, d) == <<d, CHOOSE v \in Version : TRUE>>

compute_key(p, d) == <<d, PIPELINE_VERSION(setting[p])>>
Target(t) == <<key[t], page[t]>>

Init ==
  /\ StoreInit
  /\ setting \in [Proc -> Setting]
  /\ permits = MaxConcurrentParses
  /\ queue = [p \in Proc |-> <<>>]
  /\ pc = [t \in Task |-> "idle"]
  /\ key = [t \in Task |-> CHOOSE k \in Key : TRUE]
  /\ page = [t \in Task |-> 0]
  /\ answer = [t \in Task |-> "none"]

---------------------------------------------------------------------------
\* A task leaves process_pdf with a result (or an exception): `async with`
\* gives the permit back and the handler answers.
Finish(t, result) ==
  /\ pc' = [pc EXCEPT ![t] = "idle"]
  /\ answer' = [answer EXCEPT ![t] = result]
  /\ page' = [page EXCEPT ![t] = 0]
  /\ permits' = [permits EXCEPT ![ProcOf[t]] = @ + 1]
  /\ UNCHANGED queue

\* `async with` joins the waiters of asyncio.Semaphore, `pool.submit` the queue
\* of the thread pool: at the end of a line, whether or not a permit is free.
Enqueue(t) ==
  /\ pc' = [pc EXCEPT ![t] = "queued"]
  /\ queue' = [queue EXCEPT ![ProcOf[t]] = Append(@, t)]

\* POST /parse: a lookup outside the semaphore, then the queue for a permit.
Parse(t, d) ==
  LET k == compute_key(ProcOf[t], d)
  IN  /\ ProcOf[t] \in Api
      /\ pc[t] = "idle"
      /\ key' = [key EXCEPT ![t] = k]
      /\ \/ /\ exists(k)
            /\ answer' = [answer EXCEPT ![t] = "already_processed"]
            /\ UNCHANGED <<pc, queue>>
         \/ /\ ~exists(k)
            /\ answer' = [answer EXCEPT ![t] = "none"]
            /\ Enqueue(t)
      /\ UNCHANGED <<storeVars, setting, permits, page>>

\* POST /documents/.../parse and the CLI's pool.submit: straight to the queue.
ParseDocument(t, d) ==
  /\ pc[t] = "idle"
  /\ key' = [key EXCEPT ![t] = compute_key(ProcOf[t], d)]
  /\ answer' = [answer EXCEPT ![t] = "none"]
  /\ Enqueue(t)
  /\ UNCHANGED <<storeVars, setting, permits, page>>

\* Mutation: a semaphore of threads, that wakes up any of those that wait.
AcquireBarges(t) ==
  LET p == ProcOf[t]
      Waits(u) == u # t
  IN  /\ pc[t] = "queued"
      /\ permits[p] > 0
      /\ permits' = [permits EXCEPT ![p] = @ - 1]
      /\ queue' = [queue EXCEPT ![p] = SelectSeq(@, Waits)]
      /\ pc' = [pc EXCEPT ![t] = "check"]
      /\ UNCHANGED <<storeVars, setting, key, page, answer>>

\* The first of those that wait gets a permit.
Acquire(t) ==
  LET p == ProcOf[t]
  IN  /\ pc[t] = "queued"
      /\ queue[p] # <<>> /\ t = Head(queue[p])
      /\ permits[p] > 0
      /\ permits' = [permits EXCEPT ![p] = @ - 1]
      /\ queue' = [queue EXCEPT ![p] = Tail(@)]
      /\ pc' = [pc EXCEPT ![t] = "check"]
      /\ UNCHANGED <<storeVars, setting, key, page, answer>>

\* quarantine.check, then the existence check of process_pdf.
Check(t) ==
  /\ pc[t] = "check"
  /\ \/ /\ key[t][1] \in Rejected
        /\ Finish(t, "quarantined")
     \/ /\ key[t][1] \notin Rejected
        /\ exists(key[t])
        /\ Finish(t, "already_processed")
     \/ /\ key[t][1] \notin Rejected
        /\ ~exists(key[t])
        /\ pc' = [pc EXCEPT ![t] = "assemble"]
        /\ UNCHANGED <<permits, queue, page, answer>>
  /\ UNCHANGED <<storeVars, setting, key>>

\* Mutation: the page images are written first, from the last one down.
AssembleImagesFirst(t) ==
  /\ pc[t] = "assemble"
  /\ pc' = [pc EXCEPT ![t] = "open"]
  /\ page' = [page EXCEPT ![t] = PageCount[key[t][1]]]
  /\ UNCHANGED <<storeVars, setting, permits, queue, key, answer>>

\* assemble and rasterize, both in memory; the edition is written first.
Assemble(t) ==
  /\ pc[t] = "assemble"
  /\ pc' = [pc EXCEPT ![t] = "open"]
  /\ UNCHANGED <<storeVars, setting, permits, queue, key, page, answer>>

Open(t) ==
  /\ pc[t] = "open"
  /\ OpenTmp(t, Target(t))
  /\ pc' = [pc EXCEPT ![t] = "write"]
  /\ UNCHANGED <<setting, permits, queue, key, page, answer>>

\* The bytes depend on the document and on the environment of the process.
Write(t) ==
  /\ pc[t] = "write"
  /\ WriteTmp(t, setting[ProcOf[t]])
  /\ pc' = [pc EXCEPT ![t] = "replace"]
  /\ UNCHANGED <<setting, permits, queue, key, page, answer>>

\* Mutation: the loop over the images stops one page short.
ReplaceStopsShort(t) ==
  /\ pc[t] = "replace"
  /\ ReplaceTmp(t, Target(t))
  /\ \/ /\ page[t] < PageCount[key[t][1]] - 1
        /\ page' = [page EXCEPT ![t] = @ + 1]
        /\ pc' = [pc EXCEPT ![t] = "open"]
        /\ UNCHANGED <<permits, queue, answer>>
     \/ /\ page[t] >= PageCount[key[t][1]] - 1
        /\ Finish(t, "processed")
  /\ UNCHANGED <<setting, key>>

\* Mutation: the loop over the images runs one page too far.
ReplaceRunsOver(t) ==
  /\ pc[t] = "replace"
  /\ ReplaceTmp(t, Target(t))
  /\ \/ /\ page[t] <= PageCount[key[t][1]]
        /\ page' = [page EXCEPT ![t] = @ + 1]
        /\ pc' = [pc EXCEPT ![t] = "open"]
        /\ UNCHANGED <<permits, queue, answer>>
     \/ /\ page[t] > PageCount[key[t][1]]
        /\ Finish(t, "processed")
  /\ UNCHANGED <<setting, key>>

\* The loop of process_pdf: the page images follow the edition, in page order.
Replace(t) ==
  /\ pc[t] = "replace"
  /\ ReplaceTmp(t, Target(t))
  /\ \/ /\ page[t] < PageCount[key[t][1]]
        /\ page' = [page EXCEPT ![t] = @ + 1]
        /\ pc' = [pc EXCEPT ![t] = "open"]
        /\ UNCHANGED <<permits, queue, answer>>
     \/ /\ page[t] = PageCount[key[t][1]]
        /\ Finish(t, "processed")
  /\ UNCHANGED <<setting, key>>

\* Mutation: after an exception the permit is lost.
FailLosesPermit(t) ==
  /\ pc[t] \in {"assemble", "open", "write"}
  /\ CloseAll({t})
  /\ pc' = [pc EXCEPT ![t] = "idle"]
  /\ answer' = [answer EXCEPT ![t] = "failed"]
  /\ page' = [page EXCEPT ![t] = 0]
  /\ UNCHANGED <<final, tmp, setting, key, permits, queue>>

\* Mutation: after an exception what was stored for the document is removed.
FailCleansUp(t) ==
  /\ pc[t] \in {"assemble", "open", "write"}
  /\ CloseAll({t})
  /\ Finish(t, "failed")
  /\ final' = [path \in Path |-> IF path \in PathsOf(key[t]) THEN Absent ELSE final[path]]
  /\ UNCHANGED <<tmp, setting, key>>

\* An exception: the pipeline raises, the disk is full, or the rename does not
\* find its temporary file.
Fail(t) ==
  /\ \/ pc[t] \in {"assemble", "open", "write"}
     \/ pc[t] = "replace" /\ ReplaceImpossible(t, Target(t))
  /\ CloseAll({t})
  /\ Finish(t, "failed")
  /\ UNCHANGED <<final, tmp, setting, key>>

\* The process dies and is started again, perhaps with another environment and
\* (the worst case) with the pid whose temporary files it left behind.
Restart(p) ==
  /\ \E s \in Setting : setting' = [setting EXCEPT ![p] = s]
  /\ CloseAll({t \in Task : ProcOf[t] = p})
  /\ permits' = [permits EXCEPT ![p] = MaxConcurrentParses[p]]
  /\ queue' = [queue EXCEPT ![p] = <<>>]
  /\ pc' = [t \in Task |-> IF ProcOf[t] = p THEN "idle" ELSE pc[t]]
  /\ answer' = [t \in Task |-> IF ProcOf[t] = p THEN "none" ELSE answer[t]]
  /\ page' = [t \in Task |-> IF ProcOf[t] = p THEN 0 ELSE page[t]]
  /\ UNCHANGED <<final, tmp, key>>

\* The steps of a thread that runs process_pdf.
Work(t) ==
  Check(t) \/ Assemble(t) \/ Open(t) \/ Write(t) \/ Replace(t) \/ Fail(t)

Next ==
  \/ \E t \in Task, d \in Doc : Parse(t, d) \/ ParseDocument(t, d)
  \/ \E t \in Task : Acquire(t) \/ Work(t)
  \/ \E p \in Proc : Restart(p)

Spec == Init /\ [][Next]_vars

\* A thread that runs goes on (the engines it calls have timeouts), and the
\* first in the queue takes the permit that is free.
Fairness == \A t \in Task : WF_vars(Work(t)) /\ WF_vars(Acquire(t))

FairSpec == Spec /\ Fairness

---------------------------------------------------------------------------
\* Whatever is at a final name is a complete file: neither a crash in the middle
\* of a write nor another writer shows a reader half an edition
\* (ArtifactStore's class comment).
PublishedIsWhole == \A path \in Path : final[path] \in Data \cup {Absent}

\* "processed" is answered only when the edition and every page image are there
\* in full, although each is written on its own and anyone may die in between.
ProcessedIsComplete ==
  \A t \in Task : answer[t] = "processed" => \A path \in PathsOf(key[t]) : Whole(path)

\* Page images never come before their edition, and come without gaps: what
\* GET /editions/{key} lists is the beginning of the document.
PagesFollowEdition ==
  \A k \in Key : \A n \in 1 .. PageCount[k[1]] :
    final[<<k, n>>] # Absent => final[<<k, n - 1>>] # Absent

\* An edition is stored under the version of the environment that built it,
\* although processes are restarted with other environments between any two
\* requests: the other variant's cache is never served.
EditionHasItsVersion ==
  \A k \in Key : \A path \in PathsOf(k) :
    Whole(path) => PIPELINE_VERSION(final[path]) = k[2]

\* Every permit of a process is either free or held by one task that runs the
\* pipeline: early returns, exceptions and restarts neither leak nor forge one.
PermitsConserved ==
  \A p \in Proc :
    permits[p] + Cardinality({t \in Task : ProcOf[t] = p /\ pc[t] \in Running})
      = MaxConcurrentParses[p]

\* A file that is complete stays there and stays complete, so an edition that
\* was served with 200 is never "not ready" again.
NeverUnpublished ==
  [][\A path \in Path : Whole(path) => Whole(path)']_vars

\* Whoever waits for a permit is answered, or its process restarted: the queue
\* moves on although newcomers keep joining it and every parse may fail.
RequestsAnswered == \A t \in Task : pc[t] = "queued" ~> pc[t] = "idle"

\* The store, seen at its final names, is the shelf of EditionShelf: whoever only
\* looks there cannot tell it from a store whose writes are atomic.
pages == [k \in Key |-> 1 .. PageCount[k[1]]]
published == [k \in Key |-> [n \in {0} \cup pages[k] |-> final[<<k, n>>]]]
Shelf == INSTANCE EditionShelf WITH Pages <- pages, shelf <- published
ImplementsShelf == Shelf!Spec

---------------------------------------------------------------------------
\* The class comment of ArtifactStore: "kill any replica mid-request, retry is
\* safe".  A retry that is told already_processed finds the document complete,
\* unless someone is still writing it.
RetryIsSafe ==
  \A t \in Task :
    /\ answer[t] = "already_processed"
    /\ \A u \in Task : key[u] = key[t] => pc[u] \notin Running
    => \A path \in PathsOf(key[t]) : Whole(path)
==============================================================================
