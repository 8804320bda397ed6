------------------------------- MODULE Engines -------------------------------
(***************************************************************************)
(* The second opinions of app/pipeline/engines/ as the parse threads of    *)
(* one ingestion process get them: GLM-OCR, whose model (or Ollama         *)
(* connection) is set up once per process under a lock, and a sidecar      *)
(* (deploy/sidecars/), an HTTP server that sets up its own model the same  *)
(* way, answers each request in a thread, and may die and be restarted.    *)
(***************************************************************************)
EXTENDS Naturals, FiniteSets

CONSTANTS
  Thread,        \* threads that parse
  Request,       \* requests a sidecar may have open at once (bounds them)
  Ollama,        \* INGESTION_GLM_OCR_URL is set
  NoOne

ASSUME EnginesAssumption == Ollama \in BOOLEAN /\ NoOne \notin Thread \cup Request

VARIABLES
  call,      \* call[t]: how far t is with an engine
  outcome,   \* outcome[t]: what its last call came to
  glm,       \* GLM-OCR's _state and _lock
  sidecar,   \* the sidecar's _state and _lock, and whether it runs
  request,   \* request[r]: whose it is, and how far its thread is
  attempts,  \* times this process and this life of the sidecar set up a model
  opinions   \* what available() has said in this process

vars == <<call, outcome, glm, sidecar, request, attempts, opinions>>

Free == [client |-> NoOne, at |-> "free"]
Unset == [tried |-> FALSE, model |-> FALSE, lock |-> NoOne]
Server(life) == [tried |-> FALSE, model |-> FALSE, lock |-> NoOne, life |-> life]
AtMostTwo(n) == IF n < 2 THEN n + 1 ELSE n   \* enough to see a second attempt

Init ==
  /\ call = [t \in Thread |-> "idle"]
  /\ outcome = [t \in Thread |-> "none"]
  /\ glm = Unset
  /\ sidecar = Server("down")
  /\ request = [r \in Request |-> Free]
  /\ attempts = [glm |-> 0, sidecar |-> 0]
  /\ opinions = {}

----------------------------------------------------------------------------
Take(state, who) == [state EXCEPT !.tried = TRUE, !.lock = who]
Settle(state, ok) == [state EXCEPT !.model = ok, !.lock = NoOne]

Move(t, place) == call' = [call EXCEPT ![t] = place]
Return(t, o) == Move(t, "idle") /\ outcome' = [outcome EXCEPT ![t] = o]

(* GLM-OCR, in this process *)
AskGlm(t) ==
  /\ call[t] = "idle"
  /\ Move(t, "available")
  /\ UNCHANGED <<outcome, glm, sidecar, request, attempts, opinions>>

\* Mutation: "tried" is read before the lock is taken.
EnterUnlocked(t) ==
  /\ call[t] = "available"
  /\ IF glm.tried
     THEN Move(t, "checked") /\ UNCHANGED <<glm, attempts>>
     ELSE /\ glm.lock = NoOne
          /\ Move(t, "loading")
          /\ glm' = Take(glm, t)
          /\ attempts' = [attempts EXCEPT !.glm = AtMostTwo(@)]
  /\ UNCHANGED <<outcome, sidecar, request, opinions>>

\* The test of "tried" and its setting are under the lock.
EnterLoad(t) ==
  /\ call[t] = "available"
  /\ glm.lock = NoOne
  /\ IF glm.tried
     THEN Move(t, "checked") /\ UNCHANGED <<glm, attempts>>
     ELSE /\ Move(t, "loading")
          /\ glm' = Take(glm, t)
          /\ attempts' = [attempts EXCEPT !.glm = AtMostTwo(@)]
  /\ UNCHANGED <<outcome, sidecar, request, opinions>>

\* Gated off, weights missing, no such model in Ollama: no model, remembered.
FinishLoad(t) ==
  /\ call[t] = "loading"
  /\ \E ok \in BOOLEAN : glm' = Settle(glm, ok)
  /\ Move(t, "checked")
  /\ UNCHANGED <<outcome, sidecar, request, attempts, opinions>>

\* The probe of Ollama catches URLError, not a connection that breaks while the
\* answer is read; "with" gives the lock back.
ProbeRaises(t) ==
  /\ Ollama
  /\ call[t] = "loading"
  /\ glm' = Settle(glm, FALSE)
  /\ Return(t, "raised")
  /\ UNCHANGED <<sidecar, request, attempts, opinions>>

CheckAvailable(t) ==
  /\ call[t] = "checked"
  /\ opinions' = opinions \cup {glm.model}
  /\ IF glm.model THEN Move(t, "inferring") /\ UNCHANGED outcome ELSE Return(t, "none")
  /\ UNCHANGED <<glm, sidecar, request, attempts>>

Infer(t) ==
  /\ call[t] = "inferring"
  /\ \E o \in {"candidate", "none"} \cup (IF Ollama THEN {"raised"} ELSE {}) : Return(t, o)
  /\ UNCHANGED <<glm, sidecar, request, attempts, opinions>>

(* a sidecar, over HTTP *)
PostImage(t) ==
  /\ call[t] = "idle"
  /\ IF sidecar.life # "down"
     THEN /\ Move(t, "waiting")
          /\ \E r \in Request :
               /\ request[r] = Free
               /\ request' = [request EXCEPT ![r] = [client |-> t, at |-> "load"]]
          /\ UNCHANGED outcome
     ELSE Return(t, "none") /\ UNCHANGED request   \* connection refused
  /\ UNCHANGED <<glm, sidecar, attempts, opinions>>

\* Mutation: the call waits for the answer, however long.
NoTimeout(t) == FALSE /\ UNCHANGED vars

\* Mutation: the connection of the call that timed out is kept for the next one.
TimeoutKeepsConnection(t) ==
  /\ call[t] = "waiting"
  /\ Return(t, "none")
  /\ UNCHANGED <<request, glm, sidecar, attempts, opinions>>

\* INGESTION_SIDECAR_TIMEOUT; the server's thread does not hear of it.
Timeout(t) ==
  /\ call[t] = "waiting"
  /\ Return(t, "none")
  /\ request' = [r \in Request |->
       IF request[r].client = t THEN [request[r] EXCEPT !.client = NoOne] ELSE request[r]]
  /\ UNCHANGED <<glm, sidecar, attempts, opinions>>

At(r, place) == request' = [request EXCEPT ![r].at = place]

HandlerEnters(r) ==
  /\ sidecar.life = "up"
  /\ request[r].at = "load"
  /\ sidecar.lock = NoOne
  /\ IF sidecar.tried
     THEN At(r, "recognize") /\ UNCHANGED <<sidecar, attempts>>
     ELSE /\ At(r, "loading")
          /\ sidecar' = Take(sidecar, r)
          /\ attempts' = [attempts EXCEPT !.sidecar = AtMostTwo(@)]
  /\ UNCHANGED <<call, outcome, glm, opinions>>

Loads(r) ==
  /\ At(r, "recognize")
  /\ sidecar' = Settle(sidecar, TRUE)

\* Mutation: a failing load is forgotten.
LoadFailsRetryable(r) ==
  /\ At(r, "reply none")
  /\ sidecar' = [sidecar EXCEPT !.tried = FALSE, !.lock = NoOne]

\* Mutation: acquire() and release() without try.
LoadFailsLocked(r) ==
  /\ At(r, "reply none")
  /\ UNCHANGED sidecar

\* The exception leaves _load, and do_POST answers 500: "loaded" stays set, so
\* no later request tries again.
LoadFails(r) ==
  /\ At(r, "reply none")
  /\ sidecar' = Settle(sidecar, FALSE)

HandlerLoads(r) ==
  /\ sidecar.life = "up"
  /\ request[r].at = "loading"
  /\ Loads(r) \/ LoadFails(r)
  /\ UNCHANGED <<call, outcome, glm, attempts, opinions>>

HandlerRecognizes(r) ==
  /\ sidecar.life = "up"
  /\ request[r].at = "recognize"
  /\ At(r, "reply none") \/ (sidecar.model /\ At(r, "reply candidate"))
  /\ UNCHANGED <<call, outcome, glm, sidecar, attempts, opinions>>

\* 200 with the key, 200 without it, or 500, to whoever still listens.
HandlerReplies(r) ==
  /\ sidecar.life = "up"
  /\ request[r].at \in {"reply none", "reply candidate"}
  /\ IF request[r].client = NoOne
     THEN UNCHANGED <<call, outcome>>
     ELSE Return(request[r].client,
                 IF request[r].at = "reply none" THEN "none" ELSE "candidate")
  /\ request' = [request EXCEPT ![r] = Free]
  /\ UNCHANGED <<glm, sidecar, attempts, opinions>>

SidecarStarts ==
  /\ sidecar.life = "down"
  /\ sidecar' = Server("up")
  /\ UNCHANGED <<call, outcome, glm, request, attempts, opinions>>

\* Suspended, out of memory, a download of weights that stalls: connections are
\* accepted, nothing is answered.
SidecarHangs ==
  /\ sidecar.life = "up"
  /\ sidecar' = [sidecar EXCEPT !.life = "hung"]
  /\ UNCHANGED <<call, outcome, glm, request, attempts, opinions>>

SidecarResumes ==
  /\ sidecar.life = "hung"
  /\ sidecar' = [sidecar EXCEPT !.life = "up"]
  /\ UNCHANGED <<call, outcome, glm, request, attempts, opinions>>

\* The client's connection ends without a status line; post_image does not
\* catch RemoteDisconnected or ConnectionResetError, which are no URLError.
SidecarDies ==
  LET waiting == {t \in Thread : call[t] = "waiting"} IN
  /\ sidecar.life # "down"
  /\ sidecar' = Server("down")
  /\ request' = [r \in Request |-> Free]
  /\ call' = [t \in Thread |-> IF t \in waiting THEN "idle" ELSE call[t]]
  /\ outcome' = [t \in Thread |-> IF t \in waiting THEN "raised" ELSE outcome[t]]
  /\ attempts' = [attempts EXCEPT !.sidecar = 0]
  /\ UNCHANGED <<glm, opinions>>

Client(t) ==
  \/ EnterLoad(t) \/ FinishLoad(t) \/ ProbeRaises(t) \/ CheckAvailable(t)
  \/ Infer(t) \/ Timeout(t)

Handler(r) ==
  HandlerEnters(r) \/ HandlerLoads(r) \/ HandlerRecognizes(r) \/ HandlerReplies(r)

Next ==
  \/ \E t \in Thread : AskGlm(t) \/ PostImage(t) \/ Client(t)
  \/ \E r \in Request : Handler(r)
  \/ SidecarStarts \/ SidecarHangs \/ SidecarResumes \/ SidecarDies

Spec == Init /\ [][Next]_vars

\* Inference ends, a waiting socket times out, and a handler's thread runs on
\* while its server does.  Nobody is obliged to call, and nothing obliges a
\* sidecar to start, to hang, to resume or to die.
FairSpec ==
  /\ Spec
  /\ \A t \in Thread : WF_vars(Client(t))
  /\ \A r \in Request : WF_vars(Handler(r))

----------------------------------------------------------------------------
TypeOK ==
  /\ call \in [Thread -> {"idle", "available", "loading", "checked", "inferring", "waiting"}]
  /\ outcome \in [Thread -> {"none", "candidate", "raised"}]
  /\ glm \in [tried : BOOLEAN, model : BOOLEAN, lock : Thread \cup {NoOne}]
  /\ sidecar \in [tried : BOOLEAN, model : BOOLEAN, lock : Request \cup {NoOne}, life : {"down", "up", "hung"}]
  /\ request \in [Request -> [client : Thread \cup {NoOne},
        at : {"free", "load", "loading", "recognize", "reply none", "reply candidate"}]]
  /\ attempts \in [glm : 0..2, sidecar : 0..2]
  /\ opinions \subseteq BOOLEAN

\* A call that waits has one request at the sidecar, a call that has come back
\* none: the answer of a request that was given up, of one whose server died, or
\* of one that queued behind a load is never read as the answer about the next
\* crop of the same thread.
RequestsOf(t) == {r \in Request : request[r].client = t}
AnswersAreOwn ==
  \A t \in Thread :
    IF call[t] = "waiting" THEN \E r \in Request : RequestsOf(t) = {r}
                           ELSE RequestsOf(t) = {}

\* A model is set up at most once in the life of a process, whatever comes of it
\* and however many requests arrive during the load ("one log line, not a retry
\* storm", glm_ocr._load).
LoadedOnce == attempts.glm <= 1 /\ attempts.sidecar <= 1

\* All threads of a process hear the same from available(), also those that ask
\* while the model is loading: whether a document gets a second opinion must not
\* depend on when it was parsed, for its edition is kept under the same version.
OneOpinion == Cardinality(opinions) <= 1

\* A call to an engine comes back, whether the sidecar hangs, dies or never was
\* ("never blocks", glm_ocr.py and mineru.py).
CallsReturn == \A t \in Thread : call[t] # "idle" ~> call[t] = "idle"

\* A request the server has accepted ends, also one whose client has given up
\* and one that waits in _load while another one's load fails.
HandlersFinish ==
  \A r \in Request : request[r] # Free ~> request[r] = Free \/ sidecar.life = "hung"

\* post_image and generate: "None on any failure -- never raises"; the sidecar
\* "is free to answer 500 or die entirely without breaking ingestion".
CallsNeverRaise == \A t \in Thread : outcome[t] # "raised"
=============================================================================
