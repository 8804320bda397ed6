---------------------------- MODULE EnginesProofs ----------------------------
(***************************************************************************)
(* The lazy loads of Engines, for any number of threads and requests: a    *)
(* model is set up once in the life of a process, and every thread hears   *)
(* the same from available().                                              *)
(*                                                                         *)
(* The idea: the flag and the count of attempts change together under the  *)
(* lock, and while a thread holds GLM-OCR's lock nobody has been answered, *)
(* so the model may still come or fail.                                    *)
(***************************************************************************)
EXTENDS Engines, FiniteSetTheorems, TLAPS

OneIf(b) == IF b THEN 1 ELSE 0

\* The flag of each side counts its attempts; a sidecar starts anew.
FlagCounts ==
  /\ glm.tried \in BOOLEAN /\ sidecar.tried \in BOOLEAN
  /\ attempts.glm = OneIf(glm.tried) /\ attempts.sidecar = OneIf(sidecar.tried)
  /\ sidecar.life = "down" => ~sidecar.tried

\* Whoever loads holds the lock.
LoaderHoldsLock ==
  \A t \in Thread : call[t] = "loading" => glm.lock = t /\ glm.tried

\* Nobody has been let past _load before it has run once.
NobodyAhead ==
  glm.lock # NoOne \/ ~glm.tried =>
    opinions = {} /\ \A t \in Thread : call[t] # "checked"

HeardTheModel == opinions \subseteq {glm.model}

Shapes ==
  /\ DOMAIN call = Thread
  /\ glm \in [tried : BOOLEAN, model : BOOLEAN, lock : Thread \cup {NoOne}]
  /\ sidecar \in [tried : BOOLEAN, model : BOOLEAN, lock : Request \cup {NoOne},
                  life : {"down", "up", "hung"}]
  /\ attempts \in [glm : 0 .. 2, sidecar : 0 .. 2]

IInv == Shapes /\ FlagCounts /\ LoaderHoldsLock /\ NobodyAhead /\ HeardTheModel

LEMMA InitHolds == Init => IInv
  BY EnginesAssumption
  DEF Init, IInv, Shapes, FlagCounts, LoaderHoldsLock, NobodyAhead, HeardTheModel,
      Unset, Server, OneIf

\* The steps that leave GLM-OCR's lock, what it has said, who is loading or has
\* loaded it, and the sidecar's count alone.
LEMMA ElsewhereStep ==
  ASSUME IInv, UNCHANGED <<glm, opinions>>, Shapes',
         sidecar'.tried \in BOOLEAN, attempts'.glm = attempts.glm,
         attempts'.sidecar = OneIf(sidecar'.tried),
         sidecar'.life = "down" => ~sidecar'.tried,
         \A t \in Thread : call'[t] \in {"loading", "checked"} => call'[t] = call[t]
  PROVE  IInv'
  BY DEF IInv, Shapes, FlagCounts, LoaderHoldsLock, NobodyAhead, HeardTheModel

LEMMA AskingStep ==
  ASSUME IInv, NEW t \in Thread, AskGlm(t) \/ PostImage(t) \/ Infer(t) \/ Timeout(t)
  PROVE  IInv'
<1>1. UNCHANGED <<glm, sidecar, attempts, opinions>>
  BY DEF AskGlm, PostImage, Infer, Timeout
<1>2. \E place \in {"available", "waiting", "idle"} : Move(t, place)
  BY DEF AskGlm, PostImage, Infer, Timeout, Return
<1>3. Shapes'
  BY <1>1, <1>2 DEF IInv, Shapes, Move
<1>4. \A u \in Thread : call'[u] \in {"loading", "checked"} => call'[u] = call[u]
  BY <1>2 DEF IInv, Shapes, Move
<1> QED
  BY <1>1, <1>3, <1>4, ElsewhereStep DEF IInv, FlagCounts

LEMMA EnteringStep ==
  ASSUME IInv, NEW t \in Thread, EnterLoad(t)
  PROVE  IInv'
<1> USE EnginesAssumption DEF EnterLoad, Move
<1>1. CASE glm.tried
  <2>1. UNCHANGED <<glm, sidecar, attempts, opinions>> /\ Shapes'
    BY <1>1 DEF IInv, Shapes
  <2>2. LoaderHoldsLock'
    BY <1>1, <2>1 DEF IInv, Shapes, LoaderHoldsLock
  <2>3. NobodyAhead'
    BY <1>1, <2>1 DEF IInv, NobodyAhead
  <2> QED
    BY <2>1, <2>2, <2>3 DEF IInv, FlagCounts, HeardTheModel
<1>2. CASE ~glm.tried
  <2>1. /\ glm' = [glm EXCEPT !.tried = TRUE, !.lock = t]
        /\ attempts' = [attempts EXCEPT !.glm = 1]
        /\ call' = [call EXCEPT ![t] = "loading"]
        /\ UNCHANGED <<sidecar, opinions>>
    BY <1>2 DEF IInv, FlagCounts, OneIf, Take, AtMostTwo
  <2>2. Shapes' /\ FlagCounts'
    <3>1. glm'.tried = TRUE /\ attempts'.glm = 1 /\ attempts'.sidecar = attempts.sidecar
      BY <2>1 DEF IInv, Shapes
    <3>2. Shapes'
      <4>1. glm' \in [tried : BOOLEAN, model : BOOLEAN, lock : Thread \cup {NoOne}]
        BY <2>1 DEF IInv, Shapes
      <4>2. attempts' \in [glm : 0 .. 2, sidecar : 0 .. 2]
        BY <2>1 DEF IInv, Shapes
      <4> QED
        BY <2>1, <4>1, <4>2 DEF IInv, Shapes
    <3> QED
      BY <2>1, <3>1, <3>2 DEF IInv, FlagCounts, OneIf
  <2>3. \A u \in Thread : call[u] # "loading" /\ call[u] # "checked"
    BY <1>2 DEF IInv, LoaderHoldsLock, NobodyAhead
  <2>4. LoaderHoldsLock' /\ NobodyAhead' /\ HeardTheModel'
    BY <1>2, <2>1, <2>3 DEF IInv, Shapes, LoaderHoldsLock, NobodyAhead, HeardTheModel
  <2> QED
    BY <2>2, <2>4 DEF IInv
<1> QED
  BY <1>1, <1>2

\* The lock is given back with whatever model there is; no answer is out yet.
LEMMA SettlingStep ==
  ASSUME IInv, NEW t \in Thread, FinishLoad(t) \/ ProbeRaises(t)
  PROVE  IInv'
<1>1. PICK ok \in BOOLEAN, place \in {"checked", "idle"} :
        glm' = Settle(glm, ok) /\ Move(t, place)
  BY DEF FinishLoad, ProbeRaises, Return
<1>2. call[t] = "loading" /\ UNCHANGED <<sidecar, attempts, opinions>>
  BY DEF FinishLoad, ProbeRaises
<1>3. glm.lock = t /\ glm.tried /\ opinions = {}
  BY <1>2, EnginesAssumption DEF IInv, LoaderHoldsLock, NobodyAhead
<1>4. Shapes' /\ FlagCounts'
  BY <1>1, <1>2 DEF IInv, Shapes, FlagCounts, Settle, Move
<1>5. glm'.tried /\ glm'.lock = NoOne /\ opinions' = {}
  BY <1>1, <1>2, <1>3 DEF IInv, Shapes, Settle
<1>6. \A u \in Thread : call'[u] # "loading"
  BY <1>1, <1>3 DEF IInv, Shapes, LoaderHoldsLock, Move
<1> QED
  BY <1>4, <1>5, <1>6 DEF IInv, LoaderHoldsLock, NobodyAhead, HeardTheModel

\* An answer is given without the lock, after the load: the model is final.
LEMMA CheckingStep ==
  ASSUME IInv, NEW t \in Thread, CheckAvailable(t)
  PROVE  IInv'
<1>1. /\ call[t] = "checked" /\ opinions' = opinions \cup {glm.model}
      /\ UNCHANGED <<glm, sidecar, attempts>>
      /\ \E place \in {"inferring", "idle"} : Move(t, place)
  BY DEF CheckAvailable, Return
<1>2. glm.lock = NoOne /\ glm.tried
  BY <1>1 DEF IInv, NobodyAhead
<1>3. Shapes' /\ FlagCounts'
  BY <1>1 DEF IInv, Shapes, FlagCounts, Move
<1>4. LoaderHoldsLock'
  BY <1>1 DEF IInv, Shapes, LoaderHoldsLock, Move
<1> QED
  BY <1>1, <1>2, <1>3, <1>4 DEF IInv, NobodyAhead, HeardTheModel

\* A server thread, and the life of the server.
LEMMA SidecarStep ==
  ASSUME IInv,
         \/ \E r \in Request : Handler(r)
         \/ SidecarStarts \/ SidecarHangs \/ SidecarResumes \/ SidecarDies
  PROVE  IInv'
<1>1. UNCHANGED <<glm, opinions>> /\ attempts'.glm = attempts.glm
  BY DEF Handler, HandlerEnters, HandlerLoads, HandlerRecognizes, HandlerReplies,
         SidecarStarts, SidecarHangs, SidecarResumes, SidecarDies, IInv, Shapes
<1>2. /\ DOMAIN call' = Thread
      /\ \A t \in Thread : call'[t] \in {"loading", "checked"} => call'[t] = call[t]
  BY DEF Handler, HandlerEnters, HandlerLoads, HandlerRecognizes, HandlerReplies, Return, Move,
         SidecarStarts, SidecarHangs, SidecarResumes, SidecarDies, IInv, Shapes
<1>3. /\ sidecar' \in [tried : BOOLEAN, model : BOOLEAN, lock : Request \cup {NoOne},
                       life : {"down", "up", "hung"}]
      /\ attempts' \in [glm : 0 .. 2, sidecar : 0 .. 2]
      /\ attempts'.sidecar = OneIf(sidecar'.tried)
      /\ sidecar'.life = "down" => ~sidecar'.tried
  <2> USE DEF IInv, Shapes, FlagCounts, OneIf
  <2>1. ASSUME NEW r \in Request, Handler(r) PROVE <1>3!:
    <3>1. CASE HandlerEnters(r) /\ ~sidecar.tried
      <4>1. /\ sidecar' = [sidecar EXCEPT !.tried = TRUE, !.lock = r]
            /\ attempts' = [attempts EXCEPT !.sidecar = 1]
            /\ sidecar.life = "up"
        BY <3>1 DEF HandlerEnters, Take, AtMostTwo
      <4>2. sidecar'.tried = TRUE /\ attempts'.sidecar = 1 /\ sidecar'.life = "up"
        BY <4>1
      <4>3. attempts' \in [glm : 0 .. 2, sidecar : 0 .. 2]
        BY <4>1
      <4> QED
        BY <4>1, <4>2, <4>3
    <3>2. CASE HandlerLoads(r)
      <4>1. PICK ok \in BOOLEAN : sidecar' = [sidecar EXCEPT !.model = ok, !.lock = NoOne]
        BY <3>2 DEF HandlerLoads, Loads, LoadFails, Settle
      <4>2. attempts' = attempts
        BY <3>2 DEF HandlerLoads
      <4> QED
        BY <4>1, <4>2
    <3>3. CASE (HandlerEnters(r) /\ sidecar.tried) \/ HandlerRecognizes(r) \/ HandlerReplies(r)
      BY <3>3 DEF HandlerEnters, HandlerRecognizes, HandlerReplies
    <3> QED
      BY <2>1, <3>1, <3>2, <3>3 DEF Handler
  <2>2. ASSUME SidecarStarts PROVE <1>3!:
    <3>1. sidecar' = Server("up") /\ attempts' = attempts /\ ~sidecar.tried
      BY <2>2 DEF SidecarStarts
    <3> QED
      BY <3>1 DEF Server
  <2>3. ASSUME SidecarDies PROVE <1>3!:
    <3>1. sidecar' = Server("down") /\ attempts' = [attempts EXCEPT !.sidecar = 0]
      BY <2>3 DEF SidecarDies
    <3> QED
      BY <3>1 DEF Server
  <2>4. ASSUME SidecarHangs \/ SidecarResumes PROVE <1>3!:
    BY <2>4 DEF SidecarHangs, SidecarResumes
  <2> QED
    BY <2>1, <2>2, <2>3, <2>4
<1> QED
  BY <1>1, <1>2, <1>3, ElsewhereStep DEF IInv, Shapes

\* The inductive invariant holds of every behaviour of Engines.
THEOREM LoadInvariant == Spec => []IInv
<1>1. IInv /\ [Next]_vars => IInv'
  <2> SUFFICES ASSUME IInv, [Next]_vars PROVE IInv'
    OBVIOUS
  <2>1. CASE UNCHANGED vars
    BY <2>1 DEF vars, IInv, Shapes, FlagCounts, LoaderHoldsLock, NobodyAhead, HeardTheModel
  <2>2. ASSUME NEW t \in Thread, AskGlm(t) \/ PostImage(t) \/ Client(t) PROVE IInv'
    BY <2>2, AskingStep, EnteringStep, SettlingStep, CheckingStep DEF Client
  <2>3. CASE Next
    BY <2>2, <2>3, SidecarStep DEF Next
  <2> QED
    BY <2>1, <2>3
<1> QED
  BY <1>1, InitHolds, PTL DEF Spec

\* However many threads meet in _load, and whatever comes of the load, neither
\* GLM-OCR nor a sidecar sets up a model twice in one life.
THEOREM OneLoad == Spec => []LoadedOnce
<1>1. IInv => LoadedOnce
  BY DEF IInv, FlagCounts, OneIf, LoadedOnce
<1> QED
  BY <1>1, LoadInvariant, PTL

\* available() never changes its mind: two threads of a process hear the same.
THEOREM SameAnswer == Spec => []OneOpinion
<1>1. IInv => OneOpinion
  <2> SUFFICES ASSUME IInv PROVE OneOpinion
    OBVIOUS
  <2>1. IsFiniteSet({glm.model}) /\ Cardinality({glm.model}) = 1
    BY FS_Singleton
  <2>2. Cardinality(opinions) <= Cardinality({glm.model})
    BY <2>1, FS_Subset DEF IInv, HeardTheModel
  <2> QED
    BY <2>1, <2>2 DEF OneOpinion
<1> QED
  BY <1>1, LoadInvariant, PTL

---------------------------------------------------------------------------
Place == {"idle", "available", "loading", "checked", "inferring", "waiting"}
Result == {"none", "candidate", "raised"}
Stage == {"free", "load", "loading", "recognize", "reply none", "reply candidate"}

\* Where the calls and the requests are, and what became of them.
Traffic ==
  /\ call \in [Thread -> Place]
  /\ outcome \in [Thread -> Result]
  /\ request \in [Request -> [client : Thread \cup {NoOne}, at : Stage]]

LEMMA MovingThread ==
  ASSUME Traffic, NEW t \in Thread, NEW place \in Place, Move(t, place)
  PROVE  call' \in [Thread -> Place]
  BY DEF Traffic, Move

LEMMA ReturningThread ==
  ASSUME Traffic, NEW t \in Thread, NEW o \in Result, Return(t, o)
  PROVE  call' \in [Thread -> Place] /\ outcome' \in [Thread -> Result]
<1>1. "idle" \in Place
  BY DEF Place
<1> QED
  BY <1>1, MovingThread DEF Traffic, Return

LEMMA RequestAt ==
  ASSUME Traffic, NEW r \in Request, NEW stage \in Stage, At(r, stage)
  PROVE  request' \in [Request -> [client : Thread \cup {NoOne}, at : Stage]]
  BY DEF Traffic, At

LEMMA TrafficOfClients ==
  ASSUME Traffic, NEW t \in Thread, AskGlm(t) \/ PostImage(t) \/ Client(t)
  PROVE  Traffic'
<1>1. CASE AskGlm(t) \/ EnterLoad(t) \/ FinishLoad(t)
  <2>1. UNCHANGED <<outcome, request>>
    BY <1>1 DEF AskGlm, EnterLoad, FinishLoad
  <2>2. PICK place \in {"available", "checked", "loading"} : Move(t, place)
    BY <1>1 DEF AskGlm, EnterLoad, FinishLoad
  <2>3. call' \in [Thread -> Place]
    BY <2>2, MovingThread DEF Place
  <2> QED
    BY <2>1, <2>3 DEF Traffic
<1>2. CASE ProbeRaises(t) \/ Infer(t)
  <2>1. UNCHANGED request
    BY <1>2 DEF ProbeRaises, Infer
  <2>2. PICK o \in Result : Return(t, o)
    BY <1>2 DEF ProbeRaises, Infer, Result
  <2> QED
    BY <2>1, <2>2, ReturningThread DEF Traffic
<1>3. CASE CheckAvailable(t)
  <2>1. UNCHANGED request
    BY <1>3 DEF CheckAvailable
  <2>2. CASE glm.model
    BY <1>3, <2>1, <2>2, MovingThread DEF CheckAvailable, Place, Traffic
  <2>3. CASE ~glm.model
    BY <1>3, <2>1, <2>3, ReturningThread DEF CheckAvailable, Result, Traffic
  <2> QED
    BY <2>2, <2>3
<1>4. CASE PostImage(t)
  <2>1. CASE sidecar.life # "down"
    <3>1. Move(t, "waiting") /\ UNCHANGED outcome
      BY <1>4, <2>1 DEF PostImage
    <3>2. PICK r \in Request : request' = [request EXCEPT ![r] = [client |-> t, at |-> "load"]]
      BY <1>4, <2>1 DEF PostImage
    <3>3. request' \in [Request -> [client : Thread \cup {NoOne}, at : Stage]]
      BY <3>2 DEF Traffic, Stage
    <3> QED
      BY <3>1, <3>3, MovingThread DEF Traffic, Place
  <2>2. CASE sidecar.life = "down"
    BY <1>4, <2>2, ReturningThread DEF PostImage, Result, Traffic
  <2> QED
    BY <2>1, <2>2
<1>5. CASE Timeout(t)
  <2>1. request' \in [Request -> [client : Thread \cup {NoOne}, at : Stage]]
    <3>1. ASSUME NEW r \in Request
          PROVE  [request[r] EXCEPT !.client = NoOne] \in [client : Thread \cup {NoOne}, at : Stage]
      BY DEF Traffic
    <3> QED
      BY <1>5, <3>1 DEF Timeout, Traffic
  <2> QED
    BY <1>5, <2>1, ReturningThread DEF Timeout, Result, Traffic
<1> QED
  BY <1>1, <1>2, <1>3, <1>4, <1>5 DEF Client

\* A reply goes to a thread, or to nobody; a server that dies drops every request.
LEMMA TrafficOfSidecar ==
  ASSUME Traffic,
         \/ \E r \in Request : Handler(r)
         \/ SidecarStarts \/ SidecarHangs \/ SidecarResumes \/ SidecarDies
  PROVE  Traffic'
<1>1. ASSUME NEW r \in Request,
             HandlerEnters(r) \/ HandlerLoads(r) \/ HandlerRecognizes(r)
      PROVE  Traffic'
  <2>1. UNCHANGED <<call, outcome>>
    BY <1>1 DEF HandlerEnters, HandlerLoads, HandlerRecognizes
  <2>2. PICK stage \in Stage : At(r, stage)
    BY <1>1 DEF HandlerEnters, HandlerLoads, HandlerRecognizes, Loads, LoadFails, Stage
  <2> QED
    BY <2>1, <2>2, RequestAt DEF Traffic
<1>2. ASSUME NEW r \in Request, HandlerReplies(r) PROVE Traffic'
  <2>1. request' \in [Request -> [client : Thread \cup {NoOne}, at : Stage]]
    BY <1>2 DEF HandlerReplies, Traffic, Free, Stage
  <2>2. CASE request[r].client = NoOne
    BY <1>2, <2>1, <2>2 DEF HandlerReplies, Traffic
  <2>3. CASE request[r].client # NoOne
    <3>1. request[r].client \in Thread
      BY <2>3 DEF Traffic
    <3>2. PICK o \in Result : Return(request[r].client, o)
      BY <1>2, <2>3 DEF HandlerReplies, Result
    <3> QED
      BY <2>1, <3>1, <3>2, ReturningThread DEF Traffic
  <2> QED
    BY <2>2, <2>3
<1>3. CASE SidecarStarts \/ SidecarHangs \/ SidecarResumes
  BY <1>3 DEF SidecarStarts, SidecarHangs, SidecarResumes, Traffic
<1>4. CASE SidecarDies
  BY <1>4 DEF SidecarDies, Traffic, Free, Place, Result, Stage
<1> QED
  BY <1>1, <1>2, <1>3, <1>4 DEF Handler

\* Every call is at a place where the code can be, no thread is owed an answer by
\* a request of nobody's making, and available() says yes or no.
THEOREM EngineTypes == Spec => []TypeOK
<1>1. Init => Traffic
  BY DEF Init, Traffic, Free, Place, Result, Stage
<1>2. Traffic /\ [Next]_vars => Traffic'
  <2>1. CASE UNCHANGED vars
    BY <2>1 DEF vars, Traffic
  <2>2. CASE Next
    BY <2>2, TrafficOfClients, TrafficOfSidecar DEF Next
  <2> QED
    BY <2>1, <2>2
<1>3. IInv /\ Traffic => TypeOK
  BY DEF IInv, Shapes, HeardTheModel, Traffic, Place, Result, Stage, TypeOK
<1> QED
  BY <1>1, <1>2, <1>3, LoadInvariant, PTL DEF Spec

---------------------------------------------------------------------------
\* A step that opens no request, closes none and lets nobody in or out.
LEMMA NobodyTouched ==
  ASSUME AnswersAreOwn,
         \A t \in Thread : call'[t] = "waiting" <=> call[t] = "waiting",
         \A r \in Request : request'[r].client = request[r].client
  PROVE  AnswersAreOwn'
<1>1. \A t \in Thread : RequestsOf(t)' = RequestsOf(t)
  BY DEF RequestsOf
<1> QED
  BY <1>1 DEF AnswersAreOwn

\* A step about the request of one thread.
LEMMA OneTouched ==
  ASSUME AnswersAreOwn, NEW u \in Thread,
         \A t \in Thread \ {u} : call'[t] = call[t],
         \A r \in Request : \A t \in Thread \ {u} :
           request'[r].client = t <=> request[r].client = t,
         IF call'[u] = "waiting" THEN \E r \in Request : RequestsOf(u)' = {r}
                                 ELSE RequestsOf(u)' = {}
  PROVE  AnswersAreOwn'
<1>1. \A t \in Thread \ {u} : RequestsOf(t)' = RequestsOf(t)
  BY DEF RequestsOf
<1> QED
  BY <1>1 DEF AnswersAreOwn

LEMMA OwnOfClients ==
  ASSUME Traffic, AnswersAreOwn, NEW t \in Thread, AskGlm(t) \/ PostImage(t) \/ Client(t)
  PROVE  AnswersAreOwn'
<1> USE EnginesAssumption DEF Move, Return
<1>1. CASE AskGlm(t) \/ EnterLoad(t) \/ FinishLoad(t) \/ ProbeRaises(t)
           \/ CheckAvailable(t) \/ Infer(t)
  <2>1. request' = request /\ call[t] # "waiting"
    BY <1>1 DEF AskGlm, EnterLoad, FinishLoad, ProbeRaises, CheckAvailable, Infer
  <2>2. PICK place \in {"idle", "available", "loading", "checked", "inferring"} :
          call' = [call EXCEPT ![t] = place]
    BY <1>1 DEF AskGlm, EnterLoad, FinishLoad, ProbeRaises, CheckAvailable, Infer
  <2>3. \A u \in Thread : call'[u] = "waiting" <=> call[u] = "waiting"
    BY <2>1, <2>2 DEF Traffic
  <2> QED
    BY <2>1, <2>3, NobodyTouched
<1>2. CASE PostImage(t) /\ sidecar.life # "down"
  <2>1. call' = [call EXCEPT ![t] = "waiting"] /\ RequestsOf(t) = {}
    BY <1>2 DEF PostImage, AnswersAreOwn
  <2>2. PICK r \in Request :
          request[r] = Free /\ request' = [request EXCEPT ![r] = [client |-> t, at |-> "load"]]
    BY <1>2 DEF PostImage
  <2>3. request[r].client = NoOne /\ request'[r].client = t
    BY <2>2 DEF Traffic, Free
  <2>4. \A q \in Request : q # r => request'[q] = request[q]
    BY <2>2 DEF Traffic
  <2>5. RequestsOf(t)' = {r}
    BY <2>1, <2>3, <2>4 DEF RequestsOf
  <2>6. (\A u \in Thread \ {t} : call'[u] = call[u]) /\ call'[t] = "waiting"
    BY <2>1 DEF Traffic
  <2>7. \A q \in Request : \A u \in Thread \ {t} :
          request'[q].client = u <=> request[q].client = u
    BY <2>3, <2>4
  <2>8. r \in Request
    BY <2>2
  <2> QED
    BY <2>7, <2>5, <2>6, <2>8, OneTouched
<1>3. CASE PostImage(t) /\ sidecar.life = "down"
  <2>1. call' = [call EXCEPT ![t] = "idle"] /\ request' = request /\ call[t] = "idle"
    BY <1>3 DEF PostImage
  <2> QED
    BY <2>1, NobodyTouched DEF Traffic
<1>4. CASE Timeout(t)
  <2>1. call' = [call EXCEPT ![t] = "idle"]
    BY <1>4 DEF Timeout
  <2>2. \A r \in Request :
          request'[r].client = IF request[r].client = t THEN NoOne ELSE request[r].client
    BY <1>4 DEF Timeout, Traffic
  <2>3. RequestsOf(t)' = {} /\ call'[t] = "idle"
    BY <2>1, <2>2 DEF RequestsOf, Traffic
  <2>4. \A u \in Thread \ {t} : call'[u] = call[u]
    BY <2>1 DEF Traffic
  <2>5. \A q \in Request : \A u \in Thread \ {t} :
          request'[q].client = u <=> request[q].client = u
    BY <2>2
  <2> QED
    BY <2>3, <2>4, <2>5, OneTouched
<1> QED
  BY <1>1, <1>2, <1>3, <1>4 DEF Client

LEMMA OwnOfSidecar ==
  ASSUME Traffic, AnswersAreOwn,
         \/ \E r \in Request : Handler(r)
         \/ SidecarStarts \/ SidecarHangs \/ SidecarResumes \/ SidecarDies
  PROVE  AnswersAreOwn'
<1> USE EnginesAssumption
<1>1. ASSUME NEW r \in Request,
             HandlerEnters(r) \/ HandlerLoads(r) \/ HandlerRecognizes(r)
      PROVE  AnswersAreOwn'
  <2>1. UNCHANGED call
    BY <1>1 DEF HandlerEnters, HandlerLoads, HandlerRecognizes
  <2>2. PICK stage \in Stage : At(r, stage)
    BY <1>1 DEF HandlerEnters, HandlerLoads, HandlerRecognizes, Loads, LoadFails, Stage
  <2>3. \A q \in Request : request'[q].client = request[q].client
    BY <2>2 DEF At, Traffic
  <2> QED
    BY <2>1, <2>3, NobodyTouched
<1>2. ASSUME NEW r \in Request, HandlerReplies(r) PROVE AnswersAreOwn'
  <2>1. /\ request'[r].client = NoOne
        /\ \A q \in Request : q # r => request'[q] = request[q]
    BY <1>2 DEF HandlerReplies, Free, Traffic
  <2>2. CASE request[r].client = NoOne
    <3>1. UNCHANGED call
      BY <1>2, <2>2 DEF HandlerReplies
    <3>2. \A q \in Request : request'[q].client = request[q].client
      BY <2>1, <2>2
    <3> QED
      BY <3>1, <3>2, NobodyTouched
  <2>3. CASE request[r].client # NoOne
    <3>1. PICK c \in Thread : request[r].client = c
      BY <2>3 DEF Traffic
    <3>2. call' = [call EXCEPT ![c] = "idle"]
      BY <1>2, <2>3, <3>1 DEF HandlerReplies, Return, Move
    <3>3. RequestsOf(c) = {r}
      BY <3>1 DEF AnswersAreOwn, RequestsOf
    <3>4. RequestsOf(c)' = {} /\ call'[c] = "idle"
      BY <2>1, <3>1, <3>2, <3>3 DEF RequestsOf, Traffic
    <3>5. \A u \in Thread \ {c} : call'[u] = call[u]
      BY <3>2 DEF Traffic
    <3>6. \A q \in Request : \A u \in Thread \ {c} :
            request'[q].client = u <=> request[q].client = u
      BY <2>1, <3>1
    <3> QED
      BY <3>1, <3>4, <3>5, <3>6, OneTouched
  <2> QED
    BY <2>2, <2>3
<1>3. CASE SidecarStarts \/ SidecarHangs \/ SidecarResumes
  BY <1>3, NobodyTouched DEF SidecarStarts, SidecarHangs, SidecarResumes
<1>4. CASE SidecarDies
  <2>1. \A t \in Thread : call'[t] # "waiting"
    BY <1>4 DEF SidecarDies, Traffic
  <2>2. \A r \in Request : request'[r].client = NoOne
    BY <1>4 DEF SidecarDies, Free
  <2>3. \A t \in Thread : RequestsOf(t)' = {}
    BY <2>2 DEF RequestsOf
  <2> QED
    BY <2>1, <2>3 DEF AnswersAreOwn
<1> QED
  BY <1>1, <1>2, <1>3, <1>4 DEF Handler

\* Whoever waits for a sidecar has one request there and whoever has come back
\* none, whatever times out, fails, hangs or dies: a late answer is nobody's.
THEOREM OwnAnswers == Spec => []AnswersAreOwn
<1>1. Init => Traffic /\ AnswersAreOwn
  BY EnginesAssumption
  DEF Init, Traffic, Free, Place, Result, Stage, AnswersAreOwn, RequestsOf
<1>2. Traffic /\ AnswersAreOwn /\ [Next]_vars => Traffic' /\ AnswersAreOwn'
  <2> SUFFICES ASSUME Traffic, AnswersAreOwn, [Next]_vars
               PROVE  Traffic' /\ AnswersAreOwn'
    OBVIOUS
  <2>1. CASE UNCHANGED vars
    BY <2>1 DEF vars, Traffic, AnswersAreOwn, RequestsOf
  <2>2. CASE Next
    BY <2>2, TrafficOfClients, TrafficOfSidecar, OwnOfClients, OwnOfSidecar DEF Next
  <2> QED
    BY <2>1, <2>2
<1> QED
  BY <1>1, <1>2, PTL DEF Spec
=============================================================================
