---------------------------- MODULE PermitProofs ----------------------------
(***************************************************************************)
(* The semaphore of a process, for any number of permits and of tasks: the *)
(* permits that are free and the pipelines that run add up to              *)
(* INGESTION_MAX_CONCURRENT_PARSES, whatever way a task leaves             *)
(* process_pdf and whenever its process is restarted.  ParseServiceProofs  *)
(* is about the default, one permit; this holds of every setting.          *)
(***************************************************************************)
EXTENDS ParseService, FiniteSetTheorems, TLAPS

Holders(p) == {t \in Task : ProcOf[t] = p /\ pc[t] \in Running}

PermitInv ==
  /\ permits \in [Proc -> Nat]
  /\ DOMAIN pc = Task
  /\ PermitsConserved

\* The tasks of a process are finitely many, so its running ones can be counted.
LEMMA HoldersAreFinite ==
  ASSUME IsFiniteSet(Task)
  PROVE  \A p : IsFiniteSet(Holders(p)) /\ Cardinality(Holders(p)) \in Nat
<1> SUFFICES ASSUME NEW p
             PROVE  IsFiniteSet(Holders(p)) /\ Cardinality(Holders(p)) \in Nat
  OBVIOUS
<1>1. Holders(p) \in SUBSET Task
  BY DEF Holders
<1>2. IsFiniteSet(Holders(p))
  BY <1>1, FS_Subset
<1> QED BY <1>2, FS_CardinalityType

\* What the invariant needs of a step: permits and holders move together.
LEMMA Balance ==
  ASSUME permits' \in [Proc -> Nat], DOMAIN pc' = Task,
         \A p \in Proc : permits'[p] + Cardinality(Holders(p)') = MaxConcurrentParses[p]
  PROVE  PermitInv'
BY DEF PermitInv, PermitsConserved, Holders

\* A step that moves no task in or out of the pipeline.
LEMMA NobodyMoves ==
  ASSUME PermitInv, UNCHANGED permits, DOMAIN pc' = Task,
         \A t \in Task : pc'[t] \in Running <=> pc[t] \in Running
  PROVE  PermitInv'
<1>1. \A p : Holders(p)' = Holders(p)
  BY DEF Holders
<1>2. \A p \in Proc : permits[p] + Cardinality(Holders(p)) = MaxConcurrentParses[p]
  BY DEF PermitInv, PermitsConserved, Holders
<1> QED BY <1>1, <1>2, Balance DEF PermitInv

\* A task gets a permit (`async with _parse_semaphore`).
LEMMA Acquiring ==
  ASSUME IsFiniteSet(Task), PermitInv, NEW t \in Task, Acquire(t)
  PROVE  PermitInv'
<1> DEFINE own == ProcOf[t]
<1>1. own \in Proc
  BY StoreAssumption DEF Task
<1>2. /\ pc[t] = "queued" /\ pc' = [pc EXCEPT ![t] = "check"]
      /\ permits[own] > 0 /\ permits' = [permits EXCEPT ![own] = @ - 1]
  BY DEF Acquire
<1>3. /\ permits' \in [Proc -> Nat] /\ permits'[own] = permits[own] - 1
      /\ \A p \in Proc : p # own => permits'[p] = permits[p]
  BY <1>1, <1>2 DEF PermitInv
<1>4. DOMAIN pc' = Task /\ pc'[t] = "check" /\ \A u \in Task : u # t => pc'[u] = pc[u]
  BY <1>2 DEF PermitInv
<1>5. t \notin Holders(own) /\ Holders(own)' = Holders(own) \cup {t}
  BY <1>2, <1>4 DEF Holders, Running
<1>6. Cardinality(Holders(own)') = Cardinality(Holders(own)) + 1
  <2> DEFINE S == Holders(own)
  <2>1. IsFiniteSet(S)
    BY HoldersAreFinite
  <2>2. t \notin S /\ Holders(own)' = S \cup {t}
    BY <1>5
  <2> HIDE DEF S
  <2>3. Cardinality(S \cup {t}) = Cardinality(S) + 1
    BY <2>1, <2>2, FS_AddElement
  <2> QED BY <2>2, <2>3 DEF S
<1>7. \A p : p # own => Holders(p)' = Holders(p)
  BY <1>4 DEF Holders
<1>8. \A p \in Proc : permits[p] + Cardinality(Holders(p)) = MaxConcurrentParses[p]
  BY DEF PermitInv, PermitsConserved, Holders
<1>9. permits[own] \in Nat /\ Cardinality(Holders(own)) \in Nat
  BY <1>1, HoldersAreFinite DEF PermitInv
<1> HIDE DEF own
<1>10. \A p \in Proc : permits'[p] + Cardinality(Holders(p)') = MaxConcurrentParses[p]
  <2> SUFFICES ASSUME NEW p \in Proc
               PROVE  permits'[p] + Cardinality(Holders(p)') = MaxConcurrentParses[p]
    OBVIOUS
  <2>1. CASE p = own
    BY <2>1, <1>3, <1>6, <1>8, <1>9
  <2>2. CASE p # own
    BY <2>2, <1>3, <1>7, <1>8
  <2> QED BY <2>1, <2>2
<1> QED BY <1>3, <1>4, <1>10, Balance

\* A task gives its permit back, whatever the answer.
LEMMA Finishing ==
  ASSUME IsFiniteSet(Task), PermitInv, NEW t \in Task, NEW result,
         pc[t] \in Running, Finish(t, result)
  PROVE  PermitInv'
<1> DEFINE own == ProcOf[t]
<1>1. own \in Proc
  BY StoreAssumption DEF Task
<1>2. /\ pc' = [pc EXCEPT ![t] = "idle"]
      /\ permits' = [permits EXCEPT ![own] = @ + 1]
  BY DEF Finish
<1>3. /\ permits' \in [Proc -> Nat] /\ permits'[own] = permits[own] + 1
      /\ \A p \in Proc : p # own => permits'[p] = permits[p]
  BY <1>1, <1>2 DEF PermitInv
<1>4. DOMAIN pc' = Task /\ pc'[t] = "idle" /\ \A u \in Task : u # t => pc'[u] = pc[u]
  BY <1>2 DEF PermitInv
<1>5. t \in Holders(own) /\ Holders(own)' = Holders(own) \ {t}
  BY <1>4 DEF Holders, Running
<1>6. Cardinality(Holders(own)') = Cardinality(Holders(own)) - 1
  <2> DEFINE S == Holders(own)
  <2>1. IsFiniteSet(S)
    BY HoldersAreFinite
  <2>2. t \in S /\ Holders(own)' = S \ {t}
    BY <1>5
  <2> HIDE DEF S
  <2>3. Cardinality(S \ {t}) = Cardinality(S) - 1
    BY <2>1, <2>2, FS_RemoveElement
  <2> QED BY <2>2, <2>3 DEF S
<1>7. \A p : p # own => Holders(p)' = Holders(p)
  BY <1>4 DEF Holders
<1>8. \A p \in Proc : permits[p] + Cardinality(Holders(p)) = MaxConcurrentParses[p]
  BY DEF PermitInv, PermitsConserved, Holders
<1>9. permits[own] \in Nat /\ Cardinality(Holders(own)) \in Nat
  BY <1>1, HoldersAreFinite DEF PermitInv
<1> HIDE DEF own
<1>10. \A p \in Proc : permits'[p] + Cardinality(Holders(p)') = MaxConcurrentParses[p]
  <2> SUFFICES ASSUME NEW p \in Proc
               PROVE  permits'[p] + Cardinality(Holders(p)') = MaxConcurrentParses[p]
    OBVIOUS
  <2>1. CASE p = own
    BY <2>1, <1>3, <1>6, <1>8, <1>9
  <2>2. CASE p # own
    BY <2>2, <1>3, <1>7, <1>8
  <2> QED BY <2>1, <2>2
<1> QED BY <1>3, <1>4, <1>10, Balance

\* A process comes back with all its permits and none of its tasks.
LEMMA Restarting ==
  ASSUME IsFiniteSet(Task), PermitInv, NEW own \in Proc, Restart(own)
  PROVE  PermitInv'
<1>1. /\ permits' \in [Proc -> Nat] /\ permits'[own] = MaxConcurrentParses[own]
      /\ \A p \in Proc : p # own => permits'[p] = permits[p]
  BY ServiceAssumption DEF Restart, PermitInv
<1>2. pc' = [t \in Task |-> IF ProcOf[t] = own THEN "idle" ELSE pc[t]]
  BY DEF Restart
<1>3. Holders(own)' = {}
  BY <1>2 DEF Holders, Running
<1>4. \A p : p # own => Holders(p)' = Holders(p)
  BY <1>2 DEF Holders
<1>5. \A p \in Proc : permits[p] + Cardinality(Holders(p)) = MaxConcurrentParses[p]
  BY DEF PermitInv, PermitsConserved, Holders
<1>6. \A p \in Proc : permits'[p] + Cardinality(Holders(p)') = MaxConcurrentParses[p]
  <2> SUFFICES ASSUME NEW p \in Proc
               PROVE  permits'[p] + Cardinality(Holders(p)') = MaxConcurrentParses[p]
    OBVIOUS
  <2>1. CASE p = own
    <3>1. Cardinality(Holders(p)') = 0
      BY <2>1, <1>3, FS_EmptySet
    <3>2. MaxConcurrentParses[own] \in Nat
      BY ServiceAssumption
    <3> QED BY <2>1, <3>1, <3>2, <1>1
  <2>2. CASE p # own
    BY <2>2, <1>1, <1>4, <1>5
  <2> QED BY <2>1, <2>2
<1> QED BY <1>1, <1>2, <1>6, Balance

\* Early returns, exceptions and restarts neither leak nor forge a permit (the
\* semaphore of app/api.py, the thread pool of app/cli/evaluate_dir.py).
THEOREM PermitsAreConserved ==
  ASSUME IsFiniteSet(Task) PROVE Spec => []PermitsConserved
<1>1. Init => PermitInv
  <2> SUFFICES ASSUME Init PROVE PermitInv
    OBVIOUS
  <2>1. permits = MaxConcurrentParses /\ pc = [t \in Task |-> "idle"]
    BY DEF Init
  <2>2. permits \in [Proc -> Nat]
    BY <2>1, ServiceAssumption
  <2>3. \A p : Holders(p) = {}
    BY <2>1 DEF Holders, Running
  <2>4. \A p \in Proc : permits[p] + Cardinality(Holders(p)) = MaxConcurrentParses[p]
    BY <2>1, <2>2, <2>3, FS_EmptySet
  <2> QED BY <2>1, <2>2, <2>4 DEF PermitInv, PermitsConserved, Holders
<1>2. PermitInv /\ [Next]_vars => PermitInv'
  <2> SUFFICES ASSUME PermitInv, [Next]_vars PROVE PermitInv'
    OBVIOUS
  <2>1. ASSUME NEW t \in Task, NEW d \in Doc, Parse(t, d) \/ ParseDocument(t, d)
        PROVE  PermitInv'
    BY <2>1, NobodyMoves DEF Parse, ParseDocument, Enqueue, PermitInv, Running
  <2>2. ASSUME NEW t \in Task, Work(t)
        PROVE  PermitInv'
    <3>1. CASE Check(t)
      <4>1. pc[t] \in Running
        BY <3>1 DEF Check, Running
      <4>2. CASE \E result : Finish(t, result)
        BY <4>1, <4>2, Finishing
      <4>3. CASE pc' = [pc EXCEPT ![t] = "assemble"] /\ UNCHANGED permits
        BY <4>1, <4>3, NobodyMoves DEF PermitInv, Running
      <4> QED BY <3>1, <4>2, <4>3 DEF Check
    <3>2. CASE Assemble(t) \/ Open(t) \/ Write(t)
      BY <2>2, <3>2, NobodyMoves DEF Assemble, Open, Write, PermitInv, Running
    <3>3. CASE Replace(t)
      <4>1. pc[t] \in Running
        BY <3>3 DEF Replace, Running
      <4>2. CASE Finish(t, "processed")
        BY <4>1, <4>2, Finishing
      <4>3. CASE pc' = [pc EXCEPT ![t] = "open"] /\ UNCHANGED permits
        BY <4>1, <4>3, NobodyMoves DEF PermitInv, Running
      <4> QED BY <3>3, <4>2, <4>3 DEF Replace
    <3>4. CASE Fail(t)
      BY <2>2, <3>4, Finishing DEF Fail, Running
    <3> QED BY <2>2, <3>1, <3>2, <3>3, <3>4 DEF Work
  <2>3. CASE UNCHANGED vars
    BY <2>3, NobodyMoves DEF vars, PermitInv
  <2> QED BY <2>1, <2>2, <2>3, Acquiring, Restarting DEF Next
<1>3. PermitInv => PermitsConserved
  BY DEF PermitInv
<1> QED BY <1>1, <1>2, <1>3, PTL DEF Spec
=============================================================================
