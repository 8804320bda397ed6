------------------------- MODULE ParseServiceProofs -------------------------
(***************************************************************************)
(* Proofs about ParseService for any number of processes, tasks, documents *)
(* and environments, under the default configuration: every process runs   *)
(* one pipeline at a time.                                                 *)
(***************************************************************************)
EXTENDS ParseService, TLAPS

USE DEF getpid    \* the pid of a task is the process it belongs to

\* INGESTION_MAX_CONCURRENT_PARSES and --workers are 1 (their defaults).
OneParseAtATime == \A p \in Proc : MaxConcurrentParses[p] = 1

\* The permit is a mutual exclusion lock per process.
Exclusive ==
  /\ \A p \in Proc : permits[p] \in {0, 1}
  /\ \A t \in Task : pc[t] \in Running => permits[ProcOf[t]] = 0
  /\ \A t, u \in Task :
       pc[t] \in Running /\ pc[u] \in Running /\ ProcOf[t] = ProcOf[u] => t = u

\* Only the task that is writing has a file open: its own temporary file.
HandlesAreTheWriters ==
  \A t \in Task :
    IF pc[t] = "write"
    THEN /\ handle[t] = [path |-> Target(t), name |-> "tmp"]
         /\ tmp[ProcOf[t]][Target(t)] = Empty
    ELSE handle[t] = Closed

\* What is about to be renamed is what the task has just written.
ReadyToReplace ==
  \A t \in Task :
    pc[t] = "replace" => tmp[ProcOf[t]][Target(t)] = setting[ProcOf[t]]

\* A task works on the key its process computed, on an item the document has,
\* after it has published all the items before it.
InOrder ==
  \A t \in Task :
    /\ page[t] <= PageCount[key[t][1]]
    /\ pc[t] # "idle" => key[t][2] = PIPELINE_VERSION(setting[ProcOf[t]])
    /\ pc[t] \in {"idle", "queued", "check", "assemble"} => page[t] = 0
    /\ \A n \in 0 .. PageCount[key[t][1]] : n < page[t] => Whole(<<key[t], n>>)

IInv ==
  /\ TypeOK
  /\ Exclusive
  /\ HandlesAreTheWriters
  /\ ReadyToReplace
  /\ InOrder
  /\ PublishedIsWhole
  /\ ProcessedIsComplete
  /\ PagesFollowEdition
  /\ EditionHasItsVersion

---------------------------------------------------------------------------
\* A key is a document and a version.
LEMMA KeysArePairs ==
  \A k \in Key : k[1] \in Doc /\ k[2] \in Version /\ PageCount[k[1]] \in Nat
BY StoreAssumption DEF Key

\* The paths are exactly the items of the keys.
LEMMA PathsAreItems ==
  \A path : path \in Path <=>
    \E k \in Key : \E n \in 0 .. PageCount[k[1]] : path = <<k, n>>
BY DEF Path

LEMMA TargetIsAPath ==
  ASSUME TypeOK, InOrder, NEW t \in Task
  PROVE  Target(t) \in Path
<1>1. key[t] \in Key /\ page[t] \in 0 .. PageCount[key[t][1]]
  BY StoreAssumption DEF TypeOK, InOrder, Key
<1> QED BY <1>1, PathsAreItems DEF Target

\* The initial states satisfy the invariant.
LEMMA InitIInv == ASSUME OneParseAtATime, Init PROVE IInv
<1> USE DEF Init, StoreInit
<1>1. \E k \in Key : TRUE
  BY ServiceAssumption
<1>2. (CHOOSE k \in Key : TRUE) \in Key
  BY <1>1
<1>3. StoreTypeOK
  BY DEF StoreTypeOK, File, Handle
<1>4. TypeOK
  BY <1>2, <1>3, ServiceAssumption DEF TypeOK, QueueTypeOK, Answers
<1>5. Exclusive
  BY ServiceAssumption, StoreAssumption DEF OneParseAtATime, Exclusive, Running, Task
<1>6. HandlesAreTheWriters /\ ReadyToReplace
  BY DEF HandlesAreTheWriters, ReadyToReplace, Task
<1>7. InOrder
  <2>1. \A t \in Task : page[t] = 0 /\ pc[t] = "idle" /\ key[t] \in Key
    BY <1>2
  <2>2. \A t \in Task : PageCount[key[t][1]] \in Nat
    BY <2>1, KeysArePairs
  <2> QED BY <2>1, <2>2 DEF InOrder
<1>8. \A path \in Path : final[path] = Absent
  OBVIOUS
<1>9. PublishedIsWhole
  BY <1>8 DEF PublishedIsWhole
<1>10. ProcessedIsComplete
  BY DEF ProcessedIsComplete
<1>11. PagesFollowEdition
  BY <1>8, PathsAreItems, KeysArePairs DEF PagesFollowEdition
<1>12. EditionHasItsVersion
  BY <1>8, PathsAreItems, StoreAssumption DEF EditionHasItsVersion, Whole, PathsOf
<1> QED BY <1>4, <1>5, <1>6, <1>7, <1>9, <1>10, <1>11, <1>12 DEF IInv

---------------------------------------------------------------------------
\* The part of the invariant about published files survives a step that leaves
\* them alone.
LEMMA StoreUnchanged ==
  ASSUME IInv, UNCHANGED final
  PROVE  PublishedIsWhole' /\ PagesFollowEdition' /\ EditionHasItsVersion'
BY DEF IInv, PublishedIsWhole, PagesFollowEdition, EditionHasItsVersion, Whole

\* Most steps leave the queues alone.
LEMMA QueueStays == ASSUME QueueTypeOK, UNCHANGED queue PROVE QueueTypeOK'
BY DEF QueueTypeOK

\* A request arrives.
LEMMA ArriveStep ==
  ASSUME IInv, NEW t \in Task, NEW d \in Doc, Parse(t, d) \/ ParseDocument(t, d)
  PROVE  IInv'
<1> DEFINE k == compute_key(ProcOf[t], d)
<1>1. k \in Key /\ k[2] = PIPELINE_VERSION(setting[ProcOf[t]])
  BY StoreAssumption, ServiceAssumption DEF IInv, TypeOK, compute_key, Key, Task
<1>2. /\ pc[t] = "idle"
      /\ key' = [key EXCEPT ![t] = k]
      /\ \/ pc' = pc /\ answer' = [answer EXCEPT ![t] = "already_processed"]
         \/ pc' = [pc EXCEPT ![t] = "queued"] /\ answer' = [answer EXCEPT ![t] = "none"]
      /\ UNCHANGED <<storeVars, setting, permits, page>>
  BY DEF Parse, ParseDocument, Enqueue
<1>3. UNCHANGED <<final, tmp, handle>>
  BY <1>2 DEF storeVars
<1>10. QueueTypeOK'
  <2>1. queue' = queue \/ queue' = [queue EXCEPT ![ProcOf[t]] = Append(@, t)]
    BY DEF Parse, ParseDocument, Enqueue
  <2>2. ProcOf[t] \in Proc /\ queue \in [Proc -> Seq(Task)]
    BY StoreAssumption DEF IInv, TypeOK, QueueTypeOK, Task
  <2>3. Append(queue[ProcOf[t]], t) \in Seq(Task)
    BY <2>2
  <2> QED BY <2>1, <2>2, <2>3 DEF QueueTypeOK
<1> HIDE DEF k
<1>4. TypeOK'
  BY <1>1, <1>2, <1>3, <1>10 DEF IInv, TypeOK, StoreTypeOK, Answers
<1>5. Exclusive'
  BY <1>2 DEF IInv, TypeOK, Exclusive, Running
<1>6. HandlesAreTheWriters'
  BY <1>2, <1>3 DEF IInv, TypeOK, HandlesAreTheWriters, Target
<1>7. ReadyToReplace'
  BY <1>2, <1>3 DEF IInv, TypeOK, ReadyToReplace, Target
<1>8. InOrder'
  BY <1>1, <1>2, <1>3, KeysArePairs DEF IInv, TypeOK, InOrder, Whole
<1>9. ProcessedIsComplete'
  BY <1>2, <1>3 DEF IInv, TypeOK, ProcessedIsComplete, Whole
<1> QED BY <1>3, <1>4, <1>5, <1>6, <1>7, <1>8, <1>9, StoreUnchanged DEF IInv

\* A queued task gets a permit.
LEMMA AcquireStep ==
  ASSUME IInv, NEW t \in Task, Acquire(t)
  PROVE  IInv'
<1>1. /\ pc[t] = "queued" /\ pc' = [pc EXCEPT ![t] = "check"]
      /\ permits[ProcOf[t]] > 0
      /\ permits' = [permits EXCEPT ![ProcOf[t]] = @ - 1]
      /\ queue[ProcOf[t]] # <<>>
      /\ queue' = [queue EXCEPT ![ProcOf[t]] = Tail(@)]
      /\ UNCHANGED <<final, tmp, handle, setting, key, page, answer>>
  BY DEF Acquire, storeVars
<1>2. ProcOf[t] \in Proc
  BY StoreAssumption DEF Task
<1>3. permits[ProcOf[t]] = 1 /\ permits'[ProcOf[t]] = 0
  BY <1>1, <1>2 DEF IInv, TypeOK, Exclusive
<1>10. QueueTypeOK'
  <2>1. queue \in [Proc -> Seq(Task)] /\ Tail(queue[ProcOf[t]]) \in Seq(Task)
    BY <1>1, <1>2 DEF IInv, TypeOK, QueueTypeOK
  <2> QED BY <1>1, <2>1 DEF QueueTypeOK
<1>4. TypeOK'
  BY <1>1, <1>2, <1>3, <1>10 DEF IInv, TypeOK, StoreTypeOK, Running
<1>5. Exclusive'
  BY <1>1, <1>2, <1>3, StoreAssumption DEF IInv, TypeOK, Exclusive, Running, Task
<1>6. HandlesAreTheWriters'
  BY <1>1 DEF IInv, TypeOK, HandlesAreTheWriters, Target
<1>7. ReadyToReplace'
  BY <1>1 DEF IInv, TypeOK, ReadyToReplace, Target
<1>8. InOrder'
  BY <1>1 DEF IInv, TypeOK, InOrder, Whole
<1>9. ProcessedIsComplete'
  BY <1>1 DEF IInv, ProcessedIsComplete, Whole
<1> QED BY <1>1, <1>4, <1>5, <1>6, <1>7, <1>8, <1>9, StoreUnchanged DEF IInv

\* The end of a task, whatever it answers.
LEMMA FinishEffect ==
  ASSUME IInv, NEW t \in Task, NEW result \in Answers, pc[t] \in Running,
         Finish(t, result)
  PROVE  /\ Exclusive'
         /\ permits' \in [Proc -> Nat] /\ page' \in [Task -> Nat]
         /\ QueueTypeOK'
         /\ pc' \in [Task -> {"idle", "queued"} \cup Running]
         /\ answer' \in [Task -> Answers]
<1>1. ProcOf[t] \in Proc /\ permits[ProcOf[t]] = 0
  BY StoreAssumption DEF IInv, Exclusive, Task
<1>2. /\ pc' = [pc EXCEPT ![t] = "idle"]
      /\ permits' = [permits EXCEPT ![ProcOf[t]] = 1]
  BY <1>1 DEF Finish
<1>3. \A u \in Task : pc'[u] \in Running => pc[u] \in Running /\ ProcOf[u] # ProcOf[t]
  BY <1>2 DEF IInv, TypeOK, Exclusive, Running
<1>4. Exclusive'
  BY <1>1, <1>2, <1>3, StoreAssumption DEF IInv, TypeOK, Exclusive, Task
<1> QED BY QueueStays, <1>1, <1>2, <1>4 DEF IInv, TypeOK, Finish

\* quarantine.check and the existence check.
LEMMA CheckStep ==
  ASSUME IInv, NEW t \in Task, Check(t)
  PROVE  IInv'
<1>1. pc[t] = "check" /\ UNCHANGED <<final, tmp, handle, setting, key>>
  BY DEF Check, storeVars
<1>2. CASE \E r \in {"quarantined", "already_processed"} : Finish(t, r)
  <2>1. PICK r \in {"quarantined", "already_processed"} : Finish(t, r)
    BY <1>2
  <2>2. /\ pc' = [pc EXCEPT ![t] = "idle"] /\ page' = [page EXCEPT ![t] = 0]
        /\ answer' = [answer EXCEPT ![t] = r]
    BY <2>1 DEF Finish
  <2>3. Exclusive' /\ TypeOK'
    BY <1>1, <2>1, FinishEffect DEF IInv, TypeOK, StoreTypeOK, Answers, Running
  <2>4. HandlesAreTheWriters'
    BY <1>1, <2>2 DEF IInv, TypeOK, HandlesAreTheWriters, Target
  <2>5. ReadyToReplace'
    BY <1>1, <2>2 DEF IInv, TypeOK, ReadyToReplace, Target
  <2>6. InOrder'
    BY <1>1, <2>2 DEF IInv, TypeOK, InOrder, Whole
  <2>7. ProcessedIsComplete'
    BY <1>1, <2>1, <2>2 DEF IInv, TypeOK, ProcessedIsComplete, Whole
  <2> QED BY <1>1, <2>3, <2>4, <2>5, <2>6, <2>7, StoreUnchanged DEF IInv
<1>3. CASE pc' = [pc EXCEPT ![t] = "assemble"] /\ UNCHANGED <<permits, queue, page, answer>>
  <2>1. TypeOK' /\ Exclusive'
    BY QueueStays, <1>1, <1>3 DEF IInv, TypeOK, StoreTypeOK, Exclusive, Running
  <2>2. HandlesAreTheWriters'
    BY <1>1, <1>3 DEF IInv, TypeOK, HandlesAreTheWriters, Target
  <2>3. ReadyToReplace'
    BY <1>1, <1>3 DEF IInv, TypeOK, ReadyToReplace, Target
  <2>4. InOrder'
    BY <1>1, <1>3 DEF IInv, TypeOK, InOrder, Whole
  <2>5. ProcessedIsComplete'
    BY <1>1, <1>3 DEF IInv, ProcessedIsComplete, Whole
  <2> QED BY <1>1, <2>1, <2>2, <2>3, <2>4, <2>5, StoreUnchanged DEF IInv
<1> QED BY <1>2, <1>3 DEF Check

\* The edition is built; the first file is due.
LEMMA AssembleStep ==
  ASSUME IInv, NEW t \in Task, Assemble(t)
  PROVE  IInv'
<1>1. /\ pc[t] = "assemble" /\ pc' = [pc EXCEPT ![t] = "open"]
      /\ UNCHANGED <<final, tmp, handle, setting, permits, queue, key, page, answer>>
  BY DEF Assemble, storeVars
<1>2. TypeOK' /\ Exclusive'
  BY QueueStays, <1>1 DEF IInv, TypeOK, StoreTypeOK, Exclusive, Running
<1>3. HandlesAreTheWriters'
  BY <1>1 DEF IInv, TypeOK, HandlesAreTheWriters, Target
<1>4. ReadyToReplace'
  BY <1>1 DEF IInv, TypeOK, ReadyToReplace, Target
<1>5. InOrder'
  BY <1>1 DEF IInv, TypeOK, InOrder, Whole
<1>6. ProcessedIsComplete'
  BY <1>1 DEF IInv, ProcessedIsComplete, Whole
<1> QED BY <1>1, <1>2, <1>3, <1>4, <1>5, <1>6, StoreUnchanged DEF IInv

\* The temporary file is opened; nobody else of the process has one open.
LEMMA OpenStep ==
  ASSUME IInv, NEW t \in Task, Open(t)
  PROVE  IInv'
<1>1. /\ pc[t] = "open" /\ pc' = [pc EXCEPT ![t] = "write"]
      /\ tmp' = [tmp EXCEPT ![ProcOf[t]][Target(t)] = Empty]
      /\ handle' = [handle EXCEPT ![t] = [path |-> Target(t), name |-> "tmp"]]
      /\ UNCHANGED <<final, setting, permits, queue, key, page, answer>>
  BY DEF Open, OpenTmp
<1>2. Target(t) \in Path /\ ProcOf[t] \in Proc
  BY TargetIsAPath, StoreAssumption DEF IInv, Task
<1>3. \A u \in Task : pc[u] \in Running /\ ProcOf[u] = ProcOf[t] => u = t
  BY <1>1 DEF IInv, Exclusive, Running
<1>4. \A u \in Task : Target(u)' = Target(u)
  BY <1>1 DEF Target
<1>5. \A p \in Proc, path \in Path : p # ProcOf[t] => tmp'[p][path] = tmp[p][path]
  BY <1>1 DEF IInv, TypeOK, StoreTypeOK
<1>6. tmp'[ProcOf[t]][Target(t)] = Empty
  BY <1>1, <1>2 DEF IInv, TypeOK, StoreTypeOK
<1>7. \A u \in Task : Target(u) \in Path /\ ProcOf[u] \in Proc
  BY TargetIsAPath, StoreAssumption DEF IInv, Task
<1>8. TypeOK'
  <2>1. tmp' \in [Proc -> [Path -> File]]
    BY <1>1, <1>2 DEF IInv, TypeOK, StoreTypeOK, File
  <2>2. handle' \in [Writer -> Handle]
    BY <1>1, <1>2 DEF IInv, TypeOK, StoreTypeOK, Handle, Task
  <2> QED BY QueueStays, <1>1, <2>1, <2>2 DEF IInv, TypeOK, StoreTypeOK, Running
<1>9. Exclusive'
  BY <1>1 DEF IInv, TypeOK, Exclusive, Running
<1>10. HandlesAreTheWriters'
  <2> SUFFICES ASSUME NEW u \in Task
               PROVE  IF pc'[u] = "write"
                      THEN /\ handle'[u] = [path |-> Target(u), name |-> "tmp"]
                           /\ tmp'[ProcOf[u]][Target(u)] = Empty
                      ELSE handle'[u] = Closed
    BY <1>1, <1>4 DEF HandlesAreTheWriters
  <2>1. CASE u = t
    BY <1>1, <1>6, <2>1 DEF IInv, TypeOK, StoreTypeOK, Task
  <2>2. CASE u # t
    <3>1. pc'[u] = pc[u] /\ handle'[u] = handle[u]
      BY <1>1, <2>2 DEF IInv, TypeOK, StoreTypeOK, Task
    <3>2. pc[u] = "write" => tmp'[ProcOf[u]][Target(u)] = tmp[ProcOf[u]][Target(u)]
      BY <1>3, <1>5, <1>7, <2>2 DEF Running
    <3> QED BY <3>1, <3>2 DEF IInv, HandlesAreTheWriters
  <2> QED BY <2>1, <2>2
<1>11. ReadyToReplace'
  BY <1>1, <1>3, <1>4, <1>5, <1>7 DEF IInv, TypeOK, ReadyToReplace, Running
<1>12. InOrder'
  BY <1>1 DEF IInv, TypeOK, InOrder, Whole
<1>13. ProcessedIsComplete'
  BY <1>1 DEF IInv, ProcessedIsComplete, Whole
<1> QED BY <1>1, <1>8, <1>9, <1>10, <1>11, <1>12, <1>13, StoreUnchanged DEF IInv

\* The temporary file is filled and closed.
LEMMA WriteStep ==
  ASSUME IInv, NEW t \in Task, Write(t)
  PROVE  IInv'
<1> DEFINE data == setting[ProcOf[t]]
<1>1. /\ pc[t] = "write" /\ pc' = [pc EXCEPT ![t] = "replace"]
      /\ WriteTmp(t, data)
      /\ UNCHANGED <<setting, permits, queue, key, page, answer>>
  BY DEF Write
<1>2. /\ Target(t) \in Path /\ ProcOf[t] \in Proc /\ t \in Writer
      /\ data \in Data
  BY TargetIsAPath, StoreAssumption, ServiceAssumption DEF IInv, TypeOK, Task
<1>3. handle[t] = [path |-> Target(t), name |-> "tmp"] /\ tmp[ProcOf[t]][Target(t)] = Empty
  BY <1>1 DEF IInv, HandlesAreTheWriters
<1>4. /\ UNCHANGED final
      /\ tmp' = [tmp EXCEPT ![ProcOf[t]][Target(t)] = data]
      /\ handle' = [handle EXCEPT ![t] = Closed]
  <2>1. handle[t].name = "tmp" /\ handle[t].path = Target(t)
    BY <1>3
  <2>2. Overwrite(tmp[ProcOf[t]][Target(t)], data) = {data}
    BY <1>3 DEF Overwrite
  <2> HIDE DEF data
  <2>3. /\ UNCHANGED final
        /\ \E file \in Overwrite(tmp[ProcOf[t]][Target(t)], data) :
             tmp' = [tmp EXCEPT ![ProcOf[t]][Target(t)] = file]
    BY <1>1, <2>1 DEF WriteTmp
  <2> QED BY <1>1, <2>2, <2>3 DEF WriteTmp
<1> HIDE DEF data
<1>5. \A u \in Task : pc[u] \in Running /\ ProcOf[u] = ProcOf[t] => u = t
  BY <1>1 DEF IInv, Exclusive, Running
<1>6. \A u \in Task : Target(u)' = Target(u)
  BY <1>1 DEF Target
<1>7. \A p \in Proc, path \in Path : p # ProcOf[t] => tmp'[p][path] = tmp[p][path]
  BY <1>4 DEF IInv, TypeOK, StoreTypeOK
<1>8. tmp'[ProcOf[t]][Target(t)] = data
  BY <1>2, <1>4 DEF IInv, TypeOK, StoreTypeOK
<1>9. \A u \in Task : Target(u) \in Path /\ ProcOf[u] \in Proc
  BY TargetIsAPath, StoreAssumption DEF IInv, Task
<1>10. TypeOK'
  <2>1. tmp' \in [Proc -> [Path -> File]]
    BY <1>2, <1>4 DEF IInv, TypeOK, StoreTypeOK, File
  <2>2. handle' \in [Writer -> Handle]
    BY <1>2, <1>4 DEF IInv, TypeOK, StoreTypeOK, Handle
  <2> QED BY QueueStays, <1>1, <1>4, <2>1, <2>2 DEF IInv, TypeOK, StoreTypeOK, Running
<1>11. Exclusive'
  BY <1>1 DEF IInv, TypeOK, Exclusive, Running
<1>12. HandlesAreTheWriters'
  <2> SUFFICES ASSUME NEW u \in Task
               PROVE  IF pc'[u] = "write"
                      THEN /\ handle'[u] = [path |-> Target(u), name |-> "tmp"]
                           /\ tmp'[ProcOf[u]][Target(u)] = Empty
                      ELSE handle'[u] = Closed
    BY <1>6 DEF HandlesAreTheWriters
  <2>1. CASE u = t
    BY <1>1, <1>2, <1>4, <2>1 DEF IInv, TypeOK, StoreTypeOK
  <2>2. CASE u # t
    <3>1. pc'[u] = pc[u] /\ handle'[u] = handle[u]
      BY <1>1, <1>4, <2>2 DEF IInv, TypeOK, StoreTypeOK, Task
    <3>2. pc[u] = "write" => tmp'[ProcOf[u]][Target(u)] = tmp[ProcOf[u]][Target(u)]
      BY <1>5, <1>7, <1>9, <2>2 DEF Running
    <3> QED BY <3>1, <3>2 DEF IInv, HandlesAreTheWriters
  <2> QED BY <2>1, <2>2
<1>13. ReadyToReplace'
  <2> SUFFICES ASSUME NEW u \in Task, pc'[u] = "replace"
               PROVE  tmp'[ProcOf[u]][Target(u)] = setting[ProcOf[u]]
    BY <1>1, <1>6 DEF ReadyToReplace
  <2>1. CASE u = t
    BY <1>8, <2>1 DEF data
  <2>2. CASE u # t
    <3>1. pc[u] = "replace"
      BY <1>1, <2>2 DEF IInv, TypeOK
    <3>2. tmp'[ProcOf[u]][Target(u)] = tmp[ProcOf[u]][Target(u)]
      BY <1>5, <1>7, <1>9, <2>2, <3>1 DEF Running
    <3> QED BY <3>1, <3>2 DEF IInv, ReadyToReplace
  <2> QED BY <2>1, <2>2
<1>14. InOrder'
  BY <1>1, <1>4 DEF IInv, TypeOK, InOrder, Whole
<1>15. ProcessedIsComplete'
  BY <1>1, <1>4 DEF IInv, ProcessedIsComplete, Whole
<1> QED BY <1>4, <1>10, <1>11, <1>12, <1>13, <1>14, <1>15, StoreUnchanged DEF IInv

\* What a rename does, given the invariant: one complete file appears, built by
\* the process that writes it, and no file of another task moves.
LEMMA ReplaceEffect ==
  ASSUME IInv, NEW t \in Task, pc[t] = "replace", ReplaceTmp(t, Target(t))
  PROVE  /\ Target(t) \in Path
         /\ setting[ProcOf[t]] \in Data
         /\ final' = [final EXCEPT ![Target(t)] = setting[ProcOf[t]]]
         /\ tmp' = [tmp EXCEPT ![ProcOf[t]][Target(t)] = Absent]
         /\ UNCHANGED handle
<1>1. Target(t) \in Path /\ setting[ProcOf[t]] \in Data
  BY TargetIsAPath, StoreAssumption, ServiceAssumption DEF IInv, TypeOK, Task
<1>2. final' = [final EXCEPT ![Target(t)] = setting[ProcOf[t]]]
  BY DEF ReplaceTmp, IInv, ReadyToReplace
<1>3. \A v \in Writer : Renamed(t, Target(t), v) = handle[v]
  <2> SUFFICES ASSUME NEW v \in Writer
               PROVE  Renamed(t, Target(t), v) = handle[v]
    OBVIOUS
  <2>1. CASE pc[v] = "write"
    <3>1. handle[v] = [path |-> Target(v), name |-> "tmp"]
      BY <2>1 DEF IInv, HandlesAreTheWriters, Task
    <3>2. ProcOf[v] # ProcOf[t]
      BY <2>1 DEF IInv, Exclusive, Running, Task
    <3> QED BY <3>1, <3>2 DEF Renamed
  <2>2. CASE pc[v] # "write"
    <3>1. handle[v] = Closed
      BY <2>2 DEF IInv, HandlesAreTheWriters, Task
    <3>2. Closed.name \notin {"tmp", "final"}
      BY DEF Closed
    <3> QED BY <3>1, <3>2 DEF Renamed
  <2> QED BY <2>1, <2>2
<1>4. UNCHANGED handle
  BY <1>3 DEF ReplaceTmp, IInv, TypeOK, StoreTypeOK
<1> QED BY <1>1, <1>2, <1>4 DEF ReplaceTmp

\* A rename publishes one more file of the document.
LEMMA ReplaceStep ==
  ASSUME IInv, NEW t \in Task, Replace(t)
  PROVE  IInv'
<1> DEFINE data == setting[ProcOf[t]]
           target == Target(t)
<1>1. /\ pc[t] = "replace" /\ UNCHANGED <<setting, key>>
      /\ ReplaceTmp(t, target)
  BY DEF Replace
<1>2. /\ target \in Path /\ data \in Data
      /\ final' = [final EXCEPT ![target] = data]
      /\ tmp' = [tmp EXCEPT ![ProcOf[t]][target] = Absent]
      /\ UNCHANGED handle
  BY <1>1, ReplaceEffect
<1>3. /\ key[t] \in Key /\ page[t] \in 0 .. PageCount[key[t][1]]
      /\ PageCount[key[t][1]] \in Nat /\ target = <<key[t], page[t]>>
      /\ key[t][2] = PIPELINE_VERSION(data) /\ t \in Task /\ ProcOf[t] \in Proc
  BY <1>1, KeysArePairs, StoreAssumption DEF IInv, TypeOK, InOrder, Target, Task
<1>4. \A u \in Task : pc[u] \in Running /\ ProcOf[u] = ProcOf[t] => u = t
  BY <1>1 DEF IInv, Exclusive, Running
<1>5. \A u \in Task : Target(u) \in Path /\ ProcOf[u] \in Proc
  BY TargetIsAPath, StoreAssumption DEF IInv, Task
<1>6. \A p \in Proc, path \in Path : p # ProcOf[t] => tmp'[p][path] = tmp[p][path]
  BY <1>2 DEF IInv, TypeOK, StoreTypeOK
<1> HIDE DEF data
<1>7. /\ final'[target] = data
      /\ \A path \in Path : path # target => final'[path] = final[path]
  BY <1>2 DEF IInv, TypeOK, StoreTypeOK
<1>8. \A path \in Path : Whole(path) => Whole(path)'
  BY <1>2, <1>7 DEF Whole
<1> HIDE DEF target
<1>9. StoreTypeOK'
  <2>1. final' \in [Path -> File] /\ tmp' \in [Proc -> [Path -> File]]
    BY <1>2, <1>3 DEF IInv, TypeOK, StoreTypeOK, File
  <2> QED BY <1>2, <2>1 DEF IInv, TypeOK, StoreTypeOK
<1>10. PublishedIsWhole'
  BY <1>2, <1>7 DEF IInv, PublishedIsWhole
<1>11. PagesFollowEdition'
  <2> SUFFICES ASSUME NEW k \in Key, NEW n \in 1 .. PageCount[k[1]],
                      final'[<<k, n>>] # Absent
               PROVE  final'[<<k, n - 1>>] # Absent
    BY DEF PagesFollowEdition
  <2>1. /\ PageCount[k[1]] \in Nat /\ n \in 0 .. PageCount[k[1]]
        /\ n - 1 \in 0 .. PageCount[k[1]]
    BY KeysArePairs
  <2>2. <<k, n>> \in Path /\ <<k, n - 1>> \in Path
    BY <2>1, PathsAreItems
  <2>3. final[<<k, n - 1>>] # Absent
    <3>1. CASE <<k, n>> = target
      <4>1. n - 1 < page[t] /\ k = key[t]
        BY <1>3, <2>1, <3>1
      <4>2. Whole(<<k, n - 1>>)
        BY <1>3, <2>1, <4>1 DEF IInv, InOrder
      <4> QED BY <4>2, StoreAssumption DEF Whole
    <3>2. CASE <<k, n>> # target
      BY <1>7, <2>2, <3>2 DEF IInv, PagesFollowEdition
    <3> QED BY <3>1, <3>2
  <2> QED BY <1>2, <1>7, <2>2, <2>3, StoreAssumption
<1>12. EditionHasItsVersion'
  <2> SUFFICES ASSUME NEW k \in Key, NEW path \in PathsOf(k), Whole(path)'
               PROVE  PIPELINE_VERSION(final'[path]) = k[2]
    BY DEF EditionHasItsVersion
  <2>1. path \in Path /\ path[1] = k
    BY PathsAreItems DEF PathsOf
  <2>2. CASE path = target
    BY <1>3, <1>7, <2>1, <2>2
  <2>3. CASE path # target
    BY <1>7, <2>1, <2>3 DEF IInv, EditionHasItsVersion, Whole
  <2> QED BY <2>2, <2>3
<1>13. \A u \in Task : u # t => pc'[u] = pc[u] /\ page'[u] = page[u] /\ answer'[u] = answer[u]
  BY DEF Replace, Finish, IInv, TypeOK
<1>14. pc'[t] \in {"open", "idle"}
  BY DEF Replace, Finish, IInv, TypeOK
<1>15. HandlesAreTheWriters'
  <2> SUFFICES ASSUME NEW u \in Task
               PROVE  IF pc'[u] = "write"
                      THEN /\ handle'[u] = [path |-> Target(u)', name |-> "tmp"]
                           /\ tmp'[ProcOf[u]][Target(u)'] = Empty
                      ELSE handle'[u] = Closed
    BY DEF HandlesAreTheWriters
  <2>1. CASE u = t
    BY <1>1, <1>2, <1>14, <2>1 DEF IInv, HandlesAreTheWriters
  <2>2. CASE u # t
    <3>1. pc'[u] = pc[u] /\ handle'[u] = handle[u] /\ Target(u)' = Target(u)
      BY <1>1, <1>2, <1>13, <2>2 DEF Target
    <3>2. pc[u] = "write" => tmp'[ProcOf[u]][Target(u)] = tmp[ProcOf[u]][Target(u)]
      BY <1>4, <1>5, <1>6, <2>2 DEF Running
    <3> QED BY <3>1, <3>2 DEF IInv, HandlesAreTheWriters
  <2> QED BY <2>1, <2>2
<1>16. ReadyToReplace'
  <2> SUFFICES ASSUME NEW u \in Task, pc'[u] = "replace"
               PROVE  tmp'[ProcOf[u]][Target(u)'] = setting[ProcOf[u]]
    BY <1>1 DEF ReadyToReplace
  <2>1. u # t /\ pc[u] = "replace" /\ Target(u)' = Target(u)
    BY <1>1, <1>13, <1>14 DEF Target
  <2>2. tmp'[ProcOf[u]][Target(u)] = tmp[ProcOf[u]][Target(u)]
    BY <1>4, <1>5, <1>6, <2>1 DEF Running
  <2> QED BY <2>1, <2>2 DEF IInv, ReadyToReplace
<1>17. \A u \in Task : \A n \in 0 .. PageCount[key[u][1]] :
          Whole(<<key[u], n>>) => Whole(<<key[u], n>>)'
  <2> SUFFICES ASSUME NEW u \in Task, NEW n \in 0 .. PageCount[key[u][1]]
               PROVE  Whole(<<key[u], n>>) => final'[<<key[u], n>>] \in Data
    BY <1>1 DEF Whole
  <2>1. <<key[u], n>> \in Path
    BY PathsAreItems DEF IInv, TypeOK
  <2> QED BY <1>8, <2>1 DEF Whole
<1>18. \A n \in 0 .. PageCount[key[t][1]] : n <= page[t] => Whole(<<key[t], n>>)'
  <2> SUFFICES ASSUME NEW n \in 0 .. PageCount[key[t][1]], n <= page[t]
               PROVE  Whole(<<key[t], n>>)'
    OBVIOUS
  <2>1. CASE n < page[t]
    BY <1>17, <2>1 DEF IInv, InOrder
  <2>2. CASE n = page[t]
    BY <1>1, <1>2, <1>3, <1>7, <2>2 DEF Whole
  <2> QED BY <1>3, <2>1, <2>2
<1>19. InOrder'
  <2> SUFFICES ASSUME NEW u \in Task
               PROVE  /\ page'[u] <= PageCount[key[u][1]]
                      /\ pc'[u] # "idle" => key[u][2] = PIPELINE_VERSION(setting[ProcOf[u]])
                      /\ pc'[u] \in {"idle", "queued", "check", "assemble"} => page'[u] = 0
                      /\ \A n \in 0 .. PageCount[key[u][1]] :
                           n < page'[u] => Whole(<<key[u], n>>)'
    BY <1>1 DEF InOrder, Whole
  <2>1. CASE u # t
    BY <1>13, <1>17, <2>1 DEF IInv, InOrder
  <2>2. CASE u = t
    <3>1. CASE /\ page[t] < PageCount[key[t][1]] /\ page' = [page EXCEPT ![t] = @ + 1]
               /\ pc' = [pc EXCEPT ![t] = "open"]
      <4>1. page'[t] = page[t] + 1 /\ pc'[t] = "open" /\ page[t] \in Nat
        BY <3>1 DEF IInv, TypeOK
      <4>2. page'[t] <= PageCount[key[t][1]]
        BY <1>3, <3>1, <4>1
      <4>3. \A n \in 0 .. PageCount[key[t][1]] : n < page'[t] => n <= page[t]
        BY <4>1
      <4> QED BY <1>3, <1>18, <2>2, <4>1, <4>2, <4>3 DEF data
    <3>2. CASE Finish(t, "processed")
      <4>1. page'[t] = 0 /\ pc'[t] = "idle"
        BY <3>2 DEF Finish, IInv, TypeOK
      <4> QED BY <1>3, <2>2, <4>1
    <3> QED BY <3>1, <3>2 DEF Replace
  <2> QED BY <2>1, <2>2
<1>20. ProcessedIsComplete'
  <2> SUFFICES ASSUME NEW u \in Task, answer'[u] = "processed", NEW path \in PathsOf(key[u])
               PROVE  Whole(path)'
    BY <1>1 DEF ProcessedIsComplete, PathsOf
  <2>1. PICK n \in 0 .. PageCount[key[u][1]] : path = <<key[u], n>>
    BY DEF PathsOf
  <2>2. CASE answer[u] = "processed"
    <3>1. Whole(path)
      BY <2>2 DEF IInv, ProcessedIsComplete
    <3> QED BY <1>1, <1>17, <2>1, <3>1 DEF Whole
  <2>3. CASE answer[u] # "processed"
    <3>1. u = t /\ page[t] = PageCount[key[t][1]]
      BY <1>13, <2>3 DEF Replace
    <3>2. n \in 0 .. PageCount[key[t][1]] /\ n <= page[t] /\ path = <<key[t], n>>
      BY <1>3, <2>1, <3>1
    <3> QED BY <1>1, <1>18, <3>2 DEF Whole
  <2> QED BY <2>2, <2>3
<1>21. Exclusive' /\ TypeOK'
  <2>1. CASE Finish(t, "processed")
    BY <1>1, <1>9, <2>1, FinishEffect DEF IInv, TypeOK, Answers, Running
  <2>2. CASE /\ page' = [page EXCEPT ![t] = @ + 1] /\ pc' = [pc EXCEPT ![t] = "open"]
             /\ UNCHANGED <<permits, queue, answer>>
    <3>1. Exclusive'
      BY <1>1, <2>2 DEF IInv, TypeOK, Exclusive, Running
    <3> QED BY QueueStays, <1>1, <1>9, <2>2, <3>1 DEF IInv, TypeOK, Running
  <2> QED BY <2>1, <2>2 DEF Replace
<1> QED BY <1>10, <1>11, <1>12, <1>15, <1>16, <1>19, <1>20, <1>21 DEF IInv

\* An exception: the file is closed and the permit goes back.
LEMMA FailStep ==
  ASSUME IInv, NEW t \in Task, Fail(t)
  PROVE  IInv'
<1>1. /\ pc[t] \in Running /\ Finish(t, "failed")
      /\ CloseAll({t}) /\ UNCHANGED <<final, tmp, setting, key>>
  BY DEF Fail, Running
<1>2. /\ pc' = [pc EXCEPT ![t] = "idle"] /\ page' = [page EXCEPT ![t] = 0]
      /\ answer' = [answer EXCEPT ![t] = "failed"]
      /\ handle' = [u \in Writer |-> IF u = t THEN Closed ELSE handle[u]]
  BY <1>1 DEF Finish, CloseAll
<1>3. handle' \in [Writer -> Handle]
  BY <1>2 DEF IInv, TypeOK, StoreTypeOK, Handle
<1>4. Exclusive' /\ TypeOK'
  BY <1>1, <1>3, FinishEffect DEF IInv, TypeOK, StoreTypeOK, Answers
<1>5. HandlesAreTheWriters'
  BY <1>1, <1>2 DEF IInv, TypeOK, HandlesAreTheWriters, Target, Task
<1>6. ReadyToReplace'
  BY <1>1, <1>2 DEF IInv, TypeOK, ReadyToReplace, Target
<1>7. InOrder'
  BY <1>1, <1>2, KeysArePairs DEF IInv, TypeOK, InOrder, Whole
<1>8. ProcessedIsComplete'
  BY <1>1, <1>2 DEF IInv, TypeOK, ProcessedIsComplete, Whole
<1> QED BY <1>1, <1>4, <1>5, <1>6, <1>7, <1>8, StoreUnchanged DEF IInv

\* A process dies and comes back: its tasks, permits and open files go, what it
\* has written stays.
LEMMA RestartStep ==
  ASSUME OneParseAtATime, IInv, NEW p \in Proc, Restart(p)
  PROVE  IInv'
<1>1. PICK s \in Setting : setting' = [setting EXCEPT ![p] = s]
  BY DEF Restart
<1>2. /\ permits' = [permits EXCEPT ![p] = 1]
      /\ queue' = [queue EXCEPT ![p] = <<>>]
      /\ pc' = [t \in Task |-> IF ProcOf[t] = p THEN "idle" ELSE pc[t]]
      /\ answer' = [t \in Task |-> IF ProcOf[t] = p THEN "none" ELSE answer[t]]
      /\ page' = [t \in Task |-> IF ProcOf[t] = p THEN 0 ELSE page[t]]
      /\ UNCHANGED <<final, tmp, key>>
  BY DEF Restart, OneParseAtATime
<1>3. handle' = [w \in Writer |-> IF ProcOf[w] = p THEN Closed ELSE handle[w]]
  BY DEF Restart, CloseAll, Task
<1>4. TypeOK'
  <2>1. handle' \in [Writer -> Handle]
    BY <1>3 DEF IInv, TypeOK, StoreTypeOK, Handle
  <2>2. QueueTypeOK'
    BY <1>2 DEF IInv, TypeOK, QueueTypeOK
  <2> QED BY <1>1, <1>2, <2>1, <2>2 DEF IInv, TypeOK, StoreTypeOK, Answers
<1>5. Exclusive'
  BY <1>2, StoreAssumption DEF IInv, TypeOK, Exclusive, Running, Task
<1>6. HandlesAreTheWriters'
  BY <1>2, <1>3 DEF IInv, TypeOK, HandlesAreTheWriters, Target, Task
<1>7. ReadyToReplace'
  BY <1>1, <1>2, StoreAssumption DEF IInv, TypeOK, ReadyToReplace, Target, Task
<1>8. InOrder'
  <2>1. \A t \in Task : PageCount[key[t][1]] \in Nat
    BY KeysArePairs DEF IInv, TypeOK
  <2>2. \A t \in Task : ProcOf[t] # p =>
          setting'[ProcOf[t]] = setting[ProcOf[t]] /\ pc'[t] = pc[t] /\ page'[t] = page[t]
    BY <1>1, <1>2, StoreAssumption DEF IInv, TypeOK, Task
  <2>3. \A t \in Task : ProcOf[t] = p => pc'[t] = "idle" /\ page'[t] = 0
    BY <1>2
  <2> QED BY <1>2, <2>1, <2>2, <2>3 DEF IInv, InOrder, Whole
<1>9. ProcessedIsComplete'
  BY <1>2 DEF IInv, TypeOK, ProcessedIsComplete, Whole
<1> QED BY <1>2, <1>4, <1>5, <1>6, <1>7, <1>8, <1>9, StoreUnchanged DEF IInv

\* Steps in which nothing happens.
LEMMA StutterStep == ASSUME IInv, UNCHANGED vars PROVE IInv'
BY QueueStays DEF vars, IInv, TypeOK, StoreTypeOK, Exclusive, HandlesAreTheWriters, ReadyToReplace,
       InOrder, PublishedIsWhole, ProcessedIsComplete, PagesFollowEdition,
       EditionHasItsVersion, Whole, Target

LEMMA NextIInv == ASSUME OneParseAtATime, IInv, [Next]_vars PROVE IInv'
<1>1. CASE Next
  BY <1>1, ArriveStep, AcquireStep, CheckStep, AssembleStep, OpenStep, WriteStep,
     ReplaceStep, FailStep, RestartStep DEF Next, Work
<1>2. CASE UNCHANGED vars
  BY <1>2, StutterStep
<1> QED BY <1>1, <1>2

---------------------------------------------------------------------------
\* The inductive invariant holds in every reachable state.
THEOREM InvariantHolds == ASSUME OneParseAtATime PROVE Spec => []IInv
<1>1. Init => IInv
  BY InitIInv
<1>2. IInv /\ [Next]_vars => IInv'
  BY NextIInv
<1> QED BY <1>1, <1>2, PTL DEF Spec

\* Every variable keeps its type.
THEOREM TypeCorrect == ASSUME OneParseAtATime PROVE Spec => []TypeOK
BY InvariantHolds, PTL DEF IInv

\* With one pipeline per process, no reader ever sees a partial file, whatever
\* the interleaving of the processes and wherever they are killed.
THEOREM FilesAreWhole == ASSUME OneParseAtATime PROVE Spec => []PublishedIsWhole
BY InvariantHolds, PTL DEF IInv

\* Who is told "processed" finds the edition and all the page images.
THEOREM ProcessedComplete == ASSUME OneParseAtATime PROVE Spec => []ProcessedIsComplete
BY InvariantHolds, PTL DEF IInv

\* The images that exist are those of the first pages of an existing edition.
THEOREM PagesInOrder == ASSUME OneParseAtATime PROVE Spec => []PagesFollowEdition
BY InvariantHolds, PTL DEF IInv

\* An edition carries the version of the environment that built it.
THEOREM VersionsMatch == ASSUME OneParseAtATime PROVE Spec => []EditionHasItsVersion
BY InvariantHolds, PTL DEF IInv

---------------------------------------------------------------------------
\* The only step that changes what is published is a rename.
LEMMA OnlyReplacePublishes ==
  ASSUME IInv, [Next]_vars, final' # final
  PROVE  \E t \in Task : Replace(t)
<1>1. ASSUME NEW t \in Task, Write(t) PROVE final' = final
  <2>1. handle[t].name = "tmp"
    <3>1. handle[t] = [path |-> Target(t), name |-> "tmp"]
      BY <1>1 DEF Write, IInv, HandlesAreTheWriters
    <3> QED BY <3>1
  <2> QED BY <1>1, <2>1 DEF Write, WriteTmp
<1>2. ASSUME NEW t \in Task, Open(t) \/ Fail(t) PROVE final' = final
  BY <1>2 DEF Open, OpenTmp, Fail
<1> QED BY <1>1, <1>2 DEF Next, Work, vars, Parse, ParseDocument, Acquire, Check,
           Assemble, Restart, storeVars

\* A rename of the invariant's states adds one complete file and keeps the rest.
LEMMA ReplacePublishes ==
  ASSUME IInv, NEW t \in Task, Replace(t)
  PROVE  /\ key[t] \in Key /\ page[t] \in 0 .. PageCount[key[t][1]]
         /\ \A n \in 0 .. PageCount[key[t][1]] : n < page[t] => Whole(<<key[t], n>>)
         /\ setting[ProcOf[t]] \in Data /\ <<key[t], page[t]>> \in Path
         /\ final' = [final EXCEPT ![<<key[t], page[t]>>] = setting[ProcOf[t]]]
<1>1. pc[t] = "replace" /\ ReplaceTmp(t, Target(t))
  BY DEF Replace
<1>2. page[t] \in 0 .. PageCount[key[t][1]]
  BY KeysArePairs DEF IInv, TypeOK, InOrder
<1> QED BY <1>1, <1>2, ReplaceEffect DEF IInv, TypeOK, InOrder, Target

\* A complete file stays complete.
THEOREM NeverRegresses == ASSUME OneParseAtATime PROVE Spec => NeverUnpublished
<1>1. ASSUME IInv, [Next]_vars
      PROVE  [\A path \in Path : Whole(path) => Whole(path)']_vars
  <2>1. CASE final' = final
    BY <2>1 DEF Whole
  <2>2. CASE final' # final
    <3>1. PICK t \in Task : Replace(t)
      BY <1>1, <2>2, OnlyReplacePublishes
    <3> QED BY <1>1, <3>1, ReplacePublishes DEF Whole, IInv, TypeOK, StoreTypeOK
  <2> QED BY <2>1, <2>2
<1> QED BY <1>1, InvariantHolds, PTL DEF Spec, NeverUnpublished

\* The initial store is the empty shelf.
LEMMA InitImplements == ASSUME Init PROVE Shelf!Init
<1> SUFFICES \A k \in Key : \A n \in {0} \cup pages[k] : final[<<k, n>>] = Absent
  BY DEF Shelf!Init, published
<1> QED BY PathsAreItems, KeysArePairs DEF Init, StoreInit, pages

\* Every step of the service is a step of the shelf or leaves it alone.
LEMMA NextImplements ==
  ASSUME IInv, [Next]_vars
  PROVE  [Shelf!Next]_published
<1>1. CASE final' = final
  BY <1>1 DEF published
<1>2. CASE final' # final
  <2>1. PICK t \in Task : Replace(t)
    BY <1>2, OnlyReplacePublishes
  <2> DEFINE k == key[t]
             n == page[t]
             d == setting[ProcOf[t]]
  <2>2. /\ k \in Key /\ n \in 0 .. PageCount[k[1]] /\ PageCount[k[1]] \in Nat /\ d \in Data
        /\ \A m \in 0 .. PageCount[k[1]] : m < n => Whole(<<k, m>>)
        /\ <<k, n>> \in Path
        /\ final' = [final EXCEPT ![<<k, n>>] = d]
    BY <2>1, ReplacePublishes, KeysArePairs
  <2> HIDE DEF k, n, d
  <2>3. \A j \in Key : \A m \in {0} \cup pages[j] :
          final'[<<j, m>>] = IF j = k /\ m = n THEN d ELSE final[<<j, m>>]
    <3> SUFFICES ASSUME NEW j \in Key, NEW m \in {0} \cup pages[j]
                 PROVE  final'[<<j, m>>] = IF j = k /\ m = n THEN d ELSE final[<<j, m>>]
      OBVIOUS
    <3>1. <<j, m>> \in Path
      BY PathsAreItems, KeysArePairs DEF pages
    <3> QED BY <2>2, <3>1 DEF IInv, TypeOK, StoreTypeOK
  <2>4. n \in {0} \cup pages[k]
    BY <2>2 DEF pages
  <2>5. published' = [published EXCEPT ![k][n] = d]
    <3> DEFINE was(j) == [m \in {0} \cup pages[j] |-> final[<<j, m>>]]
               is(j) == [m \in {0} \cup pages[j] |-> final'[<<j, m>>]]
    <3>1. published = [j \in Key |-> was(j)] /\ published' = [j \in Key |-> is(j)]
      BY DEF published, pages
    <3>2. \A j \in Key : j # k => is(j) = was(j)
      BY <2>3
    <3>3. is(k) = [was(k) EXCEPT ![n] = d]
      BY <2>2, <2>3, <2>4
    <3> HIDE DEF was, is
    <3> QED BY <2>2, <3>1, <3>2, <3>3
  <2>6. CASE n = 0
    BY <2>2, <2>5, <2>6 DEF Shelf!Next, Shelf!PutEdition
  <2>7. CASE n # 0
    <3>1. n \in pages[k] /\ Whole(<<k, 0>>)
      BY <2>2, <2>7 DEF pages
    <3>2. published[k][0] # Absent
      BY <2>2, <3>1, StoreAssumption DEF published, Whole
    <3> QED BY <2>2, <2>5, <3>1, <3>2 DEF Shelf!Next, Shelf!PutPageImage
  <2> QED BY <2>6, <2>7
<1> QED BY <1>1, <1>2

\* The service implements the shelf: editions and images appear whole, one step
\* each, an image never before its edition, and nothing disappears.
THEOREM ServiceImplementsShelf == ASSUME OneParseAtATime PROVE Spec => ImplementsShelf
<1>1. Init => Shelf!Init
  BY InitImplements
<1>2. IInv /\ [Next]_vars => [Shelf!Next]_published
  BY NextImplements
<1> QED BY <1>1, <1>2, InvariantHolds, PTL DEF Spec, ImplementsShelf, Shelf!Spec
==============================================================================
