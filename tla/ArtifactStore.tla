---------------------------- MODULE ArtifactStore ----------------------------
(***************************************************************************)
(* The content-addressed artifact store (app/store/artifact_store.py): a   *)
(* directory per key holding edition.json and pages/<n>.png.  A path is a  *)
(* pair <<key, n>>: n = 0 is the edition, n > 0 the image of page n.       *)
(*                                                                         *)
(* Every write opens a temporary file named after the writing process's    *)
(* pid, fills it and renames it over the final name.  The name is all two  *)
(* writers share, so the model follows the open files: handle[w] says      *)
(* which name the file that writer w has open goes by now, a rename by     *)
(* one writer moves the file another one may still be writing to.          *)
(***************************************************************************)
EXTENDS Integers

CONSTANTS
  Doc,        \* the PDFs (their sha256 digests)
  Version,    \* the values PIPELINE_VERSION takes
  PageCount,  \* [Doc -> Nat], pages of a PDF
  Proc,       \* operating system processes that write to the store
  Writer,     \* the threads that call put_edition and put_page_image
  ProcOf,     \* [Writer -> Proc]
  Data,       \* what a complete file may hold
  Absent, Empty, Torn   \* no such file; just truncated; a mix of two writes

ASSUME StoreAssumption ==
  /\ PageCount \in [Doc -> Nat]
  /\ ProcOf \in [Writer -> Proc]
  /\ Absent \notin Data /\ Empty \notin Data /\ Torn \notin Data
  /\ Absent # Empty /\ Absent # Torn /\ Empty # Torn

VARIABLES
  final,   \* final[path]: the file under its final name
  tmp,     \* tmp[p][path]: the file <path>.tmp.<pid of p>
  handle   \* handle[w]: the file w has open for writing

storeVars == <<final, tmp, handle>>

Key == Doc \X Version
Path == UNION {{k} \X (0 .. PageCount[k[1]]) : k \in Key}
EditionPath(k) == <<k, 0>>
PathsOf(k) == {k} \X (0 .. PageCount[k[1]])

File == Data \cup {Absent, Empty, Torn}
Closed == [path |-> <<>>, name |-> "closed"]
Handle == {Closed} \cup [path : Path, name : {"tmp", "final", "unlinked"}]

StoreTypeOK ==
  /\ final \in [Path -> File]
  /\ tmp \in [Proc -> [Path -> File]]
  /\ handle \in [Writer -> Handle]

StoreInit ==
  /\ final = [path \in Path |-> Absent]
  /\ tmp = [p \in Proc |-> [path \in Path |-> Absent]]
  /\ handle = [w \in Writer |-> Closed]

exists(k) == final[EditionPath(k)] # Absent
Whole(path) == final[path] \in Data

---------------------------------------------------------------------------
\* Mutation: one temporary name for every process.
getpidOmitted(w) == CHOOSE p \in Proc : TRUE

\* The suffix of the temporary name is the pid.
getpid(w) == ProcOf[w]

\* tmp_path.write_bytes(data): open truncates (or creates) the file...
OpenTmp(w, path) ==
  /\ handle[w] = Closed
  /\ tmp' = [tmp EXCEPT ![getpid(w)][path] = Empty]
  /\ handle' = [handle EXCEPT ![w] = [path |-> path, name |-> "tmp"]]
  /\ UNCHANGED final

\* A write from offset 0 into a file another writer has filled meanwhile may
\* leave the tail of the longer one.
Overwrite(old, data) == IF old \in {Empty, data} THEN {data} ELSE {data, Torn}

\* ...then writes the bytes to whatever name the file has by now, and closes.
WriteTmp(w, data) ==
  LET p == getpid(w)
      path == handle[w].path
  IN  /\ handle[w] # Closed
      /\ handle' = [handle EXCEPT ![w] = Closed]
      /\ \/ /\ handle[w].name = "tmp"
            /\ \E file \in Overwrite(tmp[p][path], data) :
                 tmp' = [tmp EXCEPT ![p][path] = file]
            /\ UNCHANGED final
         \/ /\ handle[w].name = "final"
            /\ \E file \in Overwrite(final[path], data) :
                 final' = [final EXCEPT ![path] = file]
            /\ UNCHANGED tmp
         \/ /\ handle[w].name = "unlinked"
            /\ UNCHANGED <<final, tmp>>

\* The name of the file v has open after w renames its temporary file for path
\* over the final name.
Renamed(w, path, v) ==
  IF handle[v] = [path |-> path, name |-> "final"]
  THEN [path |-> path, name |-> "unlinked"]
  ELSE IF handle[v] = [path |-> path, name |-> "tmp"] /\ getpid(v) = getpid(w)
  THEN [path |-> path, name |-> "final"]
  ELSE handle[v]

\* Mutation: the file is copied over the final name through an open file.
ReplaceByCopy(w, path) ==
  /\ tmp[getpid(w)][path] # Absent
  /\ final' = [final EXCEPT ![path] = IF @ = Absent THEN Empty ELSE tmp[getpid(w)][path]]
  /\ UNCHANGED <<tmp, handle>>

\* os.replace(tmp_path, path)
ReplaceTmp(w, path) ==
  /\ tmp[getpid(w)][path] # Absent
  /\ final' = [final EXCEPT ![path] = tmp[getpid(w)][path]]
  /\ tmp' = [tmp EXCEPT ![getpid(w)][path] = Absent]
  /\ handle' = [v \in Writer |-> Renamed(w, path, v)]

\* os.replace raises FileNotFoundError: another writer has taken the file.
ReplaceImpossible(w, path) == tmp[getpid(w)][path] = Absent

\* Closing a file (an exception inside write_bytes, or the death of the process)
\* leaves what was written under the temporary name.
CloseAll(ws) == handle' = [w \in Writer |-> IF w \in ws THEN Closed ELSE handle[w]]
==============================================================================
