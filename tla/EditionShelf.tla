---------------------------- MODULE EditionShelf ----------------------------
(***************************************************************************)
(* What the artifact store promises to whoever reads it: a place where     *)
(* complete files appear, each in one step, and never disappear.  "Done"   *)
(* is answered by existence, so an edition must be there in full as soon   *)
(* as it is there at all, and no page image comes before its edition.      *)
(***************************************************************************)
EXTENDS Integers

CONSTANTS Key, Pages, Data, Absent    \* Pages[k]: the page numbers of key k

VARIABLE shelf      \* shelf[k][n]: item n of key k (0 is the edition)

Init == shelf = [k \in Key |-> [n \in {0} \cup Pages[k] |-> Absent]]

PutEdition(k) ==
  \E d \in Data : shelf' = [shelf EXCEPT ![k][0] = d]

PutPageImage(k, n) ==
  /\ shelf[k][0] # Absent
  /\ \E d \in Data : shelf' = [shelf EXCEPT ![k][n] = d]

Next == \E k \in Key : PutEdition(k) \/ \E n \in Pages[k] : PutPageImage(k, n)

Spec == Init /\ [][Next]_shelf
==============================================================================
