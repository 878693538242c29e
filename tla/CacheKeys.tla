----------------------------- MODULE CacheKeys ------------------------------
(***************************************************************************)
(* What the rekey-cache tool promises, without how it gets there: a Drive  *)
(* file id that has no cached statsbook may be given the bytes of one of   *)
(* the legacy files that the mapping names for it, once and for all.  A    *)
(* legacy file goes away only by becoming the file of an id.               *)
(***************************************************************************)
CONSTANTS
  Ids,        \* Drive file ids
  Names,      \* canonical ids of the legacy cache
  Given,      \* per id: the canonical ids that the mapping names for it
  Absent      \* stands for no file

VARIABLES
  legacy,     \* the legacy files that exist
  keyed       \* per id: the origin of its file, or Absent

vars == <<legacy, keyed>>

Init ==
  /\ legacy \in SUBSET Names
  /\ \A id \in Ids : keyed[id] \notin Names

\* id gets the bytes of the legacy file n, which stays or not.
Give(id, n) ==
  /\ keyed[id] = Absent
  /\ n \in Given[id] \cap legacy
  /\ keyed' = [keyed EXCEPT ![id] = n]
  /\ legacy' \in {legacy, legacy \ {n}}

Next == \E id \in Ids : \E n \in Names : Give(id, n)

Spec == Init /\ [][Next]_vars
=============================================================================
