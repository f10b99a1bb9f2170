--------------------------- MODULE MCSearchOutbox ---------------------------
(* SearchOutbox on small instances; replicas are interchangeable, and so are *)
(* events when all of them are historical.                                   *)
EXTENDS SearchOutbox, TLC

Replicas == Permutations(Workers)
ReplicasAndEvents == Permutations(Workers) \cup Permutations(Events)
=============================================================================
