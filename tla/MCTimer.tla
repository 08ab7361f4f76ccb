------------------------------ MODULE MCTimer -------------------------------
(* Small instances of Timer for TLC.                                       *)
EXTENDS Timer

CONSTANTS a1, a2

\* The owner a1 calls everything; another thread only calls restart().
OwnerOps == [a \in {a1, a2} |-> IF a = a1 THEN Operations ELSE {"restart"}]
=============================================================================
