--------------------------- MODULE MCTaskManager ----------------------------
(* A small instance of TaskManager for TLC.                                *)
EXTENDS TaskManager

CONSTANTS c1, c2

\* One client waits for all tasks while another starts some.
SharedOps == [c \in {c1, c2} |-> IF c = c1 THEN {"start", "joinAll"} ELSE {"start"}]

NoDeltas == {}
=============================================================================
