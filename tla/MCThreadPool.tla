---------------------------- MODULE MCThreadPool ----------------------------
(* Small instances of ThreadPool for TLC.                                  *)
EXTENDS ThreadPool, TLC

CONSTANTS c1, c2

\* Two clients that start targets; the pool's owner also calls everything else.
OwnerOps == [c \in {c1, c2} |-> IF c = c1 THEN Ops ELSE {"start"}]

\* The owner starts targets and stops the pool.
StopOps == [c \in {c1, c2} |-> {"start", "stopAll"}]

PlusMinusOne == {1, -1}
NoDeltas == {}

Symmetric == Permutations(Threads) \cup Permutations(Targets)
=============================================================================
