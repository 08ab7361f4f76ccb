-------------------------- MODULE MCActiveObject ----------------------------
(* A small instance of ActiveObject for TLC.                               *)
EXTENDS ActiveObject

\* The dispatcher's thread only calls waitDequeueNotification().
WaitOnly == [c \in Consumers |-> {"wait"}]
=============================================================================
