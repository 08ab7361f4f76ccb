---------------------------- MODULE MCTCPServer -----------------------------
(* Small instances of TCPServer for TLC.                                   *)
EXTENDS TCPServer

\* Connection threads only ever wait with the idle time-out.
TimedWaits == [w \in Consumers |-> {"timedWait"}]
=============================================================================
