------------------------ MODULE MCNotificationQueue -------------------------
(* Small instances of NotificationQueue for TLC.                           *)
EXTENDS NotificationQueue

CONSTANTS c1, c2, c3

\* One consumer of each kind, the third one of every kind.
MixedOps ==
    [c \in {c1, c2, c3} |->
        IF c = c1 THEN {"wait"} ELSE IF c = c2 THEN {"timedWait"}
        ELSE {"dequeue", "wait", "timedWait"}]
=============================================================================
