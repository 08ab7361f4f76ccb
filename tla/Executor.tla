------------------------------ MODULE Executor ------------------------------
(***************************************************************************)
(* What a ThreadPool promises its clients (Foundation/include/Poco/        *)
(* ThreadPool.h), without threads, events and mutexes: a target handed to  *)
(* start() is refused, or accepted and then run exactly once; joinAll()    *)
(* returns only when everything accepted before it has been run; stopAll() *)
(* ends it all, and may forget what has not begun.                         *)
(***************************************************************************)
CONSTANTS Clients, Targets

VARIABLES
    fate,         \* what became of the last start() of each target
    inJoinAll,    \* the client is inside joinAll()
    outstanding,  \* targets the client's joinAll() still has to wait for
    stopping      \* stopAll() has been called

joinVars == <<inJoinAll, outstanding>>
execVars == <<fate, joinVars, stopping>>

Init ==
    /\ fate = [t \in Targets |-> "rest"]
    /\ inJoinAll = [c \in Clients |-> FALSE]
    /\ outstanding = [c \in Clients |-> {}]
    /\ stopping = FALSE

Becomes(t, from, to) ==
    fate[t] = from /\ fate' = [fate EXCEPT ![t] = to] /\ UNCHANGED stopping

Call(t)   == ~stopping /\ Becomes(t, "rest", "called") /\ UNCHANGED joinVars
Refuse(t) == Becomes(t, "called", "rest") /\ UNCHANGED joinVars
Accept(t) == Becomes(t, "called", "pending") /\ UNCHANGED joinVars
Begin(t)  == Becomes(t, "pending", "running") /\ UNCHANGED joinVars
Drop(t)   == stopping /\ Becomes(t, "pending", "dropped") /\ UNCHANGED joinVars

Finish(t) ==
    /\ Becomes(t, "running", "rest")
    /\ outstanding' = [c \in Clients |-> outstanding[c] \ {t}]
    /\ UNCHANGED inJoinAll

BeginJoinAll(c) ==
    /\ ~inJoinAll[c]
    /\ inJoinAll' = [inJoinAll EXCEPT ![c] = TRUE]
    /\ outstanding' = [outstanding EXCEPT ![c] =
                         {t \in Targets : fate[t] \in {"pending", "running"}}]
    /\ UNCHANGED <<fate, stopping>>

EndJoinAll(c) ==
    /\ inJoinAll[c] /\ outstanding[c] = {}
    /\ inJoinAll' = [inJoinAll EXCEPT ![c] = FALSE]
    /\ UNCHANGED <<fate, outstanding, stopping>>

Stop == ~stopping /\ stopping' = TRUE /\ UNCHANGED <<fate, joinVars>>

Next ==
    \/ \E t \in Targets :
         Call(t) \/ Refuse(t) \/ Accept(t) \/ Begin(t) \/ Drop(t) \/ Finish(t)
    \/ \E c \in Clients : BeginJoinAll(c) \/ EndJoinAll(c)
    \/ Stop

Spec == Init /\ [][Next]_execVars
=============================================================================
