----------------------------- MODULE ServerLock -----------------------------
(***************************************************************************)
(* What the operation queue promises: the jobs recorded as IN_PROGRESS are *)
(* the holders of one lock per server, a job gets its turn at most once,   *)
(* and its outcome is final.                                               *)
(***************************************************************************)

CONSTANTS Job, Server

VARIABLES
    waiting,    \* jobs that have had no turn and no outcome yet
    holder,     \* the jobs that hold the lock of their server
    over,       \* jobs that have an outcome
    server      \* the server of a job

vars == <<waiting, holder, over, server>>

Init == waiting = {} /\ holder = {} /\ over = {} /\ server \in [Job -> Server]

Unknown(j) == j \notin waiting \cup holder \cup over
Free(s) == \A j \in holder : server[j] # s

Arrive(j) ==
    /\ Unknown(j)
    /\ waiting' = waiting \cup {j}
    /\ UNCHANGED <<holder, over, server>>

Acquire(j) ==
    /\ j \in waiting
    /\ Free(server[j])
    /\ waiting' = waiting \ {j}
    /\ holder' = holder \cup {j}
    /\ UNCHANGED <<over, server>>

Refuse(j) ==
    /\ j \in waiting
    /\ waiting' = waiting \ {j}
    /\ over' = over \cup {j}
    /\ UNCHANGED <<holder, server>>

\* One holder at the end of its work, or several after a restart.
Release(js) ==
    /\ js # {}
    /\ js \subseteq holder
    /\ holder' = holder \ js
    /\ over' = over \cup js
    /\ UNCHANGED <<waiting, server>>

Next ==
    \/ \E j \in Job : Arrive(j) \/ Acquire(j) \/ Refuse(j)
    \/ \E js \in SUBSET holder : Release(js)

Spec == Init /\ [][Next]_vars
=============================================================================
