------------------------------- MODULE JobPool -------------------------------
(***************************************************************************)
(* What the index phase of a collection promises about its jobs            *)
(* (reccmp/source/batch.py:_Workers): each is given to one worker, once,   *)
(* and settled once, by that worker.  A worker whose job is lost takes no  *)
(* other.                                                                  *)
(***************************************************************************)
CONSTANTS Jobs, Threads, None

VARIABLES
    status,     \* of each job
    given       \* the job each worker has, or None

vars == <<status, given>>

Init ==
    /\ status = [j \in Jobs |-> "queued"]
    /\ given = [t \in Threads |-> None]

Give(t, j) ==
    /\ status[j] = "queued"
    /\ given[t] = None
    /\ status' = [status EXCEPT ![j] = "given"]
    /\ given' = [given EXCEPT ![t] = j]

Settle(t, outcome) ==
    /\ given[t] # None
    /\ status[given[t]] = "given"
    /\ status' = [status EXCEPT ![given[t]] = outcome]
    /\ given' = [given EXCEPT ![t] = IF outcome = "lost" THEN @ ELSE None]

Next ==
    \E t \in Threads :
        \/ \E j \in Jobs : Give(t, j)
        \/ \E outcome \in {"indexed", "failed", "lost"} : Settle(t, outcome)

Spec == Init /\ [][Next]_vars
===============================================================================
