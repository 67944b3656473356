---------------------------- MODULE JobLifecycle ----------------------------
(***************************************************************************)
(* What a durable job queue promises: a job is queued once, started once,  *)
(* by one process, and its outcome, once recorded, never changes.          *)
(***************************************************************************)
CONSTANTS Jobs, Processes, None

VARIABLES
    status, \* status[j]: None before j is enqueued
    taker   \* taker[j]: the process that started j, or None

lifecycleVars == <<status, taker>>

Init ==
    /\ status = [j \in Jobs |-> None]
    /\ taker = [j \in Jobs |-> None]

Enqueue(j) ==
    /\ status[j] = None
    /\ status' = [status EXCEPT ![j] = "queued"]
    /\ UNCHANGED taker

Start(j, p) ==
    /\ status[j] = "queued"
    /\ taker[j] = None
    /\ status' = [status EXCEPT ![j] = "running"]
    /\ taker' = [taker EXCEPT ![j] = p]

Finish(j) ==
    /\ status[j] = "running"
    /\ \E outcome \in {"succeeded", "failed"} :
          status' = [status EXCEPT ![j] = outcome]
    /\ UNCHANGED taker

Next == \E j \in Jobs : Enqueue(j) \/ Finish(j) \/ \E p \in Processes : Start(j, p)

Spec == Init /\ [][Next]_lifecycleVars
=============================================================================
