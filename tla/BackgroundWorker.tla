-------------------------- MODULE BackgroundWorker --------------------------
(***************************************************************************)
(* The loop of app/worker.py: recover stale image jobs when the cadence is *)
(* due, then process one image job, then, only if there was none, one      *)
(* index job, then sleep.  It composes ImageJobs and IndexJobs: a worker   *)
(* is in one of them at a time, and an exception in either ends the        *)
(* process.  The synchronous indexing requests of IndexJobs are left out:  *)
(* they run in the API process.                                            *)
(*                                                                         *)
(* ImageIds are the image jobs that are watched; the others that may be    *)
(* queued behind them, at any time and without end, are one Boolean.       *)
(***************************************************************************)
EXTENDS Naturals

CONSTANTS
    ImageIds, IndexIds, Workers, Readers, Runs, Clients,
    MaxVariants, StaleAfter, MaxFaults, LastBatch, MaxVersion, MaxCrashes, None

VARIABLES
    imageJob, imageWorker, stale, told, late, faults,        \* of ImageJobs
    indexJob, content, embedding, runStatus, asking, indexer, taker, crashes,
    turn,   \* turn[w]: the part of the loop worker w is in
    due,    \* due[w]: now >= next_stale_recovery_at
    others  \* whether image jobs beyond ImageIds are queued

Image == INSTANCE ImageJobs WITH Jobs <- ImageIds, job <- imageJob, worker <- imageWorker
Index == INSTANCE IndexJobs WITH Jobs <- IndexIds, job <- indexJob, Tools <- {}

imageVars == <<imageJob, imageWorker, stale, told, late, faults>>
indexVars == <<indexJob, content, embedding, runStatus, asking, indexer, taker, crashes>>
vars == <<imageVars, indexVars, turn, due, others>>

Turns == {"top", "recover", "image", "index", "sleep"}

Init ==
    /\ Image!Init /\ Index!Init
    /\ turn = [w \in Workers |-> "top"]
    /\ due = [w \in Workers |-> TRUE]
    /\ others \in BOOLEAN

Pass(w, next) == turn' = [turn EXCEPT ![w] = next]
Free(w) == imageWorker[w].pc = "idle" /\ indexer[w].pc = "idle"

-----------------------------------------------------------------------------
\* The top of the loop: the recovery is due, or it is skipped.
StartRecovery(w) ==
    /\ turn[w] = "top" /\ Free(w) /\ due[w]
    /\ Image!LoadStale(w) \/ (Image!Stale = {} /\ UNCHANGED imageVars)
    /\ due' = [due EXCEPT ![w] = FALSE]
    /\ Pass(w, "recover")
    /\ UNCHANGED <<indexVars, others>>

SkipRecovery(w) ==
    /\ turn[w] = "top" /\ Free(w) /\ ~due[w]
    /\ Pass(w, "image")
    /\ UNCHANGED <<imageVars, indexVars, due, others>>

EndRecovery(w) ==
    /\ turn[w] = "recover"
    /\ \/ Image!CommitStale(w) \/ Image!ConflictStale(w)
       \/ Free(w) /\ UNCHANGED imageVars
    /\ Pass(w, "image")
    /\ UNCHANGED <<indexVars, due, others>>

(* Definitions named Broken... are wrong on purpose: each is the form a
   plausible bug would give the definition after it, and shows that a property
   below can fail.  No specification uses one. *)

BrokenNoImageJobSleeps(w) ==
    /\ turn[w] = "image"
    /\ \/ Free(w) /\ Image!Queued = {} /\ ~others /\ UNCHANGED imageVars
       \/ Image!LoseClaim(w)
    /\ Pass(w, "sleep")
    /\ UNCHANGED <<indexVars, due, others>>

\* process_next_image_generation_job returned None: no job, or a lost claim.
NoImageJob(w) ==
    /\ turn[w] = "image"
    /\ \/ Free(w) /\ Image!Queued = {} /\ ~others /\ UNCHANGED imageVars
       \/ Image!LoseClaim(w)
    /\ Pass(w, "index")
    /\ UNCHANGED <<indexVars, due, others>>

\* An image job is processed to its end; the loop then starts over (continue).
ImageStep(w) ==
    /\ turn[w] = "image"
    /\ Image!SelectJob(w) \/ Image!ClaimJob(w) \/ Image!Process(w)
    /\ Pass(w, IF imageWorker'[w].pc = "idle" THEN "top" ELSE "image")
    /\ UNCHANGED <<indexVars, due, others>>

\* The same for a job that is not watched: by the time it has ended more may be queued.
OtherImageJob(w) ==
    /\ turn[w] = "image" /\ Free(w)
    /\ Image!Queued = {} /\ others
    /\ others' \in BOOLEAN
    /\ Pass(w, "top")
    /\ UNCHANGED <<imageVars, indexVars, due>>

NoIndexJob(w) ==
    /\ turn[w] = "index"
    /\ \/ Free(w) /\ Index!Queued = {} /\ UNCHANGED indexVars
       \/ Index!LoseClaim(w)
    /\ Pass(w, "sleep")
    /\ UNCHANGED <<imageVars, due, others>>

IndexStep(w) ==
    /\ turn[w] = "index"
    /\ Index!SelectJob(w) \/ Index!ClaimJob(w) \/ Index!Index(w)
    /\ Pass(w, IF indexer'[w].pc = "idle" THEN "top" ELSE "index")
    /\ UNCHANGED <<imageVars, due, others>>

BrokenWake(w) ==
    /\ turn[w] = "sleep"
    /\ Pass(w, "image")
    /\ UNCHANGED <<imageVars, indexVars, due, others>>

\* The idle sleep ends.
Wake(w) ==
    /\ turn[w] = "sleep"
    /\ Pass(w, "top")
    /\ UNCHANGED <<imageVars, indexVars, due, others>>

Loop(w) ==
    \/ StartRecovery(w) \/ SkipRecovery(w) \/ EndRecovery(w)
    \/ NoImageJob(w) \/ ImageStep(w) \/ OtherImageJob(w)
    \/ NoIndexJob(w) \/ IndexStep(w) \/ Wake(w)

\* An exception inside a job's handler, or the end of the process.
Fault(w) ==
    /\ \/ Image!FailBatch(w) /\ Pass(w, "top") /\ UNCHANGED indexVars
       \/ Image!Crash(w) /\ UNCHANGED turn /\ UNCHANGED indexVars
       \/ Index!FailIndexing(w) /\ Pass(w, "top") /\ UNCHANGED imageVars
       \/ Index!Crash(w) /\ UNCHANGED turn /\ UNCHANGED imageVars
    /\ UNCHANGED <<due, others>>

\* A new process: next_stale_recovery_at starts at 0.
Restart(w) ==
    /\ \/ Image!Restart(w) /\ UNCHANGED indexVars
       \/ Index!Restart(w) /\ UNCHANGED imageVars
    /\ Pass(w, "top")
    /\ due' = [due EXCEPT ![w] = TRUE]
    /\ UNCHANGED others

\* The rest of the system: requests, admin reads, time.
Request ==
    /\ \/ \E kind \in Image!Kinds : Image!Enqueue(kind) /\ UNCHANGED indexVars
       \/ \E p \in Readers : Image!Recover(p) /\ UNCHANGED indexVars
       \/ /\ \/ \E c \in Clients : Index!Enqueue(c) \/ \E r \in Runs : Index!Lookup(c, r)
             \/ \E r \in Runs : Index!Publish(r)
          /\ UNCHANGED imageVars
    /\ UNCHANGED <<turn, due, others>>

\* An image job that is not watched is enqueued.
OtherRequest ==
    /\ others' = TRUE
    /\ UNCHANGED <<imageVars, indexVars, turn, due>>

Tick ==
    /\ Image!Tick
    /\ due' = [w \in Workers |-> TRUE]
    /\ UNCHANGED <<indexVars, turn, others>>

Next == (\E w \in Workers : Loop(w) \/ Fault(w) \/ Restart(w)) \/ Request \/ OtherRequest \/ Tick

Spec == Init /\ [][Next]_vars

\* The process runs, its container restarts it, and time passes.
FairSpec ==
    /\ Spec
    /\ WF_vars(Tick)
    /\ \A w \in Workers : WF_vars(Loop(w)) /\ WF_vars(Restart(w))

-----------------------------------------------------------------------------
(***************************************************************************)
(* Properties                                                              *)
(***************************************************************************)

\* The loop drives both queues only by the steps of their modules, and its one
\* fairness, that the loop goes on, gives the image queue all the fairness its
\* own liveness rests on: recovery is run again and again between jobs, also between
\* those of a stream that never ends.
ImplementsImageJobs == Image!FairSpec

\* Image jobs always go first: while they keep coming no index job is claimed, and none
\* is promised to be.  Once their stream ends every queued index job is claimed, through
\* the recoveries between jobs and the crashes caused by a job of either kind.
IndexIsClaimed == <>[]~others => Index!QueuedIsClaimed

\* Without any admin request, and however many other jobs are queued, a job left running
\* by a killed worker is ended by the recovery of the next process.
OrphanIsRecovered == Image!RunningEnds
=============================================================================
