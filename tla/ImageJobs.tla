------------------------------ MODULE ImageJobs ------------------------------
(***************************************************************************)
(* The image_generation_jobs table of app/services/image_jobs.py: claim by *)
(* a conditional UPDATE, a batch that reports progress and a heartbeat     *)
(* after every variant, catalog studio jobs without a heartbeat, and the   *)
(* recovery of stale running jobs, which the background workers run on a   *)
(* cadence and the admin API runs when it reads jobs.                      *)
(*                                                                         *)
(* Every UPDATE but the claim names the row by its primary key only, so a  *)
(* status read in one step may have changed when a later step writes.      *)
(* Time is the age of a running job's last heartbeat, counted in ticks and *)
(* kept at StaleAfter + 1 once it is stale.                                *)
(***************************************************************************)
EXTENDS Naturals

CONSTANTS
    Jobs,        \* job ids in order of created_at
    Workers,     \* background worker processes
    Readers,     \* admin API requests that read image jobs
    MaxVariants, \* most variants a batch selects
    StaleAfter,  \* PRODUCT_IMAGE_JOB_STALE_SECONDS, in ticks
    MaxFaults,   \* bound on exceptions and crashes
    None

Kinds == {"batch", "catalog"}
Terminal == {"succeeded", "failed"}
Rows == [kind : Kinds, status : {"queued", "running"} \cup Terminal, attempted : Nat, age : Nat]

\* What a run's constants must satisfy.
ImageJobAssumption ==
    /\ Jobs \subseteq Nat /\ None \notin Nat \cup Rows /\ Workers \cap Readers = {}
    /\ MaxVariants \in Nat /\ StaleAfter \in Nat /\ MaxFaults \in Nat

VARIABLES
    job,    \* job[j]: the row, or None before it is enqueued
    worker, \* worker[w]: where worker w is
    stale,  \* stale[p]: the jobs p has loaded as stale and not yet committed
    told,   \* the catalog jobs whose image-<id>-worker-stale event is stored
    late,   \* late[j]: variants of j begun after j had stopped running
    faults

vars == <<job, worker, stale, told, late, faults>>

Processes == Workers \cup Readers
Enqueued == {j \in Jobs : job[j] # None}
Queued == {j \in Enqueued : job[j].status = "queued"}
Running == {j \in Enqueued : job[j].status = "running"}

JobRow(kind, status, attempted, age) ==
    [kind |-> kind, status |-> status, attempted |-> attempted, age |-> age]

\* Where a worker is: the next step, its job, the variants it has selected and
\* the ones it is done with, and whether one of them did not fail.
At(pc, j, size, done, good) ==
    [pc |-> pc, job |-> j, size |-> size, done |-> done, good |-> good]
Idle == At("idle", None, 0, 0, FALSE)
Goto(w, pc) == worker' = [worker EXCEPT ![w].pc = pc]
Release(w) == worker' = [worker EXCEPT ![w] = Idle]
Processing(w) == worker[w].pc \notin {"idle", "claim", "recover", "dead"}

Init ==
    /\ job = [j \in Jobs |-> None]
    /\ worker = [w \in Workers |-> Idle]
    /\ stale = [p \in Processes |-> {}]
    /\ told = {}
    /\ late = [j \in Jobs |-> 0]
    /\ faults = 0

-----------------------------------------------------------------------------
\* enqueue_image_generation_job, and the catalog studio's own enqueue.
Enqueue(kind) ==
    /\ \E j \in Jobs :
          /\ job[j] = None
          /\ \A k \in Enqueued : k < j
          /\ \A k \in Jobs : job[k] = None => j <= k
          /\ job' = [job EXCEPT ![j] = JobRow(kind, "queued", 0, 0)]
    /\ UNCHANGED <<worker, stale, told, late, faults>>

\* claim_next_image_generation_job selects the oldest queued job ...
SelectJob(w) ==
    /\ worker[w].pc = "idle"
    /\ \E j \in Queued :
          /\ \A k \in Queued : j <= k
          /\ worker' = [worker EXCEPT ![w] = At("claim", j, 0, 0, FALSE)]
    /\ UNCHANGED <<job, stale, told, late, faults>>

(* Definitions named Broken... are wrong on purpose: each is the form a
   plausible bug would give the definition after it, and shows that a property
   below can fail.  No specification uses one. *)

\* ... and takes it, with a first heartbeat, if it is still queued.
ClaimJob(w) ==
    /\ worker[w].pc = "claim"
    /\ job[worker[w].job].status = "queued"
    /\ job' = [job EXCEPT ![worker[w].job] = JobRow(@.kind, "running", @.attempted, 0)]
    /\ Goto(w, "open")
    /\ UNCHANGED <<stale, told, late, faults>>

LoseClaim(w) ==
    /\ worker[w].pc = "claim"
    /\ job[worker[w].job].status # "queued"
    /\ Release(w)
    /\ UNCHANGED <<job, stale, told, late, faults>>

\* process_image_generation_job selects the variants of a batch.
OpenBatch(w) ==
    /\ worker[w].pc = "open"
    /\ job[worker[w].job].kind = "batch"
    /\ \E size \in 0 .. MaxVariants :
          worker' = [worker EXCEPT ![w] =
              At(IF size = 0 THEN "check" ELSE "first", @.job, size, 0, FALSE)]
    /\ UNCHANGED <<job, stale, told, late, faults>>

\* _update_running_job_progress, called before the first variant, and before and
\* after every variant, reads the status afresh.  Only the caller after a variant
\* looks at the answer, and returns.
ReadProgress(w) ==
    /\ worker[w].pc \in {"first", "before", "after"}
    /\ IF job[worker[w].job].status = "running"
       THEN Goto(w, CASE worker[w].pc = "first" -> "firstWrite"
                      [] worker[w].pc = "before" -> "beforeWrite"
                      [] worker[w].pc = "after" -> "afterWrite")
       ELSE CASE worker[w].pc = "first" -> Goto(w, "before")
              [] worker[w].pc = "before" -> Goto(w, "generate")
              [] worker[w].pc = "after" -> Release(w)
    /\ UNCHANGED <<job, stale, told, late, faults>>

BrokenWriteWholeRow(w) ==
    /\ worker[w].pc \in {"firstWrite", "beforeWrite", "afterWrite"}
    /\ job' = [job EXCEPT ![worker[w].job] =
                  JobRow(@.kind, "running", worker[w].done, 0)]
    /\ Goto(w, CASE worker[w].pc = "firstWrite" -> "before"
                 [] worker[w].pc = "beforeWrite" -> "generate"
                 [] worker[w].pc = "afterWrite" ->
                      IF worker[w].done < worker[w].size THEN "before" ELSE "check")
    /\ UNCHANGED <<stale, told, late, faults>>

\* ... and writes the counts and the heartbeat, never the status.
WriteProgress(w) ==
    /\ worker[w].pc \in {"firstWrite", "beforeWrite", "afterWrite"}
    /\ job' = [job EXCEPT ![worker[w].job] =
                  JobRow(@.kind, @.status, worker[w].done, 0)]
    /\ Goto(w, CASE worker[w].pc = "firstWrite" -> "before"
                 [] worker[w].pc = "beforeWrite" -> "generate"
                 [] worker[w].pc = "afterWrite" ->
                      IF worker[w].done < worker[w].size THEN "before" ELSE "check")
    /\ UNCHANGED <<stale, told, late, faults>>

\* generate_for_variant: its own failures are results.
GenerateVariant(w) ==
    /\ worker[w].pc = "generate"
    /\ \E good \in BOOLEAN :
          worker' = [worker EXCEPT
              ![w] = At("after", @.job, @.size, @.done + 1, @.good \/ good)]
    /\ late' = [late EXCEPT ![worker[w].job] =
                   IF job[worker[w].job].status = "running" THEN @ ELSE @ + 1]
    /\ UNCHANGED <<job, stale, told, faults>>

\* After the last variant the status is read once more ...
CheckBatch(w) ==
    /\ worker[w].pc = "check"
    /\ IF job[worker[w].job].status = "running" THEN Goto(w, "commit") ELSE Release(w)
    /\ UNCHANGED <<job, stale, told, late, faults>>

\* _final_status: failed only if there were variants and all of them failed.
FinalStatus(x) == IF x.size > 0 /\ ~x.good THEN "failed" ELSE "succeeded"

\* ... and the outcome is written, whatever the status is by then.
CommitBatch(w) ==
    /\ worker[w].pc = "commit"
    /\ job' = [job EXCEPT ![worker[w].job] =
                  JobRow(@.kind, FinalStatus(worker[w]), worker[w].size, 0)]
    /\ Release(w)
    /\ UNCHANGED <<stale, told, late, faults>>

\* process_catalog_image_job: the provider is called and the outcome written; the
\* status of the job is not looked at and the heartbeat not renewed.
FinishCatalog(w) ==
    /\ worker[w].pc = "open"
    /\ job[worker[w].job].kind = "catalog"
    /\ \E outcome \in Terminal :
          job' = [job EXCEPT ![worker[w].job] = JobRow(@.kind, outcome, 1, @.age)]
    /\ Release(w)
    /\ UNCHANGED <<stale, told, late, faults>>

\* An exception in the batch: the handler marks the job failed, unconditionally.
FailBatch(w) ==
    /\ worker[w].pc \in {"open", "generate", "check"}
    /\ job[worker[w].job].kind = "batch"
    /\ faults < MaxFaults
    /\ faults' = faults + 1
    /\ job' = [job EXCEPT ![worker[w].job] = JobRow(@.kind, "failed", @.attempted, @.age)]
    /\ Release(w)
    /\ UNCHANGED <<stale, told, late>>

\* recover_stale_image_generation_jobs loads the running jobs whose heartbeat is
\* older than the limit.
Stale == {j \in Running : job[j].age > StaleAfter}

BrokenLoadStale(p) ==
    /\ stale[p] = {}
    /\ p \in Workers => worker[p].pc = "idle"
    /\ {j \in Running : job[j].age > StaleAfter + 1} # {}
    /\ stale' = [stale EXCEPT ![p] = {j \in Running : job[j].age > StaleAfter + 1}]
    /\ worker' = IF p \in Workers THEN [worker EXCEPT ![p].pc = "recover"] ELSE worker
    /\ UNCHANGED <<job, told, late, faults>>

LoadStale(p) ==
    /\ stale[p] = {}
    /\ p \in Workers => worker[p].pc = "idle"
    /\ Stale # {}
    /\ stale' = [stale EXCEPT ![p] = Stale]
    /\ worker' = IF p \in Workers THEN [worker EXCEPT ![p].pc = "recover"] ELSE worker
    /\ UNCHANGED <<job, told, late, faults>>

Catalog(S) == {j \in S : job[j].kind = "catalog"}

\* All of them are marked failed in one commit, with an event for catalog jobs.
CommitStale(p) ==
    /\ stale[p] # {}
    /\ Catalog(stale[p]) \cap told = {}
    /\ job' = [j \in Jobs |-> IF j \in stale[p]
                              THEN JobRow(job[j].kind, "failed", job[j].attempted, job[j].age)
                              ELSE job[j]]
    /\ told' = told \cup Catalog(stale[p])
    /\ stale' = [stale EXCEPT ![p] = {}]
    /\ worker' = IF p \in Workers THEN [worker EXCEPT ![p] = Idle] ELSE worker
    /\ UNCHANGED <<late, faults>>

\* Another process has stored the event of one of them, with another
\* completed_at: the append is refused (409), nothing is committed, and the
\* exception ends the worker process, or the request.
ConflictStale(p) ==
    /\ Catalog(stale[p]) \cap told # {}
    /\ stale' = [stale EXCEPT ![p] = {}]
    /\ worker' = IF p \in Workers THEN [worker EXCEPT ![p] = At("dead", None, 0, 0, FALSE)]
                                  ELSE worker
    /\ UNCHANGED <<job, told, late, faults>>

\* The worker process is killed, or an exception ends it; its container restarts.
Crash(w) ==
    /\ worker[w].pc \notin {"idle", "dead"}
    /\ faults < MaxFaults
    /\ faults' = faults + 1
    /\ worker' = [worker EXCEPT ![w] = At("dead", None, 0, 0, FALSE)]
    /\ stale' = [stale EXCEPT ![w] = {}]
    /\ UNCHANGED <<job, told, late>>

Restart(w) ==
    /\ worker[w].pc = "dead"
    /\ Release(w)
    /\ UNCHANGED <<job, stale, told, late, faults>>

\* Heartbeats grow older.
Tick ==
    /\ job' = [j \in Jobs |->
          IF j \in Running /\ job[j].age <= StaleAfter
          THEN JobRow(job[j].kind, job[j].status, job[j].attempted, job[j].age + 1)
          ELSE job[j]]
    /\ UNCHANGED <<worker, stale, told, late, faults>>

Process(w) ==
    \/ OpenBatch(w) \/ ReadProgress(w) \/ WriteProgress(w) \/ GenerateVariant(w)
    \/ CheckBatch(w) \/ CommitBatch(w) \/ FinishCatalog(w)

Work(w) == SelectJob(w) \/ ClaimJob(w) \/ LoseClaim(w) \/ Process(w)

Recover(p) == LoadStale(p) \/ CommitStale(p) \/ ConflictStale(p)

Next ==
    \/ \E kind \in Kinds : Enqueue(kind)
    \/ \E w \in Workers : Work(w) \/ FailBatch(w) \/ Crash(w) \/ Restart(w)
    \/ \E p \in Processes : Recover(p)
    \/ Tick

Spec == Init /\ [][Next]_vars

\* Time passes, a worker keeps working and restarts, and runs the recovery again
\* and again between its jobs.
FairSpec ==
    /\ Spec
    /\ WF_vars(Tick)
    /\ \A w \in Workers : WF_vars(Work(w)) /\ WF_vars(Restart(w)) /\ SF_vars(Recover(w))

-----------------------------------------------------------------------------
(***************************************************************************)
(* Properties                                                              *)
(***************************************************************************)
Steps == {"idle", "claim", "open", "first", "firstWrite", "before", "beforeWrite",
          "generate", "after", "afterWrite", "check", "commit", "recover", "dead"}

\* Every variable keeps its type.
TypeOK ==
    /\ job \in [Jobs -> Rows \cup {None}]
    /\ \A j \in Enqueued : job[j].age <= StaleAfter + 1
    /\ worker \in [Workers -> [pc : Steps, job : Jobs \cup {None}, size : 0 .. MaxVariants,
                               done : 0 .. MaxVariants, good : BOOLEAN]]
    /\ stale \in [Processes -> SUBSET Jobs]
    /\ told \subseteq Jobs
    /\ late \in [Jobs -> Nat]
    /\ faults \in 0 .. MaxFaults

\* No two workers process the same job, although both may have selected it and
\* a recovery may have ended it in between.
OneWorkerPerJob ==
    \A v, w \in Workers :
        Processing(v) /\ Processing(w) /\ worker[v].job = worker[w].job => v = w

\* Once a batch has been given up by a recovery, its worker begins at most one
\* more variant: the worker does not notice at once, but it does before it pays
\* for a second image.
LateWorkIsBounded == \A j \in Jobs : late[j] <= 1

\* A batch recorded as succeeded has gone through every variant, and none is
\* recorded as succeeded by a worker that stopped early.
SuccessIsComplete ==
    \A j \in Enqueued :
        /\ job[j].kind = "batch"
        /\ job[j].status # "succeeded" /\ job'[j].status = "succeeded"
        => \E w \in Workers :
              /\ Processing(w) /\ worker[w].job = j
              /\ worker[w].done = worker[w].size
              /\ job'[j].attempted = worker[w].size

\* The outcome of a batch, once recorded, changes only in the two races the code
\* leaves open: a worker that had read the job as running just before the
\* recovery, or a recovery that had loaded it as stale just before it ended.
OutcomeChangesOnlyInRace ==
    \A j \in Enqueued :
        /\ job[j].kind = "batch"
        /\ job[j].status \in Terminal /\ job'[j].status # job[j].status
        => \/ \E w \in Workers : worker[w].pc = "commit" /\ worker[w].job = j
           \/ \E p \in Processes : j \in stale[p] /\ job'[j].status = "failed"

\* A running job does not stay running: its worker ends it, or a recovery does.
RunningEnds == \A j \in Jobs : j \in Running ~> j \notin Running

=============================================================================
