------------------------------ MODULE IndexJobs ------------------------------
(***************************************************************************)
(* The index_jobs table of app/services/index_jobs.py and the indexing of  *)
(* app/services/indexing.py: requests and publications enqueue jobs, the   *)
(* background workers claim them by a conditional UPDATE, and an indexer   *)
(* (a worker, or a synchronous endpoint without a job) rebuilds the        *)
(* embedding rows of a run in several transactions.                        *)
(*                                                                         *)
(* A job row is never looked at again by anyone but its worker: there is   *)
(* no heartbeat and no recovery for index jobs.                            *)
(***************************************************************************)
EXTENDS Naturals

CONSTANTS
    Jobs,     \* job ids in order of created_at
    Runs,     \* synthetic runs
    Clients,  \* callers of enqueue_index_job that deduplicate (MCP tool, cutover)
    Workers,  \* background worker processes
    Tools,    \* synchronous indexing requests (index-products)
    LastBatch,\* number of batches of products in one table
    MaxVersion, MaxCrashes, \* bounds on publications of a run and on crashes
    None

Active == {"queued", "running"}
Statuses == Active \cup {"succeeded", "failed"}
JobRows == [run : Runs, status : Statuses]

ASSUME IdAssumption == Jobs \subseteq Nat /\ None \notin Nat \cup Runs \cup JobRows
ASSUME BoundAssumption ==
    MaxVersion \in Nat /\ MaxCrashes \in Nat /\ LastBatch \in Nat \ {0}
ASSUME ProcessAssumption == Workers \cap Tools = {} /\ None \notin Workers \cup Tools

VARIABLES
    job,       \* job[j]: [run, status], or None before it is enqueued
    content,   \* content[r]: how often the catalog of r was published
    embedding, \* embedding[r][t][b]: the content version the rows were built from
    runStatus, \* runStatus[r]: synthetic_runs.status
    asking,    \* asking[c]: the run for which client c found no active job, or None
    indexer,   \* indexer[p]: where process p is
    taker,     \* taker[j]: the worker that claimed j (of the model only)
    crashes

vars == <<job, content, embedding, runStatus, asking, indexer, taker, crashes>>

Tables == 1 .. 2            \* product_embeddings, catalog_product_embeddings
Batches == 1 .. LastBatch
Processes == Workers \cup Tools
Enqueued == {j \in Jobs : job[j] # None}
JobsOf(r) == {j \in Enqueued : job[j].run = r}
Queued == {j \in Enqueued : job[j].status = "queued"}

\* Where an indexer is: the step it takes next, its job and run, the table and
\* batch it is at, and the content version it has read for the table.
Steps == {"idle", "claim", "delete", "read", "insert", "finish", "dead"}
At(pc, j, r, t, b, v) ==
    [pc |-> pc, job |-> j, run |-> r, table |-> t, batch |-> b, seen |-> v]
Idle == At("idle", None, None, 0, 0, 0)
Goto(p, pc) == indexer' = [indexer EXCEPT ![p].pc = pc]

\* Publication rewrites catalog_products; the products table of a run is loaded
\* before it is indexed.
Version(r, t) == IF t = 2 THEN content[r] ELSE 0

(* Definitions named Broken... are wrong on purpose: each is the form a
   plausible bug would give the definition after it, and shows that a property
   below can fail.  No specification uses one. *)

Row(r) == [run |-> r, status |-> "queued"]

\* A new job has the latest created_at.
Add(r) ==
    \E j \in Jobs :
        /\ job[j] = None
        /\ \A k \in Enqueued : k < j
        /\ \A k \in Jobs : job[k] = None => j <= k
        /\ job' = [job EXCEPT ![j] = Row(r)]

Init ==
    /\ job = [j \in Jobs |-> None]
    /\ content = [r \in Runs |-> 0]
    /\ embedding = [r \in Runs |-> [t \in Tables |-> [b \in Batches |-> None]]]
    /\ runStatus = [r \in Runs |-> "loaded"]
    /\ asking = [c \in Clients |-> None]
    /\ indexer = [p \in Processes |-> Idle]
    /\ taker = [j \in Jobs |-> None]
    /\ crashes = 0

-----------------------------------------------------------------------------
\* enqueue_index_job(deduplicate=True) looks for a queued or running job of the
\* run and answers with it ...
Lookup(c, r) ==
    /\ asking[c] = None
    /\ \A j \in JobsOf(r) : job[j].status \notin Active
    /\ asking' = [asking EXCEPT ![c] = r]
    /\ UNCHANGED <<job, content, embedding, runStatus, indexer, taker, crashes>>

\* ... or inserts one, whatever other sessions have committed since.
Enqueue(c) ==
    /\ asking[c] # None
    /\ Add(asking[c])
    /\ asking' = [asking EXCEPT ![c] = None]
    /\ UNCHANGED <<content, embedding, runStatus, indexer, taker, crashes>>

BrokenPublish(r) ==
    /\ content[r] < MaxVersion
    /\ content' = [content EXCEPT ![r] = @ + 1]
    /\ IF \E j \in JobsOf(r) : job[j].status \in Active
       THEN UNCHANGED job
       ELSE Add(r)
    /\ UNCHANGED <<embedding, runStatus, asking, indexer, taker, crashes>>

\* publish_draft: the new catalog content and a job of its own (deduplicate=False)
\* are committed together.
Publish(r) ==
    /\ content[r] < MaxVersion
    /\ content' = [content EXCEPT ![r] = @ + 1]
    /\ Add(r)
    /\ UNCHANGED <<embedding, runStatus, asking, indexer, taker, crashes>>

BrokenSelectJob(w) ==
    /\ indexer[w].pc = "idle"
    /\ \E j \in Enqueued :
          /\ job[j].status \in Active
          /\ \A k \in Enqueued : job[k].status \in Active => j <= k
          /\ indexer' = [indexer EXCEPT ![w] = At("claim", j, job[j].run, 0, 0, 0)]
    /\ UNCHANGED <<job, content, embedding, runStatus, asking, taker, crashes>>

\* claim_next_index_job selects the oldest queued job ...
SelectJob(w) ==
    /\ indexer[w].pc = "idle"
    /\ \E j \in Queued :
          /\ \A k \in Queued : j <= k
          /\ indexer' = [indexer EXCEPT ![w] = At("claim", j, job[j].run, 0, 0, 0)]
    /\ UNCHANGED <<job, content, embedding, runStatus, asking, taker, crashes>>

BrokenClaimJob(w) ==
    /\ indexer[w].pc = "claim"
    /\ job' = [job EXCEPT ![indexer[w].job].status = "running"]
    /\ taker' = [taker EXCEPT ![indexer[w].job] = w]
    /\ indexer' = [indexer EXCEPT ![w] = At("delete", @.job, @.run, 1, 0, 0)]
    /\ UNCHANGED <<content, embedding, runStatus, asking, crashes>>

\* ... and updates it if it is still queued.
ClaimJob(w) ==
    /\ indexer[w].pc = "claim"
    /\ job[indexer[w].job].status = "queued"
    /\ job' = [job EXCEPT ![indexer[w].job].status = "running"]
    /\ taker' = [taker EXCEPT ![indexer[w].job] = w]
    /\ indexer' = [indexer EXCEPT ![w] = At("delete", @.job, @.run, 1, 0, 0)]
    /\ UNCHANGED <<content, embedding, runStatus, asking, crashes>>

\* rowcount 0: another worker claimed it; the worker polls again later.
LoseClaim(w) ==
    /\ indexer[w].pc = "claim"
    /\ job[indexer[w].job].status # "queued"
    /\ indexer' = [indexer EXCEPT ![w] = Idle]
    /\ UNCHANGED <<job, content, embedding, runStatus, asking, taker, crashes>>

\* A synchronous index-products request: no job row.
StartTool(p, r) ==
    /\ indexer[p].pc = "idle"
    /\ indexer' = [indexer EXCEPT ![p] = At("delete", None, r, 1, 0, 0)]
    /\ UNCHANGED <<job, content, embedding, runStatus, asking, taker, crashes>>

\* index_products_for_run deletes the rows of the run from the table and commits.
DeleteRows(p) ==
    /\ indexer[p].pc = "delete"
    /\ embedding' = [embedding EXCEPT ![indexer[p].run][indexer[p].table] =
                        [b \in Batches |-> None]]
    /\ Goto(p, "read")
    /\ UNCHANGED <<job, content, runStatus, asking, taker, crashes>>

\* It reads all products of the table at once.
ReadContent(p) ==
    /\ indexer[p].pc = "read"
    /\ indexer' = [indexer EXCEPT
          ![p] = At("insert", @.job, @.run, @.table, 1, Version(@.run, @.table))]
    /\ UNCHANGED <<job, content, embedding, runStatus, asking, taker, crashes>>

\* The step after a batch: the next batch, the next table, or the end.
AfterBatch(x) ==
    IF x.batch + 1 \in Batches THEN At("insert", x.job, x.run, x.table, x.batch + 1, x.seen)
    ELSE IF x.table + 1 \in Tables THEN At("delete", x.job, x.run, x.table + 1, 0, 0)
    ELSE At("finish", x.job, x.run, x.table, x.batch, x.seen)

\* The rows the indexer would insert next are already there: product_id is the
\* primary key.
Collides(x) == embedding[x.run][x.table][x.batch] # None

\* A batch is embedded, upserted and its rows inserted and committed.  A failed
\* upsert only marks the rows.
InsertBatch(p) ==
    /\ indexer[p].pc = "insert"
    /\ ~Collides(indexer[p])
    /\ embedding' = [embedding EXCEPT
          ![indexer[p].run][indexer[p].table][indexer[p].batch] = indexer[p].seen]
    /\ indexer' = [indexer EXCEPT ![p] = AfterBatch(@)]
    /\ UNCHANGED <<job, content, runStatus, asking, taker, crashes>>

\* The insert breaks the primary key.  The worker's handler then commits a session
\* that cannot commit: the exception ends the process, and the job stays running.
\* A synchronous request ends in an error.
CollideBatch(p) ==
    /\ indexer[p].pc = "insert"
    /\ Collides(indexer[p])
    /\ indexer' = [indexer EXCEPT ![p] = IF p \in Workers THEN [@ EXCEPT !.pc = "dead"]
                                                          ELSE Idle]
    /\ UNCHANGED <<job, content, embedding, runStatus, asking, taker, crashes>>

\* process_index_job: the job succeeded and the run is indexed, in one commit; a
\* synchronous request marks the run only.
FinishIndexing(p) ==
    /\ indexer[p].pc = "finish"
    /\ job' = IF indexer[p].job = None THEN job
              ELSE [job EXCEPT ![indexer[p].job].status = "succeeded"]
    /\ runStatus' = [runStatus EXCEPT ![indexer[p].run] = "indexed"]
    /\ indexer' = [indexer EXCEPT ![p] = Idle]
    /\ UNCHANGED <<content, embedding, asking, taker, crashes>>

\* An exception outside the database: the handler records the job as failed.
FailIndexing(w) ==
    /\ indexer[w].pc \in {"delete", "insert"}
    /\ crashes < MaxCrashes
    /\ crashes' = crashes + 1
    /\ job' = [job EXCEPT ![indexer[w].job].status = "failed"]
    /\ indexer' = [indexer EXCEPT ![w] = Idle]
    /\ UNCHANGED <<content, embedding, runStatus, asking, taker>>

\* The process is killed.  Its container restarts (restart: unless-stopped); a
\* request in the API process is lost for good.
Crash(p) ==
    /\ indexer[p].pc \notin {"idle", "dead"}
    /\ crashes < MaxCrashes
    /\ crashes' = crashes + 1
    /\ Goto(p, "dead")
    /\ UNCHANGED <<job, content, embedding, runStatus, asking, taker>>

Restart(w) ==
    /\ indexer[w].pc = "dead"
    /\ indexer' = [indexer EXCEPT ![w] = Idle]
    /\ UNCHANGED <<job, content, embedding, runStatus, asking, taker, crashes>>

Index(p) ==
    DeleteRows(p) \/ ReadContent(p) \/ InsertBatch(p) \/ CollideBatch(p) \/ FinishIndexing(p)

Work(w) == SelectJob(w) \/ ClaimJob(w) \/ LoseClaim(w) \/ Index(w)

Next ==
    \/ \E c \in Clients : Enqueue(c) \/ \E r \in Runs : Lookup(c, r)
    \/ \E r \in Runs : Publish(r)
    \/ \E w \in Workers : Work(w) \/ FailIndexing(w) \/ Restart(w)
    \/ \E p \in Tools : Index(p) \/ \E r \in Runs : StartTool(p, r)
    \/ \E p \in Processes : Crash(p)

Spec == Init /\ [][Next]_vars

\* A worker's loop never waits for anything else, and its container restarts.
FairSpec == Spec /\ \A w \in Workers : WF_vars(Work(w)) /\ WF_vars(Restart(w))

-----------------------------------------------------------------------------
(***************************************************************************)
(* Properties                                                              *)
(***************************************************************************)

\* Every variable keeps its type.
TypeOK ==
    /\ job \in [Jobs -> JobRows \cup {None}]
    /\ content \in [Runs -> 0 .. MaxVersion]
    /\ embedding \in [Runs -> [Tables -> [Batches -> (0 .. MaxVersion) \cup {None}]]]
    /\ runStatus \in [Runs -> {"loaded", "indexed"}]
    /\ asking \in [Clients -> Runs \cup {None}]
    /\ indexer \in [Processes -> [pc : Steps, job : Jobs \cup {None},
                                  run : Runs \cup {None}, table : Tables \cup {0},
                                  batch : Batches \cup {0}, seen : 0 .. MaxVersion]]
    /\ taker \in [Jobs -> Workers \cup {None}]
    /\ crashes \in 0 .. MaxCrashes

\* No two workers index for the same job, although both may have selected it.
OneWorkerPerJob ==
    \A v, w \in Workers :
        /\ indexer[v].pc \notin {"idle", "claim", "dead"}
        /\ indexer[w].pc \notin {"idle", "claim", "dead"}
        /\ indexer[v].job = indexer[w].job
        => v = w

\* Something may still rebuild, or has failed to rebuild, the rows of run r.
Unsettled(r) ==
    \/ \E j \in JobsOf(r) : job[j].status # "succeeded"
    \/ \E p \in Processes : indexer[p].pc # "idle" /\ indexer[p].run = r

\* An indexed run whose jobs have all succeeded is searchable in full, from the
\* content published last: neither a publication during the indexing of the same
\* run nor two indexers of the run, each deleting and inserting the same rows in
\* several transactions, leave old or missing rows behind without a trace.
IndexIsCurrent ==
    \A r \in Runs : runStatus[r] = "indexed" /\ ~Unsettled(r) =>
        \A t \in Tables, b \in Batches : embedding[r][t][b] = Version(r, t)

\* The jobs follow the lifecycle of a durable queue: claimed once, by one worker,
\* with an outcome that is final.
Lifecycle == INSTANCE JobLifecycle WITH
    Processes <- Workers,
    status <- [j \in Jobs |-> IF job[j] = None THEN None ELSE job[j].status]
ImplementsLifecycle == Lifecycle!Spec

\* A queued job is claimed in the end, through crashes and restarts of the workers.
QueuedIsClaimed ==
    \A j \in Jobs : j \in Queued ~> j \notin Queued

\* A queued job ends as succeeded or failed.
JobIsFinished ==
    \A j \in Jobs : j \in Queued ~> job[j] # None /\ job[j].status \notin Active
=============================================================================
