--------------------------- MODULE IndexJobsProofs ---------------------------
(***************************************************************************)
(* Proofs about module IndexJobs, for any number of jobs, runs, workers    *)
(* and synchronous requests, any number of publications and crashes: the   *)
(* variables keep their types, a job is indexed by one worker, the jobs    *)
(* implement module JobLifecycle, and, for workers alone or one worker     *)
(* beside one synchronous request, the rows of an indexed run are current. *)
(***************************************************************************)
EXTENDS IndexJobs, TLAPS

\* Process p rebuilds the rows of a run.
Working(p) == indexer[p].pc \in {"delete", "read", "insert", "finish"}

\* A worker that is indexing works on a running job that it has claimed itself.
WorkerOwns ==
    \A w \in Workers : Working(w) =>
        /\ indexer[w].job \in Jobs
        /\ job[indexer[w].job] # None
        /\ job[indexer[w].job].status = "running"
        /\ taker[indexer[w].job] = w

\* A worker about to claim a job has found one that was enqueued.
ClaimFound ==
    \A w \in Workers : indexer[w].pc = "claim" =>
        indexer[w].job \in Jobs /\ job[indexer[w].job] # None

\* A synchronous request has no job and claims none.
ToolHasNoJob == \A p \in Tools : indexer[p].job = None /\ indexer[p].pc # "claim"

\* Nobody has claimed a job that is still queued.
UntakenIfQueued ==
    \A j \in Jobs : job[j] = None \/ job[j].status = "queued" => taker[j] = None

\* A process that is about to rebuild rows, or rebuilds them, knows whose.
HasRun == \A p \in Processes : indexer[p].pc \notin {"idle", "dead"} => indexer[p].run \in Runs

IInv == TypeOK /\ WorkerOwns /\ ClaimFound /\ ToolHasNoJob /\ UntakenIfQueued /\ HasRun

-----------------------------------------------------------------------------
\* The records an indexer may be are closed under the steps of an indexer: the
\* position after a batch is a position.
IndexerStates == [pc : Steps, job : Jobs \cup {None}, run : Runs \cup {None},
                  table : Tables \cup {0}, batch : Batches \cup {0}, seen : 0 .. MaxVersion]

LEMMA AfterBatchType ==
    ASSUME NEW x \in IndexerStates
    PROVE  /\ AfterBatch(x) \in IndexerStates
           /\ AfterBatch(x).job = x.job /\ AfterBatch(x).run = x.run
           /\ AfterBatch(x).pc \in {"delete", "insert", "finish"}
BY BoundAssumption DEF AfterBatch, At, IndexerStates, Steps, Tables, Batches

\* Changing only what an indexer does next keeps its type and its job.
LEMMA PcType ==
    ASSUME NEW x \in IndexerStates, NEW pc \in Steps
    PROVE  /\ [x EXCEPT !.pc = pc] \in IndexerStates
           /\ [x EXCEPT !.pc = pc].job = x.job /\ [x EXCEPT !.pc = pc].run = x.run
           /\ [x EXCEPT !.pc = pc].pc = pc
BY DEF IndexerStates

\* A job row whose status changes stays a job row.
LEMMA StatusType ==
    ASSUME NEW x \in JobRows, NEW s \in Statuses
    PROVE  /\ [x EXCEPT !.status = s] \in JobRows
           /\ [x EXCEPT !.status = s].status = s
BY DEF JobRows

\* What enqueueing does: one job that had no row gets a queued row.
LEMMA AddRow ==
    ASSUME NEW r \in Runs, Add(r)
    PROVE  \E j \in Jobs : /\ job[j] = None
                           /\ job' = [job EXCEPT ![j] = [run |-> r, status |-> "queued"]]
BY DEF Add, Row

\* No record of a job is the missing row.
LEMMA RowIsNotNone == \A x \in JobRows : x # None
BY IdAssumption

\* The invariant holds when no job has been enqueued.
LEMMA InitInv == Init => IInv
<1> SUFFICES ASSUME Init PROVE IInv
  OBVIOUS
<1>1. /\ job \in [Jobs -> JobRows \cup {None}]
      /\ content \in [Runs -> 0 .. MaxVersion]
      /\ runStatus \in [Runs -> {"loaded", "indexed"}]
      /\ asking \in [Clients -> Runs \cup {None}]
      /\ taker \in [Jobs -> Workers \cup {None}]
      /\ crashes \in 0 .. MaxCrashes
  BY BoundAssumption DEF Init
<1>2. embedding \in [Runs -> [Tables -> [Batches -> (0 .. MaxVersion) \cup {None}]]]
  BY DEF Init
<1>3. Idle \in IndexerStates /\ Idle.pc = "idle" /\ Idle.job = None
  BY BoundAssumption DEF Idle, At, IndexerStates, Steps
<1>4. indexer \in [Processes -> IndexerStates]
  BY <1>3 DEF Init
<1>5. TypeOK
  BY <1>1, <1>2, <1>4 DEF TypeOK, IndexerStates
<1>6. \A p \in Processes : indexer[p].pc = "idle" /\ indexer[p].job = None
  BY <1>3 DEF Init
<1>7. WorkerOwns /\ ClaimFound /\ ToolHasNoJob /\ HasRun
  BY <1>6 DEF WorkerOwns, ClaimFound, ToolHasNoJob, HasRun, Working, Processes
<1>8. UntakenIfQueued
  BY DEF Init, UntakenIfQueued
<1> QED
  BY <1>5, <1>7, <1>8 DEF IInv

\* A new queued job disturbs no worker.
LEMMA AddInv ==
    ASSUME IInv, NEW r \in Runs, Add(r), UNCHANGED <<indexer, taker>>
    PROVE  /\ job' \in [Jobs -> JobRows \cup {None}]
           /\ WorkerOwns' /\ ClaimFound' /\ ToolHasNoJob' /\ UntakenIfQueued' /\ HasRun'
<1> DEFINE New == [run |-> r, status |-> "queued"]
<1>1. PICK j \in Jobs : job[j] = None /\ job' = [job EXCEPT ![j] = New]
  BY AddRow
<1>2. New \in JobRows /\ New # None
  BY RowIsNotNone DEF JobRows, Statuses, Active
<1>3. /\ job' \in [Jobs -> JobRows \cup {None}]
      /\ job'[j] = New
      /\ \A k \in Jobs \ {j} : job'[k] = job[k]
  BY <1>1, <1>2 DEF IInv, TypeOK
<1>4. WorkerOwns'
  BY <1>1, <1>2, <1>3 DEF IInv, WorkerOwns, Working
<1>5. ClaimFound'
  BY <1>1, <1>2, <1>3 DEF IInv, ClaimFound
<1>6. ToolHasNoJob'
  BY DEF IInv, ToolHasNoJob
<1>7. UntakenIfQueued'
  BY <1>1, <1>3 DEF IInv, UntakenIfQueued
<1>8. HasRun'
  BY DEF IInv, HasRun
<1> QED
  BY <1>3, <1>4, <1>5, <1>6, <1>7, <1>8

\* What process p may turn to while no job row and no claim changes.
Allowed(p, x) ==
    /\ x \in IndexerStates
    /\ p \in Workers /\ x.pc \in {"delete", "read", "insert", "finish"} =>
          /\ x.job \in Jobs /\ job[x.job] # None
          /\ job[x.job].status = "running" /\ taker[x.job] = p
    /\ p \in Workers /\ x.pc = "claim" => x.job \in Jobs /\ job[x.job] # None
    /\ p \in Tools => x.job = None /\ x.pc # "claim"
    /\ x.pc \notin {"idle", "dead"} => x.run \in Runs

\* A step of one indexer that stays within Allowed keeps every part of the
\* invariant about indexers.
LEMMA MoveInv ==
    ASSUME IInv, NEW p \in Processes, NEW x, Allowed(p, x),
           indexer' = [indexer EXCEPT ![p] = x], UNCHANGED <<job, taker>>
    PROVE  /\ indexer' \in [Processes -> IndexerStates]
           /\ WorkerOwns' /\ ClaimFound' /\ ToolHasNoJob' /\ UntakenIfQueued' /\ HasRun'
<1>1. indexer \in [Processes -> IndexerStates]
  BY DEF IInv, TypeOK, IndexerStates
<1>2. /\ indexer' \in [Processes -> IndexerStates]
      /\ indexer'[p] = x
      /\ \A q \in Processes \ {p} : indexer'[q] = indexer[q]
  BY <1>1 DEF Allowed
<1>3. WorkerOwns'
  BY <1>2 DEF IInv, WorkerOwns, Working, Allowed, Processes
<1>4. ClaimFound'
  BY <1>2 DEF IInv, ClaimFound, Allowed, Processes
<1>5. ToolHasNoJob'
  BY <1>2 DEF IInv, ToolHasNoJob, Allowed, Processes
<1>6. UntakenIfQueued'
  BY DEF IInv, UntakenIfQueued
<1>7. HasRun'
  BY <1>2 DEF IInv, HasRun, Allowed
<1> QED
  BY <1>2, <1>3, <1>4, <1>5, <1>6, <1>7

\* A process that rebuilds rows may go on rebuilding them for the same job, stop, or die.
LEMMA GoOn ==
    ASSUME IInv, NEW p \in Processes, NEW x \in IndexerStates,
           \/ /\ Working(p) /\ x.pc # "claim"
              /\ x.job = indexer[p].job /\ x.run = indexer[p].run
           \/ x.pc \in {"idle", "dead"} /\ (x.job = indexer[p].job \/ x.job = None)
    PROVE  Allowed(p, x)
<1>1. p \in Tools => x.job = None /\ x.pc # "claim"
  BY DEF IInv, ToolHasNoJob
<1>2. p \in Workers => x.pc # "claim"
  OBVIOUS
<1>3. ASSUME p \in Workers, x.pc \in {"delete", "read", "insert", "finish"}
      PROVE  /\ x.job \in Jobs /\ job[x.job] # None
             /\ job[x.job].status = "running" /\ taker[x.job] = p
  BY <1>3 DEF IInv, WorkerOwns
<1>4. x.pc \notin {"idle", "dead"} => x.run \in Runs
  BY DEF IInv, HasRun, Working
<1> QED
  BY <1>1, <1>2, <1>3, <1>4 DEF Allowed

\* The outcome of an indexing: the job of worker w, which runs, ends with status
\* s, and the worker is free.
LEMMA OutcomeInv ==
    ASSUME IInv, NEW w \in Workers, Working(w), NEW s \in {"succeeded", "failed"},
           job' = [job EXCEPT ![indexer[w].job].status = s],
           indexer' = [indexer EXCEPT ![w] = Idle], UNCHANGED taker
    PROVE  /\ job' \in [Jobs -> JobRows \cup {None}]
           /\ indexer' \in [Processes -> IndexerStates]
           /\ WorkerOwns' /\ ClaimFound' /\ ToolHasNoJob' /\ UntakenIfQueued' /\ HasRun'
<1> DEFINE j == indexer[w].job
<1>1. /\ j \in Jobs /\ job[j] # None /\ job[j].status = "running" /\ taker[j] = w
  BY DEF IInv, WorkerOwns
<1>2. job[j] \in JobRows
  BY <1>1 DEF IInv, TypeOK
<1> DEFINE y == [job[j] EXCEPT !.status = s]
<1>3. y \in JobRows /\ y.status = s /\ y # None
  BY <1>2, StatusType, RowIsNotNone DEF Statuses
<1>4. job' = [job EXCEPT ![j] = y]
  OBVIOUS
<1> HIDE DEF y
<1>5. /\ job' \in [Jobs -> JobRows \cup {None}]
      /\ job'[j] = y
      /\ \A k \in Jobs \ {j} : job'[k] = job[k]
  BY <1>1, <1>3, <1>4 DEF IInv, TypeOK
<1>6. Idle \in IndexerStates /\ Idle.pc = "idle" /\ Idle.job = None
  BY BoundAssumption DEF Idle, At, IndexerStates, Steps
<1>7. /\ indexer' \in [Processes -> IndexerStates]
      /\ indexer'[w] = Idle
      /\ \A q \in Processes \ {w} : indexer'[q] = indexer[q]
  BY <1>6 DEF IInv, TypeOK, IndexerStates, Processes
<1>8. WorkerOwns'
  <2> SUFFICES ASSUME NEW v \in Workers, Working(v)'
               PROVE  /\ indexer'[v].job \in Jobs
                      /\ job'[indexer'[v].job] # None
                      /\ job'[indexer'[v].job].status = "running"
                      /\ taker'[indexer'[v].job] = v
    BY DEF WorkerOwns
  <2>1. v # w
    BY <1>6, <1>7 DEF Working
  <2>2. indexer'[v] = indexer[v] /\ Working(v)
    BY <2>1, <1>7 DEF Working, Processes
  <2>3. indexer[v].job # j
    BY <2>1, <2>2, <1>1 DEF IInv, WorkerOwns
  <2> QED
    BY <2>2, <2>3, <1>5 DEF IInv, WorkerOwns
<1>9. ClaimFound'
  BY <1>3, <1>5, <1>6, <1>7 DEF IInv, ClaimFound, Processes
<1>10. ToolHasNoJob'
  BY <1>7, ProcessAssumption DEF IInv, ToolHasNoJob, Processes
<1>11. UntakenIfQueued'
  BY <1>3, <1>5 DEF IInv, UntakenIfQueued
<1>12. HasRun'
  BY <1>6, <1>7 DEF IInv, HasRun
<1> QED
  BY <1>5, <1>7, <1>8, <1>9, <1>10, <1>11, <1>12

\* A claim: the queued job w has selected runs from now on, and w has it.
LEMMA ClaimInv ==
    ASSUME IInv, NEW w \in Workers, ClaimJob(w)
    PROVE  /\ job' \in [Jobs -> JobRows \cup {None}]
           /\ taker' \in [Jobs -> Workers \cup {None}]
           /\ indexer' \in [Processes -> IndexerStates]
           /\ WorkerOwns' /\ ClaimFound' /\ ToolHasNoJob' /\ UntakenIfQueued' /\ HasRun'
<1> DEFINE j == indexer[w].job
<1>1. /\ j \in Jobs /\ job[j] # None /\ job[j].status = "queued" /\ taker[j] = None
  BY DEF IInv, ClaimFound, ClaimJob, UntakenIfQueued
<1>2. job[j] \in JobRows
  BY <1>1 DEF IInv, TypeOK
<1> DEFINE y == [job[j] EXCEPT !.status = "running"]
<1>3. y \in JobRows /\ y.status = "running" /\ y # None
  BY <1>2, StatusType, RowIsNotNone DEF Statuses, Active
<1>4. /\ job' \in [Jobs -> JobRows \cup {None}]
      /\ job'[j] = y
      /\ \A k \in Jobs \ {j} : job'[k] = job[k]
  BY <1>1, <1>3 DEF IInv, TypeOK, ClaimJob
<1>5. /\ taker' \in [Jobs -> Workers \cup {None}]
      /\ taker'[j] = w
      /\ \A k \in Jobs \ {j} : taker'[k] = taker[k]
  BY <1>1 DEF IInv, TypeOK, ClaimJob
<1> HIDE DEF y
<1> DEFINE x == At("delete", j, indexer[w].run, 1, 0, 0)
<1>6. x \in IndexerStates /\ x.job = j /\ x.pc = "delete" /\ x.run \in Runs
  <2>1. indexer[w].run \in Runs
    BY DEF IInv, HasRun, ClaimJob, Processes
  <2> QED
    BY <2>1, <1>1, BoundAssumption DEF At, IndexerStates, Steps, Tables
<1>x. indexer' = [indexer EXCEPT ![w] = x]
  BY DEF ClaimJob
<1> HIDE DEF x
<1>7. /\ indexer' \in [Processes -> IndexerStates]
      /\ indexer'[w] = x
      /\ \A q \in Processes \ {w} : indexer'[q] = indexer[q]
  BY <1>6, <1>x DEF IInv, TypeOK, IndexerStates, Processes
<1>8. WorkerOwns'
  <2> SUFFICES ASSUME NEW v \in Workers, Working(v)'
               PROVE  /\ indexer'[v].job \in Jobs
                      /\ job'[indexer'[v].job] # None
                      /\ job'[indexer'[v].job].status = "running"
                      /\ taker'[indexer'[v].job] = v
    BY DEF WorkerOwns
  <2>1. CASE v = w
    BY <2>1, <1>1, <1>3, <1>4, <1>5, <1>6, <1>7
  <2>2. CASE v # w
    <3>1. indexer'[v] = indexer[v] /\ Working(v)
      BY <2>2, <1>7 DEF Working, Processes
    <3>2. indexer[v].job # j
      BY <3>1, <1>1 DEF IInv, WorkerOwns
    <3> QED
      BY <3>1, <3>2, <1>4, <1>5 DEF IInv, WorkerOwns
  <2> QED
    BY <2>1, <2>2
<1>9. ClaimFound'
  BY <1>3, <1>4, <1>6, <1>7 DEF IInv, ClaimFound, Processes
<1>10. ToolHasNoJob'
  BY <1>7, ProcessAssumption DEF IInv, ToolHasNoJob, Processes
<1>11. UntakenIfQueued'
  BY <1>1, <1>3, <1>4, <1>5 DEF IInv, UntakenIfQueued
<1>12. HasRun'
  BY <1>6, <1>7 DEF IInv, HasRun
<1> QED
  BY <1>4, <1>5, <1>7, <1>8, <1>9, <1>10, <1>11, <1>12

-----------------------------------------------------------------------------
\* Every step of module IndexJobs keeps the invariant.
LEMMA NextInv == IInv /\ [Next]_vars => IInv'
<1> SUFFICES ASSUME IInv, [Next]_vars PROVE IInv'
  OBVIOUS
<1> USE DEF Processes
<1>a. /\ indexer \in [Processes -> IndexerStates]
      /\ Idle \in IndexerStates /\ Idle.pc = "idle" /\ Idle.job = None
  BY BoundAssumption DEF IInv, TypeOK, IndexerStates, Idle, At, Steps
<1>1. ASSUME NEW c \in Clients, Enqueue(c) PROVE IInv'
  <2>1. asking[c] \in Runs
    BY <1>1 DEF IInv, TypeOK, Enqueue
  <2>2. asking' \in [Clients -> Runs \cup {None}]
    BY <1>1 DEF IInv, TypeOK, Enqueue
  <2> QED
    BY <1>1, <2>1, <2>2, AddInv DEF IInv, TypeOK, Enqueue
<1>2. ASSUME NEW c \in Clients, NEW r \in Runs, Lookup(c, r) PROVE IInv'
  BY <1>2 DEF IInv, TypeOK, Lookup, WorkerOwns, Working, ClaimFound, ToolHasNoJob, UntakenIfQueued, HasRun
<1>3. ASSUME NEW r \in Runs, Publish(r) PROVE IInv'
  <2>1. content' \in [Runs -> 0 .. MaxVersion]
    BY <1>3, BoundAssumption DEF IInv, TypeOK, Publish
  <2> QED
    BY <1>3, <2>1, AddInv DEF IInv, TypeOK, Publish
<1>4. ASSUME NEW w \in Workers, SelectJob(w) PROVE IInv'
  <2>1. PICK j \in Queued : indexer' = [indexer EXCEPT ![w] = At("claim", j, job[j].run, 0, 0, 0)]
    BY <1>4 DEF SelectJob
  <2>2. j \in Jobs /\ job[j] # None /\ job[j].run \in Runs
    BY DEF Queued, Enqueued, IInv, TypeOK, JobRows
  <2>3. Allowed(w, At("claim", j, job[j].run, 0, 0, 0))
    BY <2>2, ProcessAssumption, BoundAssumption
       DEF Allowed, At, IndexerStates, Steps
  <2>4. UNCHANGED <<job, content, embedding, runStatus, asking, taker, crashes>>
    BY <1>4 DEF SelectJob
  <2> QED
    BY <2>1, <2>3, <2>4, MoveInv DEF IInv, TypeOK, IndexerStates
<1>5. ASSUME NEW w \in Workers, ClaimJob(w) PROVE IInv'
  BY <1>5, ClaimInv DEF IInv, TypeOK, ClaimJob, IndexerStates
<1>6. ASSUME NEW w \in Workers, LoseClaim(w) PROVE IInv'
  <2>1. Allowed(w, Idle)
    BY <1>a, GoOn
  <2> QED
    BY <1>6, <2>1, MoveInv DEF LoseClaim, IInv, TypeOK, IndexerStates
<1>7. ASSUME NEW p \in Tools, NEW r \in Runs, StartTool(p, r) PROVE IInv'
  <2>1. Allowed(p, At("delete", None, r, 1, 0, 0))
    BY ProcessAssumption, BoundAssumption DEF Allowed, At, IndexerStates, Steps, Tables
  <2> QED
    BY <1>7, <2>1, MoveInv DEF StartTool, IInv, TypeOK, IndexerStates
<1>8. ASSUME NEW p \in Processes, DeleteRows(p) PROVE IInv'
  <2> DEFINE x == [indexer[p] EXCEPT !.pc = "read"]
  <2>1. x \in IndexerStates /\ x.job = indexer[p].job /\ x.run = indexer[p].run /\ x.pc = "read"
    BY <1>a, PcType DEF Steps
  <2>2. Allowed(p, x)
    BY <1>8, <2>1, GoOn DEF DeleteRows, Working
  <2>3. indexer' = [indexer EXCEPT ![p] = x]
    BY <1>8, <2>1 DEF DeleteRows, Goto
  <2>4. embedding' \in [Runs -> [Tables -> [Batches -> (0 .. MaxVersion) \cup {None}]]]
    BY <1>8 DEF DeleteRows, IInv, TypeOK
  <2> QED
    BY <1>8, <2>2, <2>3, <2>4, MoveInv DEF DeleteRows, IInv, TypeOK, IndexerStates
<1>9. ASSUME NEW p \in Processes, ReadContent(p) PROVE IInv'
  <2> DEFINE x == At("insert", indexer[p].job, indexer[p].run, indexer[p].table, 1,
                     Version(indexer[p].run, indexer[p].table))
  <2>1. indexer' = [indexer EXCEPT ![p] = x]
    BY <1>9 DEF ReadContent
  <2>2. x \in IndexerStates /\ x.job = indexer[p].job /\ x.run = indexer[p].run /\ x.pc = "insert"
    <3>1. indexer[p].run \in Runs /\ indexer[p].job \in Jobs \cup {None}
          /\ indexer[p].table \in Tables \cup {0}
      BY <1>a, <1>9 DEF IndexerStates, IInv, HasRun, ReadContent
    <3>2. Version(indexer[p].run, indexer[p].table) \in 0 .. MaxVersion
      BY <3>1, BoundAssumption DEF Version, IInv, TypeOK
    <3> QED
      BY <3>1, <3>2, BoundAssumption DEF At, IndexerStates, Steps, Batches
  <2>3. Allowed(p, x)
    BY <1>9, <2>2, GoOn DEF ReadContent, Working
  <2> QED
    BY <1>9, <2>1, <2>3, MoveInv DEF ReadContent, IInv, TypeOK, IndexerStates
<1>10. ASSUME NEW p \in Processes, InsertBatch(p) PROVE IInv'
  <2> DEFINE x == AfterBatch(indexer[p])
  <2>1. /\ x \in IndexerStates /\ x.pc # "claim"
        /\ x.job = indexer[p].job /\ x.run = indexer[p].run
    BY <1>a, AfterBatchType
  <2>2. Allowed(p, x)
    BY <1>10, <2>1, GoOn DEF InsertBatch, Working
  <2>3. embedding' \in [Runs -> [Tables -> [Batches -> (0 .. MaxVersion) \cup {None}]]]
    <3>1. indexer[p].seen \in 0 .. MaxVersion
      BY <1>a DEF IndexerStates
    <3> DEFINE e == embedding
               i == indexer[p]
    <3>2. embedding' = [e EXCEPT ![i.run][i.table][i.batch] = i.seen]
      BY <1>10 DEF InsertBatch
    <3>3. e \in [Runs -> [Tables -> [Batches -> (0 .. MaxVersion) \cup {None}]]]
      BY DEF IInv, TypeOK
    <3> QED
      BY <3>1, <3>2, <3>3
  <2> QED
    BY <1>10, <2>2, <2>3, MoveInv DEF InsertBatch, IInv, TypeOK, IndexerStates
<1>11. ASSUME NEW p \in Processes, CollideBatch(p) PROVE IInv'
  <2> DEFINE x == IF p \in Workers THEN [indexer[p] EXCEPT !.pc = "dead"] ELSE Idle
  <2>1. /\ x \in IndexerStates
        /\ x.pc \in {"idle", "dead"}
        /\ x.job = indexer[p].job \/ x.job = None
    <3>1. CASE p \in Workers
      <4> DEFINE y == [indexer[p] EXCEPT !.pc = "dead"]
      <4>1. y \in IndexerStates /\ y.pc = "dead" /\ y.job = indexer[p].job
        BY <1>a, PcType DEF Steps
      <4>2. x = y
        BY <3>1
      <4> QED
        BY <4>1, <4>2
    <3>2. CASE p \notin Workers
      BY <3>2, <1>a
    <3> QED
      BY <3>1, <3>2
  <2>2. indexer' = [indexer EXCEPT ![p] = x]
    BY <1>11, <2>1 DEF CollideBatch
  <2>3. Allowed(p, x)
    BY <2>1, GoOn
  <2> QED
    BY <1>11, <2>2, <2>3, MoveInv DEF CollideBatch, IInv, TypeOK, IndexerStates
<1>12. ASSUME NEW p \in Processes, FinishIndexing(p) PROVE IInv'
  <2>1. runStatus' \in [Runs -> {"loaded", "indexed"}]
    BY <1>12 DEF FinishIndexing, IInv, TypeOK
  <2>2. CASE indexer[p].job = None
    <3>1. Allowed(p, Idle)
      BY <1>a, GoOn
    <3> QED
      BY <1>12, <2>1, <2>2, <3>1, MoveInv DEF FinishIndexing, IInv, TypeOK, IndexerStates
  <2>3. CASE indexer[p].job # None
    <3>1. p \in Workers /\ Working(p)
      BY <1>12, <2>3 DEF IInv, ToolHasNoJob, FinishIndexing, Working
    <3> QED
      BY <1>12, <2>1, <2>3, <3>1, OutcomeInv DEF FinishIndexing, IInv, TypeOK, IndexerStates
  <2> QED
    BY <2>2, <2>3
<1>13. ASSUME NEW w \in Workers, FailIndexing(w) PROVE IInv'
  <2>1. Working(w) /\ crashes' \in 0 .. MaxCrashes
    BY <1>13, BoundAssumption DEF FailIndexing, Working, IInv, TypeOK
  <2> QED
    BY <1>13, <2>1, OutcomeInv DEF FailIndexing, IInv, TypeOK, IndexerStates
<1>14. ASSUME NEW p \in Processes, Crash(p) PROVE IInv'
  <2> DEFINE x == [indexer[p] EXCEPT !.pc = "dead"]
  <2>1. x \in IndexerStates /\ x.job = indexer[p].job /\ x.pc = "dead"
    BY <1>a, PcType DEF Steps
  <2>2. Allowed(p, x)
    BY <2>1, GoOn
  <2>3. indexer' = [indexer EXCEPT ![p] = x]
    BY <1>14, <2>1 DEF Crash, Goto
  <2>4. crashes' \in 0 .. MaxCrashes
    BY <1>14, BoundAssumption DEF Crash, IInv, TypeOK
  <2> QED
    BY <1>14, <2>2, <2>3, <2>4, MoveInv DEF Crash, IInv, TypeOK, IndexerStates
<1>15. ASSUME NEW w \in Workers, Restart(w) PROVE IInv'
  <2>1. Allowed(w, Idle)
    BY <1>a, GoOn
  <2> QED
    BY <1>15, <2>1, MoveInv DEF Restart, IInv, TypeOK, IndexerStates
<1>16. CASE UNCHANGED vars
  BY <1>16 DEF vars, IInv, TypeOK, WorkerOwns, Working, ClaimFound, ToolHasNoJob, UntakenIfQueued, HasRun
<1> QED
  BY <1>1, <1>2, <1>3, <1>4, <1>5, <1>6, <1>7, <1>8, <1>9, <1>10, <1>11, <1>12, <1>13,
     <1>14, <1>15, <1>16 DEF Next, Work, Index

\* The inductive invariant holds in every reachable state.
LEMMA Invariant == Spec => []IInv
<1>1. Init => IInv
  BY InitInv
<1>2. IInv /\ [Next]_vars => IInv'
  BY NextInv
<1> QED
  BY <1>1, <1>2, PTL DEF Spec

\* The jobs, embedding rows and indexers keep their types; in particular no claim,
\* outcome or retry ever writes the status of a job that was not enqueued.
THEOREM TypeCorrect == Spec => []TypeOK
BY Invariant, PTL DEF IInv

\* claim_next_index_job's conditional UPDATE suffices: however many workers have
\* selected the same queued job, one indexes for it.
THEOREM ClaimIsExclusive == Spec => []OneWorkerPerJob
<1>1. IInv => OneWorkerPerJob
  <2> SUFFICES ASSUME IInv, NEW v \in Workers, NEW w \in Workers,
                      indexer[v].pc \notin {"idle", "claim", "dead"},
                      indexer[w].pc \notin {"idle", "claim", "dead"},
                      indexer[v].job = indexer[w].job
               PROVE  v = w
    BY DEF OneWorkerPerJob
  <2>1. indexer[v].pc \in Steps /\ indexer[w].pc \in Steps
    BY DEF IInv, TypeOK, Processes
  <2>2. Working(v) /\ Working(w)
    BY <2>1 DEF Working, Steps
  <2>3. taker[indexer[v].job] = v /\ taker[indexer[w].job] = w
    BY <2>2 DEF IInv, WorkerOwns
  <2> QED
    BY <2>3
<1> QED
  BY <1>1, Invariant, PTL

-----------------------------------------------------------------------------
\* The status of the jobs as module JobLifecycle sees it.
Status == [j \in Jobs |-> IF job[j] = None THEN None ELSE job[j].status]

\* Recording the outcome of the job of worker w is the lifecycle's Finish.
LEMMA FinishRefines ==
    ASSUME IInv, NEW w \in Workers, Working(w), NEW s \in {"succeeded", "failed"},
           job' = [job EXCEPT ![indexer[w].job].status = s], UNCHANGED taker
    PROVE  Lifecycle!Next
<1>1. PICK j \in Jobs : j = indexer[w].job /\ job[j] # None /\ job[j].status = "running"
  BY DEF IInv, WorkerOwns
<1>2. job[j] \in JobRows
  BY <1>1 DEF IInv, TypeOK
<1> DEFINE y == [job[j] EXCEPT !.status = s]
<1>3. y.status = s /\ y # None
  BY <1>2, StatusType, RowIsNotNone DEF Statuses
<1>4. job' = [job EXCEPT ![j] = y]
  BY <1>1
<1> HIDE DEF y
<1>5. Status' = [Status EXCEPT ![j] = s]
  BY <1>1, <1>3, <1>4 DEF Status, IInv, TypeOK
<1>6. Lifecycle!Finish(j)
  BY <1>1, <1>5 DEF Lifecycle!Finish, Status
<1> QED
  BY <1>6 DEF Lifecycle!Next

\* A new row is the lifecycle's Enqueue.
LEMMA AddRefines ==
    ASSUME IInv, NEW r \in Runs, Add(r), UNCHANGED taker
    PROVE  Lifecycle!Next
<1> DEFINE New == [run |-> r, status |-> "queued"]
<1>1. PICK j \in Jobs : job[j] = None /\ job' = [job EXCEPT ![j] = New]
  BY AddRow
<1>2. New # None
  BY RowIsNotNone DEF JobRows, Statuses, Active
<1>3. Status' = [Status EXCEPT ![j] = "queued"]
  BY <1>1, <1>2 DEF Status, IInv, TypeOK
<1>4. Lifecycle!Enqueue(j)
  BY <1>1, <1>3 DEF Lifecycle!Enqueue, Status
<1> QED
  BY <1>4 DEF Lifecycle!Next

\* A successful claim is the lifecycle's Start.
LEMMA ClaimRefines ==
    ASSUME IInv, NEW w \in Workers, ClaimJob(w)
    PROVE  Lifecycle!Next
<1> DEFINE j == indexer[w].job
           y == [job[j] EXCEPT !.status = "running"]
<1>1. j \in Jobs /\ job[j] # None /\ job[j].status = "queued" /\ taker[j] = None
  BY DEF IInv, ClaimFound, ClaimJob, UntakenIfQueued
<1>2. job[j] \in JobRows
  BY <1>1 DEF IInv, TypeOK
<1>3. y.status = "running" /\ y # None
  BY <1>2, StatusType, RowIsNotNone DEF Statuses, Active
<1>4. job' = [job EXCEPT ![j] = y] /\ taker' = [taker EXCEPT ![j] = w]
  BY DEF ClaimJob
<1> HIDE DEF y
<1>5. Status' = [Status EXCEPT ![j] = "running"]
  BY <1>1, <1>3, <1>4 DEF Status, IInv, TypeOK
<1>6. Lifecycle!Start(j, w)
  BY <1>1, <1>4, <1>5 DEF Lifecycle!Start, Status
<1> QED
  BY <1>1, <1>6 DEF Lifecycle!Next

\* Every step that changes neither a job nor a claim is a stutter of the lifecycle;
\* the others are its Enqueue, Start and Finish.  So enqueueing, claiming and
\* recording outcomes implement the durable queue of module JobLifecycle.
THEOREM LifecycleImplemented == Spec => ImplementsLifecycle
<1>1. Init => Lifecycle!Init
  BY DEF Init, Lifecycle!Init
<1>2. IInv /\ [Next]_vars => [Lifecycle!Next]_(Lifecycle!lifecycleVars)
  <2> SUFFICES ASSUME IInv, [Next]_vars
               PROVE  [Lifecycle!Next]_(Lifecycle!lifecycleVars)
    OBVIOUS
  <2>1. ASSUME UNCHANGED <<job, taker>> PROVE UNCHANGED Lifecycle!lifecycleVars
    BY <2>1 DEF Lifecycle!lifecycleVars
  <2>2. ASSUME NEW c \in Clients, Enqueue(c) PROVE Lifecycle!Next
    BY <2>2, AddRefines DEF Enqueue, IInv, TypeOK
  <2>3. ASSUME NEW r \in Runs, Publish(r) PROVE Lifecycle!Next
    BY <2>3, AddRefines DEF Publish
  <2>4. ASSUME NEW w \in Workers, ClaimJob(w) PROVE Lifecycle!Next
    BY <2>4, ClaimRefines
  <2>5. ASSUME NEW w \in Workers, FailIndexing(w) PROVE Lifecycle!Next
    BY <2>5, FinishRefines DEF FailIndexing, Working
  <2>6. ASSUME NEW p \in Processes, FinishIndexing(p)
        PROVE  Lifecycle!Next \/ UNCHANGED <<job, taker>>
    <3>1. CASE indexer[p].job = None
      BY <2>6, <3>1 DEF FinishIndexing
    <3>2. CASE indexer[p].job # None
      <4>1. p \in Workers /\ Working(p)
        BY <2>6, <3>2 DEF IInv, ToolHasNoJob, FinishIndexing, Working, Processes
      <4> QED
        BY <2>6, <3>2, <4>1, FinishRefines DEF FinishIndexing
    <3> QED
      BY <3>1, <3>2
  <2>7. CASE UNCHANGED vars
    BY <2>1, <2>7 DEF vars
  <2>8. CASE Next
    <3>1. CASE \E c \in Clients : Enqueue(c) \/ \E r \in Runs : Lookup(c, r)
      BY <3>1, <2>1, <2>2 DEF Lookup
    <3>2. CASE \E r \in Runs : Publish(r)
      BY <3>2, <2>3
    <3>3. CASE \E w \in Workers : Work(w) \/ FailIndexing(w) \/ Restart(w)
      BY <3>3, <2>1, <2>4, <2>5, <2>6
         DEF Work, Index, SelectJob, LoseClaim, DeleteRows, ReadContent, InsertBatch,
             CollideBatch, Restart, Processes
    <3>4. CASE \E p \in Tools : Index(p) \/ \E r \in Runs : StartTool(p, r)
      BY <3>4, <2>1, <2>6
         DEF Index, StartTool, DeleteRows, ReadContent, InsertBatch, CollideBatch, Processes
    <3>5. CASE \E p \in Processes : Crash(p)
      BY <3>5, <2>1 DEF Crash
    <3> QED
      BY <2>8, <3>1, <3>2, <3>3, <3>4, <3>5 DEF Next
  <2> QED
    BY <2>7, <2>8
<1> QED
  BY <1>1, <1>2, Invariant, PTL DEF Spec, ImplementsLifecycle, Lifecycle!Spec

-----------------------------------------------------------------------------
(* The rows of an indexed run.  Several transactions rebuild them, so the invariant
   follows each table from the request to index it to its last batch: until then either
   someone has yet to delete it, or an indexer has filled it up to its own batch, or a
   failure has left a trace. *)

\* Workers alone, or one worker and one synchronous request.
Alone == Tools # {} => /\ \A v, w \in Workers : v = w
                       /\ \A p, q \in Tools : p = q

\* An indexer is at a table, and at a batch of it while it inserts.
PlaceIsKnown ==
    \A p \in Processes :
        /\ Working(p) => indexer[p].table \in Tables
        /\ indexer[p].pc = "insert" => indexer[p].batch \in Batches
        /\ indexer[p].pc = "finish" => indexer[p].table = 2

\* A worker claims a job, and indexes, for the run of the job.
RunIsOfJob ==
    \A w \in Workers :
        Working(w) \/ indexer[w].pc = "claim" => job[indexer[w].job].run = indexer[w].run

HasQueued(r) == \E j \in JobsOf(r) : job[j].status = "queued"

\* Process p is at this step of the table t of run r.
Is(p, pc, r, t) == indexer[p].pc = pc /\ indexer[p].run = r /\ indexer[p].table = t

\* Process p has table t of run r still to delete, or has deleted it.
Ahead(p, r, t) ==
    /\ Working(p) /\ indexer[p].run = r
    /\ indexer[p].table < t \/ (indexer[p].table = t /\ indexer[p].pc = "delete")
Past(p, r, t) ==
    /\ Working(p) /\ indexer[p].run = r
    /\ indexer[p].table > t \/ (indexer[p].table = t /\ indexer[p].pc # "delete")

\* Beside a synchronous request, what the worker inserts is current, or a queued job
\* will replace it.
SeenIsNew ==
    Tools # {} => \A w \in Workers : indexer[w].pc = "insert" =>
        \/ indexer[w].seen = Version(indexer[w].run, indexer[w].table)
        \/ HasQueued(indexer[w].run)

\* A failure has left a trace: a job of run r failed, or runs for good without a worker,
\* or a synchronous request for it died.
Given(j) == job[j].status = "running" /\ \A w \in Workers : ~(Working(w) /\ indexer[w].job = j)
Doomed(r) ==
    \/ \E j \in JobsOf(r) : job[j].status = "failed" \/ Given(j)
    \/ \E p \in Tools : indexer[p].pc = "dead" /\ indexer[p].run = r

\* The rows of table t of run r have been asked for.
Begun(r, t) ==
    \/ JobsOf(r) # {} \/ runStatus[r] = "indexed"
    \/ \E p \in Tools : Past(p, r, t)

\* They will all be deleted.
Pending(r, t) == HasQueued(r) \/ \E w \in Workers : Ahead(w, r, t)

\* The batches before n are current.
Filled(r, t, n) == \A b \in Batches : b < n => embedding[r][t][b] = Version(r, t)

\* From n on, the rows that somebody else has inserted are followed by current rows
\* only, or by rows that a worker has yet to insert.
Rest(r, t, n) ==
    \A b, c \in Batches : n <= b /\ b <= c /\ embedding[r][t][b] # None =>
        \/ embedding[r][t][c] = Version(r, t)
        \/ \E w \in Workers : Is(w, "insert", r, t) /\ indexer[w].batch <= c

\* The rows will be deleted, or an indexer is filling the table with current rows, or
\* the table is filled.
Filling(p, r, t) ==
    \/ Is(p, "read", r, t) /\ (p \in Tools => Rest(r, t, 1))
    \/ /\ Is(p, "insert", r, t) /\ indexer[p].seen = Version(r, t)
       /\ Filled(r, t, indexer[p].batch)
       /\ p \in Tools => Rest(r, t, indexer[p].batch)
Covered(r, t) ==
    \/ Pending(r, t)
    \/ \E p \in Processes : Filling(p, r, t)
    \/ Filled(r, t, LastBatch + 1)

TableIsCovered(r, t) == Begun(r, t) /\ ~Doomed(r) => Covered(r, t)
TablesAreCovered == \A r \in Runs, t \in Tables : TableIsCovered(r, t)

CurrentInv == IInv /\ PlaceIsKnown /\ RunIsOfJob /\ SeenIsNew /\ TablesAreCovered

-----------------------------------------------------------------------------
\* No process but p takes a step.
Moved(p) == \A q \in Processes \ {p} : indexer'[q] = indexer[q]

\* The rows of a run and its queued jobs are as before, and what p does is not about
\* filling table t: whatever covers the table still does.
LEMMA KeepsCover ==
    ASSUME NEW r \in Runs, NEW t \in Tables, NEW p \in Processes, Moved(p),
           embedding'[r][t] = embedding[r][t], content'[r] = content[r],
           HasQueued(r) => HasQueued(r)',
           ~Is(p, "read", r, t), ~Is(p, "insert", r, t),
           p \in Workers /\ Ahead(p, r, t) => Ahead(p, r, t)',
           Covered(r, t)
    PROVE  Covered(r, t)'
<1>1. Version(r, t)' = Version(r, t)
  BY DEF Version
<1>2. ASSUME NEW q \in Processes, q # p
      PROVE  /\ indexer'[q] = indexer[q]
             /\ Ahead(q, r, t)' <=> Ahead(q, r, t)
             /\ \A pc : Is(q, pc, r, t)' <=> Is(q, pc, r, t)
  BY <1>2 DEF Moved, Ahead, Working, Is
<1>3. \A n : Filled(r, t, n) => Filled(r, t, n)'
  BY <1>1 DEF Filled
<1>4. \A n : Rest(r, t, n) => Rest(r, t, n)'
  BY <1>1, <1>2 DEF Rest, Processes
<1>5. ASSUME NEW q \in Processes, Filling(q, r, t) PROVE Filling(q, r, t)'
  <2>1. q # p
    BY <1>5 DEF Filling
  <2> QED
    BY <1>5, <2>1, <1>1, <1>2, <1>3, <1>4 DEF Filling
<1>6. Pending(r, t) => Pending(r, t)'
  BY <1>2 DEF Pending, Processes
<1> QED
  BY <1>3, <1>5, <1>6 DEF Covered

\* What a step of process p does to its own place, and to nobody else's.
LEMMA SetPlace ==
    ASSUME IInv, NEW p \in Processes, NEW x, indexer' = [indexer EXCEPT ![p] = x]
    PROVE  Moved(p) /\ indexer'[p] = x
BY DEF IInv, TypeOK, Moved

LEMMA SetPc ==
    ASSUME IInv, NEW p \in Processes, NEW pc \in Steps, Goto(p, pc)
    PROVE  /\ Moved(p) /\ indexer'[p].pc = pc
           /\ indexer'[p].job = indexer[p].job /\ indexer'[p].run = indexer[p].run
           /\ indexer'[p].table = indexer[p].table
<1>1. indexer \in [Processes -> IndexerStates]
  BY DEF IInv, TypeOK, IndexerStates
<1> DEFINE x == [indexer[p] EXCEPT !.pc = pc]
<1>2. indexer' = [indexer EXCEPT ![p] = x]
  BY DEF Goto
<1>3. /\ x.pc = pc /\ x.job = indexer[p].job
      /\ x.run = indexer[p].run /\ x.table = indexer[p].table
  BY <1>1 DEF IndexerStates
<1> QED
  BY <1>2, <1>3, SetPlace

LEMMA ReadPlace ==
    ASSUME IInv, NEW p \in Processes, ReadContent(p)
    PROVE  /\ Moved(p) /\ indexer'[p].pc = "insert" /\ indexer'[p].batch = 1
           /\ indexer'[p].job = indexer[p].job /\ indexer'[p].run = indexer[p].run
           /\ indexer'[p].table = indexer[p].table
           /\ indexer'[p].seen = Version(indexer[p].run, indexer[p].table)
<1> DEFINE x == At("insert", indexer[p].job, indexer[p].run, indexer[p].table, 1,
                   Version(indexer[p].run, indexer[p].table))
<1>1. indexer' = [indexer EXCEPT ![p] = x]
  BY DEF ReadContent
<1>2. Moved(p) /\ indexer'[p] = x
  BY <1>1, SetPlace
<1> QED
  BY <1>2 DEF At

LEMMA InsertPlace ==
    ASSUME IInv, NEW p \in Processes, InsertBatch(p)
    PROVE  /\ Moved(p) /\ indexer'[p].job = indexer[p].job /\ indexer'[p].run = indexer[p].run
           /\ \/ /\ indexer'[p].pc = "insert" /\ indexer'[p].table = indexer[p].table
                 /\ indexer'[p].batch = indexer[p].batch + 1 /\ indexer'[p].seen = indexer[p].seen
                 /\ indexer[p].batch + 1 \in Batches
              \/ /\ indexer'[p].pc = "delete" /\ indexer'[p].table = indexer[p].table + 1
                 /\ indexer[p].batch + 1 \notin Batches
              \/ /\ indexer'[p].pc = "finish" /\ indexer'[p].table = indexer[p].table
                 /\ indexer[p].batch + 1 \notin Batches
                 /\ indexer[p].table + 1 \notin Tables
<1>1. Moved(p) /\ indexer'[p] = AfterBatch(indexer[p])
  BY SetPlace DEF InsertBatch
<1> QED
  BY <1>1 DEF AfterBatch, At

LEMMA IdlePlace == Idle.pc = "idle" /\ Idle.run = None /\ Idle.job = None
BY DEF Idle, At

\* A worker that is indexing after a step was indexing for the same job before it, or has
\* just claimed a queued one.
LEMMA WorkingBefore ==
    ASSUME IInv, [Next]_vars, NEW w \in Workers, Working(w)', ~ClaimJob(w)
    PROVE  Working(w) /\ indexer'[w].job = indexer[w].job
<1> USE DEF Processes
<1>1. ASSUME NEW p \in Processes, p # w, Moved(p) PROVE Working(w) /\ indexer'[w].job = indexer[w].job
  BY <1>1 DEF Moved, Working
<1>2. ASSUME UNCHANGED indexer PROVE Working(w) /\ indexer'[w].job = indexer[w].job
  BY <1>2 DEF Working
<1>3. ASSUME NEW p \in Processes, Moved(p), indexer'[p].pc \in {"idle", "dead", "claim"}
      PROVE  Working(w) /\ indexer'[w].job = indexer[w].job
  BY <1>3 DEF Moved, Working
<1>4. ASSUME NEW p \in Processes, Index(p) PROVE Working(w) /\ indexer'[w].job = indexer[w].job
  <2>1. CASE DeleteRows(p)
    BY <2>1, SetPc DEF DeleteRows, Moved, Working, Steps
  <2>2. CASE ReadContent(p)
    BY <2>2, ReadPlace DEF ReadContent, Moved, Working
  <2>3. CASE InsertBatch(p)
    BY <2>3, InsertPlace DEF InsertBatch, Moved, Working
  <2>4. CASE CollideBatch(p)
    <3>1. CASE p \in Workers
      BY <2>4, <3>1, <1>3, SetPc DEF CollideBatch, Goto, Steps
    <3>2. CASE p \notin Workers
      BY <2>4, <3>2, <1>3, SetPlace, IdlePlace DEF CollideBatch
    <3> QED
      BY <3>1, <3>2
  <2>5. CASE FinishIndexing(p)
    BY <2>5, <1>3, SetPlace, IdlePlace DEF FinishIndexing
  <2> QED
    BY <1>4, <2>1, <2>2, <2>3, <2>4, <2>5 DEF Index
<1>5. ASSUME NEW v \in Workers, SelectJob(v) PROVE Working(w) /\ indexer'[w].job = indexer[w].job
  <2>1. PICK j \in Queued : indexer' = [indexer EXCEPT ![v] = At("claim", j, job[j].run, 0, 0, 0)]
    BY <1>5 DEF SelectJob
  <2> DEFINE x == At("claim", j, job[j].run, 0, 0, 0)
  <2>2. Moved(v) /\ indexer'[v] = x
    BY <2>1, SetPlace
  <2>3. x.pc = "claim"
    BY DEF At
  <2> QED
    BY <2>2, <2>3, <1>3
<1>6. ASSUME NEW v \in Workers, ClaimJob(v) PROVE Working(w) /\ indexer'[w].job = indexer[w].job
  <2>1. Moved(v)
    BY <1>6, SetPlace DEF ClaimJob
  <2> QED
    BY <1>6, <2>1, <1>1
<1>7. ASSUME NEW v \in Workers, LoseClaim(v) \/ FailIndexing(v) \/ Restart(v)
      PROVE  Working(w) /\ indexer'[w].job = indexer[w].job
  BY <1>7, <1>3, SetPlace, IdlePlace DEF LoseClaim, FailIndexing, Restart
<1>8. ASSUME NEW p \in Tools, NEW r \in Runs, StartTool(p, r)
      PROVE  Working(w) /\ indexer'[w].job = indexer[w].job
  <2>1. Moved(p) /\ p # w
    BY <1>8, SetPlace, ProcessAssumption DEF StartTool
  <2> QED
    BY <2>1, <1>1
<1>9. ASSUME NEW p \in Processes, Crash(p) PROVE Working(w) /\ indexer'[w].job = indexer[w].job
  BY <1>9, <1>3, SetPc DEF Crash, Steps
<1> QED
  BY <1>2, <1>4, <1>5, <1>6, <1>7, <1>8, <1>9 DEF Next, Work, vars, Enqueue, Lookup, Publish

\* A job that nobody indexes for, and that is not queued, keeps its row.
LEMMA RowStays ==
    ASSUME IInv, [Next]_vars, NEW j \in Enqueued, job[j].status # "queued",
           \A w \in Workers : ~(Working(w) /\ indexer[w].job = j)
    PROVE  job'[j] = job[j]
<1> USE DEF Processes
<1>1. job[j] # None /\ j \in Jobs
  BY DEF Enqueued
<1>2. ASSUME NEW r \in Runs, Add(r) PROVE job'[j] = job[j]
  <2>1. PICK k \in Jobs : job[k] = None /\ job' = [job EXCEPT ![k] = [run |-> r, status |-> "queued"]]
    BY <1>2, AddRow
  <2> QED
    BY <2>1, <1>1
<1>3. ASSUME NEW c \in Clients, Enqueue(c) PROVE job'[j] = job[j]
  BY <1>2, <1>3 DEF Enqueue, IInv, TypeOK
<1>4. ASSUME NEW w \in Workers, ClaimJob(w) PROVE job'[j] = job[j]
  BY <1>4 DEF ClaimJob
<1>5. ASSUME NEW p \in Processes, FinishIndexing(p) PROVE job'[j] = job[j]
  <2>1. indexer[p].job # None => p \in Workers /\ Working(p)
    BY <1>5 DEF IInv, ToolHasNoJob, FinishIndexing, Working
  <2> QED
    BY <1>5, <2>1 DEF FinishIndexing
<1>6. ASSUME NEW w \in Workers, FailIndexing(w) PROVE job'[j] = job[j]
  BY <1>6 DEF FailIndexing, Working
<1> QED
  BY <1>2, <1>3, <1>4, <1>5, <1>6
     DEF Next, Work, Index, vars, Lookup, Publish, SelectJob, LoseClaim, Restart, StartTool,
         DeleteRows, ReadContent, InsertBatch, CollideBatch, Crash

\* A synchronous request that died is never heard of again.
LEMMA DeadStays ==
    ASSUME IInv, [Next]_vars, NEW p \in Tools, indexer[p].pc = "dead"
    PROVE  indexer'[p] = indexer[p]
<1> USE DEF Processes
<1>1. \A w \in Workers : w # p
  BY ProcessAssumption
<1>2. ASSUME NEW q \in Processes, q # p, Moved(q) PROVE indexer'[p] = indexer[p]
  BY <1>2 DEF Moved
<1>3. ASSUME NEW q \in Processes, Index(q) PROVE indexer'[p] = indexer[p]
  BY <1>3, <1>2, SetPc, ReadPlace, InsertPlace, SetPlace
     DEF Index, DeleteRows, ReadContent, InsertBatch, CollideBatch, FinishIndexing, Steps
<1>4. ASSUME NEW w \in Workers, SelectJob(w) PROVE indexer'[p] = indexer[p]
  BY <1>4, <1>1, <1>2, SetPlace DEF SelectJob
<1>5. ASSUME NEW w \in Workers, ClaimJob(w) \/ LoseClaim(w) \/ FailIndexing(w) \/ Restart(w)
      PROVE  indexer'[p] = indexer[p]
  BY <1>5, <1>1, <1>2, SetPlace DEF ClaimJob, LoseClaim, FailIndexing, Restart
<1>6. ASSUME NEW q \in Tools, NEW r \in Runs, StartTool(q, r) PROVE indexer'[p] = indexer[p]
  BY <1>6, <1>2, SetPlace DEF StartTool
<1>7. ASSUME NEW q \in Processes, Crash(q) PROVE indexer'[p] = indexer[p]
  BY <1>7, <1>2, SetPc DEF Crash, Steps
<1> QED
  BY <1>3, <1>4, <1>5, <1>6, <1>7 DEF Next, Work, vars, Enqueue, Lookup, Publish

\* The traces of a failure stay.
LEMMA DoomStays ==
    ASSUME IInv, [Next]_vars, NEW r \in Runs, Doomed(r)
    PROVE  Doomed(r)'
<1>1. CASE \E j \in JobsOf(r) : job[j].status = "failed" \/ Given(j)
  <2>1. PICK j \in JobsOf(r) : job[j].status = "failed" \/ Given(j)
    BY <1>1
  <2>2. j \in Enqueued /\ j \in Jobs /\ job[j] # None /\ job[j].run = r
    BY DEF JobsOf, Enqueued
  <2>3. \A w \in Workers : ~(Working(w) /\ indexer[w].job = j)
    BY <2>1 DEF Given, IInv, WorkerOwns
  <2>4. job[j].status # "queued"
    BY <2>1 DEF Given
  <2>5. job'[j] = job[j]
    BY <2>2, <2>3, <2>4, RowStays
  <2>6. j \in JobsOf(r)'
    BY <2>2, <2>5 DEF JobsOf, Enqueued
  <2>7. ASSUME NEW w \in Workers, Working(w)', indexer'[w].job = j PROVE FALSE
    <3>1. CASE ClaimJob(w)
      <4>1. indexer'[w].job = indexer[w].job
        <5>1. indexer'[w] = At("delete", indexer[w].job, indexer[w].run, 1, 0, 0)
          BY <3>1, SetPlace DEF ClaimJob, Processes
        <5> QED
          BY <5>1 DEF At
      <4> QED
        BY <2>4, <2>7, <3>1, <4>1 DEF ClaimJob
    <3>2. CASE ~ClaimJob(w)
      BY <2>3, <2>7, <3>2, WorkingBefore
    <3> QED
      BY <3>1, <3>2
  <2>8. Given(j) => Given(j)'
    BY <2>5, <2>7 DEF Given
  <2> QED
    BY <2>1, <2>5, <2>6, <2>8 DEF Doomed
<1>2. CASE \E p \in Tools : indexer[p].pc = "dead" /\ indexer[p].run = r
  BY <1>2, DeadStays DEF Doomed
<1> QED
  BY <1>1, <1>2 DEF Doomed

-----------------------------------------------------------------------------
\* A worker that stops in the middle of an indexing leaves its job running for good.
LEMMA GivenUp ==
    ASSUME IInv, RunIsOfJob, NEW w \in Workers, Working(w), Moved(w), ~Working(w)',
           UNCHANGED job, NEW r \in Runs, indexer[w].run = r
    PROVE  Doomed(r)'
<1>1. PICK j \in Jobs : indexer[w].job = j
  BY DEF IInv, WorkerOwns
<1>2. job[j] # None /\ job[j].status = "running" /\ taker[j] = w
  BY <1>1 DEF IInv, WorkerOwns
<1>3. j \in JobsOf(r)'
  BY <1>1, <1>2 DEF RunIsOfJob, JobsOf, Enqueued
<1>4. ASSUME NEW v \in Workers, Working(v)', indexer'[v].job = j PROVE FALSE
  <2>1. v # w /\ indexer'[v] = indexer[v]
    BY <1>4 DEF Moved, Processes
  <2>2. taker[j] = v
    BY <2>1, <1>4 DEF IInv, WorkerOwns, Working
  <2> QED
    BY <2>1, <2>2, <1>2
<1>5. Given(j)'
  BY <1>2, <1>4 DEF Given
<1> QED
  BY <1>3, <1>5 DEF Doomed

\* The jobs of a run, and those that are queued, when a job that is not queued changes its
\* status.
LEMMA StatusSets ==
    ASSUME IInv, NEW j \in Enqueued, NEW s \in Statuses, NEW r \in Runs,
           job' = [job EXCEPT ![j].status = s]
    PROVE  /\ JobsOf(r)' = JobsOf(r)
           /\ job[j].status # "queued" \/ job[j].run # r => (HasQueued(r) => HasQueued(r)')
<1>1. j \in Jobs /\ job[j] \in JobRows
  BY DEF Enqueued, IInv, TypeOK
<1> DEFINE y == [job[j] EXCEPT !.status = s]
<1>2. y \in JobRows /\ y.run = job[j].run /\ y # None
  BY <1>1, RowIsNotNone DEF JobRows
<1>3. job'[j] = y /\ \A k \in Jobs \ {j} : job'[k] = job[k]
  BY <1>1 DEF IInv, TypeOK
<1> HIDE DEF y
<1>4. Enqueued' = Enqueued
  BY <1>1, <1>2, <1>3, RowIsNotNone DEF Enqueued
<1>5. JobsOf(r)' = JobsOf(r)
  BY <1>1, <1>2, <1>3, <1>4 DEF JobsOf, Enqueued
<1> QED
  BY <1>1, <1>3, <1>5 DEF HasQueued, JobsOf, Enqueued

\* What was asked for before a step of one process was asked for already.
LEMMA BegunBefore ==
    ASSUME NEW r, NEW t, NEW p \in Processes, Moved(p), JobsOf(r)' = JobsOf(r),
           runStatus'[r] = "indexed" => runStatus[r] = "indexed" \/ JobsOf(r) # {}
                                        \/ (p \in Tools /\ Past(p, r, t)),
           p \in Tools /\ Past(p, r, t)' => Past(p, r, t),
           Begun(r, t)'
    PROVE  Begun(r, t)
<1>1. \A q \in Processes \ {p} : Past(q, r, t)' <=> Past(q, r, t)
  BY DEF Moved, Past, Working
<1> QED
  BY <1>1 DEF Begun, Processes

\* A batch that is inserted, seen from the process that inserts it: the table is current
\* up to the next batch, or filled.
LEMMA OwnInsert ==
    ASSUME IInv, PlaceIsKnown, NEW p \in Processes, InsertBatch(p),
           NEW r \in Runs, NEW t \in Tables, Filling(p, r, t)
    PROVE  Covered(r, t)'
<1> DEFINE b == indexer[p].batch
<1>1. /\ Is(p, "insert", r, t) /\ indexer[p].seen = Version(r, t) /\ Filled(r, t, b)
      /\ p \in Tools => Rest(r, t, b)
  BY DEF Filling, InsertBatch, Is
<1>2. b \in Batches
  BY <1>1 DEF PlaceIsKnown, Is
<1>3. /\ embedding'[r][t][b] = Version(r, t)
      /\ \A c \in Batches \ {b} : embedding'[r][t][c] = embedding[r][t][c]
  BY <1>1, <1>2 DEF InsertBatch, Is, IInv, TypeOK
<1>4. Version(r, t)' = Version(r, t)
  BY DEF InsertBatch, Version
<1>5. b + 1 \in Nat /\ \A c \in Batches : c < b + 1 => c < b \/ c = b
  BY <1>2, BoundAssumption DEF Batches
<1>6. \A c \in Batches : c < b + 1 => embedding'[r][t][c] = Version(r, t)
  BY <1>1, <1>3, <1>5 DEF Filled
<1>7. CASE b + 1 \in Batches
  <2>1. /\ Is(p, "insert", r, t)' /\ indexer'[p].batch = b + 1
        /\ indexer'[p].seen = Version(r, t)'
    BY <1>1, <1>4, <1>7, InsertPlace DEF Is
  <2>2. Filled(r, t, indexer[p].batch)'
    BY <1>4, <1>6, <2>1 DEF Filled
  <2>3. p \in Tools => Rest(r, t, indexer[p].batch)'
    <3> SUFFICES ASSUME p \in Tools, NEW c \in Batches, NEW d \in Batches, b + 1 <= c, c <= d,
                        embedding'[r][t][c] # None
                 PROVE  \/ embedding'[r][t][d] = Version(r, t)
                        \/ \E w \in Workers : Is(w, "insert", r, t)' /\ indexer'[w].batch <= d
      BY <1>4, <2>1 DEF Rest
    <3>1. c # b /\ d # b /\ b <= c
      BY <1>2, BoundAssumption DEF Batches
    <3>2. \/ embedding[r][t][d] = Version(r, t)
          \/ \E w \in Workers : Is(w, "insert", r, t) /\ indexer[w].batch <= d
      BY <1>1, <1>3, <3>1 DEF Rest
    <3>3. \A w \in Workers : indexer'[w] = indexer[w]
      BY InsertPlace, ProcessAssumption DEF Moved, Processes
    <3> QED
      BY <1>3, <3>1, <3>2, <3>3 DEF Is
  <2> QED
    BY <2>1, <2>2, <2>3 DEF Covered, Filling
<1>8. CASE b + 1 \notin Batches
  <2>1. \A c \in Batches : c < b + 1
    BY <1>2, <1>8, BoundAssumption DEF Batches
  <2>2. Filled(r, t, LastBatch + 1)'
    BY <1>4, <1>6, <2>1 DEF Filled
  <2> QED
    BY <2>2 DEF Covered
<1> QED
  BY <1>7, <1>8

\* A batch that a worker inserts keeps what a synchronous request knows of the table.
LEMMA RestKept ==
    ASSUME IInv, PlaceIsKnown, NEW p \in Workers, InsertBatch(p),
           NEW r \in Runs, NEW t \in Tables, Is(p, "insert", r, t),
           indexer[p].seen = Version(r, t), NEW n, Rest(r, t, n)
    PROVE  Rest(r, t, n)'
<1> DEFINE b == indexer[p].batch
<1>1. p \in Processes /\ b \in Batches
  BY DEF PlaceIsKnown, Is, Processes
<1>2. /\ embedding'[r][t][b] = Version(r, t)
      /\ \A c \in Batches \ {b} : embedding'[r][t][c] = embedding[r][t][c]
  BY <1>1 DEF InsertBatch, Is, IInv, TypeOK
<1>3. Version(r, t)' = Version(r, t)
  BY DEF InsertBatch, Version
<1>4. ASSUME NEW d \in Batches, b < d
      PROVE  Is(p, "insert", r, t)' /\ indexer'[p].batch <= d
  <2>1. b + 1 \in Batches /\ b + 1 <= d
    BY <1>1, <1>4, BoundAssumption DEF Batches
  <2> QED
    BY <1>1, <2>1, InsertPlace DEF Is
<1>5. \A w \in Workers \ {p} : indexer'[w] = indexer[w]
  BY <1>1, InsertPlace DEF Moved, Processes
<1> SUFFICES ASSUME NEW c \in Batches, NEW d \in Batches, n <= c, c <= d,
                    embedding'[r][t][c] # None, embedding'[r][t][d] # Version(r, t)
             PROVE  \E w \in Workers : Is(w, "insert", r, t)' /\ indexer'[w].batch <= d
  BY <1>3 DEF Rest
<1>6. d # b
  BY <1>2
<1>7. CASE c = b
  <2>1. b < d
    BY <1>6, <1>7, BoundAssumption DEF Batches
  <2> QED
    BY <1>4, <2>1
<1>8. CASE c # b
  <2>1. PICK w \in Workers : Is(w, "insert", r, t) /\ indexer[w].batch <= d
    BY <1>2, <1>6, <1>8 DEF Rest
  <2>2. CASE w # p
    BY <1>5, <2>1, <2>2 DEF Is
  <2>3. CASE w = p
    <3>1. b < d
      BY <1>1, <1>6, <2>1, <2>3, BoundAssumption DEF Batches
    <3> QED
      BY <1>4, <3>1
  <2> QED
    BY <2>2, <2>3
<1> QED
  BY <1>7, <1>8

\* A batch that somebody else inserts was missing, and the rows before the filling
\* process are not.
LEMMA OthersInsert ==
    ASSUME IInv, PlaceIsKnown, SeenIsNew, Alone, NEW p \in Processes, InsertBatch(p),
           NEW r \in Runs, NEW t \in Tables, Is(p, "insert", r, t), ~HasQueued(r),
           NEW q \in Processes \ {p}, Filling(q, r, t)
    PROVE  Filling(q, r, t)'
<1> DEFINE b == indexer[p].batch
<1>1. b \in Batches /\ embedding[r][t][b] = None
  BY DEF PlaceIsKnown, Is, InsertBatch, Collides
<1>2. \A c \in Batches \ {b} : embedding'[r][t][c] = embedding[r][t][c]
  BY <1>1 DEF InsertBatch, Is, IInv, TypeOK
<1>3. Version(r, t)' = Version(r, t) /\ Version(r, t) # None
  BY IdAssumption, BoundAssumption DEF InsertBatch, Version, IInv, TypeOK
<1>4. indexer'[q] = indexer[q]
  BY InsertPlace DEF Moved
<1>5. \A n : Filled(r, t, n) => Filled(r, t, n)'
  BY <1>1, <1>2, <1>3 DEF Filled
<1>6. ASSUME q \in Tools, NEW n, Rest(r, t, n) PROVE Rest(r, t, n)'
  <2>1. p \in Workers
    BY <1>6 DEF Alone, Processes
  <2>2. indexer[p].seen = Version(r, t)
    BY <1>6, <2>1 DEF SeenIsNew, Is
  <2> QED
    BY <1>6, <2>1, <2>2, RestKept
<1> QED
  BY <1>3, <1>4, <1>5, <1>6 DEF Filling, Is

\* So the insertion of a batch leaves every table covered.
LEMMA InsertCovers ==
    ASSUME IInv, PlaceIsKnown, SeenIsNew, Alone, NEW p \in Processes, InsertBatch(p),
           NEW r \in Runs, NEW t \in Tables, Covered(r, t)
    PROVE  Covered(r, t)'
<1>1. /\ indexer[p].pc = "insert" /\ indexer[p].run \in Runs /\ indexer[p].table \in Tables
      /\ indexer[p].batch \in Batches
  BY DEF InsertBatch, PlaceIsKnown, Working, IInv, HasRun
<1>2. HasQueued(r) => HasQueued(r)'
  BY DEF InsertBatch, HasQueued, JobsOf, Enqueued
<1>3. ASSUME NEW w \in Workers, Ahead(w, r, t) PROVE Ahead(w, r, t)'
  <2>1. CASE w # p
    BY <1>3, <2>1, InsertPlace DEF Moved, Ahead, Working, Processes
  <2>2. CASE w = p
    <3>1. indexer[p].run = r /\ indexer[p].table = 1 /\ t = 2
      BY <1>1, <1>3, <2>2 DEF Ahead, Tables
    <3> QED
      BY <1>1, <2>2, <3>1, InsertPlace DEF Ahead, Working, Tables
  <2> QED
    BY <2>1, <2>2
<1>4. CASE ~Is(p, "insert", r, t)
  <2>1. embedding'[r][t] = embedding[r][t]
    BY <1>1, <1>4 DEF InsertBatch, Is, IInv, TypeOK
  <2>2. ~Is(p, "read", r, t) /\ Moved(p) /\ content' = content
    BY <1>1, InsertPlace DEF Is, InsertBatch
  <2> QED
    BY <1>2, <1>3, <1>4, <2>1, <2>2, KeepsCover
<1>5. CASE Is(p, "insert", r, t)
  <2>1. CASE Pending(r, t)
    BY <1>2, <1>3, <2>1 DEF Pending, Covered
  <2>2. CASE \E q \in Processes : Filling(q, r, t)
    <3>1. PICK q \in Processes : Filling(q, r, t)
      BY <2>2
    <3>2. CASE q = p
      BY <3>1, <3>2, OwnInsert
    <3>3. CASE q # p /\ ~HasQueued(r)
      BY <1>5, <3>1, <3>3, OthersInsert DEF Covered
    <3>4. CASE HasQueued(r)
      BY <1>2, <3>4 DEF Covered, Pending
    <3> QED
      BY <3>2, <3>3, <3>4
  <2>3. CASE Filled(r, t, LastBatch + 1)
    <3>1. embedding[r][t][indexer[p].batch] = None
      BY <1>5 DEF InsertBatch, Collides, Is
    <3>2. embedding[r][t][indexer[p].batch] = Version(r, t)
      BY <1>1, <2>3, BoundAssumption DEF Filled, Batches
    <3>3. Version(r, t) # None
      BY IdAssumption, BoundAssumption DEF Version, IInv, TypeOK
    <3> QED
      BY <3>1, <3>2, <3>3
  <2> QED
    BY <2>1, <2>2, <2>3 DEF Covered
<1> QED
  BY <1>4, <1>5

\* A synchronous request whose insertion breaks the key leaves the table to the worker
\* that inserted the row, which has filled it up to its own batch.
LEMMA CollisionCovers ==
    ASSUME IInv, PlaceIsKnown, SeenIsNew, Alone, NEW p \in Tools, CollideBatch(p),
           NEW r \in Runs, NEW t \in Tables, Filling(p, r, t)
    PROVE  Covered(r, t)'
<1> DEFINE b == indexer[p].batch
           V == Version(r, t)
           e == embedding[r][t]
<1>1. /\ Is(p, "insert", r, t) /\ Filled(r, t, b) /\ Rest(r, t, b)
      /\ b \in Batches /\ e[b] # None
  BY DEF Filling, CollideBatch, Collides, Is, PlaceIsKnown, Processes
<1>2. Version(r, t)' = V /\ embedding' = embedding
  BY DEF CollideBatch, Version
<1>3. \A w \in Workers : indexer'[w] = indexer[w]
  BY SetPlace, SetPc, ProcessAssumption DEF CollideBatch, Moved, Processes, Goto, Steps
<1>4. CASE \A c \in Batches : b <= c => e[c] = V
  <2>1. ASSUME NEW c \in Batches PROVE e[c] = V
    <3>1. c < b \/ b <= c
      BY <1>1, BoundAssumption DEF Batches
    <3> QED
      BY <1>1, <1>4, <3>1 DEF Filled
  <2>2. Filled(r, t, LastBatch + 1)'
    BY <1>2, <2>1 DEF Filled
  <2> QED
    BY <2>2 DEF Covered
<1>5. CASE \E c \in Batches : b <= c /\ e[c] # V
  <2>1. PICK c \in Batches : b <= c /\ e[c] # V
    BY <1>5
  <2>2. PICK w \in Workers : Is(w, "insert", r, t) /\ indexer[w].batch <= c
    BY <1>1, <2>1, BoundAssumption DEF Rest, Batches
  <2>3. indexer[w].batch \in Batches
    BY <2>2 DEF PlaceIsKnown, Is, Processes
  <2>4. ASSUME NEW d \in Batches, d < indexer[w].batch PROVE e[d] = V
    <3>1. CASE d < b
      BY <1>1, <3>1 DEF Filled
    <3>2. CASE b <= d
      <4>1. e[d] = V \/ \E v \in Workers : indexer[v].batch <= d
        BY <1>1, <3>2, BoundAssumption DEF Rest, Batches
      <4>2. \A v \in Workers : v = w
        BY DEF Alone
      <4> QED
        BY <2>3, <2>4, <4>1, <4>2, BoundAssumption DEF Batches
    <3> QED
      BY <1>1, <3>1, <3>2, BoundAssumption DEF Batches
  <2>5. CASE HasQueued(r)
    <3>1. HasQueued(r)'
      BY <2>5 DEF CollideBatch, HasQueued, JobsOf, Enqueued
    <3> QED
      BY <3>1 DEF Covered, Pending
  <2>6. CASE indexer[w].seen = V
    <3>1. w \notin Tools /\ w \in Processes
      BY ProcessAssumption DEF Processes
    <3>2. Filling(w, r, t)'
      BY <1>2, <1>3, <2>2, <2>4, <2>6, <3>1 DEF Filling, Is, Filled
    <3> QED
      BY <3>1, <3>2 DEF Covered
  <2>7. indexer[w].seen = V \/ HasQueued(r)
    BY <2>2 DEF SeenIsNew, Is
  <2> QED
    BY <2>5, <2>6, <2>7
<1> QED
  BY <1>4, <1>5

\* The worker of a job that is in a place, or claims, does so for an enqueued job of its run.
LEMMA WorkerRun ==
    ASSUME IInv, RunIsOfJob, NEW w \in Workers, Working(w) \/ indexer[w].pc = "claim"
    PROVE  /\ indexer[w].job \in JobsOf(indexer[w].run) /\ indexer[w].run \in Runs
           /\ indexer[w].job \in Enqueued
           /\ Working(w) => job[indexer[w].job].status = "running"
BY DEF IInv, WorkerOwns, ClaimFound, HasRun, RunIsOfJob, JobsOf, Enqueued, Working, Processes

\* A job that is added covers every table of its run, and is nothing to other runs.
LEMMA AddCovers ==
    ASSUME IInv, NEW r0 \in Runs, Add(r0), UNCHANGED <<indexer, embedding, runStatus>>,
           NEW r \in Runs, NEW t \in Tables, content'[r] = content[r] \/ r = r0,
           Begun(r, t) => Covered(r, t), Begun(r, t)'
    PROVE  Covered(r, t)'
<1> DEFINE New == [run |-> r0, status |-> "queued"]
<1>1. PICK j \in Jobs : job[j] = None /\ job' = [job EXCEPT ![j] = New]
  BY AddRow
<1>2. New # None /\ New.run = r0 /\ New.status = "queued"
  BY RowIsNotNone DEF JobRows, Statuses, Active
<1>3. job'[j] = New /\ \A k \in Jobs \ {j} : job'[k] = job[k]
  BY <1>1 DEF IInv, TypeOK
<1> HIDE DEF New
<1>4. CASE r = r0
  <2>1. j \in JobsOf(r)'
    BY <1>2, <1>3, <1>4 DEF JobsOf, Enqueued
  <2>2. HasQueued(r)'
    BY <1>2, <1>3, <2>1 DEF HasQueued
  <2> QED
    BY <2>2 DEF Covered, Pending
<1>5. CASE r # r0
  <2>1. JobsOf(r)' = JobsOf(r)
    BY <1>1, <1>2, <1>3, <1>5 DEF JobsOf, Enqueued
  <2>2. HasQueued(r)' <=> HasQueued(r)
    BY <1>1, <1>3, <2>1 DEF HasQueued, JobsOf, Enqueued
  <2>3. Version(r, t)' = Version(r, t)
    BY <1>5 DEF Version
  <2>4. Begun(r, t)
    BY <2>1 DEF Begun, Past, Working
  <2>5. \A n : Rest(r, t, n)' <=> Rest(r, t, n)
    BY <2>3 DEF Rest, Is
  <2>6. \A n : Filled(r, t, n)' <=> Filled(r, t, n)
    BY <2>3 DEF Filled
  <2>7. \A p \in Processes : Filling(p, r, t)' <=> Filling(p, r, t)
    BY <2>3, <2>5, <2>6 DEF Filling, Is
  <2>8. Pending(r, t)' <=> Pending(r, t)
    BY <2>2 DEF Pending, Ahead, Working
  <2> QED
    BY <2>4, <2>6, <2>7, <2>8 DEF Covered
<1> QED
  BY <1>4, <1>5

\* A step of one process that only moves it, into or out of a place where it rebuilds no
\* rows, covers what was covered.
LEMMA QuietCovers ==
    ASSUME NEW r \in Runs, NEW t \in Tables, NEW p \in Processes, Moved(p),
           UNCHANGED <<embedding, content, runStatus>>, JobsOf(r)' = JobsOf(r),
           HasQueued(r) => HasQueued(r)', indexer[p].run # r \/ ~Working(p),
           ~Past(p, r, t)', Begun(r, t) => Covered(r, t), Begun(r, t)'
    PROVE  Covered(r, t)'
<1>1. ~Is(p, "read", r, t) /\ ~Is(p, "insert", r, t) /\ ~Ahead(p, r, t)
  BY DEF Is, Ahead, Working
<1>2. Begun(r, t)
  BY BegunBefore
<1> QED
  BY <1>1, <1>2, KeepsCover

\* Every step leaves every table that was asked for covered, or a trace of a failure.
LEMMA CoverStep ==
    ASSUME CurrentInv, Alone, [Next]_vars, NEW r \in Runs, NEW t \in Tables,
           Begun(r, t)', ~Doomed(r)'
    PROVE  Covered(r, t)'
<1> USE DEF Processes
<1>a. IInv /\ PlaceIsKnown /\ RunIsOfJob /\ SeenIsNew
  BY DEF CurrentInv
<1>b. Begun(r, t) => Covered(r, t)
  BY DoomStays, <1>a DEF CurrentInv, TablesAreCovered, TableIsCovered
<1>c. ASSUME UNCHANGED job PROVE JobsOf(r)' = JobsOf(r) /\ (HasQueued(r)' <=> HasQueued(r))
  BY <1>c DEF JobsOf, HasQueued, Enqueued
<1>1. ASSUME NEW c \in Clients, Enqueue(c) PROVE Covered(r, t)'
  BY <1>1, <1>a, <1>b, AddCovers DEF Enqueue, IInv, TypeOK
<1>2. ASSUME NEW c \in Clients, NEW r0 \in Runs, Lookup(c, r0) PROVE Covered(r, t)'
  BY <1>2, <1>b DEF Lookup, Begun, Past, Working, JobsOf, Enqueued, Covered, Pending, HasQueued,
     Ahead, Filling, Is, Filled, Rest, Version
<1>3. ASSUME NEW r0 \in Runs, Publish(r0) PROVE Covered(r, t)'
  <2>1. content'[r] = content[r] \/ r = r0
    BY <1>3, <1>a DEF Publish, IInv, TypeOK
  <2> QED
    BY <1>3, <2>1, <1>a, <1>b, AddCovers DEF Publish
<1>4. ASSUME NEW w \in Workers, SelectJob(w) PROVE Covered(r, t)'
  <2>1. PICK j \in Queued : indexer' = [indexer EXCEPT ![w] = At("claim", j, job[j].run, 0, 0, 0)]
    BY <1>4 DEF SelectJob
  <2> DEFINE x == At("claim", j, job[j].run, 0, 0, 0)
  <2>2. Moved(w) /\ indexer'[w] = x
    BY <2>1, <1>a, SetPlace
  <2>3. x.pc = "claim"
    BY DEF At
  <2>4. ~Working(w) /\ ~Past(w, r, t)'
    BY <1>4, <2>2, <2>3 DEF SelectJob, Working, Past
  <2> QED
    BY <1>4, <2>2, <2>4, <1>b, <1>c, QuietCovers DEF SelectJob
<1>5. ASSUME NEW w \in Workers, ClaimJob(w) PROVE Covered(r, t)'
  <2> DEFINE x == At("delete", indexer[w].job, indexer[w].run, 1, 0, 0)
  <2>1. Moved(w) /\ indexer'[w] = x
    BY <1>5, <1>a, SetPlace DEF ClaimJob
  <2>2. x.pc = "delete" /\ x.run = indexer[w].run /\ x.table = 1
    BY DEF At
  <2>3. CASE indexer[w].run = r
    <3>1. Ahead(w, r, t)'
      BY <2>1, <2>2, <2>3 DEF Ahead, Working, Tables
    <3> QED
      BY <3>1 DEF Covered, Pending
  <2>4. CASE indexer[w].run # r
    <3>1. indexer[w].job \in Enqueued /\ job[indexer[w].job].run = indexer[w].run
      BY <1>5, <1>a, WorkerRun DEF ClaimJob, RunIsOfJob
    <3>2. JobsOf(r)' = JobsOf(r) /\ (HasQueued(r) => HasQueued(r)')
      BY <1>5, <1>a, <3>1, <2>4, StatusSets DEF ClaimJob, Statuses, Active
    <3>3. ~Past(w, r, t)'
      BY <2>1, <2>2, <2>4 DEF Past
    <3> QED
      BY <1>5, <2>1, <2>4, <3>2, <3>3, <1>b, QuietCovers DEF ClaimJob
  <2> QED
    BY <2>3, <2>4
<1>6. ASSUME NEW w \in Workers, LoseClaim(w) \/ Restart(w) PROVE Covered(r, t)'
  <2>1. Moved(w) /\ indexer'[w].pc = "idle"
    BY <1>6, <1>a, SetPlace, IdlePlace DEF LoseClaim, Restart
  <2>2. ~Working(w) /\ ~Past(w, r, t)'
    BY <1>6, <2>1 DEF LoseClaim, Restart, Working, Past
  <2> QED
    BY <1>6, <2>1, <2>2, <1>b, <1>c, QuietCovers DEF LoseClaim, Restart
<1>7. ASSUME NEW p \in Tools, NEW r0 \in Runs, StartTool(p, r0) PROVE Covered(r, t)'
  <2> DEFINE x == At("delete", None, r0, 1, 0, 0)
  <2>1. Moved(p) /\ indexer'[p] = x
    BY <1>7, <1>a, SetPlace DEF StartTool
  <2>2. x.pc = "delete" /\ x.table = 1
    BY DEF At
  <2>3. ~Working(p) /\ ~Past(p, r, t)'
    BY <1>7, <2>1, <2>2 DEF StartTool, Working, Past, Tables
  <2> QED
    BY <1>7, <2>1, <2>3, <1>b, <1>c, QuietCovers DEF StartTool
<1>8. ASSUME NEW p \in Processes, DeleteRows(p) PROVE Covered(r, t)'
  <2>1. /\ Moved(p) /\ indexer'[p].pc = "read" /\ indexer'[p].run = indexer[p].run
        /\ indexer'[p].table = indexer[p].table
    BY <1>8, <1>a, SetPc DEF DeleteRows, Steps
  <2>2. indexer[p].run \in Runs /\ indexer[p].table \in Tables /\ indexer[p].pc = "delete"
    BY <1>8, <1>a DEF DeleteRows, PlaceIsKnown, Working, IInv, HasRun
  <2>3. CASE indexer[p].run = r /\ indexer[p].table = t
    <3>1. \A b \in Batches : embedding'[r][t][b] = None
      BY <1>8, <1>a, <2>3 DEF DeleteRows, IInv, TypeOK
    <3>2. Rest(r, t, 1)'
      BY <3>1 DEF Rest
    <3>3. Filling(p, r, t)'
      BY <2>1, <2>3, <3>2 DEF Filling, Is
    <3> QED
      BY <3>3 DEF Covered
  <2>4. CASE ~(indexer[p].run = r /\ indexer[p].table = t)
    <3>1. embedding'[r][t] = embedding[r][t] /\ content' = content /\ runStatus' = runStatus
      BY <1>8, <1>a, <2>2, <2>4 DEF DeleteRows, IInv, TypeOK
    <3>2. ~Is(p, "read", r, t) /\ ~Is(p, "insert", r, t)
      BY <2>4 DEF Is
    <3>3. Ahead(p, r, t) => Ahead(p, r, t)'
      BY <2>1, <2>4 DEF Ahead, Working
    <3>4. Past(p, r, t)' => Past(p, r, t)
      BY <2>1, <2>2, <2>4 DEF Past, Working
    <3>5. JobsOf(r)' = JobsOf(r) /\ (HasQueued(r) => HasQueued(r)')
      BY <1>8, <1>c DEF DeleteRows
    <3>6. Begun(r, t)
      BY <2>1, <3>1, <3>4, <3>5, BegunBefore
    <3> QED
      BY <1>b, <2>1, <3>1, <3>2, <3>3, <3>5, <3>6, KeepsCover
  <2> QED
    BY <2>3, <2>4
<1>9. ASSUME NEW p \in Processes, ReadContent(p) PROVE Covered(r, t)'
  <2>1. /\ Moved(p) /\ indexer'[p].pc = "insert" /\ indexer'[p].run = indexer[p].run
        /\ indexer'[p].table = indexer[p].table /\ indexer'[p].batch = 1
        /\ indexer'[p].seen = Version(indexer[p].run, indexer[p].table)
    BY <1>9, <1>a, ReadPlace
  <2>2. indexer[p].pc = "read" /\ UNCHANGED <<job, content, embedding, runStatus>>
    BY <1>9 DEF ReadContent
  <2>3. Begun(r, t)
    BY <2>1, <2>2, <1>c, BegunBefore DEF Past, Working
  <2>4. Version(r, t)' = Version(r, t)
    BY <2>2 DEF Version
  <2>5. ASSUME NEW n, Rest(r, t, n) PROVE Rest(r, t, n)'
    <3>1. \A w \in Workers : Is(w, "insert", r, t) => w # p /\ indexer'[w] = indexer[w]
      BY <2>1, <2>2 DEF Is, Moved
    <3> QED
      BY <2>2, <2>4, <2>5, <3>1 DEF Rest, Is
  <2>6. \A n : Filled(r, t, n) => Filled(r, t, n)'
    BY <2>2, <2>4 DEF Filled
  <2>7. ASSUME NEW q \in Processes, Filling(q, r, t) PROVE Filling(q, r, t)'
    <3>1. CASE q = p
      <4>1. Is(p, "read", r, t) /\ (p \in Tools => Rest(r, t, 1)')
        BY <2>2, <2>5, <2>7, <3>1 DEF Filling, Is
      <4>2. Is(p, "insert", r, t)' /\ indexer'[p].seen = Version(r, t)'
        BY <2>1, <2>4, <4>1 DEF Is
      <4>3. Filled(r, t, 1)'
        BY BoundAssumption DEF Filled, Batches
      <4> QED
        BY <2>1, <3>1, <4>1, <4>2, <4>3 DEF Filling
    <3>2. CASE q # p
      <4>1. indexer'[q] = indexer[q]
        BY <2>1, <3>2 DEF Moved
      <4> QED
        BY <2>4, <2>5, <2>6, <2>7, <4>1 DEF Filling, Is
    <3> QED
      BY <3>1, <3>2
  <2>8. Pending(r, t) => Pending(r, t)'
    <3>1. \A w \in Workers : Ahead(w, r, t) => Ahead(w, r, t)'
      BY <2>1, <2>2 DEF Ahead, Working, Moved
    <3> QED
      BY <2>2, <3>1, <1>c DEF Pending
  <2> QED
    BY <1>b, <2>3, <2>6, <2>7, <2>8 DEF Covered
<1>10. ASSUME NEW p \in Processes, InsertBatch(p) PROVE Covered(r, t)'
  <2>1. JobsOf(r)' = JobsOf(r) /\ runStatus' = runStatus
    BY <1>10, <1>c DEF InsertBatch
  <2>2. indexer[p].pc = "insert" /\ indexer[p].table \in Tables
    BY <1>10, <1>a DEF InsertBatch, PlaceIsKnown, Working
  <2>3. Past(p, r, t)' => Past(p, r, t)
    BY <1>10, <1>a, <2>2, InsertPlace DEF Past, Working, Tables
  <2>4. Begun(r, t)
    BY <1>10, <1>a, <2>1, <2>3, InsertPlace, BegunBefore
  <2> QED
    BY <1>10, <1>a, <1>b, <2>4, InsertCovers
<1>11. ASSUME NEW p \in Processes, CollideBatch(p) PROVE Covered(r, t)'
  <2>1. UNCHANGED <<job, content, embedding, runStatus>> /\ indexer[p].pc = "insert"
    BY <1>11 DEF CollideBatch
  <2>2. Moved(p) /\ indexer'[p].pc \in {"idle", "dead"}
    <3>1. CASE p \in Workers
      BY <1>11, <1>a, <3>1, SetPc DEF CollideBatch, Goto, Steps
    <3>2. CASE p \notin Workers
      BY <1>11, <1>a, <3>2, SetPlace, IdlePlace DEF CollideBatch
    <3> QED
      BY <3>1, <3>2
  <2>3. ~Past(p, r, t)' /\ ~Working(p)' /\ Working(p)
    BY <2>1, <2>2 DEF Past, Working
  <2>4. CASE indexer[p].run # r
    BY <1>b, <1>c, <2>1, <2>2, <2>3, <2>4, QuietCovers
  <2>5. CASE indexer[p].run = r /\ p \in Workers
    BY <1>a, <2>1, <2>2, <2>3, <2>5, GivenUp
  <2>6. CASE indexer[p].run = r /\ p \in Tools
    <3>1. Begun(r, t)
      BY <1>c, <2>1, <2>2, <2>3, BegunBefore
    <3>2. CASE Is(p, "insert", r, t) /\ Filling(p, r, t)
      BY <1>11, <1>a, <2>6, <3>2, CollisionCovers
    <3>3. CASE ~(Is(p, "insert", r, t) /\ Filling(p, r, t))
      <4>1. ~Filling(p, r, t)
        BY <2>1, <3>3 DEF Filling, Is
      <4>2. \A w \in Workers : w # p
        BY <2>6, ProcessAssumption
      <4>3. ASSUME NEW q \in Processes, q # p
            PROVE  /\ indexer'[q] = indexer[q]
                   /\ \A pc : Is(q, pc, r, t)' <=> Is(q, pc, r, t)
                   /\ Ahead(q, r, t)' <=> Ahead(q, r, t)
        BY <2>2, <4>3 DEF Moved, Is, Ahead, Working
      <4>4. Version(r, t)' = Version(r, t)
        BY <2>1 DEF Version
      <4>5. \A n : Filled(r, t, n) => Filled(r, t, n)'
        BY <2>1, <4>4 DEF Filled
      <4>6. \A n : Rest(r, t, n) => Rest(r, t, n)'
        BY <2>1, <4>2, <4>3, <4>4 DEF Rest
      <4>7. \A q \in Processes : Filling(q, r, t) => Filling(q, r, t)'
        BY <4>1, <4>3, <4>4, <4>5, <4>6 DEF Filling
      <4>8. Pending(r, t) => Pending(r, t)'
        BY <1>c, <2>1, <4>2, <4>3 DEF Pending
      <4> QED
        BY <1>b, <3>1, <4>5, <4>7, <4>8 DEF Covered
    <3> QED
      BY <3>2, <3>3
  <2> QED
    BY <2>4, <2>5, <2>6
<1>12. ASSUME NEW p \in Processes, FinishIndexing(p) PROVE Covered(r, t)'
  <2>1. /\ indexer[p].pc = "finish" /\ indexer[p].table = 2 /\ Working(p)
        /\ UNCHANGED <<embedding, content>>
    BY <1>12, <1>a DEF FinishIndexing, PlaceIsKnown, Working
  <2>2. Moved(p) /\ indexer'[p].pc = "idle"
    BY <1>12, <1>a, SetPlace, IdlePlace DEF FinishIndexing
  <2>3. JobsOf(r)' = JobsOf(r) /\ (HasQueued(r) => HasQueued(r)')
    <3>1. CASE indexer[p].job = None
      BY <1>12, <1>c, <3>1 DEF FinishIndexing
    <3>2. CASE indexer[p].job # None
      <4>1. p \in Workers
        BY <1>a, <3>2 DEF IInv, ToolHasNoJob
      <4>2. indexer[p].job \in Enqueued /\ job[indexer[p].job].status = "running"
        BY <1>a, <2>1, <4>1, WorkerRun
      <4> QED
        BY <1>12, <1>a, <3>2, <4>2, StatusSets DEF FinishIndexing, Statuses, Active
    <3> QED
      BY <3>1, <3>2
  <2>4. \/ runStatus'[r] = runStatus[r]
        \/ indexer[p].run = r
    BY <1>12, <1>a DEF FinishIndexing, IInv, TypeOK
  <2>5. indexer[p].run = r => JobsOf(r) # {} \/ (p \in Tools /\ Past(p, r, t))
    <3>1. p \in Workers /\ indexer[p].run = r => indexer[p].job \in JobsOf(r)
      BY <1>a, <2>1, WorkerRun
    <3>2. indexer[p].run = r => Past(p, r, t)
      BY <2>1 DEF Past, Tables
    <3> QED
      BY <3>1, <3>2
  <2>6. ~Past(p, r, t)' /\ ~Is(p, "read", r, t) /\ ~Is(p, "insert", r, t) /\ ~Ahead(p, r, t)
    BY <2>1, <2>2 DEF Past, Is, Ahead, Working, Tables
  <2>7. Begun(r, t)
    BY <2>2, <2>3, <2>4, <2>5, <2>6, BegunBefore
  <2> QED
    BY <1>b, <2>1, <2>2, <2>3, <2>6, <2>7, KeepsCover
<1>13. ASSUME NEW w \in Workers, FailIndexing(w) PROVE Covered(r, t)'
  <2>1. Working(w) /\ indexer[w].job \in Enqueued /\ indexer[w].job \in JobsOf(indexer[w].run)
        /\ job[indexer[w].job].status = "running"
    BY <1>13, <1>a, WorkerRun DEF FailIndexing, Working
  <2>2. JobsOf(r)' = JobsOf(r) /\ (HasQueued(r) => HasQueued(r)')
    BY <1>13, <1>a, <2>1, StatusSets DEF FailIndexing, Statuses
  <2>3. Moved(w) /\ indexer'[w].pc = "idle"
    BY <1>13, <1>a, SetPlace, IdlePlace DEF FailIndexing
  <2>4. CASE indexer[w].run # r
    <3>1. ~Past(w, r, t)'
      BY <2>3 DEF Past, Working
    <3> QED
      BY <1>13, <1>b, <2>2, <2>3, <2>4, <3>1, QuietCovers DEF FailIndexing
  <2>5. CASE indexer[w].run = r
    <3>1. PICK j \in JobsOf(r) : j = indexer[w].job
      BY <2>1, <2>5
    <3>2. j \in Jobs /\ job[j] \in JobRows
      BY <1>a DEF JobsOf, Enqueued, IInv, TypeOK
    <3>3. job'[j] = [job[j] EXCEPT !.status = "failed"]
      BY <1>13, <1>a, <3>1, <3>2 DEF FailIndexing, IInv, TypeOK
    <3>4. job'[j].status = "failed"
      BY <3>2, <3>3 DEF JobRows
    <3> QED
      BY <2>2, <3>1, <3>4 DEF Doomed
  <2> QED
    BY <2>4, <2>5
<1>14. ASSUME NEW p \in Processes, Crash(p) PROVE Covered(r, t)'
  <2>1. /\ Moved(p) /\ indexer'[p].pc = "dead" /\ indexer'[p].run = indexer[p].run
        /\ UNCHANGED <<job, content, embedding, runStatus>>
    BY <1>14, <1>a, SetPc DEF Crash, Steps
  <2>2. ~Past(p, r, t)' /\ ~Working(p)'
    BY <2>1 DEF Past, Working
  <2>3. CASE indexer[p].run # r \/ ~Working(p)
    BY <1>b, <1>c, <2>1, <2>2, <2>3, QuietCovers
  <2>4. CASE indexer[p].run = r /\ Working(p) /\ p \in Workers
    BY <1>a, <2>1, <2>2, <2>4, GivenUp
  <2>5. CASE indexer[p].run = r /\ p \in Tools
    BY <2>1, <2>5 DEF Doomed
  <2> QED
    BY <2>3, <2>4, <2>5
<1>15. CASE UNCHANGED vars
  BY <1>15, <1>b DEF vars, Begun, Past, Working, JobsOf, Enqueued, Covered, Pending, HasQueued,
     Ahead, Filling, Is, Filled, Rest, Version
<1> QED
  BY <1>1, <1>2, <1>3, <1>4, <1>5, <1>6, <1>7, <1>8, <1>9, <1>10, <1>11, <1>12, <1>13,
     <1>14, <1>15 DEF Next, Work, Index

\* A job belongs to its run for good, and is queued until a worker claims it.
LEMMA RunStays ==
    ASSUME IInv, [Next]_vars, NEW j \in Enqueued
    PROVE  /\ j \in Enqueued' /\ job'[j].run = job[j].run
           /\ job[j].status = "queued" /\ job'[j].status # "queued" =>
                 \E w \in Workers : ClaimJob(w)
<1> USE DEF Processes
<1> DEFINE Kept == /\ j \in Enqueued' /\ job'[j].run = job[j].run
                   /\ job[j].status = "queued" /\ job'[j].status # "queued" =>
                         \E w \in Workers : ClaimJob(w)
<1>1. j \in Jobs /\ job[j] # None /\ job[j] \in JobRows
  BY DEF Enqueued, IInv, TypeOK
<1>2. ASSUME job'[j] = job[j] PROVE Kept
  BY <1>1, <1>2 DEF Enqueued
<1>3. ASSUME NEW r \in Runs, Add(r) PROVE Kept
  <2>1. PICK k \in Jobs : job[k] = None /\ job' = [job EXCEPT ![k] = [run |-> r, status |-> "queued"]]
    BY <1>3, AddRow
  <2> QED
    BY <2>1, <1>1, <1>2
<1>4. ASSUME NEW k \in Enqueued, NEW s \in Statuses, job' = [job EXCEPT ![k].status = s],
             job[k].status = "queued" => \E w \in Workers : ClaimJob(w)
      PROVE  Kept
  <2>1. CASE k # j
    BY <1>2, <1>4, <2>1
  <2>2. CASE k = j
    <3> DEFINE y == [job[j] EXCEPT !.status = s]
    <3>1. y \in JobRows /\ y.run = job[j].run /\ y # None
      BY <1>1, RowIsNotNone DEF JobRows
    <3>2. job'[j] = y
      BY <1>1, <1>4, <2>2 DEF IInv, TypeOK
    <3> HIDE DEF y
    <3> QED
      BY <1>1, <1>4, <2>2, <3>1, <3>2 DEF Enqueued
  <2> QED
    BY <2>1, <2>2
<1> HIDE DEF Kept
<1>5. ASSUME NEW c \in Clients, Enqueue(c) PROVE Kept
  BY <1>3, <1>5 DEF Enqueue, IInv, TypeOK
<1>6. ASSUME NEW r \in Runs, Publish(r) PROVE Kept
  BY <1>3, <1>6 DEF Publish
<1>7. ASSUME NEW w \in Workers, ClaimJob(w) PROVE Kept
  <2>1. indexer[w].job \in Enqueued
    BY <1>7 DEF ClaimJob, IInv, ClaimFound, Enqueued
  <2> QED
    BY <1>4, <1>7, <2>1 DEF ClaimJob, Statuses, Active
<1>8. ASSUME NEW w \in Workers, Working(w), NEW s \in Statuses,
             job' = [job EXCEPT ![indexer[w].job].status = s]
      PROVE  Kept
  <2>1. indexer[w].job \in Enqueued /\ job[indexer[w].job].status # "queued"
    BY <1>8 DEF IInv, WorkerOwns, Enqueued
  <2> QED
    BY <1>4, <1>8, <2>1
<1>9. ASSUME NEW p \in Processes, FinishIndexing(p) PROVE Kept
  <2>1. indexer[p].job # None => p \in Workers /\ Working(p)
    BY <1>9 DEF IInv, ToolHasNoJob, FinishIndexing, Working
  <2> QED
    BY <1>2, <1>8, <1>9, <2>1 DEF FinishIndexing, Statuses
<1>10. ASSUME NEW w \in Workers, FailIndexing(w) PROVE Kept
  BY <1>8, <1>10 DEF FailIndexing, Working, Statuses
<1>11. Kept
  BY <1>2, <1>5, <1>6, <1>7, <1>9, <1>10
     DEF Next, Work, Index, vars, Lookup, SelectJob, LoseClaim, Restart, StartTool,
         DeleteRows, ReadContent, InsertBatch, CollideBatch, Crash
<1> QED
  BY <1>11 DEF Kept

\* An indexer goes from table to table and from batch to batch, for one run.
LEMMA PlacesStep ==
    ASSUME IInv, PlaceIsKnown, RunIsOfJob, [Next]_vars
    PROVE  PlaceIsKnown' /\ RunIsOfJob'
<1> USE DEF Processes
<1> DEFINE InPlace(p) ==
              /\ Working(p) => indexer[p].table \in Tables
              /\ indexer[p].pc = "insert" => indexer[p].batch \in Batches
              /\ indexer[p].pc = "finish" => indexer[p].table = 2
              /\ p \in Workers /\ (Working(p) \/ indexer[p].pc = "claim") =>
                    job[indexer[p].job].run = indexer[p].run
<1>1. ASSUME NEW p \in Processes, indexer'[p] = indexer[p] PROVE InPlace(p)'
  <2>1. p \in Workers /\ (Working(p) \/ indexer[p].pc = "claim") =>
            indexer[p].job \in Enqueued
    BY WorkerRun
  <2>2. InPlace(p)
    BY DEF PlaceIsKnown, RunIsOfJob
  <2> QED
    BY <1>1, <2>1, <2>2, RunStays DEF Working
<1>2. ASSUME NEW p \in Processes, indexer'[p].pc \in {"idle", "dead"} PROVE InPlace(p)'
  BY <1>2 DEF Working
<1>3. ASSUME NEW p \in Processes, Working(p) \/ indexer[p].pc = "claim", Working(p)',
             indexer'[p].job = indexer[p].job, indexer'[p].run = indexer[p].run
      PROVE  p \in Workers /\ (Working(p) \/ indexer[p].pc = "claim")' =>
                job'[indexer'[p].job].run = indexer'[p].run
  BY <1>3, WorkerRun, RunStays DEF RunIsOfJob
<1>4. ASSUME NEW p \in Processes, Moved(p), InPlace(p)'
      PROVE  PlaceIsKnown' /\ RunIsOfJob'
  <2>1. \A q \in Processes : InPlace(q)'
    BY <1>1, <1>4 DEF Moved
  <2> QED
    BY <2>1 DEF PlaceIsKnown, RunIsOfJob
<1>5. ASSUME UNCHANGED indexer PROVE PlaceIsKnown' /\ RunIsOfJob'
  <2>1. \A q \in Processes : InPlace(q)'
    BY <1>1, <1>5
  <2> QED
    BY <2>1 DEF PlaceIsKnown, RunIsOfJob
<1>6. ASSUME NEW w \in Workers, SelectJob(w) PROVE PlaceIsKnown' /\ RunIsOfJob'
  <2>1. PICK j \in Queued : indexer' = [indexer EXCEPT ![w] = At("claim", j, job[j].run, 0, 0, 0)]
    BY <1>6 DEF SelectJob
  <2> DEFINE x == At("claim", j, job[j].run, 0, 0, 0)
  <2>2. Moved(w) /\ indexer'[w] = x /\ job' = job
    BY <1>6, <2>1, SetPlace DEF SelectJob
  <2>3. x.pc = "claim" /\ x.job = j /\ x.run = job[j].run
    BY DEF At
  <2>4. InPlace(w)'
    BY <2>2, <2>3 DEF Working
  <2> QED
    BY <1>4, <2>2, <2>4
<1>7. ASSUME NEW w \in Workers, ClaimJob(w) PROVE PlaceIsKnown' /\ RunIsOfJob'
  <2> DEFINE x == At("delete", indexer[w].job, indexer[w].run, 1, 0, 0)
  <2>1. Moved(w) /\ indexer'[w] = x
    BY <1>7, SetPlace DEF ClaimJob
  <2>2. x.pc = "delete" /\ x.job = indexer[w].job /\ x.run = indexer[w].run /\ x.table = 1
    BY DEF At
  <2>3. Working(w)' /\ indexer[w].pc = "claim"
    BY <1>7, <2>1, <2>2 DEF Working, ClaimJob
  <2>4. InPlace(w)'
    BY <1>3, <2>1, <2>2, <2>3 DEF Tables
  <2> QED
    BY <1>4, <2>1, <2>4
<1>8. ASSUME NEW w \in Workers, LoseClaim(w) \/ FailIndexing(w) \/ Restart(w)
      PROVE  PlaceIsKnown' /\ RunIsOfJob'
  BY <1>2, <1>4, <1>8, SetPlace, IdlePlace DEF LoseClaim, FailIndexing, Restart
<1>9. ASSUME NEW p \in Tools, NEW r \in Runs, StartTool(p, r) PROVE PlaceIsKnown' /\ RunIsOfJob'
  <2> DEFINE x == At("delete", None, r, 1, 0, 0)
  <2>1. Moved(p) /\ indexer'[p] = x
    BY <1>9, SetPlace DEF StartTool
  <2>2. x.pc = "delete" /\ x.table = 1
    BY DEF At
  <2>3. InPlace(p)'
    BY <2>1, <2>2, ProcessAssumption DEF Working, Tables
  <2> QED
    BY <1>4, <2>1, <2>3
<1>10. ASSUME NEW p \in Processes, DeleteRows(p) PROVE PlaceIsKnown' /\ RunIsOfJob'
  <2>1. /\ Moved(p) /\ indexer'[p].pc = "read"
        /\ indexer'[p].job = indexer[p].job /\ indexer'[p].run = indexer[p].run
        /\ indexer'[p].table = indexer[p].table
    BY <1>10, SetPc DEF DeleteRows, Steps
  <2>2. Working(p) /\ Working(p)'
    BY <1>10, <2>1 DEF Working, DeleteRows
  <2>3. InPlace(p)'
    BY <1>3, <2>1, <2>2 DEF PlaceIsKnown
  <2> QED
    BY <1>4, <2>1, <2>3
<1>11. ASSUME NEW p \in Processes, ReadContent(p) PROVE PlaceIsKnown' /\ RunIsOfJob'
  <2>1. /\ Moved(p) /\ indexer'[p].pc = "insert" /\ indexer'[p].batch = 1
        /\ indexer'[p].job = indexer[p].job /\ indexer'[p].run = indexer[p].run
        /\ indexer'[p].table = indexer[p].table
    BY <1>11, ReadPlace
  <2>2. Working(p) /\ Working(p)'
    BY <1>11, <2>1 DEF Working, ReadContent
  <2>3. 1 \in Batches
    BY BoundAssumption DEF Batches
  <2>4. InPlace(p)'
    BY <1>3, <2>1, <2>2, <2>3 DEF PlaceIsKnown
  <2> QED
    BY <1>4, <2>1, <2>4
<1>12. ASSUME NEW p \in Processes, InsertBatch(p) PROVE PlaceIsKnown' /\ RunIsOfJob'
  <2>1. Moved(p) /\ indexer'[p].job = indexer[p].job /\ indexer'[p].run = indexer[p].run
    BY <1>12, InsertPlace
  <2>2. Working(p) /\ Working(p)' /\ indexer[p].table \in Tables
    BY <1>12, InsertPlace DEF Working, InsertBatch, PlaceIsKnown
  <2>3. /\ indexer'[p].table \in Tables
        /\ indexer'[p].pc = "insert" => indexer'[p].batch \in Batches
        /\ indexer'[p].pc = "finish" => indexer'[p].table = 2
    <3>1. CASE indexer'[p].pc = "insert"
      BY <1>12, <2>2, <3>1, InsertPlace
    <3>2. CASE indexer'[p].pc = "finish"
      BY <1>12, <2>2, <3>2, InsertPlace DEF Tables
    <3>3. CASE indexer'[p].pc = "delete"
      <4>1. indexer[p].table + 1 \in Tables
        BY <1>12, <3>3, SetPlace DEF InsertBatch, AfterBatch, At
      <4> QED
        BY <1>12, <3>3, <4>1, InsertPlace
    <3> QED
      BY <1>12, <3>1, <3>2, <3>3, InsertPlace
  <2>4. InPlace(p)'
    BY <1>3, <2>1, <2>2, <2>3
  <2> QED
    BY <1>4, <2>1, <2>4
<1>13. ASSUME NEW p \in Processes, CollideBatch(p) PROVE PlaceIsKnown' /\ RunIsOfJob'
  <2>1. Moved(p) /\ indexer'[p].pc \in {"idle", "dead"}
    <3>1. CASE p \in Workers
      BY <1>13, <3>1, SetPc DEF CollideBatch, Goto, Steps
    <3>2. CASE p \notin Workers
      BY <1>13, <3>2, SetPlace, IdlePlace DEF CollideBatch
    <3> QED
      BY <3>1, <3>2
  <2> QED
    BY <1>2, <1>4, <2>1
<1>14. ASSUME NEW p \in Processes, FinishIndexing(p) PROVE PlaceIsKnown' /\ RunIsOfJob'
  BY <1>2, <1>4, <1>14, SetPlace, IdlePlace DEF FinishIndexing
<1>15. ASSUME NEW p \in Processes, Crash(p) PROVE PlaceIsKnown' /\ RunIsOfJob'
  BY <1>2, <1>4, <1>15, SetPc DEF Crash, Steps
<1> QED
  BY <1>5, <1>6, <1>7, <1>8, <1>9, <1>10, <1>11, <1>12, <1>13, <1>14, <1>15
     DEF Next, Work, Index, vars, Enqueue, Lookup, Publish

\* A publication enqueues a job of the run whose content it changes.
LEMMA PublishQueues ==
    ASSUME IInv, [Next]_vars, NEW r \in Runs, content'[r] # content[r]
    PROVE  HasQueued(r)' /\ indexer' = indexer
<1>1. PICK r0 \in Runs : Publish(r0)
  BY DEF Next, Work, Index, vars, Enqueue, Lookup, SelectJob, ClaimJob, LoseClaim, Restart,
     StartTool, DeleteRows, ReadContent, InsertBatch, CollideBatch, FinishIndexing,
     FailIndexing, Crash
<1>2. r = r0
  BY <1>1 DEF Publish, IInv, TypeOK
<1> DEFINE New == [run |-> r, status |-> "queued"]
<1>3. PICK j \in Jobs : job[j] = None /\ job' = [job EXCEPT ![j] = New]
  BY <1>1, <1>2, AddRow DEF Publish
<1>4. New # None /\ New.run = r /\ New.status = "queued"
  BY RowIsNotNone DEF JobRows, Statuses, Active
<1>5. job'[j] = New
  BY <1>3 DEF IInv, TypeOK
<1> HIDE DEF New
<1>6. j \in JobsOf(r)'
  BY <1>4, <1>5 DEF JobsOf, Enqueued
<1> QED
  BY <1>1, <1>4, <1>5, <1>6 DEF HasQueued, Publish

\* An indexer that inserts after a step inserted before it, of the same version, or has
\* just read the content.
LEMMA InsertingBefore ==
    ASSUME IInv, [Next]_vars, NEW w \in Workers, indexer'[w].pc = "insert"
    PROVE  /\ ~ClaimJob(w)
           /\ \/ /\ indexer[w].pc = "insert" /\ indexer'[w].run = indexer[w].run
                 /\ indexer'[w].table = indexer[w].table /\ indexer'[w].seen = indexer[w].seen
              \/ ReadContent(w)
<1> USE DEF Processes
<1> DEFINE Same == /\ indexer[w].pc = "insert" /\ indexer'[w].run = indexer[w].run
                   /\ indexer'[w].table = indexer[w].table /\ indexer'[w].seen = indexer[w].seen
<1>1. ~ClaimJob(w)
  <2> SUFFICES ASSUME ClaimJob(w) PROVE FALSE
    OBVIOUS
  <2>1. indexer'[w] = At("delete", indexer[w].job, indexer[w].run, 1, 0, 0)
    BY SetPlace DEF ClaimJob
  <2> QED
    BY <2>1 DEF At
<1>2. ASSUME NEW p \in Processes, p # w, Moved(p) PROVE Same
  BY <1>2 DEF Moved
<1>3. ASSUME NEW p \in Processes, Moved(p), indexer'[p].pc # "insert" PROVE Same
  BY <1>2, <1>3
<1>4. ASSUME NEW p \in Processes, Index(p) PROVE Same \/ ReadContent(w)
  <2>1. CASE DeleteRows(p)
    BY <2>1, <1>3, SetPc DEF DeleteRows, Steps
  <2>2. CASE ReadContent(p)
    BY <2>2, <1>2, ReadPlace
  <2>3. CASE InsertBatch(p)
    BY <2>3, <1>2, InsertPlace DEF InsertBatch
  <2>4. CASE CollideBatch(p)
    <3>1. CASE p \in Workers
      BY <2>4, <3>1, <1>3, SetPc DEF CollideBatch, Goto, Steps
    <3>2. CASE p \notin Workers
      BY <2>4, <3>2, <1>3, SetPlace, IdlePlace DEF CollideBatch
    <3> QED
      BY <3>1, <3>2
  <2>5. CASE FinishIndexing(p)
    BY <2>5, <1>3, SetPlace, IdlePlace DEF FinishIndexing
  <2> QED
    BY <1>4, <2>1, <2>2, <2>3, <2>4, <2>5 DEF Index
<1>5. ASSUME NEW v \in Workers, SelectJob(v) PROVE Same
  <2>1. PICK j \in Queued : indexer' = [indexer EXCEPT ![v] = At("claim", j, job[j].run, 0, 0, 0)]
    BY <1>5 DEF SelectJob
  <2> DEFINE x == At("claim", j, job[j].run, 0, 0, 0)
  <2>2. Moved(v) /\ indexer'[v] = x
    BY <2>1, SetPlace
  <2>3. x.pc # "insert"
    BY DEF At
  <2> QED
    BY <2>2, <2>3, <1>3
<1>6. ASSUME NEW v \in Workers, ClaimJob(v) PROVE Same
  BY <1>1, <1>2, <1>6, SetPlace DEF ClaimJob
<1>7. ASSUME NEW v \in Workers, LoseClaim(v) \/ FailIndexing(v) \/ Restart(v) PROVE Same
  BY <1>3, <1>7, SetPlace, IdlePlace DEF LoseClaim, FailIndexing, Restart
<1>8. ASSUME NEW p \in Tools, NEW r \in Runs, StartTool(p, r) PROVE Same
  <2>1. Moved(p) /\ p # w
    BY <1>8, SetPlace, ProcessAssumption DEF StartTool
  <2> QED
    BY <2>1, <1>2
<1>9. ASSUME NEW p \in Processes, Crash(p) PROVE Same
  BY <1>9, <1>3, SetPc DEF Crash, Steps
<1>10. ASSUME UNCHANGED indexer PROVE Same
  BY <1>10
<1>11. Same \/ ReadContent(w)
  BY <1>4, <1>5, <1>6, <1>7, <1>8, <1>9, <1>10
     DEF Next, Work, vars, Enqueue, Lookup, Publish
<1> QED
  BY <1>1, <1>11

\* The content the worker has read is the latest, or a publication has enqueued a job.
LEMMA SeenStep ==
    ASSUME IInv, SeenIsNew, Alone, [Next]_vars
    PROVE  SeenIsNew'
<1> SUFFICES ASSUME Tools # {}, NEW w \in Workers, indexer'[w].pc = "insert"
             PROVE  \/ indexer'[w].seen = Version(indexer[w].run, indexer[w].table)'
                    \/ HasQueued(indexer[w].run)'
  BY DEF SeenIsNew
<1>1. \A v \in Workers : ~ClaimJob(v)
  BY InsertingBefore DEF Alone
<1>2. CASE /\ indexer[w].pc = "insert" /\ indexer'[w].run = indexer[w].run
           /\ indexer'[w].table = indexer[w].table /\ indexer'[w].seen = indexer[w].seen
  <2>1. PICK r \in Runs : r = indexer[w].run
    BY <1>2 DEF IInv, HasRun, Processes
  <2>2. CASE HasQueued(r)
    <3>1. PICK j \in Enqueued : job[j].run = r /\ job[j].status = "queued"
      BY <2>2 DEF HasQueued, JobsOf
    <3>2. j \in Enqueued' /\ job'[j].run = r /\ job'[j].status = "queued"
      BY <1>1, <3>1, RunStays
    <3>3. j \in JobsOf(r)'
      BY <3>2 DEF JobsOf
    <3>4. HasQueued(r)'
      BY <3>2, <3>3 DEF HasQueued
    <3> QED
      BY <1>2, <2>1, <3>4 DEF HasQueued, JobsOf
  <2>3. CASE indexer[w].seen = Version(r, indexer[w].table) /\ content'[r] = content[r]
    BY <1>2, <2>1, <2>3 DEF Version
  <2>4. CASE content'[r] # content[r]
    <3>1. HasQueued(r)'
      BY <2>4, PublishQueues
    <3> QED
      BY <1>2, <2>1, <3>1 DEF HasQueued, JobsOf
  <2> QED
    BY <1>2, <2>1, <2>2, <2>3, <2>4 DEF SeenIsNew
<1>3. CASE ReadContent(w)
  <2>1. indexer'[w].seen = Version(indexer'[w].run, indexer'[w].table) /\ content' = content
    BY <1>3, ReadPlace DEF ReadContent, Processes
  <2> QED
    BY <2>1 DEF Version
<1> QED
  BY <1>2, <1>3, InsertingBefore

-----------------------------------------------------------------------------
\* At first nothing was asked for.
LEMMA CurrentInit == Init => CurrentInv
<1> SUFFICES ASSUME Init PROVE CurrentInv
  OBVIOUS
<1>1. IInv
  BY InitInv
<1>2. \A p \in Processes : indexer[p].pc = "idle"
  BY IdlePlace DEF Init
<1>3. PlaceIsKnown /\ RunIsOfJob /\ SeenIsNew
  BY <1>2 DEF PlaceIsKnown, RunIsOfJob, SeenIsNew, Working, Processes
<1>4. ASSUME NEW r \in Runs, NEW t \in Tables PROVE ~Begun(r, t)
  BY <1>2 DEF Begun, Past, Working, JobsOf, Enqueued, Processes, Init
<1> QED
  BY <1>1, <1>3, <1>4 DEF CurrentInv, TablesAreCovered, TableIsCovered

LEMMA CurrentStep == Alone /\ CurrentInv /\ [Next]_vars => CurrentInv'
<1> SUFFICES ASSUME Alone, CurrentInv, [Next]_vars PROVE CurrentInv'
  OBVIOUS
<1>1. IInv'
  BY NextInv DEF CurrentInv
<1>2. PlaceIsKnown' /\ RunIsOfJob'
  BY PlacesStep DEF CurrentInv
<1>3. SeenIsNew'
  BY SeenStep DEF CurrentInv
<1>4. \A r \in Runs, t \in Tables : Begun(r, t)' /\ ~Doomed(r)' => Covered(r, t)'
  BY CoverStep
<1>5. TablesAreCovered'
  BY <1>4 DEF TablesAreCovered, TableIsCovered
<1> QED
  BY <1>1, <1>2, <1>3, <1>5 DEF CurrentInv

\* Where nothing is left to do for an indexed run and no failure left a trace, a covered
\* table is a filled one.
LEMMA CoveredIsCurrent == CurrentInv => IndexIsCurrent
<1> SUFFICES ASSUME CurrentInv, NEW r \in Runs, runStatus[r] = "indexed", ~Unsettled(r),
                    NEW t \in Tables, NEW b \in Batches
             PROVE  embedding[r][t][b] = Version(r, t)
  BY DEF IndexIsCurrent
<1>1. Begun(r, t)
  BY DEF Begun
<1>2. \A j \in JobsOf(r) : job[j].status = "succeeded"
  BY DEF Unsettled
<1>3. \A p \in Processes : indexer[p].run = r => indexer[p].pc = "idle"
  BY DEF Unsettled
<1>4. ~Doomed(r)
  BY <1>2, <1>3 DEF Doomed, Given, Processes
<1>5. ~Pending(r, t)
  BY <1>2, <1>3 DEF Pending, HasQueued, Ahead, Working, Processes
<1>6. \A p \in Processes : ~Filling(p, r, t)
  BY <1>3 DEF Filling, Is
<1>7. Filled(r, t, LastBatch + 1)
  BY <1>1, <1>4, <1>5, <1>6 DEF CurrentInv, TablesAreCovered, TableIsCovered, Covered
<1> QED
  BY <1>7, BoundAssumption DEF Filled, Batches

\* An indexed run is searchable in full from its latest content once its jobs have
\* succeeded and nobody indexes it, however publications, jobs, crashes and one
\* synchronous request interleave.  With two workers and a synchronous request it is
\* not: hence Alone.
THEOREM IndexStaysCurrent == ASSUME Alone PROVE Spec => []IndexIsCurrent
<1>1. Init => CurrentInv
  BY CurrentInit
<1>2. CurrentInv /\ [Next]_vars => CurrentInv'
  BY CurrentStep
<1>3. CurrentInv => IndexIsCurrent
  BY CoveredIsCurrent
<1> QED
  BY <1>1, <1>2, <1>3, PTL DEF Spec
=============================================================================
