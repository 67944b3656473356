--------------------------- MODULE ServicesProofs ---------------------------
(***************************************************************************)
(* Proofs about the job queues and the services composed by MCServices.  A *)
(* behaviour stays the behaviour of one part, so each property needs the   *)
(* inductive invariant of its own part only.                               *)
(***************************************************************************)
EXTENDS MCServices, Integers, Sequences, FiniteSetTheorems, TLAPS

-----------------------------------------------------------------------------
(* The part of a behaviour *)

\* A behaviour starts in the initial states of its part.
LEMMA PartInit ==
    ASSUME MCInit
    PROVE  /\ part = "images" => Images!Init
           /\ part = "commands" => Drafting!Init
           /\ part = "outreach" => Messages!Init
           /\ part = "traces" => Traces!Init
           /\ part = "chat" => Chat!Init
           /\ part = "loads" => Loads!Init
           /\ part = "daily orders" => DailyOrders!Init
           /\ part = "voice" => Voice!Init
BY DEF MCInit

\* A step is one of the part, or leaves its variables alone.
LEMMA PartStep ==
    ASSUME [MCNext]_allVars
    PROVE  /\ part' = part
           /\ part = "images" => [Images!Next]_(Images!vars)
           /\ part = "commands" => [Drafting!Next]_(Drafting!vars)
           /\ part = "outreach" => [Messages!Next]_(Messages!vars)
           /\ part = "traces" => [Traces!Next]_(Traces!vars)
           /\ part = "chat" => [Chat!Next]_(Chat!vars)
           /\ part = "loads" => [Loads!Next]_(Loads!vars)
           /\ part = "daily orders" => [DailyOrders!Next]_(DailyOrders!vars)
           /\ part = "voice" => [Voice!Next]_(Voice!vars)
BY DEF MCNext, allVars, indexVars, imageVars, commandVars, traceVars, messageVars,
       chatVars, loadVars, voiceVars, Images!vars, Drafting!vars, Messages!vars, Traces!vars,
       Chat!vars, Loads!vars, DailyOrders!vars, Voice!vars

-----------------------------------------------------------------------------
(* The image jobs *)

\* What a worker has to do with a job.
AtJob(w, j) == Images!Processing(w) /\ worker[w].job = j

\* Where a worker may be.
Places == [pc : Images!Steps, job : ImageIds \cup {None}, size : Nat, done : Nat,
           good : BOOLEAN]

\* A job keeps its row once it is enqueued, and only such a job is worked on or recovered.
JobTypes ==
    /\ job \in [ImageIds -> Images!Rows \cup {None}]
    /\ worker \in [Sessions -> Places]
    /\ stale \in [Images!Processes -> SUBSET Images!Enqueued]
    /\ late \in [ImageIds -> Nat]
    /\ \A w \in Sessions : Images!Processing(w) \/ worker[w].pc = "claim" =>
          worker[w].job \in Images!Enqueued

\* The variants a step presupposes.
HasDone(x) ==
    /\ x.pc \in {"first", "firstWrite", "before", "beforeWrite", "generate"} => x.done < x.size
    /\ x.pc \in {"after", "afterWrite"} => x.done <= x.size
    /\ x.pc \in {"check", "commit"} => x.done = x.size

\* A worker has gone through the variants its step presupposes.
ProgressIsTrue ==
    \A w \in Sessions : HasDone(worker[w])

\* A job that is processed has been claimed, and has not succeeded.
ProcessedIsClaimed ==
    \A w \in Sessions : Images!Processing(w) =>
        job[worker[w].job].status \in {"running", "failed"}

\* A variant begun late was begun for a job that is over, and its worker, if it is still
\* there, has yet to look at the status.
LateIsNoticed ==
    \A j \in ImageIds :
        /\ late[j] <= 1
        /\ late[j] = 1 => /\ job[j] # None /\ job[j].status \in Images!Terminal
                          /\ \A w \in Sessions : AtJob(w, j) => worker[w].pc = "after"

\* The inductive invariant of the image jobs.
ImageInv ==
    /\ JobTypes /\ ProgressIsTrue /\ ProcessedIsClaimed /\ LateIsNoticed
    /\ Images!OneWorkerPerJob

\* No worker has a job at first.
LEMMA InitImages == Images!Init => ImageInv
BY ServiceAssumption
DEF ImageInv, JobTypes, ProgressIsTrue, HasDone, ProcessedIsClaimed, LateIsNoticed, AtJob,
    Images!Rows, Places,
    Images!Init, Images!OneWorkerPerJob, Images!Processing, Images!Idle, Images!At,
    Images!Steps, Images!Enqueued, Images!ImageJobAssumption

\* What a step does to the outcomes of the jobs.
OutcomesAreTrue == Images!SuccessIsComplete /\ Images!OutcomeChangesOnlyInRace

\* What is known of a worker that processes a job.
LEMMA Processed ==
    ASSUME ImageInv, NEW w \in Sessions, Images!Processing(w), NEW j, j = worker[w].job
    PROVE  /\ j \in Images!Enqueued /\ job[j] \in Images!Rows /\ worker[w] \in Places
           /\ job[j].status \in {"running", "failed"} /\ HasDone(worker[w])
           /\ late[j] \in {0, 1}
           /\ late[j] = 1 => job[j].status \in Images!Terminal /\ worker[w].pc = "after"
<1> USE DEF ImageInv, JobTypes
<1>1. j \in Images!Enqueued /\ job[j] \in Images!Rows /\ worker[w] \in Places
  BY DEF Images!Enqueued
<1>2. job[j].status \in {"running", "failed"} /\ HasDone(worker[w])
  BY DEF ProcessedIsClaimed, ProgressIsTrue
<1>3. j \in ImageIds
  BY <1>1 DEF Images!Enqueued
<1> QED BY <1>1, <1>2, <1>3 DEF LateIsNoticed, AtJob

\* A worker that goes on with its job, or lets go of it, keeps the invariant if its row and
\* its late variants are those its next step presupposes.
LEMMA MoveKeepsInv ==
    ASSUME ImageInv, NEW w \in Sessions, Images!Processing(w),
           NEW j, worker[w].job = j,
           NEW x \in Places, worker' = [worker EXCEPT ![w] = x],
           NEW r \in Images!Rows, job' = [job EXCEPT ![j] = r],
           NEW n \in {0, 1}, late' = [late EXCEPT ![j] = n],
           stale' \in [Images!Processes -> SUBSET Images!Enqueued],
           HasDone(x),
           \/ x.pc \in {"idle", "dead"} /\ r.status # "queued"
           \/ /\ x.pc \notin {"idle", "claim", "recover", "dead"} /\ x.job = j
              /\ r.status \in {"running", "failed"},
           n = 1 => r.status \in Images!Terminal /\ x.pc \in {"idle", "dead", "after"}
    PROVE  ImageInv'
<1>0. Images!ImageJobAssumption
  BY ServiceAssumption
<1> USE <1>0 DEF ImageInv, JobTypes, Images!Processing, Images!Enqueued
<1>1. j \in ImageIds /\ job[j] # None
  OBVIOUS
<1>2. /\ worker'[w] = x
      /\ \A v \in Sessions \ {w} : worker'[v] = worker[v]
      /\ worker' \in [Sessions -> Places]
  OBVIOUS
<1>3. r # None
  BY DEF Images!ImageJobAssumption
<1>4. /\ job'[j] = r /\ late'[j] = n
      /\ \A k \in ImageIds \ {j} : job'[k] = job[k] /\ late'[k] = late[k]
      /\ job' \in [ImageIds -> Images!Rows \cup {None}] /\ late' \in [ImageIds -> Nat]
  BY <1>1
<1>5. Images!Enqueued' = Images!Enqueued
  BY <1>1, <1>3, <1>4
<1>6. JobTypes'
  BY <1>1, <1>2, <1>4, <1>5
<1>7. ProgressIsTrue'
  BY <1>2 DEF ProgressIsTrue
<1>8. \A v \in Sessions \ {w} : Images!Processing(v) => worker[v].job # j
  BY DEF Images!OneWorkerPerJob
<1>9. ProcessedIsClaimed'
  BY <1>2, <1>4, <1>8 DEF ProcessedIsClaimed
<1>10. Images!OneWorkerPerJob'
  BY <1>2, <1>8 DEF Images!OneWorkerPerJob
<1>11. LateIsNoticed'
  BY <1>2, <1>3, <1>4, <1>8 DEF LateIsNoticed, AtJob
<1> QED BY <1>6, <1>7, <1>9, <1>10, <1>11

\* So does a step in which rows only fail or grow older, and workers only let go.
LEMMA RestKeepsInv ==
    ASSUME ImageInv, late' = late,
           job' \in [ImageIds -> Images!Rows \cup {None}],
           \A k \in ImageIds :
              /\ job'[k] = None <=> job[k] = None
              /\ job[k] # None => job'[k].status \in {job[k].status, "failed"},
           worker' \in [Sessions -> Places],
           \A w \in Sessions :
              worker'[w] = worker[w] \/ worker'[w].pc \in {"idle", "recover", "dead"},
           stale' \in [Images!Processes -> SUBSET Images!Enqueued]
    PROVE  ImageInv'
<1> USE DEF ImageInv, JobTypes, Images!Processing
<1>1. Images!Enqueued' = Images!Enqueued
  BY DEF Images!Enqueued
<1>2. \A w \in Sessions : Images!Processing(w)' => Images!Processing(w) /\ worker'[w] = worker[w]
  OBVIOUS
<1>3. JobTypes'
  BY <1>1
<1>4. ProgressIsTrue'
  BY DEF ProgressIsTrue, HasDone
<1>5. Images!OneWorkerPerJob'
  BY <1>2 DEF Images!OneWorkerPerJob
<1>6. \A w \in Sessions : Images!Processing(w) =>
         worker[w].job \in ImageIds /\ job[worker[w].job] # None
  BY DEF Images!Enqueued
<1>7. ProcessedIsClaimed'
  BY <1>2, <1>6 DEF ProcessedIsClaimed
<1>8. LateIsNoticed'
  <2> SUFFICES ASSUME NEW k \in ImageIds
               PROVE  /\ late[k] <= 1
                      /\ late[k] = 1 => /\ job'[k] # None /\ job'[k].status \in Images!Terminal
                                        /\ \A w \in Sessions :
                                              AtJob(w, k)' => worker'[w].pc = "after"
    BY DEF LateIsNoticed
  <2>1. late[k] <= 1 /\ (late[k] = 1 => /\ job[k] # None /\ job[k].status \in Images!Terminal
                                        /\ \A w \in Sessions :
                                              AtJob(w, k) => worker[w].pc = "after")
    BY DEF LateIsNoticed
  <2>2. \A w \in Sessions : AtJob(w, k)' => AtJob(w, k) /\ worker'[w] = worker[w]
    BY <1>2 DEF AtJob
  <2> HIDE DEF AtJob, ImageInv, JobTypes, Images!Processing
  <2> QED BY <2>1, <2>2 DEF Images!Terminal
<1> QED BY <1>3, <1>4, <1>5, <1>7, <1>8

\* Every step keeps the invariant and the outcomes, one case per action.
LEMMA NextImages ==
    ImageInv /\ [Images!Next]_(Images!vars) => ImageInv' /\ OutcomesAreTrue
<1> SUFFICES ASSUME ImageInv, [Images!Next]_(Images!vars)
             PROVE  ImageInv' /\ OutcomesAreTrue
  OBVIOUS
<1>0. Images!ImageJobAssumption
  BY ServiceAssumption
<1> USE <1>0
    DEF OutcomesAreTrue, Images!SuccessIsComplete, Images!OutcomeChangesOnlyInRace,
        Images!Processing, Images!Idle, Images!At, Images!Goto,
        Images!Release, Images!JobRow, Images!Terminal, Images!Kinds, Images!Steps,
        Images!Enqueued, Images!ImageJobAssumption, Images!Processes
<1>1. CASE UNCHANGED Images!vars
  BY <1>1 DEF Images!vars, ImageInv, JobTypes, ProgressIsTrue, HasDone, ProcessedIsClaimed,
      LateIsNoticed,
        AtJob, Images!Rows, Places, Images!OneWorkerPerJob
<1>2. ASSUME NEW k \in Images!Kinds, Images!Enqueue(k) PROVE ImageInv' /\ OutcomesAreTrue
  BY <1>2 DEF Images!Enqueue, ImageInv, JobTypes, ProgressIsTrue, HasDone, ProcessedIsClaimed,
      LateIsNoticed,
        AtJob, Images!Rows, Places, Images!OneWorkerPerJob
<1>3. ASSUME NEW w \in Sessions, Images!SelectJob(w) PROVE ImageInv' /\ OutcomesAreTrue
  BY <1>3 DEF Images!SelectJob, Images!Queued, ImageInv, JobTypes, ProgressIsTrue, HasDone,
      ProcessedIsClaimed, LateIsNoticed,
        AtJob, Images!Rows, Places, Images!OneWorkerPerJob
<1>4. ASSUME NEW w \in Sessions, Images!ClaimJob(w) PROVE ImageInv' /\ OutcomesAreTrue
  BY <1>4 DEF Images!ClaimJob, ImageInv, JobTypes, ProgressIsTrue, HasDone, ProcessedIsClaimed,
      LateIsNoticed,
        AtJob, Images!Rows, Places, Images!OneWorkerPerJob
<1>5. ASSUME NEW w \in Sessions, Images!LoseClaim(w) PROVE ImageInv' /\ OutcomesAreTrue
  <2> USE DEF Images!LoseClaim
  <2>1. /\ late' = late
        /\ job' \in [ImageIds -> Images!Rows \cup {None}]
        /\ \A k \in ImageIds :
              /\ job'[k] = None <=> job[k] = None
              /\ job[k] # None => job'[k].status \in {job[k].status, "failed"}
    BY <1>5 DEF ImageInv, JobTypes, Images!Rows
  <2>2. /\ worker' \in [Sessions -> Places]
        /\ \A v \in Sessions :
              worker'[v] = worker[v] \/ worker'[v].pc \in {"idle", "recover", "dead"}
    BY <1>5 DEF ImageInv, JobTypes, Places
  <2>3. stale' \in [Images!Processes -> SUBSET Images!Enqueued]
    BY <1>5 DEF ImageInv, JobTypes
  <2>4. ImageInv'
    BY <2>1, <2>2, <2>3, RestKeepsInv
  <2>5. OutcomesAreTrue
    BY <1>5 DEF ImageInv, JobTypes
  <2> QED BY <2>4, <2>5
<1>6. ASSUME NEW w \in Sessions, Images!OpenBatch(w) PROVE ImageInv' /\ OutcomesAreTrue
  <2> DEFINE j == worker[w].job
             x == worker'[w]
             r == job[j]
             m == late[j]
  <2>1. Images!Processing(w)
    BY <1>6 DEF Images!OpenBatch
  <2>2. /\ j \in Images!Enqueued /\ job[j] \in Images!Rows /\ worker[w] \in Places
        /\ job[j].status \in {"running", "failed"} /\ HasDone(worker[w])
        /\ late[j] \in {0, 1}
        /\ late[j] = 1 => job[j].status \in Images!Terminal /\ worker[w].pc = "after"
    BY <2>1, Processed
  <2>3. x \in Places /\ HasDone(x)
    BY <1>6, <2>2 DEF Images!OpenBatch, Places, HasDone
  <2>4. r \in Images!Rows
    BY <1>6, <2>2 DEF Images!OpenBatch, Images!Rows
  <2>5. m \in {0, 1}
    BY <1>6, <2>2 DEF Images!OpenBatch
  <2>6. /\ worker' = [worker EXCEPT ![w] = x]
        /\ job' = [job EXCEPT ![j] = r] /\ late' = [late EXCEPT ![j] = m]
    BY <1>6, <2>2 DEF Images!OpenBatch, ImageInv, JobTypes
  <2>7. \/ x.pc \in {"idle", "dead"} /\ r.status # "queued"
        \/ /\ x.pc \notin {"idle", "claim", "recover", "dead"} /\ x.job = j
           /\ r.status \in {"running", "failed"}
    BY <1>6, <2>2 DEF Images!OpenBatch, Places
  <2>8. m = 1 => r.status \in Images!Terminal /\ x.pc \in {"idle", "dead", "after"}
    BY <1>6, <2>2 DEF Images!OpenBatch, Places
  <2>9. stale' \in [Images!Processes -> SUBSET Images!Enqueued]
    BY <1>6 DEF Images!OpenBatch, ImageInv, JobTypes
  <2>10. ASSUME NEW k \in Images!Enqueued
         PROVE  /\ k # j => job'[k] = job[k]
                /\ k = j => job'[k] = r
    BY <2>2, <2>6 DEF ImageInv, JobTypes
  <2>11. OutcomesAreTrue
    BY <1>6, <2>2, <2>10, <2>1 DEF Images!OpenBatch, HasDone, Images!Rows
  <2> HIDE DEF x, r, m
  <2>12. ImageInv'
    BY <2>1, <2>2, <2>3, <2>4, <2>5, <2>6, <2>7, <2>8, <2>9, MoveKeepsInv
  <2> QED BY <2>11, <2>12
<1>7. ASSUME NEW w \in Sessions, Images!ReadProgress(w) PROVE ImageInv' /\ OutcomesAreTrue
  <2> DEFINE j == worker[w].job
             x == worker'[w]
             r == job[j]
             m == late[j]
  <2>1. Images!Processing(w)
    BY <1>7 DEF Images!ReadProgress
  <2>2. /\ j \in Images!Enqueued /\ job[j] \in Images!Rows /\ worker[w] \in Places
        /\ job[j].status \in {"running", "failed"} /\ HasDone(worker[w])
        /\ late[j] \in {0, 1}
        /\ late[j] = 1 => job[j].status \in Images!Terminal /\ worker[w].pc = "after"
    BY <2>1, Processed
  <2>3. \/ /\ job[j].status = "running"
           /\ \/ worker[w].pc = "first" /\ x = [worker[w] EXCEPT !.pc = "firstWrite"]
              \/ worker[w].pc = "before" /\ x = [worker[w] EXCEPT !.pc = "beforeWrite"]
              \/ worker[w].pc = "after" /\ x = [worker[w] EXCEPT !.pc = "afterWrite"]
        \/ worker[w].pc = "first" /\ x = [worker[w] EXCEPT !.pc = "before"]
        \/ worker[w].pc = "before" /\ x = [worker[w] EXCEPT !.pc = "generate"]
        \/ x = Images!Idle
    BY <1>7, <2>2 DEF Images!ReadProgress, ImageInv, JobTypes
  <2>4. x \in Places /\ HasDone(x)
    <3> HIDE DEF x
    <3>1. x \in Places
      <4>1. CASE x = Images!Idle
        BY <4>1 DEF Places
      <4>2. CASE x # Images!Idle
        BY <2>2, <2>3, <4>2 DEF Places
      <4> QED BY <4>1, <4>2
    <3>2. HasDone(x)
      BY <2>2, <2>3 DEF Places, HasDone
    <3> QED BY <3>1, <3>2
  <2>5. r \in Images!Rows
    BY <2>2, <2>3 DEF Images!Rows, Places
  <2>6. m \in {0, 1}
    BY <1>7, <2>2 DEF Images!ReadProgress
  <2>7. /\ worker' = [worker EXCEPT ![w] = x]
        /\ job' = [job EXCEPT ![j] = r] /\ late' = [late EXCEPT ![j] = m]
    BY <1>7, <2>2 DEF Images!ReadProgress, ImageInv, JobTypes
  <2>8. \/ x.pc \in {"idle", "dead"} /\ r.status # "queued"
        \/ /\ x.pc \notin {"idle", "claim", "recover", "dead"} /\ x.job = j
           /\ r.status \in {"running", "failed"}
    BY <2>2, <2>3 DEF Places
  <2>9. m = 1 => r.status \in Images!Terminal /\ x.pc \in {"idle", "dead", "after"}
    BY <2>2, <2>3 DEF Places
  <2>10. stale' \in [Images!Processes -> SUBSET Images!Enqueued]
    BY <1>7 DEF Images!ReadProgress, ImageInv, JobTypes
  <2>11. ASSUME NEW k \in Images!Enqueued
         PROVE  /\ k # j => job'[k] = job[k]
                /\ k = j => job'[k] = r
    BY <2>2, <2>7 DEF ImageInv, JobTypes
  <2>12. OutcomesAreTrue
    BY <1>7, <2>2, <2>11, <2>1 DEF Images!ReadProgress, HasDone, Images!Rows
  <2> HIDE DEF x, r, m
  <2>13. ImageInv'
    BY <2>1, <2>2, <2>4, <2>5, <2>6, <2>7, <2>8, <2>9, <2>10, MoveKeepsInv
  <2> QED BY <2>12, <2>13
<1>8. ASSUME NEW w \in Sessions, Images!WriteProgress(w) PROVE ImageInv' /\ OutcomesAreTrue
  <2> DEFINE j == worker[w].job
             x == worker'[w]
             r == job'[j]
             m == late[j]
  <2>1. Images!Processing(w)
    BY <1>8 DEF Images!WriteProgress
  <2>2. /\ j \in Images!Enqueued /\ job[j] \in Images!Rows /\ worker[w] \in Places
        /\ job[j].status \in {"running", "failed"} /\ HasDone(worker[w])
        /\ late[j] \in {0, 1}
        /\ late[j] = 1 => job[j].status \in Images!Terminal /\ worker[w].pc = "after"
    BY <2>1, Processed
  <2>3. /\ \/ worker[w].pc = "firstWrite" /\ x = [worker[w] EXCEPT !.pc = "before"]
           \/ worker[w].pc = "beforeWrite" /\ x = [worker[w] EXCEPT !.pc = "generate"]
           \/ /\ worker[w].pc = "afterWrite" /\ worker[w].done < worker[w].size
              /\ x = [worker[w] EXCEPT !.pc = "before"]
           \/ /\ worker[w].pc = "afterWrite" /\ ~(worker[w].done < worker[w].size)
              /\ x = [worker[w] EXCEPT !.pc = "check"]
        /\ r = Images!JobRow(job[j].kind, job[j].status, worker[w].done, 0)
    BY <1>8, <2>2 DEF Images!WriteProgress, ImageInv, JobTypes
  <2>4. x \in Places /\ HasDone(x)
    <3> HIDE DEF x
    <3>1. x \in Places
      <4>1. CASE x = Images!Idle
        BY <4>1 DEF Places
      <4>2. CASE x # Images!Idle
        BY <2>2, <2>3, <4>2 DEF Places
      <4> QED BY <4>1, <4>2
    <3>2. HasDone(x)
      BY <2>2, <2>3 DEF Places, HasDone
    <3> QED BY <3>1, <3>2
  <2>5. r \in Images!Rows
    BY <2>2, <2>3 DEF Images!Rows, Places
  <2>6. m \in {0, 1}
    BY <1>8, <2>2 DEF Images!WriteProgress
  <2>7. /\ worker' = [worker EXCEPT ![w] = x]
        /\ job' = [job EXCEPT ![j] = r] /\ late' = [late EXCEPT ![j] = m]
    BY <1>8, <2>2 DEF Images!WriteProgress, ImageInv, JobTypes
  <2>8. \/ x.pc \in {"idle", "dead"} /\ r.status # "queued"
        \/ /\ x.pc \notin {"idle", "claim", "recover", "dead"} /\ x.job = j
           /\ r.status \in {"running", "failed"}
    BY <2>2, <2>3 DEF Places
  <2>9. m = 1 => r.status \in Images!Terminal /\ x.pc \in {"idle", "dead", "after"}
    BY <2>2, <2>3 DEF Places
  <2>10. stale' \in [Images!Processes -> SUBSET Images!Enqueued]
    BY <1>8 DEF Images!WriteProgress, ImageInv, JobTypes
  <2>11. ASSUME NEW k \in Images!Enqueued
         PROVE  /\ k # j => job'[k] = job[k]
                /\ k = j => job'[k] = r
    BY <2>2, <2>7 DEF ImageInv, JobTypes
  <2>12. OutcomesAreTrue
    BY <1>8, <2>2, <2>11, <2>1 DEF Images!WriteProgress, HasDone, Images!Rows
  <2> HIDE DEF x, r, m
  <2>13. ImageInv'
    BY <2>1, <2>2, <2>4, <2>5, <2>6, <2>7, <2>8, <2>9, <2>10, MoveKeepsInv
  <2> QED BY <2>12, <2>13
<1>9. ASSUME NEW w \in Sessions, Images!GenerateVariant(w) PROVE ImageInv' /\ OutcomesAreTrue
  <2> DEFINE j == worker[w].job
             x == worker'[w]
             r == job[j]
             m == late'[j]
  <2>1. Images!Processing(w)
    BY <1>9 DEF Images!GenerateVariant
  <2>2. /\ j \in Images!Enqueued /\ job[j] \in Images!Rows /\ worker[w] \in Places
        /\ job[j].status \in {"running", "failed"} /\ HasDone(worker[w])
        /\ late[j] \in {0, 1}
        /\ late[j] = 1 => job[j].status \in Images!Terminal /\ worker[w].pc = "after"
    BY <2>1, Processed
  <2>3. x \in Places /\ HasDone(x)
    BY <1>9, <2>2 DEF Images!GenerateVariant, Places, HasDone, ImageInv, JobTypes
  <2>4. r \in Images!Rows
    BY <1>9, <2>2 DEF Images!GenerateVariant, Images!Rows, ImageInv, JobTypes
  <2>5. m \in {0, 1}
    BY <1>9, <2>2 DEF Images!GenerateVariant
  <2>6. /\ worker' = [worker EXCEPT ![w] = x]
        /\ job' = [job EXCEPT ![j] = r] /\ late' = [late EXCEPT ![j] = m]
    BY <1>9, <2>2 DEF Images!GenerateVariant, ImageInv, JobTypes
  <2>7. \/ x.pc \in {"idle", "dead"} /\ r.status # "queued"
        \/ /\ x.pc \notin {"idle", "claim", "recover", "dead"} /\ x.job = j
           /\ r.status \in {"running", "failed"}
    BY <1>9, <2>2 DEF Images!GenerateVariant, Places, ImageInv, JobTypes
  <2>8. m = 1 => r.status \in Images!Terminal /\ x.pc \in {"idle", "dead", "after"}
    BY <1>9, <2>2 DEF Images!GenerateVariant, Places, ImageInv, JobTypes
  <2>9. stale' \in [Images!Processes -> SUBSET Images!Enqueued]
    BY <1>9 DEF Images!GenerateVariant, ImageInv, JobTypes
  <2>10. ASSUME NEW k \in Images!Enqueued
         PROVE  /\ k # j => job'[k] = job[k]
                /\ k = j => job'[k] = r
    BY <2>2, <2>6 DEF ImageInv, JobTypes
  <2>11. OutcomesAreTrue
    BY <1>9, <2>2, <2>10, <2>1 DEF Images!GenerateVariant, HasDone, Images!Rows
  <2> HIDE DEF x, r, m
  <2>12. ImageInv'
    BY <2>1, <2>2, <2>3, <2>4, <2>5, <2>6, <2>7, <2>8, <2>9, MoveKeepsInv
  <2> QED BY <2>11, <2>12
<1>10. ASSUME NEW w \in Sessions, Images!CheckBatch(w) PROVE ImageInv' /\ OutcomesAreTrue
  <2> DEFINE j == worker[w].job
             x == worker'[w]
             r == job[j]
             m == late[j]
  <2>1. Images!Processing(w)
    BY <1>10 DEF Images!CheckBatch
  <2>2. /\ j \in Images!Enqueued /\ job[j] \in Images!Rows /\ worker[w] \in Places
        /\ job[j].status \in {"running", "failed"} /\ HasDone(worker[w])
        /\ late[j] \in {0, 1}
        /\ late[j] = 1 => job[j].status \in Images!Terminal /\ worker[w].pc = "after"
    BY <2>1, Processed
  <2>3. \/ worker[w].pc = "check" /\ x = [worker[w] EXCEPT !.pc = "commit"]
        \/ x = Images!Idle
    BY <1>10, <2>2 DEF Images!CheckBatch, ImageInv, JobTypes
  <2>4. x \in Places /\ HasDone(x)
    <3> HIDE DEF x
    <3>1. x \in Places
      <4>1. CASE x = Images!Idle
        BY <4>1 DEF Places
      <4>2. CASE x # Images!Idle
        BY <2>2, <2>3, <4>2 DEF Places
      <4> QED BY <4>1, <4>2
    <3>2. HasDone(x)
      BY <2>2, <2>3 DEF Places, HasDone
    <3> QED BY <3>1, <3>2
  <2>5. r \in Images!Rows
    BY <2>2, <2>3 DEF Images!Rows, Places
  <2>6. m \in {0, 1}
    BY <1>10, <2>2 DEF Images!CheckBatch
  <2>7. /\ worker' = [worker EXCEPT ![w] = x]
        /\ job' = [job EXCEPT ![j] = r] /\ late' = [late EXCEPT ![j] = m]
    BY <1>10, <2>2 DEF Images!CheckBatch, ImageInv, JobTypes
  <2>8. \/ x.pc \in {"idle", "dead"} /\ r.status # "queued"
        \/ /\ x.pc \notin {"idle", "claim", "recover", "dead"} /\ x.job = j
           /\ r.status \in {"running", "failed"}
    BY <2>2, <2>3 DEF Places
  <2>9. m = 1 => r.status \in Images!Terminal /\ x.pc \in {"idle", "dead", "after"}
    BY <2>2, <2>3 DEF Places
  <2>10. stale' \in [Images!Processes -> SUBSET Images!Enqueued]
    BY <1>10 DEF Images!CheckBatch, ImageInv, JobTypes
  <2>11. ASSUME NEW k \in Images!Enqueued
         PROVE  /\ k # j => job'[k] = job[k]
                /\ k = j => job'[k] = r
    BY <2>2, <2>7 DEF ImageInv, JobTypes
  <2>12. OutcomesAreTrue
    BY <1>10, <2>2, <2>11, <2>1 DEF Images!CheckBatch, HasDone, Images!Rows
  <2> HIDE DEF x, r, m
  <2>13. ImageInv'
    BY <2>1, <2>2, <2>4, <2>5, <2>6, <2>7, <2>8, <2>9, <2>10, MoveKeepsInv
  <2> QED BY <2>12, <2>13
<1>11. ASSUME NEW w \in Sessions, Images!CommitBatch(w) PROVE ImageInv' /\ OutcomesAreTrue
  <2> DEFINE j == worker[w].job
             x == Images!Idle
             r == job'[j]
             m == late[j]
  <2>1. Images!Processing(w)
    BY <1>11 DEF Images!CommitBatch
  <2>2. /\ j \in Images!Enqueued /\ job[j] \in Images!Rows /\ worker[w] \in Places
        /\ job[j].status \in {"running", "failed"} /\ HasDone(worker[w])
        /\ late[j] \in {0, 1}
        /\ late[j] = 1 => job[j].status \in Images!Terminal /\ worker[w].pc = "after"
    BY <2>1, Processed
  <2>3. x \in Places /\ HasDone(x)
    BY <1>11, <2>2 DEF Images!CommitBatch, Places, HasDone, Images!FinalStatus
  <2>4. r \in Images!Rows
    BY <1>11, <2>2 DEF Images!CommitBatch, Images!Rows, Images!FinalStatus, Places
  <2>5. m \in {0, 1}
    BY <1>11, <2>2 DEF Images!CommitBatch
  <2>6. /\ worker' = [worker EXCEPT ![w] = x]
        /\ job' = [job EXCEPT ![j] = r] /\ late' = [late EXCEPT ![j] = m]
    BY <1>11, <2>2 DEF Images!CommitBatch, ImageInv, JobTypes
  <2>7. \/ x.pc \in {"idle", "dead"} /\ r.status # "queued"
        \/ /\ x.pc \notin {"idle", "claim", "recover", "dead"} /\ x.job = j
           /\ r.status \in {"running", "failed"}
    BY <1>11, <2>2 DEF Images!CommitBatch, Places, Images!FinalStatus
  <2>8. m = 1 => r.status \in Images!Terminal /\ x.pc \in {"idle", "dead", "after"}
    BY <1>11, <2>2 DEF Images!CommitBatch, Places, Images!FinalStatus
  <2>9. stale' \in [Images!Processes -> SUBSET Images!Enqueued]
    BY <1>11 DEF Images!CommitBatch, ImageInv, JobTypes
  <2>10. ASSUME NEW k \in Images!Enqueued
         PROVE  /\ k # j => job'[k] = job[k]
                /\ k = j => job'[k] = r
    BY <2>2, <2>6 DEF ImageInv, JobTypes
  <2>11. OutcomesAreTrue
    <3>1. worker[w].pc = "commit" /\ worker[w].done = worker[w].size
      BY <1>11, <2>2 DEF Images!CommitBatch, HasDone
    <3>2. r.attempted = worker[w].size
      BY <1>11, <2>2 DEF Images!CommitBatch, ImageInv, JobTypes
    <3> HIDE DEF r
    <3> QED BY <2>1, <2>2, <2>10, <3>1, <3>2
  <2> HIDE DEF x, r, m
  <2>12. ImageInv'
    BY <2>1, <2>2, <2>3, <2>4, <2>5, <2>6, <2>7, <2>8, <2>9, MoveKeepsInv
  <2> QED BY <2>11, <2>12
<1>12. ASSUME NEW w \in Sessions, Images!FinishCatalog(w) PROVE ImageInv' /\ OutcomesAreTrue
  <2> DEFINE j == worker[w].job
             x == Images!Idle
             r == job'[j]
             m == late[j]
  <2>1. Images!Processing(w)
    BY <1>12 DEF Images!FinishCatalog
  <2>2. /\ j \in Images!Enqueued /\ job[j] \in Images!Rows /\ worker[w] \in Places
        /\ job[j].status \in {"running", "failed"} /\ HasDone(worker[w])
        /\ late[j] \in {0, 1}
        /\ late[j] = 1 => job[j].status \in Images!Terminal /\ worker[w].pc = "after"
    BY <2>1, Processed
  <2>3. x \in Places /\ HasDone(x)
    BY <1>12, <2>2 DEF Images!FinishCatalog, Places, HasDone
  <2>4. r \in Images!Rows
    BY <1>12, <2>2 DEF Images!FinishCatalog, Images!Rows
  <2>5. m \in {0, 1}
    BY <1>12, <2>2 DEF Images!FinishCatalog
  <2>6. /\ worker' = [worker EXCEPT ![w] = x]
        /\ job' = [job EXCEPT ![j] = r] /\ late' = [late EXCEPT ![j] = m]
    BY <1>12, <2>2 DEF Images!FinishCatalog, ImageInv, JobTypes
  <2>7. \/ x.pc \in {"idle", "dead"} /\ r.status # "queued"
        \/ /\ x.pc \notin {"idle", "claim", "recover", "dead"} /\ x.job = j
           /\ r.status \in {"running", "failed"}
    BY <1>12, <2>2 DEF Images!FinishCatalog, Places
  <2>8. m = 1 => r.status \in Images!Terminal /\ x.pc \in {"idle", "dead", "after"}
    BY <1>12, <2>2 DEF Images!FinishCatalog, Places
  <2>9. stale' \in [Images!Processes -> SUBSET Images!Enqueued]
    BY <1>12 DEF Images!FinishCatalog, ImageInv, JobTypes
  <2>10. ASSUME NEW k \in Images!Enqueued
         PROVE  /\ k # j => job'[k] = job[k]
                /\ k = j => job'[k] = r
    BY <2>2, <2>6 DEF ImageInv, JobTypes
  <2>11. OutcomesAreTrue
    BY <1>12, <2>2, <2>10, <2>1 DEF Images!FinishCatalog, HasDone, Images!Rows
  <2> HIDE DEF x, r, m
  <2>12. ImageInv'
    BY <2>1, <2>2, <2>3, <2>4, <2>5, <2>6, <2>7, <2>8, <2>9, MoveKeepsInv
  <2> QED BY <2>11, <2>12
<1>13. ASSUME NEW w \in Sessions, Images!FailBatch(w) PROVE ImageInv' /\ OutcomesAreTrue
  <2> DEFINE j == worker[w].job
             x == Images!Idle
             r == job'[j]
             m == late[j]
  <2>1. Images!Processing(w)
    BY <1>13 DEF Images!FailBatch
  <2>2. /\ j \in Images!Enqueued /\ job[j] \in Images!Rows /\ worker[w] \in Places
        /\ job[j].status \in {"running", "failed"} /\ HasDone(worker[w])
        /\ late[j] \in {0, 1}
        /\ late[j] = 1 => job[j].status \in Images!Terminal /\ worker[w].pc = "after"
    BY <2>1, Processed
  <2>3. x \in Places /\ HasDone(x)
    BY <1>13, <2>2 DEF Images!FailBatch, Places, HasDone
  <2>4. r \in Images!Rows
    BY <1>13, <2>2 DEF Images!FailBatch, Images!Rows
  <2>5. m \in {0, 1}
    BY <1>13, <2>2 DEF Images!FailBatch
  <2>6. /\ worker' = [worker EXCEPT ![w] = x]
        /\ job' = [job EXCEPT ![j] = r] /\ late' = [late EXCEPT ![j] = m]
    BY <1>13, <2>2 DEF Images!FailBatch, ImageInv, JobTypes
  <2>7. \/ x.pc \in {"idle", "dead"} /\ r.status # "queued"
        \/ /\ x.pc \notin {"idle", "claim", "recover", "dead"} /\ x.job = j
           /\ r.status \in {"running", "failed"}
    BY <1>13, <2>2 DEF Images!FailBatch, Places
  <2>8. m = 1 => r.status \in Images!Terminal /\ x.pc \in {"idle", "dead", "after"}
    BY <1>13, <2>2 DEF Images!FailBatch, Places
  <2>9. stale' \in [Images!Processes -> SUBSET Images!Enqueued]
    BY <1>13 DEF Images!FailBatch, ImageInv, JobTypes
  <2>10. ASSUME NEW k \in Images!Enqueued
         PROVE  /\ k # j => job'[k] = job[k]
                /\ k = j => job'[k] = r
    BY <2>2, <2>6 DEF ImageInv, JobTypes
  <2>11. OutcomesAreTrue
    BY <1>13, <2>2, <2>10, <2>1 DEF Images!FailBatch, HasDone, Images!Rows
  <2> HIDE DEF x, r, m
  <2>12. ImageInv'
    BY <2>1, <2>2, <2>3, <2>4, <2>5, <2>6, <2>7, <2>8, <2>9, MoveKeepsInv
  <2> QED BY <2>11, <2>12
<1>14. ASSUME NEW w \in Sessions, Images!Crash(w) PROVE ImageInv' /\ OutcomesAreTrue
  <2> USE DEF Images!Crash
  <2>1. /\ late' = late
        /\ job' \in [ImageIds -> Images!Rows \cup {None}]
        /\ \A k \in ImageIds :
              /\ job'[k] = None <=> job[k] = None
              /\ job[k] # None => job'[k].status \in {job[k].status, "failed"}
    BY <1>14 DEF ImageInv, JobTypes, Images!Rows
  <2>2. /\ worker' \in [Sessions -> Places]
        /\ \A v \in Sessions :
              worker'[v] = worker[v] \/ worker'[v].pc \in {"idle", "recover", "dead"}
    BY <1>14 DEF ImageInv, JobTypes, Places
  <2>3. stale' \in [Images!Processes -> SUBSET Images!Enqueued]
    BY <1>14 DEF ImageInv, JobTypes
  <2>4. ImageInv'
    BY <2>1, <2>2, <2>3, RestKeepsInv
  <2>5. OutcomesAreTrue
    BY <1>14 DEF ImageInv, JobTypes
  <2> QED BY <2>4, <2>5
<1>15. ASSUME NEW w \in Sessions, Images!Restart(w) PROVE ImageInv' /\ OutcomesAreTrue
  <2> USE DEF Images!Restart
  <2>1. /\ late' = late
        /\ job' \in [ImageIds -> Images!Rows \cup {None}]
        /\ \A k \in ImageIds :
              /\ job'[k] = None <=> job[k] = None
              /\ job[k] # None => job'[k].status \in {job[k].status, "failed"}
    BY <1>15 DEF ImageInv, JobTypes, Images!Rows
  <2>2. /\ worker' \in [Sessions -> Places]
        /\ \A v \in Sessions :
              worker'[v] = worker[v] \/ worker'[v].pc \in {"idle", "recover", "dead"}
    BY <1>15 DEF ImageInv, JobTypes, Places
  <2>3. stale' \in [Images!Processes -> SUBSET Images!Enqueued]
    BY <1>15 DEF ImageInv, JobTypes
  <2>4. ImageInv'
    BY <2>1, <2>2, <2>3, RestKeepsInv
  <2>5. OutcomesAreTrue
    BY <1>15 DEF ImageInv, JobTypes
  <2> QED BY <2>4, <2>5
<1>16. ASSUME NEW p \in Images!Processes, Images!LoadStale(p) PROVE ImageInv' /\ OutcomesAreTrue
  <2> USE DEF Images!LoadStale, Images!Stale, Images!Running
  <2>1. /\ late' = late
        /\ job' \in [ImageIds -> Images!Rows \cup {None}]
        /\ \A k \in ImageIds :
              /\ job'[k] = None <=> job[k] = None
              /\ job[k] # None => job'[k].status \in {job[k].status, "failed"}
    BY <1>16 DEF ImageInv, JobTypes, Images!Rows
  <2>2. /\ worker' \in [Sessions -> Places]
        /\ \A v \in Sessions :
              worker'[v] = worker[v] \/ worker'[v].pc \in {"idle", "recover", "dead"}
    BY <1>16 DEF ImageInv, JobTypes, Places
  <2>3. stale' \in [Images!Processes -> SUBSET Images!Enqueued]
    BY <1>16 DEF ImageInv, JobTypes
  <2>4. ImageInv'
    BY <2>1, <2>2, <2>3, RestKeepsInv
  <2>5. OutcomesAreTrue
    BY <1>16 DEF ImageInv, JobTypes
  <2> QED BY <2>4, <2>5
<1>17. ASSUME NEW p \in Images!Processes, Images!CommitStale(p) PROVE ImageInv' /\ OutcomesAreTrue
  <2> USE DEF Images!CommitStale, Images!Catalog
  <2>1. /\ late' = late
        /\ job' \in [ImageIds -> Images!Rows \cup {None}]
        /\ \A k \in ImageIds :
              /\ job'[k] = None <=> job[k] = None
              /\ job[k] # None => job'[k].status \in {job[k].status, "failed"}
    BY <1>17 DEF ImageInv, JobTypes, Images!Rows
  <2>2. /\ worker' \in [Sessions -> Places]
        /\ \A v \in Sessions :
              worker'[v] = worker[v] \/ worker'[v].pc \in {"idle", "recover", "dead"}
    BY <1>17 DEF ImageInv, JobTypes, Places
  <2>3. stale' \in [Images!Processes -> SUBSET Images!Enqueued]
    BY <1>17 DEF ImageInv, JobTypes
  <2>4. ImageInv'
    BY <2>1, <2>2, <2>3, RestKeepsInv
  <2>5. OutcomesAreTrue
    BY <1>17 DEF ImageInv, JobTypes
  <2> QED BY <2>4, <2>5
<1>18. ASSUME NEW p \in Images!Processes, Images!ConflictStale(p) PROVE ImageInv' /\ OutcomesAreTrue
  <2> USE DEF Images!ConflictStale
  <2>1. /\ late' = late
        /\ job' \in [ImageIds -> Images!Rows \cup {None}]
        /\ \A k \in ImageIds :
              /\ job'[k] = None <=> job[k] = None
              /\ job[k] # None => job'[k].status \in {job[k].status, "failed"}
    BY <1>18 DEF ImageInv, JobTypes, Images!Rows
  <2>2. /\ worker' \in [Sessions -> Places]
        /\ \A v \in Sessions :
              worker'[v] = worker[v] \/ worker'[v].pc \in {"idle", "recover", "dead"}
    BY <1>18 DEF ImageInv, JobTypes, Places
  <2>3. stale' \in [Images!Processes -> SUBSET Images!Enqueued]
    BY <1>18 DEF ImageInv, JobTypes
  <2>4. ImageInv'
    BY <2>1, <2>2, <2>3, RestKeepsInv
  <2>5. OutcomesAreTrue
    BY <1>18 DEF ImageInv, JobTypes
  <2> QED BY <2>4, <2>5
<1>19. CASE Images!Tick
  <2> USE DEF Images!Tick, Images!Running
  <2>1. /\ late' = late
        /\ job' \in [ImageIds -> Images!Rows \cup {None}]
        /\ \A k \in ImageIds :
              /\ job'[k] = None <=> job[k] = None
              /\ job[k] # None => job'[k].status \in {job[k].status, "failed"}
    BY <1>19 DEF ImageInv, JobTypes, Images!Rows
  <2>2. /\ worker' \in [Sessions -> Places]
        /\ \A v \in Sessions :
              worker'[v] = worker[v] \/ worker'[v].pc \in {"idle", "recover", "dead"}
    BY <1>19 DEF ImageInv, JobTypes, Places
  <2>3. stale' \in [Images!Processes -> SUBSET Images!Enqueued]
    BY <1>19 DEF ImageInv, JobTypes
  <2>4. ImageInv'
    BY <2>1, <2>2, <2>3, RestKeepsInv
  <2>5. OutcomesAreTrue
    BY <1>19 DEF ImageInv, JobTypes
  <2> QED BY <2>4, <2>5
<1> QED
  BY <1>1, <1>2, <1>3, <1>4, <1>5, <1>6, <1>7, <1>8, <1>9, <1>10, <1>11, <1>12, <1>13, <1>14,
      <1>15, <1>16, <1>17, <1>18, <1>19
  DEF Images!Next, Images!Work, Images!Process, Images!Recover

\* An image job has one worker at a time, one that was given up begins at most one more
\* variant, and its outcome is true, and final but for two races, for any number of jobs,
\* workers, readers and variants, and wherever a worker stops.
THEOREM ImageJobsStayTrue == MCSpec => ImageJobIsTrue
<1> DEFINE Inv == part = "images" => ImageInv
<1>1. MCInit => Inv
  BY PartInit, InitImages
<1>2. Inv /\ [MCNext]_allVars => Inv'
  BY PartStep, NextImages
<1>3. Inv /\ Inv' /\ [MCNext]_allVars =>
         [part = "images" => /\ Images!OneWorkerPerJob' /\ Images!LateWorkIsBounded'
                             /\ Images!SuccessIsComplete /\ Images!OutcomeChangesOnlyInRace]_allVars
  BY PartStep, NextImages
  DEF ImageInv, LateIsNoticed, OutcomesAreTrue, Images!LateWorkIsBounded
<1> QED BY <1>1, <1>2, <1>3, PTL DEF MCSpec, ImageJobIsTrue

-----------------------------------------------------------------------------
(* The AI draft commands *)

\* The drafts of a product, and how many there are.
DraftsOf(p) == {d \in Drafting!Existing : product[d] = p}
Count(p) == Cardinality(DraftsOf(p))

\* A command whose key it has reserved.
Reserved(s) == command[s].pc \in {"provider", "store", "commit", "block", "fail"}

\* A key is recorded before the provider is called, and never again.
KeysAreReserved ==
    /\ \A k \in Pair : calls[k] <= 1 /\ (mutation[k] = None => calls[k] = 0)
    /\ \A s \in Sessions :
          /\ command[s].pc # "idle" => command[s].key \in Pair
          /\ Reserved(s) => mutation[command[s].key] # None
          /\ command[s].pc = "provider" => calls[command[s].key] = 0
    /\ \A s, t \in Sessions :
          Reserved(s) /\ Reserved(t) /\ command[s].key = command[t].key => s = t

\* A command is asked of a draft there is, and proposes a draft of the same product.
AsksAreOfDrafts ==
    /\ \A k \in Pair : mutation[k] # None =>
          mutation[k].ask.draft \in Drafting!Existing \cup {None}
    /\ \A s \in Sessions :
          /\ command[s].ask.draft \in Drafting!Existing \cup {None}
          /\ command[s].pc \in {"store", "commit"} =>
                /\ command[s].product \in Drafting!Products
                /\ command[s].ask.draft # None =>
                      command[s].product = product[command[s].ask.draft]

\* One command at a time is about to commit, a draft that is not there yet, and the
\* version it was asked of is the one it still finds.
CommitIsAlone ==
    /\ \A s, t \in Sessions :
          Drafting!HoldsWorkflow(s) /\ Drafting!HoldsWorkflow(t) => s = t
    /\ \A s \in Sessions : Drafting!HoldsWorkflow(s) =>
          /\ command[s].new \in DraftIds \ Drafting!Existing
          /\ command[s].ask.draft # None =>
                command[s].ask.expected = Count(command[s].product)

\* The versions that accepted refinements were asked of are over.
LogIsOver ==
    \A i \in DOMAIN log : log[i].ask.draft # None =>
        log[i].ask.expected < Count(log[i].product)

\* The inductive invariant of the commands.
CommandInv ==
    /\ Drafting!TypeOK /\ KeysAreReserved /\ AsksAreOfDrafts /\ CommitIsAlone
    /\ LogIsOver /\ Drafting!EditIsNotLost

\* Cardinality is the same in the module of the commands.
LEMMA SameCardinality == ASSUME NEW S PROVE Drafting!Cardinality(S) = Cardinality(S)
BY DEF Drafting!Cardinality, Cardinality

LEMMA CommandFacts ==
    /\ IsFiniteSet(DraftIds) /\ DraftIds \subseteq Nat /\ 1 \in DraftIds
    /\ None \notin DraftIds /\ None \notin Drafting!Products
BY ServiceAssumption
DEF Drafting!CommandAssumption, Drafting!IsFiniteSet, IsFiniteSet, Drafting!Products

\* The version of a draft counts the drafts of its product.
LEMMA VersionCounts ==
    ASSUME NEW d PROVE Drafting!Version(d) = Count(product[d])
BY SameCardinality DEF Drafting!Version, Count, DraftsOf

LEMMA CountIsNat == ASSUME NEW p PROVE Count(p) \in Nat
<1>1. IsFiniteSet(DraftsOf(p))
  BY CommandFacts, FS_Subset DEF DraftsOf, Drafting!Existing
<1> QED BY <1>1, FS_CardinalityType DEF Count

\* A new draft adds to the versions of its product, and takes from none.
LEMMA NewDraftCounts ==
    ASSUME Drafting!TypeOK, NEW d \in DraftIds \ Drafting!Existing, NEW p \in Drafting!Products,
           product' = [product EXCEPT ![d] = p]
    PROVE  /\ Drafting!Existing' = Drafting!Existing \cup {d} /\ product'[d] = p
           /\ \A e \in Drafting!Existing : product'[e] = product[e]
           /\ \A q : Count(q) \in Nat /\ Count(q)' \in Nat /\ Count(q) <= Count(q)'
           /\ Count(p) < Count(p)'
<1> USE CommandFacts DEF Drafting!TypeOK, Drafting!Existing
<1>1. /\ Drafting!Existing' = Drafting!Existing \cup {d} /\ product'[d] = p
      /\ \A e \in Drafting!Existing : product'[e] = product[e]
  OBVIOUS
<1>2. ASSUME NEW q
      PROVE  DraftsOf(q) \subseteq DraftsOf(q)' /\ IsFiniteSet(DraftsOf(q)')
  <2>1. DraftsOf(q) \subseteq DraftsOf(q)' /\ DraftsOf(q)' \subseteq DraftIds
    BY <1>1 DEF DraftsOf
  <2> QED BY <2>1, FS_Subset
<1>3. \A q : Count(q) \in Nat /\ Count(q)' \in Nat /\ Count(q) <= Count(q)'
  BY <1>2, FS_Subset, FS_CardinalityType DEF Count
<1>4. d \in DraftsOf(p)' /\ d \notin DraftsOf(p)
  BY <1>1 DEF DraftsOf
<1>5. Count(p) < Count(p)'
  <2>1. DraftsOf(p) # DraftsOf(p)'
    BY <1>4
  <2>2. Count(p) # Count(p)'
    BY <1>2, <2>1, FS_Subset DEF Count
  <2> QED BY <1>3, <2>2
<1> QED BY <1>1, <1>3, <1>5

\* Where a command may be.
CommandPlaces ==
    [pc : {"idle", "lookup", "validate", "reserve", "provider", "store", "commit", "block", "fail"},
     key : Pair \cup {None}, ask : Drafting!Asked,
     copy : [draft : DraftIds \cup {None}, next : Nat],
     product : Drafting!Products \cup {None}, new : DraftIds \cup {None}]

\* The elements of a sequence.
LEMMA SeqElement == ASSUME NEW S, NEW f \in Seq(S), NEW i \in DOMAIN f PROVE f[i] \in S
OBVIOUS

\* What is logged.
LEMMA LogEntries ==
    ASSUME Drafting!TypeOK, NEW i \in DOMAIN log
    PROVE  log[i].product \in Drafting!Products /\ log[i].ask.expected \in Nat
<1>1. log \in Seq([product : Drafting!Products, ask : Drafting!Asked])
  BY DEF Drafting!TypeOK
<1>2. log[i] \in [product : Drafting!Products, ask : Drafting!Asked]
  BY <1>1, SeqElement
<1> QED BY <1>2 DEF Drafting!Asked

\* A command that moves to a step other than the commit, and writes no draft, keeps the
\* invariant if what it asks and proposes is of a draft there is.
LEMMA CommandMoves ==
    ASSUME CommandInv, Drafting!TypeOK', KeysAreReserved',
           NEW s \in Sessions, NEW x, command' = [command EXCEPT ![s] = x],
           UNCHANGED <<product, log>>,
           \A k \in Pair : mutation'[k] # None =>
              mutation'[k].ask.draft \in Drafting!Existing \cup {None},
           x.ask.draft \in Drafting!Existing \cup {None},
           x.pc = "store" => /\ x.product \in Drafting!Products
                             /\ x.ask.draft # None => x.product = product[x.ask.draft],
           x.pc # "commit"
    PROVE  CommandInv'
<1> USE DEF CommandInv
<1>1. \A q : Count(q)' = Count(q) /\ Drafting!Existing' = Drafting!Existing
  BY DEF Count, DraftsOf, Drafting!Existing
<1>2. command'[s] = x /\ \A t \in Sessions \ {s} : command'[t] = command[t]
  BY DEF Drafting!TypeOK
<1>3. AsksAreOfDrafts'
  BY <1>1, <1>2 DEF AsksAreOfDrafts
<1>4. CommitIsAlone'
  BY <1>1, <1>2 DEF CommitIsAlone, Drafting!HoldsWorkflow
<1>5. LogIsOver' /\ Drafting!EditIsNotLost'
  BY <1>1 DEF LogIsOver, Drafting!EditIsNotLost
<1> QED BY <1>3, <1>4, <1>5

\* A step that writes no draft and moves no command keeps it, too.
LEMMA DraftAppears ==
    ASSUME CommandInv, Drafting!TypeOK', NEW d \in DraftIds \ Drafting!Existing,
           NEW p \in Drafting!Products, product' = [product EXCEPT ![d] = p],
           \A s \in Sessions : ~Drafting!HoldsWorkflow(s),
           UNCHANGED <<mutation, command, calls, log>>
    PROVE  CommandInv'
<1> USE DEF CommandInv
<1>1. /\ Drafting!Existing' = Drafting!Existing \cup {d}
      /\ \A e \in Drafting!Existing : product'[e] = product[e]
      /\ \A q : Count(q) \in Nat /\ Count(q)' \in Nat /\ Count(q) <= Count(q)'
  BY NewDraftCounts
<1>2. KeysAreReserved'
  BY DEF KeysAreReserved, Reserved
<1>3. AsksAreOfDrafts'
  BY <1>1, CommandFacts DEF AsksAreOfDrafts
<1>4. CommitIsAlone'
  BY DEF CommitIsAlone, Drafting!HoldsWorkflow
<1>5. LogIsOver'
  <2> SUFFICES ASSUME NEW i \in DOMAIN log, log[i].ask.draft # None
               PROVE  log[i].ask.expected < Count(log[i].product)'
    BY DEF LogIsOver
  <2>1. log[i].ask.expected \in Nat
    BY LogEntries
  <2> QED BY <1>1, <2>1 DEF LogIsOver
<1>6. Drafting!EditIsNotLost'
  BY DEF Drafting!EditIsNotLost
<1> QED BY <1>2, <1>3, <1>4, <1>5, <1>6

\* No draft is written and nothing is recorded at first.
LEMMA InitCommands == Drafting!Init => CommandInv
<1> SUFFICES ASSUME Drafting!Init PROVE CommandInv
  OBVIOUS
<1> USE CommandFacts DEF Drafting!Init, Drafting!Idle, Drafting!At, Drafting!Nothing,
        Drafting!NoCopy
<1>1. Drafting!TypeOK
  BY DEF Drafting!TypeOK, Drafting!Asked, Drafting!Products
<1>2. KeysAreReserved /\ AsksAreOfDrafts /\ CommitIsAlone
  BY DEF KeysAreReserved, Reserved, AsksAreOfDrafts, CommitIsAlone, Drafting!HoldsWorkflow
<1>3. LogIsOver /\ Drafting!EditIsNotLost
  BY DEF LogIsOver, Drafting!EditIsNotLost
<1> QED BY <1>1, <1>2, <1>3 DEF CommandInv

\* A record is not None.
LEMMA MutationIsRecord == None \notin Drafting!Mutations
BY ServiceAssumption DEF Drafting!CommandAssumption

\* A step at which a command reserves no key and does not go to the provider.
LEMMA KeysStay ==
    ASSUME KeysAreReserved, NEW s \in Sessions, NEW x,
           command \in [Sessions -> CommandPlaces], command' = [command EXCEPT ![s] = x],
           x.pc # "idle" => x.key \in Pair,
           x.pc \in {"provider", "store", "commit", "block", "fail"} =>
              Reserved(s) /\ x.pc # "provider" /\ x.key = command[s].key,
           calls' = calls, \A m \in Pair : mutation[m] # None => mutation'[m] # None
    PROVE  KeysAreReserved'
<1>1. command'[s] = x /\ \A t \in Sessions \ {s} : command'[t] = command[t]
  OBVIOUS
<1>2. \A t \in Sessions : Reserved(t)' =>
         Reserved(t) /\ command'[t].key = command[t].key
  BY <1>1 DEF Reserved
<1>3. \A t \in Sessions : Reserved(t) => command[t].key \in Pair
  BY DEF KeysAreReserved, Reserved
<1> QED BY <1>1, <1>2, <1>3 DEF KeysAreReserved

\* A command that is over.
LEMMA IdlePlace ==
    /\ Drafting!Idle \in CommandPlaces /\ Drafting!Idle.ask.draft = None
    /\ Drafting!Idle.pc = "idle"
BY DEF Drafting!Idle, Drafting!At, Drafting!Nothing, Drafting!NoCopy, Drafting!Asked,
       CommandPlaces

\* A command that moves on, or ends, and reserves and stores nothing; what is recorded of
\* it is the question it was asked.
LEMMA QuietMove ==
    ASSUME CommandInv, NEW s \in Sessions, NEW x \in CommandPlaces,
           command' = [command EXCEPT ![s] = x], UNCHANGED <<product, log, editor, calls>>,
           workflow' \in [draft : DraftIds \cup {None}, next : Nat],
           acts' \in Nat, crashes' \in Nat,
           \/ mutation' = mutation
           \/ /\ command[s].key \in Pair
              /\ \E state \in Drafting!States :
                    mutation' = [mutation EXCEPT
                                    ![command[s].key] = Drafting!Record(command[s].ask, state)],
           x.pc \notin {"provider", "store", "commit"}, x.pc # "idle" => x.key \in Pair,
           x.pc \in {"block", "fail"} => Reserved(s) /\ x.key = command[s].key,
           x.ask.draft \in Drafting!Existing \cup {None}
    PROVE  CommandInv'
<1> USE MutationIsRecord
<1>1. /\ Drafting!TypeOK /\ KeysAreReserved /\ AsksAreOfDrafts
      /\ mutation \in [Pair -> Drafting!Mutations \cup {None}]
      /\ command \in [Sessions -> CommandPlaces]
  BY DEF CommandInv, Drafting!TypeOK, CommandPlaces
<1>2. /\ mutation' \in [Pair -> Drafting!Mutations \cup {None}]
      /\ \A m \in Pair : mutation[m] # None => mutation'[m] # None
      /\ \A m \in Pair : mutation'[m] # None =>
            mutation'[m].ask.draft \in Drafting!Existing \cup {None}
  <2>1. CASE mutation' = mutation
    BY <1>1, <2>1 DEF AsksAreOfDrafts
  <2>2. ASSUME command[s].key \in Pair, NEW state \in Drafting!States,
               mutation' = [mutation EXCEPT
                               ![command[s].key] = Drafting!Record(command[s].ask, state)]
        PROVE  /\ mutation' \in [Pair -> Drafting!Mutations \cup {None}]
               /\ \A m \in Pair : mutation[m] # None => mutation'[m] # None
               /\ \A m \in Pair : mutation'[m] # None =>
                     mutation'[m].ask.draft \in Drafting!Existing \cup {None}
    <3>1. /\ command[s].ask \in Drafting!Asked
          /\ command[s].ask.draft \in Drafting!Existing \cup {None}
      BY <1>1 DEF AsksAreOfDrafts, CommandPlaces
    <3>2. /\ Drafting!Record(command[s].ask, state) \in Drafting!Mutations
          /\ Drafting!Record(command[s].ask, state).ask = command[s].ask
      BY <3>1 DEF Drafting!Record, Drafting!Mutations
    <3> QED BY <1>1, <2>2, <3>1, <3>2 DEF AsksAreOfDrafts
  <2> QED BY <2>1, <2>2
<1>3. command' \in [Sessions -> CommandPlaces]
  BY <1>1
<1>4. Drafting!TypeOK'
  BY <1>1, <1>2, <1>3 DEF Drafting!TypeOK, CommandPlaces
<1>5. KeysAreReserved'
  BY <1>1, <1>2, KeysStay
<1> QED BY <1>1, <1>2, <1>4, <1>5, CommandMoves

\* A question that may be asked.
LEMMA AsksAreAsked ==
    ASSUME CommandInv, NEW k \in Pair, NEW q \in Drafting!Asks \cup Drafting!Repeatable(k)
    PROVE  q \in Drafting!Asked /\ q.draft \in Drafting!Existing \cup {None}
<1>0. Drafting!TypeOK /\ AsksAreOfDrafts
  BY DEF CommandInv
<1>1. ASSUME NEW d \in Drafting!Existing,
             q = [draft |-> d, expected |-> Drafting!Version(d)]
      PROVE  q \in Drafting!Asked /\ q.draft \in Drafting!Existing \cup {None}
  <2>1. Drafting!Version(d) \in Nat
    BY VersionCounts, CountIsNat
  <2> QED BY <1>1, <2>1 DEF Drafting!Asked, Drafting!Existing
<1>2. CASE q = Drafting!Nothing
  BY <1>2 DEF Drafting!Nothing, Drafting!Asked
<1>3. CASE mutation[k] # None /\ q = mutation[k].ask
  BY <1>0, <1>3 DEF AsksAreOfDrafts, Drafting!TypeOK, Drafting!Mutations
<1>4. ASSUME NEW t \in Sessions, q = command[t].ask
      PROVE  q \in Drafting!Asked /\ q.draft \in Drafting!Existing \cup {None}
  <2>1. command[t] \in CommandPlaces
    BY <1>0 DEF Drafting!TypeOK, CommandPlaces
  <2> QED BY <1>0, <1>4, <2>1 DEF AsksAreOfDrafts, CommandPlaces
<1> QED BY <1>1, <1>2, <1>3, <1>4 DEF Drafting!Asks, Drafting!Repeatable

\* Every step keeps it, one case per action.
LEMMA NextCommands == CommandInv /\ [Drafting!Next]_(Drafting!vars) => CommandInv'
<1> SUFFICES ASSUME CommandInv, [Drafting!Next]_(Drafting!vars) PROVE CommandInv'
  OBVIOUS
<1> USE CommandFacts, MutationIsRecord
    DEF Drafting!Goto, Drafting!Continue, Drafting!End, Drafting!others
<1>0. /\ Drafting!TypeOK /\ KeysAreReserved /\ AsksAreOfDrafts
      /\ workflow \in [draft : DraftIds \cup {None}, next : Nat]
      /\ mutation \in [Pair -> Drafting!Mutations \cup {None}]
      /\ command \in [Sessions -> CommandPlaces]
      /\ calls \in [Pair -> Nat] /\ acts \in Nat /\ crashes \in Nat
  BY DEF CommandInv, Drafting!TypeOK, CommandPlaces
<1>1. CASE UNCHANGED Drafting!vars
  BY <1>1 DEF Drafting!vars, CommandInv, Drafting!TypeOK, KeysAreReserved, Reserved,
     AsksAreOfDrafts, CommitIsAlone, Drafting!HoldsWorkflow, LogIsOver, Count, DraftsOf,
     Drafting!Existing, Drafting!EditIsNotLost
<1>2. ASSUME NEW s \in Sessions
      PROVE  /\ command[s] \in CommandPlaces
             /\ command[s].ask.draft \in Drafting!Existing \cup {None}
             /\ command[s].pc # "idle" => command[s].key \in Pair
             /\ Reserved(s) => mutation[command[s].key] # None
  BY <1>0 DEF AsksAreOfDrafts, KeysAreReserved
<1>3. ASSUME NEW s \in Sessions, NEW k \in Pair, Drafting!Send(s, k) \/ Drafting!Retry(s, k)
      PROVE  CommandInv'
  <2>1. PICK q \in Drafting!Asks \cup Drafting!Repeatable(k) :
           command' = [command EXCEPT
              ![s] = Drafting!At("lookup", k, q, Drafting!NoCopy, None, None)]
    BY <1>3 DEF Drafting!Send, Drafting!Retry
  <2> DEFINE x == Drafting!At("lookup", k, q, Drafting!NoCopy, None, None)
  <2>2. q \in Drafting!Asked /\ q.draft \in Drafting!Existing \cup {None}
    BY AsksAreAsked
  <2>3. x \in CommandPlaces /\ x.pc = "lookup" /\ x.key = k /\ x.ask = q
    BY <2>2 DEF Drafting!At, Drafting!NoCopy, CommandPlaces
  <2> HIDE DEF x
  <2> QED BY <1>0, <1>3, <2>1, <2>2, <2>3, QuietMove DEF Drafting!Send, Drafting!Retry, x
<1>4. ASSUME NEW s \in Sessions, command' = [command EXCEPT ![s] = Drafting!Idle],
             UNCHANGED <<product, log, editor, calls>>,
             workflow' \in [draft : DraftIds \cup {None}, next : Nat],
             acts' \in Nat, crashes' \in Nat,
             \/ mutation' = mutation
             \/ /\ command[s].key \in Pair
                /\ \E state \in Drafting!States :
                      mutation' = [mutation EXCEPT
                         ![command[s].key] = Drafting!Record(command[s].ask, state)]
      PROVE  CommandInv'
  BY <1>4, IdlePlace, QuietMove
<1>5. ASSUME NEW s \in Sessions, NEW x \in CommandPlaces,
             command' = [command EXCEPT ![s] = x],
             UNCHANGED <<workflow, product, mutation, log, editor, calls, acts, crashes>>,
             x.pc \in {"validate", "reserve", "fail"}, x.pc = "fail" => Reserved(s),
             x.key = command[s].key, x.key \in Pair, x.ask = command[s].ask
      PROVE  CommandInv'
  BY <1>0, <1>2, <1>5, QuietMove
<1>6. ASSUME NEW s \in Sessions, Drafting!LookUp(s) PROVE CommandInv'
  <2>1. CASE command' = [command EXCEPT ![s].pc = "validate"]
    <3> DEFINE x == [command[s] EXCEPT !.pc = "validate"]
    <3>1. command' = [command EXCEPT ![s] = x]
      BY <2>1
    <3>2. /\ x \in CommandPlaces /\ x.pc = "validate" /\ x.key = command[s].key
          /\ x.ask = command[s].ask /\ command[s].key \in Pair
      BY <1>2, <1>6 DEF CommandPlaces, Drafting!LookUp
    <3> HIDE DEF x
    <3> QED BY <1>5, <1>6, <3>1, <3>2 DEF Drafting!LookUp
  <2>2. CASE command' = [command EXCEPT ![s] = Drafting!Idle]
    BY <1>0, <1>4, <1>6, <2>2 DEF Drafting!LookUp
  <2> QED BY <1>6, <2>1, <2>2 DEF Drafting!LookUp
<1>7. ASSUME NEW s \in Sessions, Drafting!Validate(s) PROVE CommandInv'
  <2> DEFINE x == Drafting!At("reserve", command[s].key, command[s].ask, workflow, None, None)
  <2>1. CASE command' = [command EXCEPT ![s] = x]
    <3>1. /\ x \in CommandPlaces /\ x.pc = "reserve" /\ x.key = command[s].key
          /\ x.ask = command[s].ask /\ command[s].key \in Pair
      BY <1>0, <1>2, <1>7 DEF CommandPlaces, Drafting!At, Drafting!Validate
    <3> HIDE DEF x
    <3> QED BY <1>5, <1>7, <2>1, <3>1 DEF Drafting!Validate
  <2>2. CASE command' = [command EXCEPT ![s] = Drafting!Idle]
    BY <1>0, <1>4, <1>7, <2>2 DEF Drafting!Validate
  <2> QED BY <1>7, <2>1, <2>2 DEF Drafting!Validate
<1>8. ASSUME NEW s \in Sessions, Drafting!Reserve(s) PROVE CommandInv'
  <2>1. CASE mutation[command[s].key] = None
    <3> DEFINE x == [command[s] EXCEPT !.pc = "provider"]
               r == Drafting!Record(command[s].ask, "processing")
    <3>1. /\ command' = [command EXCEPT ![s] = x]
          /\ mutation' = [mutation EXCEPT ![command[s].key] = r]
          /\ UNCHANGED <<workflow, product, calls, log, editor, acts, crashes>>
      BY <1>8, <2>1 DEF Drafting!Reserve
    <3>2. /\ x \in CommandPlaces /\ x.pc = "provider" /\ x.key = command[s].key
          /\ x.ask = command[s].ask /\ command[s].key \in Pair
      BY <1>2, <1>8 DEF CommandPlaces, Drafting!Reserve
    <3>3. /\ r \in Drafting!Mutations /\ r.ask = command[s].ask
      BY <1>2 DEF CommandPlaces, Drafting!Record, Drafting!Mutations, Drafting!States
    <3> HIDE DEF x, r
    <3>4. /\ command'[s] = x /\ \A t \in Sessions \ {s} : command'[t] = command[t]
          /\ command' \in [Sessions -> CommandPlaces]
      BY <1>0, <3>1, <3>2
    <3>5. /\ mutation'[command[s].key] = r /\ mutation' \in [Pair -> Drafting!Mutations \cup {None}]
          /\ \A k \in Pair \ {command[s].key} : mutation'[k] = mutation[k]
      BY <1>0, <3>1, <3>2, <3>3
    <3>6. Drafting!TypeOK'
      BY <1>0, <3>1, <3>4, <3>5 DEF Drafting!TypeOK, CommandPlaces
    <3>7. \A t \in Sessions : Reserved(t) => command[t].key # command[s].key
      BY <1>2, <2>1
    <3>8. KeysAreReserved'
      BY <1>0, <2>1, <3>1, <3>2, <3>3, <3>4, <3>5, <3>7 DEF KeysAreReserved, Reserved
    <3>9. \A k \in Pair : mutation'[k] # None =>
             mutation'[k].ask.draft \in Drafting!Existing \cup {None}
      BY <1>0, <1>2, <3>3, <3>5 DEF AsksAreOfDrafts
    <3> QED BY <1>2, <3>1, <3>2, <3>6, <3>8, <3>9, CommandMoves
  <2>2. CASE mutation[command[s].key] # None
    BY <1>0, <1>4, <1>8, <2>2 DEF Drafting!Reserve
  <2> QED BY <2>1, <2>2
<1>9. ASSUME NEW s \in Sessions, Drafting!CallProvider(s) PROVE CommandInv'
  <2> DEFINE k == command[s].key
  <2>1. /\ command[s].pc = "provider" /\ k \in Pair /\ Reserved(s)
        /\ calls' = [calls EXCEPT ![k] = @ + 1] /\ calls[k] = 0
        /\ UNCHANGED <<workflow, product, mutation, log, editor, acts, crashes>>
    BY <1>0, <1>2, <1>9 DEF Drafting!CallProvider, KeysAreReserved, Reserved
  <2>2. PICK x : /\ command' = [command EXCEPT ![s] = x] /\ x \in CommandPlaces
                 /\ x.pc \in {"store", "block", "fail"} /\ x.key = k /\ x.ask = command[s].ask
                 /\ x.pc = "store" => /\ x.product \in Drafting!Products
                                      /\ x.ask.draft # None => x.product = product[x.ask.draft]
    <3>1. CASE \E p \in IF command[s].ask.draft = None THEN Created
                        ELSE {product[command[s].ask.draft]} :
                  command' = [command EXCEPT ![s] = Drafting!At("store", k,
                                 command[s].ask, command[s].copy, p, None)]
      <4>1. PICK p \in IF command[s].ask.draft = None THEN Created
                       ELSE {product[command[s].ask.draft]} :
               command' = [command EXCEPT ![s] = Drafting!At("store", k,
                              command[s].ask, command[s].copy, p, None)]
        BY <3>1
      <4>2. p \in Drafting!Products
        <5>1. CASE command[s].ask.draft = None
          BY <4>1, <5>1 DEF Drafting!Products
        <5>2. CASE command[s].ask.draft # None
          <6>1. /\ command[s].ask.draft \in Drafting!Existing
                /\ product \in [DraftIds -> Drafting!Products \cup {None}]
            BY <1>0, <1>2, <5>2 DEF Drafting!TypeOK
          <6> QED BY <4>1, <5>2, <6>1 DEF Drafting!Existing
        <5> QED BY <5>1, <5>2
      <4> DEFINE y == Drafting!At("store", k, command[s].ask, command[s].copy, p, None)
      <4>3. /\ y \in CommandPlaces /\ y.pc = "store" /\ y.key = k /\ y.ask = command[s].ask
            /\ y.product = p
        BY <1>2, <2>1, <4>2 DEF Drafting!At, CommandPlaces
      <4> HIDE DEF y
      <4> QED BY <4>1, <4>2, <4>3 DEF y
    <3>2. ASSUME NEW pc \in {"block", "fail"}, command' = [command EXCEPT ![s].pc = pc]
          PROVE  \E x : /\ command' = [command EXCEPT ![s] = x] /\ x \in CommandPlaces
                        /\ x.pc \in {"block", "fail"} /\ x.key = k /\ x.ask = command[s].ask
      <4> DEFINE y == [command[s] EXCEPT !.pc = pc]
      <4>1. y \in CommandPlaces /\ y.pc = pc /\ y.key = k /\ y.ask = command[s].ask
        BY <1>2 DEF CommandPlaces
      <4>2. command' = [command EXCEPT ![s] = y]
        BY <3>2
      <4> HIDE DEF y
      <4> QED BY <4>1, <4>2
    <3> QED BY <1>9, <3>1, <3>2 DEF Drafting!CallProvider
  <2>3. /\ command'[s] = x /\ \A t \in Sessions \ {s} : command'[t] = command[t]
        /\ command' \in [Sessions -> CommandPlaces]
    BY <1>0, <2>2
  <2>4. /\ calls' \in [Pair -> Nat] /\ calls'[k] = 1
        /\ \A j \in Pair \ {k} : calls'[j] = calls[j]
    BY <1>0, <2>1
  <2>5. Drafting!TypeOK'
    BY <1>0, <2>1, <2>3, <2>4 DEF Drafting!TypeOK, CommandPlaces
  <2>6. KeysAreReserved'
    <3> HIDE DEF k
    <3>1. k = command[s].key
      BY DEF k
    <3>2. \A t \in Sessions : Reserved(t)' => Reserved(t) /\ command'[t].key = command[t].key
      BY <2>1, <2>2, <2>3, <3>1 DEF Reserved
    <3> QED BY <1>0, <2>1, <2>2, <2>3, <2>4, <3>1, <3>2 DEF KeysAreReserved, Reserved
  <2>7. \A j \in Pair : mutation'[j] # None =>
           mutation'[j].ask.draft \in Drafting!Existing \cup {None}
    BY <1>0, <2>1 DEF AsksAreOfDrafts
  <2> QED BY <1>2, <2>1, <2>2, <2>5, <2>6, <2>7, CommandMoves
<1>10. ASSUME NEW s \in Sessions, Drafting!Block(s) \/ Drafting!Fail(s) PROVE CommandInv'
  <2>1. /\ command' = [command EXCEPT ![s] = Drafting!Idle]
        /\ UNCHANGED <<product, log, editor, calls, acts, crashes>>
        /\ command[s].key \in Pair
        /\ \E state \in Drafting!States :
              mutation' = [mutation EXCEPT
                 ![command[s].key] = Drafting!Record(command[s].ask, state)]
    BY <1>2, <1>10 DEF Drafting!Block, Drafting!Fail, Drafting!States
  <2>2. workflow' \in [draft : DraftIds \cup {None}, next : Nat]
    BY <1>0, <1>10 DEF Drafting!Block, Drafting!Fail
  <2> QED BY <1>0, <1>4, <2>1, <2>2
<1>11. ASSUME NEW s \in Sessions, Drafting!Crash(s) PROVE CommandInv'
  <2>1. /\ command' = [command EXCEPT ![s] = Drafting!Idle] /\ crashes' \in Nat
        /\ UNCHANGED <<workflow, product, mutation, log, editor, calls, acts>>
    BY <1>0, <1>11 DEF Drafting!Crash
  <2> QED BY <1>0, <1>4, <2>1
<1>12. ASSUME NEW s \in Sessions, Drafting!Refuse(s) PROVE CommandInv'
  <2> DEFINE x == [command[s] EXCEPT !.pc = "fail", !.new = None]
  <2>1. /\ x \in CommandPlaces /\ x.pc = "fail" /\ x.key = command[s].key
        /\ x.ask = command[s].ask /\ command[s].key \in Pair /\ Reserved(s)
        /\ command' = [command EXCEPT ![s] = x]
    BY <1>2, <1>12 DEF CommandPlaces, Drafting!Refuse, Reserved
  <2> HIDE DEF x
  <2> QED BY <1>5, <1>12, <2>1 DEF Drafting!Refuse
<1>13. ASSUME NEW s \in Sessions, Drafting!Store(s) PROVE CommandInv'
  <2>1. CASE command' = [command EXCEPT ![s].pc = "fail"]
    <3> DEFINE x == [command[s] EXCEPT !.pc = "fail"]
    <3>1. /\ x \in CommandPlaces /\ x.pc = "fail" /\ x.key = command[s].key
          /\ x.ask = command[s].ask /\ command[s].key \in Pair /\ Reserved(s)
          /\ command' = [command EXCEPT ![s] = x]
      BY <1>2, <1>13, <2>1 DEF CommandPlaces, Drafting!Store, Reserved
    <3> HIDE DEF x
    <3> QED BY <1>5, <1>13, <3>1 DEF Drafting!Store
  <2>2. ASSUME NEW d \in DraftIds, Drafting!IsNew(d), NEW x,
               x = Drafting!At("commit", command[s].key, command[s].ask, command[s].copy,
                               command[s].product, d),
               command' = [command EXCEPT ![s] = x],
               Drafting!IsCurrent(command[s].ask, command[s].copy)
        PROVE  CommandInv'
    <3>1. /\ command[s].pc = "store" /\ Reserved(s) /\ Drafting!IsFree
          /\ UNCHANGED <<workflow, product, mutation, calls, log, editor, acts, crashes>>
      BY <1>13 DEF Drafting!Store, Reserved
    <3>2. d \notin Drafting!Existing
      BY <2>2 DEF Drafting!IsNew
    <3>3. /\ command[s].product \in Drafting!Products
          /\ command[s].ask.draft # None =>
                command[s].product = product[command[s].ask.draft]
      BY <1>0, <3>1 DEF AsksAreOfDrafts
    <3>4. /\ x \in CommandPlaces /\ x.pc = "commit" /\ x.key = command[s].key
          /\ x.ask = command[s].ask /\ x.product = command[s].product /\ x.new = d
      BY <1>2, <2>2, <3>3 DEF Drafting!At, CommandPlaces
    <3>5. /\ command'[s] = x /\ \A t \in Sessions \ {s} : command'[t] = command[t]
          /\ command' \in [Sessions -> CommandPlaces]
      BY <1>0, <2>2, <3>4
    <3>6. \A q : Count(q)' = Count(q) /\ Drafting!Existing' = Drafting!Existing
      BY <3>1 DEF Count, DraftsOf, Drafting!Existing
    <3>7. Drafting!TypeOK'
      BY <1>0, <3>1, <3>5 DEF Drafting!TypeOK, CommandPlaces
    <3>8. KeysAreReserved'
      BY <1>0, <1>2, <2>2, <3>1, <3>4, KeysStay
    <3>9. AsksAreOfDrafts'
      BY <1>0, <1>2, <3>1, <3>3, <3>4, <3>5, <3>6 DEF AsksAreOfDrafts
    <3>10. x.ask.draft # None => x.ask.expected = Count(x.product)
      BY <1>2, <2>2, <3>3, <3>4, VersionCounts DEF Drafting!IsCurrent
    <3>11. CommitIsAlone'
      BY <3>1, <3>2, <3>4, <3>5, <3>6, <3>10
      DEF CommitIsAlone, Drafting!HoldsWorkflow, Drafting!IsFree
    <3>12. LogIsOver' /\ Drafting!EditIsNotLost'
      BY <3>1, <3>6 DEF CommandInv, LogIsOver, Drafting!EditIsNotLost
    <3> QED BY <3>7, <3>8, <3>9, <3>11, <3>12 DEF CommandInv
  <2> QED BY <1>13, <2>1, <2>2 DEF Drafting!Store
<1>14. ASSUME NEW s \in Sessions, Drafting!Commit(s) PROVE CommandInv'
  <2> DEFINE x == command[s]
             r == Drafting!Record(x.ask, "completed")
             entry == [product |-> x.product, ask |-> x.ask]
  <2>1. PICK p : p = x.product
    OBVIOUS
  <2>2. /\ x.pc = "commit" /\ Reserved(s) /\ x.key \in Pair /\ x.new \in DraftIds \ Drafting!Existing
        /\ x.product \in Drafting!Products
        /\ x.ask.draft # None => /\ x.product = product[x.ask.draft]
                                 /\ x.ask.expected = Count(x.product)
    BY <1>0, <1>2, <1>14
    DEF CommandInv, CommitIsAlone, AsksAreOfDrafts, Drafting!Commit, Drafting!HoldsWorkflow, Reserved
  <2>3. /\ product' = [product EXCEPT ![x.new] = x.product]
        /\ mutation' = [mutation EXCEPT ![x.key] = r]
        /\ log' = Append(log, entry)
        /\ command' = [command EXCEPT ![s] = Drafting!Idle]
        /\ UNCHANGED <<calls, editor, acts, crashes>>
    BY <1>14 DEF Drafting!Commit
  <2>4. workflow' \in [draft : DraftIds \cup {None}, next : Nat]
    BY <1>0, <1>2, <1>14, <2>2 DEF Drafting!Commit, CommandPlaces
  <2>5. /\ r \in Drafting!Mutations /\ r.ask = x.ask /\ x.ask \in Drafting!Asked
        /\ x.ask.draft \in Drafting!Existing \cup {None} /\ x.ask.expected \in Nat
    BY <1>2 DEF CommandPlaces, Drafting!Record, Drafting!Mutations, Drafting!States,
        Drafting!Asked
  <2>6. /\ entry \in [product : Drafting!Products, ask : Drafting!Asked]
        /\ entry.product = x.product /\ entry.ask = x.ask
    BY <2>2, <2>5
  <2>7. /\ Drafting!Existing' = Drafting!Existing \cup {x.new}
        /\ \A e \in Drafting!Existing : product'[e] = product[e]
        /\ \A q : Count(q) \in Nat /\ Count(q)' \in Nat /\ Count(q) <= Count(q)'
        /\ Count(p) < Count(p)'
    <3>1. PICK d : d = x.new
      OBVIOUS
    <3> QED BY <1>0, <2>2, <2>3, <2>1, <3>1, NewDraftCounts
  <2> HIDE DEF x, r, entry
  <2>8. /\ command'[s] = Drafting!Idle /\ \A t \in Sessions \ {s} : command'[t] = command[t]
        /\ command' \in [Sessions -> CommandPlaces]
    BY <1>0, <2>3, IdlePlace
  <2>9. /\ mutation'[x.key] = r /\ mutation' \in [Pair -> Drafting!Mutations \cup {None}]
        /\ \A k \in Pair \ {x.key} : mutation'[k] = mutation[k]
    BY <1>0, <2>2, <2>3, <2>5
  <2>10. /\ log' \in Seq([product : Drafting!Products, ask : Drafting!Asked])
        /\ DOMAIN log' = DOMAIN log \cup {Len(log) + 1} /\ Len(log) + 1 \notin DOMAIN log
        /\ log'[Len(log) + 1] = entry /\ \A i \in DOMAIN log : log'[i] = log[i]
    <3>1. log \in Seq([product : Drafting!Products, ask : Drafting!Asked])
      BY <1>0 DEF Drafting!TypeOK
    <3> QED BY <2>3, <2>6, <3>1
  <2>11. Drafting!TypeOK'
    <3>1. product' \in [DraftIds -> Drafting!Products \cup {None}]
      BY <1>0, <2>2, <2>3 DEF Drafting!TypeOK
    <3> QED BY <1>0, <2>3, <2>4, <2>8, <2>9, <2>10, <3>1 DEF Drafting!TypeOK, CommandPlaces
  <2>12. KeysAreReserved'
    <3>1. \A m \in Pair : mutation[m] # None => mutation'[m] # None
      BY <2>5, <2>9
    <3>2. Drafting!Idle.pc = "idle"
      BY DEF Drafting!Idle, Drafting!At
    <3> QED BY <1>0, <2>3, <3>1, <3>2, KeysStay
  <2>13. AsksAreOfDrafts'
    <3>1. \A k \in Pair : mutation'[k] # None =>
             mutation'[k].ask.draft \in Drafting!Existing' \cup {None}
      BY <1>0, <2>5, <2>7, <2>9 DEF AsksAreOfDrafts
    <3>2. ASSUME NEW t \in Sessions
          PROVE  /\ command'[t].ask.draft \in Drafting!Existing' \cup {None}
                 /\ command'[t].pc \in {"store", "commit"} =>
                       /\ command'[t].product \in Drafting!Products
                       /\ command'[t].ask.draft # None =>
                             command'[t].product = product'[command'[t].ask.draft]
      <4>1. CASE t = s
        BY <2>8, <4>1, IdlePlace DEF Drafting!Idle, Drafting!At
      <4>2. CASE t # s
        BY <1>0, <2>7, <2>8, <4>2 DEF AsksAreOfDrafts
      <4> QED BY <4>1, <4>2
    <3> QED BY <3>1, <3>2 DEF AsksAreOfDrafts
  <2>14. CommitIsAlone'
    <3>1. \A t \in Sessions : ~Drafting!HoldsWorkflow(t)'
      BY <2>2, <2>8 DEF CommandInv, CommitIsAlone, Drafting!HoldsWorkflow, Drafting!Idle,
         Drafting!At, x
    <3> QED BY <3>1 DEF CommitIsAlone
  <2>15. ASSUME NEW i \in DOMAIN log
         PROVE  log[i].product \in Drafting!Products /\ log[i].ask.expected \in Nat
    BY <1>0, LogEntries
  <2>16. LogIsOver'
    <3> SUFFICES ASSUME NEW i \in DOMAIN log', log'[i].ask.draft # None
                 PROVE  log'[i].ask.expected < Count(log[i].product)'
      BY DEF LogIsOver
    <3>0. PICK q : q = log'[i].product
      OBVIOUS
    <3>3. Count(log[i].product)' = Count(q)'
      BY <3>0 DEF Count, DraftsOf
    <3>1. CASE i \in DOMAIN log
      <4>1. log[i].ask.expected < Count(log[i].product)
        BY <2>10, <3>1 DEF CommandInv, LogIsOver
      <4> QED BY <2>7, <2>10, <2>15, <3>0, <3>1, <3>3, <4>1
    <3>2. CASE i = Len(log) + 1
      BY <2>1, <2>2, <2>5, <2>6, <2>7, <2>10, <3>0, <3>2, <3>3
    <3> QED BY <2>10, <3>1, <3>2
  <2>17. Drafting!EditIsNotLost'
    <3>1. ASSUME NEW i \in DOMAIN log, log[i].ask.draft # None, x.ask.draft # None,
                 log[i].product = x.product
          PROVE  log[i].ask.expected # x.ask.expected
      BY <2>2, <2>5, <2>7, <2>15, <3>1 DEF CommandInv, LogIsOver
    <3> QED BY <2>6, <2>10, <3>1 DEF CommandInv, Drafting!EditIsNotLost
  <2> QED BY <2>11, <2>12, <2>13, <2>14, <2>16, <2>17 DEF CommandInv
<1>15. ASSUME NEW p \in Published, Drafting!ReviseInto(p) PROVE CommandInv'
  <2>1. PICK d \in DraftIds :
           /\ Drafting!IsNew(d) /\ product' = [product EXCEPT ![d] = p]
           /\ workflow' = [workflow EXCEPT !.draft = d]
    BY <1>15 DEF Drafting!ReviseInto
  <2>2. d \notin Drafting!Existing /\ p \in Drafting!Products
    BY <2>1 DEF Drafting!IsNew, Drafting!Products
  <2>3. Drafting!TypeOK'
    <3>1. /\ product' \in [DraftIds -> Drafting!Products \cup {None}]
          /\ workflow' \in [draft : DraftIds \cup {None}, next : Nat] /\ acts' \in Nat
          /\ UNCHANGED <<mutation, command, editor, calls, log, crashes>>
      <4>1. product \in [DraftIds -> Drafting!Products \cup {None}]
        BY <1>0 DEF Drafting!TypeOK
      <4> QED BY <1>0, <1>15, <2>1, <2>2, <4>1 DEF Drafting!ReviseInto
    <3> QED BY <1>0, <3>1 DEF Drafting!TypeOK, CommandPlaces
  <2> QED BY <1>15, <2>1, <2>2, <2>3, DraftAppears DEF Drafting!ReviseInto, Drafting!IsFree
<1>16. ASSUME NEW d \in DraftIds \cup {None}, Drafting!PostEvent(d) PROVE CommandInv'
  <2>1. Drafting!TypeOK'
    BY <1>0, <1>16 DEF Drafting!PostEvent, Drafting!TypeOK, Drafting!Existing
  <2> QED BY <1>16, <2>1 DEF Drafting!PostEvent, CommandInv, KeysAreReserved, Reserved,
     AsksAreOfDrafts, CommitIsAlone, Drafting!HoldsWorkflow, LogIsOver, Count, DraftsOf,
     Drafting!Existing, Drafting!EditIsNotLost
<1> QED
  BY <1>1, <1>3, <1>6, <1>7, <1>8, <1>9, <1>10, <1>11, <1>12, <1>13, <1>14, <1>15, <1>16
  DEF Drafting!Next, Drafting!Step

\* The provider is called once for a key, and of two commands that expect the same version
\* of a product's drafts one is refused, for any number of commands, keys, products and
\* drafts, and wherever a command stops.
THEOREM CommandsStayExclusive == MCSpec => []CommandsExclude
<1> DEFINE Inv == part = "commands" => CommandInv
<1>1. MCInit => Inv
  BY PartInit, InitCommands
<1>2. Inv /\ [MCNext]_allVars => Inv'
  BY PartStep, NextCommands
<1>3. Inv => CommandsExclude
  BY DEF CommandInv, KeysAreReserved, CommandsExclude, Drafting!CalledOnce
<1> QED BY <1>1, <1>2, <1>3, PTL DEF MCSpec

-----------------------------------------------------------------------------
(* The status of a message *)

\* The requests of the message.
Senders == Sessions \cup {Third}

\* What a request may be doing.
Requests ==
    [op : {"edit", "send"}, seen : Messages!Statuses]
      \cup [op : {"record"}, seen : Messages!Statuses, outcome : Messages!Outcomes]

\* A request that waits to record an outcome and the call it made know each other.
CallIsRemembered ==
    /\ \A s \in Senders : Messages!Doing(s, "record") =>
          \E c \in calls : c.by = s /\ c.outcome = work[s].outcome
    /\ \A c \in calls : c.by \in Senders =>
          Messages!Doing(c.by, "record") /\ c.outcome = work[c.by].outcome

\* Only an SMS is sent again by a request that saw it sent, and it is no draft then.
ResentIsSms ==
    \A s \in Senders : work[s] # None /\ work[s].seen = "sent" =>
       /\ work[s].op # "edit" => kind = "sms"
       /\ kind = "sms" => status # "draft"

\* The inductive invariant of the message.
MessageInv ==
    /\ Messages!TypeOK
    /\ work \in [Senders -> Requests \cup {None}]
    /\ status = None => calls = {} /\ \A s \in Senders : work[s] = None
    /\ CallIsRemembered /\ ResentIsSms
    /\ Messages!StatusIsTrue

\* Nothing is known of a message that is not there.
LEMMA InitMessage == Messages!Init => MessageInv
BY ServiceAssumption
DEF MessageInv, Messages!Init, Messages!TypeOK, Messages!StatusIsTrue, Messages!Doing,
    CallIsRemembered, ResentIsSms, Senders, Messages!Recorded, Messages!MessageAssumption,
    Messages!Statuses

\* The calls of a request have been given to another owner, and nothing else changed.
OwnerGiven(s, after) ==
    /\ \A c \in calls : \E d \in calls' :
          d.outcome = c.outcome /\ d.by = IF c.by = s THEN after ELSE c.by
    /\ \A d \in calls' : d.by # s /\ \E c \in calls :
          d.outcome = c.outcome /\ d.by = IF c.by = s THEN after ELSE c.by
    /\ calls' \subseteq
          [outcome : Messages!Outcomes, by : Senders \cup {None, "lost"}]

\* What a request that records or stops does to its calls.
LEMMA GiveCalls ==
    ASSUME Messages!TypeOK, NEW s \in Senders, NEW after \in {None, "lost"}, after # s,
           calls' = Messages!Owner(s, after)
    PROVE  OwnerGiven(s, after)
<1> DEFINE Given(c) == IF c.by = s THEN [c EXCEPT !.by = after] ELSE c
<1>1. calls' = {Given(c) : c \in calls}
  BY DEF Messages!Owner
<1>2. ASSUME NEW c \in calls
      PROVE  /\ Given(c).outcome = c.outcome
             /\ Given(c).by = IF c.by = s THEN after ELSE c.by
             /\ Given(c) \in [outcome : Messages!Outcomes, by : Senders \cup {None, "lost"}]
  <2>1. c \in [outcome : Messages!Outcomes, by : Senders \cup {None, "lost"}]
    BY DEF Messages!TypeOK, Senders
  <2> QED BY <2>1
<1> HIDE DEF Given
<1> QED BY <1>1, <1>2 DEF OwnerGiven

\* Every step of a request keeps it, one case per action.
LEMMA NextMessage == MessageInv /\ [Messages!Next]_(Messages!vars) => MessageInv'
<1> SUFFICES ASSUME MessageInv, [Messages!Next]_(Messages!vars) PROVE MessageInv'
  OBVIOUS
<1>0. Messages!MessageAssumption
  BY ServiceAssumption
<1> USE <1>0
    DEF MessageInv, Messages!TypeOK, CallIsRemembered, ResentIsSms, Messages!StatusIsTrue,
        Messages!MessageAssumption, Requests, Senders, Messages!Doing, Messages!Goto,
        Messages!End, Messages!Statuses, Messages!Outcomes, Messages!Recorded
<1>1. ASSUME NEW s \in Senders, Messages!NewDraft(s), UNCHANGED work PROVE MessageInv'
  BY <1>1 DEF Messages!NewDraft
<1>2. ASSUME NEW s \in Senders, Messages!NewAndSend(s) PROVE MessageInv'
  BY <1>2 DEF Messages!NewAndSend, Messages!NewDraft
<1>3. ASSUME NEW s \in Senders, Messages!Begin(s, "edit") PROVE MessageInv'
  BY <1>3 DEF Messages!Begin
<1>4. ASSUME NEW s \in Senders, Messages!Begin(s, "send"), status # "sent" \/ kind = "sms"
      PROVE  MessageInv'
  BY <1>4 DEF Messages!Begin
<1>5. ASSUME NEW s \in Senders, Messages!CommitEdit(s) PROVE MessageInv'
  BY <1>5 DEF Messages!CommitEdit, Messages!Write
<1>6. ASSUME NEW s \in Senders, Messages!Call(s) PROVE MessageInv'
  <2>1. PICK o \in Messages!Outcomes :
           /\ work' = [work EXCEPT ![s] =
                          [op |-> "record", seen |-> work[s].seen, outcome |-> o]]
           /\ calls' = calls \cup {[outcome |-> o, by |-> s]}
    BY <1>6 DEF Messages!Call
  <2>2. /\ kind' = kind /\ status' = status /\ status # None
        /\ work[s] \in Requests /\ work[s].op = "send" /\ work[s] # None
    BY <1>6 DEF Messages!Call
  <2>3. /\ work'[s] = [op |-> "record", seen |-> work[s].seen, outcome |-> o]
        /\ \A t \in Senders : t # s => work'[t] = work[t]
        /\ work'[s] \in Requests
    BY <2>1, <2>2
  <2>0. [op |-> "record", seen |-> work[s].seen, outcome |-> o] # None
    <3>1. [op |-> "record", seen |-> work[s].seen, outcome |-> o]
             \in [op : {"record"}, seen : Messages!Statuses, outcome : Messages!Outcomes]
      BY <2>2
    <3> QED BY <3>1
  <2>4. \A c \in calls : c.by # s
    BY <2>2
  <2>5. [outcome |-> o, by |-> s] \in [outcome : Messages!Outcomes, by : Senders \cup {None, "lost"}]
    OBVIOUS
  <2>6. Messages!TypeOK' /\ work' \in [Senders -> Requests \cup {None}]
    BY <2>1, <2>2, <2>3, <2>5
  <2>7. CallIsRemembered'
    <3>1. ASSUME NEW t \in Senders, work'[t] # None, work'[t].op = "record"
          PROVE  \E c \in calls' : c.by = t /\ c.outcome = work'[t].outcome
      <4>1. CASE t = s
        <5>1. [outcome |-> o, by |-> s] \in calls' /\ work'[s].outcome = o
          BY <2>1, <2>3
        <5> QED BY <4>1, <5>1
      <4>2. CASE t # s
        BY <2>1, <2>3, <3>1, <4>2
      <4> QED BY <4>1, <4>2
    <3>2. ASSUME NEW c \in calls', c.by \in Senders
          PROVE  /\ work'[c.by] # None /\ work'[c.by].op = "record"
                 /\ c.outcome = work'[c.by].outcome
      <4>1. CASE c \in calls
        BY <2>3, <2>4, <3>2, <4>1
      <4>2. CASE c = [outcome |-> o, by |-> s]
        BY <2>0, <2>3, <4>2
      <4> QED BY <2>1, <4>1, <4>2
    <3> QED BY <3>1, <3>2
  <2>8. ResentIsSms'
    BY <2>1, <2>2, <2>3
  <2>9. Messages!StatusIsTrue'
    BY <2>1, <2>2
  <2> QED BY <2>2, <2>6, <2>7, <2>8, <2>9
<1>7. ASSUME NEW s \in Senders, Messages!Record(s) PROVE MessageInv'
  <2>1. /\ work[s] \in Requests /\ work[s].op = "record" /\ work[s] # None
        /\ kind' = kind /\ status # None
        /\ work' = [work EXCEPT ![s] = None]
        /\ status' = IF work[s].seen = Messages!StatusAfter(work[s].outcome) THEN status
                     ELSE Messages!StatusAfter(work[s].outcome)
    BY <1>7 DEF Messages!Record, Messages!Write
  <2>2. OwnerGiven(s, None)
    BY <1>7, GiveCalls DEF Messages!Record
  <2>3. work[s].outcome \in Messages!Outcomes /\ work[s].seen \in Messages!Statuses
    BY <2>1
  <2>4. PICK mine \in calls : mine.by = s /\ mine.outcome = work[s].outcome
    BY <2>1
  <2>5. PICK recorded \in calls' : recorded.outcome = work[s].outcome
    BY <2>2, <2>4 DEF OwnerGiven
  <2>6. Messages!StatusAfter(work[s].outcome) \in {"sent", "failed"}
    BY DEF Messages!StatusAfter
  <2>7. status' \in Messages!Statuses /\ (status' = "draft" => status = "draft")
    BY <2>1, <2>6
  <2>8. Messages!TypeOK' /\ work' \in [Senders -> Requests \cup {None}]
    BY <2>1, <2>2, <2>7 DEF OwnerGiven
  <2>9. CallIsRemembered'
    BY <2>1, <2>2 DEF OwnerGiven
  <2>10. ResentIsSms'
    BY <2>1, <2>7
  <2>11. (status = "sent" => \E c \in calls' : c.outcome = Accepted)
         /\ (status = "failed" => \E c \in calls' : c.outcome = Raised)
    BY <2>2 DEF OwnerGiven
  <2>12. (status' = "sent" => \E c \in calls' : c.outcome = Accepted)
         /\ (status' = "failed" => \E c \in calls' : c.outcome = Raised)
    BY <2>1, <2>3, <2>5, <2>11 DEF Messages!StatusAfter
  <2>13. ASSUME status' = "draft", NEW c \in calls', c.by = None PROVE c.outcome = Raised
    <3>1. status = "draft" /\ work[s].outcome = Raised
      BY <2>1, <2>3, <2>6, <2>13 DEF Messages!StatusAfter
    <3> QED BY <2>1, <2>2, <2>13, <3>1 DEF OwnerGiven
  <2> QED BY <2>1, <2>7, <2>8, <2>9, <2>10, <2>12, <2>13
<1>8. ASSUME NEW s \in Senders, Messages!Stop(s) PROVE MessageInv'
  <2>1. work' = [work EXCEPT ![s] = None] /\ kind' = kind /\ status' = status
    BY <1>8 DEF Messages!Stop
  <2>2. OwnerGiven(s, "lost")
    BY <1>8, GiveCalls DEF Messages!Stop
  <2>3. status # None
    BY <1>8 DEF Messages!Stop
  <2>4. Messages!TypeOK' /\ work' \in [Senders -> Requests \cup {None}]
    BY <2>1, <2>2 DEF OwnerGiven
  <2>5. CallIsRemembered' /\ ResentIsSms'
    BY <2>1, <2>2 DEF OwnerGiven
  <2>6. Messages!StatusIsTrue'
    BY <2>1, <2>2 DEF OwnerGiven
  <2> QED BY <2>1, <2>3, <2>4, <2>5, <2>6
<1>9. CASE UNCHANGED Messages!vars
  BY <1>9 DEF Messages!vars
<1> QED
  BY <1>1, <1>2, <1>3, <1>4, <1>5, <1>6, <1>7, <1>8, <1>9
  DEF Messages!Next, Messages!Prepare, Messages!PrepareSms, Messages!PrepareEmail,
      Messages!PreparePacket, Messages!PrepareCampaign, Messages!EmailNow,
      Messages!SmokeTest, Messages!LoadEdit, Messages!UpdateSms, Messages!UpdateEmail,
      Messages!PrepareAgain, Messages!LoadSend, Messages!SendSms, Messages!SendEmail,
      Messages!SendPacket, Messages!SendCampaign

\* However many requests edit, prepare and send a message at once, and wherever each of
\* them stops, its status says what is known of its delivery.
THEOREM MessageStatusIsTrue == MCSpec => []StatusIsTrue
<1> DEFINE Inv == part = "outreach" => MessageInv
<1>1. MCInit => Inv
  BY PartInit, InitMessage
<1>2. Inv /\ [MCNext]_allVars => Inv'
  BY PartStep, NextMessage
<1>3. Inv => StatusIsTrue
  BY DEF MessageInv, StatusIsTrue
<1> QED BY <1>1, <1>2, <1>3, PTL DEF MCSpec

-----------------------------------------------------------------------------
(* Cutovers and daily orders *)

\* What SyntheticDataProofs proves, of each of the two instances of its module.
LoadProofs == INSTANCE SyntheticDataProofs
                WITH Runs <- Pair, Daily <- Beside, Kinds <- LoadKinds, Today <- 1, MaxOrders <- 1
DailyProofs == INSTANCE SyntheticDataProofs
                 WITH Daily <- Sessions, Kinds <- {}, MaxOrders <- OrderLimit

\* SyntheticDataProofs extends the module that MCServices instantiates: the two say the
\* same, definition by definition.
LEMMA LoadInit == Loads!Init <=> LoadProofs!Init
BY DEF Loads!Init, Loads!Entities, Loads!Days, Loads!Numbers, Loads!NoOrders,
       Loads!NoMetrics, Loads!Empty, LoadProofs!Init, LoadProofs!Entities,
       LoadProofs!Days, LoadProofs!Numbers, LoadProofs!NoOrders, LoadProofs!NoMetrics,
       LoadProofs!Empty
LEMMA LoadNext == [Loads!Next]_(Loads!vars) <=> [LoadProofs!Next]_(LoadProofs!vars)
BY DEF Loads!vars, Loads!Loads, Loads!Entities, Loads!Days, Loads!DailyRuns,
       Loads!DaysOf, Loads!Numbers, Loads!Ids, Loads!NoOrders, Loads!NoMetrics,
       Loads!Empty, Loads!dataVars, Loads!dayVars, Loads!Preflight, Loads!Idle,
       Loads!Ended, Loads!Goon, Loads!StartLoad, Loads!Doing, Loads!Open, Loads!Locked,
       Loads!LockedMetrics, Loads!Holds, Loads!Reset, Loads!AfterLast, Loads!LoadEntity,
       Loads!Normalize, Loads!Count, Loads!MarkLoaded, Loads!FailLoad, Loads!Goto,
       Loads!Written, Loads!Latest, Loads!Plan, Loads!HasSource, Loads!Start,
       Loads!Select, Loads!DeleteOrders, Loads!DeleteMetrics, Loads!Insert,
       Loads!MetricsAfter, Loads!CommitRows, Loads!MarkDaily, Loads!FailDaily,
       Loads!StopDaily, Loads!Next, LoadProofs!vars, LoadProofs!Loads,
       LoadProofs!Entities, LoadProofs!Days, LoadProofs!DailyRuns, LoadProofs!DaysOf,
       LoadProofs!Numbers, LoadProofs!Ids, LoadProofs!NoOrders, LoadProofs!NoMetrics,
       LoadProofs!Empty, LoadProofs!dataVars, LoadProofs!dayVars, LoadProofs!Preflight,
       LoadProofs!Idle, LoadProofs!Ended, LoadProofs!Goon, LoadProofs!StartLoad,
       LoadProofs!Doing, LoadProofs!Open, LoadProofs!Locked, LoadProofs!LockedMetrics,
       LoadProofs!Holds, LoadProofs!Reset, LoadProofs!AfterLast, LoadProofs!LoadEntity,
       LoadProofs!Normalize, LoadProofs!Count, LoadProofs!MarkLoaded,
       LoadProofs!FailLoad, LoadProofs!Goto, LoadProofs!Written, LoadProofs!Latest,
       LoadProofs!Plan, LoadProofs!HasSource, LoadProofs!Start, LoadProofs!Select,
       LoadProofs!DeleteOrders, LoadProofs!DeleteMetrics, LoadProofs!Insert,
       LoadProofs!MetricsAfter, LoadProofs!CommitRows, LoadProofs!MarkDaily,
       LoadProofs!FailDaily, LoadProofs!StopDaily, LoadProofs!Next
LEMMA LoadClaims ==
    /\ Loads!CutoverIsWhole <=> LoadProofs!CutoverIsWhole
    /\ Loads!MetricsFollowOrders <=> LoadProofs!MetricsFollowOrders
    /\ Loads!DataAssumption <=> LoadProofs!DataAssumption
BY DEF Loads!CutoverIsWhole, Loads!MetricsFollowOrders, Loads!DataAssumption,
       Loads!Preflight, Loads!Entities, Loads!Days, Loads!DailyRuns,
       LoadProofs!CutoverIsWhole, LoadProofs!MetricsFollowOrders,
       LoadProofs!DataAssumption, LoadProofs!Preflight, LoadProofs!Entities,
       LoadProofs!Days, LoadProofs!DailyRuns

\* The same of the daily orders.
LEMMA DailyInit == DailyOrders!Init <=> DailyProofs!Init
BY DEF DailyOrders!Init, DailyOrders!Entities, DailyOrders!Days, DailyOrders!Numbers,
       DailyOrders!NoOrders, DailyOrders!NoMetrics, DailyOrders!Empty, DailyProofs!Init,
       DailyProofs!Entities, DailyProofs!Days, DailyProofs!Numbers,
       DailyProofs!NoOrders, DailyProofs!NoMetrics, DailyProofs!Empty
LEMMA DailyNext == [DailyOrders!Next]_(DailyOrders!vars) <=> [DailyProofs!Next]_(DailyProofs!vars)
BY DEF DailyOrders!vars, DailyOrders!Loads, DailyOrders!Entities, DailyOrders!Days,
       DailyOrders!DailyRuns, DailyOrders!DaysOf, DailyOrders!Numbers, DailyOrders!Ids,
       DailyOrders!NoOrders, DailyOrders!NoMetrics, DailyOrders!Empty,
       DailyOrders!dataVars, DailyOrders!dayVars, DailyOrders!Preflight,
       DailyOrders!Idle, DailyOrders!Ended, DailyOrders!Goon, DailyOrders!StartLoad,
       DailyOrders!Doing, DailyOrders!Open, DailyOrders!Locked,
       DailyOrders!LockedMetrics, DailyOrders!Holds, DailyOrders!Reset,
       DailyOrders!AfterLast, DailyOrders!LoadEntity, DailyOrders!Normalize,
       DailyOrders!Count, DailyOrders!MarkLoaded, DailyOrders!FailLoad,
       DailyOrders!Goto, DailyOrders!Written, DailyOrders!Latest, DailyOrders!Plan,
       DailyOrders!HasSource, DailyOrders!Start, DailyOrders!Select,
       DailyOrders!DeleteOrders, DailyOrders!DeleteMetrics, DailyOrders!Insert,
       DailyOrders!MetricsAfter, DailyOrders!CommitRows, DailyOrders!MarkDaily,
       DailyOrders!FailDaily, DailyOrders!StopDaily, DailyOrders!Next, DailyProofs!vars,
       DailyProofs!Loads, DailyProofs!Entities, DailyProofs!Days, DailyProofs!DailyRuns,
       DailyProofs!DaysOf, DailyProofs!Numbers, DailyProofs!Ids, DailyProofs!NoOrders,
       DailyProofs!NoMetrics, DailyProofs!Empty, DailyProofs!dataVars,
       DailyProofs!dayVars, DailyProofs!Preflight, DailyProofs!Idle, DailyProofs!Ended,
       DailyProofs!Goon, DailyProofs!StartLoad, DailyProofs!Doing, DailyProofs!Open,
       DailyProofs!Locked, DailyProofs!LockedMetrics, DailyProofs!Holds,
       DailyProofs!Reset, DailyProofs!AfterLast, DailyProofs!LoadEntity,
       DailyProofs!Normalize, DailyProofs!Count, DailyProofs!MarkLoaded,
       DailyProofs!FailLoad, DailyProofs!Goto, DailyProofs!Written, DailyProofs!Latest,
       DailyProofs!Plan, DailyProofs!HasSource, DailyProofs!Start, DailyProofs!Select,
       DailyProofs!DeleteOrders, DailyProofs!DeleteMetrics, DailyProofs!Insert,
       DailyProofs!MetricsAfter, DailyProofs!CommitRows, DailyProofs!MarkDaily,
       DailyProofs!FailDaily, DailyProofs!StopDaily, DailyProofs!Next
LEMMA DailyClaims ==
    /\ DailyOrders!CutoverIsWhole <=> DailyProofs!CutoverIsWhole
    /\ DailyOrders!MetricsFollowOrders <=> DailyProofs!MetricsFollowOrders
    /\ DailyOrders!DataAssumption <=> DailyProofs!DataAssumption
BY DEF DailyOrders!CutoverIsWhole, DailyOrders!MetricsFollowOrders,
       DailyOrders!DataAssumption, DailyOrders!Preflight, DailyOrders!Entities,
       DailyOrders!Days, DailyOrders!DailyRuns, DailyProofs!CutoverIsWhole,
       DailyProofs!MetricsFollowOrders, DailyProofs!DataAssumption,
       DailyProofs!Preflight, DailyProofs!Entities, DailyProofs!Days,
       DailyProofs!DailyRuns

\* A cutover that ends well leaves the rows of its run and no others, one that fails a
\* catalog its rollback may replace, whatever was loaded before and is written beside it;
\* and the metric rows of a day are of the run that wrote its first order, however many
\* processes write daily orders, overlap, fail and stop.
THEOREM LoadsStayWhole == MCSpec => []LoadsAreWhole
<1> DEFINE Inv == /\ part = "loads" => LoadProofs!LoadInv /\ LoadProofs!DayInv
                  /\ part = "daily orders" => DailyProofs!DayInv
<1>0. LoadProofs!DataAssumption /\ DailyProofs!DataAssumption
  BY ServiceAssumption, LoadClaims, DailyClaims
<1>1. MCInit => Inv
  BY <1>0, PartInit, LoadInit, DailyInit, LoadProofs!InitLoad, LoadProofs!InitDay,
     DailyProofs!InitDay
<1>2. Inv /\ [MCNext]_allVars => Inv'
  BY <1>0, PartStep, LoadNext, DailyNext, LoadProofs!NextLoad, LoadProofs!NextDay,
     DailyProofs!NextDay
<1>3. Inv => LoadsAreWhole
  <2>1. LoadProofs!LoadInv => LoadProofs!CutoverIsWhole
    BY LoadProofs!FilledIsWhole
  <2>2. LoadProofs!DayInv => LoadProofs!MetricsFollowOrders
    BY DEF LoadProofs!DayInv
  <2>3. DailyProofs!DayInv => DailyProofs!MetricsFollowOrders
    BY DEF DailyProofs!DayInv
  <2> QED BY <2>1, <2>2, <2>3, LoadClaims, DailyClaims DEF LoadsAreWhole
<1> QED BY <1>1, <1>2, <1>3, PTL DEF MCSpec

-----------------------------------------------------------------------------
(* The spans of a trace *)

\* What a recorder has read is old, but the root it read is still a span of the trace.
SeenRootIsPresent ==
    \A p \in Projections : task[p] \notin {None, Done} =>
       /\ task[p].at \in Int
       /\ task[p].trace = None => task[p].parent[p.root] = "absent"
       /\ task[p].trace # None =>
             /\ task[p].trace \in Traces!TraceRows
             /\ task[p].parent[task[p].trace.root] # "absent"
             /\ parent[task[p].trace.root] # "absent"

\* The inductive invariant of the trace.
TraceInv ==
    /\ now \in Nat /\ DOMAIN task = Projections
    /\ parent \in [Spans -> Spans \cup {None, "absent"}]
    /\ trace # None => trace \in Traces!TraceRows
    /\ trace = None => Traces!Present = {}
    /\ SeenRootIsPresent
    /\ Traces!SpansAreOneTree

\* No span is recorded.
LEMMA InitTrace == Traces!Init => TraceInv
BY DEF Traces!Init, TraceInv, SeenRootIsPresent, Traces!Present, Traces!SpansAreOneTree

\* A new span below one that is there keeps the tree.
LEMMA LeafKeepsTree ==
    ASSUME TraceInv, trace # None, NEW n \in Spans, parent[n] = "absent",
           NEW t \in Traces!Present, parent' = [parent EXCEPT ![n] = t],
           trace' # None, trace'.root = trace.root
    PROVE  Traces!SpansAreOneTree'
<1> USE DEF TraceInv, Traces!Present
<1>0. /\ Spans \cap {None, "absent"} = {} /\ None # "absent"
  BY ServiceAssumption DEF Traces!ProjectionAssumption
<1>1. /\ trace.root \in Traces!Present /\ parent[trace.root] = None
      /\ \A s \in Traces!Present \ {trace.root} : parent[s] \in Traces!Present
      /\ \A group \in (SUBSET Traces!Present) \ {{}} : \E s \in group : parent[s] \notin group
  BY DEF Traces!SpansAreOneTree
<1>2. Traces!Present' = Traces!Present \cup {n} /\ n \notin Traces!Present /\ n # t
  BY <1>0
<1>3. /\ parent'[n] = t /\ \A s \in Traces!Present : parent'[s] = parent[s]
  BY <1>2
<1>4. ASSUME NEW group \in SUBSET Traces!Present', group # {}
      PROVE  \E s \in group : parent'[s] \notin group
  <2>1. CASE group \ {n} = {}
    BY <1>2, <1>3, <1>4, <2>1
  <2>2. CASE group \ {n} # {}
    <3>1. group \ {n} \in (SUBSET Traces!Present) \ {{}}
      <4>1. group \subseteq Traces!Present'
        BY <1>4
      <4> HIDE DEF Traces!Present
      <4> QED BY <1>2, <2>2, <4>1
    <3>2. PICK s \in group \ {n} : parent[s] \notin group \ {n}
      BY <1>1, <3>1
    <3>3. s \in Traces!Present /\ parent[s] \in Traces!Present \cup {None}
      BY <1>1, <3>1
    <3>4. parent[s] # n
      BY <1>0, <1>2, <3>3
    <3> QED BY <1>3, <3>2, <3>3, <3>4
  <2> QED BY <2>1, <2>2
<1>5. \A s \in Traces!Present' \ {trace'.root} : parent'[s] \in Traces!Present'
  BY <1>1, <1>2, <1>3
<1>6. trace'.root \in Traces!Present' /\ parent'[trace'.root] = None
  BY <1>1, <1>2, <1>3
<1> HIDE DEF Traces!Present
<1> QED BY <1>4, <1>5, <1>6 DEF Traces!SpansAreOneTree

\* A new root above the old one keeps the tree.
LEMMA RootKeepsTree ==
    ASSUME TraceInv, trace # None, NEW n \in Spans, parent[n] = "absent",
           parent' = [parent EXCEPT ![trace.root] = n, ![n] = None],
           trace' # None, trace'.root = n
    PROVE  Traces!SpansAreOneTree'
<1> USE DEF TraceInv, Traces!Present
<1>0. /\ Spans \cap {None, "absent"} = {} /\ None # "absent"
  BY ServiceAssumption DEF Traces!ProjectionAssumption
<1>1. /\ trace.root \in Traces!Present /\ parent[trace.root] = None
      /\ \A s \in Traces!Present \ {trace.root} : parent[s] \in Traces!Present
      /\ \A group \in (SUBSET Traces!Present) \ {{}} : \E s \in group : parent[s] \notin group
  BY DEF Traces!SpansAreOneTree
<1>2. /\ Traces!Present' = Traces!Present \cup {n} /\ n \notin Traces!Present
      /\ parent'[n] = None /\ parent'[trace.root] = n
      /\ \A s \in Traces!Present \ {trace.root} : parent'[s] = parent[s]
  BY <1>0, <1>1
<1>3. ASSUME NEW group \in SUBSET Traces!Present', group # {}
      PROVE  \E s \in group : parent'[s] \notin group
  <2>1. None \notin group
    BY <1>0, <1>3
  <2>2. CASE n \in group
    BY <1>2, <2>1, <2>2
  <2>3. CASE n \notin group
    <3>1. group \in (SUBSET Traces!Present) \ {{}}
      <4>1. group \subseteq Traces!Present' /\ group # {}
        BY <1>3
      <4> HIDE DEF Traces!Present
      <4> QED BY <1>2, <2>3, <4>1
    <3>2. PICK s \in group : parent[s] \notin group
      BY <1>1, <3>1
    <3> QED BY <1>2, <2>3, <3>1, <3>2
  <2> QED BY <2>2, <2>3
<1>4. \A s \in Traces!Present' \ {trace'.root} : parent'[s] \in Traces!Present'
  BY <1>1, <1>2
<1>5. trace'.root \in Traces!Present' /\ parent'[trace'.root] = None
  BY <1>2
<1> HIDE DEF Traces!Present
<1> QED BY <1>3, <1>4, <1>5 DEF Traces!SpansAreOneTree

\* Every step keeps it, one case per action.
LEMMA NextTrace == TraceInv /\ [Traces!Next]_(Traces!vars) => TraceInv'
<1> SUFFICES ASSUME TraceInv, [Traces!Next]_(Traces!vars) PROVE TraceInv'
  OBVIOUS
<1>0. /\ Spans \cap {None, "absent"} = {} /\ None # "absent" /\ BrowserSpans \subseteq Spans
      /\ Retention \in Nat /\ None \notin Traces!TraceRows
      /\ \A p \in Projections : p.root \in Spans
  BY ServiceAssumption DEF Traces!ProjectionAssumption, Traces!TraceRows
<1>1. ASSUME NEW p \in Projections, Traces!Load(p) PROVE TraceInv'
  <2>1. trace # None => parent[trace.root] # "absent"
    BY DEF TraceInv, Traces!SpansAreOneTree, Traces!Present
  <2>2. SeenRootIsPresent'
    <3>1. task' = [task EXCEPT ![p] = [trace |-> trace, parent |-> parent, rows |-> rows, at |-> now]]
          /\ trace' = trace /\ parent' = parent
      BY <1>1 DEF Traces!Load
    <3>2. task'[p] = [trace |-> trace, parent |-> parent, rows |-> rows, at |-> now]
      BY <3>1 DEF TraceInv
    <3>3. \A q \in Projections : q # p => task'[q] = task[q]
      BY <3>1 DEF TraceInv
    <3>4. /\ trace = None => parent[p.root] = "absent"
          /\ trace # None => trace \in Traces!TraceRows
          /\ now \in Int
      BY <1>0 DEF TraceInv, Traces!Present
    <3> QED BY <2>1, <3>1, <3>2, <3>3, <3>4 DEF TraceInv, SeenRootIsPresent
  <2> QED BY <1>1, <2>2 DEF Traces!Load, TraceInv, Traces!SpansAreOneTree, Traces!Present
<1>2. ASSUME NEW p \in Projections, Traces!Record(p) PROVE TraceInv'
  <2> DEFINE seen == task[p]
  <2>1. /\ seen \notin {None, Done} /\ Traces!Recordable(p, seen)
        /\ trace' = IF trace = None
                    THEN [root |-> p.root, until |-> seen.at + Retention,
                          kept |-> seen.at + 2 * Retention]
                    ELSE Traces!Renewed(seen)
        /\ parent' = IF seen.parent[p.root] = "absent"
                     THEN [parent EXCEPT ![p.root] = Traces!PersistedParent(p, seen)]
                     ELSE parent
        /\ task' = [task EXCEPT ![p] = Done] /\ now' = now
    BY <1>2 DEF Traces!Record
  <2>2. /\ seen.at \in Int /\ (seen.trace = None) = (trace = None)
        /\ seen.parent[p.root] = "absent" => parent[p.root] = "absent"
        /\ trace = None => seen.parent[p.root] = "absent"
        /\ trace # None => /\ seen.trace # None /\ seen.trace \in Traces!TraceRows
                           /\ seen.parent[seen.trace.root] # "absent"
                           /\ parent[seen.trace.root] # "absent"
    BY <2>1 DEF TraceInv, SeenRootIsPresent, Traces!Recordable
  <2> HIDE DEF seen
  <2>3. trace' \in Traces!TraceRows /\ (trace # None => trace'.root = trace.root)
    <3>1. CASE trace = None
      BY <1>0, <2>1, <2>2, <3>1 DEF Traces!TraceRows
    <3>2. CASE trace # None
      <4>1. /\ Traces!Later(seen.trace.until, seen.at + Retention) \in Int
            /\ Traces!Later(seen.trace.kept, seen.at + 2 * Retention) \in Int
        BY <1>0, <2>2, <3>2 DEF Traces!TraceRows, Traces!Later
      <4>2. trace' = Traces!Renewed(seen) /\ trace \in Traces!TraceRows
        BY <2>1, <3>2 DEF TraceInv
      <4> QED BY <4>1, <4>2 DEF Traces!TraceRows, Traces!Renewed
    <3> QED BY <3>1, <3>2
  <2>4. trace' # None
    BY <1>0, <2>3
  <2>5. CASE trace = None
    <3>1. /\ parent' = [parent EXCEPT ![p.root] = None] /\ trace'.root = p.root
          /\ \A s \in Spans : parent[s] = "absent"
      BY <2>1, <2>2, <2>5 DEF TraceInv, Traces!Present, Traces!PersistedParent
    <3>2. Traces!Present' = {p.root} /\ parent'[p.root] = None
      BY <1>0, <3>1 DEF TraceInv, Traces!Present
    <3>3. \A group \in (SUBSET {p.root}) \ {{}} : p.root \in group /\ None \notin group
      <4>1. p.root # None
        BY <1>0
      <4> QED BY <4>1
    <3>4. Traces!SpansAreOneTree'
      BY <3>1, <3>2, <3>3 DEF Traces!SpansAreOneTree
    <3>5. parent' \in [Spans -> Spans \cup {None, "absent"}]
      BY <3>1 DEF TraceInv
    <3>6. SeenRootIsPresent'
      BY <1>0, <2>1, <3>1 DEF TraceInv, SeenRootIsPresent, Traces!TraceRows
    <3> QED BY <2>1, <2>3, <2>4, <3>4, <3>5, <3>6 DEF TraceInv
  <2>6. CASE trace # None /\ seen.parent[p.root] # "absent"
    <3>1. parent' = parent
      BY <2>1, <2>6
    <3>2. Traces!SpansAreOneTree'
      BY <2>3, <2>6, <3>1 DEF TraceInv, Traces!SpansAreOneTree, Traces!Present
    <3>3. SeenRootIsPresent'
      BY <2>1, <3>1 DEF TraceInv, SeenRootIsPresent
    <3> QED BY <2>1, <2>3, <2>4, <3>1, <3>2, <3>3 DEF TraceInv
  <2>7. CASE trace # None /\ seen.parent[p.root] = "absent"
    <3>1. /\ parent' = [parent EXCEPT ![p.root] = seen.trace.root]
          /\ parent[p.root] = "absent" /\ seen.trace.root \in Traces!Present
      BY <2>1, <2>2, <2>7 DEF Traces!PersistedParent, Traces!TraceRows, Traces!Present
    <3>2. Traces!SpansAreOneTree'
      BY <1>0, <2>3, <2>4, <2>7, <3>1, LeafKeepsTree
    <3>3. parent' \in [Spans -> Spans \cup {None, "absent"}]
      BY <3>1 DEF TraceInv, Traces!Present
    <3>4. \A s \in Spans : parent[s] # "absent" => parent'[s] # "absent"
      BY <3>1 DEF TraceInv
    <3>5. SeenRootIsPresent'
      BY <2>1, <3>4 DEF TraceInv, SeenRootIsPresent, Traces!TraceRows
    <3> QED BY <2>1, <2>3, <2>4, <3>2, <3>3, <3>5 DEF TraceInv
  <2> QED BY <2>5, <2>6, <2>7
<1>3. ASSUME NEW p \in Projections, Traces!Drop(p) PROVE TraceInv'
  BY <1>3 DEF Traces!Drop, TraceInv, SeenRootIsPresent, Traces!SpansAreOneTree, Traces!Present
<1>4. ASSUME Traces!AppendEvent PROVE TraceInv'
  <2>1. trace # None /\ trace \in Traces!TraceRows /\ now' = now /\ task' = task
    BY <1>4 DEF Traces!AppendEvent, Traces!Exists, TraceInv
  <2>2. CASE UNCHANGED <<parent, trace>>
    BY <2>1, <2>2 DEF TraceInv, SeenRootIsPresent, Traces!SpansAreOneTree, Traces!Present
  <2>3. ASSUME NEW s \in BrowserSpans, Traces!Reroot(s), parent[s] = "absent" PROVE TraceInv'
    <3>1. /\ parent' = [parent EXCEPT ![trace.root] = s, ![s] = None]
          /\ trace' = [trace EXCEPT !.root = s]
          /\ s \in Spans /\ trace.root \in Spans
      BY <1>0, <2>1, <2>3 DEF Traces!Reroot, Traces!TraceRows
    <3>2. trace' \in Traces!TraceRows /\ trace'.root = s
      BY <2>1, <3>1 DEF Traces!TraceRows
    <3>3. trace' # None
      BY <1>0, <3>2
    <3>4. Traces!SpansAreOneTree'
      BY <2>1, <2>3, <3>1, <3>2, <3>3, RootKeepsTree
    <3>5. parent' \in [Spans -> Spans \cup {None, "absent"}]
      BY <3>1 DEF TraceInv
    <3>6. \A t \in Spans : parent[t] # "absent" => parent'[t] # "absent"
      BY <1>0, <3>1 DEF TraceInv
    <3>7. SeenRootIsPresent'
      BY <2>1, <3>6 DEF TraceInv, SeenRootIsPresent, Traces!TraceRows
    <3> QED BY <2>1, <3>2, <3>3, <3>4, <3>5, <3>7 DEF TraceInv
  <2> QED BY <1>4, <2>2, <2>3 DEF Traces!AppendEvent, Traces!Reroot
<1>5. CASE Traces!Poll \/ Traces!Tick \/ UNCHANGED Traces!vars
  <2>1. UNCHANGED <<trace, parent, task>>
    BY <1>5 DEF Traces!Poll, Traces!Tick, Traces!vars
  <2>2. now' \in Nat
    BY <1>5 DEF Traces!Poll, Traces!Tick, Traces!vars, TraceInv
  <2> QED BY <2>1, <2>2 DEF TraceInv, SeenRootIsPresent, Traces!SpansAreOneTree, Traces!Present
<1> QED BY <1>1, <1>2, <1>3, <1>4, <1>5 DEF Traces!Next, Traces!Serve

\* The spans of a trace are one tree, for any number of recorders and whatever they read
\* before the browser put a new root above it.
THEOREM TraceIsOneTree == MCSpec => []SpansAreOneTree
<1> DEFINE Inv == part = "traces" => TraceInv
<1>1. MCInit => Inv
  BY PartInit, InitTrace
<1>2. Inv /\ [MCNext]_allVars => Inv'
  BY PartStep, NextTrace
<1>3. Inv => SpansAreOneTree
  BY DEF TraceInv, SpansAreOneTree
<1> QED BY <1>1, <1>2, <1>3, PTL DEF MCSpec

-----------------------------------------------------------------------------
(* Turns of the chat *)

\* What a chat request may be doing.
ChatWork ==
    [op : {"insert", "find", "turn", "route", "commit"}, who : Chat!Identities,
     customer : BOOLEAN, chat : Chat!Ids, key : RequestKeys \cup {None}, seen : Nat,
     private : BOOLEAN]

\* A request that has entered a conversation is its owner's, or made it and holds it.
EnteredIsOwn ==
    \A r \in Sessions : work[r] # None /\ work[r].op # "insert" =>
       IF chats[work[r].chat] = None THEN holder[work[r].chat] = r
       ELSE chats[work[r].chat].owner = work[r].who

\* A request that creates its turn holds the conversation until it ends: the turns it
\* counted are all there are, and none of them has its key.
TurnIsHeld ==
    \A r \in Sessions : work[r] # None /\ work[r].op \in {"route", "commit"} =>
       /\ holder[work[r].chat] = r
       /\ work[r].seen = Len(Chat!Turns(work[r].chat))
       /\ Chat!Completed(work[r].chat, work[r].key) = {}

\* Customer data is for a principal that is linked to a customer.
PrivateIsLinked ==
    \A r \in Sessions : work[r] # None =>
       /\ work[r].customer => work[r].who \in linked
       /\ work[r].op = "commit" /\ work[r].private => work[r].customer

\* The turns of one owner, who is a customer if one of them holds customer data.
OwnTurns(turns, owner, customers) ==
    \A i \in 1 .. Len(turns) :
       turns[i].by = owner /\ (turns[i].private => turns[i].by \in customers)

\* Turns that were each given those before, no two of them of one key.
SerialTurns(turns) ==
    \A i \in 1 .. Len(turns) :
       /\ turns[i].seen = i - 1
       /\ \A j \in 1 .. Len(turns) :
             turns[i].key # None /\ turns[j].key = turns[i].key => j = i

\* The inductive invariant of the chat.
ChatInv ==
    /\ linked \subseteq Principals
    /\ chats \in [Chat!Ids -> Chat!Chats \cup {None}]
    /\ holder \in [Chat!Ids -> Sessions \cup {None}]
    /\ work \in [Sessions -> ChatWork \cup {None}]
    /\ EnteredIsOwn /\ TurnIsHeld /\ PrivateIsLinked
    /\ \A c \in Chat!Ids : chats[c] # None =>
          OwnTurns(chats[c].turns, chats[c].owner, linked) /\ SerialTurns(chats[c].turns)

\* There is no conversation.
LEMMA InitChat == Chat!Init => ChatInv
BY DEF Chat!Init, ChatInv, EnteredIsOwn, TurnIsHeld, PrivateIsLinked

\* A step that writes no conversation.
LEMMA QuietChat ==
    ASSUME ChatInv, chats' = chats, linked \subseteq linked', linked' \subseteq Principals,
           holder' \in [Chat!Ids -> Sessions \cup {None}],
           work' \in [Sessions -> ChatWork \cup {None}],
           EnteredIsOwn', TurnIsHeld', PrivateIsLinked'
    PROVE  ChatInv'
BY DEF ChatInv, OwnTurns

\* The end of a request that writes nothing more.
LEMMA EndChat ==
    ASSUME ChatInv, NEW r \in Sessions, chats' = chats, linked' = linked,
           work' = [work EXCEPT ![r] = None], Chat!Release(r)
    PROVE  ChatInv'
<1> USE DEF ChatInv
<1>1. /\ work'[r] = None /\ \A s \in Sessions : s # r => work'[s] = work[s]
      /\ \A c \in Chat!Ids : holder'[c] = IF holder[c] = r THEN None ELSE holder[c]
  BY DEF Chat!Release
<1>2. /\ holder' \in [Chat!Ids -> Sessions \cup {None}]
      /\ work' \in [Sessions -> ChatWork \cup {None}]
  BY DEF Chat!Release
<1>3. EnteredIsOwn'
  BY <1>1 DEF EnteredIsOwn, ChatWork
<1>4. TurnIsHeld'
  BY <1>1 DEF TurnIsHeld, ChatWork, Chat!Turns, Chat!Completed
<1>5. PrivateIsLinked'
  BY <1>1 DEF PrivateIsLinked
<1> QED BY <1>2, <1>3, <1>4, <1>5, QuietChat

\* A step of a request that is not its last and writes no conversation.
LEMMA GoOnChat ==
    ASSUME ChatInv, NEW r \in Sessions, NEW w \in ChatWork,
           work' = [work EXCEPT ![r] = w], chats' = chats, linked' = linked,
           \/ holder' = holder
           \/ holder' = [holder EXCEPT ![w.chat] = r] /\ holder[w.chat] \in {None, r},
           w.op # "insert" =>
              IF chats[w.chat] = None THEN holder'[w.chat] = r
              ELSE chats[w.chat].owner = w.who,
           w.op \in {"route", "commit"} =>
              /\ holder'[w.chat] = r
              /\ w.seen = Len(Chat!Turns(w.chat))
              /\ Chat!Completed(w.chat, w.key) = {},
           w.customer => w.who \in linked,
           w.op = "commit" /\ w.private => w.customer
    PROVE  ChatInv'
<1> USE DEF ChatInv
<1>0. None \notin Sessions
  BY ServiceAssumption DEF Chat!ChatAssumption
<1>1. /\ work'[r] = w /\ \A s \in Sessions : s # r => work'[s] = work[s]
      /\ w.chat \in Chat!Ids
  BY DEF ChatWork
<1>2. /\ holder' \in [Chat!Ids -> Sessions \cup {None}]
      /\ work' \in [Sessions -> ChatWork \cup {None}]
      /\ \A s \in Sessions, c \in Chat!Ids : s # r /\ holder[c] = s => holder'[c] = s
  BY <1>0, <1>1
<1>3. EnteredIsOwn'
  BY <1>1, <1>2 DEF EnteredIsOwn, ChatWork
<1>4. TurnIsHeld'
  BY <1>1, <1>2 DEF TurnIsHeld, ChatWork, Chat!Turns, Chat!Completed
<1>5. PrivateIsLinked'
  BY <1>1 DEF PrivateIsLinked
<1> QED BY <1>2, <1>3, <1>4, <1>5, QuietChat

\* A commit adds the turn of the request that holds the conversation.
LEMMA CommitChat == ASSUME ChatInv, NEW r \in Sessions, Chat!Commit(r) PROVE ChatInv'
<1>0. None \notin Sessions \cup Chat!Chats
  BY ServiceAssumption DEF Chat!ChatAssumption
<1>1. PICK w \in ChatWork : w = work[r] /\ w.op = "commit"
  BY DEF Chat!Commit, Chat!Doing, ChatInv
<1>2. PICK c \in Chat!Ids : c = w.chat
  BY DEF ChatWork
<1>3. /\ work[r] # None /\ holder[c] = r /\ w.seen = Len(Chat!Turns(c))
      /\ Chat!Completed(c, w.key) = {}
      /\ chats[c] # None => chats[c].owner = w.who
      /\ w.private => w.who \in linked
  BY <1>1, <1>2 DEF Chat!Commit, Chat!Doing, ChatInv, TurnIsHeld, EnteredIsOwn, PrivateIsLinked
<1>4. PICK turn : turn = [key |-> w.key, by |-> w.who, private |-> w.private, seen |-> w.seen]
  OBVIOUS
<1>5. /\ turn \in Chat!Turn /\ turn.key = w.key /\ turn.by = w.who /\ turn.seen = w.seen
      /\ turn.private = w.private
  BY <1>4 DEF ChatWork, Chat!Turn
<1>6. PICK old \in Seq(Chat!Turn) : old = Chat!Turns(c)
  <2>1. CASE chats[c] = None
    <3>1. Chat!Turns(c) = << >> /\ << >> \in Seq(Chat!Turn)
      BY <2>1 DEF Chat!Turns
    <3> QED BY <3>1
  <2>2. CASE chats[c] # None
    <3>1. Chat!Turns(c) = chats[c].turns /\ chats[c].turns \in Seq(Chat!Turn)
      BY <2>2 DEF ChatInv, Chat!Turns, Chat!Chats
    <3> QED BY <3>1
  <2> QED BY <2>1, <2>2
<1>7. /\ chats' = [chats EXCEPT ![c] = [owner |-> w.who, turns |-> Append(old, turn)]]
      /\ work' = [work EXCEPT ![r] = None] /\ Chat!Release(r) /\ linked' = linked
  BY <1>1, <1>2, <1>3, <1>4, <1>6 DEF Chat!Commit, Chat!Goto
<1>8. [owner |-> w.who, turns |-> Append(old, turn)] \in Chat!Chats
  BY <1>5 DEF Chat!Chats, ChatWork
<1>9. /\ chats' \in [Chat!Ids -> Chat!Chats \cup {None}]
      /\ chats'[c] # None /\ chats'[c].owner = w.who
      /\ Chat!Turns(c)' = Append(old, turn)
      /\ \A d \in Chat!Ids : d # c => chats'[d] = chats[d] /\ Chat!Turns(d)' = Chat!Turns(d)
  BY <1>0, <1>7, <1>8 DEF ChatInv, Chat!Turns
<1>10. /\ work'[r] = None /\ \A s \in Sessions : s # r => work'[s] = work[s]
       /\ \A d \in Chat!Ids : holder'[d] = IF holder[d] = r THEN None ELSE holder[d]
       /\ holder' \in [Chat!Ids -> Sessions \cup {None}]
       /\ work' \in [Sessions -> ChatWork \cup {None}]
  BY <1>7 DEF ChatInv, Chat!Release
<1>11. EnteredIsOwn'
  <2>1. ASSUME NEW s \in Sessions, work'[s] # None, work'[s].op # "insert"
        PROVE  IF chats'[work'[s].chat] = None THEN holder'[work'[s].chat] = s
               ELSE chats'[work'[s].chat].owner = work'[s].who
    <3>1. s # r /\ work'[s] = work[s] /\ work[s] \in ChatWork /\ work[s].chat \in Chat!Ids
      BY <1>10, <2>1 DEF ChatInv, ChatWork
    <3>2. CASE work[s].chat = c
      BY <1>3, <1>9, <2>1, <3>1, <3>2 DEF ChatInv, EnteredIsOwn
    <3>3. CASE work[s].chat # c
      BY <1>9, <1>10, <2>1, <3>1, <3>3 DEF ChatInv, EnteredIsOwn
    <3> QED BY <3>2, <3>3
  <2> QED BY <2>1 DEF EnteredIsOwn
<1>12. TurnIsHeld'
  <2>1. ASSUME NEW s \in Sessions, work'[s] # None, work'[s].op \in {"route", "commit"}
        PROVE  /\ s # r /\ work'[s] = work[s] /\ work[s].chat \in Chat!Ids \ {c}
               /\ holder'[work[s].chat] = s
               /\ work[s].seen = Len(Chat!Turns(work[s].chat))
               /\ Chat!Completed(work[s].chat, work[s].key) = {}
               /\ chats'[work[s].chat] = chats[work[s].chat]
    BY ZenonT(60), <1>3, <1>9, <1>10, <2>1 DEF ChatInv, ChatWork, TurnIsHeld
  <2> QED BY SMTT(30), <2>1 DEF TurnIsHeld, Chat!Turns, Chat!Completed
<1>13. PrivateIsLinked'
  BY <1>7, <1>10 DEF ChatInv, PrivateIsLinked
<1>14. OwnTurns(Append(old, turn), w.who, linked) /\ SerialTurns(Append(old, turn))
  <2>1. /\ Len(Append(old, turn)) = Len(old) + 1 /\ Len(old) \in Nat
        /\ Append(old, turn)[Len(old) + 1] = turn
        /\ \A j \in 1 .. Len(old) : Append(old, turn)[j] = old[j]
    BY <1>5
  <2>2. \A j \in 1 .. Len(old) : w.key # None => old[j].key # w.key
    BY <1>3, <1>6 DEF Chat!Completed
  <2>3. OwnTurns(old, w.who, linked) /\ SerialTurns(old)
    <3>1. CASE chats[c] = None
      BY <1>6, <3>1 DEF Chat!Turns, OwnTurns, SerialTurns
    <3>2. CASE chats[c] # None
      BY <1>3, <1>6, <3>2 DEF Chat!Turns, ChatInv
    <3> QED BY <3>1, <3>2
  <2>4. OwnTurns(Append(old, turn), w.who, linked)
    BY <1>3, <1>5, <2>1, <2>3 DEF OwnTurns
  <2>5. SerialTurns(Append(old, turn))
    <3>1. turn.seen = Len(old) /\ turn.key = w.key
      BY <1>3, <1>5, <1>6
    <3>2. ASSUME NEW i \in 1 .. Len(old) + 1, NEW j \in 1 .. Len(old) + 1,
                 Append(old, turn)[i].key # None,
                 Append(old, turn)[j].key = Append(old, turn)[i].key
          PROVE  j = i
      BY <2>1, <2>2, <2>3, <3>1, <3>2 DEF SerialTurns
    <3>3. ASSUME NEW i \in 1 .. Len(old) + 1 PROVE Append(old, turn)[i].seen = i - 1
      BY <2>1, <2>3, <3>1 DEF SerialTurns
    <3> QED BY <2>1, <3>2, <3>3 DEF SerialTurns
  <2> QED BY <2>4, <2>5
<1>15. chats'[c].turns = Append(old, turn)
  BY <1>7 DEF ChatInv
<1>16. ASSUME NEW d \in Chat!Ids, chats'[d] # None
       PROVE  OwnTurns(chats'[d].turns, chats'[d].owner, linked') /\ SerialTurns(chats'[d].turns)
  <2>1. CASE d = c
    BY <1>7, <1>9, <1>14, <1>15, <2>1
  <2>2. CASE d # c
    BY <1>7, <1>9, <1>16, <2>2 DEF ChatInv
  <2> QED BY <2>1, <2>2
<1> QED
  BY <1>7, <1>9, <1>10, <1>11, <1>12, <1>13, <1>16 DEF ChatInv

\* Every step keeps it, one case per action.
LEMMA NextChat == ChatInv /\ [Chat!Next]_(Chat!vars) => ChatInv'
<1> SUFFICES ASSUME ChatInv, [Chat!Next]_(Chat!vars) PROVE ChatInv'
  OBVIOUS
<1>0. None \notin Sessions \cup Chat!Chats
  BY ServiceAssumption DEF Chat!ChatAssumption
<1>1. CASE Chat!Link
  BY <1>1 DEF Chat!Link, ChatInv, EnteredIsOwn, TurnIsHeld, PrivateIsLinked, Chat!Turns,
              Chat!Completed, OwnTurns
<1>2. ASSUME NEW r \in Sessions, Chat!Load(r) PROVE ChatInv'
  <2>1. PICK who \in Chat!Identities, key \in RequestKeys \cup {None},
             named \in ClientIds \cup {c \in ServerIds : chats[c] # None} \cup {None} :
             \E c \in Chat!Conversations(named, who) :
               work' = [work EXCEPT ![r] =
                          [op |-> IF chats[c] = None THEN "insert" ELSE "find", who |-> who,
                           customer |-> who \in linked, chat |-> c, key |-> key,
                           seen |-> 0, private |-> FALSE]]
    BY <1>2 DEF Chat!Load, Chat!Goto
  <2>2. PICK c \in Chat!Conversations(named, who) :
             work' = [work EXCEPT ![r] =
                        [op |-> IF chats[c] = None THEN "insert" ELSE "find", who |-> who,
                         customer |-> who \in linked, chat |-> c, key |-> key,
                         seen |-> 0, private |-> FALSE]]
    BY <2>1
  <2>3. c \in Chat!Ids /\ (chats[c] # None => chats[c].owner = who)
    BY DEF Chat!Conversations, Chat!Unused, Chat!Matches, Chat!Ids
  <2> DEFINE w == [op |-> IF chats[c] = None THEN "insert" ELSE "find", who |-> who,
                   customer |-> who \in linked, chat |-> c, key |-> key,
                   seen |-> 0, private |-> FALSE]
  <2>4. w \in ChatWork
    BY <2>3 DEF ChatWork
  <2>5. /\ w.op \in {"insert", "find"} /\ (w.op = "insert" <=> chats[c] = None)
        /\ w.who = who /\ w.chat = c
        /\ w.customer = (who \in linked)
    OBVIOUS
  <2>6. work' = [work EXCEPT ![r] = w] /\ UNCHANGED <<linked, chats, holder>>
    BY <1>2, <2>2 DEF Chat!Load
  <2> HIDE DEF w
  <2> QED BY <2>3, <2>4, <2>5, <2>6, GoOnChat
<1>3. ASSUME NEW r \in Sessions, Chat!Insert(r) PROVE ChatInv'
  <2> DEFINE w == [work[r] EXCEPT !.op = "find"]
  <2>1. /\ work[r] \in ChatWork /\ work[r].op = "insert" /\ work[r] # None
        /\ holder[work[r].chat] = None /\ chats[work[r].chat] = None
        /\ holder' = [holder EXCEPT ![work[r].chat] = r]
        /\ work' = [work EXCEPT ![r] = w] /\ chats' = chats /\ linked' = linked
    BY <1>3 DEF Chat!Insert, Chat!Doing, Chat!Goto, ChatInv
  <2>2. /\ w \in ChatWork /\ w.op = "find" /\ w.chat = work[r].chat /\ w.who = work[r].who
        /\ w.customer = work[r].customer
    BY <2>1 DEF ChatWork
  <2>3. (w.customer => w.who \in linked) /\ holder'[w.chat] = r
    BY <2>1, <2>2 DEF ChatInv, PrivateIsLinked, ChatWork
  <2> HIDE DEF w
  <2> QED BY <2>1, <2>2, <2>3, GoOnChat
<1>4. ASSUME NEW r \in Sessions, Chat!Replay(r) \/ Chat!Fail(r) PROVE ChatInv'
  BY <1>4, EndChat DEF Chat!Replay, Chat!Fail, Chat!Goto
<1>5. ASSUME NEW r \in Sessions, Chat!Miss(r) PROVE ChatInv'
  <2> DEFINE w == [work[r] EXCEPT !.op = "turn"]
  <2>1. /\ work[r] \in ChatWork /\ work[r].op = "find" /\ work[r] # None
        /\ work' = [work EXCEPT ![r] = w] /\ UNCHANGED <<linked, chats, holder>>
    BY <1>5 DEF Chat!Miss, Chat!Doing, Chat!Goto, ChatInv
  <2>2. /\ w \in ChatWork /\ w.op = "turn" /\ w.chat = work[r].chat /\ w.who = work[r].who
        /\ w.customer = work[r].customer
    BY <2>1 DEF ChatWork
  <2>3. /\ w.customer => w.who \in linked
        /\ IF chats[w.chat] = None THEN holder[w.chat] = r ELSE chats[w.chat].owner = w.who
    BY <2>1, <2>2 DEF ChatInv, PrivateIsLinked, EnteredIsOwn
  <2> HIDE DEF w
  <2> QED BY <2>1, <2>2, <2>3, GoOnChat
<1>6. ASSUME NEW r \in Sessions, Chat!CreateTurn(r) PROVE ChatInv'
  <2> DEFINE w == [work[r] EXCEPT !.op = "route", !.seen = Len(Chat!Turns(work[r].chat))]
  <2>1. /\ work[r] \in ChatWork /\ work[r].op = "turn" /\ work[r] # None
        /\ holder[work[r].chat] \in {None, r}
        /\ Chat!Completed(work[r].chat, work[r].key) = {}
        /\ holder' = [holder EXCEPT ![work[r].chat] = r]
        /\ work' = [work EXCEPT ![r] = w] /\ chats' = chats /\ linked' = linked
    BY <1>6 DEF Chat!CreateTurn, Chat!Doing, Chat!Goto, Chat!IsFree, ChatInv
  <2>2. Len(Chat!Turns(work[r].chat)) \in Nat
    BY <1>0, <2>1 DEF ChatWork, ChatInv, Chat!Turns, Chat!Chats
  <2>3. /\ w \in ChatWork /\ w.op = "route" /\ w.chat = work[r].chat /\ w.who = work[r].who
        /\ w.customer = work[r].customer /\ w.key = work[r].key
        /\ w.seen = Len(Chat!Turns(work[r].chat))
    BY <2>1, <2>2 DEF ChatWork
  <2>4. /\ w.customer => w.who \in linked
        /\ chats[w.chat] # None => chats[w.chat].owner = w.who
        /\ holder'[w.chat] = r
    BY <2>1, <2>3 DEF ChatInv, PrivateIsLinked, EnteredIsOwn, ChatWork
  <2> HIDE DEF w
  <2> QED BY <2>1, <2>3, <2>4, GoOnChat
<1>7. ASSUME NEW r \in Sessions, Chat!Route(r) PROVE ChatInv'
  <2>1. PICK op \in {"commit"}, private \in BOOLEAN :
             /\ private => work[r].customer
             /\ work' = [work EXCEPT ![r] = [work[r] EXCEPT !.op = op, !.private = private]]
    <3>1. PICK outcome \in {Chat!Intercepted}
                              \cup {Chat!Shopped(tool) : tool \in Chat!StrandsPublicTools}
                              \cup {Chat!ToolRun(route, work[r].customer) : route \in Chat!Routes} :
             work' = [work EXCEPT ![r] = [work[r] EXCEPT !.op = outcome.op, !.private = outcome.private]]
      BY <1>7 DEF Chat!Route, Chat!Goto
    <3>2. CASE outcome = Chat!Intercepted
      BY <3>1, <3>2 DEF Chat!Intercepted
    <3>3. ASSUME NEW tool \in Chat!StrandsPublicTools, outcome = Chat!Shopped(tool)
          PROVE  outcome.op = "commit" /\ outcome.private = FALSE
      <4>1. (tool \in Chat!AuthRequiredTools) = FALSE
        BY DEF Chat!StrandsPublicTools, Chat!AuthRequiredTools
      <4>2. outcome.op = "commit" /\ outcome.private = (tool \in Chat!AuthRequiredTools)
        BY <3>3 DEF Chat!Shopped
      <4> QED BY <4>1, <4>2
    <3>4. ASSUME NEW route \in Chat!Routes, outcome = Chat!ToolRun(route, work[r].customer)
          PROVE  /\ outcome.op = "commit" /\ outcome.private \in BOOLEAN
                 /\ outcome.private => work[r].customer
      <4>1. /\ ~Chat!Denied(route, work[r].customer)
            /\ Chat!ReadsCustomer(route, work[r].customer) \in BOOLEAN
            /\ Chat!ReadsCustomer(route, work[r].customer) => work[r].customer
        BY DEF Chat!Denied, Chat!IsPrivate, Chat!RequiresAuth, Chat!ReadsCustomer
      <4> QED BY <3>4, <4>1 DEF Chat!ToolRun
    <3> QED BY <3>1, <3>2, <3>3, <3>4
  <2> DEFINE w == [work[r] EXCEPT !.op = op, !.private = private]
  <2>2. /\ work[r] \in ChatWork /\ work[r].op = "route" /\ work[r] # None
        /\ UNCHANGED <<linked, chats, holder>>
    BY <1>7 DEF Chat!Route, Chat!Doing, ChatInv
  <2>3. /\ w \in ChatWork /\ w.op = "commit" /\ w.chat = work[r].chat /\ w.who = work[r].who
        /\ w.customer = work[r].customer /\ w.key = work[r].key /\ w.seen = work[r].seen
        /\ w.private = private
    BY <2>1, <2>2 DEF ChatWork
  <2>4. /\ w.customer => w.who \in linked
        /\ IF chats[w.chat] = None THEN holder[w.chat] = r ELSE chats[w.chat].owner = w.who
        /\ holder[w.chat] = r /\ w.seen = Len(Chat!Turns(w.chat))
        /\ Chat!Completed(w.chat, w.key) = {}
    BY <2>2, <2>3 DEF ChatInv, PrivateIsLinked, EnteredIsOwn, TurnIsHeld
  <2>5. work' = [work EXCEPT ![r] = w]
    BY <2>1
  <2> HIDE DEF w
  <2> QED BY <2>1, <2>2, <2>3, <2>4, <2>5, GoOnChat
<1>8. CASE UNCHANGED Chat!vars
  BY <1>8 DEF Chat!vars, ChatInv, EnteredIsOwn, TurnIsHeld, PrivateIsLinked, Chat!Turns,
              Chat!Completed, OwnTurns
<1> QED
  BY <1>1, <1>2, <1>3, <1>4, <1>5, <1>6, <1>7, <1>8, CommitChat DEF Chat!Next

\* A conversation has one owner and customer data is read for a customer only, each turn
\* was given all those before it, and a request id is answered once, for any number of
\* principals, conversations and concurrent requests.
THEOREM ConversationsStayWhole == MCSpec => []ConversationIsWhole
<1> DEFINE Inv == part = "chat" => ChatInv
<1>1. MCInit => Inv
  BY PartInit, InitChat
<1>2. Inv /\ [MCNext]_allVars => Inv'
  BY PartStep, NextChat
<1>3. Inv => ConversationIsWhole
  <2>1. ASSUME ChatInv PROVE Chat!ConversationIsOwn
    BY <2>1 DEF ChatInv, ChatWork, EnteredIsOwn, OwnTurns, Chat!ConversationIsOwn, Chat!Doing,
                Chat!Turns
  <2>2. ASSUME ChatInv PROVE Chat!TurnsAreSerial
    BY <2>2 DEF ChatInv, SerialTurns, Chat!TurnsAreSerial, Chat!Completed, Chat!Turns
  <2> QED BY <2>1, <2>2 DEF ConversationIsWhole
<1> QED BY <1>1, <1>2, <1>3, PTL DEF MCSpec

-----------------------------------------------------------------------------
(* Voice sessions *)

\* The session a call was let through for last is on record, and sessions are stamped.
VoiceInv ==
    /\ DOMAIN work = Sessions
    /\ clock \in Nat /\ \A e \in events : e.stamp \in Nat
    /\ \A x \in Sessions : Voice!Doing(x, "record") => work[x].event.stamp \in Nat
    /\ admitted \in Nat /\ (admitted # 0 => \E e \in events : e.stamp = admitted)

\* No session has been created, and no call let through.
LEMMA InitVoice == Voice!Init => VoiceInv
BY DEF Voice!Init, VoiceInv, Voice!Doing

\* Every step keeps it, and a call is let through for the newest session on record.
LEMMA NextVoice ==
    ASSUME VoiceInv, [Voice!Next]_(Voice!vars)
    PROVE  VoiceInv' /\ Voice!NoOlderSessionIsAdmitted
<1> USE DEF VoiceInv, Voice!Doing, Voice!Goto, Voice!End, Voice!NoOlderSessionIsAdmitted,
            Voice!drafts, Voice!commands
<1>1. CASE Voice!Edit \/ Voice!Expire \/ UNCHANGED Voice!vars
  BY <1>1 DEF Voice!Edit, Voice!Expire, Voice!vars
<1>2. ASSUME NEW w, Voice!LinkSet(w) \/ Voice!AppendOther(w) \/ Voice!LegacyCall(w)
      PROVE  VoiceInv' /\ Voice!NoOlderSessionIsAdmitted
  BY <1>2 DEF Voice!LinkSet, Voice!AppendOther, Voice!LegacyCall
<1>3. ASSUME NEW x \in Sessions, Voice!StartSession(x)
      PROVE  VoiceInv' /\ Voice!NoOlderSessionIsAdmitted
  BY <1>3 DEF Voice!StartSession
<1>4. ASSUME NEW x \in Sessions, Voice!Provider(x)
      PROVE  VoiceInv' /\ Voice!NoOlderSessionIsAdmitted
  BY <1>4 DEF Voice!Provider
<1>5. ASSUME NEW x \in Sessions, Voice!RecordSession(x)
      PROVE  VoiceInv' /\ Voice!NoOlderSessionIsAdmitted
  BY <1>5 DEF Voice!RecordSession
<1>6. ASSUME NEW x \in Sessions, Voice!CheckTool(x)
      PROVE  VoiceInv' /\ Voice!NoOlderSessionIsAdmitted
  BY <1>6 DEF Voice!CheckTool, Voice!IsLatest
<1>7. ASSUME NEW x \in Sessions, Voice!Propose(x)
      PROVE  VoiceInv' /\ Voice!NoOlderSessionIsAdmitted
  <2>1. \/ work' = [work EXCEPT ![x] = [op |-> "report", workflow |-> work[x].workflow]]
        \/ work' = [work EXCEPT ![x] = [work[x] EXCEPT !.op = "stage"]]
    BY <1>7 DEF Voice!Propose
  <2>4. work[x].op = "propose"
    BY <1>7 DEF Voice!Propose
  <2>5. work'[x].op # "record"
    <3>1. CASE work' = [work EXCEPT ![x] = [op |-> "report", workflow |-> work[x].workflow]]
      BY <3>1
    <3>2. CASE work' = [work EXCEPT ![x] = [work[x] EXCEPT !.op = "stage"]]
      <4>1. work'[x] = [work[x] EXCEPT !.op = "stage"]
        BY <3>2
      <4> QED BY <2>4, <4>1
    <3> QED BY <2>1, <3>1, <3>2
  <2>2. ~Voice!Doing(x, "record")' /\ \A y \in Sessions \ {x} : work'[y] = work[y]
    BY <2>1, <2>5
  <2>3. UNCHANGED <<clock, events, admitted>>
    BY <1>7 DEF Voice!Propose
  <2> QED BY <2>1, <2>2, <2>3
<1>9. ASSUME NEW x \in Sessions, Voice!Stage(x)
      PROVE  VoiceInv' /\ Voice!NoOlderSessionIsAdmitted
  <2>1. work[x] # None /\ work' = [work EXCEPT ![x] = work'[x]]
    BY <1>9 DEF Voice!Stage
  <2>2. work'[x] # None => work'[x].op # "record"
    BY <1>9 DEF Voice!Stage
  <2>3. UNCHANGED <<clock, events, admitted>>
    BY <1>9 DEF Voice!Stage
  <2> QED BY <2>1, <2>2, <2>3
<1>10. ASSUME NEW x \in Sessions, Voice!Answer(x)
      PROVE  VoiceInv' /\ Voice!NoOlderSessionIsAdmitted
  <2>1. work[x] # None /\ work' = [work EXCEPT ![x] = work'[x]]
    BY <1>10 DEF Voice!Answer
  <2>2. work'[x] # None => work'[x].op # "record"
    BY <1>10 DEF Voice!Answer
  <2>3. UNCHANGED <<clock, events, admitted>>
    BY <1>10 DEF Voice!Answer
  <2> QED BY <2>1, <2>2, <2>3
<1>11. ASSUME NEW x \in Sessions, Voice!FailCommand(x)
      PROVE  VoiceInv' /\ Voice!NoOlderSessionIsAdmitted
  <2>1. work[x] # None /\ work' = [work EXCEPT ![x] = work'[x]]
    BY <1>11 DEF Voice!FailCommand
  <2>2. work'[x] # None => work'[x].op # "record"
    BY <1>11 DEF Voice!FailCommand
  <2>3. UNCHANGED <<clock, events, admitted>>
    BY <1>11 DEF Voice!FailCommand
  <2> QED BY <2>1, <2>2, <2>3
<1>8. ASSUME NEW x \in Sessions, Voice!ReportTool(x) \/ Voice!Refuse(x)
      PROVE  VoiceInv' /\ Voice!NoOlderSessionIsAdmitted
  BY <1>8 DEF Voice!ReportTool, Voice!Refuse
<1> QED
  BY <1>1, <1>2, <1>3, <1>4, <1>5, <1>6, <1>7, <1>8, <1>9, <1>10, <1>11
  DEF Voice!Next

\* Once a call of a voice session was let through, no later call of a session created before
\* it is, for any number of workflows, sessions and requests, and whatever order their
\* events are committed in.
THEOREM NewestSessionIsAdmitted == MCSpec => OneSessionIsAdmitted
<1> DEFINE Inv == part = "voice" => VoiceInv
<1>1. MCInit => Inv
  BY PartInit, InitVoice
<1>2. Inv /\ [MCNext]_allVars => Inv'
  BY PartStep, NextVoice
<1>3. Inv /\ [MCNext]_allVars => [part = "voice" => Voice!NoOlderSessionIsAdmitted]_allVars
  BY PartStep, NextVoice
<1> QED BY <1>1, <1>2, <1>3, PTL DEF MCSpec, OneSessionIsAdmitted
=============================================================================
