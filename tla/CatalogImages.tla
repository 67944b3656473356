---------------------------- MODULE CatalogImages ----------------------------
(***************************************************************************)
(* Generated variant images of one Catalog Studio draft                    *)
(* (app/services/catalog_images.py): image commands and coordinated        *)
(* variant sets, the worker that asks the provider and stores the result   *)
(* for review, stale results, and the operator's approval, next to the     *)
(* edits and publications of the same draft (catalog_admin.py).            *)
(*                                                                         *)
(* Transactions take row locks in two orders: image commands, results and  *)
(* approvals lock the workflow first and the draft when they flush; edits  *)
(* lock the draft first and the workflow when they flush.  PostgreSQL ends *)
(* the deadlock that can follow by aborting one of the two.                *)
(*                                                                         *)
(* Drafts are numbered in order of creation, so the number of drafts is    *)
(* the draft version a request must name.  Claiming a job and the cadence  *)
(* of recovery are module ImageJobs; here a running job may be recovered   *)
(* whenever its worker is slow.                                            *)
(***************************************************************************)
EXTENDS Naturals, FiniteSets

CONSTANTS
    Variants,  \* variant indexes of the draft; 0 is the primary variant
    Jobs,      \* job numbers, in order of created_at
    Drafts,    \* draft numbers, in order of created_at
    Workers,   \* background worker processes
    Sessions,  \* administrator requests in flight
    MaxFaults, \* bound on provider failures, crashes and recoveries
    None

VARIABLES
    made,     \* how many drafts exist: the current draft version
    draft,    \* the draft the workflow follows
    status,   \* status[d]: "draft" or "published", or None
    image,    \* image[d][v]: the image_set of variant v in the snapshot of d
    product,  \* the images of the last publication, or None
    job,      \* job[j]: the image_generation_jobs row, or None
    file,     \* jobs whose image files are on disk
    worker,   \* worker[w]: where worker w is
    session,  \* session[s]: where request s is
    approval, \* jobs whose approval was committed (of the model only)
    faults

vars == <<made, draft, status, image, product, job, file, worker, session, approval, faults>>

NoImage == [job |-> None, approved |-> FALSE, history |-> {}]
ImageSet == [job : Jobs \cup {None}, approved : BOOLEAN, history : SUBSET Jobs]
Terminal == {"succeeded", "failed"}
Family == [draft : Drafts, version : Drafts, primary : Jobs]
JobSet == [variant : Variants, source : Jobs \cup {None}, set : Family \cup {None},
           draft : Drafts, version : Drafts, status : {"queued", "running"} \cup Terminal]
JobRow(variant, source, set, d, version) ==
    [variant |-> variant, source |-> source, set |-> set, draft |-> d,
     version |-> version, status |-> "queued"]
Enqueued == {j \in Jobs : job[j] # None}

\* What a run's constants must satisfy.
ImageAssumption ==
    /\ 0 \in Variants /\ Variants \subseteq Nat /\ IsFiniteSet(Variants)
    /\ Jobs \subseteq Nat /\ Drafts \subseteq Nat /\ 1 \in Drafts
    /\ Workers \cap Sessions = {} /\ MaxFaults \in Nat
    /\ None \notin Nat \cup Family \cup JobSet

Idle == [pc |-> "idle", job |-> None]
At(pc, j) == [pc |-> pc, job |-> j]
Waiting(pc, d, x) == [pc |-> pc, draft |-> d, arg |-> x]
Quiet == Waiting("quiet", None, None)

\* Row locks a process holds between two of its steps.
HoldsWorkflow(p) ==
    \/ p \in Workers /\ worker[p].pc = "store"
    \/ p \in Sessions /\ session[p].pc \in {"set", "approve"}
HoldsDraft(p, d) == p \in Sessions /\ session[p].pc \in {"edit", "stale edit", "publish"} /\ session[p].draft = d
WorkflowIsFree == \A p \in Workers \cup Sessions : ~HoldsWorkflow(p)
DraftIsFree(d) == \A p \in Sessions : ~HoldsDraft(p, d)

\* _current_draft, and the test of the worker: the workflow still follows d and
\* no draft of the product was made since.
IsCurrent(d, version) == draft = d /\ made = version

Init ==
    /\ made = 1 /\ draft = 1
    /\ status = [d \in Drafts |-> IF d = 1 THEN "draft" ELSE None]
    /\ image = [d \in Drafts |-> [v \in Variants |-> NoImage]]
    /\ product = None
    /\ job = [j \in Jobs |-> None]
    /\ file = {} /\ approval = {}
    /\ worker = [w \in Workers |-> Idle]
    /\ session = [s \in Sessions |-> Quiet]
    /\ faults = 0

-----------------------------------------------------------------------------
\* Commands.  New jobs take the next numbers.
TakesNext(J) == \A j \in J : \A k \in Jobs \ J : k < j <=> job[k] # None
Insert(rows) == job' = [j \in Jobs |-> IF j \in DOMAIN rows THEN rows[j] ELSE job[j]]

\* enqueue_catalog_image_job: one image for a variant; a refinement starts from
\* the approved image of the variant.  It holds the workflow until it commits.
EnqueueImage ==
    /\ WorkflowIsFree
    /\ \E j \in {k \in Jobs : job[k] = None /\ TakesNext({k})},
          v \in Variants, source \in Jobs \cup {None} :
          /\ source = None \/ (image[draft][v].job = source /\ image[draft][v].approved /\ source \in file)
          /\ IsCurrent(draft, made)
          /\ job' = [job EXCEPT ![j] = JobRow(v, source, None, draft, made)]
    /\ UNCHANGED <<made, draft, status, image, product, file, worker, session, approval, faults>>

\* _latest_variant_set_jobs: the newest job of each variant in a set.
InSet(set, v) == {j \in Enqueued : job[j].set = set /\ job[j].variant = v}
Latest(J) == CHOOSE j \in J : \A k \in J : k <= j

\* Children that enqueue_catalog_image_variant_set passes over.
IsSettled(set, v) == InSet(set, v) # {} /\ job[Latest(InSet(set, v))].status # "failed"

\* _variant_set_response: what the operator is told of a set.
IsComplete(set) ==
    /\ image[set.draft][0].approved /\ image[set.draft][0].job = set.primary
    /\ made = set.version
    /\ \A v \in Variants \ {0} : InSet(set, v) # {} =>
          /\ image[set.draft][v].approved
          /\ image[set.draft][v].job = Latest(InSet(set, v))
FamilyStatus(set) ==
    LET statuses == {job[Latest(InSet(set, v))].status : v \in {u \in Variants : InSet(set, u) # {}}}
    IN CASE "running" \in statuses -> "running"
         [] "running" \notin statuses /\ "queued" \in statuses -> "queued"
         [] statuses = {"failed"} -> "failed"
         [] statuses = {"failed", "succeeded"} -> "partially_failed"
         [] statuses = {"succeeded"} -> IF IsComplete(set) THEN "complete" ELSE "review"

\* enqueue_catalog_image_variant_set locks the workflow and picks the children
\* without a queued, running or succeeded job ...
ReadSet(s) ==
    /\ session[s].pc = "quiet" /\ WorkflowIsFree
    /\ LET primary == image[draft][0]
           set == [draft |-> draft, version |-> made, primary |-> primary.job]
           missing == {v \in Variants \ {0} : ~IsSettled(set, v)}
       IN /\ primary.approved /\ primary.job \in file
          /\ missing # {}
          /\ session' = [session EXCEPT ![s] = Waiting("set", draft, [set |-> set, missing |-> missing])]
    /\ UNCHANGED <<made, draft, status, image, product, job, file, worker, approval, faults>>

\* ... and commits one refinement of the primary image for each.
CommitSet(s) ==
    /\ session[s].pc = "set"
    /\ LET set == session[s].arg.set
           missing == session[s].arg.missing
       IN \E child \in [missing -> Jobs] :
             /\ \A v \in missing : job[child[v]] = None
             /\ \A v, u \in missing : v < u => child[v] < child[u]
             /\ TakesNext({child[v] : v \in missing})
             /\ Insert([j \in {child[v] : v \in missing} |->
                           JobRow(CHOOSE v \in missing : child[v] = j,
                                  set.primary, set, set.draft, set.version)])
    /\ session' = [session EXCEPT ![s] = Quiet]
    /\ UNCHANGED <<made, draft, status, image, product, file, worker, approval, faults>>

-----------------------------------------------------------------------------
\* The worker.
Set(j, x) == job' = [job EXCEPT ![j].status = x]
Drop(w) == /\ file' = file \ {worker[w].job}
           /\ Set(worker[w].job, "failed")
           /\ worker' = [worker EXCEPT ![w] = Idle]

Claim(w) ==
    /\ worker[w].pc = "idle"
    /\ \E j \in Enqueued :
          /\ job[j].status = "queued"
          /\ \A k \in Enqueued : job[k].status = "queued" => j <= k
          /\ Set(j, "running")
          /\ worker' = [worker EXCEPT ![w] = At("begin", j)]
    /\ UNCHANGED <<made, draft, status, image, product, file, session, approval, faults>>

\* _process_catalog_image_job tells the workflow, and looks at the draft before
\* it pays for an image.
Begin(w) ==
    /\ worker[w].pc = "begin"
    /\ IF IsCurrent(job[worker[w].job].draft, job[worker[w].job].version)
       THEN worker' = [worker EXCEPT ![w].pc = "generate"] /\ UNCHANGED <<job, file>>
       ELSE Drop(w)
    /\ UNCHANGED <<made, draft, status, image, product, session, approval, faults>>

\* The provider answers and the files are written.
Generate(w) ==
    /\ worker[w].pc = "generate"
    /\ file' = file \cup {worker[w].job}
    /\ worker' = [worker EXCEPT ![w].pc = "written"]
    /\ UNCHANGED <<made, draft, status, image, product, job, session, approval, faults>>

\* The result is looked at again under the lock of the workflow; a result for an
\* older draft is discarded with its files.
LockResult(w) ==
    /\ worker[w].pc = "written" /\ WorkflowIsFree
    /\ IF IsCurrent(job[worker[w].job].draft, job[worker[w].job].version)
       THEN worker' = [worker EXCEPT ![w].pc = "store"] /\ UNCHANGED <<job, file>>
       ELSE Drop(w)
    /\ UNCHANGED <<made, draft, status, image, product, session, approval, faults>>

\* The image takes its place for review, the one before it goes to the history,
\* and the job succeeds, also when it was recovered as failed meanwhile.
Reviewed(old, j) ==
    [job |-> j, approved |-> FALSE, history |-> old.history \cup ({old.job} \ {None})]

BrokenStoreResult(w) ==
    /\ worker[w].pc = "store"
    /\ LET j == worker[w].job
           d == job[j].draft
       IN /\ DraftIsFree(d)
          /\ image' = [image EXCEPT ![d][job[j].variant] = Reviewed(@, j)]
          /\ Set(j, "succeeded")
    /\ worker' = [worker EXCEPT ![w].pc = "answer"]
    /\ UNCHANGED <<made, draft, status, product, file, session, approval, faults>>

StoreResult(w) ==
    /\ worker[w].pc = "store"
    /\ LET j == worker[w].job
           d == job[j].draft
       IN /\ DraftIsFree(d)
          /\ image' = [image EXCEPT ![d][job[j].variant] = Reviewed(@, j)]
          /\ Set(j, "succeeded")
    /\ worker' = [worker EXCEPT ![w] = Idle]
    /\ UNCHANGED <<made, draft, status, product, file, session, approval, faults>>

\* A provider failure, an exception or an abort by the database before the commit:
\* the files are removed and the job fails.
FailJob(w) ==
    /\ worker[w].pc # "idle" /\ faults < MaxFaults
    /\ Drop(w)
    /\ faults' = faults + 1
    /\ UNCHANGED <<made, draft, status, image, product, session, approval>>

\* The process dies and starts again; the job stays running.
CrashWorker(w) ==
    /\ worker[w].pc # "idle" /\ faults < MaxFaults
    /\ worker' = [worker EXCEPT ![w] = Idle]
    /\ faults' = faults + 1
    /\ UNCHANGED <<made, draft, status, image, product, job, file, session, approval>>

\* record_stale_catalog_image_job: a running job that looks stale fails, whether
\* its worker has died or is only slow.
RecoverStale ==
    /\ faults < MaxFaults
    /\ \E j \in Enqueued : job[j].status = "running" /\ Set(j, "failed")
    /\ faults' = faults + 1
    /\ UNCHANGED <<made, draft, status, image, product, file, worker, session, approval>>

-----------------------------------------------------------------------------
\* The operator.
\* approve_catalog_image locks the workflow and reads the draft ...
MayApprove(j) ==
    /\ job[j].draft = draft
    /\ job[j].status = "succeeded"
    /\ image[draft][job[j].variant].job = j

StartApproval(s) ==
    /\ session[s].pc = "quiet" /\ WorkflowIsFree
    /\ \E j \in Enqueued :
          /\ MayApprove(j)
          /\ ~image[draft][job[j].variant].approved
          /\ session' = [session EXCEPT ![s] = Waiting("approve", draft, j)]
    /\ UNCHANGED <<made, draft, status, image, product, job, file, worker, approval, faults>>

\* ... and writes the snapshot when it flushes.
CommitApproval(s) ==
    /\ session[s].pc = "approve" /\ DraftIsFree(session[s].draft)
    /\ LET j == session[s].arg
       IN /\ image' = [image EXCEPT ![session[s].draft][job[j].variant].approved = TRUE]
          /\ approval' = approval \cup {j}
    /\ session' = [session EXCEPT ![s] = Quiet]
    /\ UNCHANGED <<made, draft, status, product, job, file, worker, faults>>

\* A client loads the draft, with its images, to edit it.
LoadDraft(s) ==
    /\ session[s].pc = "quiet"
    /\ status[draft] = "draft" /\ draft = made
    /\ session' = [session EXCEPT ![s] = Waiting("loaded", draft, image[draft])]
    /\ UNCHANGED <<made, draft, status, image, product, job, file, worker, approval, faults>>

\* create_draft locks the draft the client names and refuses it when a newer one
\* exists.  Results and approvals make no new draft: the images the client sends
\* back may be older than the ones in the draft.
StartEdit(s) ==
    /\ session[s].pc = "loaded"
    /\ session[s].draft = draft /\ draft = made
    /\ status[draft] = "draft"
    /\ DraftIsFree(draft)
    /\ session' = [session EXCEPT
          ![s].pc = IF session[s].arg = image[draft] THEN "edit" ELSE "stale edit"]
    /\ UNCHANGED <<made, draft, status, image, product, job, file, worker, approval, faults>>

CommitEdit(s) ==
    /\ session[s].pc \in {"edit", "stale edit"} /\ WorkflowIsFree /\ made + 1 \in Drafts
    /\ made' = made + 1 /\ draft' = made + 1
    /\ status' = [status EXCEPT ![made + 1] = "draft"]
    /\ image' = [image EXCEPT ![made + 1] = session[s].arg]
    /\ session' = [session EXCEPT ![s] = Quiet]
    /\ UNCHANGED <<product, job, file, worker, approval, faults>>

\* create_draft without current_draft_id: a draft that the workflow does not follow.
CreateBeside ==
    /\ made + 1 \in Drafts
    /\ made' = made + 1
    /\ status' = [status EXCEPT ![made + 1] = "draft"]
    /\ UNCHANGED <<draft, image, product, job, file, worker, session, approval, faults>>

\* publish_draft locks the draft, validates its images and applies them.
IsApproved(d) == \A v \in Variants : image[d][v].job # None => image[d][v].approved

StartPublish(s) ==
    /\ session[s].pc = "quiet"
    /\ status[draft] = "draft" /\ draft = made
    /\ DraftIsFree(draft) /\ IsApproved(draft)
    /\ session' = [session EXCEPT ![s] = Waiting("publish", draft, image[draft])]
    /\ UNCHANGED <<made, draft, status, image, product, job, file, worker, approval, faults>>

CommitPublish(s) ==
    /\ session[s].pc = "publish"
    /\ status' = [status EXCEPT ![session[s].draft] = "published"]
    /\ product' = session[s].arg
    /\ session' = [session EXCEPT ![s] = Quiet]
    /\ UNCHANGED <<made, draft, image, job, file, worker, approval, faults>>

\* The request fails, or the database aborts it.
AbortSession(s) ==
    /\ session[s].pc # "quiet"
    /\ session' = [session EXCEPT ![s] = Quiet]
    /\ UNCHANGED <<made, draft, status, image, product, job, file, worker, approval, faults>>

-----------------------------------------------------------------------------
Work(w) ==
    \/ Claim(w) \/ Begin(w) \/ Generate(w) \/ LockResult(w) \/ StoreResult(w)
    \/ FailJob(w) \/ CrashWorker(w)

\* The endpoints of the administrator.
Request(s) ==
    \/ ReadSet(s) \/ CommitSet(s)
    \/ StartApproval(s) \/ CommitApproval(s)
    \/ LoadDraft(s) \/ StartEdit(s) \/ CommitEdit(s)
    \/ StartPublish(s) \/ CommitPublish(s)
    \/ AbortSession(s)

Next ==
    \/ \E w \in Workers : Work(w)
    \/ \E s \in Sessions : Request(s)
    \/ EnqueueImage \/ CreateBeside \/ RecoverStale

Spec == Init /\ [][Next]_vars

-----------------------------------------------------------------------------
TypeOK ==
    /\ made \in Drafts /\ draft \in Drafts
    /\ status \in [Drafts -> {"draft", "published", None}]
    /\ image \in [Drafts -> [Variants -> ImageSet]]
    /\ job \in [Jobs -> JobSet \cup {None}]
    /\ file \subseteq Jobs /\ approval \subseteq Jobs

\* What a draft shows is real: the image of a variant comes from a succeeded job
\* for that variant, its files are on disk whatever failed or was recovered, and
\* it counts as approved only if the operator's approval of that very image was
\* committed (catalog_images.py:1313-1381, 1422-1435, 1569-1582).
ShownImageIsReal ==
    \A d \in Drafts, v \in Variants :
        LET shown == image[d][v]
        IN shown.job # None =>
              /\ job[shown.job].status = "succeeded"
              /\ job[shown.job].variant = v
              /\ shown.job \in file
              /\ shown.approved => shown.job \in approval

\* Repeating the variant set command never has two jobs at work on one child
\* (catalog_images.py:900-911; frontend-api.md:1044-1046) ...
OneActiveChild ==
    \A j, k \in Enqueued :
        /\ job[j].set # None /\ job[j].set = job[k].set
        /\ job[j].variant = job[k].variant
        /\ {job[j].status, job[k].status} \subseteq {"queued", "running"}
        => j = k

\* ... and a set that is reported complete is one whose draft shows approved images
\* of this very family: no late or replaced result is counted
\* (catalog_images.py:813-833).
CompleteIsApproved ==
    \A j \in Enqueued :
        job[j].set # None /\ FamilyStatus(job[j].set) = "complete"
        => /\ IsApproved(job[j].draft)
           /\ \A v \in Variants \ {0} :
                 job[image[job[j].draft][v].job].source = image[job[j].draft][0].job

VariantSetIsCoherent == OneActiveChild /\ CompleteIsApproved

\* What is on sale was approved by the operator, image for image.
ProductIsApproved ==
    product # None => \A v \in Variants : product[v].job # None => product[v].job \in approval

\* An edit commits images that were not those of the draft it locked.
StaleEditCommits ==
    draft' # draft /\ \E s \in Sessions : session[s].pc = "stale edit" /\ session'[s].pc = "quiet"

\* An image approved in the current draft stays there, shown or in the history,
\* whatever edits, results and approvals commit at the same time: the locks of the
\* draft and of the workflow leave no room for a lost update
\* (catalog_admin.py:1024-1029, catalog_images.py:1313-1319).  Only an edit made
\* from images the client loaded earlier can drop one.
ImageKept ==
    StaleEditCommits \/
    \A v \in Variants :
       LET old == image[draft][v]
           new == image'[draft'][v]
       IN old.approved => old.job \in {new.job} \cup new.history

\* "expected_draft_version; stale edits return 409" (frontend-api.md:776).  The code breaks
\* this: an edit is checked against the version, not against the images it was made from.
StaleEditIsRefused == [][~StaleEditCommits]_vars
=============================================================================
