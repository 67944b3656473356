# Sterling Hollis backend: TLA+ models, checks and proofs

The repository is a FastAPI backend for a demo department store: a product
catalog with an authoring tool (Catalog Studio), background jobs for search
indexes and product images, customer chat and operator workflows, an MCP server
and trace endpoints. What it decides on lives in one PostgreSQL database, which
API processes and background workers share. This directory models the parts
whose correctness depends on how their transactions interleave, and the
algorithms whose results other parts rely on; it checks them with TLC on small
instances, and proves the most important facts with TLAPS for every size.

`path:line` below is relative to `src/`.

## 1. The system

### What all of it stands on

PostgreSQL runs at READ COMMITTED, and `app/database.py:14` opens sessions with
`autoflush=False` and `expire_on_commit=False`. Three consequences decide most
of what can go wrong, and all the models share them:

* a statement sees what was committed when it began, so a check and a later
  write may see different rows;
* a session keeps every row it has loaded. `SELECT ... FOR UPDATE` takes the
  row lock, but does not refresh a copy the session holds unless the query says
  so, and a commit does not expire it; a rollback does. A session can hold the
  lock and decide on an old copy;
* an UPDATE writes the attributes the session changed, by primary key. A status
  read earlier is not part of its condition, with two exceptions: the
  conditional UPDATEs that claim jobs.

What protects the data then is row locks, unique keys and conditional UPDATEs,
and each component uses a different mix.

### Components

`services/` is `app/services/`.

| component | state | operations | who else touches it | module |
|---|---|---|---|---|
| workflow timeline `services/catalog_workflow.py` | one `catalog_workflows` row, its events | start, append, replay, refuse, scrub | every Catalog Studio component appends to it | CatalogWorkflow |
| authoring `services/catalog_admin.py` | product row and version, private drafts, idempotency records | create or replace a draft, publish, archive, revise | workflow links, index jobs | CatalogAuthoring |
| draft contracts `catalog/admin_schemas.py` | the form a draft is stored in, the two inventory tables | write in v1, v2 or v3; convert; publish; revise | images and sources write drafts through other forms | DraftContracts |
| AI draft commands `services/catalog_ai.py` | reserved keys, drafts, the workflow row | create or refine a draft with a model | authoring, timeline | DraftCommands |
| suggestions `services/catalog_suggestions.py` | suggestion sets and their verdicts | propose, accept or reject a field, a section or all; supersede | authoring, the AI provider | CatalogSuggestions |
| draft images `services/catalog_images.py` | images of a draft, their jobs, approvals, files | generate, store, approve, recover; variant sets | image jobs, authoring, timeline | CatalogImages |
| media gallery, same file | an ordered gallery, its lineage | vary, approve, reorder, make main, remove, restore, publish | as above | MediaGallery |
| sources `services/catalog_sources.py` | a bundle, its assets, two files each | upload, remove, promote | draft media, image jobs | CatalogSources |
| voice `services/catalog_realtime.py`, `catalog_voice_tools.py` | session events on a timeline | create a session, call a tool | timeline, suggestions, AI commands | VoiceSessions |
| index jobs `services/index_jobs.py`, `indexing.py` | `index_jobs`, two embedding tables, run status | enqueue, claim, index, finish, fail | publication, MCP tool, cutover | IndexJobs |
| image jobs `services/image_jobs.py` | `image_generation_jobs` | enqueue, claim, progress, finish, recover | admin requests, draft images | ImageJobs |
| worker `app/worker.py` | the loop's position, its recovery cadence | recover, image job, index job, sleep | both queues | BackgroundWorker |
| product reviews `services/product_reviews.py` | a review, its moderation version, its actions | import, assist, decide, respond | moderation and model providers | ProductReviews |
| communications `services/communications.py`, messages of `executive.py` | a message row with its status | draft, prepare, edit, send | SMS and email providers | Outreach |
| customer chat `services/chat/orchestrator.py` | conversations, turns, customer links | enter, replay, answer, gate | the model, identity | ChatTurns |
| API traces `api_traces/service.py` | spans and events of a trace | record, append from the browser, stream, hide | every request | ApiTraces |
| synthetic data `services/loader.py`, `catalog_cutover.py`, `daily_synthetic_orders.py` | the runs each table holds, orders and metrics by day | reset, load, cut over, write a day | every reader | SyntheticData |
| catalog backfill `services/catalog_normalization.py` | legacy rows, products, variants, two inventories | normalise, author, migrate | loader, migrations | CatalogBackfill |
| operator cache `services/operator_cache.py` | a bounded dictionary per process | hit, miss, put, clear | store lookups, resets | OperatorCache |
| store performance `services/merchandising.py`, `product_performance.py` | none: functions of the order lines | recommend, benchmark, trend, dropped sales | MCP server | StorePerformance |
| strategy simulation `services/executive.py` | none: functions of a base | simulate, optimise | MCP server | StrategyProjection |
| strategy packets, same file | packets, store overrides | publish, override, reset, tag | MCP server | MerchStrategy |
| unified workspace `app/mcp_server.py` | none: a report over several stores | inventory, actions, mix | the three above | UnifiedWorkspace |
| catalog assistant, chat agents and tools, recommendations, dashboards, observability, capabilities, widgets | none, or rows written in one transaction | | | not modelled, see section 7 |

`PROJECT.json` lists every component with its sources, and under `hazards`
each place that is hard to test, with the property that watches it or the reason
there is none.

### What is hard, and what makes each component correct

*Timeline.* The next sequence number is read from the session's copy of the
workflow row. Correct means: numbers without gap or duplicate, a row that shows
the last event, retries answered as the first time, nothing rewritten.

*Authoring.* Requests are repeated, race each other over locks on product,
draft and workflow, and check an expected version before they write. Correct
means: a key acts once, a stale expectation changes nothing, a draft is used
once, no workflow loses its draft, nobody waits for ever.

*Contracts.* A draft goes through several conversions on its way to the tables
and back. Correct means: the two inventory tables agree, a write of one
contract loses nothing another wrote, a revision starts from the product.

*AI commands and suggestions.* A paid provider call lies between two
transactions. Correct means: one call a key, no lost refinement, no workflow
taken away, an outcome for every reserved key; an accepted suggestion is in the
draft it names and is decided once.

*Images, gallery, sources.* A provider answers late, edits and approvals take
the locks in opposite orders, files change at once and rows at the commit.
Correct means: nothing is shown that was not generated and approved, an
approved image is kept, a gallery can be read again, a removed source leaves no
file, and a promoted one is in the draft it was promoted into and leaves the
later ones only by an edit or a media command.

*Voice.* Sessions are bound to a workflow by an event stamped before it is
committed. Correct means: once a tool call of a session was let through, no later
call of an older one is. A call that was let through before is not stopped.

*Index jobs, image jobs, worker.* A rebuild is many transactions, a recovery
decides from a heartbeat that a worker is dead. Correct means: claims are
exclusive, an indexed run is complete and current, a batch that was given up
stops paying for images, "succeeded" means complete, an orphaned image job is
ended. The index queue comes second by design: it is served once the image queue
has run empty, and starves while image jobs keep coming.

*Reviews, messages, chat, traces.* Each mixes copies loaded without a lock
with a commit that writes changed columns only. Correct means: the history of
decisions is a chain and what was published was seen; a message's status is
what is known of it; a conversation has one owner and serial turns; the spans
of a trace are one tree.

*Loads.* A reset is committed before the rows come back, a day's orders are
committed half way, and deleted in statements between which others commit.
Correct means: a completed cutover holds one run, and a day's metrics are those of
the run that wrote its first order, so that no sale is in the metrics twice.

*Reports.* No concurrency, but windows, buckets, rounding, ranks and bounds.
Correct means: every sale counts once, no better scenario is withheld, a report
over several stores adds up, and what it tells a store follows the operator's
overrides as far as its list goes.

## 2. The modules

One module per component. `EventLog` and `JobLifecycle` are abstract
specifications; `BackgroundWorker` composes the two queues; `XProofs` extends
`X`; `MCX` instantiates `X` for TLC. In each component's module the definitions
named `Broken...` are the form a plausible bug would give the definition that
follows: they show that a property can fail and are used by no specification.

### Catalog Studio

**CatalogWorkflow** (`catalog_workflow.py`). `wf` and `events` are the committed
rows; `row[s]` is the copy in the identity map of session `s`; `shadow` and
`pending` are what the transaction that holds `lock` has flushed. Actions:
`StartLookup`/`StartInsert` (the two halves of `start_catalog_workflow`, which
another session may run between), `LoadWorkflow` (a read without lock),
`LockWorkflow` (`_owner_workflow`), `AppendEvent`, `ReplayEvent`, `RejectReuse`
and `RefuseSequence` (the four ways `append_workflow_event` ends), `Commit`,
`Rollback`, `Forget` (the session is closed), `LinkDraft` (an edit relinks the
row without an event) and `ScrubPayloads`.

**EventLog** is what readers are promised: a log that grows by batches numbered
from the current length, under new keys, with the last entry's state on top.
`ImplementsLog` maps the committed rows to it.

**CatalogAuthoring** (`catalog_admin.py`). A request is a session whose `pc`
goes through `lookup` (the idempotency key), `product` (the lock on the product
row and the version check), `check` (draft lock and checks), `write` and
`commit`; `read` is the version it has seen and `new` the draft it has flushed.
A product that was never published has version 0 and no row, so there is
nothing to lock: `LockProduct` lets every request through. `Commit` is refused
(`LoseCommit`) when another request has recorded the same key. `Send` and
`Retry` make new and repeated requests; `Follow` is an event that relinks the
workflow.

**DraftContracts** (`admin_schemas.py`, the writes of `catalog_admin.py`). A
draft's `snapshot` is in one of three schemas; `V2FromV1`, `V1FromV2` and the
rest are the conversions; `Write...`, `ChangeMedia`, `Publish` and
`StartRevision...` apply them in the order the code does. Sizes are four
spellings, enough to tell "no size", its v1 spelling, and a blank that only v1
keeps. Expected versions and locks are CatalogAuthoring's.

**DraftCommands** (`catalog_ai.py`). A command goes through `lookup`,
`validate`, `reserve` (its own transaction), `provider`, and then `store`,
`block` or `fail`. `copy` is the workflow row as it was before the provider
call, and the second validation uses it; `Collides` is the unique sequence
number, which refuses a copy that has fallen behind. Beside the commands,
`EditDraft`/`CommitEdit` is `create_draft` of an administrator, `ReviseInto`
`start_product_revision`, and `PostEvent` an event of a client. Drafts here are
v2 drafts: v3 drafts are refused by the command.

**CatalogSuggestions** (`catalog_suggestions.py`, and the AI command that makes
a set). Sets target the draft they were made for; an acceptance makes a new
revision, checks the draft again under its lock (`IsCurrent`, `Reread`), and
moves the set along; an edit supersedes. The draft's content is, per field, the
last writer.

**CatalogImages** (`catalog_images.py`). Commands, variant sets, the worker's
`StoreResult` with its files, late and failed results, recovery and approval,
next to edits and publications. The two lock orders (workflow before
draft, draft before workflow) and PostgreSQL's abort of one of the two are
modelled.

**MediaGallery** (`catalog_images.py`). The gallery as a set of assets, each
with its place and its predecessor; each command is one step, since the workflow's row lock
serialises them; a publication turns it into `product_media_assets` rows from
which the next revision starts.

**CatalogSources** (`catalog_sources.py`). Assets, their two files, the public
copy and the media item a promotion makes, with a crash or failure between any
two steps; `bundle` is the row lock, which a commit frees. An edit
(`CheckReferences`, `CommitEdit`) stores the media list its client sends, of items
it has read in any draft; a media command (`CheckMutation`) takes one item out or
restores one. `by` remembers which kind of request made a draft: the property uses
it, no action does.

**VoiceSessions** (`catalog_realtime.py`, `catalog_voice_tools.py`, the suggestion
command of `catalog_ai.py`). Creating a session (`StartSession`, `Provider`,
`RecordSession`), a tool call, and what else touches the workflow. A call looks at
the session once (`CheckTool`, which notes it in `admitted`); a proposal then
takes its key (`Propose`), commits its suggestion set after the provider's answer
(`Stage`), the command's event with its answer (`Answer`, or `FailCommand`), and
the tool's event (`ReportTool`), each in a transaction of its own. `overtaken` are
the requests whose copy of the workflow has fallen behind.

### Jobs

**IndexJobs** (`index_jobs.py`, `indexing.py`). `Lookup`/`Enqueue` are the two
halves of `enqueue_index_job` with deduplication, `Publish` enqueues without
it. A process goes through `claim` (the conditional UPDATE), `delete`, `read`,
`insert` (one step a batch, over both tables), `finish`. `embedding` holds the
content version each batch was built from. `CollideBatch` is the primary key
of an embedding row that another indexer has inserted; `StartTool` is the
synchronous indexing of the MCP server, an indexer without a job. `Crash` kills
a process wherever it is; `Restart` is the container's restart policy.

**JobLifecycle** is a durable queue: queued, started once by one process,
finished once. `ImplementsLifecycle` maps the job rows to it.

**ImageJobs** (`image_jobs.py`). A batch goes through `open`, and for every
variant `ReadProgress`, `WriteProgress`, `GenerateVariant` and both again, then
`CheckBatch` and `CommitBatch`: a status that is read in one step is not looked
at in the next, as in the code. `age` counts ticks since the last heartbeat.
`LoadStale`/`CommitStale` are the two ends of the recovery; `ConflictStale` is
the refusal of a second recovery's event, which rolls it back. Catalog Studio
jobs have no heartbeat and are one step, `FinishCatalog`.

**BackgroundWorker** (`worker.py`). `turn[w]` is the part of the loop worker `w`
is in; its steps are the steps of the two instances `Image` and `Index`. An
exception or a kill (`Fault`) ends the process in both. `others` says that image
jobs are queued beyond the ones that are watched: they may be enqueued at any time
(`OtherRequest`), without end, and after each of them (`OtherImageJob`) the loop
starts over, as `worker.py:106` does.

### Services

**ProductReviews** (`product_reviews.py`). The row lock is held to the commit
and refreshes the session's copy, so check, write and commit are the one step
`Apply`; the lookup of the key and the provider call are steps before it.

**Outreach** (`communications.py`, the messages of `executive.py`). Requests
that each load a message, check the copy, may call the provider (which may
raise after it has delivered) and commit only the columns that changed.

**ChatTurns** (`chat/orchestrator.py`). A request finds its conversation and a
turn to replay before it holds anything; from the insert or update of the
conversation's row to its commit it holds it. The model is external and may
choose any tool; the gate before customer data is the code's.

**ApiTraces** (`api_traces/service.py`). Projections with their roots and event
sequences, each recorded by a transaction that reads without a lock; browser
events under a lock; the stream's `cursor` and what was `sent`; retention.

**SyntheticData** (`loader.py`, `catalog_cutover.py`,
`daily_synthetic_orders.py`). `rows[e]` is the set of runs that table `e` holds,
`orders[d][i]` and `metrics[d]` who wrote the `i`th order and the metric rows of a
day. A load goes entity by entity, in the four ways there are (REST endpoint, MCP
tool, cutover, seeding one entity). A daily run takes its row (`Start`), selects
the ids of each day (`Select`), deletes those orders (`DeleteOrders`), deletes the
metric rows of the days whether it has found orders or not (`DeleteMetrics`),
inserts and commits. Each statement sees what is committed when it begins and
waits for rows another run holds; a row replaced while it waited is missed.
`FailDaily` is the failure path, which commits what is pending.

**CatalogBackfill** (`catalog_normalization.py`, two migrations). `ProductRows`,
`VariantRows` and `StockRows` group the legacy rows of a run; `Author` pools
the inventory by product in a second transaction; `Crash` may separate them.

**OperatorCache** (`operator_cache.py`). The `OrderedDict` is the entries by
key (`items`) and their order (`order`, as pairs of keys); a lookup holds no lock
between its miss and its put.

### Reports

**StorePerformance** (`merchandising.py`, `product_performance.py`). Every
report is an operator over the order lines of two windows; the ledger grows by
`Load` and `Return`. **StrategyProjection** (`executive.py`): the projection of
one scenario and the search over the grid. **MerchStrategy** (`executive.py`):
packets, overrides saved column by column, and the tags recommended from what
is in force. **UnifiedWorkspace** (`mcp_server.py`): the three reports over
several stores, one read a store while orders arrive, with overrides, limits
and aggregation. A mix is what the store is told: the list after the cut to its
`topK` best entries, in which reductions rank last.

### The composing MC modules

`MCJobsAndCommands`, `MCCatalogStudio`, `MCServices` and `MCReports` put several
components into one run. Their constants are parameters that a configuration
gives values to, so what is proved of such a module holds for every instance of
its components; suggestions are one parametric instance,
`Suggestions(Fields, Commands)`, used with two values; the index jobs of
`MCServices` are the module it extends. `part` is chosen in the initial state and never
changes: each behaviour is a behaviour of one part, the variables of the others
keep one value, and each property reads "in a behaviour of this part, the
part's property holds". Nothing is shared between the parts of one run, nothing
is lost by running them together, and the instances a component is checked in
are the substitutions of these modules. (Composition in the sense of components
that take steps together is `BackgroundWorker`, and the foreign steps each
module lists: edits beside commands, recoveries beside results.)

Abstracted everywhere: the contents of drafts, events, prompts and images;
moderation verdicts and provider outcomes (a nondeterministic choice); time
(ticks, where a timeout or retention is decided by it); formatting and
logging. Bounds are constants named `Max...`, `Drafts`, `Keys` and `Jobs`;
each is commented where it is declared.

## 3. The runs

Twelve configurations; five of them show a disagreement.

| run | question | instance |
|---|---|---|
| `workflow` | is the timeline dense, append-only, current and true to what was answered, whatever copies of the row the sessions hold? does it implement EventLog? | 2 sessions, 3 keys, 2 states, 2 start requests |
| `background_worker` | does the loop implement the image queue with all the fairness that queue assumes, claim every index job once the image jobs end, and end orphans? | 1 worker, 1 admin reader, 1 watched job each, a stream of other image jobs that may or may not end, a fault in either, fair |
| `jobs_and_commands` | are claims exclusive, is every queued job claimed, is JobLifecycle implemented? does a command never take the workflow from a newer draft of its own product, and end? | 2 workers, 3 jobs, 1 crash; 1 command, 1 editor, 2 edits or events on 2 products and a public one; fair |
| `authoring_versions` | once there is a row: a key acts once, stale requests change nothing, a draft is used once, a revision finds no draft in the workflow it goes into, every request is answered | 2 requests, 2 keys, version 1, fair |
| `catalog_studio` | images, gallery, suggestions, sources | 2 requests each; 2 variants with 3 jobs, 2 drafts and 1 fault; 4 assets over 3 drafts; 2 fields with 2 sets, or 1 field and an AI command; 2 assets over 3 drafts |
| `services` | the queues, two commands, traces, messages, chat, loads, voice | see below |
| `reports` | the reports, contracts, backfill, cache, packets, reviews | see below |
| `index_jobs_durable` | (violation) does a claimed index job always end? | 1 worker, 1 crash, fair |
| `authoring_stale` | (violation) is a stale first publication refused? | 2 owners, 3 keys, version 0 |
| `draft_commands_lost` | (violation) is an edit beside a refinement of the same version refused? | 1 command, 1 editor |
| `sources_lineage` | (violation) is the source of a media item kept? | 2 assets, 2 requests |
| `contracts_ready` | (violation) can a draft that is reported ready be published? | every inventory of two rows over four spellings |

What each property of the three large runs says:

* `catalog_studio`. `ImagesAreReal`: no draft or product shows an image that was
  not generated for it, that lost its files, or that was not approved, and a
  variant set has one job per child. `ApprovedIsKept`: no edit, result, reorder
  or approval drops an approved image, except an edit the client made from
  images it had loaded before. `GalleryIsReadable`: every gallery left by any
  sequence of commands passes the validation of the next read.
  `AcceptedIsApplied`, `VerdictIsFinal`, `SourceRecordIsTrue`: as section 1 says;
  for the last, promotions of two assets, made from whatever draft they have read,
  must not drop each other's item, beside edits and removals that may.
* `services`. `IndexIsCurrent` (1 worker, the tool, 3 jobs of 2 batches, 2
  publications, 1 crash). `ImageJobIsTrue` (2 workers, 2 jobs of up to 2
  variants, 1 fault): one worker a job, bounded late work, no false success,
  and outcomes that change in two known races only. `CommandsExclude` (2 commands, 2
  keys, a revision or event, 1 crash): one call a key, and of two commands that
  saw the same drafts one is refused. `SpansAreOneTree` (three projections with
  two roots, in any order, and browser events). `StatusIsTrue` (3 requests on a
  message). `ConversationIsWhole` (2 requests, a sign-in between).
  `LoadsAreWhole`: `CutoverIsWhole` (2 generated runs in all four kinds of load, 1
  daily process on 1 day beside them) and `MetricsFollowOrders` (2 daily processes
  over 2 days of up to 2 orders, overlapping statement by statement).
  `OneSessionIsAdmitted` (2 workflows, 2 requests, 2 session events).
* `reports`. `PerformanceIsTrue`: every ledger of up to three lines over three
  stores; each sale of a window counts once in each report, a dropped product
  is seen. `ProjectionIsSound`: every base of two categories with three
  revenues; a projection keeps the floor space, makes nothing negative, and no
  scenario of the grid is better than those offered. `ReportIsTrue`: 2 stores,
  5 kinds of request, orders between the reads; and in the ledgers above,
  advice follows sales. Its `OverridesAreFollowed` is about the rows a store is
  shown, in lists of 4 and of 5 entries, of which the first is full too early: a dropped product goes or
  is reduced, a promoted one is held, unless the list is full without that entry. `ContractsAgree`: every sequence of writes in the three
  contracts up to version 2. `CatalogHoldsTheRows`: pairs of runs of three
  rows, with a crash and the migrations. `CacheIsHonest`: 2 callers, 3 keys,
  room for 2. `StrategyIsFollowed`: a save that no other overtakes is in force,
  and a stronger execution loses no tag. `ReviewIsModerated`: 2 requests, 3
  keys.

**Why the bounds are enough.** Every hazard is a race of two transactions over
one row, at times with a third party (an event, a recovery, a crash) in between;
each instance has two actors, the third party, and one more key, job or draft
than the actors so that a retry, a reuse and a fresh request can meet. Versions
and sequence numbers are compared and incremented, never more. Two batches
a table are the fewest for which a rebuild can be torn; two variants the fewest
for a set to be half done; three revisions the fewest for an edit to come
between two others. For the reports, the inputs hold one value on each side of
every comparison the code makes. The proofs remove the bounds for what they
cover.

**Symmetry** is used only in runs without liveness, and only over constants
that a specification compares for equality. **Deadlock** is checked in
`background_worker`, `authoring_versions` and the violations
`authoring_stale` and `draft_commands_lost`; elsewhere a behaviour may end,
because the keys, job numbers, drafts or lines of the instance are used up. In
DraftCommands each counted act and each key makes at most one draft, and
`Drafts` has a number for all of them, so a command never waits for a number.

**Fairness.** *Workers*: the loop of `worker.py` never waits for another
process, and the container is restarted (`deploy/docker-compose.prod.yml:25`),
hence weak fairness of its steps and of `Restart`. *Recovery* of image jobs:
the loop comes by again and again between jobs but not continuously, hence
strong fairness of `Recover` in ImageJobs; that assumption is not left
standing: `ImplementsImageJobs` in `background_worker` shows that the
weakly fair loop implements the whole fair specification. *Requests* wait for
row locks: PostgreSQL queues waiters and grants the lock in the end, although a
lock may be free and taken many times meanwhile, hence strong fairness of their
steps. A provider call ends: its client has a timeout. Clients owe nothing:
sending, retrying, posting and editing are not fair. The other modules state
safety only and no fairness.

**What the violations show.**

* `index_jobs_durable`: `README.md:19` promises "Durable background jobs for
  product indexing". A job whose worker dies stays `running` for ever, because
  nothing recovers index jobs, and `enqueue_index_job` keeps answering requests
  for the run with it.
* `authoring_stale`: `docs/frontend-api.md:762` promises 409 for a stale
  published version. Before the first publication there is no row to lock; of
  two concurrent first publications the second replaces the first, and the
  version stays 1.
* `draft_commands_lost`: `docs/frontend-api.md:776` promises 409 for stale
  edits. An edit locks the draft, an AI refinement the workflow; each counts the
  committed drafts, and both are accepted with the same expected version.
* `sources_lineage`: `catalog_sources.py:676` says that promoted sources are
  retained for media lineage. The draft with the media item is committed, and
  with it the lock given up, before the asset is marked promoted; a removal in
  between deletes the source.
* `contracts_ready`: `docs/frontend-api.md:619` says readiness reports what
  blocks publication. A v3 draft with a row without a size and one of size "One
  Size" is ready, and its conversion to v1 is refused.

More were met that have no run of their own. Each is written beside the
properties of its module, or noted with its hazard:

* `CommandIsAnswered` fails with `MaxCrashes = 1`: a key stays reserved.
* An AI command may take the workflow from a draft it never saw: a revision of
  another product links its draft without an event, and so does an edit of
  another product that selected the workflow before the command made its copy.
  The stale copy goes unnoticed, for the next sequence number is still right.
  `WorkflowKeepsDraft` says what cannot happen, that the draft taken away is a
  newer one of the command's own product; the plainer "a command moves the
  workflow only from the draft it was asked to start from" is false.
* A retry that waited for the row lock of its first attempt is answered 409
  instead of replayed.
* `IndexIsCurrent` fails with two workers *and* the synchronous tool: the tool
  may delete a finished job's rows and insert older content.
* `StaleEditIsRefused` (CatalogImages): an edit is checked against the version,
  not against the images it was made from.
* `MediaIsPublic` (CatalogSources): a refused promotion takes back the public
  copy that another promotion of the asset has found and used.
* `StreamMissesNothing` (ApiTraces): an event with a lower sequence number that
  commits after the cursor has passed is never sent.
* `HiddenStaysHidden` (ApiTraces): a later projection of a trace prolongs the
  retention of events that were hidden already.
* `OverridePersists` (MerchStrategy): two overlapping saves of an override are
  mixed column by column.
* `HoldsAlign` (UnifiedWorkspace): a product is held "to align with manual
  override" whatever the override says, and also while it is swapped out. With a
  full list, the reduction of a dropped product is cut and its hold is shown.
* `Index!QueuedIsClaimed` without the end of the image jobs (BackgroundWorker):
  the loop goes back to the top after each image job, so index jobs wait for ever
  while image jobs keep coming. `IndexIsClaimed` promises nothing else.
* `DaysAreWhole` (SyntheticData): two overlapping daily runs leave orders of both in
  a day, and the failure of one after its deletions leaves orders without metrics.
* `NoOlderSessionActs` (VoiceSessions): a call that was let through commits its
  suggestion set although a newer session was recorded, and let through, during
  the call of the provider.

## 4. The proofs

All are checked by TLAPS without a bound on any constant. A module of proofs
about a composing module shows each property from the inductive invariant of
the one part it is about (`PartInit`, `PartStep`: a behaviour stays in its part).

**CatalogWorkflowProofs.** `TypeCorrect`; `TimelineSafety` (dense, last event,
acknowledged events stored) and from it `RowAndAnswersAreTrue`;
`TimelineAppendOnly`; `RefusalMeansOvertaken` (an append is refused only to a
session whose copy another session's committed event has overtaken);
`LogImplementation` (every step is a step of EventLog or a stutter). Density is
not inductive: it rests on `TimelineInv`, which adds that the flushed rows of
the lock holder continue the committed numbering and, the core of the argument,
that no session's copy is *ahead* of the rows it may see (`NotAhead`). A copy
that is behind collides with an existing number and is refused; a copy that is
level continues it; there is no third case.

**IndexJobsProofs.** `TypeCorrect`, `ClaimIsExclusive`, `LifecycleImplemented`,
from `IInv`: a worker that indexes works on a running job that it has taken
itself, a queued job has no taker, and a synchronous request has no job.
Exclusiveness follows because `taker` is a function.

`IndexStaysCurrent` is the property of the two tables. Several transactions of
several processes rebuild a table, so `CurrentInv` follows it from the request
to its last batch: at any time the run has a job or an indexer that has yet to
delete the table, or an indexer that has filled it up to its own batch with the
content it has read (`TablesAreCovered`), or a failure that left the run
unsettled. `SeenIsNew` says when what an indexer read is the newest content.
The case that needs thought is two indexers that both insert: the primary key
makes the later one fail, and its failure leaves the trace. The theorem assumes
`Alone`, any number of workers without the synchronous tool or one worker with
it; without that the property is false (section 3).

**CatalogAuthoringProofs.** `TypeCorrect` and `KeyAppliesOnce` hold for all
constants: `Recorded` says that every effect's key is in the table, and a
commit under a recorded key is refused. `StaleNeverPublishes` and
`DraftsAreUsedOnce` assume `0 \notin StartVersions`, that is, a product with a
row; `authoring_stale` shows that the first needs it. `Locked` says
that a session past the version check holds the product alone and that what it
read is still the version; `Newest`, that no effect left a higher version.
`IDraft` adds that a draft already used is dead: published, superseded, or
of an old base, so that no check lets it through again. `RevisionsFindNoLink`
rests on `Unlinked`: from the check of the workflow to the commit of the
revision, its owner's link stays empty.

**DraftCommandsProofs.** `CommandsKeepDraft`. A command decides on the copy of
the workflow row it made before the provider call, so the invariant must say
what may have happened since without an event. `EditInv` holds that every
question is about a draft there is and a version there was (`AsksAreOfDrafts`),
that what is flushed is not there yet (`FlushedAreNew`), and that a copy with
the right next number is *level* (`CopyIsLevel`): the workflow still follows the
draft of the question, or it was moved to another product, or to a newer draft
of the product, and then the count of drafts has passed the expected version
and the second validation will refuse.

**ServicesProofs.** *Image jobs and commands.* `ImageJobsStayTrue`: a worker's
step presupposes the number of variants done (`HasDone`), a processed job is
running or was failed beside its worker, and a variant begun late belongs to a
job that is over and whose worker has yet to look (`LateIsNoticed`).
`CommandsStayExclusive`: a key is recorded before the call and never twice
(`KeysAreReserved`); the one command that holds the workflow still finds the
version it was asked of (`CommitIsAlone`), and every version that was accepted
is over (`LogIsOver`). *The other parts.* `MessageStatusIsTrue`: a request that waits to record an
outcome and the call it made know each other, and only an SMS is sent again.
`LoadsStayWhole`: both parts are those of SyntheticDataProofs, for the two
instances of the module.
`TraceIsOneTree`: a recorder works from old copies, but a span that was present
stays, so a new leaf or a new root keeps one tree (`SeenRootIsPresent`).
`ConversationsStayWhole`: a request that adds a turn holds the conversation and
has counted all its turns (`TurnIsHeld`). `NewestSessionIsAdmitted`: the session
of the last call that was let through is on record, so an older one is not the
newest event. What such a call does later is not in the theorem (section 3).

**SyntheticDataProofs.** `CutoverStaysWhole`: what a cutover finds in the tables at
each of its steps (`LoadInv`, `FilledIsWhole`). `MetricsStayWithOrders`: a
transaction that deletes the first order of a day deletes all the metric rows it
can see, and those are all there are, for whoever would add others needs the id of
that first order, which it holds. `DayInv` says so: what open transactions hold is
disjoint, what one holds is still committed, and from the deletion of the first
order to the end of the transaction the day's metric rows are among those it has
cut or, before that statement, among those it will see.

**ReportsProofs.** `ReviewsStayModerated`: the history has one action a version,
each on the version its actor named, with its key stored (`ReviewInv`).
`SavesAreFollowed`: an override row, once there, stays (`StrategyInv`), so a
save that no other overtakes is in force; and `TagsGrow`: a higher intensity
takes no tag away, for every margin and floor from 0 to 100.
`ContractsStayInStep` (all of `ContractsAgree`): `ContractsInv` says of a product
that it has one row for each size and that its two tables agree, of a draft that
its snapshot is one its contract accepts, and of an unchanged revision of the
current version that it is the product in one of the three forms. Each conversion
then keeps the units of every size. The sums are over the rows of one size in the
two stores, at most two of each; what the library's fold gives for so few follows
from its definition, and that is all the induction the proof needs.
`CatalogStaysWhole` (all of `CatalogHoldsTheRows`) needs sums over any finite set.
In place of an induction, a smallest subset without the property is refuted
(`SmallestSubset`, from the well-founded order of finite sets): so the recursion of
a sum has one solution (`SumExists`), any row can be taken out first
(`UnitsWithout`), and rows grouped into rows that count their groups are counted
once (`UnitsOfGroups`). The last is used twice, from legacy to stock rows and from
these to the inventory. `BackfillInv` says that a run's tables are untouched or
those of its legacy rows, filled by the service or by the migration; that no key
is of two runs; and that the products and inventory of a completed run are those
of its tables. `CacheStaysHonest` (all of `CacheIsHonest`), for any callers, keys,
size and time to live: the cached keys stand in the order of all uses, a total order
(`CacheInv`, `IsLine`), so what `_prune_locked` keeps is a tail of the live ones;
that this tail has room counts the keys after its first (`KeptIsLatest`).
`ReportsStayTrue` (all of `PerformanceIsTrue`): the ledger is a finite set of
lines of known products (`PerformanceInv`); the library's fold of any function of
integers is the one sum over its domain (`SumIsOnly`, `RevenueIsSum`), and lines
grouped by a key add up over the keys (`SumOfGroups`), of which the weeks and the
subjects are two uses and the two windows a third sum of parts. That a lost
product is reported needs its price to be positive: of one that costs nothing no
revenue is lost, and the code (`product_performance.py`) does not list it.
`ProjectionStaysSound` (all of `ProjectionIsSound`): a shift takes from one
category the space it gives to another, and never more than is there
(`ShiftMakesRows`), so sums that differ at two members by nothing are equal
(`SumsOfShift`). What is offered is chosen from the complete grid
(`ProjectionInv`); the order of the scenarios is total (`BeforeIsOrder`, where a
tie goes to the scenario tried first), and of a finite set in a total order as
many members as asked for have fewer than that many before them (`LeadersAre`,
by a smallest counterexample).

**StudioProofs.** *Sources*: a promotion that is to be marked is in its own draft
(`Since`), and every draft keeps the media of the one before it or is an edit
(`KeepsMedia`): a promotion adds to the newest draft or is refused, whatever was
committed since it read that draft. A removal holds the bundle and its row.
*Suggestions*: for any fields and commands, the row of a set says what its
decisions did (`RowIsTrue`), a decision keeps the others (`IsKept`), and a
verdict stands (`VerdictsAreFinal`). *Gallery*: readability is not inductive. A
restoration puts an item back in its old place, which must be free, and a
reorder numbers what it is given; both work because every gallery is `Dense`:
numbered from the core without a gap. *Images*: `ImageInv` says what a request
knows while it waits (`IsSound`): images loaded for an edit are real although
they may be old; under the draft lock, those of an edit are those of the draft;
under the workflow lock, the image to approve is still shown, and the missing
children of a set are still missing (`SetIsOpen`). Since a set's new jobs come
after all others and all earlier ones are over (`SetIsWhole`), a child has one
job at work, and its last job decides. `ImagesStayReal` follows, and
`ApprovedStays`, for the gallery too: an image that an approval marked can be
replaced by a result only into the history, and an edit that could drop it
would have to be stale.

The assumptions are those named in the modules (constants are of the right kind
and `None` is not one of the values); TLC evaluates each in some run: directly
where the run's module extends it, as a named assumption of the composing module
where it instantiates it.

Only model-checked:

* `ImplementsImageJobs`. That a step of the loop is a step of the queue is the way
  BackgroundWorker is written; what the run shows is that the loop is as fair to
  the queue as the queue's own specification demands.
* `ReportIsTrue`: its reports sort, flatten and select from sequences of any
  length; the library's operators for that are recursive or chosen among all
  sequences, and need induction with an operator parameter.
* All liveness properties: TLAPS does not reach them (it has no ENABLED).

## 5. Reading a counterexample

`tlc -config CatalogAuthoringStale.cfg MCCatalogAuthoring`, and the like for the
other runs (`PROJECT.json` names each run's module and configuration). A state's
`pc`, `turn` or `work` says which statement each session runs next; in a
composing run, `part` says which component the behaviour is of.
`tlapm CatalogAuthoringProofs.tla` checks a proof module.

## 6. Plan

Done: all the modules above and eight proof modules. In order of weight, next:

1. Authoring composed with the timeline: the publication event after the commit,
   whose loss is swallowed; the wait for the new product row before a first
   publication as a lock wait.
2. The images a batch overwrites because it loaded its variants when it started:
   ImageJobs composed with CatalogImages over the product's image links.
3. Abstract specifications of a versioned register, for suggestions and reviews
   together, and of at-most-once delivery per approval, for Outreach.
4. Larger instances of the parts that share a run, in runs of their own, where
   time allows.

## 7. Not modelled, and why

* *Recommendations and catalog reads*, *dashboards and analyst reports*: read
  rows and score them with weighted sums of floats or aggregate them for
  display; what one could state of them restates the weights. The store reports
  that other code decides on are StorePerformance.
* *Chat agents and tools, the catalog assistant, image analysis, prompts*: model
  output decides; the code around it that holds state is in ChatTurns,
  DraftCommands, CatalogSuggestions and CatalogImages.
* *Synthetic generation*: random values; its loading is SyntheticData.
* *Observability, capabilities, trace operations*: spans, logs and static
  tables that nothing decides on.
* *MCP server, beyond the workspace*: tools that delegate to the services, the
  exports, and the state and rendering of widgets.
* *Token checks* of customers and administrators: external. Two first requests
  of one customer both insert an identity and one fails, which ChatTurns shows
  as a refused request.
* *Routing, validation of bodies, configuration, scripts, other migrations*: no
  shared state, or offline.
