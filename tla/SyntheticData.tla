---------------------------- MODULE SyntheticData ----------------------------
(***************************************************************************)
(* Replacing the synthetic dataset, and extending it day by day:           *)
(*                                                                         *)
(*   - the load of a generated run, entity by entity (app/services/        *)
(*     loader.py, app/routers/admin_synthetic.py, app/mcp_server.py), and  *)
(*     the guarded cutover from one run to another (app/services/          *)
(*     catalog_cutover.py): every step is a commit of its own;             *)
(*   - the daily orders (app/services/daily_synthetic_orders.py): written  *)
(*     in one transaction, which the validation commits half way.  It is   *)
(*     READ COMMITTED: each statement sees what is committed when it       *)
(*     starts, so another run may commit between any two of them.          *)
(*                                                                         *)
(* One operator loads at a time; the scheduler, the MCP tool and the       *)
(* command line may all write daily orders meanwhile.  A row is its run;   *)
(* the id of a daily order is its day and its number in the day, whichever *)
(* run writes it, and how many orders a day has differs from run to run.   *)
(***************************************************************************)
EXTENDS Naturals, Sequences

CONSTANTS
    Runs,   \* generated runs
    Today,  \* days 1 .. Today may have daily orders
    MaxOrders, \* bound on the daily orders of a day
    Daily,  \* processes that write daily orders
    Kinds,  \* the ways to load, of "rest", "mcp", "cutover" and "seed"
    None

VARIABLES
    rows,    \* rows[e]: the runs whose rows table e holds
    loaded,  \* the generated runs marked "loaded"
    job,     \* what the operator is doing, or last did
    orders,  \* orders[d][i]: the daily run that wrote the order with that id, or None
    metrics, \* metrics[d]: the daily runs with metric rows for day d
    known,   \* the daily runs that have a row (nobody reads its status)
    work     \* work[p]: what process p is doing, or None

vars == <<rows, loaded, job, orders, metrics, known, work>>

\* SYNTHETIC_LOAD_ORDER, each table with the one it refers to; the canonical catalog is
\* made from the products.
Loads == <<"stores", "products", "orders">>
Entities == {"stores", "products", "orders", "catalog"}
Days == 1 .. Today
DailyRuns == {r \in Days \X Days : r[1] <= r[2]}
DaysOf(r) == r[1] .. r[2]
Numbers == 1 .. MaxOrders
Ids == Days \X Numbers
NoOrders == [d \in Days |-> [i \in Numbers |-> None]]
NoMetrics == [d \in Days |-> {}]
Empty == [e \in Entities |-> {}]

\* A composition assumes it of what it instantiates the module with.
DataAssumption == Today \in Nat /\ MaxOrders \in Nat /\ None \notin DailyRuns

Init ==
    /\ rows \in {Empty} \cup {[e \in Entities |-> {r}] : r \in Runs}
    /\ loaded = UNION {rows[e] : e \in Entities}
    /\ job = None
    /\ orders = NoOrders /\ metrics = NoMetrics
    /\ known = {}
    /\ work = [p \in Daily |-> None]

dataVars == <<rows, loaded>>
dayVars == <<orders, metrics, known, work>>

-----------------------------------------------------------------------------
\* preflight_catalog_cutover: what it can refuse for within this model is a catalog of
\* more than one run; the files, the authored products and the customer state it also
\* asks for are external.
Preflight == \A r, s \in rows["products"] : r = s

Idle == job # None => job.op \in {"done", "failed"}

\* How a load ended matters to nobody but the operator of a cutover.
Ended(op) == job' = IF job.kind = "cutover" THEN [op |-> op, kind |-> job.kind, run |-> job.run] ELSE None
Goon(op) == job' = [job EXCEPT !.op = op]

\* A load by the endpoint or the MCP tool, of all or some entities, a cutover, or the
\* load of one entity alone, which resets only for the stores.
StartLoad ==
    /\ Idle
    /\ \E r \in Runs, kind \in Kinds, n \in 1 .. Len(Loads) :
          /\ kind = "cutover" => Preflight /\ n = Len(Loads)
          /\ job' = [op |-> IF kind = "seed" /\ n # 1 THEN "load" ELSE "reset", kind |-> kind,
                     run |-> r, next |-> IF kind = "seed" THEN n ELSE 1, last |-> n]
    /\ UNCHANGED <<dataVars, dayVars>>

Doing(p, op) == work[p] # None /\ work[p].op = op
Open(p) == work[p] # None /\ work[p].op \notin {"planned", "committed"}

\* The daily orders and metric rows a transaction has deleted or written: whoever wants
\* to delete or write them waits for its end.
Locked(p) ==
    CASE Doing(p, "cleared") \/ Doing(p, "deleted") -> work[p].gone
      [] Doing(p, "written") -> work[p].gone \cup work[p].put
      [] OTHER -> {}
LockedMetrics(p) == IF Doing(p, "deleted") \/ Doing(p, "written") THEN work[p].cut ELSE NoMetrics
Holds(p) == Locked(p) # {} \/ LockedMetrics(p) # NoMetrics

\* reset_synthetic_tables: one transaction, which waits for the daily orders that hold
\* rows; assert_synthetic_tables_empty follows.
Reset ==
    /\ job # None /\ job.op = "reset"
    /\ \A p \in Daily : ~Holds(p)
    /\ rows' = Empty
    /\ orders' = NoOrders /\ metrics' = NoMetrics
    /\ Goon("load")
    /\ UNCHANGED <<loaded, known, work>>

AfterLast == CASE job.kind = "mcp" -> "mark"
               [] job.kind = "seed" -> IF job.last = 2 THEN "normalize" ELSE "done"
               [] job.kind = "rest" -> IF job.last >= 2 THEN "normalize" ELSE "mark"
               [] OTHER -> "normalize"

\* load_entity_csv: the rows of this run and those with the same keys are replaced.  The
\* delete is refused while other tables refer to those rows, the insert if what they
\* refer to is not there.
LoadEntity ==
    /\ job # None /\ job.op = "load"
    /\ LET e == Loads[job.next]
           children == {Loads[i] : i \in job.next + 1 .. Len(Loads)}
       IN /\ job.next > 1 => rows[Loads[job.next - 1]] # {}
          /\ \E same \in SUBSET (rows[e] \ {job.run}) :
                /\ (same # {} \/ job.run \in rows[e]) => \A c \in children : rows[c] = {}
                /\ rows' = [rows EXCEPT ![e] = (@ \ same) \cup {job.run}]
    /\ IF job.next < job.last THEN job' = [job EXCEPT !.next = @ + 1]
       ELSE IF AfterLast = "done" THEN Ended("done") ELSE Goon(AfterLast)
    /\ UNCHANGED <<loaded, dayVars>>

\* normalize_loaded_catalog, only where the products were loaded.
Normalize ==
    /\ job # None /\ job.op = "normalize"
    /\ rows' = [rows EXCEPT !["catalog"] = @ \cup (rows["products"] \cap {job.run})]
    /\ CASE job.kind = "seed" -> Ended("done")
         [] job.kind = "cutover" -> Goon("count")
         [] OTHER -> Goon("mark")
    /\ UNCHANGED <<loaded, dayVars>>

\* The counts of the run in every table are those of the files.
Count ==
    /\ job # None /\ job.op = "count"
    /\ \A e \in Entities : job.run \in rows[e]
    /\ Goon("mark")
    /\ UNCHANGED <<dataVars, dayVars>>

MarkLoaded ==
    /\ job # None /\ job.op = "mark"
    /\ loaded' = loaded \cup {job.run}
    /\ Ended("done")
    /\ UNCHANGED <<rows, dayVars>>

\* A refusal, an error or a crash: what was committed stays.
FailLoad ==
    /\ ~Idle
    /\ Ended("failed")
    /\ UNCHANGED <<dataVars, dayVars>>

-----------------------------------------------------------------------------
Goto(p, w) == work' = [work EXCEPT ![p] = w]
Written == {d \in Days : \E i \in Numbers : orders[d][i] # None}
Latest == CHOOSE d \in Written \cup {0} : \A c \in Written : c <= d

\* plan_daily_synthetic_orders: from the day the caller names, or after the latest order,
\* up to a day that is over; none without orders to follow.
Plan(p) ==
    /\ work[p] = None
    /\ \E first, last \in Days :
          /\ first <= last
          /\ \/ TRUE \* from_date
             \/ rows["orders"] # {} /\ first = Latest + 1
          /\ Goto(p, [op |-> "planned", run |-> <<first, last>>,
                      new |-> <<first, last>> \notin known])
    /\ UNCHANGED <<dataVars, job, orders, metrics, known>>

HasSource == rows["stores"] # {} /\ rows["products"] # {}

\* The row of the run is inserted or updated, and held to the commit.
Start(p) ==
    /\ Doing(p, "planned") /\ HasSource
    /\ LET r == work[p].run
       IN /\ \A q \in Daily : ~(Open(q) /\ work[q].run = r)
          /\ work[p].new => r \notin known
          /\ Goto(p, [op |-> "select", run |-> r, next |-> r[1], seen |-> NoOrders])
    /\ UNCHANGED <<dataVars, job, orders, metrics, known>>

\* _delete_existing_daily_rows selects the ids of the orders day by day ...
Select(p) ==
    /\ Doing(p, "select") /\ work[p].next <= work[p].run[2]
    /\ Goto(p, [work[p] EXCEPT !.next = @ + 1, !.seen[work[p].next] = orders[work[p].next]])
    /\ UNCHANGED <<dataVars, job, orders, metrics, known>>

\* ... deletes the orders that have them, waiting for others that hold such rows: a row
\* that was replaced after the statement had started is missed.  (Where the items were
\* deleted before it was replaced, the order cannot be: StopDaily.)
DeleteOrders(p) ==
    /\ Doing(p, "select") /\ work[p].next > work[p].run[2]
    /\ LET seen == work[p].seen
           ids == {x \in Ids : seen[x[1]][x[2]] # None}
       IN /\ \A q \in Daily \ {p} : Locked(q) \cap ids = {}
          /\ \E visible \in {seen, orders} :
                LET gone == {x \in ids : /\ orders[x[1]][x[2]] # None
                                         /\ orders[x[1]][x[2]] = visible[x[1]][x[2]]}
                IN Goto(p, [op |-> "cleared", run |-> work[p].run, gone |-> gone, before |-> metrics])
    /\ UNCHANGED <<dataVars, job, orders, metrics, known>>

\* ... and deletes the metric rows of any daily run for its days, in the same way, whether
\* it has found orders or not.
DeleteMetrics(p) ==
    /\ Doing(p, "cleared")
    /\ LET days == DaysOf(work[p].run)
       IN /\ \A q \in Daily \ {p}, d \in days : LockedMetrics(q)[d] \cap metrics[d] = {}
          /\ \E visible \in {work[p].before, metrics} :
                Goto(p, [op |-> "deleted", run |-> work[p].run, gone |-> work[p].gone,
                         cut |-> [d \in Days |-> IF d \in days THEN metrics[d] \cap visible[d] ELSE {}]])
    /\ UNCHANGED <<dataVars, job, orders, metrics, known>>

\* The insert of an order waits for another of the same id, and fails (StopDaily) if that
\* one is committed, or if a store or a product is gone.
Insert(p) ==
    /\ Doing(p, "deleted") /\ HasSource
    /\ LET w == work[p]
       IN \E count \in [DaysOf(w.run) -> 0 .. MaxOrders] :
             LET put == {x \in DaysOf(w.run) \X Numbers : x[2] <= count[x[1]]}
             IN /\ \A q \in Daily \ {p} : Locked(q) \cap put = {}
                /\ \A x \in put : orders[x[1]][x[2]] = None \/ x \in w.gone
                /\ Goto(p, [op |-> "written", run |-> w.run, gone |-> w.gone, cut |-> w.cut, put |-> put])
    /\ UNCHANGED <<dataVars, job, orders, metrics, known>>

\* The metric rows of any daily run for the day go before those of this run come.
BrokenMetricsAfter(p, d) == metrics[d] \cup {work[p].run : x \in {y \in work[p].put : y[1] = d}}
MetricsAfter(p, d) ==
    (metrics[d] \ work[p].cut[d]) \cup {work[p].run : x \in {y \in work[p].put : y[1] = d}}

\* run_validation_checks commits before it looks for failures.
CommitRows(p) ==
    /\ Doing(p, "written")
    /\ LET w == work[p]
       IN /\ orders' = [d \in Days |-> [i \in Numbers |->
                           IF <<d, i>> \in w.put THEN w.run
                           ELSE IF <<d, i>> \in w.gone THEN None ELSE orders[d][i]]]
          /\ metrics' = [d \in Days |-> MetricsAfter(p, d)]
          /\ known' = known \cup {w.run}
          /\ Goto(p, [op |-> "committed", run |-> w.run])
    /\ UNCHANGED <<dataVars, job>>

\* The status of the run follows in a transaction of its own.
MarkDaily(p) ==
    /\ Doing(p, "committed") /\ Goto(p, None)
    /\ UNCHANGED <<dataVars, job, orders, metrics, known>>

\* An error outside the database commits what the session holds: the run as failed, and
\* the deletions if the orders are not inserted yet.
FailDaily(p) ==
    /\ Doing(p, "deleted") \/ (Doing(p, "select") /\ work[p].next = work[p].run[1])
    /\ orders' = [d \in Days |-> [i \in Numbers |->
                     IF <<d, i>> \in Locked(p) THEN None ELSE orders[d][i]]]
    /\ metrics' = [d \in Days |-> metrics[d] \ LockedMetrics(p)[d]]
    /\ known' = known \cup {work[p].run}
    /\ Goto(p, None)
    /\ UNCHANGED <<dataVars, job>>

\* A refused insert, a lost source, or a process that stops: the transaction is undone.
StopDaily(p) ==
    /\ work[p] # None /\ Goto(p, None)
    /\ UNCHANGED <<dataVars, job, orders, metrics, known>>

Next ==
    \/ StartLoad \/ Reset \/ LoadEntity \/ Normalize \/ Count \/ MarkLoaded \/ FailLoad
    \/ \E p \in Daily : \/ Plan(p) \/ Start(p) \/ Select(p) \/ DeleteOrders(p)
                        \/ DeleteMetrics(p) \/ Insert(p) \/ CommitRows(p)
                        \/ MarkDaily(p) \/ FailDaily(p) \/ StopDaily(p)

Spec == Init /\ [][Next]_vars

-----------------------------------------------------------------------------
TypeOK ==
    /\ rows \in [Entities -> SUBSET Runs] /\ loaded \subseteq Runs
    /\ orders \in [Days -> [Numbers -> DailyRuns \cup {None}]]

\* A cutover that ended well left the rows of its run and no others in every table,
\* whatever an earlier load left half done and whatever daily orders were written in
\* between ("replaces_loaded_catalog_without_mixing_runs", tests/test_catalog_cutover.py);
\* and one that failed, at any step, left a catalog that its rollback command may replace.
CutoverIsWhole ==
    job # None /\ job.kind = "cutover" =>
        /\ job.op = "done" => \A e \in Entities : rows[e] = {job.run}
        /\ job.op = "failed" => Preflight

\* The sales of a day are never counted twice, however catch-ups overlap, fail and stop:
\* its metric rows are of one run, the one that wrote the first of its orders.  A day may
\* be without them: the failure of a run keeps what it had deleted.
MetricsFollowOrders ==
    \A d \in Days : \A r \in metrics[d] : MaxOrders > 0 /\ orders[d][1] = r

\* "reruns do not duplicate orders" (README.md:338) suggests more: that the orders of a day
\* are of one run and its metrics of the same.  The code breaks both parts.  A run that
\* selects the ids of a day before another commits more of them leaves the rest of those
\* beside its own, and deletes their metrics; and its failure after that leaves orders
\* without metrics.
DaysAreWhole ==
    \A d \in Days : metrics[d] = {orders[d][i] : i \in Numbers} \ {None}
=============================================================================
