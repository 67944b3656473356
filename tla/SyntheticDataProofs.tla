------------------------- MODULE SyntheticDataProofs -------------------------
(***************************************************************************)
(* Proofs about the loads and the daily orders of synthetic data, for any  *)
(* runs, days, numbers of orders and processes.                            *)
(***************************************************************************)
EXTENDS SyntheticData, TLAPS

-----------------------------------------------------------------------------
(* Cutovers *)

\* What the operator's load may be.
LoadJobs ==
    [op : {"reset", "load", "normalize", "count", "mark"}, kind : Kinds, run : Runs,
     next : 1 .. 3, last : 1 .. 3]
      \cup [op : {"done", "failed"}, kind : {"cutover"}, run : Runs]

\* A cutover before its reset finds one catalog at most; then it fills the tables from
\* the stores on with its own rows, and the catalog last.
CutoverFills ==
    job # None /\ job.kind = "cutover" =>
       /\ job.op \in {"reset", "failed"} => Preflight
       /\ job.op = "reset" => job.next = 1
       /\ job.op \notin {"done", "failed"} => job.last = 3
       /\ job.op = "load" =>
             /\ rows["catalog"] = {}
             /\ rows["stores"] = IF job.next > 1 THEN {job.run} ELSE {}
             /\ rows["products"] = IF job.next > 2 THEN {job.run} ELSE {}
             /\ rows["orders"] = {}
       /\ job.op \in {"normalize", "count", "mark", "done"} =>
             /\ rows["stores"] = {job.run} /\ rows["products"] = {job.run}
             /\ rows["orders"] = {job.run}
             /\ rows["catalog"] = IF job.op = "normalize" THEN {} ELSE {job.run}

\* The inductive invariant of a load.
LoadInv ==
    /\ rows \in [Entities -> SUBSET Runs]
    /\ job # None => job \in LoadJobs
    /\ CutoverFills

\* Nothing is loaded by the operator yet.
LEMMA InitLoad == Init => LoadInv
BY DEF Init, LoadInv, CutoverFills, Empty

\* Every step of the operator, and every step beside, keeps it.
LEMMA NextLoad == LoadInv /\ [Next]_(vars) => LoadInv'
<1> SUFFICES ASSUME LoadInv, [Next]_(vars) PROVE LoadInv'
  OBVIOUS
<1> USE DEF LoadInv, CutoverFills, LoadJobs, Entities
<1>1. CASE StartLoad
  BY <1>1 DEF StartLoad, dataVars, Loads, Preflight
<1>2. CASE Reset
  <2>1. rows' = [e \in Entities |-> {}] /\ job' = [job EXCEPT !.op = "load"]
    BY <1>2 DEF Reset, Empty, Goon
  <2>2. job \in LoadJobs /\ job.op = "reset"
    BY <1>2 DEF Reset
  <2>3. job' \in LoadJobs
    BY <2>1, <2>2
  <2>4. /\ job'.op = "load" /\ job'.kind = job.kind /\ job'.run = job.run
        /\ job'.next = job.next /\ job'.last = job.last
    BY <2>1, <2>2
  <2>5. \A e \in Entities : rows'[e] = {}
    BY <2>1
  <2>6. job # None
    BY <1>2 DEF Reset
  <2>7. CutoverFills'
    BY SMTT(30), <2>2, <2>4, <2>5, <2>6
  <2> QED BY <2>1, <2>3, <2>7
<1>3. CASE LoadEntity
  <2> DEFINE e == Loads[job.next]
  <2>1. /\ job \in LoadJobs /\ job # None /\ job.op = "load"
        /\ e \in {"stores", "products", "orders"}
        /\ job.next = 1 => e = "stores"
        /\ job.next = 2 => e = "products"
        /\ job.next = 3 => e = "orders"
    BY <1>3 DEF LoadEntity, Loads
  <2>2. PICK same \in SUBSET (rows[e] \ {job.run}) :
           rows' = [rows EXCEPT ![e] = (@ \ same) \cup {job.run}]
    BY <1>3 DEF LoadEntity
  <2>3. IF job.next < job.last THEN job' = [job EXCEPT !.next = @ + 1]
        ELSE IF AfterLast = "done" THEN Ended("done") ELSE Goon(AfterLast)
    BY <1>3 DEF LoadEntity
  <2> HIDE DEF e
  <2>4. rows' \in [Entities -> SUBSET Runs]
    BY <2>1, <2>2
  <2>5. /\ job' # None => job' \in LoadJobs
        /\ job.kind = "cutover" /\ job.last = 3 =>
              job' = IF job.next < 3 THEN [job EXCEPT !.next = @ + 1]
                     ELSE [job EXCEPT !.op = "normalize"]
        /\ job' # None => job'.kind = job.kind
    BY <2>1, <2>3 DEF Ended, Goon, AfterLast
  <2>6. ASSUME job.kind = "cutover" PROVE CutoverFills'
    <3>1. /\ job.last = 3 /\ same = {}
          /\ job.next \in {1, 2, 3}
      BY <2>1, <2>2, <2>6
    <3>2. CASE job.next = 1
      BY <2>1, <2>2, <2>5, <2>6, <3>1, <3>2
    <3>3. CASE job.next = 2
      BY <2>1, <2>2, <2>5, <2>6, <3>1, <3>3
    <3>4. CASE job.next = 3
      BY <2>1, <2>2, <2>5, <2>6, <3>1, <3>4
    <3> QED BY <3>1, <3>2, <3>3, <3>4
  <2>7. ASSUME job.kind # "cutover" PROVE CutoverFills'
    BY <2>5, <2>7
  <2> QED BY <2>4, <2>5, <2>6, <2>7
<1>4. CASE Normalize
  BY <1>4 DEF Normalize, Ended, Goon
<1>5. CASE Count
  BY <1>5 DEF Count, Goon, dataVars
<1>6. CASE MarkLoaded
  BY <1>6 DEF MarkLoaded, Ended
<1>7. CASE FailLoad
  BY <1>7 DEF FailLoad, Idle, Ended, dataVars, Preflight
<1>8. ASSUME UNCHANGED <<rows, job>> PROVE LoadInv'
  BY <1>8 DEF Preflight
<1> QED
  BY <1>1, <1>2, <1>3, <1>4, <1>5, <1>6, <1>7, <1>8
  DEF Next, vars, dataVars, Plan, Start, Select, DeleteOrders, DeleteMetrics,
      Insert, CommitRows, MarkDaily, FailDaily, StopDaily

\* What it says of a cutover that is over.
LEMMA FilledIsWhole == LoadInv => CutoverIsWhole
BY DEF LoadInv, LoadJobs, CutoverFills, CutoverIsWhole, Entities

-----------------------------------------------------------------------------
(* Daily orders *)

\* The rows of the daily tables.
OrderRows == [Days -> [Numbers -> DailyRuns \cup {None}]]
MetricRows == [Days -> SUBSET DailyRuns]

\* Where a process may be.
Places ==
    [op : {"planned"}, run : DailyRuns, new : BOOLEAN]
      \cup [op : {"select"}, run : DailyRuns, next : Nat, seen : OrderRows]
      \cup [op : {"cleared"}, run : DailyRuns, gone : SUBSET Ids, before : MetricRows]
      \cup [op : {"deleted"}, run : DailyRuns, gone : SUBSET Ids, cut : MetricRows]
      \cup [op : {"written"}, run : DailyRuns, gone : SUBSET Ids, cut : MetricRows, put : SUBSET Ids]
      \cup [op : {"committed"}, run : DailyRuns]

\* The orders a transaction has deleted and those it has inserted.
Gone(p) ==
    IF Doing(p, "cleared") \/ Doing(p, "deleted") \/ Doing(p, "written") THEN work[p].gone ELSE {}
Put(p) == IF Doing(p, "written") THEN work[p].put ELSE {}

\* The ids that were selected are of the days of the run, and so are the orders deleted,
\* which are still there for everybody else.
SelectionIsOwn(p) ==
    /\ Doing(p, "select") =>
          /\ work[p].next >= work[p].run[1]
          /\ \A d \in Days, i \in Numbers : work[p].seen[d][i] # None => d \in DaysOf(work[p].run)
    /\ \A d \in Days, i \in Numbers : <<d, i>> \in Gone(p) =>
          d \in DaysOf(work[p].run) /\ orders[d][i] # None

\* While a transaction holds the first order of a day, no metric row of the day appears
\* that it does not delete.
MetricsAreCut(p) ==
    /\ \A d \in Days : <<d, 1>> \in Gone(p) =>
          metrics[d] \subseteq IF Doing(p, "cleared") THEN work[p].before[d] ELSE work[p].cut[d]
    /\ \A d \in Days : <<d, 1>> \in Put(p) => metrics[d] \subseteq work[p].cut[d]
    /\ \A d \in Days, i \in Numbers : <<d, i>> \in Put(p) => <<d, 1>> \in Put(p) /\ 1 \in Numbers

\* The inductive invariant of the daily orders.
DayInv ==
    /\ orders \in OrderRows /\ metrics \in MetricRows
    /\ work \in [Daily -> Places \cup {None}]
    /\ \A p \in Daily : SelectionIsOwn(p) /\ MetricsAreCut(p)
    /\ \A p, q \in Daily : p # q => Locked(p) \cap Locked(q) = {}
    /\ MetricsFollowOrders

\* What a place says of the process in it.
LEMMA PlaceFacts ==
    ASSUME DataAssumption, work \in [Daily -> Places \cup {None}], NEW p \in Daily
    PROVE  /\ work[p] # None => work[p].run \in DailyRuns
           /\ Doing(p, "select") => work[p].next \in Nat /\ work[p].seen \in OrderRows
           /\ Doing(p, "cleared") => work[p].before \in MetricRows
           /\ Doing(p, "deleted") \/ Doing(p, "written") => work[p].cut \in MetricRows
           /\ Gone(p) \in SUBSET Ids /\ Put(p) \in SUBSET Ids
           /\ Locked(p) = Gone(p) \cup Put(p)
<1>1. work[p] = None \/ work[p] \in Places
  OBVIOUS
<1> QED BY <1>1 DEF Places, Doing, Gone, Put, Locked

\* What a process holds stays as its own steps left it, if no other touches it.
LEMMA OthersKeep ==
    ASSUME NEW q \in Daily, work'[q] = work[q], SelectionIsOwn(q), MetricsAreCut(q),
           \A d \in Days, i \in Numbers : <<d, i>> \in Gone(q) => orders'[d][i] # None,
           \A d \in Days : <<d, 1>> \in Gone(q) \cup Put(q) => metrics'[d] \subseteq metrics[d]
    PROVE  (SelectionIsOwn(q) /\ MetricsAreCut(q))' /\ Locked(q)' = Locked(q)
<1>1. /\ Gone(q)' = Gone(q) /\ Put(q)' = Put(q) /\ Locked(q)' = Locked(q)
      /\ Doing(q, "select")' = Doing(q, "select") /\ Doing(q, "cleared")' = Doing(q, "cleared")
  BY DEF Gone, Put, Locked, Doing
<1>2. SelectionIsOwn(q)'
  BY <1>1 DEF SelectionIsOwn
<1>3. MetricsAreCut(q)'
  BY <1>1 DEF MetricsAreCut
<1> QED BY <1>1, <1>2, <1>3

\* A process goes on without a commit: what it holds then, nobody else does.
LEMMA MoveKeepsDays ==
    ASSUME DataAssumption, DayInv, NEW p \in Daily, NEW w \in Places \cup {None},
           work' = [work EXCEPT ![p] = w], UNCHANGED <<orders, metrics>>,
           (SelectionIsOwn(p) /\ MetricsAreCut(p))',
           \A q \in Daily \ {p} : Locked(q) \cap Locked(p)' = {}
    PROVE  DayInv'
<1>1. work' \in [Daily -> Places \cup {None}] /\ \A q \in Daily \ {p} : work'[q] = work[q]
  BY DEF DayInv
<1>2. ASSUME NEW q \in Daily \ {p}
      PROVE  (SelectionIsOwn(q) /\ MetricsAreCut(q))' /\ Locked(q)' = Locked(q)
  <2>1. \A d \in Days, i \in Numbers : <<d, i>> \in Gone(q) => orders'[d][i] # None
    BY DEF DayInv, SelectionIsOwn
  <2>2. \A d \in Days : metrics'[d] \subseteq metrics[d]
    OBVIOUS
  <2> QED BY <1>1, <2>1, <2>2, OthersKeep DEF DayInv
<1>3. ASSUME NEW a \in Daily, NEW b \in Daily, a # b PROVE Locked(a)' \cap Locked(b)' = {}
  BY <1>2, <1>3 DEF DayInv
<1>4. MetricsFollowOrders'
  BY DEF DayInv, MetricsFollowOrders
<1> QED BY <1>1, <1>2, <1>3, <1>4 DEF DayInv

\* A process holds nothing when it waits, plans or selects, and once it has committed.
LEMMA NothingHeld ==
    ASSUME NEW p \in Daily, ~Doing(p, "cleared"), ~Doing(p, "deleted"), ~Doing(p, "written")
    PROVE  Gone(p) = {} /\ Put(p) = {} /\ Locked(p) = {} /\ MetricsAreCut(p)
BY DEF Gone, Put, Locked, MetricsAreCut

\* No day has orders or metrics yet.
LEMMA InitDay == ASSUME DataAssumption, Init PROVE DayInv
<1>1. \A p \in Daily : ~\E op \in STRING : Doing(p, op)
  BY DEF Init, Doing
<1>2. ASSUME NEW p \in Daily PROVE SelectionIsOwn(p) /\ MetricsAreCut(p) /\ Locked(p) = {}
  BY <1>1 DEF Init, Doing, Gone, Put, Locked, SelectionIsOwn, MetricsAreCut
<1> QED BY <1>2 DEF Init, DayInv, NoOrders, NoMetrics, OrderRows, MetricRows, MetricsFollowOrders

-----------------------------------------------------------------------------
(* The steps of a transaction *)

\* A step that takes a process where it holds nothing, selections apart.
LEMMA IdleKeepsDays ==
    ASSUME DataAssumption, DayInv, NEW p \in Daily, NEW w \in Places \cup {None},
           work' = [work EXCEPT ![p] = w], UNCHANGED <<orders, metrics>>,
           w # None => w.op \in {"planned", "committed"}
    PROVE  DayInv'
<1>1. work'[p] = w
  BY DEF DayInv
<1>2. ~Doing(p, "cleared")' /\ ~Doing(p, "deleted")' /\ ~Doing(p, "written")' /\ ~Doing(p, "select")'
  BY <1>1 DEF Doing
<1>3. (SelectionIsOwn(p) /\ MetricsAreCut(p))' /\ Locked(p)' = {}
  BY <1>2 DEF SelectionIsOwn, MetricsAreCut, Gone, Put, Locked
<1> QED BY <1>3, MoveKeepsDays

\* Planning, and every end without a commit.
LEMMA IdleSteps ==
    ASSUME DataAssumption, DayInv, NEW p \in Daily, Plan(p) \/ MarkDaily(p) \/ StopDaily(p)
    PROVE  DayInv'
<1>1. CASE Plan(p)
  <2>1. PICK first \in Days, last \in Days :
           /\ first <= last
           /\ work' = [work EXCEPT ![p] = [op |-> "planned", run |-> <<first, last>>,
                                          new |-> <<first, last>> \notin known]]
    BY <1>1 DEF Plan, Goto
  <2>2. <<first, last>> \in DailyRuns
    BY <2>1 DEF DailyRuns
  <2>3. [op |-> "planned", run |-> <<first, last>>, new |-> <<first, last>> \notin known] \in Places
    BY <2>2 DEF Places
  <2>4. UNCHANGED <<orders, metrics>>
    BY <1>1 DEF Plan
  <2> QED BY <2>1, <2>3, <2>4, IdleKeepsDays
<1>2. CASE MarkDaily(p) \/ StopDaily(p)
  BY <1>2, IdleKeepsDays DEF MarkDaily, StopDaily, Goto
<1> QED BY <1>1, <1>2

\* The transaction begins with nothing selected.
LEMMA StartKeepsDays ==
    ASSUME DataAssumption, DayInv, NEW p \in Daily, Start(p)
    PROVE  DayInv'
<1> DEFINE r == work[p].run
           w == [op |-> "select", run |-> r, next |-> r[1], seen |-> NoOrders]
<1>1. work' = [work EXCEPT ![p] = w] /\ UNCHANGED <<orders, metrics>> /\ work[p] # None
  BY DEF Start, Goto, Doing
<1>2. r \in DailyRuns /\ r[1] \in Nat
  BY <1>1, PlaceFacts DEF DayInv, DailyRuns, Days
<1>3. NoOrders \in OrderRows
  BY DEF NoOrders, OrderRows
<1>4. w \in Places
  BY <1>2, <1>3 DEF Places
<1>5. work'[p] = w
  BY <1>1 DEF DayInv
<1>6. ~Doing(p, "cleared")' /\ ~Doing(p, "deleted")' /\ ~Doing(p, "written")'
  BY <1>5 DEF Doing
<1>7. SelectionIsOwn(p)' /\ MetricsAreCut(p)' /\ Locked(p)' = {}
  BY <1>2, <1>5, <1>6 DEF SelectionIsOwn, MetricsAreCut, Gone, Put, Locked, NoOrders
<1> QED BY <1>1, <1>4, <1>7, MoveKeepsDays

\* A day more is selected.
LEMMA SelectKeepsDays ==
    ASSUME DataAssumption, DayInv, NEW p \in Daily, Select(p)
    PROVE  DayInv'
<1> DEFINE v == work[p]
           w == [v EXCEPT !.next = @ + 1, !.seen[v.next] = orders[v.next]]
<1>1. /\ work' = [work EXCEPT ![p] = w] /\ UNCHANGED <<orders, metrics>>
      /\ v # None /\ v.op = "select" /\ v.next <= v.run[2]
  BY DEF Select, Goto, Doing
<1>2. /\ v.run \in DailyRuns /\ v.next \in Nat /\ v.seen \in OrderRows
      /\ v.next >= v.run[1] /\ \A d \in Days, i \in Numbers : v.seen[d][i] # None => d \in DaysOf(v.run)
  BY <1>1, PlaceFacts DEF DayInv, SelectionIsOwn, Doing
<1>3. v.next \in Days /\ v.next \in DaysOf(v.run) /\ v.run[1] \in Nat
  <2>1. v.run[1] \in Days /\ v.run[2] \in Days
    BY <1>2 DEF DailyRuns
  <2> HIDE DEF v
  <2> QED BY <1>1, <1>2, <2>1 DEF Days, DaysOf, DataAssumption
<1>4. v \in [op : {"select"}, run : DailyRuns, next : Nat, seen : OrderRows]
  BY <1>1 DEF DayInv, Places
<1>5. /\ w.op = "select" /\ w.run = v.run /\ w.next = v.next + 1
      /\ w.seen = [v.seen EXCEPT ![v.next] = orders[v.next]]
      /\ w = [op |-> "select", run |-> v.run, next |-> w.next, seen |-> w.seen]
  <2> DEFINE u == [op |-> "select", run |-> v.run, next |-> v.next + 1,
                   seen |-> [v.seen EXCEPT ![v.next] = orders[v.next]]]
  <2> HIDE DEF v
  <2>1. DOMAIN w = DOMAIN u
    BY <1>4
  <2>2. w.op = u.op /\ w.run = u.run /\ w.next = u.next /\ w.seen = u.seen
    BY <1>4
  <2>3. \A k \in DOMAIN u : w[k] = u[k]
    BY <2>2
  <2>4. w = u
    BY <2>1, <2>3
  <2> QED BY <2>4
<1>6. w \in Places /\ work'[p] = w
  <2>1. w.seen \in OrderRows /\ w.next \in Nat
    BY <1>2, <1>3, <1>5 DEF DayInv, OrderRows
  <2> HIDE DEF w
  <2>2. w \in Places
    BY <1>2, <1>5, <2>1 DEF Places
  <2> QED BY <1>1, <2>2 DEF DayInv
<1>7. ~Doing(p, "cleared")' /\ ~Doing(p, "deleted")' /\ ~Doing(p, "written")'
  BY <1>5, <1>6 DEF Doing
<1>8. \A d \in Days, i \in Numbers : w.seen[d][i] # None => d \in DaysOf(w.run)
  BY <1>2, <1>3, <1>5 DEF OrderRows
<1> HIDE DEF w
<1>9. SelectionIsOwn(p)' /\ MetricsAreCut(p)' /\ Locked(p)' = {}
  <2>1. MetricsAreCut(p)' /\ Locked(p)' = {} /\ Gone(p)' = {}
    BY <1>7 DEF MetricsAreCut, Gone, Put, Locked
  <2>2. w.next >= w.run[1]
    BY <1>2, <1>3, <1>5
  <2> QED BY <1>6, <1>8, <2>1, <2>2 DEF SelectionIsOwn
<1> QED BY <1>1, <1>6, <1>9, MoveKeepsDays

\* The days of a run are days.
LEMMA RunDays ==
    ASSUME DataAssumption, NEW r \in DailyRuns
    PROVE  DaysOf(r) \subseteq Days
<1>1. r[1] \in Days /\ r[2] \in Days
  BY DEF DailyRuns
<1> QED BY <1>1 DEF DataAssumption, Days, DaysOf

\* Orders are deleted that are there and that nobody else holds.
LEMMA DeleteOrdersKeepsDays ==
    ASSUME DataAssumption, DayInv, NEW p \in Daily, DeleteOrders(p)
    PROVE  DayInv'
<1> DEFINE v == work[p]
           ids == {x \in Ids : v.seen[x[1]][x[2]] # None}
<1>1. PICK gone \in SUBSET ids :
         /\ work' = [work EXCEPT ![p] = [op |-> "cleared", run |-> v.run, gone |-> gone,
                                        before |-> metrics]]
         /\ \A x \in gone : orders[x[1]][x[2]] # None
         /\ \A q \in Daily \ {p} : Locked(q) \cap ids = {}
         /\ UNCHANGED <<orders, metrics>>
  BY DEF DeleteOrders, Goto
<1>2. Doing(p, "select") /\ v # None /\ v.run \in DailyRuns
  BY PlaceFacts DEF DeleteOrders, Doing, DayInv
<1>3. \A d \in Days, i \in Numbers : v.seen[d][i] # None => d \in DaysOf(v.run)
  BY <1>2 DEF DayInv, SelectionIsOwn
<1> DEFINE w == [op |-> "cleared", run |-> v.run, gone |-> gone, before |-> metrics]
<1>4. \A d, i : <<d, i>> \in gone =>
         d \in Days /\ i \in Numbers /\ orders[d][i] # None /\ v.seen[d][i] # None
  BY <1>1 DEF Ids
<1>5. w \in Places /\ gone \subseteq ids
  BY <1>1, <1>2 DEF Places, DayInv
<1> HIDE DEF v, ids
<1>6. work'[p] = w
  BY <1>1 DEF DayInv
<1>7. ~Doing(p, "select")' /\ ~Doing(p, "deleted")' /\ ~Doing(p, "written")'
  BY <1>6 DEF Doing
<1>8. Gone(p)' \subseteq gone /\ Put(p)' = {} /\ Locked(p)' \subseteq gone
  BY <1>6, <1>7 DEF Gone, Put, Locked, Doing
<1>9. (SelectionIsOwn(p) /\ MetricsAreCut(p))'
  <2>1. SelectionIsOwn(p)'
    BY <1>1, <1>3, <1>4, <1>6, <1>7, <1>8 DEF SelectionIsOwn
  <2>2. Gone(p)' # {} => Doing(p, "cleared")'
    BY <1>7 DEF Gone
  <2>3. MetricsAreCut(p)'
    BY <1>1, <1>6, <1>8, <2>2 DEF MetricsAreCut
  <2> QED BY <2>1, <2>3
<1>10. \A q \in Daily \ {p} : Locked(q) \cap Locked(p)' = {}
  BY <1>1, <1>5, <1>8
<1> HIDE DEF w
<1>11. work' = [work EXCEPT ![p] = w] /\ UNCHANGED <<orders, metrics>>
  BY <1>1 DEF w
<1> QED BY <1>5, <1>9, <1>10, <1>11, MoveKeepsDays

\* The metric rows that were there before a day's first order was deleted go.
LEMMA DeleteMetricsKeepsDays ==
    ASSUME DataAssumption, DayInv, NEW p \in Daily, DeleteMetrics(p)
    PROVE  DayInv'
<1> DEFINE v == work[p]
           days == DaysOf(v.run)
<1>1. PICK visible \in {v.before, metrics} :
         /\ work' = [work EXCEPT ![p] =
                [op |-> "deleted", run |-> v.run, gone |-> v.gone,
                 cut |-> [d \in Days |-> IF d \in days THEN metrics[d] \cap visible[d] ELSE {}]]]
         /\ UNCHANGED <<orders, metrics>>
  BY DEF DeleteMetrics, Goto
<1>2. /\ Doing(p, "cleared") /\ v # None /\ v.run \in DailyRuns /\ v.gone \in SUBSET Ids
      /\ Gone(p) = v.gone /\ Locked(p) = v.gone
  <2>1. Doing(p, "cleared")
    BY DEF DeleteMetrics
  <2> QED BY <2>1, PlaceFacts DEF DayInv, Gone, Locked, Doing
<1>3. /\ \A d \in Days, i \in Numbers : <<d, i>> \in v.gone => d \in days /\ orders[d][i] # None
      /\ \A d \in Days : <<d, 1>> \in v.gone => metrics[d] \subseteq v.before[d]
  BY <1>2 DEF DayInv, SelectionIsOwn, MetricsAreCut
<1>4. metrics \in MetricRows
  BY DEF DayInv
<1> DEFINE cut == [d \in Days |-> IF d \in days THEN metrics[d] \cap visible[d] ELSE {}]
           w == [op |-> "deleted", run |-> v.run, gone |-> v.gone, cut |-> cut]
<1>5. cut \in MetricRows
  BY <1>4 DEF MetricRows
<1>6. \A d \in Days : <<d, 1>> \in v.gone => metrics[d] \subseteq cut[d]
  <2> SUFFICES ASSUME NEW d \in Days, <<d, 1>> \in v.gone PROVE metrics[d] \subseteq cut[d]
    OBVIOUS
  <2>1. <<d, 1>> \in Days \X Numbers
    BY <1>2 DEF Ids
  <2>2. 1 \in Numbers
    BY <2>1
  <2>3. d \in days /\ metrics[d] \subseteq v.before[d]
    BY <1>3, <2>2
  <2>4. metrics[d] \subseteq visible[d]
    BY <1>1, <2>3
  <2> QED BY <2>3, <2>4
<1>7. work' = [work EXCEPT ![p] = w]
  BY <1>1
<1> HIDE DEF cut
<1>8. w \in Places
  BY <1>2, <1>5 DEF Places
<1>9. work'[p] = w
  BY <1>7 DEF DayInv
<1> HIDE DEF v
<1>10. ~Doing(p, "select")' /\ ~Doing(p, "cleared")' /\ ~Doing(p, "written")'
  BY <1>9 DEF Doing
<1>11. Gone(p)' \subseteq v.gone /\ Put(p)' = {} /\ Locked(p)' \subseteq v.gone
  BY <1>9, <1>10 DEF Gone, Put, Locked, Doing
<1>12. work'[p].run = v.run /\ work'[p].cut = cut
  BY <1>9
<1>13. SelectionIsOwn(p)'
  BY <1>1, <1>3, <1>10, <1>11, <1>12 DEF SelectionIsOwn
<1>14. MetricsAreCut(p)'
  BY <1>1, <1>6, <1>10, <1>11, <1>12 DEF MetricsAreCut
<1>15. \A q \in Daily \ {p} : Locked(q) \cap Locked(p)' = {}
  BY <1>2, <1>11 DEF DayInv
<1> HIDE DEF w
<1> QED BY <1>1, <1>7, <1>8, <1>13, <1>14, <1>15, MoveKeepsDays

\* The orders inserted are the first so many of each day, where there are none or this
\* transaction has deleted them.
LEMMA InsertKeepsDays ==
    ASSUME DataAssumption, DayInv, NEW p \in Daily, Insert(p)
    PROVE  DayInv'
<1> DEFINE v == work[p]
<1>1. PICK put : \E count \in [DaysOf(v.run) -> 0 .. MaxOrders] :
         /\ put = {x \in DaysOf(v.run) \X Numbers : x[2] <= count[x[1]]}
         /\ \A q \in Daily \ {p} : Locked(q) \cap put = {}
         /\ \A x \in put : orders[x[1]][x[2]] = None \/ x \in v.gone
         /\ work' = [work EXCEPT ![p] = [op |-> "written", run |-> v.run, gone |-> v.gone,
                                        cut |-> v.cut, put |-> put]]
         /\ UNCHANGED <<orders, metrics>>
  BY DEF Insert, Goto
<1>2. /\ Doing(p, "deleted") /\ v # None /\ v.run \in DailyRuns /\ v.gone \in SUBSET Ids
      /\ v.cut \in MetricRows /\ Gone(p) = v.gone /\ Locked(p) = v.gone /\ ~Doing(p, "cleared")
  <2>1. Doing(p, "deleted")
    BY DEF Insert
  <2> QED BY <2>1, PlaceFacts DEF DayInv, Gone, Locked, Doing
<1>3. /\ \A d \in Days, i \in Numbers : <<d, i>> \in v.gone => d \in DaysOf(v.run) /\ orders[d][i] # None
      /\ \A d \in Days : <<d, 1>> \in v.gone => metrics[d] \subseteq v.cut[d]
  BY <1>2 DEF DayInv, SelectionIsOwn, MetricsAreCut
<1>4. PICK count \in [DaysOf(v.run) -> 0 .. MaxOrders] :
         put = {x \in DaysOf(v.run) \X Numbers : x[2] <= count[x[1]]}
  BY <1>1
<1>5. \A d, i : <<d, i>> \in put => <<d, 1>> \in put /\ 1 \in Numbers /\ d \in Days
  <2> SUFFICES ASSUME NEW d, NEW i, <<d, i>> \in put
               PROVE  <<d, 1>> \in put /\ 1 \in Numbers /\ d \in Days
    OBVIOUS
  <2>1. d \in DaysOf(v.run) /\ i \in Numbers /\ i <= count[d]
    BY <1>4
  <2>2. d \in Days
    BY <1>2, <2>1, RunDays
  <2>3. 1 \in Numbers /\ 1 <= count[d]
    BY <1>4, <2>1 DEF Numbers, DataAssumption
  <2> QED BY <1>4, <2>1, <2>2, <2>3
<1>6. \A d \in Days : <<d, 1>> \in put => metrics[d] \subseteq v.cut[d]
  <2> SUFFICES ASSUME NEW d \in Days, <<d, 1>> \in put PROVE metrics[d] \subseteq v.cut[d]
    OBVIOUS
  <2>1. CASE orders[d][1] = None
    <3>1. \A r \in metrics[d] : r \in DailyRuns /\ r = None
      BY <2>1 DEF DayInv, MetricsFollowOrders, MetricRows
    <3> QED BY <3>1 DEF DataAssumption
  <2>2. CASE <<d, 1>> \in v.gone
    BY <1>3, <2>2
  <2> QED BY <1>1, <2>1, <2>2
<1>7. put \in SUBSET Ids
  BY <1>2, <1>4, RunDays DEF Ids
<1> DEFINE w == [op |-> "written", run |-> v.run, gone |-> v.gone, cut |-> v.cut, put |-> put]
<1>8. w \in Places /\ work' = [work EXCEPT ![p] = w] /\ work'[p] = w
  BY <1>1, <1>2, <1>7 DEF Places, DayInv
<1> HIDE DEF v
<1>9. ~Doing(p, "select")' /\ ~Doing(p, "cleared")' /\ ~Doing(p, "deleted")'
  BY <1>8 DEF Doing
<1>10. Gone(p)' \subseteq v.gone /\ Put(p)' \in {{}, put} /\ Locked(p)' \subseteq v.gone \cup put
  BY <1>8, <1>9 DEF Gone, Put, Locked, Doing
<1>11. work'[p].run = v.run /\ work'[p].cut = v.cut
  BY <1>8
<1>12. SelectionIsOwn(p)'
  BY <1>1, <1>3, <1>9, <1>10, <1>11 DEF SelectionIsOwn
<1>13. MetricsAreCut(p)'
  BY <1>1, <1>3, <1>5, <1>6, <1>9, <1>10, <1>11 DEF MetricsAreCut
<1>14. \A q \in Daily \ {p} : Locked(q) \cap Locked(p)' = {}
  BY <1>1, <1>2, <1>10 DEF DayInv
<1> HIDE DEF w
<1> QED BY <1>1, <1>8, <1>12, <1>13, <1>14, MoveKeepsDays

\* What is committed: the rows p held are replaced or gone, all others stay.
LEMMA EndKeepsDays ==
    ASSUME DataAssumption, DayInv, NEW p \in Daily, NEW w \in Places \cup {None},
           work' = [work EXCEPT ![p] = w], w # None => w.op \in {"planned", "committed"},
           orders' \in OrderRows, metrics' \in MetricRows,
           \A d \in Days, i \in Numbers : <<d, i>> \notin Locked(p) => orders'[d][i] = orders[d][i],
           \A d \in Days : <<d, 1>> \notin Put(p) => metrics'[d] \subseteq metrics[d],
           MetricsFollowOrders'
    PROVE  DayInv'
<1>1. /\ work' \in [Daily -> Places \cup {None}] /\ work'[p] = w
      /\ \A q \in Daily \ {p} : work'[q] = work[q]
  BY DEF DayInv
<1>2. ~Doing(p, "cleared")' /\ ~Doing(p, "deleted")' /\ ~Doing(p, "written")' /\ ~Doing(p, "select")'
  BY <1>1 DEF Doing
<1>3. (SelectionIsOwn(p) /\ MetricsAreCut(p))' /\ Locked(p)' = {}
  BY <1>2 DEF SelectionIsOwn, MetricsAreCut, Gone, Put, Locked
<1>4. ASSUME NEW q \in Daily \ {p}
      PROVE  (SelectionIsOwn(q) /\ MetricsAreCut(q))' /\ Locked(q)' = Locked(q)
  <2>1. /\ Locked(q) \cap Locked(p) = {} /\ Locked(q) = Gone(q) \cup Put(q)
        /\ Locked(p) = Gone(p) \cup Put(p)
    BY PlaceFacts DEF DayInv
  <2>2. \A d \in Days, i \in Numbers : <<d, i>> \in Gone(q) => orders'[d][i] # None
    BY <2>1 DEF DayInv, SelectionIsOwn
  <2>3. \A d \in Days : <<d, 1>> \in Gone(q) \cup Put(q) => metrics'[d] \subseteq metrics[d]
    BY <2>1
  <2> QED BY <1>1, <2>2, <2>3, OthersKeep DEF DayInv
<1>5. ASSUME NEW a \in Daily, NEW b \in Daily, a # b PROVE Locked(a)' \cap Locked(b)' = {}
  BY <1>3, <1>4, <1>5 DEF DayInv
<1> QED BY <1>1, <1>3, <1>4, <1>5 DEF DayInv

\* The metric rows of a day whose first order is replaced were all deleted, and where only
\* the first order is deleted none is left.
LEMMA CommitRowsKeepsDays ==
    ASSUME DataAssumption, DayInv, NEW p \in Daily, CommitRows(p)
    PROVE  DayInv'
<1> DEFINE v == work[p]
           new(d) == {v.run : x \in {y \in v.put : y[1] = d}}
<1>1. /\ Doing(p, "written") /\ ~Doing(p, "cleared") /\ v # None /\ v.run \in DailyRuns
      /\ v.cut \in MetricRows /\ v.put \in SUBSET Ids
      /\ Gone(p) = v.gone /\ Put(p) = v.put /\ Locked(p) = v.gone \cup v.put
  <2>1. Doing(p, "written")
    BY DEF CommitRows
  <2> QED BY <2>1, PlaceFacts DEF DayInv, Gone, Put, Doing
<1>2. /\ orders' = [d \in Days |-> [i \in Numbers |->
                       IF <<d, i>> \in v.put THEN v.run
                       ELSE IF <<d, i>> \in v.gone THEN None ELSE orders[d][i]]]
      /\ metrics' = [d \in Days |-> (metrics[d] \ v.cut[d]) \cup new(d)]
      /\ work' = [work EXCEPT ![p] = [op |-> "committed", run |-> v.run]]
  BY DEF CommitRows, MetricsAfter, Goto
<1>3. /\ \A d \in Days : <<d, 1>> \in v.gone => metrics[d] \subseteq v.cut[d]
      /\ \A d \in Days : <<d, 1>> \in v.put => metrics[d] \subseteq v.cut[d]
      /\ \A d \in Days, i \in Numbers : <<d, i>> \in v.put => <<d, 1>> \in v.put /\ 1 \in Numbers
  BY <1>1 DEF DayInv, MetricsAreCut
<1>4. \A d \in Days : new(d) # {} => <<d, 1>> \in v.put /\ 1 \in Numbers /\ new(d) = {v.run}
  <2> SUFFICES ASSUME NEW d \in Days, new(d) # {}
               PROVE  <<d, 1>> \in v.put /\ 1 \in Numbers /\ new(d) = {v.run}
    OBVIOUS
  <2>1. PICK y \in v.put : y[1] = d
    OBVIOUS
  <2>2. y \in Days \X Numbers
    BY <1>1, <2>1 DEF Ids
  <2>3. y = <<d, y[2]>> /\ y[2] \in Numbers
    BY <2>1, <2>2
  <2>4. <<d, 1>> \in v.put /\ 1 \in Numbers
    BY <1>3, <2>1, <2>3
  <2> QED BY <2>1, <2>4
<1>5. orders \in OrderRows /\ metrics \in MetricRows /\ MetricsFollowOrders
  BY DEF DayInv
<1>6. [op |-> "committed", run |-> v.run] \in Places
  BY <1>1 DEF Places
<1>7. \A d \in Days : new(d) \subseteq DailyRuns
  BY <1>1
<1> HIDE DEF v, new
<1>8. orders' \in OrderRows
  BY <1>1, <1>2, <1>5 DEF OrderRows
<1>9. metrics' \in MetricRows
  BY <1>2, <1>5, <1>7 DEF MetricRows
<1>10. \A d \in Days, i \in Numbers : <<d, i>> \notin Locked(p) => orders'[d][i] = orders[d][i]
  BY <1>1, <1>2
<1>11. \A d \in Days : <<d, 1>> \notin Put(p) => metrics'[d] \subseteq metrics[d]
  BY <1>1, <1>2, <1>4
<1>12. MetricsFollowOrders'
  <2> SUFFICES ASSUME NEW d \in Days, NEW r \in metrics'[d]
               PROVE  MaxOrders > 0 /\ orders'[d][1] = r
    BY DEF MetricsFollowOrders
  <2>1. CASE r \in new(d)
    <3>1. <<d, 1>> \in v.put /\ 1 \in Numbers /\ r = v.run
      BY <1>4, <2>1
    <3> QED BY <1>2, <3>1 DEF Numbers, DataAssumption
  <2>2. CASE r \notin new(d)
    <3>1. r \in metrics[d] /\ r \notin v.cut[d]
      BY <1>2, <2>2
    <3>2. <<d, 1>> \notin v.gone /\ <<d, 1>> \notin v.put
      BY <1>3, <3>1
    <3>3. MaxOrders > 0 /\ orders[d][1] = r
      BY <1>5, <3>1 DEF MetricsFollowOrders
    <3>4. 1 \in Numbers
      BY <3>3 DEF Numbers, DataAssumption
    <3> QED BY <1>2, <3>2, <3>3, <3>4
  <2> QED BY <2>1, <2>2
<1> QED BY <1>2, <1>6, <1>8, <1>9, <1>10, <1>11, <1>12, EndKeepsDays

\* A failure keeps what was deleted.
LEMMA FailDailyKeepsDays ==
    ASSUME DataAssumption, DayInv, NEW p \in Daily, FailDaily(p)
    PROVE  DayInv'
<1>1. /\ orders' = [d \in Days |-> [i \in Numbers |->
                       IF <<d, i>> \in Locked(p) THEN None ELSE orders[d][i]]]
      /\ metrics' = [d \in Days |-> metrics[d] \ LockedMetrics(p)[d]]
      /\ work' = [work EXCEPT ![p] = None]
      /\ Doing(p, "deleted") \/ Doing(p, "select")
  BY DEF FailDaily, Goto
<1>2. Doing(p, "deleted") => LockedMetrics(p) = work[p].cut /\ ~Doing(p, "cleared")
  BY DEF LockedMetrics, Doing
<1>3. Put(p) = {} /\ Locked(p) = Gone(p) /\ (~Doing(p, "deleted") => Gone(p) = {})
  BY <1>1 DEF Put, Locked, Gone, Doing
<1>4. \A d \in Days : <<d, 1>> \in Locked(p) => metrics[d] \subseteq LockedMetrics(p)[d]
  BY <1>2, <1>3 DEF DayInv, MetricsAreCut
<1>5. orders \in OrderRows /\ metrics \in MetricRows /\ MetricsFollowOrders
  BY DEF DayInv
<1>6. orders' \in OrderRows /\ metrics' \in MetricRows
  BY <1>1, <1>5 DEF OrderRows, MetricRows
<1>7. MetricsFollowOrders'
  <2> SUFFICES ASSUME NEW d \in Days, NEW r \in metrics'[d]
               PROVE  MaxOrders > 0 /\ orders'[d][1] = r
    BY DEF MetricsFollowOrders
  <2>1. r \in metrics[d] /\ r \notin LockedMetrics(p)[d]
    BY <1>1
  <2>2. MaxOrders > 0 /\ orders[d][1] = r /\ <<d, 1>> \notin Locked(p)
    BY <1>4, <1>5, <2>1 DEF MetricsFollowOrders
  <2>3. 1 \in Numbers
    BY <2>2 DEF Numbers, DataAssumption
  <2> QED BY <1>1, <2>2, <2>3
<1>8. \A d \in Days, i \in Numbers : <<d, i>> \notin Locked(p) => orders'[d][i] = orders[d][i]
  BY <1>1
<1>9. \A d \in Days : <<d, 1>> \notin Put(p) => metrics'[d] \subseteq metrics[d]
  BY <1>1
<1> QED BY <1>1, <1>6, <1>7, <1>8, <1>9, EndKeepsDays

\* The reset of a load waits until nobody holds a row.
LEMMA ResetKeepsDays ==
    ASSUME DataAssumption, DayInv, Reset
    PROVE  DayInv'
<1>1. /\ orders' = NoOrders /\ metrics' = NoMetrics /\ UNCHANGED work
      /\ \A p \in Daily : Locked(p) = {}
  BY DEF Reset, Holds
<1>2. ASSUME NEW p \in Daily
      PROVE  (SelectionIsOwn(p) /\ MetricsAreCut(p))' /\ Locked(p)' = Locked(p)
  <2>1. Gone(p) = {} /\ Put(p) = {}
    BY <1>1, PlaceFacts DEF DayInv
  <2> QED BY <1>1, <2>1, OthersKeep DEF DayInv
<1>3. orders' \in OrderRows /\ metrics' \in MetricRows /\ MetricsFollowOrders'
  BY <1>1 DEF NoOrders, NoMetrics, OrderRows, MetricRows, MetricsFollowOrders
<1> QED BY <1>1, <1>2, <1>3 DEF DayInv

\* Every step keeps the invariant of the daily orders.
LEMMA NextDay ==
    ASSUME DataAssumption, DayInv, [Next]_vars
    PROVE  DayInv'
<1>1. CASE Reset
  BY <1>1, ResetKeepsDays
<1>2. ASSUME NEW p \in Daily, \/ Plan(p) \/ Start(p) \/ Select(p) \/ DeleteOrders(p)
                              \/ DeleteMetrics(p) \/ Insert(p) \/ CommitRows(p)
                              \/ MarkDaily(p) \/ FailDaily(p) \/ StopDaily(p)
      PROVE  DayInv'
  BY <1>2, IdleSteps, StartKeepsDays, SelectKeepsDays, DeleteOrdersKeepsDays,
     DeleteMetricsKeepsDays, InsertKeepsDays, CommitRowsKeepsDays, FailDailyKeepsDays
<1>3. ASSUME UNCHANGED <<orders, metrics, work>> PROVE DayInv'
  BY <1>3 DEF DayInv, SelectionIsOwn, MetricsAreCut, Gone, Put, Locked, Doing, MetricsFollowOrders
<1>4. CASE StartLoad \/ LoadEntity \/ Normalize \/ Count \/ MarkLoaded \/ FailLoad \/ UNCHANGED vars
  BY <1>3, <1>4 DEF StartLoad, LoadEntity, Normalize, Count, MarkLoaded, FailLoad, vars, dayVars
<1> QED BY <1>1, <1>2, <1>4 DEF Next

-----------------------------------------------------------------------------
\* A cutover that ends well leaves the rows of its run and no others, and one that fails a
\* catalog its rollback may replace, whatever was loaded before and is written beside it.
THEOREM CutoverStaysWhole == Spec => []CutoverIsWhole
BY FilledIsWhole, InitLoad, NextLoad, PTL DEF Spec

\* The metric rows of a day are of the run that wrote its first order, however many
\* processes write daily orders, overlap, fail and stop, and whatever a load resets.
THEOREM MetricsStayWithOrders == DataAssumption /\ Spec => []MetricsFollowOrders
<1> SUFFICES ASSUME DataAssumption PROVE Spec => []MetricsFollowOrders
  OBVIOUS
<1>1. Init => DayInv
  BY InitDay
<1>2. DayInv /\ [Next]_vars => DayInv'
  BY NextDay
<1>3. DayInv => MetricsFollowOrders
  BY DEF DayInv
<1> QED BY <1>1, <1>2, <1>3, PTL DEF Spec
=============================================================================
