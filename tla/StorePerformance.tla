-------------------------- MODULE StorePerformance --------------------------
(***************************************************************************)
(* The reports an operator reads about one store's sales                   *)
(* (services/merchandising.py, services/product_performance.py): what to   *)
(* feature, promote or deprioritize, which subjects fall behind their      *)
(* baseline, the weekly trend, and the products whose sales dropped.       *)
(* Every report is a function of the order lines of two windows of         *)
(* Lookback days, the current one and the one before it, and of the        *)
(* store's peers.  The ledger grows by loading orders, with dates in the   *)
(* past, and by returns.                                                   *)
(*                                                                         *)
(* Time is in half days, so that a window starts in the middle of a date;  *)
(* money and margins are integers and an average is rounded down.  Titles, *)
(* images and wording are left out.                                        *)
(***************************************************************************)
EXTENDS Integers, Sequences, FiniteSets, FiniteSetsExt, SequencesExt

CONSTANTS
  Catalog,     \* product |-> [store, category, price, margin, stock, weight]
  Home,        \* the store reported on
  Peers,       \* the stores it is compared with
  Now,         \* the time of the reports, in half days
  Lookback,    \* length of a window in days
  Week,        \* days in a bucket of the trend
  Times,       \* times at which orders were placed
  Quantities,  \* units of an order line
  MaxLines,    \* bound on the ledger
  TopK,        \* recommendations asked for
  MinMargin, MinDrop   \* of an opportunity, in percent

PerformanceAssumption ==
  /\ Home \notin Peers /\ Lookback \in Nat \ {0} /\ Week \in Nat \ {0}
  /\ Now \in Int /\ Times \subseteq Int /\ \A t \in Times : t < Now
  /\ \A p \in DOMAIN Catalog : Catalog[p].price \in Nat
  /\ Quantities \subseteq Nat \ {0} /\ MinDrop \in 0 .. 100

VARIABLE ledger
Products == DOMAIN Catalog
Date(t) == t \div 2
Since == Now - 2 * Lookback
PriorSince == Since - 2 * Lookback
Larger(a, b) == IF a >= b THEN a ELSE b
Smaller(a, b) == IF a <= b THEN a ELSE b
Size(a) == IF a < 0 THEN -a ELSE a

\* ---- sums over order lines ------------------------------------------------
Revenue(lines) == MapThenSumSet(LAMBDA l : l.qty * Catalog[l.product].price, lines)
Sold(lines) == MapThenSumSet(LAMBDA l : l.qty, lines)
Mean(total, n) == IF n = 0 THEN 0 ELSE total \div n

\* The lines of the stores' orders between two times, of one category if one
\* is asked for; the end of a window belongs to the next.
BrokenIsIn(l, from, until) == l.at >= from /\ l.at <= until
IsIn(l, from, until) == l.at >= from /\ l.at < until
Lines(stores, from, until, categories) ==
  {l \in ledger : /\ Catalog[l.product].store \in stores
                  /\ IsIn(l, from, until)
                  /\ Catalog[l.product].category \in categories}
Current(stores, cs) == Lines(stores, Since, Now, cs)
Prior(stores, cs) == Lines(stores, PriorSince, Since, cs)
Of(lines, p) == {l \in lines : l.product = p}
Subject(lines, c) == {l \in lines : Catalog[l.product].category = c}
ProductsOf(lines) == {l.product : l \in lines}
SubjectsOf(lines) == {Catalog[p].category : p \in ProductsOf(lines)}

Modes == {"peer", "prior_period", "peer_and_prior_period"}
WithPeers(mode) == mode \in {"peer", "peer_and_prior_period"}
WithPrior(mode) == mode \in {"prior_period", "peer_and_prior_period"}

\* ---- recommended actions -----------------------------------------------------
\* The baseline of a product is the mean revenue of the peers' products of its category.
PeerMean(c, cs) ==
  LET lines == Subject(Current(Peers, cs), c)
  IN Mean(Revenue(lines), Cardinality(ProductsOf(lines)))
PeerDelta(p, mode, cs) ==
  IF WithPeers(mode)
  THEN Revenue(Of(Current({Home}, cs), p)) - PeerMean(Catalog[p].category, cs) ELSE 0
PriorDelta(p, mode, cs) ==
  IF WithPrior(mode)
  THEN Revenue(Of(Current({Home}, cs), p)) - Revenue(Of(Prior({Home}, cs), p)) ELSE 0
Up(p, mode, cs) == Larger(PeerDelta(p, mode, cs), 0) + Larger(PriorDelta(p, mode, cs), 0)
Down(p, mode, cs) == Larger(-PeerDelta(p, mode, cs), 0) + Larger(-PriorDelta(p, mode, cs), 0)

\* What a recommendation is chosen by, for every product the store sold.
Rated(mode, cs) ==
  {[product |-> p, metric |-> 12 * Sold(Of(Current({Home}, cs), p)) + Catalog[p].weight,
    up |-> Up(p, mode, cs), down |-> Down(p, mode, cs)] : p \in ProductsOf(Current({Home}, cs))}

\* Scores and thresholds are scaled by 100 (sell-through objective).
Score(action, r) ==
  LET stock == Catalog[r.product].stock  margin == Catalog[r.product].margin
  IN CASE action = "feature" -> 100 * r.metric + 105 * r.up - 35 * r.down + 35 * margin
       [] action = "promote" ->
            120 * margin + 320 * stock + (70 * Larger(100 * r.down - 55 * r.up, 0)) \div 100
       [] action = "deprioritize" -> 420 * stock + 125 * r.down - 28 * margin - 60 * r.up

IsDeprioritized(r) ==
  Catalog[r.product].stock >= 4 /\ 100 * r.down > Larger(115 * r.up, 15000)
IsCampaign(r) ==
  /\ Catalog[r.product].margin >= 42 /\ Catalog[r.product].stock >= 6
  /\ 100 * r.down > 55 * r.up \/ r.up < 250
ActionOrder == <<"feature", "promote", "deprioritize">>
BestAction(r) ==
  IF IsDeprioritized(r) THEN "deprioritize" ELSE IF IsCampaign(r) THEN "promote" ELSE "feature"

\* The products of an action, the best scores first.
Bucket(action, rated) ==
  LET ranked == SetToSortSeq({r \in rated : BestAction(r) = action},
                             LAMBDA x, y : Score(action, x) > Score(action, y))
  IN [i \in DOMAIN ranked |-> ranked[i].product]

\* The actions take turns until TopK recommendations are there.
Round(i, buckets) ==
  FlattenSeq([k \in DOMAIN buckets |->
                IF i <= Len(buckets[k]) THEN <<buckets[k][i]>> ELSE <<>>])
Turns(buckets) == FlattenSeq([i \in 1..Cardinality(Products) |-> Round(i, buckets)])
Recommended(rated) ==
  LET turns == Turns([k \in DOMAIN ActionOrder |-> Bucket(ActionOrder[k], rated)])
  IN SubSeq(turns, 1, Smaller(TopK, Len(turns)))

\* ---- diagnostics -------------------------------------------------------------
\* Totals of a subject; the peers' are divided by their number, so both sides
\* are compared after multiplying by it, and margins are means over the lines.
Total(lines) == [revenue |-> Revenue(lines), units |-> Sold(lines),
                 margin |-> Mean(MapThenSumSet(LAMBDA l : Catalog[l.product].margin, lines),
                                 Cardinality(lines))]
Divisor == Larger(Cardinality(Peers), 1)
Status(c, mode, cs) ==
  LET now == Total(Subject(Current({Home}, cs), c))
      peers == Subject(Current(Peers, cs), c)
      prior == Subject(Prior({Home}, cs), c)
      byPeers == WithPeers(mode) /\ peers # {}
      base == Total(IF byPeers THEN peers ELSE prior)
      times == IF byPeers THEN Divisor ELSE 1
      gap == now.revenue * times - base.revenue
      units == now.units * times - base.units
      margin == now.margin - base.margin
  IN IF ~ byPeers /\ (~ WithPrior(mode) \/ prior = {}) THEN "observed"
     ELSE IF gap < 0 /\ margin < 0 THEN "margin_risk"
     ELSE IF gap < 0 /\ units < 0 THEN "velocity_gap"
     ELSE IF gap < 0 THEN "conversion_gap"
     ELSE IF margin < 0 THEN "discount_led_growth" ELSE "healthy_momentum"

\* ---- the weekly trend -----------------------------------------------------------
WeekOf(l, origin) == (Date(l.at) - Date(origin)) \div Week
LastWeek == Larger(0, (Lookback + Week - 1) \div Week - 1)
Weeks(lines, origin) ==
  [i \in 0..LastWeek \cup {WeekOf(l, origin) : l \in lines} |->
     Revenue({l \in lines : WeekOf(l, origin) = i})]

\* ---- opportunities -----------------------------------------------------------------
\* Products of the store whose revenue, returns left out, dropped since the
\* window before, among those of a high margin.
Kept(lines) == {l \in lines : ~ l.returned}
IsOpportunity(p, now, before) ==
  /\ Revenue(before) > 0 /\ Catalog[p].margin >= MinMargin
  /\ 100 * (Revenue(now) - Revenue(before)) <= -MinDrop * Revenue(before)
Opportunities(cs) ==
  {p \in ProductsOf(Kept(Current({Home}, cs))) \cup ProductsOf(Kept(Prior({Home}, cs))) :
     IsOpportunity(p, Of(Kept(Current({Home}, cs)), p), Of(Kept(Prior({Home}, cs)), p))}

\* ---- the ledger -----------------------------------------------------------------------
Load == \E t \in Times, p \in Products, q \in Quantities :
  /\ Cardinality(ledger) < MaxLines
  /\ \A l \in ledger : <<l.at, l.product>> # <<t, p>>
  /\ ledger' = ledger \cup {[at |-> t, product |-> p, qty |-> q, returned |-> FALSE]}
\* Only the opportunities leave returns out, and they are Home's.
Return == \E l \in ledger :
  Catalog[l.product].store = Home /\ ~ l.returned /\ ledger' = (ledger \ {l}) \cup {[l EXCEPT !.returned = TRUE]}

Init == ledger = {}
Next == Load \/ Return
Spec == Init /\ [][Next]_ledger

\* ---- properties ----------------------------------------------------------------------------
Categories == {Catalog[p].category : p \in Products}
Filters == {Categories} \cup {{c} : c \in Categories}
SumOf(f) == MapThenSumSet(LAMBDA i : f[i], DOMAIN f)

\* The reports of one store tell of the same sales: the two windows hold every
\* order line since the first of them once, the weeks of a window and the
\* subjects of a window add up to its revenue.
SalesAreCountedOnce ==
  \A cs \in Filters :
    LET now == Current({Home}, cs)  before == Prior({Home}, cs)
    IN /\ Revenue(now) + Revenue(before) =
            Revenue({l \in ledger : /\ Catalog[l.product].store = Home
                                    /\ Catalog[l.product].category \in cs /\ l.at >= PriorSince})
       /\ SumOf(Weeks(now, Since)) = Revenue(now)
       /\ SumOf(Weeks(before, PriorSince)) = Revenue(before)
       /\ SumOf([c \in SubjectsOf(now) |-> Revenue(Subject(now, c))]) = Revenue(now)

\* The advice follows the comparison it quotes: a product that is behind
\* neither its peers nor its past is not deprioritized, every product is
\* advised on once, an action is at most one product ahead of another that has
\* products left, and a store that sells what each of its peers sells shows
\* no gap.
AdviceFollowsSales ==
  \A mode \in Modes : \A rated \in {Rated(mode, Categories)} :
    LET cs == Categories
        advice == Recommended(rated)
        Best(p) == BestAction(CHOOSE r \in rated : r.product = p)
        Taken(a) == {i \in DOMAIN advice : Best(advice[i]) = a}
        Left(a) == {r \in rated : BestAction(r) = a}
    IN /\ \A r \in rated : BestAction(r) = "deprioritize"
              => PeerDelta(r.product, mode, cs) < 0 \/ PriorDelta(r.product, mode, cs) < 0
       /\ IsInjective(advice)
       /\ \A a, b \in Range(ActionOrder) :
            Cardinality(Taken(b)) < Cardinality(Left(b))
              => Cardinality(Taken(a)) <= Cardinality(Taken(b)) + 1
       /\ \A c \in SubjectsOf(Current({Home}, cs)) :
            (/\ WithPeers(mode) /\ Peers # {}
             /\ \A s \in Peers : Total(Subject(Current({s}, cs), c)) =
                                   Total(Subject(Current({Home}, cs), c)))
              => Status(c, mode, cs) = "healthy_momentum"

\* A product with a price that stopped selling altogether is reported, not only
\* one that sells less.
LostSalesAreSeen ==
  \A p \in Products :
    (/\ Catalog[p].store = Home /\ Catalog[p].margin >= MinMargin /\ Catalog[p].price > 0
     /\ Of(Kept(Prior({Home}, Categories)), p) # {}
     /\ Of(Kept(Current({Home}, Categories)), p) = {})
      => p \in Opportunities(Categories)
=============================================================================
