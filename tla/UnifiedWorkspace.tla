-------------------------- MODULE UnifiedWorkspace ---------------------------
(***************************************************************************)
(* The workspace that reports on several stores at once (app/mcp_server.py *)
(* _unified_*_impl, _merch_*_impl): the inventory with its sales and the   *)
(* suppliers' offers, the action recommendations, and the product mix, in  *)
(* which the operator's overrides count.  A report reads its stores one    *)
(* after the other, the inventory and the mix in a session for each, and   *)
(* orders arrive in between; then it lists or aggregates the rows.         *)
(*                                                                         *)
(* Revenue is in whole units, a margin in percent, a fit and an impact in  *)
(* hundredths, all rounded down.  Titles decide ties and are a rank.  The  *)
(* filters by category and brand stand for the one by price; what a store  *)
(* recommends is StorePerformance's, here any choice of Advice.            *)
(***************************************************************************)
EXTENDS Integers, Sequences, FiniteSets, FiniteSetsExt, SequencesExt

CONSTANTS
  Stores,    \* the stores, by id
  Shelf,     \* product |-> [store, rank, brand, category, price, margin, qty]
  Offers,    \* offer |-> [rank, brand, category, price, on] (on: days from now, or None)
  Occasions, \* of orders
  Asked,     \* requests [kind, ids, active, store, brands, category, occasion, scope,
             \*   limit, ahead, lookback, topK, aggregated, global, overrides]
  Advice,    \* what a store may recommend: sequences of [product, action, metric]
  MaxSales,  \* bound on the orders
  None

WorkspaceAssumption ==
  /\ \A p \in DOMAIN Shelf : Shelf[p].store \in Range(Stores)
  /\ \A q \in Asked : q.limit > 0 /\ q.topK > 0

VARIABLES
  sales,  \* product |-> occasion |-> units sold in the window
  report, \* the report under way: [request, left, rows, first], or None
  answer  \* the last report: [request, rows, first], or None
vars == <<sales, report, answer>>

Products == DOMAIN Shelf
Smaller(a, b) == IF a <= b THEN a ELSE b
Larger(a, b) == IF a >= b THEN a ELSE b
Total(s) == FoldSeq(LAMBDA x, y : x + y, 0, s)
Cut(s, n) == SubSeq(s, 1, Smaller(n, Len(s)))

\* ---- which stores --------------------------------------------------------
\* The stores asked for, with the named one last and the active one first; all if none.
ScopeOf(q) ==
  LET named == IF q.store # None /\ q.store \notin Range(q.ids)
               THEN Append(q.ids, q.store) ELSE q.ids
      base == IF named = <<>> THEN Stores ELSE named
      active == IF q.active # None THEN q.active ELSE q.store
  IN IF active # None /\ active \notin Range(base) THEN <<active>> \o base ELSE base
IsKnown(q) == Range(ScopeOf(q)) \subseteq Range(Stores)

\* ---- sales ---------------------------------------------------------------
UnitsOf(p, q, when) ==
  IF q.occasion = None THEN MapThenSumSet(LAMBDA o : when[p][o], Occasions)
  ELSE when[p][q.occasion]
RevenueOf(p, q, when) == UnitsOf(p, q, when) * Shelf[p].price
IsKept(item, q) ==
  /\ q.category = None \/ item.category = q.category
  /\ q.brands = {} \/ item.brand \in q.brands

\* ---- the inventory of one store --------------------------------------------
CurrentRow(p, q) ==
  LET revenue == RevenueOf(p, q, sales)
  IN [type |-> "current", id |-> p, store |-> Shelf[p].store, stores |-> 1,
      rank |-> Shelf[p].rank, brand |-> Shelf[p].brand, category |-> Shelf[p].category,
      price |-> Shelf[p].price, qty |-> Shelf[p].qty, on |-> None,
      revenue |-> revenue, units |-> UnitsOf(p, q, sales),
      margin |-> IF revenue > 0 THEN Shelf[p].margin ELSE 0]
\* The limit is on the products read; those without a sale of the occasion go afterwards.
CurrentRows(store, q) ==
  LET found == SetToSortSeq({p \in Products : Shelf[p].store = store /\ IsKept(Shelf[p], q)},
                            LAMBDA x, y : Shelf[x].rank < Shelf[y].rank)
      sold == SelectSeq(Cut(found, q.limit),
                        LAMBDA p : q.occasion = None \/ UnitsOf(p, q, sales) > 0)
  IN [i \in DOMAIN sold |-> CurrentRow(sold[i], q)]

\* An offer has the sales of its brand and category in the store.
Alike(offer, store) ==
  {p \in Products : Shelf[p].store = store /\ Shelf[p].brand = Offers[offer].brand
                    /\ Shelf[p].category = Offers[offer].category}
OfferRow(offer, store, q) ==
  LET alike == Alike(offer, store)
      revenue == MapThenSumSet(LAMBDA p : RevenueOf(p, q, sales), alike)
  IN [type |-> "offer", id |-> offer, store |-> store, stores |-> 1,
      rank |-> Offers[offer].rank, brand |-> Offers[offer].brand,
      category |-> Offers[offer].category, price |-> Offers[offer].price, qty |-> 0,
      on |-> Offers[offer].on, revenue |-> revenue,
      units |-> MapThenSumSet(LAMBDA p : UnitsOf(p, q, sales), alike),
      margin |-> IF revenue > 0
                 THEN MapThenSumSet(LAMBDA p : RevenueOf(p, q, sales) * Shelf[p].margin, alike)
                        \div revenue
                 ELSE 0]
OfferOrder(x, y) ==
  LET a == Offers[x]
      b == Offers[y]
  IN IF a.on = b.on THEN a.rank < b.rank
     ELSE a.on # None /\ (b.on # None => a.on < b.on)
OfferRows(store, q) ==
  LET found == SetToSortSeq({o \in DOMAIN Offers : /\ IsKept(Offers[o], q)
                               /\ Offers[o].on # None => Offers[o].on \in -q.lookback .. q.ahead},
                            OfferOrder)
      sold == SelectSeq(Cut(found, q.limit), LAMBDA o : \/ q.occasion = None
                 \/ \E p \in Alike(o, store) : UnitsOf(p, q, sales) > 0)
  IN [i \in DOMAIN sold |-> OfferRow(sold[i], store, q)]

\* Products and offers alternate until one list ends.
Alternated(s, t) ==
  FlattenSeq([i \in 1 .. Larger(Len(s), Len(t)) |->
    (IF i <= Len(s) THEN <<s[i]>> ELSE <<>>) \o (IF i <= Len(t) THEN <<t[i]>> ELSE <<>>)])
InventoryOf(store, q) ==
  Cut(CASE q.scope = "current" -> CurrentRows(store, q)
        [] q.scope = "potential" -> OfferRows(store, q)
        [] OTHER -> Alternated(CurrentRows(store, q), OfferRows(store, q)), q.limit)

\* The rows of a product or an offer become one, over all stores.
BrokenGroupOf(row, rows) == {r \in Range(rows) : r.type = row.type /\ r.brand = row.brand}
GroupOf(row, rows) == {r \in Range(rows) : r.type = row.type /\ r.id = row.id}
Aggregated(rows) ==
  {LET group == GroupOf(row, rows)
       revenue == MapThenSumSet(LAMBDA r : r.revenue, group)
   IN [row EXCEPT !.store = None, !.stores = Cardinality({r.store : r \in group}),
         !.qty = MapThenSumSet(LAMBDA r : r.qty, group), !.revenue = revenue,
         !.units = MapThenSumSet(LAMBDA r : r.units, group),
         !.margin = IF revenue > 0
                    THEN MapThenSumSet(LAMBDA r : r.margin * r.revenue, group) \div revenue
                    ELSE MapThenSumSet(LAMBDA r : r.margin, group) \div Cardinality(group)]
     : row \in Range(rows)}

\* ---- the recommendations -----------------------------------------------------
\* An override has a store exactly if it is for that store only.
Overriding(p, store, q) ==
  {o \in q.overrides : o.product = p /\ o.store = IF q.global THEN None ELSE store}
TierOf(i, n) == IF 100 * i <= 34 * n THEN "high" ELSE IF 100 * i <= 67 * n THEN "medium" ELSE "low"
ActionRows(store, q, advice) ==
  [i \in DOMAIN advice |->
     LET chosen == Overriding(advice[i].product, store, q)
     IN [product |-> advice[i].product, store |-> store, stores |-> 1,
         metric |-> advice[i].metric, model |-> advice[i].action,
         final |-> IF chosen = {} THEN advice[i].action ELSE (CHOOSE o \in chosen : TRUE).final,
         tier |-> IF chosen = {} THEN TierOf(i, Len(advice)) ELSE (CHOOSE o \in chosen : TRUE).tier,
         notes |-> {o.note : o \in chosen}]]
\* The commonest value of the rows, the first seen of several.
Commonest(s) ==
  s[CHOOSE i \in DOMAIN s : \A j \in DOMAIN s :
      LET n == Cardinality({k \in DOMAIN s : s[k] = s[i]})
          m == Cardinality({k \in DOMAIN s : s[k] = s[j]})
      IN n > m \/ (n = m /\ i <= j)]
Field(rows, name) == [i \in DOMAIN rows |-> rows[i][name]]
MergedActions(rows, q) ==
  LET merged == {LET own == SelectSeq(rows, LAMBDA r : r.product = p)
                     notes == UNION {own[i].notes : i \in DOMAIN own}
                 IN [product |-> p, store |-> None, stores |-> Cardinality(Range(Field(own, "store"))),
                     metric |-> Total(Field(own, "metric")),
                     model |-> Commonest(Field(own, "model")), final |-> Commonest(Field(own, "final")),
                     tier |-> Commonest(Field(own, "tier")),
                     notes |-> IF Cardinality(notes) = 1 THEN notes ELSE {}]
                   : p \in Range(Field(rows, "product"))}
  IN Range(Cut(SetToSortSeq(merged, LAMBDA x, y :
       x.metric > y.metric \/ (x.metric = y.metric /\ Shelf[x.product].rank < Shelf[y.product].rank)),
       Smaller(q.topK, 100)))

\* ---- the mix --------------------------------------------------------------------
\* A price fits as near as it is to the category's median.
PriceFit(price, prices) ==
  IF prices = <<>> THEN 50
  ELSE LET median == SortSeq(prices, <)[(Len(prices) \div 2) + 1]
           delta == IF price >= median THEN price - median ELSE median - price
       IN IF median <= 0 THEN 50
          ELSE IF 5 * delta <= median THEN 100
          ELSE IF 5 * delta <= 2 * median THEN 70
          ELSE IF 5 * delta <= 3 * median THEN 45 ELSE 25
Fit(offer, current) ==
  LET in(c) == SelectSeq(current, LAMBDA r : r.category = c)
      all == Larger(1, Total(Field(current, "revenue")))
      share == (Total(Field(in(offer.category), "revenue")) * 100) \div all
      space == IF offer.brand \in Range(Field(current, "brand")) THEN 35 ELSE 100
  IN (100 - share) * 45 + space * 35 + PriceFit(offer.price, Field(in(offer.category), "price")) * 20
Before(x, y) == x.on # y.on /\ x.on # None /\ (y.on # None => x.on < y.on)
ByFit(offers, current) ==
  SortSeq(offers, LAMBDA x, y :
    \/ Fit(x, current) > Fit(y, current)
    \/ /\ Fit(x, current) = Fit(y, current)
       /\ Before(x, y) \/ (x.on = y.on /\ x.rank < y.rank))
Weakest(rows) ==
  SortSeq(rows, LAMBDA x, y :
    \/ x.revenue < y.revenue
    \/ x.revenue = y.revenue /\ (x.units < y.units \/ (x.units = y.units /\
         (x.margin < y.margin \/ (x.margin = y.margin /\
           (x.qty < y.qty \/ (x.qty = y.qty /\ x.rank < y.rank)))))))
Strongest(rows) ==
  SortSeq(rows, LAMBDA x, y :
    x.revenue > y.revenue \/ (x.revenue = y.revenue /\
      (x.margin > y.margin \/ (x.margin = y.margin /\
        (x.units > y.units \/ (x.units = y.units /\ x.rank < y.rank))))))

MixRow(action, offer, product, fit, impact, rank) ==
  [action |-> action, offer |-> offer, product |-> product, fit |-> fit, impact |-> impact,
   rank |-> rank, store |-> None, stores |-> 1]
\* Of several overrides of a product the last counts; a request here has one at most.
Override(p, store, q) ==
  LET chosen == Overriding(p, store, q)
  IN IF chosen = {} THEN None ELSE (CHOOSE o \in chosen : TRUE).final
Adds(adds, swaps, current) ==
  {MixRow("add", adds[i].id, None, Fit(adds[i], current), (Fit(adds[i], current) * 52) \div 100,
          adds[i].rank) : i \in {j \in DOMAIN adds : j > swaps}}
Swaps(adds, weak, swaps, current) ==
  {MixRow("swap", adds[i].id, weak[i].id, Fit(adds[i], current),
          (Fit(adds[i], current) * 45) \div 100 - weak[i].revenue * 2, adds[i].rank) : i \in 1 .. swaps}
\* What the operator drops, and what hardly sells, unless it was swapped.
Reductions(weak, swaps, store, q) ==
  {MixRow("reduce", None, r.id, Larger(1000, 10000 - 5 * r.revenue),
          Larger(0, 80 * r.qty - r.revenue), r.rank)
     : r \in {weak[i] : i \in {j \in DOMAIN weak : j > swaps /\
                 \/ Override(weak[j].id, store, q) \in {"deprioritize", "drop"}
                 \/ weak[j].revenue <= 0 \/ weak[j].units <= 1}}}
\* What the operator promotes, and what sells with a margin; the loop ends at the first
\* product kept beyond twice topK.
Holds(strong, store, q) ==
  LET kept == {i \in DOMAIN strong :
                 IF Override(strong[i].id, store, q) \in {"feature", "promote"} THEN TRUE
                 ELSE strong[i].revenue > 0 /\ strong[i].margin >= 40}
      last == {i \in kept : i - 1 >= 2 * q.topK}
  IN {MixRow("hold", None, strong[i].id, Smaller(9900, 4500 + 55 * strong[i].margin),
             (strong[i].revenue * 3) \div 2, strong[i].rank)
        : i \in {j \in kept : last # {} => j <= Min(last)}}
\* The rows the mix is made of: its limit is wider than the one of the request.
MixInventory(store, q) == InventoryOf(store, [q EXCEPT !.limit = Larger(200, 8 * q.topK)])
OfType(type, rows) == SelectSeq(rows, LAMBDA r : r.type = type)
MixOf(current, adds, weak, store, q) ==
  LET swaps == IF adds = <<>> \/ weak = <<>> THEN 0
               ELSE Larger(1, Smaller(q.topK \div 3, Smaller(Len(adds), Len(weak))))
      mix == Swaps(adds, weak, swaps, current) \cup Adds(adds, swaps, current)
               \cup Reductions(weak, swaps, store, q) \cup Holds(Strongest(current), store, q)
  IN {[m EXCEPT !.store = store] : m \in mix}
ActionRank == [swap |-> 0, add |-> 1, hold |-> 2, reduce |-> 3]
MixOrder(x, y) ==
  LET rx == ActionRank[x.action]
      ry == ActionRank[y.action]
  IN rx < ry \/ (rx = ry /\ (x.fit > y.fit \/ (x.fit = y.fit /\
       (x.impact > y.impact \/ (x.impact = y.impact /\ x.rank < y.rank)))))
Shown(mix, q) == Cut(SetToSortSeq(mix, MixOrder), Smaller(q.topK, 100))
\* One row for what several stores are told alike: the mean fit and the whole impact.
MergedMix(rows, q) ==
  LET told(m) == {r \in Range(rows) : r.action = m.action /\ r.offer = m.offer /\ r.product = m.product}
      merged == {[m EXCEPT !.store = None, !.stores = Cardinality(told(m)),
                    !.fit = MapThenSumSet(LAMBDA r : r.fit, told(m)) \div Cardinality(told(m)),
                    !.impact = MapThenSumSet(LAMBDA r : r.impact, told(m))] : m \in Range(rows)}
  IN Range(Shown(merged, q))

\* ---- a report --------------------------------------------------------------------
Ask(q) ==
  /\ report = None /\ IsKnown(q)
  /\ report' = [request |-> q, left |-> ScopeOf(q), rows |-> <<>>, first |-> sales]
  /\ answer' = None
  /\ UNCHANGED sales
Reading(kind) == report # None /\ report.left # <<>> /\ report.request.kind = kind
Store == Head(report.left)
Read(rows) ==
  /\ report' = [report EXCEPT !.left = Tail(@), !.rows = @ \o rows]
  /\ UNCHANGED <<sales, answer>>
ReadInventory == Reading("inventory") /\ Read(InventoryOf(Store, report.request))
ReadActions ==
  /\ Reading("actions")
  /\ \E advice \in Advice : Read(ActionRows(Store, report.request, advice))
ReadMix ==
  /\ Reading("mix")
  /\ \E rows \in {MixInventory(Store, report.request)} :
     \E current \in {OfType("current", rows)} :
     \E adds \in {ByFit(OfType("offer", rows), current)}, weak \in {Weakest(current)} :
     \E mix \in {MixOf(current, adds, weak, Store, report.request)} :
       Read(Shown(mix, report.request))
Answer ==
  /\ report # None /\ report.left = <<>>
  /\ LET q == report.request
         rows == IF ~ q.aggregated THEN Range(report.rows)
                 ELSE CASE q.kind = "inventory" -> Aggregated(report.rows)
                        [] q.kind = "actions" -> MergedActions(report.rows, q)
                        [] OTHER -> MergedMix(report.rows, q)
     IN answer' = [request |-> q, rows |-> rows, first |-> report.first]
  /\ report' = None
  /\ UNCHANGED sales
Order(p, o) ==
  /\ MapThenSumSet(LAMBDA x : MapThenSumSet(LAMBDA y : sales[x][y], Occasions), Products) < MaxSales
  /\ sales' = [sales EXCEPT ![p][o] = @ + 1]
  /\ answer' = None
  /\ UNCHANGED report

Init ==
  /\ sales = [p \in Products |-> [o \in Occasions |-> 0]]
  /\ report = None /\ answer = None
Next ==
  \/ \E q \in Asked : Ask(q)
  \/ ReadInventory \/ ReadActions \/ ReadMix \/ Answer
  \/ \E p \in Products, o \in Occasions : Order(p, o)
Spec == Init /\ [][Next]_vars

(***************************************************************************)
(* An inventory report that reached no limit shows every product and offer *)
(* of its stores once, with sales between those when it was asked for and  *)
(* those when it was answered, whatever orders arrived in between.         *)
(***************************************************************************)
ReportIsInStep ==
  answer # None /\ answer.request.kind = "inventory" =>
    LET q == answer.request
        scope == Range(ScopeOf(q))
        current == {r \in answer.rows : r.type = "current"}
        offers == answer.rows \ current
        here == {p \in Products : Shelf[p].store \in scope /\ IsKept(Shelf[p], q)}
        of(o) == UNION {Alike(o, s) : s \in scope}
        total(o, when) == MapThenSumSet(LAMBDA p : RevenueOf(p, q, when), of(o))
    IN /\ \A r \in current :
            /\ RevenueOf(r.id, q, answer.first) <= r.revenue
            /\ r.revenue <= RevenueOf(r.id, q, sales)
            /\ r.qty = Shelf[r.id].qty
            /\ r.revenue > 0 => r.margin = Shelf[r.id].margin
       /\ q.occasion = None /\ q.scope # "potential" /\ q.limit > Cardinality(Products \cup DOMAIN Offers) =>
            {r.id : r \in current} = here /\ Cardinality(current) = Cardinality(here)
       /\ q.aggregated => \A r \in offers :
            /\ Cardinality({x \in offers : x.id = r.id}) = 1
            /\ r.stores <= Cardinality(scope)
            /\ q.occasion = None /\ q.limit > Cardinality(Products \cup DOMAIN Offers) =>
                 total(r.id, answer.first) <= r.revenue /\ r.revenue <= total(r.id, sales)

(***************************************************************************)
(* Listed store by store, a mix places an offer once and does not reduce a *)
(* product that it swaps out, and the operator's decisions are in it as    *)
(* far as the list goes: a product dropped goes or is reduced, one         *)
(* promoted is held, unless the list is full without them (the reductions  *)
(* come last; of a longer shelf the loop may leave a promoted one out).    *)
(* Which does not say that a store is told one thing of a product:         *)
(* HoldsAlign.  An override for all stores decides the recommendation      *)
(* wherever its product is recommended, one for a store decides it there   *)
(* and nowhere else.                                                       *)
(***************************************************************************)
OverridesAreFollowed ==
  answer # None =>
    LET q == answer.request
        named(s) == {o \in q.overrides : o.store = IF q.global THEN None ELSE s}
        follows == [drop |-> {"swap", "reduce"}, deprioritize |-> {"swap", "reduce"},
                    feature |-> {"hold"}, promote |-> {"hold"}]
    IN /\ q.kind = "mix" /\ ~ q.aggregated => \A s \in Range(ScopeOf(q)) :
            LET told == {m \in answer.rows : m.store = s}
            IN /\ \A m, n \in told : m.offer # None /\ m.offer = n.offer => m = n
               /\ \A m, n \in told : m.action = "swap" /\ n.action = "reduce" => m.product # n.product
               /\ \A o \in named(s) :
                    /\ o.final \in DOMAIN follows /\ Cardinality(Products) <= 2 * q.topK
                    /\ Shelf[o.product].store = s /\ IsKept(Shelf[o.product], q)
                    /\ q.occasion = None /\ q.scope # "potential"
                    => \/ \E m \in told : m.product = o.product /\ m.action \in follows[o.final]
                       \/ Cardinality(told) = q.topK
       /\ q.kind = "actions" => \A r \in answer.rows :
            LET chosen == {o \in IF r.store # None THEN named(r.store)
                                 ELSE UNION {named(s) : s \in Range(ScopeOf(q))} : o.product = r.product}
            IN /\ chosen = {} => r.final = r.model /\ r.notes = {}
               /\ r.store # None \/ q.global => \A o \in chosen : r.final = o.final
               /\ r.final # r.model => \E o \in chosen : r.final = o.final

(***************************************************************************)
(* What the rationale of a hold says of an overridden product ("to align   *)
(* with manual override"): it is not held against the operator's decision, *)
(* nor while it is swapped out.  The code breaks both: a product that      *)
(* sells with a margin is held whatever was decided and said of it before. *)
(***************************************************************************)
HoldsAlign ==
  answer # None /\ answer.request.kind = "mix" /\ ~ answer.request.aggregated =>
    \A m \in answer.rows : m.action = "hold" =>
      /\ Override(m.product, m.store, answer.request) \notin {"deprioritize", "drop"}
      /\ \A n \in answer.rows : n.action = "swap" => n.product # m.product
=============================================================================
