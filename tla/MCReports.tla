------------------------------- MODULE MCReports -------------------------------
(***************************************************************************)
(* One run for the reports and the merchandising services that share no    *)
(* step: the performance of a store, the projection of strategies, the     *)
(* unified workspace, the two draft contracts, the backfill of the         *)
(* canonical catalog, the operator cache, the strategy packets and the     *)
(* review moderation.  Each behaviour is one of a single part, chosen in   *)
(* the initial state; the variables of the other parts have no value.      *)
(***************************************************************************)
EXTENDS Naturals, Integers, Sequences, TLC

CONSTANTS
    Sessions, \* two model values: concurrent requests, or the runs that are loaded
    Names,    \* three: Idempotency-Keys, or keys of the cache
    Bodies, Texts, MaxVersion, \* of the reviews, as in ProductReviews
    Branches, Cores, MaxPackets, \* stores, and the rest as in MerchStrategy
    Inventories, Core, Galleries, Structured, Complete, Blank, \* as in DraftContracts,
    MaxPublished, \* the bound on the versions of its product
    Stocks, \* the legacy rows of a run, as in CatalogBackfill
    TTL, MaxSize, MaxLoads, Horizon, \* as in OperatorCache
    Catalog, Home, Peers, Now, Lookback, Week, Times, Quantities, MaxLines,
    MinMargin, MinDrop, TopK, \* as in StorePerformance
    Sections, Revenues, Rates, Spaces, DiscountRange, ShiftRange, Adjustments,
    MarginFloors, Caps, \* as in StrategyProjection
    None

VARIABLES
    part, \* the part this behaviour is of
    answer, work, \* variables that two parts have
    ledger,
    base, ask, candidates, offered,
    sales, report,
    draft, product,
    legacy, products, variants, stock, canonical, running, done,
    stores, resetting, items, order, calls, now, uses, filled,
    packets, overrides, last,
    review, past, actions, record

performanceVars == <<ledger>>
projectionVars == <<base, ask, candidates, offered>>
workspaceVars == <<sales, report>>
contractsVars == <<draft, product>>
backfillVars == <<legacy, products, variants, stock, canonical, running, done>>
cacheVars == <<stores, resetting, items, order, calls, now, uses, filled>>
strategyVars == <<packets, overrides, last>>
reviewsVars == <<review, past, actions, record>>
vars == <<part, answer, work,
          performanceVars, projectionVars, workspaceVars,
          contractsVars, backfillVars, cacheVars, strategyVars,
          reviewsVars>>

-----------------------------------------------------------------------------
\* A store that sells two products of its peers' categories, at its own prices, and
\* not a third.
Sold(store, category, price, margin, units) ==
    [store |-> store, category |-> category, price |-> price, margin |-> margin,
     stock |-> units, weight |-> 10]
Shelves == [h1 |-> Sold("home", "c1", 100, 60, 8), h2 |-> Sold("home", "c2", 120, 40, 5),
            h3 |-> Sold("home", "c1", 90, 40, 3), p1 |-> Sold("s1", "c1", 100, 60, 4),
            q1 |-> Sold("s2", "c1", 100, 60, 4), p2 |-> Sold("s1", "c2", 400, 60, 4)]
Performance == INSTANCE StorePerformance

\* The grid of the search, and numbers asked for alone.
Discounts == [min |-> 0, max |-> 25, step |-> 20]
Shifts == [min |-> -40, max |-> 20, step |-> 30]
Alone == {-150, 10, 70}
Projection == INSTANCE StrategyProjection
    WITH Categories <- Sections, Asked <- Adjustments, Floors <- MarginFloors

-----------------------------------------------------------------------------
\* Three products in two stores, two offers, and requests with and without overrides.
OnShelf(store, rank, category, price, margin, units) ==
    [store |-> store, rank |-> rank, brand |-> "b", category |-> category, price |-> price,
     margin |-> margin, qty |-> units]
Offered(rank, brand, category, price, on) ==
    [rank |-> rank, brand |-> brand, category |-> category, price |-> price, on |-> on]
Override(id, store, final) ==
    [product |-> id, store |-> store, final |-> final, tier |-> "low", note |-> final]
Request(kind, category, occasion, scope, limit, top, aggregated, global, decided) ==
    [kind |-> kind, ids |-> IF kind = "mix" THEN <<"s2">> ELSE <<>>,
     active |-> IF kind = "mix" THEN "s1" ELSE None, store |-> None, brands |-> {},
     category |-> category, occasion |-> occasion, scope |-> scope, limit |-> limit, ahead |-> 5,
     lookback |-> 7, topK |-> top, aggregated |-> aggregated, global |-> global,
     overrides |-> decided]
Listed == {Request("inventory", None, o, "combined", n, 4, g, FALSE, {}) :
              o \in {None, "gala"}, n \in {1, 9}, g \in BOOLEAN}
          \cup {Request("inventory", "c", None, "current", 9, 4, TRUE, FALSE, {})}
Local == {Override("p1", "s1", "drop"), Override("p2", "s1", "feature")}
Mixed == {Request("mix", None, None, "combined", 9, top, FALSE, FALSE, Local) : top \in {4, 5}}
         \cup {Request("mix", None, None, "combined", 9, 4, TRUE, FALSE, Local),
               Request("mix", None, None, "combined", 9, 6, FALSE, TRUE,
                       {Override("p3", None, "feature"), Override("p1", None, "drop")})}
Acted == {Request("actions", None, None, "current", 9, 4, g, h, {Override("p1", s, "drop")}) :
             g \in BOOLEAN, h \in BOOLEAN, s \in {None, "s1"}}
Advised(id, action, metric) == [product |-> id, action |-> action, metric |-> metric]
Workspace == INSTANCE UnifiedWorkspace
    WITH Stores <- <<"s1", "s2">>,
         Shelf <- [p1 |-> OnShelf("s1", 1, "c", 100, 50, 3), p2 |-> OnShelf("s1", 2, "d", 300, 30, 1),
                   p3 |-> OnShelf("s2", 3, "c", 100, 60, 2)],
         Offers <- [o1 |-> Offered(4, "b", "c", 130, 3), o2 |-> Offered(5, "e", "d", 900, None)],
         Occasions <- {"gala", "work"}, Asked <- Listed \cup Mixed \cup Acted,
         Advice <- {<<Advised("p1", "feature", 5), Advised("p2", "promote", 3)>>,
                    <<Advised("p3", "promote", 4), Advised("p1", "promote", 2)>>},
         MaxSales <- 2

-----------------------------------------------------------------------------
\* What clients send: two spellings of a size, of no size, and a size of its own.
Size(size, units) == [size |-> size, units |-> units]
SentRows == {{Size("One_Size", 1), Size("S_", 1)}, {Size("none", 1), Size("One_Size", 1)},
             {Size("none", 1), Size("S", 2)}}
SentMedia == {<<>>, [m1 |-> "pending"], [m1 |-> "approved", m2 |-> "approved"]}
SentContent == {[content |-> "c0", sources |-> {}, alt |-> {}],
                [content |-> "c1", sources |-> {"c1"}, alt |-> {"m1", "m2"}]}
Contracts == INSTANCE DraftContracts WITH MaxVersion <- MaxPublished

\* Three rows of a run: two spellings of a size, two colours, with and without a style.
Stored(id, name, style, color, size, avail, units) ==
    [id |-> id, name |-> name, style |-> style, color |-> color, store |-> "1", size |-> size,
     price |-> id, avail |-> avail, qty |-> units]
FirstRows == {Stored(1, "n", "s1", "red", "M", a[1], a[2]) :
                 a \in {<<"in_stock", 2>>, <<"out_of_stock", 0>>}}
SecondRows == {Stored(2, "n", s, c, z, "preorder", 1) :
                  s \in {None, "s1"}, c \in {"red", "blue"}, z \in {"M", "m", ""}}
ThirdRows == {Stored(3, "n", "s1", "blue", "M", "in_stock", 4),
              Stored(3, "o", "s1", "blue", "One_Size", "out_of_stock", 0)}
LoadedRows == {{a, b, c} : a \in FirstRows, b \in SecondRows, c \in ThirdRows}
Backfill == INSTANCE CatalogBackfill WITH Runs <- Sessions

-----------------------------------------------------------------------------
Cache == INSTANCE OperatorCache WITH Callers <- Sessions, Keys <- Names
Strategy == INSTANCE MerchStrategy WITH Stores <- Branches
Reviews == INSTANCE ProductReviews WITH Keys <- Names

ASSUME ReportAssumption ==
    /\ Performance!PerformanceAssumption /\ Projection!ProjectionAssumption
    /\ Workspace!WorkspaceAssumption
    /\ Contracts!ContractAssumption /\ Backfill!BackfillAssumption
    /\ Cache!CacheAssumption /\ Strategy!StrategyAssumption /\ Reviews!ReviewAssumption

-----------------------------------------------------------------------------
\* The variables of a part that this behaviour is not of.
NoPerformance ==
    /\ ledger = None
NoProjection ==
    /\ base = None /\ ask = None /\ candidates = None /\ offered = None
NoWorkspace ==
    /\ sales = None /\ report = None
NoContracts ==
    /\ draft = None /\ product = None
NoBackfill ==
    /\ legacy = None /\ products = None /\ variants = None /\ stock = None
    /\ canonical = None /\ running = None /\ done = None
NoCache ==
    /\ stores = None /\ resetting = None /\ items = None /\ order = None /\ calls = None
    /\ now = None /\ uses = None /\ filled = None
NoStrategy ==
    /\ packets = None /\ overrides = None /\ last = None
NoReviews ==
    /\ review = None /\ past = None /\ actions = None /\ record = None

Init ==
    \/ /\ part = "performance" /\ Performance!Init
       /\ answer = None /\ work = None
       /\ NoProjection /\ NoWorkspace /\ NoContracts /\ NoBackfill
       /\ NoCache /\ NoStrategy /\ NoReviews
    \/ /\ part = "projection" /\ Projection!Init
       /\ answer = None /\ work = None
       /\ NoPerformance /\ NoWorkspace /\ NoContracts /\ NoBackfill
       /\ NoCache /\ NoStrategy /\ NoReviews
    \/ /\ part = "workspace" /\ Workspace!Init
       /\ work = None
       /\ NoPerformance /\ NoProjection /\ NoContracts /\ NoBackfill
       /\ NoCache /\ NoStrategy /\ NoReviews
    \/ /\ part = "contracts" /\ Contracts!Init
       /\ answer = None /\ work = None
       /\ NoPerformance /\ NoProjection /\ NoWorkspace /\ NoBackfill
       /\ NoCache /\ NoStrategy /\ NoReviews
    \/ /\ part = "backfill" /\ Backfill!Init
       /\ answer = None /\ work = None
       /\ NoPerformance /\ NoProjection /\ NoWorkspace /\ NoContracts
       /\ NoCache /\ NoStrategy /\ NoReviews
    \/ /\ part = "cache" /\ Cache!Init
       /\ work = None
       /\ NoPerformance /\ NoProjection /\ NoWorkspace /\ NoContracts
       /\ NoBackfill /\ NoStrategy /\ NoReviews
    \/ /\ part = "strategy" /\ Strategy!Init
       /\ answer = None
       /\ NoPerformance /\ NoProjection /\ NoWorkspace /\ NoContracts
       /\ NoBackfill /\ NoCache /\ NoReviews
    \/ /\ part = "reviews" /\ Reviews!Init
       /\ answer = None
       /\ NoPerformance /\ NoProjection /\ NoWorkspace /\ NoContracts
       /\ NoBackfill /\ NoCache /\ NoStrategy

Next ==
    \/ /\ part = "performance" /\ Performance!Next
       /\ UNCHANGED <<part, answer, work, projectionVars, workspaceVars,
                      contractsVars, backfillVars, cacheVars, strategyVars, reviewsVars>>
    \/ /\ part = "projection" /\ Projection!Next
       /\ UNCHANGED <<part, answer, work, performanceVars, workspaceVars,
                      contractsVars, backfillVars, cacheVars, strategyVars, reviewsVars>>
    \/ /\ part = "workspace" /\ Workspace!Next
       /\ UNCHANGED <<part, work, performanceVars, projectionVars, contractsVars,
                      backfillVars, cacheVars, strategyVars, reviewsVars>>
    \/ /\ part = "contracts" /\ Contracts!Next
       /\ UNCHANGED <<part, answer, work, performanceVars, projectionVars,
                      workspaceVars, backfillVars, cacheVars, strategyVars, reviewsVars>>
    \/ /\ part = "backfill" /\ Backfill!Next
       /\ UNCHANGED <<part, answer, work, performanceVars, projectionVars,
                      workspaceVars, contractsVars, cacheVars, strategyVars, reviewsVars>>
    \/ /\ part = "cache" /\ Cache!Next
       /\ UNCHANGED <<part, work, performanceVars, projectionVars, workspaceVars,
                      contractsVars, backfillVars, strategyVars, reviewsVars>>
    \/ /\ part = "strategy" /\ Strategy!Next
       /\ UNCHANGED <<part, answer, performanceVars, projectionVars, workspaceVars,
                      contractsVars, backfillVars, cacheVars, reviewsVars>>
    \/ /\ part = "reviews" /\ Reviews!Next
       /\ UNCHANGED <<part, answer, performanceVars, projectionVars, workspaceVars,
                      contractsVars, backfillVars, cacheVars, strategyVars>>

Spec == Init /\ [][Next]_vars

Symmetry == Permutations(Sessions) \cup Permutations(Names)

-----------------------------------------------------------------------------
\* Every sale of the window counts once in a report, and what the store could have sold
\* is seen (StorePerformance).
PerformanceIsTrue ==
    part = "performance" => Performance!SalesAreCountedOnce /\ Performance!LostSalesAreSeen

\* A projection stays within what it is asked and what there is, and none better is
\* withheld (StrategyProjection).
ProjectionIsSound ==
    part = "projection" => Projection!ProjectionIsSound /\ Projection!OffersAreBest

\* A report of several stores adds up and follows the operator's overrides
\* (UnifiedWorkspace); the advice of one follows what it sold (StorePerformance).
ReportIsTrue ==
    /\ part = "workspace" => Workspace!ReportIsInStep /\ Workspace!OverridesAreFollowed
    /\ part = "performance" => Performance!AdviceFollowsSales

\* Both contracts see one draft: the tables agree after every step, and no step of one
\* loses what the other wrote (DraftContracts).
ContractsAgree ==
    [][part = "contracts" => /\ Contracts!TablesAgree' /\ Contracts!MediaKeepsTheRest
                             /\ Contracts!RevisionKeepsProduct]_vars

\* The canonical catalog of a completed run holds its legacy rows (CatalogBackfill).
CatalogHoldsTheRows == part = "backfill" => Backfill!CatalogHoldsTheRows

\* The cache evicts what was used least recently, and answers nothing that has expired
\* (OperatorCache).
CacheIsHonest == part = "cache" => Cache!CacheIsHonest

\* A store follows what was saved last, and a higher tag intensity takes no tag away
\* (MerchStrategy).
StrategyIsFollowed ==
    [][part = "strategy" => Strategy!SaveIsInForce /\ Strategy!TagsGrowWithIntensity]_vars

\* The history of a moderation is a chain, and what was published was seen
\* (ProductReviews).
ReviewIsModerated == part = "reviews" => Reviews!ReviewIsModerated
=============================================================================
