---------------------------- MODULE ReportsProofs ----------------------------
(***************************************************************************)
(* Proofs about the services composed by MCReports: the moderation of      *)
(* reviews, the strategy packets, the draft contracts, the backfill of the *)
(* catalog, the operator cache, the performance of a store and the         *)
(* projections of the strategy.  A behaviour stays the behaviour of one    *)
(* part, so each property needs the inductive invariant of its own part    *)
(* only.                                                                   *)
(***************************************************************************)
EXTENDS MCReports, SequenceTheorems, FiniteSetTheorems, TLAPS

-----------------------------------------------------------------------------
(* The part of a behaviour *)

\* A behaviour starts in the initial states of its part.
LEMMA PartInit ==
    ASSUME Init
    PROVE  /\ part = "strategy" => Strategy!Init
           /\ part = "reviews" => Reviews!Init
           /\ part = "contracts" => Contracts!Init
           /\ part = "backfill" => Backfill!Init
           /\ part = "cache" => Cache!Init
           /\ part = "performance" => Performance!Init
           /\ part = "projection" => Projection!Init
BY DEF Init

\* A step is one of the part, or leaves its variables alone.
LEMMA PartStep ==
    ASSUME [Next]_vars
    PROVE  /\ part' = part
           /\ part = "strategy" => [Strategy!Next]_(Strategy!vars)
           /\ part = "reviews" => [Reviews!Next]_(Reviews!vars)
           /\ part = "contracts" => [Contracts!Next]_(Contracts!vars)
           /\ part = "backfill" => [Backfill!Next]_(Backfill!vars)
           /\ part = "cache" => [Cache!Next]_(Cache!vars)
           /\ part = "performance" => [Performance!Next]_ledger
           /\ part = "projection" => [Projection!Next]_(Projection!vars)
BY DEF Next, vars, strategyVars, reviewsVars, contractsVars, backfillVars, cacheVars,
   performanceVars, projectionVars, Strategy!vars, Reviews!vars, Contracts!vars,
   Backfill!vars, Cache!vars, Projection!vars

-----------------------------------------------------------------------------
(* The moderation of a review *)

States == {"pending", "approved", "flagged", "rejected"}
Moderations == [state : States, draft : Texts \cup {None}, response : Texts \cup {None}]
History == Seq([key : Names, request : Reviews!Command, results : Nat])
Jobs == [op : {"import"}, body : Bodies]
            \cup [op : {"call", "apply"}, key : Names, request : Reviews!Command]

\* What the action at i of the history has done to the moderation.
IsTrueToPast(i) ==
    LET r == actions[i].request
    IN r.action = "publish_response" =>
          /\ past[i].state = "approved"
          /\ past[i + 1].response = IF r.text # None THEN r.text ELSE past[i].draft

\* The history has one action for each version but the first, on that version, and the
\* key of each is stored.
ReviewInv ==
    /\ past \in Seq(Moderations) /\ actions \in History
    /\ record \in [Names -> Reviews!Command \cup {None}]
    /\ work \in [Sessions -> Jobs \cup {None}]
    /\ review # None => Len(past) = Len(actions) + 1
    /\ review = None => past = <<>> /\ actions = <<>>
    /\ \A x \in Sessions : work[x] # None /\ work[x].op \in {"call", "apply"} => review # None
    /\ \A i \in 1 .. Len(actions) :
          /\ actions[i].request.expects = i /\ actions[i].results = i + 1
          /\ record[actions[i].key] = actions[i].request
          /\ IsTrueToPast(i)

\* Nothing has been imported.
LEMMA InitReview == Reviews!Init => ReviewInv
BY DEF Reviews!Init, ReviewInv, History

\* A step that leaves the stored rows alone and gives a session a job of its kind.
LEMMA QuietReview ==
    ASSUME ReviewInv, NEW x \in Sessions, NEW w \in Jobs \cup {None},
           work' = [work EXCEPT ![x] = w], UNCHANGED <<review, past, actions, record>>,
           w # None /\ w.op \in {"call", "apply"} => review # None
    PROVE  ReviewInv'
BY DEF ReviewInv, IsTrueToPast

\* A command that has passed the check of the version makes the next version.
LEMMA ApplyReview ==
    ASSUME ReviewInv, NEW x \in Sessions, Reviews!Apply(x)
    PROVE  ReviewInv'
<1> DEFINE k == work[x].key
           r == work[x].request
           m == past[Len(past)]
           a == [key |-> k, request |-> r, results |-> Len(past) + 1]
<1>1. work[x] # None /\ work[x].op = "apply" /\ work[x] \in Jobs /\ review # None
  BY DEF Reviews!Apply, Reviews!Doing, ReviewInv
<1>2. k \in Names /\ r \in Reviews!Command
  BY <1>1 DEF Jobs
<1>3. r.expects = Len(past) /\ record[k] = None /\ Reviews!Allowed(m, r)
  BY DEF Reviews!Apply, Reviews!IsExpected, Reviews!Version, Reviews!Moderation
<1>4. /\ past' = Append(past, Reviews!Applied(m, r))
      /\ actions' = Append(actions, a)
      /\ record' = [record EXCEPT ![k] = r]
      /\ work' = [work EXCEPT ![x] = None] /\ review' = review
  BY DEF Reviews!Apply, Reviews!RecordAction, Reviews!Version, Reviews!Moderation, Reviews!End
<1>5. Len(past) = Len(actions) + 1 /\ past \in Seq(Moderations) /\ actions \in History
  BY <1>1 DEF ReviewInv
<1>6. m \in Moderations
  BY <1>5 DEF History
<1>7. Reviews!Applied(m, r) \in Moderations
  BY <1>2, <1>6 DEF Reviews!Applied, Reviews!Response, Reviews!State, Reviews!Decisions,
     Reviews!Command, Moderations, States
<1>8. a \in [key : Names, request : Reviews!Command, results : Nat]
  BY <1>2, <1>5 DEF History
<1>9. past' \in Seq(Moderations) /\ actions' \in History
  BY <1>4, <1>5, <1>7, <1>8 DEF History
<1>10. record' \in [Names -> Reviews!Command \cup {None}] /\ work' \in [Sessions -> Jobs \cup {None}]
  BY <1>2, <1>4 DEF ReviewInv
<1>11. Len(past') = Len(actions') + 1
  BY <1>4, <1>5 DEF History
<1>12. None \notin Reviews!Command
  BY ReportAssumption DEF Reviews!ReviewAssumption
<1>13. ASSUME NEW i \in 1 .. Len(actions')
       PROVE  /\ actions'[i].request.expects = i /\ actions'[i].results = i + 1
              /\ record'[actions'[i].key] = actions'[i].request
              /\ IsTrueToPast(i)'
  <2>1. CASE i = Len(actions) + 1
    <3>1. actions'[i] = a /\ past'[i] = m /\ past'[i + 1] = Reviews!Applied(m, r)
      BY <1>4, <1>5, <2>1 DEF History
    <3>2. record'[k] = r
      BY <1>2, <1>4 DEF ReviewInv
    <3>3. r.action = "publish_response" =>
              /\ m.state = "approved"
              /\ Reviews!Applied(m, r).response = IF r.text # None THEN r.text ELSE m.draft
      BY <1>3 DEF Reviews!Allowed, Reviews!Applied, Reviews!Response
    <3> HIDE DEF k, r, m
    <3> QED BY <1>3, <1>5, <2>1, <3>1, <3>2, <3>3 DEF IsTrueToPast
  <2>2. CASE i \in 1 .. Len(actions)
    <3>1. actions'[i] = actions[i] /\ past'[i] = past[i] /\ past'[i + 1] = past[i + 1]
      BY <1>4, <1>5, <2>2 DEF History
    <3>2. /\ actions[i].request.expects = i /\ actions[i].results = i + 1
          /\ record[actions[i].key] = actions[i].request /\ IsTrueToPast(i)
      BY <2>2 DEF ReviewInv
    <3>3. actions[i].key \in Names /\ actions[i].request \in Reviews!Command
      <4> DEFINE Rec == [key : Names, request : Reviews!Command, results : Nat]
      <4>1. actions \in Seq(Rec)
        BY <1>5 DEF History
      <4> HIDE DEF Rec
      <4>2. actions[i] \in Rec
        BY <2>2, <4>1
      <4> USE DEF Rec
      <4> QED BY <4>2
    <3>4. actions[i].key # k
      BY <1>3, <1>12, <3>2, <3>3
    <3>5. record'[actions[i].key] = record[actions[i].key]
      BY <1>4, <3>3, <3>4 DEF ReviewInv
    <3> QED BY <3>1, <3>2, <3>5 DEF IsTrueToPast
  <2> QED BY <1>4, <1>5, <2>1, <2>2 DEF History
<1>14. \A y \in Sessions : work'[y] # None /\ work'[y].op \in {"call", "apply"} => review' # None
  BY <1>1, <1>4
<1> QED
  BY <1>1, <1>4, <1>9, <1>10, <1>11, <1>13, <1>14 DEF ReviewInv

\* Every step of a request keeps the history.
LEMMA NextReview ==
    ReviewInv /\ [Reviews!Next]_(Reviews!vars) => ReviewInv'
<1> SUFFICES ASSUME ReviewInv, [Reviews!Next]_(Reviews!vars) PROVE ReviewInv'
  OBVIOUS
<1>1. CASE UNCHANGED Reviews!vars
  BY <1>1 DEF Reviews!vars, ReviewInv, IsTrueToPast
<1>2. ASSUME NEW x \in Sessions, Reviews!StartImport(x)
      PROVE  ReviewInv'
  <2>1. PICK b \in Bodies : work' = [work EXCEPT ![x] = [op |-> "import", body |-> b]]
    BY <1>2 DEF Reviews!StartImport, Reviews!Begin
  <2>2. [op |-> "import", body |-> b] \in Jobs
    BY DEF Jobs
  <2> QED BY <1>2, <2>1, <2>2, QuietReview DEF Reviews!StartImport
<1>3. ASSUME NEW x \in Sessions, Reviews!Import(x)
      PROVE  ReviewInv'
  <2> DEFINE m == [state |-> "pending", draft |-> None, response |-> None]
  <2>1. work[x] \in Jobs /\ work[x].body \in Bodies
    BY <1>3 DEF Reviews!Import, Reviews!Doing, ReviewInv, Jobs
  <2>2. review' # None
    BY <1>3, <2>1, ReportAssumption DEF Reviews!Import, Reviews!ReviewAssumption
  <2>3. past' = <<m>> /\ m \in Moderations /\ actions = <<>>
    BY <1>3 DEF Reviews!Import, ReviewInv, Moderations, States
  <2>4. past' \in Seq(Moderations) /\ Len(past') = 1 /\ actions' = <<>> /\ record' = record
    BY <1>3, <2>3 DEF Reviews!Import
  <2>5. work' \in [Sessions -> Jobs \cup {None}]
    BY <1>3 DEF Reviews!Import, Reviews!End, ReviewInv
  <2>6. actions' \in History /\ Len(actions') = 0 /\ 1 .. Len(actions') = {}
    BY <2>4 DEF History
  <2>7. record' \in [Names -> Reviews!Command \cup {None}]
    BY <2>4 DEF ReviewInv
  <2> QED BY <2>2, <2>4, <2>5, <2>6, <2>7 DEF ReviewInv
<1>4. ASSUME NEW x \in Sessions, Reviews!Request(x)
      PROVE  ReviewInv'
  <2>1. PICK k \in Names, r \in Reviews!Requests :
           work' = [work EXCEPT ![x] = [op |-> IF r.action = "assist" THEN "call" ELSE "apply",
                                        key |-> k, request |-> r]]
    BY <1>4 DEF Reviews!Request, Reviews!Begin
  <2> DEFINE w == [op |-> IF r.action = "assist" THEN "call" ELSE "apply",
                   key |-> k, request |-> r]
  <2>2. w \in Jobs
    BY DEF Jobs, Reviews!Requests
  <2> QED BY <1>4, <2>1, <2>2, QuietReview DEF Reviews!Request
<1>5. ASSUME NEW x \in Sessions, Reviews!Propose(x)
      PROVE  ReviewInv'
  <2>1. PICK t \in Texts \cup {None} :
           work' = [work EXCEPT ![x] = [@ EXCEPT !.op = "apply", !.request.text = t]]
    BY <1>5 DEF Reviews!Propose
  <2> DEFINE w == [work[x] EXCEPT !.op = "apply", !.request.text = t]
  <2>2. work[x] # None /\ work[x].op = "call" /\ work[x] \in Jobs /\ review # None
    BY <1>5 DEF Reviews!Propose, Reviews!Doing, ReviewInv
  <2>3. w \in Jobs
    BY <2>2 DEF Jobs, Reviews!Command
  <2>4. work' = [work EXCEPT ![x] = w]
    BY <2>1 DEF ReviewInv
  <2> HIDE DEF w
  <2> QED BY <1>5, <2>2, <2>3, <2>4, QuietReview DEF Reviews!Propose
<1>6. ASSUME NEW x \in Sessions, Reviews!Refuse(x)
      PROVE  ReviewInv'
  BY <1>6, QuietReview DEF Reviews!Refuse, Reviews!End
<1> QED
  BY <1>1, <1>2, <1>3, <1>4, <1>5, <1>6, ApplyReview DEF Reviews!Next

\* For any number of requests, keys and versions: every merchant action was made on the
\* version its actor named and under a key of its own, and what is published was approved
\* and seen, whatever commands and late proposals come in between.
THEOREM ReviewsStayModerated == Spec => []ReviewIsModerated
<1> DEFINE Inv == part = "reviews" => ReviewInv
<1>1. Init => Inv
  BY PartInit, InitReview
<1>2. Inv /\ [Next]_vars => Inv'
  BY PartStep, NextReview
<1>3. Inv => ReviewIsModerated
  BY DEF ReviewInv, ReviewIsModerated, Reviews!ReviewIsModerated, Reviews!HistoryIsAChain,
     Reviews!PublishedWasSeen, Reviews!Version, IsTrueToPast
<1> QED BY <1>1, <1>2, <1>3, PTL DEF Spec

-----------------------------------------------------------------------------
(* The strategy in force *)

\* An override row, once there, stays; so does what a session has loaded of it.
SaveJobs == [packet : Nat, store : Branches, ask : Cores \cup {"packet"},
             row : Strategy!Rows \cup {None}]
StrategyInv ==
    /\ packets \in Seq(SUBSET Branches) /\ Len(packets) <= MaxPackets
    /\ overrides \in [Strategy!Ids -> [Branches -> Strategy!Rows \cup {None}]]
    /\ work \in [Sessions -> SaveJobs \cup {None}]
    /\ \A x \in Sessions : work[x] # None =>
          /\ work[x].packet \in Strategy!Ids
          /\ work[x].row # None => overrides[work[x].packet][work[x].store] # None

\* Nothing has been published.
LEMMA InitStrategy == Strategy!Init => StrategyInv
BY ReportAssumption DEF Strategy!Init, StrategyInv, Strategy!StrategyAssumption

\* What a save wants of its row is a row, and what a commit makes of two rows is one.
LEMMA WantedIsARow ==
    ASSUME NEW w \in SaveJobs, w.row # None \/ w.ask # "packet"
    PROVE  Strategy!Wanted(w) \in Strategy!Rows
BY DEF SaveJobs, Strategy!Wanted, Strategy!Rows

\* Every step keeps the rows complete.
LEMMA NextStrategy ==
    StrategyInv /\ [Strategy!Next]_(Strategy!vars) => StrategyInv'
<1> SUFFICES ASSUME StrategyInv, [Strategy!Next]_(Strategy!vars) PROVE StrategyInv'
  OBVIOUS
<1>1. CASE UNCHANGED Strategy!vars
  BY <1>1 DEF Strategy!vars, StrategyInv
<1>2. CASE Strategy!Publish
  <2>1. PICK scope \in SUBSET Branches : packets' = Append(packets, scope)
    BY <1>2 DEF Strategy!Publish
  <2>2. packets' \in Seq(SUBSET Branches) /\ Len(packets') = Len(packets) + 1
    BY <2>1 DEF StrategyInv
  <2>3. MaxPackets \in Nat
    BY ReportAssumption DEF Strategy!StrategyAssumption
  <2> QED BY <1>2, <2>2, <2>3 DEF Strategy!Publish, StrategyInv
<1>3. ASSUME NEW x \in Sessions, Strategy!LoadSave(x)
      PROVE  StrategyInv'
  <2>1. PICK p \in Strategy!Packets, s \in Branches, c \in Cores \cup {"packet"} :
           work' = [work EXCEPT ![x] =
                      [packet |-> p, store |-> s, ask |-> c, row |-> overrides[p][s]]]
    BY <1>3 DEF Strategy!LoadSave
  <2>2. p \in Strategy!Ids
    BY ReportAssumption DEF Strategy!Packets, Strategy!Ids, StrategyInv,
       Strategy!StrategyAssumption
  <2>3. overrides[p][s] \in Strategy!Rows \cup {None}
    BY <2>2 DEF StrategyInv
  <2> QED BY <1>3, <2>1, <2>2, <2>3 DEF Strategy!LoadSave, StrategyInv, SaveJobs, Strategy!Ids
<1>4. ASSUME NEW x \in Sessions, Strategy!CommitSave(x)
      PROVE  StrategyInv'
  <2> DEFINE w == work[x]
             stored == overrides[w.packet][w.store]
             row == IF w.row = None THEN Strategy!Wanted(w)
                    ELSE Strategy!Merged(stored, w.row, Strategy!Wanted(w))
  <2>1. w \in SaveJobs /\ w.packet \in Strategy!Ids /\ w.store \in Branches
    BY <1>4 DEF Strategy!CommitSave, StrategyInv, SaveJobs
  <2>2. overrides[w.packet][w.store] \in Strategy!Rows \cup {None}
    BY <2>1 DEF StrategyInv
  <2>3. w.row # None => stored \in Strategy!Rows /\ w.row \in Strategy!Rows
    BY <1>4, <2>1, <2>2 DEF StrategyInv, Strategy!CommitSave, SaveJobs
  <2>4. w.row # None \/ w.ask # "packet" => row \in Strategy!Rows
    BY <2>1, <2>3, WantedIsARow DEF Strategy!Merged, Strategy!Rows
  <2>5. work' = [work EXCEPT ![x] = None] /\ packets' = packets
    BY <1>4 DEF Strategy!CommitSave
  <2>6. CASE w.row = None /\ w.ask = "packet"
    <3>1. overrides' = overrides
      BY <1>4, <2>6 DEF Strategy!CommitSave
    <3> QED BY <2>5, <3>1 DEF StrategyInv
  <2>7. CASE w.row # None \/ w.ask # "packet"
    <3>1. overrides' = [overrides EXCEPT ![w.packet][w.store] = row]
      BY <1>4, <2>7 DEF Strategy!CommitSave
    <3>2. row \in Strategy!Rows /\ row # None
      BY <2>4, <2>7, ReportAssumption DEF Strategy!StrategyAssumption
    <3> HIDE DEF w, row, stored
    <3>3. overrides' \in [Strategy!Ids -> [Branches -> Strategy!Rows \cup {None}]]
      BY <2>1, <3>1, <3>2 DEF StrategyInv
    <3>4. \A p \in Strategy!Ids, s \in Branches :
             overrides[p][s] # None => overrides'[p][s] # None
      BY <2>1, <3>1, <3>2 DEF StrategyInv
    <3>5. \A y \in Sessions : work[y] # None => work[y].store \in Branches
      BY DEF StrategyInv, SaveJobs
    <3> QED BY <2>5, <3>3, <3>4, <3>5 DEF StrategyInv
  <2> QED BY <2>6, <2>7
<1>5. ASSUME NEW x \in Sessions, Strategy!FailSave(x)
      PROVE  StrategyInv'
  BY <1>5 DEF Strategy!FailSave, StrategyInv
<1> QED
  BY <1>1, <1>2, <1>3, <1>4, <1>5 DEF Strategy!Next

\* A save of the row as it stands is what the store follows when it has committed.
LEMMA SaveTakesEffect ==
    ASSUME StrategyInv, NEW x \in Sessions, NEW p \in Strategy!Packets, NEW s \in Branches,
           Strategy!CommitSave(x), work[x].packet = p, work[x].store = s,
           overrides[p][s] = work[x].row, Strategy!InForce(s) = p
    PROVE  Strategy!Followed(s)' = work[x].ask
<1> DEFINE w == work[x]
<1>1. w \in SaveJobs /\ p \in Strategy!Ids
  BY DEF Strategy!CommitSave, StrategyInv
<1>2. p # None /\ "packet" \notin Cores /\ None \notin Strategy!Rows
  BY <1>1, ReportAssumption DEF Strategy!StrategyAssumption, Strategy!Ids
<1>3. Strategy!InForce(s)' = p
  BY DEF Strategy!CommitSave, Strategy!InForce, Strategy!Packets, Strategy!Covers
<1>4. Strategy!Followed(s)' = Strategy!Effective(p, s)'
  BY <1>2, <1>3 DEF Strategy!Followed
<1>5. CASE w.row = None /\ w.ask = "packet"
  BY <1>4, <1>5 DEF Strategy!CommitSave, Strategy!Effective
<1>6. CASE w.row = None /\ w.ask # "packet"
  <2>1. overrides'[p][s] = [status |-> "active", core |-> w.ask] /\ w.ask \in Cores
    BY <1>1, <1>6 DEF Strategy!CommitSave, Strategy!Wanted, StrategyInv, SaveJobs
  <2>2. overrides'[p][s] # None
    BY <1>2, <2>1 DEF Strategy!Rows
  <2> QED BY <1>4, <2>1, <2>2 DEF Strategy!Effective
<1>7. CASE w.row # None
  <2>1. w.row \in Strategy!Rows /\ Strategy!Wanted(w) \in Strategy!Rows
    BY <1>1, <1>7, WantedIsARow DEF SaveJobs
  <2>2. Strategy!Merged(w.row, w.row, Strategy!Wanted(w)) = Strategy!Wanted(w)
    BY <2>1 DEF Strategy!Merged, Strategy!Rows
  <2>3. overrides'[p][s] = Strategy!Wanted(w)
    BY <1>1, <1>7, <2>2 DEF Strategy!CommitSave, StrategyInv
  <2>4. /\ overrides'[p][s] # None
        /\ w.ask = "packet" => overrides'[p][s].status = "inactive"
        /\ w.ask # "packet" => overrides'[p][s] = [status |-> "active", core |-> w.ask]
    BY <1>2, <2>1, <2>3 DEF Strategy!Wanted, Strategy!Rows
  <2> QED BY <1>4, <2>4 DEF Strategy!Effective
<1> QED
  BY <1>5, <1>6, <1>7

\* For a margin floor in percent, a higher intensity takes no tag from a product of any
\* margin.
LEMMA TagsGrow ==
    ASSUME NEW item, item.focus \in BOOLEAN, item.brand \in BOOLEAN, item.brands \in BOOLEAN,
           item.margin \in Int, NEW floor \in 0 .. 100
    PROVE  /\ Strategy!Tags(item, floor, "low") \subseteq Strategy!Tags(item, floor, "medium")
           /\ Strategy!Tags(item, floor, "medium") \subseteq Strategy!Tags(item, floor, "high")
<1> DEFINE brand == item.brand /\ item.brands
<1>1. /\ item.margin >= Strategy!MarginFloor(floor, "low")
         => item.margin >= Strategy!MarginFloor(floor, "medium")
      /\ item.margin >= Strategy!MarginFloor(floor, "medium")
         => item.margin >= Strategy!MarginFloor(floor, "high")
  BY DEF Strategy!MarginFloor
<1> QED
  BY <1>1 DEF Strategy!Tags

\* For any stores, strategies and number of concurrent saves: one that no other has
\* overtaken is what its store follows, whatever its row went through before, and a
\* higher tag intensity takes no tag away.
THEOREM SavesAreFollowed == Spec => StrategyIsFollowed
<1> DEFINE Inv == part = "strategy" => StrategyInv
<1>1. Init => Inv
  BY PartInit, InitStrategy
<1>2. Inv /\ [Next]_vars => Inv'
  BY PartStep, NextStrategy
<1>3. Strategy!TagsGrowWithIntensity
  BY TagsGrow DEF Strategy!TagsGrowWithIntensity, Strategy!Items, Strategy!Floors
<1>4. Inv => [part = "strategy" => Strategy!SaveIsInForce
                                   /\ Strategy!TagsGrowWithIntensity]_vars
  BY <1>3, SaveTakesEffect DEF Strategy!SaveIsInForce
<1> QED BY <1>1, <1>2, <1>4, PTL DEF Spec, StrategyIsFollowed

-----------------------------------------------------------------------------
(* The contracts of a draft.  What a draft and its product hold must survive every
   conversion between the contracts, so the invariant says of each what form its rows
   have, and that a revision nobody has changed is still what its product shows. *)

\* Rows with a number of units, one for each spelling of a size.
IsStocked(rows) ==
    /\ \A r \in rows : r = [size |-> r.size, units |-> r.units] /\ r.units \in Nat
    /\ \A r, q \in rows : r.size = q.size => r = q

\* The lists of one or two stores.
AreStocked(v) == DOMAIN v \in {1 .. 1, 1 .. 2} /\ \A i \in DOMAIN v : IsStocked(v[i])

\* The one list of v2 and v3, whose sizes are stripped.
AreStripped(v) ==
    /\ v = <<v[1]>> /\ IsStocked(v[1])
    /\ \A r, q \in v[1] : Contracts!Trimmed(r.size) = Contracts!Trimmed(q.size) => r = q

\* A stored draft in one of the contracts; only v3 has content of its own.
IsSnapshot(s) ==
    /\ s = [schema |-> s.schema, variants |-> s.variants, media |-> s.media,
            content |-> s.content, sources |-> s.sources, alt |-> s.alt]
    /\ s.schema \in 1 .. 3
    /\ IF s.schema = 1 THEN AreStocked(s.variants) ELSE AreStripped(s.variants)
    /\ s.schema # 3 => s.content = Blank /\ s.sources = {} /\ s.alt = {}
    /\ s.alt \subseteq DOMAIN s.media

\* A product has one row for each size, and no text for an image it does not have.
ProductIsWhole == product # None =>
    /\ product = [version |-> product.version, v3 |-> product.v3, stores |-> product.stores,
                  rows |-> product.rows, media |-> product.media]
    /\ product.version \in Nat \ {0}
    /\ AreStocked(product.stores)
    /\ IsStocked(product.rows) /\ Contracts!HasOneRowPerKey(product.rows)
    /\ product.v3 # None => /\ product.v3 = [content |-> product.v3.content, alt |-> product.v3.alt]
                            /\ product.v3.alt \subseteq product.media
    /\ Contracts!TablesAgree

\* What a revision starts from.
IsRevision(s) ==
    \/ ~ Contracts!IsOwnedByV3 /\ s \in {Contracts!PublishedV1, Contracts!PublishedV2}
    \/ s = Contracts!PublishedV3

\* A draft is of a version there is, and a revision is of what the product shows.
DraftIsWhole == draft # None =>
    /\ draft = [base |-> draft.base, approved |-> draft.approved, snapshot |-> draft.snapshot,
                unchanged |-> draft.unchanged]
    /\ draft.base \in Nat
    /\ IsSnapshot(draft.snapshot)
    /\ product # None => draft.base <= product.version
    /\ draft.unchanged => /\ draft.base # 0
                          /\ draft.base = Contracts!Version => IsRevision(draft.snapshot)

ContractsInv == ProductIsWhole /\ DraftIsWhole

\* The sum of a function over a set, as the model sums rows and stores.
Total(f, S) == Contracts!MapThenSumSet(LAMBDA x : f[x], S)

\* Over no, one and two members: the rows of a size are never more.
LEMMA TotalOfNone == ASSUME NEW f PROVE Total(f, {}) = 0
<1> DEFINE ch(s) == CHOOSE x \in s : TRUE
           e(h) == [s \in SUBSET {} |-> IF s = {} THEN 0 ELSE LET x == ch(s) IN f[x] + h[s \ {x}]]
           g == [s \in SUBSET {} |-> 0]
<1>1. g = e(g)
  OBVIOUS
<1>2. \A h : h = e(h) => h[{}] = 0
  OBVIOUS
<1> HIDE DEF ch, g
<1>3. (CHOOSE h : h = e(h))[{}] = 0
  BY <1>1, <1>2
<1> QED BY <1>3 DEF Total, Contracts!MapThenSumSet, Contracts!MapThenFoldSet, ch

LEMMA TotalOfOne == ASSUME NEW f, NEW a, f[a] \in Nat PROVE Total(f, {a}) = f[a]
<1> DEFINE S == {a}
           ch(s) == CHOOSE x \in s : TRUE
           e(h) == [s \in SUBSET S |-> IF s = {} THEN 0 ELSE LET x == ch(s) IN f[x] + h[s \ {x}]]
           g == [s \in SUBSET S |-> IF s = {} THEN 0 ELSE f[a]]
<1>1. \A s \in SUBSET S : s = {} \/ s = {a}
  OBVIOUS
<1>2. \A s \in SUBSET S : s # {} => ch(s) = a
  OBVIOUS
<1>3. g = e(g)
  BY <1>1, <1>2
<1>4. ASSUME NEW h, h = e(h) PROVE h[{a}] = f[a]
  <2>1. {} \in SUBSET S /\ {a} \in SUBSET S /\ {a} # {} /\ {a} \ {a} = {}
    OBVIOUS
  <2>2. h[{}] = 0
    BY <1>4, <2>1
  <2>3. h[{a}] = f[a] + h[{}]
    BY <1>4, <1>2, <2>1
  <2> QED BY <2>2, <2>3
<1> HIDE DEF ch, g
<1>5. (CHOOSE h : h = e(h))[{a}] = f[a]
  BY <1>3, <1>4
<1> QED BY <1>5 DEF Total, Contracts!MapThenSumSet, Contracts!MapThenFoldSet, ch

LEMMA TotalOfTwo ==
    ASSUME NEW f, NEW a, NEW b, a # b, f[a] \in Nat, f[b] \in Nat
    PROVE  Total(f, {a, b}) = f[a] + f[b]
<1> DEFINE A == {a}
           B == {b}
           S == {a, b}
           ch(s) == CHOOSE x \in s : TRUE
           e(h) == [s \in SUBSET S |-> IF s = {} THEN 0 ELSE LET x == ch(s) IN f[x] + h[s \ {x}]]
           g == [s \in SUBSET S |-> IF s = {} THEN 0 ELSE IF s = A THEN f[a]
                                    ELSE IF s = B THEN f[b] ELSE f[a] + f[b]]
<1>1. \A s \in SUBSET S : s \in {{}, A, B, S}
  OBVIOUS
<1>2. ch(A) = a /\ ch(B) = b /\ ch(S) \in {a, b}
  OBVIOUS
<1>3. /\ A \ {a} = {} /\ B \ {b} = {} /\ S \ {a} = B /\ S \ {b} = A
      /\ {} \in SUBSET S /\ A \in SUBSET S /\ B \in SUBSET S /\ S \in SUBSET S
      /\ A # {} /\ B # {} /\ S # {} /\ A # B /\ S # A /\ S # B
  OBVIOUS
<1> HIDE DEF ch, S, A, B
<1>4. ASSUME NEW h
      PROVE  /\ e(h)[{}] = 0 /\ e(h)[A] = f[a] + h[{}] /\ e(h)[B] = f[b] + h[{}]
             /\ e(h)[S] = IF ch(S) = a THEN f[a] + h[B] ELSE f[b] + h[A]
  <2>1. e(h)[{}] = 0 /\ e(h)[A] = f[a] + h[{}] /\ e(h)[B] = f[b] + h[{}]
    BY <1>2, <1>3
  <2>2. e(h)[S] = f[ch(S)] + h[S \ {ch(S)}]
    BY <1>3
  <2> QED BY <1>2, <1>3, <2>1, <2>2
<1>5. g[{}] = 0 /\ g[A] = f[a] /\ g[B] = f[b] /\ g[S] = f[a] + f[b]
  BY <1>3
<1>6. g = e(g)
  <2>1. \A s \in {{}, A, B, S} : g[s] = e(g)[s]
    <3>1. /\ e(g)[{}] = 0 /\ e(g)[A] = f[a] + g[{}] /\ e(g)[B] = f[b] + g[{}]
          /\ e(g)[S] = IF ch(S) = a THEN f[a] + g[B] ELSE f[b] + g[A]
      BY <1>4
    <3> HIDE DEF g, e
    <3>2. e(g)[S] = f[a] + f[b]
      BY <1>5, <3>1
    <3> QED BY <1>5, <3>1, <3>2
  <2>2. \A s \in SUBSET S : g[s] = e(g)[s]
    BY <1>1, <2>1
  <2>3. g = [s \in SUBSET S |-> g[s]] /\ e(g) = [s \in SUBSET S |-> e(g)[s]]
    OBVIOUS
  <2> HIDE DEF g, e
  <2> QED BY <2>2, <2>3
<1>7. ASSUME NEW h, h = e(h) PROVE h[S] = f[a] + f[b]
  <2> HIDE DEF e
  <2> QED BY <1>4, <1>7
<1> HIDE DEF g
<1>8. (CHOOSE h : h = e(h))[S] = f[a] + f[b]
  <2> HIDE DEF e
  <2> QED BY <1>6, <1>7
<1> QED BY <1>8 DEF Total, Contracts!MapThenSumSet, Contracts!MapThenFoldSet, ch, S

\* A sum of the model is a total.
LEMMA RowsTotal ==
    ASSUME NEW rows, NEW k
    PROVE  LET S == {r \in rows : Contracts!Key(r.size) = k}
           IN Contracts!UnitsIn(rows, k) = Total([r \in S |-> r.units], S)
<1> DEFINE S == {r \in rows : Contracts!Key(r.size) = k}
           f == [r \in S |-> r.units]
           ch(s) == CHOOSE x \in s : TRUE
           e1(h) == [s \in SUBSET S |-> IF s = {} THEN 0 ELSE LET x == ch(s) IN x.units + h[s \ {x}]]
           e2(h) == [s \in SUBSET S |-> IF s = {} THEN 0 ELSE LET x == ch(s) IN f[x] + h[s \ {x}]]
<1>1. \A s \in SUBSET S : s # {} => ch(s) \in S
  OBVIOUS
<1>2. \A r \in S : f[r] = r.units
  OBVIOUS
<1> HIDE DEF ch, f, S
<1>3. ASSUME NEW h PROVE e1(h) = e2(h)
  BY <1>1, <1>2
<1>4. \A h : h = e1(h) <=> h = e2(h)
  BY <1>3
<1> HIDE DEF e1, e2
<1>5. (CHOOSE h : h = e1(h)) = (CHOOSE h : h = e2(h))
  BY <1>4
<1> QED BY <1>5 DEF e1, e2, ch, f, S, Total, Contracts!UnitsIn, Contracts!MapThenSumSet,
     Contracts!MapThenFoldSet

\* The same for the stores of a variant.
LEMMA StoresTotal ==
    ASSUME NEW v, NEW k
    PROVE  LET D == DOMAIN v
           IN Contracts!MapThenSumSet(LAMBDA i : Contracts!UnitsIn(v[i], k), D)
                = Total([i \in D |-> Contracts!UnitsIn(v[i], k)], D)
<1> DEFINE S == DOMAIN v
           f == [i \in S |-> Contracts!UnitsIn(v[i], k)]
           ch(s) == CHOOSE x \in s : TRUE
           e1(h) == [s \in SUBSET S |-> IF s = {} THEN 0
                                        ELSE LET x == ch(s) IN Contracts!UnitsIn(v[x], k) + h[s \ {x}]]
           e2(h) == [s \in SUBSET S |-> IF s = {} THEN 0 ELSE LET x == ch(s) IN f[x] + h[s \ {x}]]
<1>1. \A s \in SUBSET S : s # {} => ch(s) \in S
  OBVIOUS
<1>2. \A i \in S : f[i] = Contracts!UnitsIn(v[i], k)
  OBVIOUS
<1> HIDE DEF ch, f, S
<1>3. ASSUME NEW h PROVE e1(h) = e2(h)
  BY <1>1, <1>2
<1>4. \A h : h = e1(h) <=> h = e2(h)
  BY <1>3
<1> HIDE DEF e1, e2
<1>5. (CHOOSE h : h = e1(h)) = (CHOOSE h : h = e2(h))
  BY <1>4
<1> QED BY <1>5 DEF e1, e2, ch, f, S, Total, Contracts!MapThenSumSet, Contracts!MapThenFoldSet
-----------------------------------------------------------------------------
(* The sizes of a draft *)

\* A key is its own key and needs no trimming.
LEMMA KeyIsKey ==
    ASSUME NEW k
    PROVE  /\ Contracts!Key(Contracts!Key(k)) = Contracts!Key(k)
           /\ Contracts!Trimmed(Contracts!Key(k)) = Contracts!Key(k)
BY DEF Contracts!Key, Contracts!Trimmed

\* No three spellings have one key, so a key has at most two rows.
LEMMA RowsOfKey ==
    ASSUME NEW rows, IsStocked(rows), NEW S, S \subseteq rows,
           \A a, b \in S : Contracts!Key(a.size) = Contracts!Key(b.size)
    PROVE  \/ S = {}
           \/ \E a \in S : S = {a}
           \/ \E a, b \in S : a # b /\ S = {a, b}
<1>1. ASSUME NEW a \in S, NEW b \in S, NEW c \in S PROVE a = b \/ a = c \/ b = c
  <2>1. a.size = b.size \/ a.size = c.size \/ b.size = c.size
    BY DEF Contracts!Key, Contracts!Trimmed
  <2> QED BY <2>1 DEF IsStocked
<1>2. ASSUME NEW a \in S, S # {a} PROVE \E x, y \in S : x # y /\ S = {x, y}
  <2>1. PICK b \in S : b # a
    BY <1>2
  <2>2. S = {a, b}
    BY <1>1, <2>1
  <2> QED BY <2>1, <2>2
<1> QED BY <1>2

\* The units of a key are a number; the one row of a key holds them.
LEMMA UnitsOfKey ==
    ASSUME NEW rows, IsStocked(rows), NEW k
    PROVE  /\ Contracts!UnitsIn(rows, k) \in Nat
           /\ \A a \in rows : {r \in rows : Contracts!Key(r.size) = k} = {a}
                 => Contracts!UnitsIn(rows, k) = a.units
<1> DEFINE S == {r \in rows : Contracts!Key(r.size) = k}
           f == [r \in S |-> r.units]
<1>1. \A r \in S : f[r] = r.units /\ f[r] \in Nat
  BY DEF IsStocked
<1>2. Contracts!UnitsIn(rows, k) = Total(f, S)
  BY RowsTotal
<1>3. S = {} \/ (\E a \in S : S = {a}) \/ (\E a, b \in S : a # b /\ S = {a, b})
  <2>1. S \subseteq rows /\ \A a, b \in S : Contracts!Key(a.size) = Contracts!Key(b.size)
    OBVIOUS
  <2> HIDE DEF S
  <2> QED BY <2>1, RowsOfKey
<1> HIDE DEF f, S
<1>4. CASE S = {}
  <2>1. Total(f, S) = 0
    BY <1>4, TotalOfNone
  <2> QED BY <1>2, <1>4, <2>1 DEF S
<1>5. CASE \E a \in S : S = {a}
  <2>1. PICK a \in S : S = {a}
    BY <1>5
  <2>2. Total(f, S) = f[a]
    BY <1>1, <2>1, TotalOfOne
  <2>3. Contracts!UnitsIn(rows, k) = a.units /\ a.units \in Nat
    BY <1>1, <1>2, <2>2
  <2> QED BY <2>1, <2>3 DEF S
<1>6. CASE \E a, b \in S : a # b /\ S = {a, b}
  <2>1. PICK a \in S, b \in S : a # b /\ S = {a, b}
    BY <1>6
  <2>2. Total(f, S) = f[a] + f[b]
    BY <1>1, <2>1, TotalOfTwo
  <2>3. Contracts!UnitsIn(rows, k) \in Nat
    BY <1>1, <1>2, <2>2
  <2>4. \A c : S # {c}
    BY <2>1
  <2> QED BY <2>3, <2>4 DEF S
<1> QED BY <1>3, <1>4, <1>5, <1>6

\* The units of a size over the stores, and of the one list of v2 and v3.
LEMMA UnitsOfStores ==
    ASSUME NEW v, AreStocked(v), NEW k \in Contracts!Keys(v)
    PROVE  /\ Contracts!Units(v)[k] \in Nat
           /\ DOMAIN v = 1 .. 1 => Contracts!Units(v)[k] = Contracts!UnitsIn(v[1], k)
<1> DEFINE D == DOMAIN v
           f == [i \in D |-> Contracts!UnitsIn(v[i], k)]
<1>1. \A i \in D : f[i] = Contracts!UnitsIn(v[i], k) /\ f[i] \in Nat
  BY UnitsOfKey DEF AreStocked
<1>2. Contracts!Units(v)[k] = Total(f, D)
  BY StoresTotal DEF Contracts!Units
<1>3. D = {1} \/ D = {1, 2}
  BY DEF AreStocked
<1> HIDE DEF f, D
<1>4. CASE D = {1}
  <2>1. Total(f, D) = f[1]
    BY <1>1, <1>4, TotalOfOne
  <2> QED BY <1>1, <1>2, <1>4, <2>1 DEF D
<1>5. CASE D = {1, 2}
  <2>0. f[1] \in Nat /\ f[2] \in Nat /\ 1 # 2
    BY <1>1, <1>5
  <2>1. Total(f, {1, 2}) = f[1] + f[2]
    BY <2>0, TotalOfTwo
  <2>2. DOMAIN v # 1 .. 1
    BY <1>5 DEF D
  <2> QED BY <1>1, <1>2, <1>5, <2>1, <2>2
<1> QED BY <1>3, <1>4, <1>5

\* What a key is there for.
LEMMA KeysAreKeys ==
    ASSUME NEW v, AreStocked(v), NEW k \in Contracts!Keys(v)
    PROVE  Contracts!Key(k) = k /\ Contracts!Trimmed(k) = k
<1>1. PICK i \in DOMAIN v : \E r \in v[i] : k = Contracts!Key(r.size)
  BY DEF Contracts!Keys, Contracts!Range
<1>2. PICK r \in v[i] : k = Contracts!Key(r.size)
  BY <1>1
<1> QED BY <1>2, KeyIsKey

\* The one list that v2 makes of the stores: a row for each key.
OneList(v) == {[size |-> k, units |-> Contracts!Units(v)[k]] : k \in Contracts!Keys(v)}

\* That list is one v2 accepts, with a row for each key.
LEMMA ListIsStripped ==
    ASSUME NEW v, AreStocked(v)
    PROVE  AreStripped(<<OneList(v)>>) /\ Contracts!HasOneRowPerKey(OneList(v))
<1> DEFINE L == OneList(v)
<1>1. \A r \in L : /\ r = [size |-> r.size, units |-> r.units] /\ r.units \in Nat
                   /\ r.size \in Contracts!Keys(v)
                   /\ r = [size |-> r.size, units |-> Contracts!Units(v)[r.size]]
  BY KeysAreKeys, UnitsOfStores DEF OneList
<1>2. \A r \in L : Contracts!Key(r.size) = r.size /\ Contracts!Trimmed(r.size) = r.size
  BY <1>1, KeysAreKeys
<1>3. <<L>>[1] = L
  OBVIOUS
<1> HIDE DEF L
<1>4. \A r, q \in L : r.size = q.size => r = q
  BY <1>1
<1>5. IsStocked(L)
  BY <1>1, <1>4 DEF IsStocked
<1>6. AreStripped(<<L>>)
  BY <1>2, <1>3, <1>4, <1>5 DEF AreStripped
<1>7. Contracts!HasOneRowPerKey(L)
  BY <1>2, <1>4 DEF Contracts!HasOneRowPerKey
<1> QED BY <1>6, <1>7 DEF L

\* A list of stripped rows is one of stocked rows.
LEMMA StrippedIsStocked ==
    ASSUME NEW v, AreStripped(v)
    PROVE  AreStocked(v) /\ DOMAIN v = 1 .. 1
<1>1. DOMAIN v = 1 .. 1
  BY DEF AreStripped
<1> QED BY <1>1 DEF AreStripped, AreStocked

\* Both have the same units for every size.
LEMMA ListHasTheUnits ==
    ASSUME NEW v, AreStocked(v)
    PROVE  Contracts!Units(<<OneList(v)>>) = Contracts!Units(v)
<1> DEFINE L == OneList(v)
           w == <<L>>
<1>1. AreStocked(w) /\ DOMAIN w = 1 .. 1 /\ w[1] = L /\ IsStocked(L)
  BY ListIsStripped, StrippedIsStocked DEF AreStripped
<1>2. \A r \in L : /\ r.size \in Contracts!Keys(v) /\ Contracts!Key(r.size) = r.size
                   /\ r.units = Contracts!Units(v)[r.size]
  BY KeysAreKeys DEF OneList
<1>3. ASSUME NEW k \in Contracts!Keys(v) PROVE \E r \in L : r.size = k
  <2>1. [size |-> k, units |-> Contracts!Units(v)[k]] \in L
    BY DEF OneList
  <2>2. [size |-> k, units |-> Contracts!Units(v)[k]].size = k
    OBVIOUS
  <2> HIDE DEF L
  <2> QED BY <2>1, <2>2
<1>4. \A r, q \in L : r.size = q.size => r = q
  BY <1>1 DEF IsStocked
<1> HIDE DEF L
<1>5. Contracts!Keys(w) = {Contracts!Key(r.size) : r \in L}
  <2> HIDE DEF w
  <2>1. Contracts!Range(w) = {L}
    BY <1>1 DEF Contracts!Range
  <2> QED BY <2>1 DEF Contracts!Keys
<1>6. Contracts!Keys(w) = Contracts!Keys(v)
  BY <1>2, <1>3, <1>5
<1> HIDE DEF w
<1>7. ASSUME NEW k \in Contracts!Keys(v)
      PROVE  Contracts!Units(w)[k] = Contracts!Units(v)[k]
  <2>1. PICK a \in L : a.size = k
    BY <1>3
  <2>2. {r \in L : Contracts!Key(r.size) = k} = {a}
    BY <1>2, <1>4, <2>1
  <2>3. Contracts!UnitsIn(L, k) = a.units
    BY <1>1, <2>2, UnitsOfKey
  <2>4. Contracts!Units(w)[k] = Contracts!UnitsIn(w[1], k)
    BY <1>1, <1>6, UnitsOfStores
  <2> QED BY <1>1, <1>2, <2>1, <2>3, <2>4
<1>8. /\ Contracts!Units(w) = [k \in Contracts!Keys(w) |-> Contracts!Units(w)[k]]
      /\ Contracts!Units(v) = [k \in Contracts!Keys(v) |-> Contracts!Units(v)[k]]
  BY DEF Contracts!Units
<1>9. Contracts!Units(w) = Contracts!Units(v)
  BY <1>6, <1>7, <1>8
<1> QED BY <1>9 DEF w, L
-----------------------------------------------------------------------------
(* The conversions *)

\* The v1 spelling of a list.
Respelled(rows) == {[size |-> IF r.size = "none" THEN "One_Size" ELSE r.size, units |-> r.units] : r \in rows}

\* A list with a v1 form keeps its keys and their units in it.
LEMMA RespelledKeepsUnits ==
    ASSUME NEW v, AreStripped(v), ~ {"none", "One_Size"} \subseteq Contracts!Sizes(v[1])
    PROVE  /\ Contracts!HasOneRowPerKey(v[1])
           /\ AreStocked(<<Respelled(v[1])>>)
           /\ Contracts!Units(<<Respelled(v[1])>>) = Contracts!Units(v)
<1> DEFINE L == v[1]
           R == Respelled(L)
           w == <<R>>
           Same(r) == [size |-> IF r.size = "none" THEN "One_Size" ELSE r.size, units |-> r.units]
<1>1. AreStocked(v) /\ DOMAIN v = 1 .. 1 /\ IsStocked(L)
  BY StrippedIsStocked DEF AreStripped
<1>2. ASSUME NEW a \in L, NEW b \in L, Contracts!Key(a.size) = Contracts!Key(b.size) PROVE a = b
  <2>1. Contracts!Trimmed(a.size) = Contracts!Trimmed(b.size)
        \/ {a.size, b.size} = {"none", "One_Size"}
    BY <1>2 DEF Contracts!Key, Contracts!Trimmed
  <2>2. {a.size, b.size} \subseteq Contracts!Sizes(L)
    BY DEF Contracts!Sizes
  <2> QED BY <2>1, <2>2 DEF AreStripped
<1>3. \A r \in L : Same(r).size \in {r.size, "One_Size"} /\ Same(r).units = r.units
                   /\ Contracts!Key(Same(r).size) = Contracts!Key(r.size)
  BY DEF Contracts!Key, Contracts!Trimmed
<1>4. /\ \A r \in L : Same(r) \in R
      /\ \A q \in R : \E r \in L : q = Same(r)
  BY DEF Respelled
<1>5. IsStocked(R)
  <2>1. \A q \in R : q = [size |-> q.size, units |-> q.units] /\ q.units \in Nat
    BY <1>1 DEF Respelled, IsStocked
  <2>2. ASSUME NEW p \in R, NEW q \in R, p.size = q.size PROVE p = q
    <3>1. PICK a \in L, b \in L : p = Same(a) /\ q = Same(b)
      BY <1>4
    <3> HIDE DEF Same, L, R
    <3>2. Contracts!Key(a.size) = Contracts!Key(b.size)
      BY <1>3, <2>2, <3>1
    <3> QED BY <1>2, <3>1, <3>2
  <2> QED BY <2>1, <2>2 DEF IsStocked
<1>6. w[1] = R /\ DOMAIN w = 1 .. 1
  OBVIOUS
<1> HIDE DEF w, R, L, Same
<1>7. AreStocked(w)
  BY <1>5, <1>6 DEF AreStocked
<1>8. Contracts!Keys(w) = {Contracts!Key(q.size) : q \in R} /\ Contracts!Keys(v) = {Contracts!Key(r.size) : r \in L}
  <2>1. Contracts!Range(w) = {R} /\ Contracts!Range(v) = {L}
    BY <1>1, <1>6 DEF Contracts!Range, L
  <2> QED BY <2>1 DEF Contracts!Keys
<1>9. Contracts!Keys(w) = Contracts!Keys(v)
  BY <1>3, <1>4, <1>8
<1>10. ASSUME NEW k \in Contracts!Keys(v) PROVE Contracts!Units(w)[k] = Contracts!Units(v)[k]
  <2>1. PICK a \in L : Contracts!Key(a.size) = k
    BY <1>8
  <2>2. {r \in L : Contracts!Key(r.size) = k} = {a}
    BY <1>2, <2>1
  <2>3. {q \in R : Contracts!Key(q.size) = k} = {Same(a)}
    BY <1>2, <1>3, <1>4, <2>1
  <2>4. Contracts!UnitsIn(L, k) = a.units
    BY <1>1, <2>2, UnitsOfKey
  <2>5. Contracts!UnitsIn(R, k) = Same(a).units
    BY <1>4, <1>5, <2>1, <2>3, UnitsOfKey
  <2>6. /\ Contracts!Units(w)[k] = Contracts!UnitsIn(R, k)
        /\ Contracts!Units(v)[k] = Contracts!UnitsIn(L, k)
    BY <1>1, <1>6, <1>7, <1>9, UnitsOfStores DEF L
  <2> QED BY <1>3, <2>1, <2>4, <2>5, <2>6
<1>11. Contracts!Units(w) = Contracts!Units(v)
  <2>1. /\ Contracts!Units(w) = [k \in Contracts!Keys(w) |-> Contracts!Units(w)[k]]
        /\ Contracts!Units(v) = [k \in Contracts!Keys(v) |-> Contracts!Units(v)[k]]
    BY DEF Contracts!Units
  <2> QED BY <1>9, <1>10, <2>1
<1>12. Contracts!HasOneRowPerKey(L)
  BY <1>2 DEF Contracts!HasOneRowPerKey
<1> QED BY <1>7, <1>11, <1>12 DEF w, R, L

\* The v2 form of rows and media, and what it is for a stored draft.
Form(schema, v, media) ==
    [schema |-> schema, variants |-> v, media |-> media, content |-> Blank, sources |-> {}, alt |-> {}]
ListsV2(s) == IF s.schema = 1 THEN <<OneList(s.variants)>> ELSE s.variants
ListsV1(s) == IF s.schema = 1 THEN s.variants ELSE <<Respelled(s.variants[1])>>

\* The v1 form in v2, and back.
LEMMA ConvertToV2 ==
    ASSUME NEW old, NEW v, NEW m
    PROVE  Contracts!V2FromV1(Form(old, v, m)) = Form(2, <<OneList(v)>>, m)
<1> DEFINE s == Form(old, v, m)
           w == <<OneList(v)>>
<1>1. s.variants = v
  BY DEF Form
<1>2. DOMAIN Contracts!Units(v) = Contracts!Keys(v)
  BY DEF Contracts!Units
<1> HIDE DEF s
<1>3. Contracts!V2FromV1(s) = [s EXCEPT !.schema = 2, !.variants = w]
  BY <1>1, <1>2 DEF Contracts!V2FromV1, OneList
<1> HIDE DEF w
<1>4. s = Form(old, v, m)
  BY DEF s
<1>5. Contracts!V2FromV1(s) = Form(2, w, m)
  BY <1>3, <1>4 DEF Form
<1> QED BY <1>5 DEF w, s

LEMMA ConvertToV1 ==
    ASSUME NEW v, NEW m, AreStripped(v)
    PROVE  Contracts!V1FromV2(Form(2, v, m)) = Form(1, <<Respelled(v[1])>>, m)
<1> DEFINE s == Form(2, v, m)
           Old(r) == [r EXCEPT !.size = IF @ = "none" THEN "One_Size" ELSE @]
           New(r) == [size |-> IF r.size = "none" THEN "One_Size" ELSE r.size, units |-> r.units]
           w == <<Respelled(v[1])>>
<1>1. \A r \in v[1] : r = [size |-> r.size, units |-> r.units]
  BY DEF AreStripped, IsStocked
<1>2. \A r \in v[1] : Old(r) = New(r)
  BY <1>1
<1>3. s.variants = v
  BY DEF Form
<1> HIDE DEF Old, New, s
<1>4. {Old(r) : r \in v[1]} = {New(r) : r \in v[1]}
  BY <1>2
<1>5. {Old(r) : r \in v[1]} = Respelled(v[1])
  BY <1>4 DEF Respelled, New
<1>6. Contracts!V1FromV2(s) = [s EXCEPT !.schema = 1, !.variants = w]
  BY <1>3, <1>5 DEF Contracts!V1FromV2, Old
<1> HIDE DEF w
<1>7. s = Form(2, v, m)
  BY DEF s
<1>8. Contracts!V1FromV2(s) = Form(1, w, m)
  BY <1>6, <1>7 DEF Form
<1> QED BY <1>8 DEF w, s

\* Each stored draft has a v2 form with its units; if it has a v1 form, so has that.
LEMMA SnapshotInV2 ==
    ASSUME NEW s, IsSnapshot(s)
    PROVE  /\ Contracts!V2FromSnapshot(s) = Form(2, ListsV2(s), s.media)
           /\ AreStripped(ListsV2(s))
           /\ Contracts!Units(ListsV2(s)) = Contracts!Units(s.variants)
<1>1. CASE s.schema = 1
  <2>1. s = Form(1, s.variants, s.media)
    BY <1>1 DEF IsSnapshot, Form
  <2>2. Contracts!V2FromV1(s) = Form(2, <<OneList(s.variants)>>, s.media)
    BY <2>1, ConvertToV2
  <2>3. AreStocked(s.variants)
    BY <1>1 DEF IsSnapshot
  <2> QED BY <1>1, <2>2, <2>3, ListIsStripped, ListHasTheUnits DEF Contracts!V2FromSnapshot, ListsV2
<1>2. CASE s.schema = 2
  BY <1>2 DEF IsSnapshot, Form, Contracts!V2FromSnapshot, ListsV2
<1>3. CASE s.schema = 3
  <2>1. /\ s = [schema |-> s.schema, variants |-> s.variants, media |-> s.media,
                content |-> s.content, sources |-> s.sources, alt |-> s.alt]
        /\ AreStripped(s.variants)
    BY <1>3 DEF IsSnapshot
  <2>2. Contracts!V2FromV3(s) =
           [s EXCEPT !.schema = 2, !.content = Blank, !.sources = {}, !.alt = {}]
    BY DEF Contracts!V2FromV3
  <2>3. Contracts!V2FromV3(s) = Form(2, s.variants, s.media)
    BY <2>1, <2>2 DEF Form
  <2> QED BY <1>3, <2>1, <2>3 DEF Contracts!V2FromSnapshot, ListsV2
<1> QED BY <1>1, <1>2, <1>3 DEF IsSnapshot

LEMMA SnapshotInV1 ==
    ASSUME NEW s, IsSnapshot(s), Contracts!HasV1Form(s)
    PROVE  /\ Contracts!V1FromSnapshot(s) = Form(1, ListsV1(s), s.media)
           /\ AreStocked(ListsV1(s))
           /\ Contracts!Units(ListsV1(s)) = Contracts!Units(s.variants)
<1>1. CASE s.schema = 1
  BY <1>1 DEF IsSnapshot, Form, Contracts!V1FromSnapshot, ListsV1
<1>2. CASE s.schema # 1
  <2>1. AreStripped(s.variants) /\ ListsV2(s) = s.variants
    BY <1>2 DEF IsSnapshot, ListsV2
  <2>2. Contracts!V2FromSnapshot(s) = Form(2, s.variants, s.media)
    BY <2>1, SnapshotInV2
  <2>4. Contracts!V1FromV2(Form(2, s.variants, s.media))
           = Form(1, <<Respelled(s.variants[1])>>, s.media)
    BY <2>1, ConvertToV1
  <2>5. ~ {"none", "One_Size"} \subseteq Contracts!Sizes(s.variants[1])
    BY <1>2 DEF Contracts!HasV1Form
  <2>6. /\ AreStocked(<<Respelled(s.variants[1])>>)
        /\ Contracts!Units(<<Respelled(s.variants[1])>>) = Contracts!Units(s.variants)
    BY <2>1, <2>5, RespelledKeepsUnits
  <2> QED BY <1>2, <2>2, <2>4, <2>6 DEF Contracts!V1FromSnapshot, ListsV1
<1> QED BY <1>1, <1>2
\* A v3 snapshot of lists, media and what only v3 has.
FormV3(v, media, x) ==
    [schema |-> 3, variants |-> v, media |-> media, content |-> x.content,
     sources |-> x.sources, alt |-> x.alt \cap DOMAIN media]

\* The v3 form of a v2 form.
LEMMA ConvertToV3 ==
    ASSUME NEW v, NEW m, NEW x
    PROVE  Contracts!V3FromV2(Form(2, v, m), x) = FormV3(v, m, x)
<1>1. Contracts!V3FromV2(Form(2, v, m), x)
        = [Form(2, v, m) EXCEPT !.schema = 3, !.content = x.content, !.sources = x.sources,
                                !.alt = x.alt \cap DOMAIN (Form(2, v, m).media)]
  BY DEF Contracts!V3FromV2
<1>2. Form(2, v, m).media = m
  BY DEF Form
<1> QED BY <1>1, <1>2 DEF Form, FormV3

\* The three forms are forms of a stored draft.
LEMMA FormIsSnapshot ==
    ASSUME NEW v, NEW m
    PROVE  /\ AreStocked(v) => IsSnapshot(Form(1, v, m))
           /\ AreStripped(v) => IsSnapshot(Form(2, v, m))
           /\ AreStripped(v) => \A x : IsSnapshot(FormV3(v, m, x))
<1>1. AreStocked(v) => IsSnapshot(Form(1, v, m))
  BY DEF IsSnapshot, Form
<1>2. AreStripped(v) => IsSnapshot(Form(2, v, m))
  BY DEF IsSnapshot, Form
<1>3. ASSUME AreStripped(v), NEW x PROVE IsSnapshot(FormV3(v, m, x))
  BY <1>3 DEF IsSnapshot, FormV3
<1> QED BY <1>1, <1>2, <1>3

\* The approvals that a write keeps are of the same media.
LEMMA PreservedMedia ==
    ASSUME NEW m PROVE DOMAIN Contracts!Preserved(m) = DOMAIN m
BY DEF Contracts!Preserved

\* A draft that has been written is whole.
LEMMA WrittenIsWhole ==
    ASSUME UNCHANGED product, NEW b \in Nat, product # None => b <= product.version,
           NEW p, IsSnapshot(p), NEW a,
           draft' = [base |-> b, approved |-> a, snapshot |-> p, unchanged |-> FALSE]
    PROVE  DraftIsWhole'
BY DEF DraftIsWhole

\* The version a write is based on.
LEMMA VersionIsNumber ==
    ASSUME ProductIsWhole
    PROVE  /\ Contracts!Version \in Nat
           /\ product # None => Contracts!Version = product.version /\ product.version \in Nat \ {0}
           /\ product = None => Contracts!Version = 0
BY DEF ProductIsWhole, Contracts!Version

\* What a client stores.
LEMMA StoreIsWhole ==
    ASSUME ProductIsWhole, DraftIsWhole, UNCHANGED product, NEW p, NEW a, Contracts!Store(p, a),
           \E v, m : \/ p = Form(1, v, m) /\ AreStocked(v)
                     \/ p = Form(2, v, m) /\ AreStripped(v)
                     \/ \E x : p = FormV3(v, m, x) /\ AreStripped(v)
    PROVE  DraftIsWhole'
<1> DEFINE kept == [p EXCEPT !.media = Contracts!Preserved(p.media)]
<1>1. IsSnapshot(p) /\ IsSnapshot(kept)
  <2>1. PICK v, m : \/ p = Form(1, v, m) /\ AreStocked(v)
                    \/ p = Form(2, v, m) /\ AreStripped(v)
                    \/ \E x : p = FormV3(v, m, x) /\ AreStripped(v)
    OBVIOUS
  <2>2. p.media = m
    BY <2>1 DEF Form, FormV3
  <2> DEFINE g == Contracts!Preserved(m)
  <2>3. DOMAIN g = DOMAIN m
    BY PreservedMedia
  <2> HIDE DEF g
  <2>4. CASE p = Form(1, v, m) /\ AreStocked(v)
    <3>1. kept = Form(1, v, g)
      BY <2>2, <2>4 DEF Form, g
    <3> QED BY <2>4, <3>1, FormIsSnapshot
  <2>5. CASE p = Form(2, v, m) /\ AreStripped(v)
    <3>1. kept = Form(2, v, g)
      BY <2>2, <2>5 DEF Form, g
    <3> QED BY <2>5, <3>1, FormIsSnapshot
  <2>6. CASE \E x : p = FormV3(v, m, x) /\ AreStripped(v)
    <3>1. PICK x : p = FormV3(v, m, x) /\ AreStripped(v)
      BY <2>6
    <3>2. kept = FormV3(v, g, x)
      BY <2>2, <2>3, <3>1 DEF FormV3, g
    <3> QED BY <3>1, <3>2, FormIsSnapshot
  <2> QED BY <2>1, <2>4, <2>5, <2>6
<1>2. \/ draft' = [base |-> Contracts!Version, approved |-> a, snapshot |-> p, unchanged |-> FALSE]
      \/ draft' = [base |-> Contracts!Version, approved |-> a, snapshot |-> kept, unchanged |-> FALSE]
  BY DEF Contracts!Store
<1> HIDE DEF kept
<1> QED BY <1>1, <1>2, VersionIsNumber, WrittenIsWhole
-----------------------------------------------------------------------------
(* Writes of a client *)

\* What may be sent is stocked, and what v2 accepts is stripped.
LEMMA SentIsStocked ==
    ASSUME NEW rows \in Inventories
    PROVE  /\ Contracts!IsRowsV1(rows) => IsStocked(rows)
           /\ Contracts!IsRowsV2(rows) => AreStripped(<<rows>>)
<1>1. \A r \in rows : r = [size |-> r.size, units |-> r.units] /\ r.units \in Nat
  BY ReportAssumption DEF Contracts!ContractAssumption
<1>2. Contracts!IsRowsV1(rows) => IsStocked(rows)
  BY <1>1 DEF IsStocked, Contracts!IsRowsV1
<1>3. Contracts!IsRowsV2(rows) => AreStripped(<<rows>>)
  <2>1. Contracts!IsRowsV2(rows) => /\ \A r, q \in rows : r.size = q.size => r = q
                                    /\ \A r, q \in rows : Contracts!Trimmed(r.size) = Contracts!Trimmed(q.size) => r = q
    BY DEF Contracts!IsRowsV2
  <2>2. <<rows>>[1] = rows
    OBVIOUS
  <2> QED BY <1>1, <2>1, <2>2 DEF IsStocked, AreStripped
<1> QED BY <1>2, <1>3

\* What a client sends in v1 or v2.
LEMMA AuthoredIsForm ==
    ASSUME NEW n, NEW v, NEW m PROVE Contracts!Authored(n, v, m) = Form(n, v, m)
BY DEF Contracts!Authored, Form

\* A write in any contract.
LEMMA WritesKeepDraft ==
    ASSUME ProductIsWhole, DraftIsWhole,
           Contracts!WriteV1 \/ Contracts!WriteV2 \/ Contracts!WriteV3
    PROVE  DraftIsWhole'
<1>0. UNCHANGED product
  BY DEF Contracts!WriteV1, Contracts!WriteV2, Contracts!WriteV3
<1>1. CASE Contracts!WriteV1
  <2>1. PICK rows \in [1 .. 2 -> Inventories] \cup [1 .. 1 -> Inventories], g \in Galleries, ok \in BOOLEAN :
           /\ \A i \in DOMAIN rows : Contracts!IsRowsV1(rows[i])
           /\ Contracts!Store(Contracts!Authored(1, rows, g), ok)
    BY <1>1 DEF Contracts!WriteV1
  <2>2. AreStocked(rows)
    BY <2>1, SentIsStocked DEF AreStocked
  <2> QED BY <1>0, <2>1, <2>2, AuthoredIsForm, StoreIsWhole
<1>2. CASE Contracts!WriteV2
  <2>1. PICK rows \in Inventories, g \in Galleries, ok \in BOOLEAN :
           Contracts!IsRowsV2(rows) /\ Contracts!Store(Contracts!Authored(2, <<rows>>, g), ok)
    BY <1>2 DEF Contracts!WriteV2
  <2> DEFINE v == <<rows>>
  <2>2. AreStripped(v)
    BY <2>1, SentIsStocked
  <2>3. Contracts!Store(Form(2, v, g), ok)
    BY <2>1, AuthoredIsForm
  <2> HIDE DEF v
  <2> QED BY <1>0, <2>2, <2>3, StoreIsWhole
<1>3. CASE Contracts!WriteV3
  <2>1. PICK rows \in Inventories, g \in Galleries, ok \in BOOLEAN, x \in Structured :
           Contracts!IsRowsV2(rows)
           /\ Contracts!Store(Contracts!V3FromV2(Contracts!Authored(2, <<rows>>, g), x), ok)
    BY <1>3 DEF Contracts!WriteV3
  <2> DEFINE v == <<rows>>
  <2>2. AreStripped(v)
    BY <2>1, SentIsStocked
  <2>3. Contracts!Store(FormV3(v, g, x), ok)
    BY <2>1, AuthoredIsForm, ConvertToV3
  <2> HIDE DEF v
  <2> QED BY <1>0, <2>2, <2>3, StoreIsWhole
<1> QED BY <1>1, <1>2, <1>3

\* The draft that is there, seen in parts.
LEMMA DraftInParts ==
    ASSUME DraftIsWhole, draft # None
    PROVE  /\ draft = [base |-> draft.base, approved |-> draft.approved,
                       snapshot |-> draft.snapshot, unchanged |-> draft.unchanged]
           /\ draft.base \in Nat /\ (product # None => draft.base <= product.version)
           /\ IsSnapshot(draft.snapshot)
BY DEF DraftIsWhole

\* A write of the gallery or of a source.
LEMMA WriteThroughKeepsDraft ==
    ASSUME ProductIsWhole, DraftIsWhole, Contracts!WriteThroughV2
    PROVE  DraftIsWhole'
<1> DEFINE s == draft.snapshot
           v == ListsV2(s)
<1>1. draft # None /\ UNCHANGED product
  BY DEF Contracts!WriteThroughV2
<1>2. IsSnapshot(s)
  BY <1>1, DraftInParts
<1>3. Contracts!V2FromSnapshot(s) = Form(2, v, s.media) /\ AreStripped(v)
  BY <1>2, SnapshotInV2
<1>4. PICK g \in Galleries :
        LET p == [Contracts!V2FromSnapshot(s) EXCEPT !.media = g]
        IN draft' = [draft EXCEPT
             !.unchanged = FALSE,
             !.snapshot = [(IF s.schema = 3 THEN Contracts!V3FromV2(p, s) ELSE p)
                             EXCEPT !.media = Contracts!Preserved(@)]]
  BY DEF Contracts!WriteThroughV2
<1> DEFINE p == [Contracts!V2FromSnapshot(s) EXCEPT !.media = g]
           q == IF s.schema = 3 THEN Contracts!V3FromV2(p, s) ELSE p
           h == Contracts!Preserved(g)
           new == [q EXCEPT !.media = Contracts!Preserved(q.media)]
<1>5. draft' = [draft EXCEPT !.unchanged = FALSE, !.snapshot = new]
  BY <1>4
<1>6. DOMAIN h = DOMAIN g
  BY PreservedMedia
<1> HIDE DEF v, h
<1>7. p = Form(2, v, g)
  BY <1>3 DEF Form
<1>8. IsSnapshot(new)
  <2>1. CASE s.schema = 3
    <3>1. q = FormV3(v, g, s)
      BY <1>7, <2>1, ConvertToV3
    <3> HIDE DEF q
    <3>2. q.media = g
      BY <3>1 DEF FormV3
    <3>3. new = FormV3(v, h, s)
      BY <1>6, <3>1, <3>2 DEF FormV3, h
    <3> HIDE DEF new
    <3> QED BY <1>3, <3>3, FormIsSnapshot
  <2>2. CASE s.schema # 3
    <3>1. q = Form(2, v, g)
      BY <1>7, <2>2
    <3> HIDE DEF q
    <3>2. q.media = g
      BY <3>1 DEF Form
    <3>3. new = Form(2, v, h)
      BY <3>1, <3>2 DEF Form, h
    <3> HIDE DEF new
    <3> QED BY <1>3, <3>3, FormIsSnapshot
  <2> QED BY <2>1, <2>2
<1> HIDE DEF new
<1>9. draft' = [base |-> draft.base, approved |-> draft.approved, snapshot |-> new, unchanged |-> FALSE]
  BY <1>1, <1>5, DraftInParts
<1> QED BY <1>1, <1>8, <1>9, DraftInParts, WrittenIsWhole

\* Other media for a stored draft: its lists are those of its v1 form.
NewMedia(s, g) ==
    CASE s.schema = 3 -> FormV3(<<OneList(ListsV1(s))>>, g, s)
      [] s.schema = 2 -> Form(2, <<OneList(ListsV1(s))>>, g)
      [] s.schema = 1 -> Form(1, ListsV1(s), g)

\* A change of the images, taken apart.
LEMMA ChangeInParts ==
    ASSUME DraftIsWhole, Contracts!ChangeMedia
    PROVE  /\ draft # None /\ UNCHANGED product
           /\ IsSnapshot(draft.snapshot) /\ Contracts!HasV1Form(draft.snapshot)
           /\ \E g : draft' = [base |-> draft.base, approved |-> draft.approved,
                               snapshot |-> NewMedia(draft.snapshot, g), unchanged |-> FALSE]
<1> DEFINE s == draft.snapshot
           v == ListsV1(s)
<1>1. draft # None /\ UNCHANGED product /\ Contracts!HasV1Form(s)
  BY DEF Contracts!ChangeMedia
<1>2. IsSnapshot(s)
  BY <1>1, DraftInParts
<1>3. Contracts!V1FromSnapshot(s) = Form(1, v, s.media)
  BY <1>1, <1>2, SnapshotInV1
<1>4. PICK g \in Galleries :
        draft' = [draft EXCEPT !.unchanged = FALSE,
                    !.snapshot = Contracts!SnapshotFromV1([Contracts!V1FromSnapshot(s) EXCEPT !.media = g], s)]
  BY DEF Contracts!ChangeMedia
<1> DEFINE p == [Contracts!V1FromSnapshot(s) EXCEPT !.media = g]
           new == Contracts!SnapshotFromV1(p, s)
<1>5. p = Form(1, v, g)
  <2> HIDE DEF v
  <2> QED BY <1>3 DEF Form
<1>6. Contracts!V2FromV1(Form(1, v, g)) = Form(2, <<OneList(v)>>, g)
  BY ConvertToV2
<1>7. s.schema \in 1 .. 3
  BY <1>2 DEF IsSnapshot
<1>8. new = NewMedia(s, g)
  <2> HIDE DEF v, p
  <2>1. CASE s.schema = 1
    BY <1>5, <2>1 DEF Contracts!SnapshotFromV1, NewMedia, v
  <2>2. CASE s.schema = 2
    BY <1>5, <1>6, <2>2 DEF Contracts!SnapshotFromV1, NewMedia, v
  <2>3. CASE s.schema = 3
    BY <1>5, <1>6, <2>3, ConvertToV3 DEF Contracts!SnapshotFromV1, NewMedia, v
  <2> QED BY <1>7, <2>1, <2>2, <2>3
<1>9. draft' = [draft EXCEPT !.unchanged = FALSE, !.snapshot = new]
  BY <1>4
<1> HIDE DEF new
<1>10. draft' = [base |-> draft.base, approved |-> draft.approved, snapshot |-> new, unchanged |-> FALSE]
  BY <1>1, <1>9, DraftInParts
<1> QED BY <1>1, <1>2, <1>8, <1>10

\* Its draft is whole.
LEMMA ChangeKeepsDraft ==
    ASSUME ProductIsWhole, DraftIsWhole, Contracts!ChangeMedia
    PROVE  DraftIsWhole'
<1> DEFINE s == draft.snapshot
           v == ListsV1(s)
<1>1. /\ draft # None /\ UNCHANGED product
      /\ IsSnapshot(s) /\ Contracts!HasV1Form(s)
  BY ChangeInParts
<1>2. PICK g : draft' = [base |-> draft.base, approved |-> draft.approved,
                         snapshot |-> NewMedia(s, g), unchanged |-> FALSE]
  BY ChangeInParts
<1>3. AreStocked(v) /\ AreStripped(<<OneList(v)>>)
  BY <1>1, SnapshotInV1, ListIsStripped
<1>4. s.schema \in 1 .. 3
  BY <1>1 DEF IsSnapshot
<1>5. IsSnapshot(NewMedia(s, g))
  <2> HIDE DEF s
  <2> QED BY <1>3, <1>4, FormIsSnapshot DEF NewMedia
<1> QED BY <1>1, <1>2, <1>5, DraftInParts, WrittenIsWhole

\* The media of a draft change, and nothing else.
LEMMA ChangeKeepsTheRest ==
    ASSUME DraftIsWhole PROVE Contracts!MediaKeepsTheRest
<1> SUFFICES ASSUME Contracts!ChangeMedia
             PROVE  LET old == draft.snapshot  new == draft'.snapshot
                    IN /\ Contracts!Units(new.variants) = Contracts!Units(old.variants)
                       /\ new.content = old.content /\ new.sources = old.sources
                       /\ new.alt = old.alt \cap DOMAIN new.media
  BY DEF Contracts!MediaKeepsTheRest
<1> DEFINE s == draft.snapshot
           v == ListsV1(s)
<1>1. IsSnapshot(s) /\ Contracts!HasV1Form(s)
  BY ChangeInParts
<1>2. PICK g : draft' = [base |-> draft.base, approved |-> draft.approved,
                         snapshot |-> NewMedia(s, g), unchanged |-> FALSE]
  BY ChangeInParts
<1>3. draft'.snapshot = NewMedia(s, g)
  BY <1>2
<1>4. AreStocked(v) /\ Contracts!Units(v) = Contracts!Units(s.variants)
  BY <1>1, SnapshotInV1
<1>5. Contracts!Units(<<OneList(v)>>) = Contracts!Units(s.variants)
  BY <1>4, ListHasTheUnits
<1>6. s.schema \in 1 .. 3 /\ (s.schema # 3 => s.content = Blank /\ s.sources = {} /\ s.alt = {})
  BY <1>1 DEF IsSnapshot
<1> HIDE DEF s
<1>7. LET new == NewMedia(s, g)
      IN /\ Contracts!Units(new.variants) = Contracts!Units(s.variants)
         /\ new.content = s.content /\ new.sources = s.sources
         /\ new.alt = s.alt \cap DOMAIN new.media
  <2>1. CASE s.schema = 1
    BY <1>4, <1>6, <2>1 DEF NewMedia, Form
  <2>2. CASE s.schema = 2
    BY <1>5, <1>6, <2>2 DEF NewMedia, Form
  <2>3. CASE s.schema = 3
    BY <1>5, <1>6, <2>3 DEF NewMedia, FormV3
  <2> QED BY <1>6, <2>1, <2>2, <2>3
<1> QED BY <1>3, <1>7 DEF s
-----------------------------------------------------------------------------
(* Publications and revisions *)

\* What a publication makes of the draft.
Published(s, version, v3) ==
    [version |-> version, v3 |-> v3, stores |-> ListsV1(s), rows |-> OneList(ListsV1(s)),
     media |-> DOMAIN s.media]

\* A publication, taken apart.
LEMMA PublishInParts ==
    ASSUME DraftIsWhole, Contracts!Publish
    PROVE  /\ draft # None /\ draft.base = Contracts!Version /\ draft' = None
           /\ IsSnapshot(draft.snapshot) /\ Contracts!HasV1Form(draft.snapshot)
           /\ product' = Published(draft.snapshot, Contracts!Version + 1,
                                   IF draft.snapshot.schema = 3
                                   THEN Contracts!V3Metadata(draft.snapshot) ELSE None)
<1> DEFINE s == draft.snapshot
           v == ListsV1(s)
           v3 == IF draft.snapshot.schema = 3 THEN Contracts!V3Metadata(draft.snapshot) ELSE None
<1>1. /\ draft # None /\ draft.base = Contracts!Version /\ draft' = None
      /\ Contracts!HasV1Form(s)
      /\ product' = Contracts!Applied(Contracts!V1FromSnapshot(s), Contracts!Version + 1, v3)
  BY DEF Contracts!Publish, Contracts!LatestIsV3
<1>2. IsSnapshot(s)
  BY <1>1, DraftInParts
<1>3. Contracts!V1FromSnapshot(s) = Form(1, v, s.media)
  BY <1>1, <1>2, SnapshotInV1
<1>4. Contracts!V2FromV1(Form(1, v, s.media)) = Form(2, <<OneList(v)>>, s.media)
  BY ConvertToV2
<1> HIDE DEF v3, v
<1>5. /\ Form(1, v, s.media).variants = v /\ Form(1, v, s.media).media = s.media
      /\ Form(2, <<OneList(v)>>, s.media).variants[1] = OneList(v)
  BY DEF Form
<1>6. Contracts!Applied(Form(1, v, s.media), Contracts!Version + 1, v3)
        = Published(s, Contracts!Version + 1, v3)
  BY <1>4, <1>5 DEF Contracts!Applied, Published, v
<1>7. product' = Published(s, Contracts!Version + 1, v3)
  BY <1>1, <1>3, <1>6
<1> QED BY <1>1, <1>2, <1>7 DEF v3

\* Its product is whole: the list it makes has the units of the stores.
LEMMA PublishedIsWhole ==
    ASSUME NEW s, IsSnapshot(s), Contracts!HasV1Form(s), NEW n \in Nat, NEW v3,
           product' = Published(s, n + 1, v3),
           v3 # None => s.schema = 3 /\ v3 = Contracts!V3Metadata(s)
    PROVE  ProductIsWhole'
<1> DEFINE v == ListsV1(s)
           L == OneList(v)
<1>1. AreStocked(v)
  BY SnapshotInV1
<1>2. AreStripped(<<L>>) /\ Contracts!HasOneRowPerKey(L)
  BY <1>1, ListIsStripped
<1>3. IsStocked(L)
  <2> HIDE DEF L
  <2>1. <<L>>[1] = L
    OBVIOUS
  <2> QED BY <1>2, <2>1 DEF AreStripped
<1>4. Contracts!Units(<<L>>) = Contracts!Units(v)
  BY <1>1, ListHasTheUnits
<1>5. s.alt \subseteq DOMAIN s.media
  BY DEF IsSnapshot
<1>6. v3 # None => v3 = [content |-> v3.content, alt |-> v3.alt] /\ v3.alt \subseteq DOMAIN s.media
  BY <1>5 DEF Contracts!V3Metadata
<1>7. product' = [version |-> n + 1, v3 |-> v3, stores |-> v, rows |-> L, media |-> DOMAIN s.media]
  BY DEF Published
<1> HIDE DEF v, L
<1>8. Contracts!TablesAgree'
  BY <1>4, <1>7 DEF Contracts!TablesAgree
<1>9. /\ product'.version = n + 1 /\ product'.v3 = v3 /\ product'.stores = v
      /\ product'.rows = L /\ product'.media = DOMAIN s.media
  BY <1>7
<1> QED BY <1>1, <1>2, <1>3, <1>6, <1>7, <1>8, <1>9 DEF ProductIsWhole

\* A publication leaves a product and no draft.
LEMMA PublishKeepsContracts ==
    ASSUME ProductIsWhole, DraftIsWhole, Contracts!Publish
    PROVE  ProductIsWhole' /\ DraftIsWhole'
<1> DEFINE v3 == IF draft.snapshot.schema = 3
                 THEN Contracts!V3Metadata(draft.snapshot) ELSE None
<1>1. /\ draft' = None /\ IsSnapshot(draft.snapshot) /\ Contracts!HasV1Form(draft.snapshot)
      /\ product' = Published(draft.snapshot, Contracts!Version + 1, v3)
  BY PublishInParts
<1>2. v3 # None => draft.snapshot.schema = 3 /\ v3 = Contracts!V3Metadata(draft.snapshot)
  OBVIOUS
<1> HIDE DEF v3
<1>3. ProductIsWhole'
  BY <1>1, <1>2, VersionIsNumber, PublishedIsWhole
<1>4. DraftIsWhole'
  BY <1>1 DEF DraftIsWhole
<1> QED BY <1>3, <1>4

\* An archived product is a newer version, of which no draft is.
LEMMA ArchiveKeepsContracts ==
    ASSUME ProductIsWhole, DraftIsWhole, Contracts!Archive
    PROVE  ProductIsWhole' /\ DraftIsWhole'
<1>1. /\ product # None /\ draft' = draft
      /\ product' = [product EXCEPT !.version = @ + 1]
  BY DEF Contracts!Archive
<1>2. /\ product = [version |-> product.version, v3 |-> product.v3, stores |-> product.stores,
                    rows |-> product.rows, media |-> product.media]
      /\ product.version \in Nat \ {0}
  BY <1>1 DEF ProductIsWhole
<1>3. product' = [version |-> product.version + 1, v3 |-> product.v3, stores |-> product.stores,
                  rows |-> product.rows, media |-> product.media]
  BY <1>1, <1>2
<1>4. /\ product'.version = product.version + 1 /\ product'.v3 = product.v3
      /\ product'.stores = product.stores /\ product'.rows = product.rows
      /\ product'.media = product.media
  BY <1>3
<1>5. ProductIsWhole'
  BY <1>1, <1>2, <1>3, <1>4 DEF ProductIsWhole, Contracts!TablesAgree
<1>6. CASE draft = None
  BY <1>1, <1>5, <1>6 DEF DraftIsWhole
<1>7. CASE draft # None
  <2>1. draft.base \in Nat /\ draft.base <= product.version
    BY <1>1, <1>7, DraftInParts
  <2>2. draft.unchanged => draft.base # 0
    BY <1>7 DEF DraftIsWhole
  <2>3. draft.unchanged => draft.base # Contracts!Version'
    BY <1>2, <1>4, <2>1, <2>2 DEF Contracts!Version
  <2>4. draft.base <= product'.version
    BY <1>2, <1>4, <2>1
  <2>5. DraftIsWhole'
    BY <1>1, <1>7, <2>2, <2>3, <2>4, DraftInParts DEF DraftIsWhole
  <2> QED BY <1>5, <2>5
<1> QED BY <1>5, <1>6, <1>7

\* What a revision starts from, in each contract.
LEMMA PublishedSnapshots ==
    ASSUME ProductIsWhole, product # None
    PROVE  /\ Contracts!PublishedV1 = Form(1, product.stores, Contracts!PublishedMedia)
           /\ Contracts!PublishedV2 = Form(2, <<product.rows>>, Contracts!PublishedMedia)
           /\ Contracts!PublishedV3 =
                FormV3(<<product.rows>>, Contracts!PublishedMedia,
                       IF product.v3 = None THEN [content |-> Blank, sources |-> {}, alt |-> {}]
                       ELSE [content |-> product.v3.content, sources |-> {}, alt |-> product.v3.alt])
           /\ AreStocked(product.stores) /\ AreStripped(<<product.rows>>)
           /\ DOMAIN Contracts!PublishedMedia = product.media
<1> DEFINE v == <<product.rows>>
           m == Contracts!PublishedMedia
<1>1. DOMAIN m = product.media
  BY DEF Contracts!PublishedMedia
<1>2. /\ Contracts!PublishedV1 = Form(1, product.stores, m)
      /\ Contracts!PublishedV2 = Form(2, v, m)
  BY AuthoredIsForm DEF Contracts!PublishedV1, Contracts!PublishedV2
<1>3. AreStocked(product.stores) /\ IsStocked(product.rows)
      /\ Contracts!HasOneRowPerKey(product.rows)
  BY DEF ProductIsWhole
<1>4. AreStripped(v)
  <2>1. \A r, q \in product.rows :
           Contracts!Trimmed(r.size) = Contracts!Trimmed(q.size) => r = q
    BY <1>3 DEF Contracts!HasOneRowPerKey, Contracts!Key, Contracts!Trimmed
  <2>2. v[1] = product.rows
    OBVIOUS
  <2> QED BY <1>3, <2>1, <2>2 DEF AreStripped
<1> HIDE DEF v, m
<1> DEFINE base3 == FormV3(v, m, Form(2, v, m))
<1>5. Contracts!PublishedV3 =
        IF product.v3 = None THEN base3
        ELSE [base3 EXCEPT !.content = product.v3.content, !.alt = product.v3.alt \cap product.media]
  BY <1>2, ConvertToV3 DEF Contracts!PublishedV3
<1>6. base3 = [schema |-> 3, variants |-> v, media |-> m, content |-> Blank,
               sources |-> {}, alt |-> {}]
  BY DEF FormV3, Form
<1> HIDE DEF base3
<1>7. CASE product.v3 = None
  <2>1. Contracts!PublishedV3 = FormV3(v, m, [content |-> Blank, sources |-> {}, alt |-> {}])
    BY <1>5, <1>6, <1>7 DEF FormV3
  <2> QED BY <1>1, <1>2, <1>3, <1>4, <1>7, <2>1 DEF v, m
<1>8. CASE product.v3 # None
  <2>1. Contracts!PublishedV3
          = [base3 EXCEPT !.content = product.v3.content, !.alt = product.v3.alt \cap product.media]
    BY <1>5, <1>8
  <2>2. Contracts!PublishedV3 = [schema |-> 3, variants |-> v, media |-> m,
           content |-> product.v3.content, sources |-> {}, alt |-> product.v3.alt \cap product.media]
    BY <1>6, <2>1
  <2>3. Contracts!PublishedV3
          = FormV3(v, m, [content |-> product.v3.content, sources |-> {}, alt |-> product.v3.alt])
    BY <1>1, <2>2 DEF FormV3
  <2> QED BY <1>1, <1>2, <1>3, <1>4, <1>8, <2>3 DEF v, m
<1> QED BY <1>7, <1>8

\* A revision is what the product shows.
LEMMA RevisionKeepsDraft ==
    ASSUME ProductIsWhole, NEW p, Contracts!Revise(p), IsRevision(p)
    PROVE  DraftIsWhole'
<1>1. /\ product # None /\ UNCHANGED product
      /\ draft' = [base |-> Contracts!Version, approved |-> TRUE, snapshot |-> p, unchanged |-> TRUE]
  BY DEF Contracts!Revise
<1>2. IsSnapshot(p)
  BY <1>1, PublishedSnapshots, FormIsSnapshot DEF IsRevision
<1>3. IsRevision(p)' /\ Contracts!Version' = Contracts!Version
  BY <1>1 DEF IsRevision, Contracts!IsOwnedByV3, Contracts!PublishedV1, Contracts!PublishedV2,
     Contracts!PublishedV3, Contracts!PublishedMedia, Contracts!Version
<1> QED BY <1>1, <1>2, <1>3, VersionIsNumber DEF DraftIsWhole

\* A revision published as it was started.
LEMMA RevisionKeepsProduct ==
    ASSUME ProductIsWhole, DraftIsWhole PROVE Contracts!RevisionKeepsProduct
<1> SUFFICES ASSUME Contracts!Publish, draft.unchanged
             PROVE  /\ Contracts!Units(product'.stores) = Contracts!Units(product.stores)
                    /\ product'.media = product.media
                    /\ product.v3 # None => product'.v3 = product.v3
  BY DEF Contracts!RevisionKeepsProduct
<1> DEFINE s == draft.snapshot
           v3 == IF s.schema = 3 THEN Contracts!V3Metadata(s) ELSE None
<1>1. /\ draft # None /\ draft.base = Contracts!Version
      /\ IsSnapshot(s) /\ Contracts!HasV1Form(s)
      /\ product' = Published(s, Contracts!Version + 1, v3)
  BY PublishInParts
<1>2. draft.base # 0 /\ IsRevision(s)
  BY <1>1 DEF DraftIsWhole
<1>3. product # None
  BY <1>1, <1>2 DEF Contracts!Version
<1>4. /\ product.v3 # None => /\ product.v3 = [content |-> product.v3.content, alt |-> product.v3.alt]
                              /\ product.v3.alt \subseteq product.media
      /\ Contracts!Units(product.stores) = Contracts!Units(<<product.rows>>)
  BY <1>3 DEF ProductIsWhole, Contracts!TablesAgree
<1>5. /\ s.variants = product.stores \/ s.variants = <<product.rows>>
      /\ DOMAIN s.media = product.media
      /\ product.v3 # None => /\ s.schema = 3 /\ s.content = product.v3.content
                              /\ s.alt = product.v3.alt \cap product.media
  BY <1>2, <1>3, PublishedSnapshots DEF IsRevision, Contracts!IsOwnedByV3, Form, FormV3
<1>6. /\ product'.stores = ListsV1(s) /\ product'.media = DOMAIN s.media /\ product'.v3 = v3
  BY <1>1 DEF Published
<1>7. Contracts!Units(ListsV1(s)) = Contracts!Units(s.variants)
  BY <1>1, SnapshotInV1
<1>8. product.v3 # None => v3 = product.v3
  BY <1>4, <1>5 DEF Contracts!V3Metadata
<1> HIDE DEF v3, s
<1> QED BY <1>4, <1>5, <1>6, <1>7, <1>8

\* Every step of the contracts keeps both.
LEMMA NextContracts ==
    ContractsInv /\ [Contracts!Next]_(Contracts!vars) => ContractsInv'
<1> SUFFICES ASSUME ProductIsWhole, DraftIsWhole, [Contracts!Next]_(Contracts!vars)
             PROVE  ProductIsWhole' /\ DraftIsWhole'
  BY DEF ContractsInv
<1>1. ASSUME UNCHANGED product PROVE ProductIsWhole'
  BY <1>1 DEF ProductIsWhole, Contracts!TablesAgree
<1>2. CASE Contracts!WriteV1 \/ Contracts!WriteV2 \/ Contracts!WriteV3
  BY <1>1, <1>2, WritesKeepDraft DEF Contracts!WriteV1, Contracts!WriteV2, Contracts!WriteV3
<1>3. CASE Contracts!WriteThroughV2
  BY <1>1, <1>3, WriteThroughKeepsDraft DEF Contracts!WriteThroughV2
<1>4. CASE Contracts!ChangeMedia
  BY <1>1, <1>4, ChangeKeepsDraft DEF Contracts!ChangeMedia
<1>5. CASE Contracts!Publish
  BY <1>5, PublishKeepsContracts
<1>6. CASE Contracts!Archive
  BY <1>6, ArchiveKeepsContracts
<1>7. ASSUME NEW p, Contracts!Revise(p), IsRevision(p) PROVE ProductIsWhole' /\ DraftIsWhole'
  BY <1>1, <1>7, RevisionKeepsDraft DEF Contracts!Revise
<1>8. CASE Contracts!StartRevisionV1 \/ Contracts!StartRevisionV2 \/ Contracts!StartRevisionV3
  BY <1>7, <1>8 DEF Contracts!StartRevisionV1, Contracts!StartRevisionV2,
     Contracts!StartRevisionV3, IsRevision
<1>9. CASE UNCHANGED Contracts!vars
  BY <1>9 DEF Contracts!vars, ProductIsWhole, DraftIsWhole, Contracts!TablesAgree, IsRevision,
     Contracts!IsOwnedByV3, Contracts!PublishedV1, Contracts!PublishedV2, Contracts!PublishedV3,
     Contracts!PublishedMedia, Contracts!Version
<1> QED
  BY <1>2, <1>3, <1>4, <1>5, <1>6, <1>8, <1>9 DEF Contracts!Next

\* For any rows, galleries and contents, in whatever contract each draft is written: the
\* two inventories of a product give the same units, a change of the images loses nothing
\* else, and a revision published as it was started leaves the product as it was.
THEOREM ContractsStayInStep == Spec => ContractsAgree
<1> DEFINE Inv == part = "contracts" => ContractsInv
<1>1. Init => Inv
  BY PartInit DEF Contracts!Init, ContractsInv, ProductIsWhole, DraftIsWhole
<1>2. Inv /\ [Next]_vars => Inv'
  BY PartStep, NextContracts
<1>3. Inv /\ Inv' /\ [Next]_vars
        => [part = "contracts" => /\ Contracts!TablesAgree' /\ Contracts!MediaKeepsTheRest
                                  /\ Contracts!RevisionKeepsProduct]_vars
  <2> SUFFICES ASSUME Inv, Inv', [Next]_vars, part = "contracts"
               PROVE  /\ Contracts!TablesAgree' /\ Contracts!MediaKeepsTheRest
                      /\ Contracts!RevisionKeepsProduct
    OBVIOUS
  <2>1. ContractsInv /\ ContractsInv'
    BY PartStep
  <2>2. Contracts!TablesAgree'
    BY <2>1 DEF ContractsInv, ProductIsWhole, Contracts!TablesAgree
  <2> QED BY <2>1, <2>2, ChangeKeepsTheRest, RevisionKeepsProduct DEF ContractsInv
<1> QED BY <1>1, <1>2, <1>3, PTL DEF Spec, ContractsAgree
-----------------------------------------------------------------------------
(* Sums over a finite set *)

\* Of sets of subsets of a finite set one is smallest: the provers' induction.
LEMMA SmallestSubset ==
    ASSUME NEW S, Backfill!IsFiniteSet(S), NEW T, T \subseteq SUBSET S, T # {}
    PROVE  \E s \in T : \A t \in T : t \subseteq s => t = s
<1>1. FiniteSubsetsOf(S) = SUBSET S
  BY FS_FiniteSubsetsOfFinite DEF Backfill!IsFiniteSet, IsFiniteSet
<1>2. PICK s \in T : \A t \in T : ~ (<<t, s>> \in StrictSubsetOrdering(S))
  BY <1>1, FS_StrictSubsetOrderingWellFounded, WFMin
<1> QED BY <1>2 DEF StrictSubsetOrdering

LEMMA SubsetIsFinite ==
    ASSUME NEW S, Backfill!IsFiniteSet(S), NEW T \in SUBSET S
    PROVE  Backfill!IsFiniteSet(T)
BY FS_Subset DEF Backfill!IsFiniteSet, IsFiniteSet

\* The recursion of a sum, over the subsets of S.
Rest(s) == s \ {CHOOSE x \in s : TRUE}
Summed(S, h) ==
    [s \in SUBSET S |-> IF s = {} THEN 0 ELSE (CHOOSE x \in s : TRUE).qty + h[Rest(s)]]
Sum(S) == CHOOSE h : h = Summed(S, h)

LEMMA UnitsAreSum == ASSUME NEW S PROVE Backfill!Units(S) = Sum(S)[S]
BY DEF Backfill!Units, Backfill!MapThenSumSet, Backfill!MapThenFoldSet, Sum, Summed, Rest

LEMMA RestIsSmaller ==
    ASSUME NEW S, NEW s \in SUBSET S, s # {}
    PROVE  Rest(s) \in SUBSET S /\ Rest(s) \subseteq s /\ Rest(s) # s
BY DEF Rest

\* Two solutions of the recursion agree.
LEMMA SumsAgree ==
    ASSUME NEW S, NEW R, Backfill!IsFiniteSet(S), NEW g, NEW h, S \subseteq R,
           g = Summed(S, g), h = Summed(R, h)
    PROVE  \A s \in SUBSET S : g[s] = h[s]
<1> DEFINE T == {s \in SUBSET S : g[s] # h[s]}
<1>1. SUFFICES ASSUME T # {} PROVE FALSE
  OBVIOUS
<1>2. PICK s \in T : \A t \in T : t \subseteq s => t = s
  <2>1. T \subseteq SUBSET S
    OBVIOUS
  <2> HIDE DEF T
  <2> QED BY <1>1, <2>1, SmallestSubset
<1>3. s \in SUBSET S /\ s \in SUBSET R
  OBVIOUS
<1>4. CASE s = {}
  <2>1. g[s] = 0 /\ h[s] = 0
    BY <1>3, <1>4 DEF Summed
  <2> QED BY <2>1
<1>5. CASE s # {}
  <2>1. /\ g[s] = (CHOOSE x \in s : TRUE).qty + g[Rest(s)]
        /\ h[s] = (CHOOSE x \in s : TRUE).qty + h[Rest(s)]
    BY <1>3, <1>5 DEF Summed
  <2>2. g[Rest(s)] = h[Rest(s)]
    BY <1>2, <1>3, <1>5, RestIsSmaller
  <2> QED BY <2>1, <2>2
<1> QED BY <1>4, <1>5

\* The recursion has a solution over every finite set.
LEMMA SumExists ==
    ASSUME NEW S, Backfill!IsFiniteSet(S)
    PROVE  Sum(S) = Summed(S, Sum(S))
<1> DEFINE T == {s \in SUBSET S : Sum(s) # Summed(s, Sum(s))}
<1>1. SUFFICES ASSUME T # {} PROVE FALSE
  OBVIOUS
<1>2. PICK s \in T : \A t \in T : t \subseteq s => t = s
  <2>1. T \subseteq SUBSET S
    OBVIOUS
  <2> HIDE DEF T
  <2> QED BY <1>1, <2>1, SmallestSubset
<1>3. \A t \in SUBSET s : t # s => Sum(t) = Summed(t, Sum(t)) /\ Backfill!IsFiniteSet(t)
  BY <1>2, SubsetIsFinite
<1> DEFINE g == [t \in SUBSET s |-> IF t # s THEN Sum(t)[t] ELSE IF s = {} THEN 0
                                    ELSE (CHOOSE x \in s : TRUE).qty + Sum(Rest(s))[Rest(s)]]
<1>4. ASSUME NEW t \in SUBSET s PROVE g[t] = Summed(s, g)[t]
  <2>1. CASE t = {}
    <3>1. t # s => Sum(t)[t] = 0
      BY <1>3, <2>1 DEF Summed
    <3> QED BY <2>1, <3>1 DEF Summed
  <2>2. CASE t # {} /\ t = s
    <3>1. Rest(s) \in SUBSET s /\ Rest(s) # s
      BY <2>2, RestIsSmaller
    <3>2. g[Rest(s)] = Sum(Rest(s))[Rest(s)]
      BY <3>1
    <3>3. g[s] = (CHOOSE x \in s : TRUE).qty + g[Rest(s)]
      BY <2>2, <3>2
    <3>4. Summed(s, g)[s] = (CHOOSE x \in s : TRUE).qty + g[Rest(s)]
      BY <2>2 DEF Summed
    <3> QED BY <2>2, <3>3, <3>4
  <2>3. CASE t # {} /\ t # s
    <3>1. Rest(t) \in SUBSET s /\ Rest(t) # s /\ Rest(t) \in SUBSET t
      BY <2>3, RestIsSmaller
    <3>2. g[t] = Sum(t)[t] /\ g[Rest(t)] = Sum(Rest(t))[Rest(t)]
      BY <2>3, <3>1
    <3>3. Sum(t)[t] = (CHOOSE x \in t : TRUE).qty + Sum(t)[Rest(t)]
      BY <1>3, <2>3 DEF Summed
    <3>4. Sum(Rest(t))[Rest(t)] = Sum(t)[Rest(t)]
      <4>1. /\ Backfill!IsFiniteSet(Rest(t)) /\ Rest(t) \subseteq t
            /\ Sum(Rest(t)) = Summed(Rest(t), Sum(Rest(t))) /\ Sum(t) = Summed(t, Sum(t))
        BY <1>3, <2>3, <3>1
      <4>2. \A u \in SUBSET Rest(t) : Sum(Rest(t))[u] = Sum(t)[u]
        BY <4>1, SumsAgree
      <4> QED BY <4>2
    <3>5. Summed(s, g)[t] = (CHOOSE x \in t : TRUE).qty + g[Rest(t)]
      BY <2>3 DEF Summed
    <3> QED BY <3>2, <3>3, <3>4, <3>5
  <2> QED BY <2>1, <2>2, <2>3
<1>5. g = Summed(s, g)
  <2>1. g = [t \in SUBSET s |-> g[t]] /\ Summed(s, g) = [t \in SUBSET s |-> Summed(s, g)[t]]
    BY DEF Summed
  <2> HIDE DEF g
  <2> QED BY <1>4, <2>1
<1> HIDE DEF g
<1>6. Sum(s) = Summed(s, Sum(s))
  BY <1>5 DEF Sum
<1> QED BY <1>6

\* No units in the empty set, and those of the rest and of the chosen row in another.
LEMMA UnitsOfChosen ==
    ASSUME NEW S, Backfill!IsFiniteSet(S)
    PROVE  /\ S = {} => Backfill!Units(S) = 0
           /\ S # {} => Backfill!Units(S)
                          = (CHOOSE x \in S : TRUE).qty + Backfill!Units(Rest(S))
<1>1. Backfill!Units(S) = Summed(S, Sum(S))[S]
  BY UnitsAreSum, SumExists
<1>2. CASE S # {}
  <2>1. Rest(S) \in SUBSET S /\ Backfill!IsFiniteSet(Rest(S))
    BY <1>2, RestIsSmaller, SubsetIsFinite
  <2>2. Sum(Rest(S))[Rest(S)] = Sum(S)[Rest(S)]
    BY <2>1, SumExists, SumsAgree
  <2> QED BY <1>1, <1>2, <2>2, UnitsAreSum DEF Summed
<1> QED BY <1>1, <1>2 DEF Summed
\* Every row of S counts.
AreCounted(S) == Backfill!IsFiniteSet(S) /\ \A r \in S : r.qty \in Nat

LEMMA PartIsCounted ==
    ASSUME NEW S, AreCounted(S), NEW T \in SUBSET S
    PROVE  AreCounted(T)
BY SubsetIsFinite DEF AreCounted

\* Every row of S has a number to add.
AreNumbers(S) == Backfill!IsFiniteSet(S) /\ \A r \in S : r.qty \in Int

LEMMA PartIsNumbers ==
    ASSUME NEW S, AreNumbers(S), NEW T \in SUBSET S
    PROVE  AreNumbers(T)
BY SubsetIsFinite DEF AreNumbers

LEMMA CountedIsNumbers == ASSUME NEW S, AreCounted(S) PROVE AreNumbers(S)
BY DEF AreCounted, AreNumbers

LEMMA UnitsAreNat ==
    ASSUME NEW S, AreCounted(S)
    PROVE  Backfill!Units(S) \in Nat
<1> DEFINE T == {s \in SUBSET S : Backfill!Units(s) \notin Nat}
<1>1. SUFFICES ASSUME T # {} PROVE FALSE
  OBVIOUS
<1>2. PICK s \in T : \A t \in T : t \subseteq s => t = s
  <2>1. T \subseteq SUBSET S
    OBVIOUS
  <2> HIDE DEF T
  <2> QED BY <1>1, <2>1, SmallestSubset DEF AreCounted
<1>3. AreCounted(s)
  BY PartIsCounted
<1>4. s # {}
  BY <1>3, UnitsOfChosen DEF AreCounted
<1>5. Rest(s) \in SUBSET S /\ Backfill!Units(Rest(s)) \in Nat
  BY <1>2, <1>4, RestIsSmaller
<1>6. (CHOOSE x \in s : TRUE) \in s
  BY <1>4
<1> QED BY <1>3, <1>4, <1>5, <1>6, UnitsOfChosen DEF AreCounted

LEMMA UnitsAreInt ==
    ASSUME NEW S, AreNumbers(S)
    PROVE  Backfill!Units(S) \in Int
<1> DEFINE T == {s \in SUBSET S : Backfill!Units(s) \notin Int}
<1>1. SUFFICES ASSUME T # {} PROVE FALSE
  OBVIOUS
<1>2. PICK s \in T : \A t \in T : t \subseteq s => t = s
  <2>1. T \subseteq SUBSET S
    OBVIOUS
  <2> HIDE DEF T
  <2> QED BY <1>1, <2>1, SmallestSubset DEF AreNumbers
<1>3. AreNumbers(s)
  BY PartIsNumbers
<1>4. s # {}
  BY <1>3, UnitsOfChosen DEF AreNumbers
<1>5. Rest(s) \in SUBSET S /\ Backfill!Units(Rest(s)) \in Int
  BY <1>2, <1>4, RestIsSmaller
<1>6. (CHOOSE x \in s : TRUE) \in s
  BY <1>4
<1> QED BY <1>3, <1>4, <1>5, <1>6, UnitsOfChosen DEF AreNumbers

\* The order does not matter: any row can be taken out.
LEMMA UnitsWithout ==
    ASSUME NEW S, AreNumbers(S), NEW r \in S
    PROVE  Backfill!Units(S) = r.qty + Backfill!Units(S \ {r})
<1> DEFINE T == {s \in SUBSET S : \E q \in s : Backfill!Units(s) # q.qty + Backfill!Units(s \ {q})}
<1>1. SUFFICES ASSUME T # {} PROVE FALSE
  BY S \in SUBSET S
<1>2. PICK s \in T : \A t \in T : t \subseteq s => t = s
  <2>1. T \subseteq SUBSET S
    OBVIOUS
  <2> HIDE DEF T
  <2> QED BY <1>1, <2>1, SmallestSubset DEF AreNumbers
<1>3. PICK q \in s : Backfill!Units(s) # q.qty + Backfill!Units(s \ {q})
  OBVIOUS
<1> DEFINE c == CHOOSE x \in s : TRUE
<1>4. c \in s /\ AreNumbers(s) /\ s # {} /\ Rest(s) = s \ {c}
  BY PartIsNumbers DEF Rest
<1> HIDE DEF c
<1>5. Backfill!Units(s) = c.qty + Backfill!Units(s \ {c})
  BY <1>4, UnitsOfChosen DEF AreNumbers, c
<1>6. q # c
  BY <1>3, <1>5
<1>7. /\ s \ {c} \in SUBSET S /\ s \ {c} # s /\ q \in s \ {c}
      /\ s \ {q} \in SUBSET S /\ s \ {q} # s /\ c \in s \ {q}
      /\ (s \ {c}) \ {q} = (s \ {q}) \ {c}
  BY <1>4, <1>6
<1>8. /\ Backfill!Units(s \ {c}) = q.qty + Backfill!Units((s \ {c}) \ {q})
      /\ Backfill!Units(s \ {q}) = c.qty + Backfill!Units((s \ {q}) \ {c})
  BY <1>2, <1>7
<1>9. c.qty \in Int /\ q.qty \in Int /\ Backfill!Units((s \ {c}) \ {q}) \in Int
  <2>1. AreNumbers((s \ {c}) \ {q})
    BY <1>7, PartIsNumbers
  <2> QED BY <1>4, <2>1, UnitsAreInt DEF AreNumbers
<1> DEFINE n == Backfill!Units((s \ {c}) \ {q})
<1>10. /\ Backfill!Units(s) = c.qty + (q.qty + n)
       /\ Backfill!Units(s \ {q}) = c.qty + n
  BY <1>5, <1>7, <1>8
<1> HIDE DEF n, T
<1> QED BY <1>3, <1>9, <1>10 DEF n

\* Rows without units have none together, and one with units is enough.
LEMMA UnitsArePositive ==
    ASSUME NEW S, AreCounted(S)
    PROVE  Backfill!Units(S) > 0 <=> \E r \in S : r.qty > 0
<1>1. ASSUME NEW r \in S, r.qty > 0 PROVE Backfill!Units(S) > 0
  <2>1. AreCounted(S \ {r})
    BY PartIsCounted
  <2> QED BY <1>1, <2>1, CountedIsNumbers, UnitsWithout, UnitsAreNat DEF AreCounted
<1>2. ASSUME \A r \in S : ~ (r.qty > 0) PROVE Backfill!Units(S) = 0
  <2> DEFINE T == {s \in SUBSET S : Backfill!Units(s) # 0}
  <2>1. SUFFICES ASSUME T # {} PROVE FALSE
    BY S \in SUBSET S
  <2>2. PICK s \in T : \A t \in T : t \subseteq s => t = s
    <3>1. T \subseteq SUBSET S
      OBVIOUS
    <3> HIDE DEF T
    <3> QED BY <2>1, <3>1, SmallestSubset DEF AreCounted
  <2>3. AreCounted(s) /\ s # {}
    BY PartIsCounted, UnitsOfChosen DEF AreCounted
  <2>4. PICK r \in s : r.qty = 0
    BY <1>2, <2>3 DEF AreCounted
  <2>5. Backfill!Units(s \ {r}) = 0
    BY <2>2, <2>4
  <2> QED BY <2>3, <2>4, <2>5, CountedIsNumbers, UnitsWithout
<1> QED BY <1>1, <1>2

\* The units of two sets without a common row.
LEMMA UnitsOfBoth ==
    ASSUME NEW R, AreNumbers(R), NEW A \in SUBSET R, NEW B \in SUBSET R, A \cap B = {}
    PROVE  Backfill!Units(A \cup B) = Backfill!Units(A) + Backfill!Units(B)
<1> DEFINE T == {b \in SUBSET B : Backfill!Units(A \cup b) # Backfill!Units(A) + Backfill!Units(b)}
<1>1. SUFFICES ASSUME T # {} PROVE FALSE
  BY B \in SUBSET B
<1>2. AreNumbers(A) /\ AreNumbers(B)
  BY PartIsNumbers
<1>3. PICK b \in T : \A t \in T : t \subseteq b => t = b
  <2>1. T \subseteq SUBSET B
    OBVIOUS
  <2> HIDE DEF T
  <2> QED BY <1>1, <1>2, <2>1, SmallestSubset DEF AreNumbers
<1>4. AreNumbers(b) /\ AreNumbers(A \cup b)
  BY PartIsNumbers
<1>5. Backfill!Units(A) \in Int /\ Backfill!Units(b) \in Int
  BY <1>2, <1>4, UnitsAreInt
<1>6. b # {}
  <2>1. b = {} => Backfill!Units(b) = 0 /\ A \cup b = A
    BY <1>4, UnitsOfChosen DEF AreNumbers
  <2>2. Backfill!Units(A \cup b) # Backfill!Units(A) + Backfill!Units(b)
    OBVIOUS
  <2>3. ASSUME b = {} PROVE FALSE
    <3>1. Backfill!Units(A) # Backfill!Units(A) + 0
      BY <2>1, <2>2, <2>3
    <3> QED BY <1>5, <3>1
  <2> QED BY <2>3
<1>7. PICK r \in b : TRUE
  BY <1>6
<1>8. b \ {r} \in SUBSET B /\ b \ {r} # b /\ (A \cup b) \ {r} = A \cup (b \ {r})
  OBVIOUS
<1>9. Backfill!Units(A \cup (b \ {r})) = Backfill!Units(A) + Backfill!Units(b \ {r})
  BY <1>3, <1>8
<1>10. /\ Backfill!Units(b) = r.qty + Backfill!Units(b \ {r})
       /\ Backfill!Units(A \cup b) = r.qty + Backfill!Units(A \cup (b \ {r}))
  BY <1>4, <1>8, UnitsWithout
<1>11. r.qty \in Int /\ Backfill!Units(b \ {r}) \in Int
  <2>1. AreNumbers(b \ {r})
    BY <1>4, PartIsNumbers
  <2> QED BY <1>4, <2>1, UnitsAreInt DEF AreNumbers
<1> QED BY <1>5, <1>9, <1>10, <1>11

\* Rows grouped into rows that count their groups are counted once.
LEMMA UnitsOfGroups ==
    ASSUME NEW R, AreNumbers(R), NEW C, AreNumbers(C), NEW m \in [R -> C],
           \A c \in C : c.qty = Backfill!Units({r \in R : m[r] = c})
    PROVE  Backfill!Units(C) = Backfill!Units(R)
<1> DEFINE In(d) == {r \in R : m[r] \in d}
           T == {d \in SUBSET C : Backfill!Units(d) # Backfill!Units(In(d))}
<1>1. SUFFICES ASSUME T # {} PROVE FALSE
  <2>1. C \in SUBSET C /\ In(C) = R
    OBVIOUS
  <2> HIDE DEF In
  <2> QED BY <2>1
<1>2. PICK d \in T : \A t \in T : t \subseteq d => t = d
  <2>1. T \subseteq SUBSET C
    OBVIOUS
  <2> HIDE DEF T
  <2> QED BY <1>1, <2>1, SmallestSubset DEF AreNumbers
<1>3. AreNumbers(d)
  BY PartIsNumbers
<1>4. Backfill!IsFiniteSet({}) /\ In({}) = {}
  <2>1. Backfill!IsFiniteSet({})
    BY <1>3, SubsetIsFinite, {} \in SUBSET d DEF AreNumbers
  <2> QED BY <2>1
<1>5. d # {}
  BY <1>4, UnitsOfChosen
<1>6. PICK c \in d : TRUE
  BY <1>5
<1> DEFINE A == {r \in R : m[r] = c}
           B == In(d \ {c})
<1>7. A \in SUBSET R /\ B \in SUBSET R /\ A \cap B = {} /\ A \cup B = In(d)
  OBVIOUS
<1>8. c.qty = Backfill!Units(A)
  OBVIOUS
<1>9. Backfill!Units(d \ {c}) = Backfill!Units(B)
  BY <1>2
<1> HIDE DEF A, B, In
<1>10. Backfill!Units(In(d)) = Backfill!Units(A) + Backfill!Units(B)
  BY <1>7, UnitsOfBoth
<1>11. Backfill!Units(d) = c.qty + Backfill!Units(d \ {c})
  BY <1>3, UnitsWithout
<1> QED BY <1>8, <1>9, <1>10, <1>11
\* Of a finite set in order one is first.
LEMMA HasFirst ==
    ASSUME NEW S, Backfill!IsFiniteSet(S), S # {}, NEW R,
           \A a, b \in S : a = b \/ <<a, b>> \in R \/ <<b, a>> \in R,
           \A a, b, c \in S : <<a, b>> \in R /\ <<b, c>> \in R => <<a, c>> \in R
    PROVE  \E k \in S : \A j \in S : j = k \/ <<k, j>> \in R
<1> DEFINE Before(k) == {j \in S : j = k \/ <<j, k>> \in R}
           T == {Before(k) : k \in S}
<1>1. PICK s \in T : \A t \in T : t \subseteq s => t = s
  <2>1. T \subseteq SUBSET S
    OBVIOUS
  <2>2. T # {}
    <3>1. PICK a \in S : TRUE
      OBVIOUS
    <3>2. Before(a) \in T
      OBVIOUS
    <3> QED BY <3>2
  <2> HIDE DEF T
  <2> QED BY <2>1, <2>2, SmallestSubset
<1>2. PICK k \in S : s = Before(k)
  OBVIOUS
<1>3. ASSUME NEW j \in S, j # k, <<j, k>> \in R PROVE <<k, j>> \in R
  <2>1. Before(j) \subseteq s /\ Before(j) \in T
    BY <1>2, <1>3
  <2>2. Before(j) = s
    <3> HIDE DEF T, Before
    <3> QED BY <1>1, <2>1
  <2>3. k \in Before(j)
    BY <1>2, <2>2
  <2> QED BY <1>3, <2>3
<1> QED BY <1>3

\* The numbers f gives to the members of S, as rows, and their sum.
RowsOf(f, S) == {[of |-> x, qty |-> f[x]] : x \in S}
SumOver(f, S) == Backfill!Units(RowsOf(f, S))

\* The recursion of the library's folds.
Weighted(f, S, h) ==
    [s \in SUBSET S |-> IF s = {} THEN 0 ELSE f[CHOOSE x \in s : TRUE] + h[Rest(s)]]

LEMMA RowsAreNumbers ==
    ASSUME NEW S, Backfill!IsFiniteSet(S), NEW f, \A x \in S : f[x] \in Int
    PROVE  AreNumbers(RowsOf(f, S))
<1>1. RowsOf(f, S) = {[of |-> x, qty |-> f[x]] : x \in S}
  BY DEF RowsOf
<1>2. IsFiniteSet(RowsOf(f, S))
  <2> DEFINE g == [x \in S |-> [of |-> x, qty |-> f[x]]]
  <2>1. g \in Surjection(S, RowsOf(f, S))
    BY <1>1 DEF Surjection
  <2> HIDE DEF g
  <2> QED BY <2>1, FS_Surjection DEF Backfill!IsFiniteSet, IsFiniteSet
<1>3. \A r \in RowsOf(f, S) : r.qty \in Int
  BY <1>1
<1> QED BY <1>2, <1>3 DEF AreNumbers, Backfill!IsFiniteSet, IsFiniteSet

LEMMA SumOfNone == ASSUME NEW f PROVE SumOver(f, {}) = 0
<1>1. RowsOf(f, {}) = {} /\ Backfill!IsFiniteSet({})
  BY FS_EmptySet DEF RowsOf, Backfill!IsFiniteSet, IsFiniteSet
<1> QED BY <1>1, UnitsOfChosen DEF SumOver

LEMMA SumIsInt ==
    ASSUME NEW S, Backfill!IsFiniteSet(S), NEW f, \A x \in S : f[x] \in Int
    PROVE  SumOver(f, S) \in Int
BY RowsAreNumbers, UnitsAreInt DEF SumOver

\* Any member can be taken out.
LEMMA SumWithout ==
    ASSUME NEW S, Backfill!IsFiniteSet(S), NEW f, \A x \in S : f[x] \in Int, NEW x \in S
    PROVE  SumOver(f, S) = f[x] + SumOver(f, S \ {x})
<1> DEFINE r == [of |-> x, qty |-> f[x]]
<1>1. r \in RowsOf(f, S) /\ r.qty = f[x]
  BY DEF RowsOf
<1>2. RowsOf(f, S) \ {r} = RowsOf(f, S \ {x})
  BY DEF RowsOf
<1> HIDE DEF r
<1>3. AreNumbers(RowsOf(f, S))
  BY RowsAreNumbers
<1> QED BY <1>1, <1>2, <1>3, UnitsWithout DEF SumOver

\* What two functions give to the members of S decides the sum.
LEMMA SumOfEqual ==
    ASSUME NEW S, NEW f, NEW g, \A x \in S : f[x] = g[x]
    PROVE  SumOver(f, S) = SumOver(g, S)
<1>1. RowsOf(f, S) = RowsOf(g, S)
  BY DEF RowsOf
<1> QED BY <1>1 DEF SumOver

\* The sum solves the recursion, and is its only solution.
LEMMA SumSolves ==
    ASSUME NEW S, Backfill!IsFiniteSet(S), NEW f, \A x \in S : f[x] \in Int
    PROVE  \E h : h = [s \in SUBSET S |-> SumOver(f, s)] /\ h = Weighted(f, S, h)
<1> DEFINE h == [s \in SUBSET S |-> SumOver(f, s)]
<1>1. ASSUME NEW s \in SUBSET S PROVE h[s] = Weighted(f, S, h)[s]
  <2>1. CASE s = {}
    BY <2>1, SumOfNone DEF Weighted
  <2>2. CASE s # {}
    <3> DEFINE c == CHOOSE x \in s : TRUE
    <3>1. c \in s /\ Rest(s) = s \ {c} /\ Rest(s) \in SUBSET S
      BY <2>2 DEF Rest
    <3>2. Backfill!IsFiniteSet(s) /\ \A x \in s : f[x] \in Int
      BY SubsetIsFinite
    <3>3. Weighted(f, S, h)[s] = f[c] + h[Rest(s)]
      BY <2>2 DEF Weighted
    <3> HIDE DEF c
    <3>4. SumOver(f, s) = f[c] + SumOver(f, s \ {c})
      BY <3>1, <3>2, SumWithout
    <3> QED BY <3>1, <3>3, <3>4
  <2> QED BY <2>1, <2>2
<1>2. h = [s \in SUBSET S |-> h[s]] /\ Weighted(f, S, h) = [s \in SUBSET S |-> Weighted(f, S, h)[s]]
  BY DEF Weighted
<1> HIDE DEF h
<1>3. h = Weighted(f, S, h)
  BY <1>1, <1>2
<1> QED BY <1>3 DEF h

LEMMA SumIsOnly ==
    ASSUME NEW S, Backfill!IsFiniteSet(S), NEW f, \A x \in S : f[x] \in Int,
           NEW g, g = Weighted(f, S, g)
    PROVE  g[S] = SumOver(f, S)
<1>0. PICK h : h = [s \in SUBSET S |-> SumOver(f, s)] /\ h = Weighted(f, S, h)
  BY SumSolves
<1> DEFINE T == {s \in SUBSET S : g[s] # h[s]}
<1>1. SUFFICES ASSUME T # {} PROVE FALSE
  BY <1>0, S \in SUBSET S
<1>2. PICK s \in T : \A t \in T : t \subseteq s => t = s
  <2>1. T \subseteq SUBSET S
    OBVIOUS
  <2> HIDE DEF T
  <2> QED BY <1>1, <2>1, SmallestSubset
<1>3. s # {}
  <2>1. g[{}] = 0 /\ h[{}] = 0
    BY <1>0 DEF Weighted
  <2> QED BY <1>2, <2>1
<1>4. /\ g[s] = f[CHOOSE x \in s : TRUE] + g[Rest(s)]
      /\ h[s] = f[CHOOSE x \in s : TRUE] + h[Rest(s)]
  BY <1>0, <1>2, <1>3 DEF Weighted
<1>5. g[Rest(s)] = h[Rest(s)]
  BY <1>2, <1>3, RestIsSmaller
<1> QED BY <1>2, <1>4, <1>5

\* The sum over two sets without a common member.
LEMMA SumOfBoth ==
    ASSUME NEW S, Backfill!IsFiniteSet(S), NEW f, \A x \in S : f[x] \in Int,
           NEW A \in SUBSET S, NEW B \in SUBSET S, A \cap B = {}
    PROVE  SumOver(f, A \cup B) = SumOver(f, A) + SumOver(f, B)
<1>1. /\ RowsOf(f, A) \in SUBSET RowsOf(f, S) /\ RowsOf(f, B) \in SUBSET RowsOf(f, S)
      /\ RowsOf(f, A) \cap RowsOf(f, B) = {}
      /\ RowsOf(f, A \cup B) = RowsOf(f, A) \cup RowsOf(f, B)
  BY DEF RowsOf
<1>2. AreNumbers(RowsOf(f, S))
  BY RowsAreNumbers
<1>3. Backfill!Units(RowsOf(f, A) \cup RowsOf(f, B))
          = Backfill!Units(RowsOf(f, A)) + Backfill!Units(RowsOf(f, B))
  BY <1>1, <1>2, UnitsOfBoth
<1> QED BY <1>1, <1>3 DEF SumOver

\* The sum of the sums of the groups that key makes.
LEMMA SumOfGroups ==
    ASSUME NEW S, Backfill!IsFiniteSet(S), NEW f, \A x \in S : f[x] \in Int,
           NEW K, Backfill!IsFiniteSet(K), NEW key \in [S -> K],
           NEW g, \A k \in K : g[k] = SumOver(f, {x \in S : key[x] = k})
    PROVE  SumOver(g, K) = SumOver(f, S)
<1>1. \A k \in K : g[k] \in Int
  <2> TAKE k \in K
  <2> DEFINE s == {x \in S : key[x] = k}
  <2>1. Backfill!IsFiniteSet(s) /\ \A x \in s : f[x] \in Int
    BY SubsetIsFinite
  <2> HIDE DEF s
  <2>2. SumOver(f, s) \in Int
    BY <2>1, SumIsInt
  <2> QED BY <2>2 DEF s
<1> DEFINE R == RowsOf(f, S)
           C == RowsOf(g, K)
           m == [r \in R |-> [of |-> key[r.of], qty |-> g[key[r.of]]]]
<1>2. AreNumbers(R) /\ AreNumbers(C)
  BY <1>1, RowsAreNumbers
<1>3. m \in [R -> C]
  BY DEF RowsOf
<1>4. ASSUME NEW c \in C PROVE c.qty = Backfill!Units({r \in R : m[r] = c})
  <2>1. PICK k \in K : c = [of |-> k, qty |-> g[k]]
    BY DEF RowsOf
  <2>2. {r \in R : m[r] = c} = RowsOf(f, {x \in S : key[x] = k})
    <3>1. ASSUME NEW r \in R, m[r] = c PROVE r \in RowsOf(f, {x \in S : key[x] = k})
      <4>1. PICK x \in S : r = [of |-> x, qty |-> f[x]]
        BY DEF RowsOf
      <4>2. key[x] = k
        BY <2>1, <3>1, <4>1
      <4> QED BY <4>1, <4>2 DEF RowsOf
    <3>2. ASSUME NEW r \in RowsOf(f, {x \in S : key[x] = k}) PROVE r \in R /\ m[r] = c
      BY <2>1 DEF RowsOf
    <3> QED BY <3>1, <3>2
  <2>3. c.qty = g[k]
    BY <2>1
  <2> QED BY <2>2, <2>3 DEF SumOver
<1> HIDE DEF R, C, m
<1>5. Backfill!Units(C) = Backfill!Units(R)
  BY <1>2, <1>3, <1>4, UnitsOfGroups
<1> QED BY <1>5 DEF SumOver, R, C

-----------------------------------------------------------------------------
(* Groups of legacy rows *)

\* A finite set has a member that counts least.
LEMMA LeastMember ==
    ASSUME NEW S, Backfill!IsFiniteSet(S), S # {}, NEW f \in [S -> Int]
    PROVE  \E x \in S : \A y \in S : f[x] <= f[y]
<1> DEFINE T == {s \in SUBSET S : s # {} /\ ~ \E x \in s : \A y \in s : f[x] <= f[y]}
<1>1. SUFFICES ASSUME T # {} PROVE FALSE
  BY S \in SUBSET S
<1>2. PICK s \in T : \A t \in T : t \subseteq s => t = s
  <2>1. T \subseteq SUBSET S
    OBVIOUS
  <2> HIDE DEF T
  <2> QED BY <1>1, <2>1, SmallestSubset
<1>3. PICK x \in s : TRUE
  OBVIOUS
<1>4. s \ {x} # {}
  BY <1>3
<1>5. PICK m \in s \ {x} : \A y \in s \ {x} : f[m] <= f[y]
  <2>1. s \ {x} \in SUBSET S /\ s \ {x} \subseteq s /\ s \ {x} # s
    BY <1>3
  <2>2. s \ {x} \notin T
    BY <1>2, <2>1
  <2> QED BY <1>4, <2>1, <2>2
<1> QED BY <1>3, <1>5

\* The least and the greatest of a set of numbers.
LEMMA MinIs ==
    ASSUME NEW V \in SUBSET Int, NEW n \in V, \A v \in V : n <= v
    PROVE  Backfill!Min(V) = n
<1>1. \A m \in V : (\A v \in V : m <= v) => m = n
  OBVIOUS
<1> QED BY <1>1 DEF Backfill!Min

LEMMA MaxIs ==
    ASSUME NEW V \in SUBSET Int, NEW n \in V, \A v \in V : v <= n
    PROVE  Backfill!Max(V) = n
<1>1. \A m \in V : (\A v \in V : m >= v) => m = n
  OBVIOUS
<1>2. \A v \in V : n >= v
  OBVIOUS
<1> QED BY <1>1, <1>2 DEF Backfill!Max

\* Legacy rows, as a run may have.
AreRows(R) ==
    /\ Backfill!IsFiniteSet(R)
    /\ \A r \in R : r.id \in Int /\ r.price \in Int /\ r.qty \in Nat
    /\ \A r \in R : r.avail # "in_stock" => r.qty = 0 \/ r.avail = "preorder"

LEMMA StocksAreRows == \A rows \in Stocks : AreRows(rows)
BY ReportAssumption DEF Backfill!BackfillAssumption, AreRows

LEMMA PartOfRows == ASSUME NEW R, AreRows(R), NEW G \in SUBSET R PROVE AreRows(G)
BY SubsetIsFinite DEF AreRows

LEMMA FirstIsRow == ASSUME NEW G, AreRows(G), G # {} PROVE Backfill!First(G) \in G
<1> DEFINE f == [r \in G |-> r.id]
<1>1. f \in [G -> Int]
  BY DEF AreRows
<1>2. PICK r \in G : \A q \in G : f[r] <= f[q]
  <2> HIDE DEF f
  <2> QED BY <1>1, LeastMember DEF AreRows
<1> QED BY <1>2 DEF Backfill!First

\* The lowest and the highest price of a group are prices of it.
LEMMA LowIsLowest ==
    ASSUME NEW G, AreRows(G), G # {}
    PROVE  /\ \E r \in G : r.price = Backfill!Low(G)
           /\ \A r \in G : Backfill!Low(G) <= r.price
<1> DEFINE f == [r \in G |-> r.price]
           V == {r.price : r \in G}
<1>1. f \in [G -> Int]
  BY DEF AreRows
<1>2. PICK r \in G : \A q \in G : f[r] <= f[q]
  <2> HIDE DEF f
  <2> QED BY <1>1, LeastMember DEF AreRows
<1>3. V \in SUBSET Int /\ r.price \in V /\ \A v \in V : r.price <= v
  BY <1>2 DEF AreRows
<1>4. Backfill!Min(V) = r.price
  <2> HIDE DEF V
  <2> QED BY <1>3, MinIs
<1> QED BY <1>2, <1>4 DEF Backfill!Low

LEMMA HighIsHighest ==
    ASSUME NEW G, AreRows(G), G # {}
    PROVE  /\ \E r \in G : r.price = Backfill!High(G)
           /\ \A r \in G : r.price <= Backfill!High(G)
<1> DEFINE f == [r \in G |-> -r.price]
           V == {r.price : r \in G}
<1>1. f \in [G -> Int]
  BY DEF AreRows
<1>2. PICK r \in G : \A q \in G : f[r] <= f[q]
  <2> HIDE DEF f
  <2> QED BY <1>1, LeastMember DEF AreRows
<1>3. V \in SUBSET Int /\ r.price \in V /\ \A v \in V : v <= r.price
  BY <1>2 DEF AreRows
<1>4. Backfill!Max(V) = r.price
  <2> HIDE DEF V
  <2> QED BY <1>3, MaxIs
<1> QED BY <1>2, <1>3, <1>4 DEF Backfill!High

\* A row that counts a group has stock exactly if a row of the group has.
LEMMA MergedHasStock ==
    ASSUME NEW G, Backfill!IsFiniteSet(G), NEW first \in G, NEW c,
           \A r \in G : r.qty \in Nat,
           \A r \in G : r.avail # "in_stock" => r.qty = 0 \/ r.avail = "preorder",
           c.avail = Backfill!Merged(G, first), c.qty = Backfill!Units(G)
    PROVE  /\ c.qty \in Nat
           /\ c.avail # "in_stock" => c.qty = 0 \/ c.avail = "preorder"
           /\ Backfill!HasStock(c) <=> \E r \in G : Backfill!HasStock(r)
<1>1. AreCounted(G)
  BY DEF AreCounted
<1>2. c.qty \in Nat /\ (c.qty > 0 <=> \E r \in G : r.qty > 0)
  BY <1>1, UnitsAreNat, UnitsArePositive
<1>3. CASE \E r \in G : Backfill!HasStock(r)
  <2>1. c.avail = "in_stock" /\ c.qty > 0
    BY <1>2, <1>3 DEF Backfill!Merged, Backfill!HasStock
  <2> QED BY <1>2, <1>3, <2>1 DEF Backfill!HasStock
<1>4. CASE ~ (\E r \in G : Backfill!HasStock(r)) /\ \E r \in G : r.avail = "preorder"
  <2>1. c.avail = "preorder"
    BY <1>4 DEF Backfill!Merged
  <2> QED BY <1>2, <1>4, <2>1 DEF Backfill!HasStock
<1>5. CASE ~ (\E r \in G : Backfill!HasStock(r)) /\ ~ \E r \in G : r.avail = "preorder"
  <2>1. \A r \in G : ~ (r.qty > 0)
    BY <1>5 DEF Backfill!HasStock
  <2>2. c.qty = 0
    BY <1>2, <2>1
  <2> QED BY <1>2, <1>5, <2>2 DEF Backfill!HasStock
<1> QED BY <1>3, <1>4, <1>5
-----------------------------------------------------------------------------
(* Keys *)

\* A variant key is of one product and one color.
LEMMA VariantKeySplits ==
    ASSUME NEW st1 \in BOOLEAN, NEW st2 \in BOOLEAN, NEW run1, NEW run2, NEW r, NEW q
    PROVE  Backfill!VariantKey(st1, run1, r) = Backfill!VariantKey(st2, run2, q)
             => /\ Backfill!ProductKey(st1, run1, r) = Backfill!ProductKey(st2, run2, q)
                /\ r.color = q.color
<1> DEFINE k1 == Backfill!ProductKey(st1, run1, r)
           k2 == Backfill!ProductKey(st2, run2, q)
           E == {r.name, q.name, r.color, q.color, "source-family", run1, run2, r.style, q.style}
<1>1. k1 \in Seq(E) /\ k2 \in Seq(E)
  <2>1. /\ k1 \in {<<r.name>>, <<"source-family", run1, r.style>>}
        /\ k2 \in {<<q.name>>, <<"source-family", run2, q.style>>}
    BY DEF Backfill!ProductKey, Backfill!ServiceKey, Backfill!NameKey
  <2>2. /\ <<r.name>> \in Seq(E) /\ <<"source-family", run1, r.style>> \in Seq(E)
        /\ <<q.name>> \in Seq(E) /\ <<"source-family", run2, q.style>> \in Seq(E)
    OBVIOUS
  <2> HIDE DEF k1, k2, E
  <2> QED BY <2>1, <2>2
<1>2. r.color \in E /\ q.color \in E
  OBVIOUS
<1> HIDE DEF k1, k2, E
<1>3. Append(k1, r.color) = Append(k2, q.color) => k1 = k2 /\ r.color = q.color
  BY <1>1, <1>2, AppendProperties
<1> QED BY <1>3 DEF Backfill!VariantKey, k1, k2

\* A key of a family is of one run and of no name.
LEMMA FamilyKeys ==
    ASSUME NEW run1, NEW run2, NEW st \in BOOLEAN, NEW r, NEW q, r.style # None,
           Backfill!ServiceKey(run1, r) = Backfill!ProductKey(st, run2, q)
    PROVE  run1 = run2 /\ st
<1>1. Backfill!ServiceKey(run1, r) = <<"source-family", run1, r.style>>
  BY DEF Backfill!ServiceKey
<1>2. \/ Backfill!ProductKey(st, run2, q) = <<q.name>>
      \/ st /\ Backfill!ProductKey(st, run2, q) = <<"source-family", run2, q.style>>
  BY DEF Backfill!ServiceKey, Backfill!ProductKey, Backfill!NameKey
<1>3. <<"source-family", run1, r.style>> # <<q.name>>
  <2>1. Len(<<"source-family", run1, r.style>>) = 3 /\ Len(<<q.name>>) = 1
    OBVIOUS
  <2> QED BY <2>1
<1>4. <<"source-family", run1, r.style>> = <<"source-family", run2, q.style>> => run1 = run2
  OBVIOUS
<1> QED BY <1>1, <1>2, <1>3, <1>4
-----------------------------------------------------------------------------
(* What the tables say of the legacy rows R of a run *)

\* The legacy rows of a variant.
OfVariant(st, run, R, key) == {r \in R : Backfill!VariantKey(st, run, r) = key}

\* One variant for each key, at the prices and in the color of its rows.
LEMMA VariantsOfRows ==
    ASSUME NEW R, AreRows(R), NEW st \in BOOLEAN, NEW run
    PROVE  LET V == Backfill!VariantRows(st, run, R)
           IN /\ \A r \in R : \E v \in V : v.key = Backfill!VariantKey(st, run, r)
              /\ \A v, w \in V : v.key = w.key => v = w
              /\ \A v \in V : LET G == OfVariant(st, run, R, v.key)
                              IN /\ G # {} /\ v.run = run
                                 /\ v.low = Backfill!Low(G) /\ v.high = Backfill!High(G)
                                 /\ \A r \in G : /\ v.product = Backfill!ProductKey(st, run, r)
                                                 /\ v.color = r.color
<1> DEFINE V == Backfill!VariantRows(st, run, R)
           Of(key) == OfVariant(st, run, R, key)
           row(key) == [key |-> key,
                        product |-> Backfill!ProductKey(st, run, Backfill!First(Of(key))),
                        run |-> run, color |-> Backfill!First(Of(key)).color,
                        low |-> Backfill!Low(Of(key)), high |-> Backfill!High(Of(key))]
           K == {Backfill!VariantKey(st, run, r) : r \in R}
<1>1. V = {row(key) : key \in K}
  BY DEF Backfill!VariantRows, OfVariant
<1>2. \A key : row(key).key = key
  OBVIOUS
<1>3. ASSUME NEW v \in V
      PROVE  LET G == Of(v.key)
             IN /\ G # {} /\ v.run = run
                /\ v.low = Backfill!Low(G) /\ v.high = Backfill!High(G)
                /\ \A r \in G : /\ v.product = Backfill!ProductKey(st, run, r)
                                /\ v.color = r.color
  <2>1. PICK key \in K : v = row(key)
    BY <1>1
  <2>2. v.key = key
    BY <2>1
  <2>3. Of(key) # {} /\ Of(key) \in SUBSET R
    BY DEF OfVariant
  <2>4. Backfill!First(Of(key)) \in Of(key)
    <3> HIDE DEF Of
    <3> QED BY <2>3, PartOfRows, FirstIsRow
  <2>5. /\ v.run = run /\ v.low = Backfill!Low(Of(key)) /\ v.high = Backfill!High(Of(key))
        /\ v.product = Backfill!ProductKey(st, run, Backfill!First(Of(key)))
        /\ v.color = Backfill!First(Of(key)).color
    BY <2>1
  <2>6. \A r \in Of(key) : Backfill!VariantKey(st, run, r)
                             = Backfill!VariantKey(st, run, Backfill!First(Of(key)))
    BY <2>4 DEF OfVariant
  <2>7. \A r \in Of(key) : /\ v.product = Backfill!ProductKey(st, run, r)
                           /\ v.color = r.color
    BY <2>5, <2>6, VariantKeySplits
  <2> HIDE DEF Of
  <2> QED BY <2>2, <2>3, <2>5, <2>7
<1>4. \A r \in R : \E v \in V : v.key = Backfill!VariantKey(st, run, r)
  <2> HIDE DEF row
  <2> QED BY <1>1, <1>2
<1>5. \A v, w \in V : v.key = w.key => v = w
  <2> HIDE DEF row
  <2> QED BY <1>1, <1>2
<1> HIDE DEF row
<1> QED BY <1>3, <1>4, <1>5

\* The place of a stock row, and the legacy rows of a place.
PlaceOf(s) == [store |-> s.store, variant |-> s.variant, size |-> s.size]
AtPlace(st, run, R, place) == {r \in R : Backfill!Placed(st, run, r) = place}

\* One stock row for each place, with the units of the legacy rows of it.
LEMMA StockOfRows ==
    ASSUME NEW R, AreRows(R), NEW st \in BOOLEAN, NEW run
    PROVE  LET S == Backfill!StockRows(st, run, R)
           IN /\ \A r \in R : \E s \in S : PlaceOf(s) = Backfill!Placed(st, run, r)
              /\ \A s, t \in S : PlaceOf(s) = PlaceOf(t) => s = t
              /\ \A s \in S : LET G == AtPlace(st, run, R, PlaceOf(s))
                              IN /\ G # {} /\ s.run = run
                                 /\ s.avail = Backfill!Merged(G, Backfill!First(G))
                                 /\ s.qty = Backfill!Units(G)
<1> DEFINE S == Backfill!StockRows(st, run, R)
           At(place) == AtPlace(st, run, R, place)
           row(place) == [id |-> <<place.store, place.variant, Backfill!Cleaned(place.size)>>,
                          run |-> run, variant |-> place.variant, store |-> place.store,
                          size |-> place.size,
                          avail |-> Backfill!Merged(At(place), Backfill!First(At(place))),
                          qty |-> Backfill!Units(At(place))]
           K == {Backfill!Placed(st, run, r) : r \in R}
<1>1. S = {row(place) : place \in K}
  BY DEF Backfill!StockRows, AtPlace
<1>2. \A place \in K : place = PlaceOf(place)
  BY DEF Backfill!Placed, PlaceOf
<1>3. ASSUME NEW place \in K
      PROVE  PlaceOf(row(place)) = place
  BY <1>2 DEF PlaceOf
<1>4. ASSUME NEW s \in S
      PROVE  LET G == At(PlaceOf(s))
             IN /\ G # {} /\ s.run = run
                /\ s.avail = Backfill!Merged(G, Backfill!First(G))
                /\ s.qty = Backfill!Units(G)
  <2>1. PICK place \in K : s = row(place)
    BY <1>1
  <2>2. PlaceOf(s) = place
    BY <1>3, <2>1
  <2>3. At(place) # {}
    BY DEF AtPlace
  <2>4. /\ s.run = run /\ s.avail = Backfill!Merged(At(place), Backfill!First(At(place)))
        /\ s.qty = Backfill!Units(At(place))
    BY <2>1
  <2> HIDE DEF At
  <2> QED BY <2>2, <2>3, <2>4
<1> HIDE DEF row
<1> QED BY <1>1, <1>3, <1>4

\* Stock rows are rows as the legacy ones, and have stock exactly if one of theirs has.
LEMMA StockIsCounted ==
    ASSUME NEW R, AreRows(R), NEW st \in BOOLEAN, NEW run
    PROVE  LET S == Backfill!StockRows(st, run, R)
           IN /\ AreCounted(S)
              /\ \A s \in S : s.avail # "in_stock" => s.qty = 0 \/ s.avail = "preorder"
              /\ \A s \in S : Backfill!HasStock(s)
                                <=> \E r \in AtPlace(st, run, R, PlaceOf(s)) : Backfill!HasStock(r)
<1> DEFINE S == Backfill!StockRows(st, run, R)
           m == [r \in R |-> CHOOSE s \in S : PlaceOf(s) = Backfill!Placed(st, run, r)]
<1>1. ASSUME NEW s \in S
      PROVE  /\ s.qty \in Nat
             /\ s.avail # "in_stock" => s.qty = 0 \/ s.avail = "preorder"
             /\ Backfill!HasStock(s)
                  <=> \E r \in AtPlace(st, run, R, PlaceOf(s)) : Backfill!HasStock(r)
  <2> DEFINE G == AtPlace(st, run, R, PlaceOf(s))
  <2>1. G \in SUBSET R
    BY DEF AtPlace
  <2>2. G # {} /\ s.avail = Backfill!Merged(G, Backfill!First(G)) /\ s.qty = Backfill!Units(G)
    BY StockOfRows
  <2> HIDE DEF G
  <2>3. AreRows(G) /\ Backfill!First(G) \in G
    BY <2>1, <2>2, PartOfRows, FirstIsRow
  <2>4. /\ s.qty \in Nat
        /\ s.avail # "in_stock" => s.qty = 0 \/ s.avail = "preorder"
        /\ Backfill!HasStock(s) <=> \E r \in G : Backfill!HasStock(r)
    BY <2>2, <2>3, MergedHasStock DEF AreRows
  <2> QED BY <2>4 DEF G
<1>2. \A r \in R : m[r] \in S /\ PlaceOf(m[r]) = Backfill!Placed(st, run, r)
  BY StockOfRows
<1>3. m \in Surjection(R, S)
  <2>1. m \in [R -> S]
    BY <1>2
  <2>2. \A s \in S : \E r \in R : m[r] = s
    <3> TAKE s \in S
    <3>1. AtPlace(st, run, R, PlaceOf(s)) # {}
      BY StockOfRows
    <3>2. PICK r \in R : Backfill!Placed(st, run, r) = PlaceOf(s)
      BY <3>1 DEF AtPlace
    <3> HIDE DEF m
    <3>3. m[r] \in S /\ PlaceOf(m[r]) = PlaceOf(s)
      BY <1>2, <3>2
    <3> QED BY <3>3, StockOfRows
  <2> QED BY <2>1, <2>2 DEF Surjection
<1>4. Backfill!IsFiniteSet(S)
  <2>1. IsFiniteSet(R)
    BY DEF AreRows, IsFiniteSet, Backfill!IsFiniteSet
  <2> HIDE DEF m, S
  <2>2. IsFiniteSet(S)
    BY <1>3, <2>1, FS_Surjection
  <2> QED BY <2>2 DEF IsFiniteSet, Backfill!IsFiniteSet
<1> QED BY <1>1, <1>4 DEF AreCounted

LEMMA DisplayKeepsSize ==
    ASSUME NEW size PROVE Backfill!SizeKey(Backfill!Display(size)) = Backfill!SizeKey(size)
BY DEF Backfill!SizeKey, Backfill!Display, Backfill!Cleaned

\* A stock row is of the product, store and size of its legacy rows.
StandsAt(s, V) ==
    <<Backfill!ProductOf(s.variant, V), s.store, Backfill!SizeKey(s.size)>>
RowStandsAt(st, run, r) ==
    <<Backfill!ProductKey(st, run, r), r.store, Backfill!SizeKey(r.size)>>
LEMMA StockStandsAt ==
    ASSUME NEW R, AreRows(R), NEW st \in BOOLEAN, NEW run,
           NEW s \in Backfill!StockRows(st, run, R), NEW r \in R,
           PlaceOf(s) = Backfill!Placed(st, run, r)
    PROVE  StandsAt(s, Backfill!VariantRows(st, run, R)) = RowStandsAt(st, run, r)
<1> DEFINE V == Backfill!VariantRows(st, run, R)
<1>1. /\ s.store = r.store /\ s.variant = Backfill!VariantKey(st, run, r)
      /\ s.size = Backfill!Display(r.size)
  <2>1. /\ PlaceOf(s).store = s.store /\ PlaceOf(s).variant = s.variant /\ PlaceOf(s).size = s.size
    BY DEF PlaceOf
  <2>2. LET p == Backfill!Placed(st, run, r)
        IN /\ p.store = r.store /\ p.variant = Backfill!VariantKey(st, run, r)
           /\ p.size = Backfill!Display(r.size)
    BY DEF Backfill!Placed
  <2> QED BY <2>1, <2>2
<1>2. PICK v \in V : v.key = s.variant
  BY <1>1, VariantsOfRows
<1>3. \A w \in V : w.key = s.variant => w.product = Backfill!ProductKey(st, run, r)
  <2>1. \A w \in V : w.key = s.variant => r \in OfVariant(st, run, R, w.key)
    BY <1>1 DEF OfVariant
  <2> HIDE DEF V
  <2> QED BY <2>1, VariantsOfRows DEF V
<1> HIDE DEF V
<1>4. Backfill!ProductOf(s.variant, V) = Backfill!ProductKey(st, run, r)
  BY <1>2, <1>3 DEF Backfill!ProductOf
<1> QED BY <1>1, <1>4, DisplayKeepsSize DEF StandsAt, RowStandsAt, V
-----------------------------------------------------------------------------
(* The product inventory pooled from the tables of a run *)

InventoryOf(st, run, R) ==
    Backfill!Pooled(Backfill!StockRows(st, run, R), Backfill!VariantRows(st, run, R))
PlaceIn(c) == <<c.product, c.store, c.size>>
StandingAt(st, run, R, place) ==
    {s \in Backfill!StockRows(st, run, R) :
       StandsAt(s, Backfill!VariantRows(st, run, R)) = place}

\* Every row of the tables is a row of a legacy one.
LEMMA StockHasRow ==
    ASSUME NEW R, AreRows(R), NEW st \in BOOLEAN, NEW run, NEW s \in Backfill!StockRows(st, run, R)
    PROVE  \E r \in R : Backfill!Placed(st, run, r) = PlaceOf(s)
<1>1. AtPlace(st, run, R, PlaceOf(s)) # {}
  BY StockOfRows
<1> QED BY <1>1 DEF AtPlace

\* One inventory row for each product, store and size, with the units of its stock.
LEMMA InventoryOfStock ==
    ASSUME NEW R, AreRows(R), NEW st \in BOOLEAN, NEW run
    PROVE  LET S == Backfill!StockRows(st, run, R)
               V == Backfill!VariantRows(st, run, R)
               P == InventoryOf(st, run, R)
           IN /\ \A s \in S : \E c \in P : PlaceIn(c) = StandsAt(s, V)
              /\ \A c, d \in P : PlaceIn(c) = PlaceIn(d) => c = d
              /\ \A c \in P : LET G == StandingAt(st, run, R, PlaceIn(c))
                              IN /\ G # {} /\ c.qty = Backfill!Units(G)
                                 /\ c.avail = Backfill!Merged(G, CHOOSE s \in G : TRUE)
<1> DEFINE S == Backfill!StockRows(st, run, R)
           V == Backfill!VariantRows(st, run, R)
           P == InventoryOf(st, run, R)
           At(place) == StandingAt(st, run, R, place)
           row(place) == [product |-> place[1], store |-> place[2], size |-> place[3],
                          run |-> (CHOOSE s \in At(place) : TRUE).run,
                          avail |-> Backfill!Merged(At(place), CHOOSE s \in At(place) : TRUE),
                          qty |-> Backfill!Units(At(place))]
           K == {StandsAt(s, V) : s \in S}
<1>1. P = {row(place) : place \in K}
  BY DEF InventoryOf, Backfill!Pooled, StandingAt, StandsAt
<1>2. ASSUME NEW place \in K PROVE PlaceIn(row(place)) = place
  BY DEF PlaceIn, StandsAt
<1>3. ASSUME NEW c \in P
      PROVE  LET G == At(PlaceIn(c))
             IN /\ G # {} /\ c.qty = Backfill!Units(G)
                /\ c.avail = Backfill!Merged(G, CHOOSE s \in G : TRUE)
  <2>1. PICK place \in K : c = row(place)
    BY <1>1
  <2>2. PlaceIn(c) = place
    BY <1>2, <2>1
  <2>3. At(place) # {}
    BY DEF StandingAt
  <2>4. /\ c.avail = Backfill!Merged(At(place), CHOOSE s \in At(place) : TRUE)
        /\ c.qty = Backfill!Units(At(place))
    BY <2>1
  <2> HIDE DEF At
  <2> QED BY <2>2, <2>3, <2>4
<1>4. \A s \in S : \E c \in P : PlaceIn(c) = StandsAt(s, V)
  <2> HIDE DEF row, V
  <2> QED BY <1>1, <1>2
<1>5. \A c, d \in P : PlaceIn(c) = PlaceIn(d) => c = d
  <2> HIDE DEF row, V
  <2> QED BY <1>1, <1>2
<1> HIDE DEF row
<1> QED BY <1>3, <1>4, <1>5

\* A legacy row stands where the stock row of its place does, and that where one of
\* the inventory does.
LEMMA InventoryIsCounted ==
    ASSUME NEW R, AreRows(R), NEW st \in BOOLEAN, NEW run
    PROVE  LET P == InventoryOf(st, run, R)
           IN /\ AreCounted(P)
              /\ \A c \in P : Backfill!HasStock(c)
                   <=> \E s \in StandingAt(st, run, R, PlaceIn(c)) : Backfill!HasStock(s)
<1> DEFINE S == Backfill!StockRows(st, run, R)
           V == Backfill!VariantRows(st, run, R)
           P == InventoryOf(st, run, R)
           m == [s \in S |-> CHOOSE c \in P : PlaceIn(c) = StandsAt(s, V)]
<1>1. /\ AreCounted(S)
      /\ \A s \in S : s.avail # "in_stock" => s.qty = 0 \/ s.avail = "preorder"
  BY StockIsCounted
<1>2. ASSUME NEW c \in P
      PROVE  /\ c.qty \in Nat
             /\ Backfill!HasStock(c)
                  <=> \E s \in StandingAt(st, run, R, PlaceIn(c)) : Backfill!HasStock(s)
  <2> DEFINE G == StandingAt(st, run, R, PlaceIn(c))
             f == CHOOSE s \in G : TRUE
  <2>1. G \in SUBSET S
    BY DEF StandingAt
  <2>2. G # {} /\ c.avail = Backfill!Merged(G, f) /\ c.qty = Backfill!Units(G)
    BY InventoryOfStock
  <2>3. f \in G
    BY <2>2
  <2> HIDE DEF G, f, S
  <2>4. /\ Backfill!IsFiniteSet(G) /\ \A s \in G : s.qty \in Nat
        /\ \A s \in G : s.avail # "in_stock" => s.qty = 0 \/ s.avail = "preorder"
    BY <1>1, <2>1, SubsetIsFinite DEF AreCounted
  <2>5. c.qty \in Nat /\ (Backfill!HasStock(c) <=> \E s \in G : Backfill!HasStock(s))
    BY <2>2, <2>3, <2>4, MergedHasStock
  <2> QED BY <2>5 DEF G
<1>3. \A s \in S : m[s] \in P /\ PlaceIn(m[s]) = StandsAt(s, V)
  BY InventoryOfStock
<1>4. m \in Surjection(S, P)
  <2>1. m \in [S -> P]
    BY <1>3
  <2>2. \A c \in P : \E s \in S : m[s] = c
    <3> TAKE c \in P
    <3>1. StandingAt(st, run, R, PlaceIn(c)) # {}
      BY InventoryOfStock
    <3>2. PICK s \in S : StandsAt(s, V) = PlaceIn(c)
      BY <3>1 DEF StandingAt
    <3> HIDE DEF m
    <3>3. m[s] \in P /\ PlaceIn(m[s]) = PlaceIn(c)
      BY <1>3, <3>2
    <3> QED BY <3>3, InventoryOfStock
  <2> QED BY <2>1, <2>2 DEF Surjection
<1>5. Backfill!IsFiniteSet(P)
  <2>1. IsFiniteSet(S)
    BY <1>1 DEF AreCounted, IsFiniteSet, Backfill!IsFiniteSet
  <2> HIDE DEF m, S, P
  <2>2. IsFiniteSet(P)
    BY <1>4, <2>1, FS_Surjection
  <2> QED BY <2>2 DEF IsFiniteSet, Backfill!IsFiniteSet
<1> QED BY <1>2, <1>5 DEF AreCounted

\* What an inventory and what the legacy rows have of a size in a store.
SoldAt(P, store, size) == {c \in P : c.store = store /\ c.size = size}
LoadedAt(R, store, size) == {r \in R : r.store = store /\ Backfill!SizeKey(r.size) = size}

\* Every unit of a store and size is in the inventory once.
LEMMA InventoryHasTheUnits ==
    ASSUME NEW R, AreRows(R), NEW st \in BOOLEAN, NEW run, NEW store, NEW size
    PROVE  Backfill!Units(SoldAt(InventoryOf(st, run, R), store, size))
             = Backfill!Units(LoadedAt(R, store, size))
<1> DEFINE V == Backfill!VariantRows(st, run, R)
           S == Backfill!StockRows(st, run, R)
           P == InventoryOf(st, run, R)
           R1 == {r \in R : r.store = store /\ Backfill!SizeKey(r.size) = size}
           S1 == {s \in S : s.store = store /\ Backfill!SizeKey(s.size) = size}
           P1 == {c \in P : c.store = store /\ c.size = size}
           m == [r \in R1 |-> CHOOSE s \in S : PlaceOf(s) = Backfill!Placed(st, run, r)]
           n == [s \in S1 |-> CHOOSE c \in P : PlaceIn(c) = StandsAt(s, V)]
<1>1. AreCounted(R1) /\ AreCounted(S1) /\ AreCounted(P1)
  <2>1. AreCounted(R)
    BY DEF AreRows, AreCounted
  <2>2. AreCounted(S) /\ AreCounted(P)
    BY StockIsCounted, InventoryIsCounted
  <2>3. R1 \in SUBSET R /\ S1 \in SUBSET S /\ P1 \in SUBSET P
    OBVIOUS
  <2> HIDE DEF R1, S1, P1, S, P
  <2> QED BY <2>1, <2>2, <2>3, PartIsCounted
<1>2. ASSUME NEW s \in S, NEW r \in R, PlaceOf(s) = Backfill!Placed(st, run, r)
      PROVE  r \in R1 <=> s \in S1
  <2>1. StandsAt(s, V) = RowStandsAt(st, run, r)
    BY <1>2, StockStandsAt
  <2> QED BY <2>1 DEF StandsAt, RowStandsAt
<1>3. ASSUME NEW s \in S, NEW c \in P, PlaceIn(c) = StandsAt(s, V)
      PROVE  s \in S1 <=> c \in P1
  BY <1>3 DEF StandsAt, PlaceIn
<1>4. ASSUME NEW r \in R1
      PROVE  m[r] \in S1 /\ PlaceOf(m[r]) = Backfill!Placed(st, run, r)
  <2>1. m[r] \in S /\ PlaceOf(m[r]) = Backfill!Placed(st, run, r)
    BY StockOfRows
  <2> HIDE DEF m
  <2> QED BY <1>2, <2>1
<1>5. ASSUME NEW s \in S1
      PROVE  n[s] \in P1 /\ PlaceIn(n[s]) = StandsAt(s, V)
  <2>1. n[s] \in P /\ PlaceIn(n[s]) = StandsAt(s, V)
    BY InventoryOfStock
  <2> HIDE DEF n
  <2> QED BY <1>3, <2>1
<1>6. m \in [R1 -> S1] /\ n \in [S1 -> P1]
  <2>1. m = [r \in R1 |-> m[r]] /\ n = [s \in S1 |-> n[s]]
    OBVIOUS
  <2> HIDE DEF m, n
  <2> QED BY <1>4, <1>5, <2>1
<1> HIDE DEF m, n
<1>7. ASSUME NEW s \in S1 PROVE s.qty = Backfill!Units({r \in R1 : m[r] = s})
  <2>1. s.qty = Backfill!Units(AtPlace(st, run, R, PlaceOf(s)))
    BY StockOfRows
  <2>2. \A r \in R1 : m[r] = s <=> Backfill!Placed(st, run, r) = PlaceOf(s)
    BY <1>4, StockOfRows
  <2>3. \A r \in R : Backfill!Placed(st, run, r) = PlaceOf(s) => r \in R1
    BY <1>2
  <2>4. AtPlace(st, run, R, PlaceOf(s)) = {r \in R1 : m[r] = s}
    BY <2>2, <2>3 DEF AtPlace
  <2> QED BY <2>1, <2>4
<1>8. ASSUME NEW c \in P1 PROVE c.qty = Backfill!Units({s \in S1 : n[s] = c})
  <2>1. c.qty = Backfill!Units(StandingAt(st, run, R, PlaceIn(c)))
    BY InventoryOfStock
  <2>2. \A s \in S1 : n[s] = c <=> StandsAt(s, V) = PlaceIn(c)
    BY <1>5, InventoryOfStock
  <2>3. \A s \in S : StandsAt(s, V) = PlaceIn(c) => s \in S1
    BY <1>3
  <2>4. StandingAt(st, run, R, PlaceIn(c)) = {s \in S1 : n[s] = c}
    BY <2>2, <2>3 DEF StandingAt
  <2> QED BY <2>1, <2>4
<1> HIDE DEF R1, S1, P1
<1>9. Backfill!Units(S1) = Backfill!Units(R1) /\ Backfill!Units(P1) = Backfill!Units(S1)
  BY <1>1, <1>6, <1>7, <1>8, CountedIsNumbers, UnitsOfGroups
<1> QED BY <1>9 DEF P1, R1, SoldAt, LoadedAt

\* The inventory shows a size in stock exactly if a legacy row has it.
LEMMA InventoryHasStock ==
    ASSUME NEW R, AreRows(R), NEW st \in BOOLEAN, NEW run, NEW c \in InventoryOf(st, run, R)
    PROVE  /\ \E r \in R : RowStandsAt(st, run, r) = PlaceIn(c)
           /\ Backfill!HasStock(c)
                <=> \E r \in R : RowStandsAt(st, run, r) = PlaceIn(c) /\ Backfill!HasStock(r)
<1> DEFINE V == Backfill!VariantRows(st, run, R)
           S == Backfill!StockRows(st, run, R)
           G == StandingAt(st, run, R, PlaceIn(c))
<1>1. G # {} /\ (Backfill!HasStock(c) <=> \E s \in G : Backfill!HasStock(s))
  BY InventoryOfStock, InventoryIsCounted
<1>2. \A s \in S : s \in G <=> StandsAt(s, V) = PlaceIn(c)
  BY DEF StandingAt
<1>3. G \subseteq S
  BY DEF StandingAt
<1> HIDE DEF G
<1>4. ASSUME NEW s \in S, NEW r \in R, PlaceOf(s) = Backfill!Placed(st, run, r)
      PROVE  StandsAt(s, V) = RowStandsAt(st, run, r)
  BY <1>4, StockStandsAt
<1>5. ASSUME NEW s \in S
      PROVE  /\ \E r \in R : PlaceOf(s) = Backfill!Placed(st, run, r)
             /\ Backfill!HasStock(s) <=> \E r \in R : /\ PlaceOf(s) = Backfill!Placed(st, run, r)
                                                      /\ Backfill!HasStock(r)
  <2>1. Backfill!HasStock(s) <=> \E r \in AtPlace(st, run, R, PlaceOf(s)) : Backfill!HasStock(r)
    BY StockIsCounted
  <2> QED BY <2>1, StockHasRow DEF AtPlace
<1>6. \A r \in R : \E s \in S : PlaceOf(s) = Backfill!Placed(st, run, r)
  BY StockOfRows
<1> HIDE DEF V, S
<1> QED BY <1>1, <1>2, <1>3, <1>4, <1>5, <1>6
-----------------------------------------------------------------------------
(* The products of a run *)

OfProduct(st, run, R, key) == {r \in R : Backfill!ProductKey(st, run, r) = key}
VariantsOf(V, key) == {v \in V : v.product = key}

\* The variants of a product span the prices of its rows, in their colors.
LEMMA PricesOfProduct ==
    ASSUME NEW R, AreRows(R), NEW st \in BOOLEAN, NEW run, NEW key,
           OfProduct(st, run, R, key) # {}
    PROVE  LET rows == OfProduct(st, run, R, key)
               own == VariantsOf(Backfill!VariantRows(st, run, R), key)
           IN /\ own # {}
              /\ Backfill!Min({w.low : w \in own}) = Backfill!Low(rows)
              /\ Backfill!Max({w.high : w \in own}) = Backfill!High(rows)
              /\ \A v \in own : v.color \in {r.color : r \in rows}
<1> DEFINE V == Backfill!VariantRows(st, run, R)
           rows == OfProduct(st, run, R, key)
           own == VariantsOf(V, key)
           Of(v) == OfVariant(st, run, R, v.key)
<1>1. rows \in SUBSET R /\ rows # {} /\ AreRows(rows)
  BY PartOfRows DEF OfProduct
<1>2. ASSUME NEW v \in own
      PROVE  /\ AreRows(Of(v)) /\ Of(v) # {} /\ Of(v) \subseteq rows
             /\ v.low = Backfill!Low(Of(v)) /\ v.high = Backfill!High(Of(v))
             /\ \A r \in Of(v) : v.color = r.color
  <2>1. v \in V /\ v.product = key
    BY DEF VariantsOf
  <2>2. /\ Of(v) # {} /\ v.low = Backfill!Low(Of(v)) /\ v.high = Backfill!High(Of(v))
        /\ \A r \in Of(v) : v.product = Backfill!ProductKey(st, run, r) /\ v.color = r.color
    BY <2>1, VariantsOfRows
  <2>3. Of(v) \in SUBSET R
    BY DEF OfVariant
  <2>4. Of(v) \subseteq rows
    BY <2>1, <2>2, <2>3 DEF OfProduct
  <2> HIDE DEF Of
  <2> QED BY <2>2, <2>3, <2>4, PartOfRows
<1>3. ASSUME NEW r \in rows PROVE \E v \in own : r \in Of(v)
  <2>1. r \in R /\ Backfill!ProductKey(st, run, r) = key
    BY DEF OfProduct
  <2>2. PICK v \in V : v.key = Backfill!VariantKey(st, run, r)
    BY <2>1, VariantsOfRows
  <2>3. r \in Of(v)
    BY <2>1, <2>2 DEF OfVariant
  <2>4. v.product = key
    BY <2>1, <2>3, VariantsOfRows
  <2> QED BY <2>3, <2>4 DEF VariantsOf
<1> HIDE DEF Of, own, rows
<1>4. \A v \in own : /\ v.low \in Int /\ v.high \in Int
                     /\ \E r \in Of(v) : r.price = v.low
                     /\ \E r \in Of(v) : r.price = v.high
                     /\ \A r \in Of(v) : v.low <= r.price /\ r.price <= v.high
  BY <1>2, LowIsLowest, HighIsHighest DEF AreRows
<1>5. Backfill!Min({w.low : w \in own}) = Backfill!Low(rows)
  <2> DEFINE L == {w.low : w \in own}
  <2>1. PICK r \in rows : r.price = Backfill!Low(rows)
    BY <1>1, LowIsLowest
  <2>2. PICK v \in own : r \in Of(v)
    BY <1>3
  <2>3. \A w \in own : r.price <= w.low
    BY <1>1, <1>2, <1>4, <2>1, LowIsLowest
  <2>4. v.low = r.price
    BY <1>1, <1>4, <2>2, <2>3 DEF AreRows
  <2>5. L \in SUBSET Int /\ r.price \in L /\ \A n \in L : r.price <= n
    BY <1>4, <2>3, <2>4
  <2> HIDE DEF L
  <2>6. Backfill!Min(L) = r.price
    BY <2>5, MinIs
  <2> QED BY <2>1, <2>6 DEF L
<1>6. Backfill!Max({w.high : w \in own}) = Backfill!High(rows)
  <2> DEFINE L == {w.high : w \in own}
  <2>1. PICK r \in rows : r.price = Backfill!High(rows)
    BY <1>1, HighIsHighest
  <2>2. PICK v \in own : r \in Of(v)
    BY <1>3
  <2>3. \A w \in own : w.high <= r.price
    BY <1>1, <1>2, <1>4, <2>1, HighIsHighest
  <2>4. v.high = r.price
    BY <1>1, <1>4, <2>2, <2>3 DEF AreRows
  <2>5. L \in SUBSET Int /\ r.price \in L /\ \A n \in L : n <= r.price
    BY <1>4, <2>3, <2>4
  <2> HIDE DEF L
  <2>6. Backfill!Max(L) = r.price
    BY <2>5, MaxIs
  <2> QED BY <2>1, <2>6 DEF L
<1>7. own # {}
  BY <1>1, <1>3
<1>8. \A v \in own : v.color \in {r.color : r \in rows}
  BY <1>2
<1> QED BY <1>5, <1>6, <1>7, <1>8 DEF own, rows

IsProduct(p) == p = [key |-> p.key, run |-> p.run, low |-> p.low, high |-> p.high,
                     color |-> p.color, primary |-> p.primary]
IsPriced(p, rows) ==
    /\ p.low = Backfill!Low(rows) /\ p.high = Backfill!High(rows)
    /\ p.color \in {r.color : r \in rows}

\* What the second transaction makes of a product.
LEMMA DescribedIsPriced ==
    ASSUME NEW R, AreRows(R), NEW st \in BOOLEAN, NEW run, NEW p, IsProduct(p),
           OfProduct(st, run, R, p.key) # {}
    PROVE  LET D == Backfill!Described(p, Backfill!VariantRows(st, run, R))
           IN /\ D # {}
              /\ \A d \in D : /\ IsProduct(d) /\ d.key = p.key /\ d.run = p.run
                              /\ IsPriced(d, OfProduct(st, run, R, p.key))
<1> DEFINE V == Backfill!VariantRows(st, run, R)
           own == VariantsOf(V, p.key)
           low == Backfill!Min({w.low : w \in own})
           high == Backfill!Max({w.high : w \in own})
           named == {v \in own : v.key = p.primary}
           from == IF named # {} THEN named ELSE own
           made(v) == [p EXCEPT !.low = low, !.high = high, !.color = v.color]
<1>1. Backfill!Described(p, V) = {made(v) : v \in from}
  BY DEF Backfill!Described, VariantsOf
<1>2. /\ own # {} /\ low = Backfill!Low(OfProduct(st, run, R, p.key))
      /\ high = Backfill!High(OfProduct(st, run, R, p.key))
      /\ \A v \in own : v.color \in {r.color : r \in OfProduct(st, run, R, p.key)}
  <2>1. \A key : OfProduct(st, run, R, key) # {} =>
          LET rows == OfProduct(st, run, R, key)
              mine == VariantsOf(V, key)
          IN /\ mine # {}
             /\ Backfill!Min({w.low : w \in mine}) = Backfill!Low(rows)
             /\ Backfill!Max({w.high : w \in mine}) = Backfill!High(rows)
             /\ \A v \in mine : v.color \in {r.color : r \in rows}
    BY PricesOfProduct
  <2> HIDE DEF V
  <2> QED BY <2>1
<1>3. from # {} /\ from \subseteq own
  BY <1>2
<1> HIDE DEF low, high, own, V, from
<1>4. ASSUME NEW v
      PROVE  made(v) = [key |-> p.key, run |-> p.run, low |-> low, high |-> high,
                        color |-> v.color, primary |-> p.primary]
  <2>1. DOMAIN p = {"key", "run", "low", "high", "color", "primary"}
    BY DEF IsProduct
  <2>2. DOMAIN made(v) = DOMAIN p /\ made(v) = [x \in DOMAIN made(v) |-> made(v)[x]]
    BY <2>1
  <2>3. /\ made(v).key = p.key /\ made(v).run = p.run /\ made(v).primary = p.primary
        /\ made(v).low = low /\ made(v).high = high /\ made(v).color = v.color
    BY <2>1
  <2> HIDE DEF made
  <2> QED BY <2>1, <2>2, <2>3
<1>5. ASSUME NEW v \in from
      PROVE  /\ IsProduct(made(v)) /\ made(v).key = p.key /\ made(v).run = p.run
             /\ IsPriced(made(v), OfProduct(st, run, R, p.key))
  <2>1. /\ made(v).key = p.key /\ made(v).run = p.run /\ made(v).low = low
        /\ made(v).high = high /\ made(v).color = v.color /\ made(v).primary = p.primary
    BY <1>4
  <2>2. made(v) = [key |-> p.key, run |-> p.run, low |-> low, high |-> high,
                   color |-> v.color, primary |-> p.primary]
    BY <1>4
  <2> HIDE DEF made
  <2> QED BY <1>2, <1>3, <2>1, <2>2 DEF IsProduct, IsPriced
<1> HIDE DEF made
<1> QED BY <1>1, <1>3, <1>5 DEF V

\* The first transaction makes one product a key.
LEMMA ProductsOfRows ==
    ASSUME NEW R, NEW st, NEW run
    PROVE  LET P == Backfill!ProductRows(st, run, R)
           IN /\ {p.key : p \in P} = {Backfill!ProductKey(st, run, r) : r \in R}
              /\ \A p \in P : IsProduct(p) /\ p.run = run
<1> DEFINE G(key) == {r \in R : Backfill!ProductKey(st, run, r) = key}
           row(key) == [key |-> key, run |-> run, low |-> Backfill!Low(G(key)),
                        high |-> Backfill!High(G(key)), color |-> Backfill!First(G(key)).color,
                        primary |-> IF st THEN Backfill!VariantKey(st, run, Backfill!First(G(key)))
                                    ELSE None]
           K == {Backfill!ProductKey(st, run, r) : r \in R}
<1>1. Backfill!ProductRows(st, run, R) = {row(key) : key \in K}
  BY DEF Backfill!ProductRows
<1>2. \A key : row(key).key = key /\ row(key).run = run /\ IsProduct(row(key))
  BY DEF IsProduct
<1>3. {p.key : p \in {row(key) : key \in K}} = K
  <2> HIDE DEF row, K
  <2> QED BY <1>2
<1>4. \A p \in {row(key) : key \in K} : IsProduct(p) /\ p.run = run
  <2> HIDE DEF row, K
  <2> QED BY <1>2
<1> HIDE DEF row
<1> QED BY <1>1, <1>3, <1>4
-----------------------------------------------------------------------------
(* The inductive invariant of the backfill *)

\* What a run has in the tables.
Own(run) == {p \in products : p.run = run}
OwnKeys(run) == {p.key : p \in Own(run)}
OwnVariants(run) == {v \in variants : v.run = run}
OwnStock(run) == {s \in stock : s.run = run}
Shown(run) == {c \in canonical : c.product \in OwnKeys(run)}

\* Its tables, filled from its legacy rows by the service or by the migration.
IsTabled(st, run) ==
    /\ legacy[run] \in Stocks
    /\ OwnKeys(run) = {Backfill!ProductKey(st, run, r) : r \in legacy[run]}
    /\ OwnVariants(run) = Backfill!VariantRows(st, run, legacy[run])
    /\ OwnStock(run) = Backfill!StockRows(st, run, legacy[run])
IsUntabled(run) == Own(run) = {} /\ OwnVariants(run) = {} /\ OwnStock(run) = {}

\* Its products and their inventory, completed from these tables.
IsCompleted(st, run) ==
    /\ Shown(run) = InventoryOf(st, run, legacy[run])
    /\ \A p \in Own(run) : IsPriced(p, OfProduct(st, run, legacy[run], p.key))

RunIsWhole(run) ==
    /\ IsUntabled(run) \/ \E st \in BOOLEAN : IsTabled(st, run)
    /\ running = run => run \notin done /\ IsTabled(TRUE, run)
    /\ run \in done => \E st \in BOOLEAN : IsTabled(st, run) /\ IsCompleted(st, run)

\* No key is of two runs.
KeysAreOfOneRun ==
    /\ \A p, q \in products : p.key = q.key => p.run = q.run
    /\ \A v, w \in variants : v.key = w.key => v.run = w.run

BackfillInv ==
    /\ legacy \in [Sessions -> Stocks \cup {None}] /\ done \subseteq Sessions
    /\ \A t \in products \cup variants \cup stock : t.run \in Sessions
    /\ \A p \in products : IsProduct(p)
    /\ KeysAreOfOneRun
    /\ \A run \in Sessions : RunIsWhole(run)

\* A step that leaves alone what a run has leaves it whole.
LEMMA RunStays ==
    ASSUME NEW run, RunIsWhole(run), legacy'[run] = legacy[run], Own(run)' = Own(run),
           OwnVariants(run)' = OwnVariants(run), OwnStock(run)' = OwnStock(run),
           Shown(run)' = Shown(run), running' = run => running = run,
           run \in done' => run \in done
    PROVE  RunIsWhole(run)'
<1>1. \A st : IsTabled(st, run)' <=> IsTabled(st, run)
  BY DEF IsTabled, OwnKeys
<1>2. \A st : IsCompleted(st, run)' <=> IsCompleted(st, run)
  BY DEF IsCompleted
<1>3. IsUntabled(run)' <=> IsUntabled(run)
  BY DEF IsUntabled
<1> QED BY <1>1, <1>2, <1>3 DEF RunIsWhole

\* A legacy row stands in the tables under the key that its tables were filled with.
LEMMA StandsUnderItsKey ==
    ASSUME BackfillInv, NEW run \in Sessions, NEW st \in BOOLEAN, IsTabled(st, run),
           NEW key
    PROVE  Backfill!Stands(run, key) = OfProduct(st, run, legacy[run], key)
<1>1. ASSUME NEW r \in legacy[run]
      PROVE  (IF \E p \in products : p.key = Backfill!ServiceKey(run, r)
              THEN Backfill!ServiceKey(run, r) ELSE Backfill!NameKey(run, r))
               = Backfill!ProductKey(st, run, r)
  <2>1. CASE st
    <3>1. Backfill!ProductKey(st, run, r) = Backfill!ServiceKey(run, r)
      BY <2>1 DEF Backfill!ProductKey
    <3>2. Backfill!ProductKey(st, run, r) \in OwnKeys(run)
      BY DEF IsTabled
    <3> QED BY <3>1, <3>2 DEF OwnKeys, Own
  <2>2. CASE ~ st
    <3>1. Backfill!ProductKey(st, run, r) = Backfill!NameKey(run, r)
      BY <2>2 DEF Backfill!ProductKey
    <3>2. ASSUME r.style # None, NEW p \in products, p.key = Backfill!ServiceKey(run, r)
          PROVE  FALSE
      <4>1. p.run \in Sessions /\ RunIsWhole(p.run) /\ p \in Own(p.run)
        BY DEF BackfillInv, Own
      <4>2. PICK b \in BOOLEAN : IsTabled(b, p.run)
        BY <4>1 DEF RunIsWhole, IsUntabled
      <4>3. PICK q \in legacy[p.run] : p.key = Backfill!ProductKey(b, p.run, q)
        BY <4>1, <4>2 DEF IsTabled, OwnKeys
      <4>4. p.run = run
        <5>1. Backfill!ServiceKey(run, r) = Backfill!ProductKey(b, p.run, q)
          BY <3>2, <4>3
        <5> QED BY <3>2, <5>1, FamilyKeys
      <4>5. PICK u \in legacy[run] : p.key = Backfill!ProductKey(st, run, u)
        BY <4>1, <4>4 DEF IsTabled, OwnKeys
      <4>6. Backfill!ServiceKey(run, r) = Backfill!ProductKey(st, run, u)
        BY <3>2, <4>5
      <4> QED BY <2>2, <3>2, <4>6, FamilyKeys
    <3>3. r.style = None => Backfill!ServiceKey(run, r) = Backfill!NameKey(run, r)
      BY DEF Backfill!ServiceKey
    <3> QED BY <3>1, <3>2, <3>3
  <2> QED BY <2>1, <2>2
<1> QED BY <1>1 DEF Backfill!Stands, OfProduct

\* What a completed run holds.
LEMMA CompletedRunHoldsTheRows ==
    ASSUME BackfillInv, NEW run \in done
    PROVE  /\ \A c, d \in Shown(run) : PlaceIn(c) = PlaceIn(d) => c = d
           /\ \A store, size : Backfill!Units(SoldAt(Shown(run), store, size))
                                = Backfill!Units(LoadedAt(legacy[run], store, size))
           /\ \A c \in Shown(run) :
                Backfill!HasStock(c)
                  <=> \E r \in Backfill!Stands(run, c.product) :
                        /\ Backfill!HasStock(r) /\ r.store = c.store
                        /\ Backfill!SizeKey(r.size) = c.size
           /\ \A p \in Own(run) : IsPriced(p, Backfill!Stands(run, p.key))
<1>1. run \in Sessions /\ RunIsWhole(run)
  BY DEF BackfillInv
<1>2. PICK st \in BOOLEAN : IsTabled(st, run) /\ IsCompleted(st, run)
  BY <1>1 DEF RunIsWhole
<1> DEFINE R == legacy[run]
           P == InventoryOf(st, run, R)
<1>3. AreRows(R)
  BY <1>2, StocksAreRows DEF IsTabled
<1>4. Shown(run) = P
  BY <1>2 DEF IsCompleted
<1>5. \A key : Backfill!Stands(run, key) = OfProduct(st, run, R, key)
  BY <1>1, <1>2, StandsUnderItsKey
<1>6. \A c, d \in P : PlaceIn(c) = PlaceIn(d) => c = d
  BY <1>3, InventoryOfStock
<1>7. \A store, size :
        Backfill!Units(SoldAt(P, store, size)) = Backfill!Units(LoadedAt(R, store, size))
  BY <1>3, InventoryHasTheUnits
<1>8. ASSUME NEW c \in P
      PROVE  Backfill!HasStock(c)
               <=> \E r \in OfProduct(st, run, R, c.product) :
                     /\ Backfill!HasStock(r) /\ r.store = c.store
                     /\ Backfill!SizeKey(r.size) = c.size
  <2>1. Backfill!HasStock(c)
          <=> \E r \in R : RowStandsAt(st, run, r) = PlaceIn(c) /\ Backfill!HasStock(r)
    BY <1>3, InventoryHasStock
  <2>2. \A r \in R : RowStandsAt(st, run, r) = PlaceIn(c)
                       <=> /\ Backfill!ProductKey(st, run, r) = c.product
                           /\ r.store = c.store /\ Backfill!SizeKey(r.size) = c.size
    BY DEF RowStandsAt, PlaceIn
  <2> QED BY <2>1, <2>2 DEF OfProduct
<1>9. \A p \in Own(run) : IsPriced(p, OfProduct(st, run, R, p.key))
  BY <1>2 DEF IsCompleted
<1> HIDE DEF P
<1> QED BY <1>4, <1>5, <1>6, <1>7, <1>8, <1>9

\* The invariant says all of the property.
LEMMA CompletedHoldsTheRows == BackfillInv => Backfill!CatalogHoldsTheRows
<1> SUFFICES ASSUME BackfillInv, NEW run \in done
             PROVE  LET own == {p \in products : p.run = run}
                        shown == {c \in canonical : c.product \in {p.key : p \in own}}
                    IN /\ \A c, d \in shown :
                            <<c.product, c.store, c.size>> = <<d.product, d.store, d.size>>
                              => c = d
                       /\ \A store \in {r.store : r \in legacy[run]}, size \in {"", "m"} :
                            Backfill!Units({c \in shown : c.store = store /\ c.size = size})
                              = Backfill!Units({r \in legacy[run] :
                                   r.store = store /\ Backfill!SizeKey(r.size) = size})
                       /\ \A c \in shown :
                            Backfill!HasStock(c)
                              <=> \E r \in Backfill!Stands(run, c.product) :
                                    /\ Backfill!HasStock(r) /\ r.store = c.store
                                    /\ Backfill!SizeKey(r.size) = c.size
                       /\ \A p \in own : LET rows == Backfill!Stands(run, p.key)
                                         IN /\ p.low = Backfill!Low(rows)
                                            /\ p.high = Backfill!High(rows)
                                            /\ p.color \in {r.color : r \in rows}
  BY DEF Backfill!CatalogHoldsTheRows
<1> DEFINE own == {p \in products : p.run = run}
           shown == {c \in canonical : c.product \in {p.key : p \in own}}
<1>1. own = Own(run) /\ shown = Shown(run)
  BY DEF Own, OwnKeys, Shown
<1> HIDE DEF own, shown
<1>2. \A c, d \in shown : <<c.product, c.store, c.size>> = <<d.product, d.store, d.size>> => c = d
  BY <1>1, CompletedRunHoldsTheRows DEF PlaceIn
<1>3. \A store \in {r.store : r \in legacy[run]}, size \in {"", "m"} :
        Backfill!Units({c \in shown : c.store = store /\ c.size = size})
          = Backfill!Units({r \in legacy[run] :
               r.store = store /\ Backfill!SizeKey(r.size) = size})
  <2> TAKE store \in {r.store : r \in legacy[run]}, size \in {"", "m"}
  <2>1. Backfill!Units(SoldAt(shown, store, size))
          = Backfill!Units(LoadedAt(legacy[run], store, size))
    BY <1>1, CompletedRunHoldsTheRows
  <2> QED BY <2>1 DEF SoldAt, LoadedAt
<1>4. \A c \in shown : Backfill!HasStock(c)
                          <=> \E r \in Backfill!Stands(run, c.product) :
                                /\ Backfill!HasStock(r) /\ r.store = c.store
                                /\ Backfill!SizeKey(r.size) = c.size
  BY <1>1, CompletedRunHoldsTheRows
<1>5. \A p \in own : LET rows == Backfill!Stands(run, p.key)
                      IN /\ p.low = Backfill!Low(rows) /\ p.high = Backfill!High(rows)
                         /\ p.color \in {r.color : r \in rows}
  BY <1>1, CompletedRunHoldsTheRows DEF IsPriced
<1> QED BY <1>2, <1>3, <1>4, <1>5, Zenon DEF own, shown
-----------------------------------------------------------------------------
(* The steps of the backfill *)

\* Nothing of a run is in the tables before it is loaded.
LEMMA LoadKeepsBackfill ==
    ASSUME BackfillInv, NEW run \in Sessions, Backfill!Load(run)
    PROVE  BackfillInv'
<1>1. /\ running = None /\ legacy[run] = None
      /\ UNCHANGED <<products, variants, stock, canonical, running, done>>
  BY DEF Backfill!Load
<1>2. PICK rows \in Stocks : legacy' = [legacy EXCEPT ![run] = rows]
  BY DEF Backfill!Load
<1>3. legacy' \in [Sessions -> Stocks \cup {None}]
  BY <1>2 DEF BackfillInv
<1>4. ASSUME NEW q \in Sessions PROVE RunIsWhole(q)'
  <2>1. /\ Own(q)' = Own(q) /\ OwnVariants(q)' = OwnVariants(q) /\ OwnStock(q)' = OwnStock(q)
        /\ Shown(q)' = Shown(q)
    BY <1>1 DEF Own, OwnVariants, OwnStock, Shown, OwnKeys
  <2>2. RunIsWhole(q)
    BY DEF BackfillInv
  <2>3. CASE q # run
    <3>1. legacy'[q] = legacy[q]
      BY <1>2, <2>3 DEF BackfillInv
    <3> QED BY <1>1, <2>1, <2>2, <3>1, RunStays
  <2>4. CASE q = run
    <3>1. \A st : ~ IsTabled(st, run)
      BY <1>1, ReportAssumption DEF IsTabled, Backfill!BackfillAssumption
    <3>2. IsUntabled(q) /\ q \notin done /\ running # q
      BY <2>2, <2>4, <3>1 DEF RunIsWhole
    <3> QED BY <1>1, <2>1, <3>2 DEF RunIsWhole, IsUntabled
  <2> QED BY <2>3, <2>4
<1> QED BY <1>1, <1>3, <1>4 DEF BackfillInv, KeysAreOfOneRun

LEMMA CrashKeepsBackfill ==
    ASSUME BackfillInv, Backfill!Crash
    PROVE  BackfillInv'
<1>1. running' = None /\ UNCHANGED <<legacy, products, variants, stock, canonical, done>>
  BY DEF Backfill!Crash
<1>2. ASSUME NEW q \in Sessions PROVE RunIsWhole(q)'
  <2>1. /\ Own(q)' = Own(q) /\ OwnVariants(q)' = OwnVariants(q) /\ OwnStock(q)' = OwnStock(q)
        /\ Shown(q)' = Shown(q)
    BY <1>1 DEF Own, OwnVariants, OwnStock, Shown, OwnKeys
  <2>2. RunIsWhole(q) /\ running' # q
    BY <1>1, ReportAssumption DEF BackfillInv, Backfill!BackfillAssumption
  <2> QED BY <1>1, <2>1, <2>2, RunStays
<1> QED BY <1>1, <1>2 DEF BackfillInv, KeysAreOfOneRun

\* The first transaction fills the tables of its run, and keeps those of the others.
LEMMA NormalizeKeepsBackfill ==
    ASSUME BackfillInv, NEW run \in Sessions, Backfill!Normalize(run)
    PROVE  BackfillInv'
<1> DEFINE R == legacy[run]
           P == Backfill!ProductRows(TRUE, run, R)
           V == Backfill!VariantRows(TRUE, run, R)
           S == Backfill!StockRows(TRUE, run, R)
<1>1. /\ running = None /\ R # None /\ running' = run /\ done' = done \ {run}
      /\ legacy' = legacy
      /\ products' = {p \in products : p.run # run} \cup P
      /\ variants' = {v \in variants : v.run # run} \cup V
      /\ stock' = {s \in stock : s.run # run} \cup S
      /\ canonical' = {c \in canonical : \E p \in products : p.key = c.product /\ p.run # run}
      /\ Backfill!HasUniqueKeys(products', variants', stock')
  BY DEF Backfill!Normalize
<1>2. R \in Stocks /\ AreRows(R)
  BY <1>1, StocksAreRows DEF BackfillInv
<1>3. /\ {p.key : p \in P} = {Backfill!ProductKey(TRUE, run, r) : r \in R}
      /\ \A p \in P : IsProduct(p) /\ p.run = run
  BY ProductsOfRows
<1>4. (\A v \in V : v.run = run) /\ (\A s \in S : s.run = run)
  BY <1>2, VariantsOfRows, StockOfRows
<1> HIDE DEF P, V, S
<1>5. KeysAreOfOneRun'
  BY <1>1 DEF Backfill!HasUniqueKeys, KeysAreOfOneRun
<1>6. RunIsWhole(run)'
  <2>1. Own(run)' = P /\ OwnVariants(run)' = V /\ OwnStock(run)' = S
    BY <1>1, <1>3, <1>4 DEF Own, OwnVariants, OwnStock
  <2>2. OwnKeys(run)' = {Backfill!ProductKey(TRUE, run, r) : r \in R}
    BY <1>3, <2>1 DEF OwnKeys
  <2>3. IsTabled(TRUE, run)'
    BY <1>1, <1>2, <2>1, <2>2 DEF IsTabled, V, S
  <2>4. run \notin done'
    BY <1>1
  <2> QED BY <2>3, <2>4 DEF RunIsWhole
<1>7. ASSUME NEW q \in Sessions, q # run PROVE RunIsWhole(q)'
  <2>1. Own(q)' = Own(q) /\ OwnVariants(q)' = OwnVariants(q) /\ OwnStock(q)' = OwnStock(q)
    BY <1>1, <1>3, <1>4, <1>7 DEF Own, OwnVariants, OwnStock
  <2>2. Shown(q)' = Shown(q)
    <3>1. OwnKeys(q)' = OwnKeys(q)
      BY <2>1 DEF OwnKeys
    <3>2. \A c \in canonical : c.product \in OwnKeys(q) => c \in canonical'
      BY <1>1, <1>7 DEF OwnKeys, Own
    <3>3. canonical' \subseteq canonical
      BY <1>1
    <3> QED BY <3>1, <3>2, <3>3 DEF Shown
  <2>3. RunIsWhole(q) /\ running' # q /\ legacy'[q] = legacy[q] /\ (q \in done' => q \in done)
    BY <1>1, <1>7 DEF BackfillInv
  <2> QED BY <2>1, <2>2, <2>3, RunStays
<1>8. /\ \A t \in products' \cup variants' \cup stock' : t.run \in Sessions
      /\ \A p \in products' : IsProduct(p)
  BY <1>1, <1>3, <1>4 DEF BackfillInv
<1>9. legacy' \in [Sessions -> Stocks \cup {None}] /\ done' \subseteq Sessions
  BY <1>1 DEF BackfillInv
<1> QED BY <1>5, <1>6, <1>7, <1>8, <1>9 DEF BackfillInv

\* The rows that the second transaction reads are those of its run.
LEMMA ReadRowsAreOwn ==
    ASSUME BackfillInv, NEW run \in Sessions, NEW st \in BOOLEAN, IsTabled(st, run)
    PROVE  /\ {v \in variants : v.product \in OwnKeys(run)} = OwnVariants(run)
           /\ {s \in stock : s.variant \in {v.key : v \in OwnVariants(run)}} = OwnStock(run)
<1>1. ASSUME NEW q \in Sessions, NEW b \in BOOLEAN, IsTabled(b, q)
      PROVE  /\ \A v \in OwnVariants(q) : v.product \in OwnKeys(q)
             /\ \A s \in OwnStock(q) : \E v \in OwnVariants(q) : v.key = s.variant
  <2> DEFINE R == legacy[q]
             V == Backfill!VariantRows(b, q, R)
             S == Backfill!StockRows(b, q, R)
  <2>1. AreRows(R) /\ OwnVariants(q) = V /\ OwnStock(q) = S
    BY <1>1, StocksAreRows DEF IsTabled
  <2>2. ASSUME NEW v \in V PROVE v.product \in OwnKeys(q)
    <3>1. PICK r \in R : v.product = Backfill!ProductKey(b, q, r)
      <4>1. OfVariant(b, q, R, v.key) # {}
        BY <2>1, VariantsOfRows
      <4>2. PICK r \in OfVariant(b, q, R, v.key) : TRUE
        BY <4>1
      <4>3. v.product = Backfill!ProductKey(b, q, r)
        BY <2>1, <4>2, VariantsOfRows
      <4> QED BY <4>2, <4>3 DEF OfVariant
    <3> QED BY <1>1, <3>1 DEF IsTabled
  <2>3. ASSUME NEW s \in S PROVE \E v \in V : v.key = s.variant
    <3>1. PICK r \in R : Backfill!Placed(b, q, r) = PlaceOf(s)
      BY <2>1, StockHasRow
    <3>2. s.variant = Backfill!VariantKey(b, q, r)
      <4>1. PlaceOf(s).variant = s.variant
        BY DEF PlaceOf
      <4>2. Backfill!Placed(b, q, r).variant = Backfill!VariantKey(b, q, r)
        BY DEF Backfill!Placed
      <4> QED BY <3>1, <4>1, <4>2
    <3> QED BY <2>1, <3>2, VariantsOfRows
  <2> HIDE DEF V, S
  <2> QED BY <2>1, <2>2, <2>3
<1>2. \A q \in Sessions : \/ IsUntabled(q)
                          \/ \E b \in BOOLEAN : IsTabled(b, q)
  BY DEF BackfillInv, RunIsWhole
<1>3. ASSUME NEW v \in variants, v.product \in OwnKeys(run) PROVE v.run = run
  <2>1. v.run \in Sessions /\ v \in OwnVariants(v.run)
    BY DEF BackfillInv, OwnVariants
  <2>2. v.product \in OwnKeys(v.run)
    BY <1>1, <1>2, <2>1 DEF IsUntabled
  <2> QED BY <1>3, <2>2 DEF OwnKeys, Own, BackfillInv, KeysAreOfOneRun
<1>4. ASSUME NEW s \in stock, s.variant \in {v.key : v \in OwnVariants(run)} PROVE s.run = run
  <2>1. s.run \in Sessions /\ s \in OwnStock(s.run)
    BY DEF BackfillInv, OwnStock
  <2>2. PICK v \in OwnVariants(s.run) : v.key = s.variant
    BY <1>1, <1>2, <2>1 DEF IsUntabled
  <2> QED BY <1>4, <2>2 DEF OwnVariants, BackfillInv, KeysAreOfOneRun
<1>5. \A v \in OwnVariants(run) : v \in variants /\ v.product \in OwnKeys(run)
  BY <1>1 DEF OwnVariants
<1>6. \A s \in OwnStock(run) : s \in stock /\ s.variant \in {v.key : v \in OwnVariants(run)}
  BY <1>1 DEF OwnStock
<1> QED BY <1>3, <1>4, <1>5, <1>6 DEF OwnVariants, OwnStock

\* The second transaction completes the products of its run, and those only.
LEMMA AuthorKeepsBackfill ==
    ASSUME BackfillInv, NEW run \in Sessions, Backfill!Author(run)
    PROVE  BackfillInv'
<1> DEFINE st == TRUE
           R == legacy[run]
           V == Backfill!VariantRows(st, run, R)
           P == InventoryOf(st, run, R)
           D(p) == Backfill!Described(p, V)
           own == Own(run)
           made == UNION {D(p) : p \in own}
<1>0. st \in BOOLEAN
  OBVIOUS
<1> HIDE DEF st
<1>1. running = run /\ IsTabled(st, run) /\ AreRows(R)
  <2>1. running = run
    BY DEF Backfill!Author
  <2>2. IsTabled(st, run)
    BY <2>1 DEF BackfillInv, RunIsWhole, st
  <2> QED BY <2>1, <2>2, StocksAreRows DEF IsTabled
<1>2. /\ canonical' = {c \in canonical : c.product \notin OwnKeys(run)} \cup P
      /\ products' = (products \ own) \cup made
      /\ running' = None /\ done' = done \cup {run}
      /\ UNCHANGED <<legacy, variants, stock>>
  <2> DEFINE vs == {v \in variants : v.product \in OwnKeys(run)}
             ss == {s \in stock : s.variant \in {v.key : v \in vs}}
  <2>1. /\ canonical' = {c \in canonical : c.product \notin OwnKeys(run)}
                          \cup Backfill!Pooled(ss, vs)
        /\ products' = (products \ own) \cup UNION {Backfill!Described(p, vs) : p \in own}
        /\ running' = None /\ done' = done \cup {run}
        /\ UNCHANGED <<legacy, variants, stock>>
    BY DEF Backfill!Author, Own, OwnKeys
  <2>2. vs = V /\ ss = Backfill!StockRows(st, run, R)
    BY <1>0, <1>1, ReadRowsAreOwn DEF IsTabled
  <2> HIDE DEF vs, ss
  <2> QED BY <2>1, <2>2 DEF InventoryOf
<1>3. \A p \in own : IsProduct(p) /\ p.run = run /\ p.key \in OwnKeys(run)
  BY DEF Own, OwnKeys, BackfillInv
<1>4. ASSUME NEW p, IsProduct(p), OfProduct(st, run, R, p.key) # {}
       PROVE  /\ Backfill!Described(p, Backfill!VariantRows(st, run, R)) # {}
              /\ \A d \in Backfill!Described(p, Backfill!VariantRows(st, run, R)) :
                   /\ IsProduct(d) /\ d.key = p.key /\ d.run = p.run
                   /\ IsPriced(d, OfProduct(st, run, R, p.key))
  <2>1. AreRows(R)
    BY <1>1
  <2> HIDE DEF R
  <2>2. Backfill!Described(p, Backfill!VariantRows(st, run, R)) # {}
    BY <1>0, <1>4, <2>1, DescribedIsPriced
  <2>3. \A d \in Backfill!Described(p, Backfill!VariantRows(st, run, R)) :
          /\ IsProduct(d) /\ d.key = p.key /\ d.run = p.run
          /\ IsPriced(d, OfProduct(st, run, R, p.key))
    BY <1>0, <1>4, <2>1, DescribedIsPriced
  <2> QED BY <2>2, <2>3
<1>5. ASSUME NEW p \in own
      PROVE  /\ D(p) # {}
             /\ \A d \in D(p) : /\ IsProduct(d) /\ d.key = p.key /\ d.run = run
                                /\ IsPriced(d, OfProduct(st, run, R, p.key))
  <2>1. OfProduct(st, run, R, p.key) # {}
    BY <1>1, <1>3 DEF IsTabled, OfProduct
  <2>2. IsProduct(p) /\ p.run = run
    BY <1>3
  <2> HIDE DEF R
  <2>3. /\ Backfill!Described(p, V) # {}
        /\ \A d \in Backfill!Described(p, V) :
             /\ IsProduct(d) /\ d.key = p.key /\ d.run = p.run
             /\ IsPriced(d, OfProduct(st, run, R, p.key))
    BY <2>1, <2>2, <1>4
  <2> QED BY <2>2, <2>3
<1> HIDE DEF V, D, own
<1>6. /\ \A d \in made : /\ IsProduct(d) /\ d.run = run
                         /\ IsPriced(d, OfProduct(st, run, R, d.key))
      /\ \A d \in made : \E p \in own : d.key = p.key
      /\ \A p \in own : \E d \in made : d.key = p.key
  BY <1>5
<1> HIDE DEF made
<1>7. Own(run)' = made /\ \A q \in Sessions : q # run => Own(q)' = Own(q)
  BY <1>2, <1>3, <1>6 DEF Own, own
<1>8. OwnKeys(run)' = OwnKeys(run) /\ \A q \in Sessions : q # run => OwnKeys(q)' = OwnKeys(q)
  BY <1>6, <1>7 DEF OwnKeys, own
<1>9. \A q \in Sessions : OwnVariants(q)' = OwnVariants(q) /\ OwnStock(q)' = OwnStock(q)
  BY <1>2 DEF OwnVariants, OwnStock
<1>10. \A c \in P : c.product \in OwnKeys(run)
  <2> TAKE c \in P
  <2>1. PICK r \in R : RowStandsAt(st, run, r) = PlaceIn(c)
    BY <1>0, <1>1, InventoryHasStock
  <2>2. c.product = Backfill!ProductKey(st, run, r)
    BY <2>1 DEF RowStandsAt, PlaceIn
  <2> QED BY <1>1, <2>2 DEF IsTabled
<1>11. RunIsWhole(run)'
  <2>1. IsTabled(st, run)'
    BY <1>1, <1>2, <1>8, <1>9 DEF IsTabled
  <2>2. Shown(run)' = P
    BY <1>2, <1>8, <1>10 DEF Shown
  <2>3. IsCompleted(st, run)'
    BY <1>2, <1>6, <1>7, <2>2 DEF IsCompleted
  <2>4. running' # run
    BY <1>2, ReportAssumption DEF Backfill!BackfillAssumption
  <2> QED BY <1>0, <2>1, <2>3, <2>4 DEF RunIsWhole, st
<1>12. ASSUME NEW q \in Sessions, q # run PROVE RunIsWhole(q)'
  <2>1. \A k \in OwnKeys(q) : k \notin OwnKeys(run)
    BY <1>12 DEF OwnKeys, Own, BackfillInv, KeysAreOfOneRun
  <2>2. Shown(q)' = Shown(q)
    BY <1>2, <1>8, <1>10, <1>12, <2>1 DEF Shown
  <2>3. RunIsWhole(q) /\ running' # q /\ legacy'[q] = legacy[q] /\ (q \in done' => q \in done)
    BY <1>2, <1>12, ReportAssumption DEF BackfillInv, Backfill!BackfillAssumption
  <2> QED BY <1>7, <1>9, <1>12, <2>2, <2>3, RunStays
<1>13. KeysAreOfOneRun'
  <2>1. \A d \in made : d.run = run /\ \E p \in products : p.key = d.key /\ p.run = run
    BY <1>6 DEF own, Own
  <2>2. \A p \in products' : \E q \in products : p.key = q.key /\ p.run = q.run
    BY <1>2, <2>1
  <2> QED BY <1>2, <2>2 DEF KeysAreOfOneRun, BackfillInv
<1>14. /\ \A t \in products' \cup variants' \cup stock' : t.run \in Sessions
       /\ \A p \in products' : IsProduct(p)
  BY <1>2, <1>6 DEF BackfillInv
<1>15. legacy' \in [Sessions -> Stocks \cup {None}] /\ done' \subseteq Sessions
  BY <1>2 DEF BackfillInv
<1> QED BY <1>11, <1>12, <1>13, <1>14, <1>15 DEF BackfillInv

\* The migrations complete the one run that there is.
LEMMA MigrationsMakeBackfill ==
    ASSUME NEW run \in Sessions, NEW rows \in Stocks, Backfill!TablesAdded(run, rows),
           Backfill!InventoryAdded(run, rows), running = None
    PROVE  BackfillInv
<1> DEFINE st == FALSE
           V == Backfill!VariantRows(st, run, rows)
           S == Backfill!StockRows(st, run, rows)
           ps == Backfill!ProductRows(st, run, rows)
           D(p) == Backfill!Described(p, V)
<1>0. st \in BOOLEAN
  OBVIOUS
<1>1. /\ legacy = [r \in Sessions |-> IF r = run THEN rows ELSE None]
      /\ variants = V /\ stock = S
  BY DEF Backfill!TablesAdded
<1>2. canonical = InventoryOf(st, run, rows) /\ done = {run}
  BY <1>1 DEF Backfill!InventoryAdded, InventoryOf
<1>3. PICK f \in [ps -> UNION {D(p) : p \in ps}] :
        (\A p \in ps : f[p] \in D(p)) /\ products = {f[p] : p \in ps}
  BY <1>1 DEF Backfill!InventoryAdded, Backfill!Range
<1> HIDE DEF st
<1>4. /\ {p.key : p \in ps} = {Backfill!ProductKey(st, run, r) : r \in rows}
      /\ \A p \in ps : IsProduct(p) /\ p.run = run
  BY ProductsOfRows
<1>5. AreRows(rows)
  BY StocksAreRows
<1>6. (\A v \in V : v.run = run) /\ (\A s \in S : s.run = run)
  BY <1>0, <1>5, VariantsOfRows, StockOfRows
<1>7. ASSUME NEW p, IsProduct(p), OfProduct(st, run, rows, p.key) # {}
       PROVE  \A d \in Backfill!Described(p, Backfill!VariantRows(st, run, rows)) :
                /\ IsProduct(d) /\ d.key = p.key /\ d.run = p.run
                /\ IsPriced(d, OfProduct(st, run, rows, p.key))
  BY <1>0, <1>5, <1>7, DescribedIsPriced
<1>8. ASSUME NEW p \in ps
      PROVE  /\ IsProduct(f[p]) /\ f[p].key = p.key /\ f[p].run = run
             /\ IsPriced(f[p], OfProduct(st, run, rows, p.key))
  <2>1. OfProduct(st, run, rows, p.key) # {}
    BY <1>4 DEF OfProduct
  <2>2. \A d \in D(p) : /\ IsProduct(d) /\ d.key = p.key /\ d.run = run
                        /\ IsPriced(d, OfProduct(st, run, rows, p.key))
    <3>1. IsProduct(p) /\ p.run = run
      BY <1>4
    <3>2. \A d \in Backfill!Described(p, V) :
             /\ IsProduct(d) /\ d.key = p.key /\ d.run = p.run
             /\ IsPriced(d, OfProduct(st, run, rows, p.key))
      BY <2>1, <3>1, <1>7
    <3> QED BY <3>1, <3>2
  <2> HIDE DEF D, ps
  <2> QED BY <1>3, <2>2
<1> HIDE DEF V, S, ps, D
<1>9. Own(run) = products /\ OwnVariants(run) = V /\ OwnStock(run) = S
  BY <1>1, <1>3, <1>6, <1>8 DEF Own, OwnVariants, OwnStock
<1>10. OwnKeys(run) = {Backfill!ProductKey(st, run, r) : r \in rows}
  <2>1. OwnKeys(run) = {p.key : p \in ps}
    <3>1. OwnKeys(run) = {f[p].key : p \in ps}
      BY <1>3, <1>9 DEF OwnKeys
    <3> QED BY <1>8, <3>1
  <2> QED BY <1>4, <2>1
<1>11. IsTabled(st, run)
  BY <1>1, <1>9, <1>10 DEF IsTabled, V, S
<1>12. Shown(run) = InventoryOf(st, run, rows)
  <2>1. ASSUME NEW c \in InventoryOf(st, run, rows) PROVE c.product \in OwnKeys(run)
    <3>1. PICK r \in rows : RowStandsAt(st, run, r) = PlaceIn(c)
      BY <1>0, <1>5, InventoryHasStock
    <3>2. c.product = Backfill!ProductKey(st, run, r)
      BY <3>1 DEF RowStandsAt, PlaceIn
    <3> QED BY <1>10, <3>2
  <2> QED BY <1>2, <2>1 DEF Shown
<1>13. legacy[run] = rows
  BY <1>1
<1>14. IsCompleted(st, run)
  <2>1. ASSUME NEW d \in Own(run) PROVE IsPriced(d, OfProduct(st, run, rows, d.key))
    <3>1. PICK p \in ps : d = f[p]
      BY <1>3, <1>9, <2>1
    <3>2. d.key = p.key /\ IsPriced(d, OfProduct(st, run, rows, p.key))
      BY <1>8, <3>1
    <3> QED BY <3>2
  <2> QED BY <1>12, <1>13, <2>1 DEF IsCompleted
<1>15. ASSUME NEW q \in Sessions PROVE RunIsWhole(q)
  <2>1. running # q
    BY ReportAssumption DEF Backfill!BackfillAssumption
  <2>2. CASE q = run
    BY <1>0, <1>11, <1>14, <2>1, <2>2 DEF RunIsWhole
  <2>3. CASE q # run
    <3>1. \A p \in products : p.run = run
      BY <1>3, <1>8
    <3>2. IsUntabled(q) /\ q \notin done
      BY <1>1, <1>2, <1>6, <2>3, <3>1 DEF IsUntabled, Own, OwnVariants, OwnStock
    <3> QED BY <2>1, <3>2 DEF RunIsWhole
  <2> QED BY <2>2, <2>3
<1>16. /\ \A t \in products \cup variants \cup stock : t.run = run
       /\ \A p \in products : IsProduct(p)
  BY <1>1, <1>3, <1>6, <1>8
<1> QED BY <1>1, <1>2, <1>15, <1>16 DEF BackfillInv, KeysAreOfOneRun

LEMMA InitBackfill == Backfill!Init => BackfillInv
<1> SUFFICES ASSUME Backfill!Init PROVE BackfillInv
  OBVIOUS
<1>1. running = None
  BY DEF Backfill!Init
<1>2. CASE \E run \in Sessions, rows \in Stocks :
             Backfill!TablesAdded(run, rows) /\ Backfill!InventoryAdded(run, rows)
  BY <1>1, <1>2, MigrationsMakeBackfill
<1>3. CASE /\ legacy = [r \in Sessions |-> None] /\ done = {}
           /\ products = {} /\ variants = {} /\ stock = {} /\ canonical = {}
  <2>1. \A q \in Sessions : running # q
    BY <1>1, ReportAssumption DEF Backfill!BackfillAssumption
  <2>2. \A q \in Sessions : RunIsWhole(q)
    BY <1>3, <2>1 DEF RunIsWhole, IsUntabled, Own, OwnVariants, OwnStock
  <2> QED BY <1>3, <2>2 DEF BackfillInv, KeysAreOfOneRun
<1> QED BY <1>2, <1>3 DEF Backfill!Init

LEMMA NextBackfill == BackfillInv /\ [Backfill!Next]_(Backfill!vars) => BackfillInv'
<1> SUFFICES ASSUME BackfillInv, [Backfill!Next]_(Backfill!vars) PROVE BackfillInv'
  OBVIOUS
<1>1. CASE UNCHANGED Backfill!vars
  <2>1. UNCHANGED <<legacy, products, variants, stock, canonical, running, done>>
    BY <1>1 DEF Backfill!vars
  <2>2. \A q \in Sessions : RunIsWhole(q)'
    <3> TAKE q \in Sessions
    <3>1. /\ Own(q)' = Own(q) /\ OwnVariants(q)' = OwnVariants(q) /\ OwnStock(q)' = OwnStock(q)
          /\ Shown(q)' = Shown(q)
      BY <2>1 DEF Own, OwnVariants, OwnStock, Shown, OwnKeys
    <3>2. RunIsWhole(q)
      BY DEF BackfillInv
    <3> QED BY <2>1, <3>1, <3>2, RunStays
  <2> QED BY <2>1, <2>2 DEF BackfillInv, KeysAreOfOneRun
<1>2. ASSUME NEW run \in Sessions, Backfill!Refused(run) PROVE BackfillInv'
  BY <1>1, <1>2 DEF Backfill!Refused
<1> QED BY <1>1, <1>2, LoadKeepsBackfill, NormalizeKeepsBackfill, AuthorKeepsBackfill,
          CrashKeepsBackfill DEF Backfill!Next

\* A completed catalog holds what the legacy rows of its run hold, however it was
\* made, after crashes and whatever another run did since: every unit of a store and
\* size once, in stock exactly if a row was, at the prices and in a color of the
\* product's rows (backfill_catalog_from_legacy_products, the migrations).
THEOREM CatalogStaysWhole == Spec => []CatalogHoldsTheRows
<1> DEFINE Inv == part = "backfill" => BackfillInv
<1>1. Init => Inv
  BY PartInit, InitBackfill
<1>2. Inv /\ [Next]_vars => Inv'
  BY PartStep, NextBackfill
<1>3. Inv => CatalogHoldsTheRows
  BY CompletedHoldsTheRows DEF CatalogHoldsTheRows
<1> QED BY <1>1, <1>2, <1>3, PTL DEF Spec
-----------------------------------------------------------------------------
(* The operator cache *)

\* A reflexive total order of the keys it relates.
IsLine(pairs) ==
    /\ \A p \in pairs : /\ p = <<p[1], p[2]>> /\ p[1] \in Names /\ p[2] \in Names
                        /\ <<p[1], p[1]>> \in pairs /\ <<p[2], p[2]>> \in pairs
    /\ \A p, q \in pairs : p[2] = q[1] => <<p[1], q[2]>> \in pairs
    /\ \A p \in pairs : <<p[2], p[1]>> \in pairs => p[1] = p[2]
    /\ \A p, q \in pairs : <<p[1], q[1]>> \in pairs \/ <<q[1], p[1]>> \in pairs

\* The cached keys stand in the order of their use, and expire TTL after they were put.
CacheInv ==
    /\ IsLine(uses) /\ order = Cache!Within(uses, DOMAIN items)
    /\ Cache!IsFiniteSet(DOMAIN items) /\ Cache!Cardinality(DOMAIN items) <= MaxSize
    /\ now \in Int /\ filled \in [Names -> Int]
    /\ \A c \in Sessions : calls[c] # None => calls[c].key \in Names
    /\ \A k \in DOMAIN items :
          <<k, k>> \in uses /\ k \in Names /\ items[k].expires = filled[k] + TTL
    /\ Cache!CacheIsHonest

\* The first of some of the keys in line.
LEMMA LineHasFirst ==
    ASSUME NEW pairs, IsLine(pairs), NEW S, Cache!IsFiniteSet(S), S # {},
           \A k \in S : <<k, k>> \in pairs
    PROVE  \E k \in S : \A j \in S : <<k, j>> \in pairs
<1>1. Backfill!IsFiniteSet(S)
  BY DEF Backfill!IsFiniteSet, Cache!IsFiniteSet
<1>2. ASSUME NEW a \in S, NEW b \in S PROVE <<a, b>> \in pairs \/ <<b, a>> \in pairs
  <2>1. <<a, a>>[1] = a /\ <<b, b>>[1] = b
    OBVIOUS
  <2> QED BY <2>1 DEF IsLine
<1>3. ASSUME NEW a \in S, NEW b \in S, NEW c \in S, <<a, b>> \in pairs, <<b, c>> \in pairs
      PROVE  <<a, c>> \in pairs
  <2>1. <<a, b>>[1] = a /\ <<a, b>>[2] = b /\ <<b, c>>[1] = b /\ <<b, c>>[2] = c
    OBVIOUS
  <2> QED BY <1>3, <2>1 DEF IsLine
<1>4. \E k \in S : \A j \in S : j = k \/ <<k, j>> \in pairs
  BY <1>1, <1>2, <1>3, HasFirst
<1> QED BY <1>4

\* A line in which the key moves to the end is a line, of that key and the others.
LEMMA MoveKeepsLine ==
    ASSUME NEW pairs, IsLine(pairs), NEW key \in Names
    PROVE  LET moved == Cache!MovedToEnd(pairs, key)
           IN /\ IsLine(moved) /\ <<key, key>> \in moved
              /\ \A k \in Names : <<k, k>> \in pairs => <<k, k>> \in moved /\ <<k, key>> \in moved
              /\ \A p \in moved : p[1] = key => p[2] = key
              /\ \A p \in moved : p[2] # key => p \in pairs /\ p[1] # key
<1> DEFINE moved == Cache!MovedToEnd(pairs, key)
           In(k) == <<k, k>> \in pairs \/ k = key
<1>1. \A k, j : <<k, j>> \in moved <=>
           \/ k # key /\ j # key /\ <<k, j>> \in pairs
           \/ In(k) /\ j = key
  BY DEF Cache!MovedToEnd, IsLine
<1>2. \A p \in moved : p = <<p[1], p[2]>> /\ p[1] \in Names /\ p[2] \in Names
  <2> TAKE p \in moved
  <2>1. CASE p \in pairs
    BY <2>1 DEF IsLine
  <2>2. CASE p \notin pairs
    <3>1. PICK k \in {q[1] : q \in pairs} \cup {key} : p = <<k, key>>
      BY <2>2 DEF Cache!MovedToEnd
    <3>2. k \in Names
      BY <3>1 DEF IsLine
    <3> QED BY <3>1, <3>2
  <2> QED BY <2>1, <2>2
<1>11. \A p \in moved : p[2] # key => p \in pairs /\ <<p[1], p[2]>> \in pairs /\ p[1] # key
  <2> TAKE p \in moved
  <2>1. CASE p \in pairs /\ p[1] # key
    BY <2>1 DEF IsLine
  <2>2. CASE ~ (p \in pairs /\ p[1] # key)
    <3>1. PICK k \in {q[1] : q \in pairs} \cup {key} : p = <<k, key>>
      BY <2>2 DEF Cache!MovedToEnd
    <3> QED BY <3>1
  <2> QED BY <2>1, <2>2
<1> HIDE DEF moved
<1>3. \A p \in pairs : p = <<p[1], p[2]>> /\ In(p[1]) /\ In(p[2])
  BY DEF IsLine
<1>4. \A p \in moved : <<p[1], p[1]>> \in moved /\ <<p[2], p[2]>> \in moved
  <2> TAKE p \in moved
  <2>1. <<p[1], p[2]>> \in moved
    BY <1>2
  <2>2. In(p[1]) /\ In(p[2])
    BY <1>1, <1>3, <2>1
  <2> QED BY <1>1, <2>2
<1>5. ASSUME NEW p \in moved, NEW q \in moved, p[2] = q[1] PROVE <<p[1], q[2]>> \in moved
  <2>1. <<p[1], p[2]>> \in moved /\ <<q[1], q[2]>> \in moved
    BY <1>2
  <2>2. CASE q[2] = key
    <3>1. In(p[1])
      BY <1>1, <1>3, <2>1
    <3> QED BY <1>1, <2>2, <3>1
  <2>3. CASE q[2] # key
    <3>1. q[1] # key /\ <<q[1], q[2]>> \in pairs
      BY <1>11, <2>3
    <3>2. p[2] # key
      BY <1>5, <3>1
    <3>3. p[1] # key /\ <<p[1], p[2]>> \in pairs
      BY <1>11, <3>2
    <3>4. <<p[1], q[2]>> \in pairs
      BY <1>5, <3>1, <3>3 DEF IsLine
    <3> QED BY <1>1, <2>3, <3>3, <3>4
  <2> QED BY <2>2, <2>3
<1>6. ASSUME NEW p \in moved, <<p[2], p[1]>> \in moved PROVE p[1] = p[2]
  <2>1. <<p[1], p[2]>> \in moved
    BY <1>2
  <2>2. CASE p[1] # key /\ p[2] # key
    <3>1. <<p[1], p[2]>> \in pairs
      BY <1>11, <2>2
    <3>2. <<p[2], p[1]>> \in pairs
      BY <1>1, <1>6, <2>2
    <3> QED BY <3>1, <3>2 DEF IsLine
  <2> QED BY <1>1, <1>6, <2>1, <2>2
<1>7. ASSUME NEW p \in moved, NEW q \in moved
      PROVE  <<p[1], q[1]>> \in moved \/ <<q[1], p[1]>> \in moved
  <2>1. <<p[1], p[1]>> \in moved /\ <<q[1], q[1]>> \in moved
    BY <1>4
  <2>2. In(p[1]) /\ In(q[1])
    BY <1>1, <2>1
  <2>3. CASE p[1] # key /\ q[1] # key
    <3>1. <<p[1], q[1]>> \in pairs \/ <<q[1], p[1]>> \in pairs
      BY <2>2, <2>3 DEF IsLine
    <3> QED BY <1>1, <2>3, <3>1
  <2> QED BY <1>1, <2>2, <2>3
<1>8. IsLine(moved)
  BY <1>2, <1>4, <1>5, <1>6, <1>7 DEF IsLine
<1>9. \A k \in Names : <<k, k>> \in pairs => <<k, k>> \in moved /\ <<k, key>> \in moved
  BY <1>1
<1>10. \A p \in moved : p[1] = key => p[2] = key
  BY <1>1, <1>2
<1>12. <<key, key>> \in moved
  BY <1>1
<1> QED BY <1>8, <1>9, <1>10, <1>11, <1>12 DEF moved

\* The cached keys move as the used ones do.
LEMMA MoveWithin ==
    ASSUME NEW pairs, IsLine(pairs), NEW key \in Names, NEW S,
           \A k \in S : <<k, k>> \in pairs
    PROVE  Cache!MovedToEnd(Cache!Within(pairs, S), key)
               = Cache!Within(Cache!MovedToEnd(pairs, key), S \cup {key})
<1> DEFINE l == Cache!MovedToEnd(Cache!Within(pairs, S), key)
           r == Cache!Within(Cache!MovedToEnd(pairs, key), S \cup {key})
<1>1. ASSUME NEW p \in l PROVE p \in r
  BY DEF Cache!MovedToEnd, Cache!Within, IsLine
<1>2. ASSUME NEW p \in r PROVE p \in l
  <2>1. /\ p \in Cache!MovedToEnd(pairs, key)
        /\ p[1] \in S \cup {key} /\ p[2] \in S \cup {key}
    BY DEF Cache!Within
  <2>2. CASE p[1] # key /\ p[2] # key /\ p \in pairs
    BY <2>1, <2>2 DEF Cache!MovedToEnd, Cache!Within
  <2>3. CASE \E k \in {q[1] : q \in pairs} \cup {key} : p = <<k, key>>
    <3>1. PICK k \in {q[1] : q \in pairs} \cup {key} : p = <<k, key>>
      BY <2>3
    <3>2. CASE k = key
      BY <3>1, <3>2 DEF Cache!MovedToEnd
    <3>3. CASE k # key
      <4>1. k \in S /\ <<k, k>> \in pairs
        BY <2>1, <3>1, <3>3
      <4>2. <<k, k>> \in Cache!Within(pairs, S)
        BY <4>1 DEF Cache!Within
      <4>3. k \in {q[1] : q \in Cache!Within(pairs, S)}
        BY <4>2
      <4> QED BY <3>1, <4>3 DEF Cache!MovedToEnd
    <3> QED BY <3>2, <3>3
  <2> QED BY <2>1, <2>2, <2>3 DEF Cache!MovedToEnd
<1> QED BY <1>1, <1>2

\* What is left of a line is a line.
LEMMA WithinIsLine ==
    ASSUME NEW pairs, IsLine(pairs), NEW S
    PROVE  IsLine(Cache!Within(pairs, S))
BY DEF IsLine, Cache!Within

LEMMA SizeIsCardinality ==
    ASSUME NEW S
    PROVE  /\ Cache!IsFiniteSet(S) <=> IsFiniteSet(S)
           /\ Cache!Cardinality(S) = Cardinality(S)
BY DEF Cache!IsFiniteSet, IsFiniteSet, Cache!Cardinality, Cardinality

\* What is kept has room, and with a key stays every live one after it.
LEMMA KeptIsLatest ==
    ASSUME NEW pairs, IsLine(pairs), NEW entries, Cache!IsFiniteSet(DOMAIN entries),
           \A k \in DOMAIN entries : <<k, k>> \in pairs
    PROVE  LET kept == Cache!Kept(entries, pairs)
               live == Cache!Live(entries)
           IN /\ kept \subseteq live /\ Cache!IsFiniteSet(kept)
              /\ Cache!Cardinality(kept) <= MaxSize
              /\ \A k \in kept : \A j \in live : <<k, j>> \in pairs => j \in kept
              /\ \A k \in live : (\A j \in live : <<k, j>> \in pairs => j = k) => k \in kept
<1> DEFINE kept == Cache!Kept(entries, pairs)
           live == Cache!Live(entries)
           After(k) == {j \in live : j # k /\ <<k, j>> \in pairs}
<1>1. kept = {k \in live : Cardinality(After(k)) < MaxSize}
  BY SizeIsCardinality DEF Cache!Kept
<1>2. live \subseteq DOMAIN entries
  BY DEF Cache!Live
<1>3. IsFiniteSet(live) /\ MaxSize \in Nat \ {0}
  BY <1>2, SizeIsCardinality, FS_Subset, ReportAssumption DEF Cache!CacheAssumption
<1> HIDE DEF kept, live
<1>4. \A k : IsFiniteSet(After(k)) /\ Cardinality(After(k)) \in Nat
  BY <1>3, FS_Subset, FS_CardinalityType
<1>5. kept \subseteq live /\ IsFiniteSet(kept)
  BY <1>1, <1>3, FS_Subset
<1>6. ASSUME NEW k \in kept, NEW j \in live, <<k, j>> \in pairs PROVE j \in kept
  <2>1. CASE j = k
    BY <1>6, <2>1
  <2>2. CASE j # k
    <3>1. ASSUME NEW i \in After(j) PROVE i \in After(k)
      <4>1. <<k, i>> \in pairs
        BY <1>6 DEF IsLine
      <4>2. i # k
        BY <1>6, <2>2 DEF IsLine
      <4> QED BY <4>1, <4>2
    <3>2. After(j) \in SUBSET After(k)
      BY <3>1
    <3>3. Cardinality(After(j)) <= Cardinality(After(k))
      <4> HIDE DEF After
      <4> QED BY <1>4, <3>2, FS_Subset
    <3>4. Cardinality(After(k)) < MaxSize
      BY <1>1
    <3> HIDE DEF After
    <3>5. Cardinality(After(j)) < MaxSize
      BY <1>3, <1>4, <3>3, <3>4
    <3> QED BY <1>1, <3>5 DEF After
  <2> QED BY <2>1, <2>2
<1>7. ASSUME NEW k \in live, \A j \in live : <<k, j>> \in pairs => j = k PROVE k \in kept
  <2>1. After(k) = {}
    BY <1>7
  <2>2. Cardinality(After(k)) = 0
    BY <2>1, FS_EmptySet
  <2>3. 0 < MaxSize
    BY <1>3
  <2>4. Cardinality(After(k)) < MaxSize
    <3> HIDE DEF After
    <3> QED BY <2>2, <2>3
  <2> QED BY <1>1, <2>4
<1>8. Cardinality(kept) <= MaxSize
  <2>1. CASE kept = {}
    BY <1>3, <2>1, FS_EmptySet
  <2>2. CASE kept # {}
    <3>1. PICK k \in kept : \A j \in kept : <<k, j>> \in pairs
      <4>1. Cache!IsFiniteSet(kept) /\ \A k \in kept : <<k, k>> \in pairs
        BY <1>2, <1>5, SizeIsCardinality
      <4> QED BY <2>2, <4>1, LineHasFirst
    <3>2. kept \ {k} \in SUBSET After(k)
      BY <1>5, <3>1
    <3>3. Cardinality(kept \ {k}) <= Cardinality(After(k))
      <4> HIDE DEF After
      <4> QED BY <1>4, <3>2, FS_Subset
    <3>4. Cardinality(After(k)) < MaxSize
      BY <1>1
    <3>5. Cardinality(kept \ {k}) = Cardinality(kept) - 1 /\ Cardinality(kept) \in Nat
      BY <1>5, FS_RemoveElement, FS_CardinalityType
    <3> HIDE DEF After
    <3> QED BY <1>3, <1>4, <3>3, <3>4, <3>5
  <2> QED BY <2>1, <2>2
<1> QED BY <1>5, <1>6, <1>7, <1>8, SizeIsCardinality DEF kept, live

LEMMA HonestCacheIsHonest == CacheInv => Cache!CacheIsHonest
BY DEF CacheInv

LEMMA InitCache == Cache!Init => CacheInv
<1> SUFFICES ASSUME Cache!Init PROVE CacheInv
  OBVIOUS
<1>1. items = <<>> /\ DOMAIN items = {} /\ uses = {} /\ order = {} /\ answer = None
  BY DEF Cache!Init
<1>2. Cache!IsFiniteSet({}) /\ Cache!Cardinality({}) = 0 /\ 0 <= MaxSize
  BY SizeIsCardinality, FS_EmptySet, ReportAssumption DEF Cache!CacheAssumption
<1>3. \A c \in Sessions : calls[c] = None
  BY DEF Cache!Init
<1>4. now \in Int /\ filled \in [Names -> Int]
  BY DEF Cache!Init
<1> QED BY <1>1, <1>2, <1>3, <1>4 DEF CacheInv, IsLine, Cache!Within, Cache!CacheIsHonest

\* A hit is of an entry that has not expired, and puts its key last.
LEMMA HitKeepsCache ==
    ASSUME CacheInv, NEW c \in Sessions, NEW key \in Names, Cache!Hit(c, key)
    PROVE  CacheInv'
<1>1. /\ key \in DOMAIN items /\ items[key].expires > now
      /\ order' = Cache!MovedToEnd(order, key) /\ uses' = Cache!MovedToEnd(uses, key)
      /\ answer' = [key |-> key, hit |-> TRUE]
      /\ UNCHANGED <<items, calls, now, filled>>
  BY DEF Cache!Hit, Cache!IsIn
<1>2. IsLine(uses) /\ \A k \in DOMAIN items : <<k, k>> \in uses
  BY DEF CacheInv
<1>3. /\ IsLine(uses')
      /\ \A k \in Names : <<k, k>> \in uses => <<k, k>> \in uses' /\ <<k, key>> \in uses'
      /\ \A p \in uses' : p[2] # key => p \in uses /\ p[1] # key
  BY <1>1, <1>2, MoveKeepsLine
<1>4. order' = Cache!Within(uses', DOMAIN items)
  <2>1. Cache!MovedToEnd(Cache!Within(uses, DOMAIN items), key)
            = Cache!Within(Cache!MovedToEnd(uses, key), DOMAIN items \cup {key})
    BY <1>2, MoveWithin
  <2>2. DOMAIN items \cup {key} = DOMAIN items
    BY <1>1
  <2> QED BY <1>1, <2>1, <2>2 DEF CacheInv
<1>5. Cache!CacheIsHonest'
  <2>1. \A p \in uses : (p[1] \in DOMAIN items /\ filled[p[2]] + TTL > now) => p[2] \in DOMAIN items
    BY DEF CacheInv, Cache!CacheIsHonest, Cache!IsIn
  <2>2. \A p \in uses' : (p[1] \in DOMAIN items /\ filled[p[2]] + TTL > now) => p[2] \in DOMAIN items
    BY <1>1, <1>3, <2>1
  <2>3. now < filled[key] + TTL
    BY <1>1, ReportAssumption DEF CacheInv, Cache!CacheAssumption
  <2> QED BY <1>1, <2>2, <2>3 DEF CacheInv, Cache!CacheIsHonest, Cache!IsIn
<1>6. \A k \in DOMAIN items :
          <<k, k>> \in uses' /\ k \in Names /\ items[k].expires = filled[k] + TTL
  BY <1>3 DEF CacheInv
<1> QED BY <1>1, <1>3, <1>4, <1>5, <1>6 DEF CacheInv

\* What stays in the cache of the same uses stays in order.
LEMMA FewerKeepsCache ==
    ASSUME CacheInv, NEW S \in SUBSET DOMAIN items, items' = [k \in S |-> items[k]],
           order' = Cache!Within(order, S),
           UNCHANGED <<now, uses, filled>>,
           \A c \in Sessions : calls'[c] # None => calls'[c].key \in Names,
           (answer' # None /\ answer'.hit) => now < filled[answer'.key] + TTL,
           \A p \in uses : (p[1] \in S /\ filled[p[2]] + TTL > now) => p[2] \in S
    PROVE  CacheInv'
<1>1. DOMAIN items' = S
  OBVIOUS
<1>2. order' = Cache!Within(uses, S)
  BY DEF CacheInv, Cache!Within
<1>3. Cache!IsFiniteSet(S) /\ Cache!Cardinality(S) <= MaxSize
  <2>1. IsFiniteSet(DOMAIN items) /\ Cardinality(DOMAIN items) <= MaxSize
    BY SizeIsCardinality DEF CacheInv
  <2>2. /\ IsFiniteSet(S) /\ Cardinality(S) <= Cardinality(DOMAIN items)
        /\ Cardinality(S) \in Nat /\ Cardinality(DOMAIN items) \in Nat /\ MaxSize \in Nat
    BY <2>1, FS_Subset, FS_CardinalityType, ReportAssumption DEF Cache!CacheAssumption
  <2>3. Cardinality(S) <= MaxSize
    BY <2>1, <2>2
  <2> QED BY <2>2, <2>3, SizeIsCardinality
<1>4. Cache!CacheIsHonest'
  BY <1>1, <1>3 DEF Cache!CacheIsHonest, Cache!IsIn
<1> QED BY <1>1, <1>2, <1>3, <1>4 DEF CacheInv

\* A miss removes an expired entry.
LEMMA MissKeepsCache ==
    ASSUME CacheInv, NEW c \in Sessions, NEW key \in Names, Cache!Miss(c, key)
    PROVE  CacheInv'
<1> DEFINE S == DOMAIN items \ {key}
<1>1. /\ items' = [k \in S |-> items[k]] /\ order' = Cache!Within(order, S)
      /\ calls' = [calls EXCEPT ![c] = [key |-> key, value |-> stores]]
      /\ UNCHANGED <<now, uses, filled, answer>>
      /\ key \in DOMAIN items => items[key].expires <= now
  BY DEF Cache!Miss, Cache!Without, Cache!IsIn
<1>2. \A d \in Sessions : calls'[d] # None => calls'[d].key \in Names
  BY <1>1 DEF CacheInv
<1>3. ASSUME NEW p \in uses, p[1] \in S, filled[p[2]] + TTL > now PROVE p[2] \in S
  <2>1. p[2] \in DOMAIN items
    BY <1>3 DEF CacheInv, Cache!CacheIsHonest, Cache!IsIn
  <2>2. CASE p[2] = key
    <3>1. items[key].expires = filled[key] + TTL /\ filled[key] \in Int /\ now \in Int
      BY <2>1, <2>2 DEF CacheInv
    <3> QED BY <1>1, <1>3, <2>1, <2>2, <3>1, ReportAssumption DEF Cache!CacheAssumption
  <2> QED BY <2>1, <2>2
<1>4. (answer' # None /\ answer'.hit) => now < filled[answer'.key] + TTL
  BY <1>1 DEF CacheInv, Cache!CacheIsHonest
<1> HIDE DEF S
<1>5. S \in SUBSET DOMAIN items
  BY DEF S
<1> QED BY <1>1, <1>2, <1>3, <1>4, <1>5, FewerKeepsCache

\* A put stands last, and takes out what expired and what was used first.
LEMMA PutKeepsCache ==
    ASSUME CacheInv, NEW c \in Sessions, Cache!Put(c)
    PROVE  CacheInv'
<1> DEFINE key == calls[c].key
           entry == [value |-> calls[c].value, expires |-> now + TTL]
           entries == [k \in DOMAIN items \cup {key} |-> IF k = key THEN entry ELSE items[k]]
           line == Cache!MovedToEnd(order, key)
           kept == Cache!Kept(entries, line)
           live == Cache!Live(entries)
<1>1. /\ items' = [k \in kept |-> entries[k]] /\ order' = Cache!Within(line, kept)
      /\ uses' = Cache!MovedToEnd(uses, key) /\ filled' = [filled EXCEPT ![key] = now]
      /\ answer' = [key |-> key, hit |-> FALSE]
      /\ calls' = [calls EXCEPT ![c] = None] /\ now' = now
      /\ calls[c] # None
  BY DEF Cache!Put
<1>2. key \in Names
  BY <1>1 DEF CacheInv
<1>3. DOMAIN entries = DOMAIN items \cup {key}
  OBVIOUS
<1>4. \A k \in DOMAIN entries : entries[k].expires = filled'[k] + TTL /\ filled'[k] \in Int
  <2> TAKE k \in DOMAIN entries
  <2>1. CASE k = key
    BY <1>1, <1>2, <2>1 DEF CacheInv
  <2>2. CASE k # key
    BY <1>1, <1>2, <2>2 DEF CacheInv
  <2> QED BY <2>1, <2>2
<1>5. \A k \in live : k \in DOMAIN entries /\ filled'[k] + TTL > now
  BY <1>4 DEF Cache!Live
<1>6. \A k \in DOMAIN entries : filled'[k] + TTL > now => k \in live
  BY <1>4 DEF Cache!Live
<1>7. /\ IsLine(uses) /\ order = Cache!Within(uses, DOMAIN items)
      /\ \A k \in DOMAIN items : <<k, k>> \in uses /\ k \in Names
      /\ Cache!IsFiniteSet(DOMAIN items) /\ now \in Int /\ filled \in [Names -> Int]
  BY DEF CacheInv
<1> HIDE DEF entries, line, kept, live, key
<1>8. /\ IsLine(uses') /\ <<key, key>> \in uses'
      /\ \A k \in Names : <<k, k>> \in uses => <<k, k>> \in uses' /\ <<k, key>> \in uses'
      /\ \A p \in uses' : p[1] = key => p[2] = key
      /\ \A p \in uses' : p[2] # key => p \in uses /\ p[1] # key
  BY <1>1, <1>2, <1>7, MoveKeepsLine
<1>9. line = Cache!Within(uses', DOMAIN entries)
  BY <1>1, <1>2, <1>3, <1>7, MoveWithin DEF line
<1>10. IsLine(line)
  BY <1>8, <1>9, WithinIsLine
<1>11. \A k, j \in DOMAIN entries : <<k, j>> \in line <=> <<k, j>> \in uses'
  BY <1>9 DEF Cache!Within
<1>12. \A k \in DOMAIN entries : <<k, k>> \in uses' /\ k \in Names
  BY <1>2, <1>3, <1>7, <1>8
<1>13. Cache!IsFiniteSet(DOMAIN entries)
  BY <1>3, <1>7, SizeIsCardinality, FS_AddElement
<1>14. /\ kept \subseteq live /\ Cache!IsFiniteSet(kept) /\ Cache!Cardinality(kept) <= MaxSize
       /\ \A k \in kept : \A j \in live : <<k, j>> \in line => j \in kept
       /\ \A k \in live : (\A j \in live : <<k, j>> \in line => j = k) => k \in kept
  BY <1>10, <1>11, <1>12, <1>13, KeptIsLatest DEF kept, live
<1>15. DOMAIN items' = kept /\ kept \subseteq DOMAIN entries
  BY <1>1, <1>5, <1>14
<1>16. order' = Cache!Within(uses', kept)
  BY <1>1, <1>9, <1>15 DEF Cache!Within
<1>17. key \in kept
  <2>1. key \in live
    <3>1. filled'[key] = now /\ key \in DOMAIN entries
      BY <1>1, <1>2, <1>3, <1>7
    <3>2. filled'[key] + TTL > now
      BY <1>7, <3>1, ReportAssumption DEF Cache!CacheAssumption
    <3> QED BY <1>6, <3>1, <3>2
  <2>2. \A j \in live : <<key, j>> \in line => j = key
    <3> TAKE j \in live
    <3>1. <<key, j>> \in line => <<key, j>> \in uses'
      BY <1>9 DEF Cache!Within
    <3> QED BY <1>8, <3>1
  <2> QED BY <1>14, <2>1, <2>2
<1>18. ASSUME NEW p \in uses', p[1] \in kept, filled'[p[2]] + TTL > now PROVE p[2] \in kept
  <2>1. CASE p[2] = key
    BY <1>17, <2>1
  <2>2. CASE p[2] # key
    <3>1. p \in uses /\ p[1] # key
      BY <1>8, <2>2
    <3>2. p[1] \in DOMAIN items /\ filled'[p[2]] = filled[p[2]]
      BY <1>1, <1>2, <1>3, <1>7, <1>15, <1>18, <2>2, <3>1
    <3>3. p[2] \in DOMAIN items
      BY <1>18, <3>1, <3>2 DEF CacheInv, Cache!CacheIsHonest, Cache!IsIn
    <3>4. p[2] \in live /\ p[1] \in DOMAIN entries /\ p[2] \in DOMAIN entries
      BY <1>3, <1>6, <1>15, <1>18, <3>3
    <3>5. <<p[1], p[2]>> \in uses'
      BY <1>8 DEF IsLine
    <3> QED BY <1>11, <1>14, <1>18, <3>4, <3>5
  <2> QED BY <2>1, <2>2
<1>19. Cache!CacheIsHonest'
  <2>1. ~ answer'.hit
    BY <1>1
  <2> QED BY <1>1, <1>14, <1>15, <1>18, <2>1 DEF Cache!CacheIsHonest, Cache!IsIn
<1>20. \A k \in kept : <<k, k>> \in uses' /\ k \in Names /\ items'[k].expires = filled'[k] + TTL
  BY <1>1, <1>4, <1>12, <1>15
<1>21. \A d \in Sessions : calls'[d] # None => calls'[d].key \in Names
  BY <1>1 DEF CacheInv
<1>22. now' \in Int /\ filled' \in [Names -> Int]
  BY <1>1, <1>2, <1>7
<1> QED BY <1>8, <1>14, <1>15, <1>16, <1>19, <1>20, <1>21, <1>22 DEF CacheInv

\* The clear leaves nothing cached.
LEMMA ClearKeepsCache == ASSUME CacheInv, Cache!Clear PROVE CacheInv'
<1>1. /\ DOMAIN items' = {} /\ uses' = {} /\ order' = {}
      /\ UNCHANGED <<calls, now, filled, answer>>
  BY DEF Cache!Clear
<1>2. Cache!IsFiniteSet({}) /\ Cache!Cardinality({}) = 0 /\ 0 <= MaxSize
  BY SizeIsCardinality, FS_EmptySet, ReportAssumption DEF Cache!CacheAssumption
<1>3. Cache!CacheIsHonest'
  BY <1>1, <1>2 DEF CacheInv, Cache!CacheIsHonest
<1> QED BY <1>1, <1>2, <1>3 DEF CacheInv, IsLine, Cache!Within

LEMMA TickKeepsCache == ASSUME CacheInv, Cache!Tick PROVE CacheInv'
<1>1. now' = now + 1 /\ answer' = None /\ UNCHANGED <<items, order, calls, uses, filled>>
  BY DEF Cache!Tick
<1>2. now \in Int /\ filled \in [Names -> Int] /\ TTL \in Int
  BY ReportAssumption DEF CacheInv, Cache!CacheAssumption
<1>3. Cache!CacheIsHonest'
  <2>1. Cache!Cardinality(DOMAIN items') <= MaxSize
    BY <1>1 DEF CacheInv
  <2>2. \A p \in uses : (p[1] \in DOMAIN items /\ filled[p[2]] + TTL > now + 1)
                           => p[2] \in DOMAIN items
    <3> TAKE p \in uses
    <3>1. filled[p[2]] \in Int
      BY <1>2 DEF CacheInv, IsLine
    <3>2. filled[p[2]] + TTL > now + 1 => filled[p[2]] + TTL > now
      BY <1>2, <3>1
    <3> QED BY <3>2 DEF CacheInv, Cache!CacheIsHonest, Cache!IsIn
  <2> QED BY <1>1, <2>1, <2>2 DEF Cache!CacheIsHonest, Cache!IsIn
<1> QED BY <1>1, <1>2, <1>3 DEF CacheInv

LEMMA NextCache == CacheInv /\ [Cache!Next]_(Cache!vars) => CacheInv'
<1> SUFFICES ASSUME CacheInv, [Cache!Next]_(Cache!vars) PROVE CacheInv'
  OBVIOUS
<1>1. ASSUME UNCHANGED <<items, order, now, uses, filled, answer>>,
             \A c \in Sessions : calls'[c] # None => calls'[c].key \in Names
      PROVE  CacheInv'
  BY <1>1 DEF CacheInv, Cache!CacheIsHonest, Cache!IsIn
<1>2. CASE UNCHANGED Cache!vars
  BY <1>1, <1>2 DEF CacheInv, Cache!vars
<1>3. ASSUME NEW c \in Sessions, Cache!Raise(c) PROVE CacheInv'
  BY <1>1, <1>3 DEF CacheInv, Cache!Raise
<1>4. CASE Cache!Load \/ Cache!Reset
  BY <1>1, <1>4 DEF CacheInv, Cache!Load, Cache!Reset
<1> QED BY <1>2, <1>3, <1>4, HitKeepsCache, MissKeepsCache, PutKeepsCache, ClearKeepsCache,
          TickKeepsCache DEF Cache!Next

\* No answer of the cache is older than its time to live, whatever the hits in between
\* and whoever clears or fills it; it keeps within its size, and drops no live entry
\* before one used less recently (operator_cache.py).
THEOREM CacheStaysHonest == Spec => []CacheIsHonest
<1> DEFINE Inv == part = "cache" => CacheInv
<1>1. Init => Inv
  BY PartInit, InitCache
<1>2. Inv /\ [Next]_vars => Inv'
  BY PartStep, NextCache
<1>3. Inv => CacheIsHonest
  BY HonestCacheIsHonest DEF CacheIsHonest
<1> QED BY <1>1, <1>2, <1>3, PTL DEF Spec

-----------------------------------------------------------------------------
(* The reports of a store *)

\* What a line adds to a revenue, and the fold of the revenue.
Worth(l) == l.qty * Catalog[l.product].price
WorthSummed(S, h) ==
    [s \in SUBSET S |-> IF s = {} THEN 0 ELSE Worth(CHOOSE x \in s : TRUE) + h[Rest(s)]]
WorthSum(S) == CHOOSE h : h = WorthSummed(S, h)
RevenueOf(S) == SumOver([l \in S |-> Worth(l)], S)

LEMMA RevenueIsFold == ASSUME NEW S PROVE Performance!Revenue(S) = WorthSum(S)[S]
BY DEF Performance!Revenue, Performance!MapThenSumSet, Performance!MapThenFoldSet,
   WorthSum, WorthSummed, Worth, Rest

LEMMA RevenueIsSum ==
    ASSUME NEW S, Backfill!IsFiniteSet(S), \A l \in S : Worth(l) \in Int
    PROVE  Performance!Revenue(S) = RevenueOf(S)
<1> DEFINE f == [l \in S |-> Worth(l)]
<1>1. ASSUME NEW h PROVE WorthSummed(S, h) = Weighted(f, S, h)
  <2>1. \A s \in SUBSET S : s # {} => f[CHOOSE x \in s : TRUE] = Worth(CHOOSE x \in s : TRUE)
    OBVIOUS
  <2> HIDE DEF f
  <2> QED BY <2>1 DEF WorthSummed, Weighted
<1>2. \A l \in S : f[l] \in Int
  OBVIOUS
<1> HIDE DEF f
<1>3. \E h : h = WorthSummed(S, h)
  <2>1. PICK h : h = Weighted(f, S, h)
    BY <1>2, SumSolves
  <2> QED BY <1>1, <2>1
<1>4. WorthSum(S) = WorthSummed(S, WorthSum(S))
  BY <1>3 DEF WorthSum
<1>5. WorthSum(S) = Weighted(f, S, WorthSum(S))
  BY <1>1, <1>4
<1>6. WorthSum(S)[S] = SumOver(f, S)
  BY <1>2, <1>5, SumIsOnly
<1> QED BY <1>6, RevenueIsFold DEF RevenueOf, f

\* The sum of a function over its domain, as the reports and as the projections fold it.
LEMMA SumOfIsSum ==
    ASSUME NEW f, Backfill!IsFiniteSet(DOMAIN f), \A x \in DOMAIN f : f[x] \in Int
    PROVE  Performance!SumOf(f) = SumOver(f, DOMAIN f)
<1> DEFINE S == DOMAIN f
           g == CHOOSE h : h = Weighted(f, S, h)
<1>1. Performance!SumOf(f) = g[S]
  BY DEF Performance!SumOf, Performance!MapThenSumSet, Performance!MapThenFoldSet, Weighted, Rest
<1> HIDE DEF S
<1>2. g = Weighted(f, S, g)
  BY SumSolves DEF S
<1> HIDE DEF g
<1> QED BY <1>1, <1>2, SumIsOnly DEF S

LEMMA TotalIsSum ==
    ASSUME NEW f, Backfill!IsFiniteSet(DOMAIN f), \A x \in DOMAIN f : f[x] \in Int
    PROVE  Projection!Total(f) = SumOver(f, DOMAIN f)
<1> DEFINE S == DOMAIN f
           g == CHOOSE h : h = Weighted(f, S, h)
<1>1. Projection!Total(f) = g[S]
  BY DEF Projection!Total, Projection!FoldFunction, Projection!FoldFunctionOnSet,
     Projection!MapThenFoldSet, Weighted, Rest
<1> HIDE DEF S
<1>2. g = Weighted(f, S, g)
  BY SumSolves DEF S
<1> HIDE DEF g
<1> QED BY <1>1, <1>2, SumIsOnly DEF S

\* The ledger is a finite set of order lines.
PerformanceInv ==
    /\ Performance!IsFiniteSet(ledger)
    /\ \A l \in ledger : /\ l.at \in Times /\ l.product \in DOMAIN Catalog
                         /\ l.qty \in Quantities

LEMMA InitPerformance == Performance!Init => PerformanceInv
BY FS_EmptySet DEF Performance!Init, PerformanceInv, Performance!IsFiniteSet, IsFiniteSet

LEMMA NextPerformance == PerformanceInv /\ [Performance!Next]_ledger => PerformanceInv'
<1> SUFFICES ASSUME PerformanceInv, [Performance!Next]_ledger PROVE PerformanceInv'
  OBVIOUS
<1>1. IsFiniteSet(ledger)
  BY DEF PerformanceInv, Performance!IsFiniteSet, IsFiniteSet
<1>2. CASE Performance!Load
  <2>1. PICK t \in Times, p \in DOMAIN Catalog, q \in Quantities :
          ledger' = ledger \cup {[at |-> t, product |-> p, qty |-> q, returned |-> FALSE]}
    BY <1>2 DEF Performance!Load, Performance!Products
  <2>2. IsFiniteSet(ledger')
    BY <1>1, <2>1, FS_AddElement
  <2> QED BY <2>1, <2>2 DEF PerformanceInv, Performance!IsFiniteSet, IsFiniteSet
<1>3. CASE Performance!Return
  <2>1. PICK l \in ledger :
          /\ ~ l.returned
          /\ ledger' = (ledger \ {l}) \cup {[l EXCEPT !.returned = TRUE]}
    BY <1>3 DEF Performance!Return
  <2> DEFINE back == [l EXCEPT !.returned = TRUE]
  <2>2. back.at = l.at /\ back.product = l.product /\ back.qty = l.qty
    OBVIOUS
  <2> HIDE DEF back
  <2>3. IsFiniteSet(ledger')
    <3>1. IsFiniteSet(ledger \ {l})
      BY <1>1, FS_Subset
    <3> QED BY <2>1, <3>1, FS_AddElement DEF back
  <2>4. \A k \in ledger' : k \in ledger \/ k = back
    BY <2>1 DEF back
  <2> QED BY <2>2, <2>3, <2>4 DEF PerformanceInv, Performance!IsFiniteSet, IsFiniteSet
<1> QED BY <1>2, <1>3 DEF Performance!Next, PerformanceInv

\* The revenue of some lines of the ledger.
LedgerWorth == [l \in ledger |-> Worth(l)]

LEMMA LinesAreWorth ==
    ASSUME PerformanceInv, NEW S \in SUBSET ledger
    PROVE  /\ Backfill!IsFiniteSet(S)
           /\ \A l \in S : LedgerWorth[l] = Worth(l) /\ Worth(l) \in Nat
           /\ \A l \in S : Worth(l) > 0 <=> Catalog[l.product].price > 0
<1>1. Backfill!IsFiniteSet(S)
  BY FS_Subset DEF PerformanceInv, Performance!IsFiniteSet, Backfill!IsFiniteSet, IsFiniteSet
<1>2. ASSUME NEW l \in S
      PROVE  /\ LedgerWorth[l] = Worth(l) /\ Worth(l) \in Nat
             /\ Worth(l) > 0 <=> Catalog[l.product].price > 0
  <2>1. l.qty \in Nat \ {0} /\ Catalog[l.product].price \in Nat
    BY ReportAssumption DEF PerformanceInv, Performance!PerformanceAssumption
  <2>2. \A q \in Nat \ {0}, n \in Nat : q * n \in Nat /\ (q * n > 0 <=> n > 0)
    OBVIOUS
  <2>3. LedgerWorth[l] = Worth(l)
    BY DEF LedgerWorth
  <2> QED BY <2>1, <2>2, <2>3 DEF Worth
<1> QED BY <1>1, <1>2

LEMMA RevenueOfLines ==
    ASSUME PerformanceInv, NEW S \in SUBSET ledger
    PROVE  Performance!Revenue(S) = SumOver(LedgerWorth, S) /\ Performance!Revenue(S) \in Int
<1>1. /\ Backfill!IsFiniteSet(S)
      /\ \A l \in S : LedgerWorth[l] = Worth(l) /\ Worth(l) \in Int /\ LedgerWorth[l] \in Int
  BY LinesAreWorth
<1>2. Performance!Revenue(S) = RevenueOf(S)
  BY <1>1, RevenueIsSum
<1>3. RevenueOf(S) = SumOver(LedgerWorth, S)
  <2> DEFINE f == [l \in S |-> Worth(l)]
  <2>1. \A l \in S : f[l] = LedgerWorth[l]
    BY <1>1
  <2> HIDE DEF f
  <2>2. SumOver(f, S) = SumOver(LedgerWorth, S)
    BY <2>1, SumOfEqual
  <2> QED BY <2>2 DEF RevenueOf, f
<1>4. SumOver(LedgerWorth, S) \in Int
  BY <1>1, SumIsInt
<1> QED BY <1>2, <1>3, <1>4

\* The revenues of the groups that a key makes of some lines add up.
LEMMA GroupsAddUp ==
    ASSUME PerformanceInv, NEW S \in SUBSET ledger, NEW K, Backfill!IsFiniteSet(K),
           NEW key \in [S -> K], NEW F, DOMAIN F = K,
           \A k \in K : F[k] = Performance!Revenue({l \in S : key[l] = k})
    PROVE  Performance!SumOf(F) = Performance!Revenue(S)
<1>1. Backfill!IsFiniteSet(S) /\ \A l \in S : LedgerWorth[l] \in Int
  BY LinesAreWorth
<1>2. ASSUME NEW k \in K
      PROVE  F[k] = SumOver(LedgerWorth, {l \in S : key[l] = k}) /\ F[k] \in Int
  <2> DEFINE s == {l \in S : key[l] = k}
  <2>1. s \in SUBSET ledger /\ F[k] = Performance!Revenue(s)
    OBVIOUS
  <2> HIDE DEF s
  <2>2. F[k] = SumOver(LedgerWorth, s) /\ F[k] \in Int
    BY <2>1, RevenueOfLines
  <2> QED BY <2>2 DEF s
<1>3. SumOver(F, K) = SumOver(LedgerWorth, S)
  BY <1>1, <1>2, SumOfGroups
<1>4. Performance!SumOf(F) = SumOver(F, K)
  BY <1>2, SumOfIsSum
<1> QED BY <1>3, <1>4, RevenueOfLines

\* The weeks of a window.
LEMMA WeeksAddUp ==
    ASSUME PerformanceInv, NEW S \in SUBSET ledger, NEW origin
    PROVE  Performance!SumOf(Performance!Weeks(S, origin)) = Performance!Revenue(S)
<1> DEFINE week(l) == Performance!WeekOf(l, origin)
           K == 0 .. Performance!LastWeek \cup {week(l) : l \in S}
           key == [l \in S |-> week(l)]
           F == Performance!Weeks(S, origin)
<1>1. Backfill!IsFiniteSet(K)
  <2>1. Performance!LastWeek \in Int
    BY ReportAssumption DEF Performance!PerformanceAssumption, Performance!LastWeek,
       Performance!Larger
  <2>2. IsFiniteSet(0 .. Performance!LastWeek)
    BY <2>1, FS_Interval
  <2>3. IsFiniteSet({week(l) : l \in S})
    <3>1. IsFiniteSet(S)
      BY LinesAreWorth DEF Backfill!IsFiniteSet, IsFiniteSet
    <3>2. key \in Surjection(S, {week(l) : l \in S})
      BY DEF Surjection
    <3> HIDE DEF key
    <3> QED BY <3>1, <3>2, FS_Surjection
  <2>4. IsFiniteSet(K)
    BY <2>2, <2>3, FS_Union
  <2> QED BY <2>4 DEF Backfill!IsFiniteSet, IsFiniteSet
<1>2. key \in [S -> K]
  OBVIOUS
<1>3. DOMAIN F = K /\ \A k \in K : F[k] = Performance!Revenue({l \in S : week(l) = k})
  BY DEF Performance!Weeks
<1>4. \A k : {l \in S : week(l) = k} = {l \in S : key[l] = k}
  OBVIOUS
<1>5. \A k \in K : F[k] = Performance!Revenue({l \in S : key[l] = k})
  BY <1>3, <1>4
<1> HIDE DEF K, key, F, week
<1> QED BY <1>1, <1>2, <1>3, <1>5, GroupsAddUp DEF F

\* The subjects of a window.
LEMMA SubjectsAddUp ==
    ASSUME PerformanceInv, NEW S \in SUBSET ledger
    PROVE  Performance!SumOf([c \in Performance!SubjectsOf(S) |->
                                 Performance!Revenue(Performance!Subject(S, c))])
               = Performance!Revenue(S)
<1> DEFINE K == Performance!SubjectsOf(S)
           key == [l \in S |-> Catalog[l.product].category]
           F == [c \in K |-> Performance!Revenue(Performance!Subject(S, c))]
<1>1. K = {Catalog[l.product].category : l \in S}
  BY DEF Performance!SubjectsOf, Performance!ProductsOf
<1>2. key \in Surjection(S, K)
  BY <1>1 DEF Surjection
<1>3. Backfill!IsFiniteSet(K)
  <2>1. IsFiniteSet(S)
    BY LinesAreWorth DEF Backfill!IsFiniteSet, IsFiniteSet
  <2> HIDE DEF K, key
  <2> QED BY <1>2, <2>1, FS_Surjection DEF Backfill!IsFiniteSet, IsFiniteSet
<1>4. key \in [S -> K]
  BY <1>1
<1>5. \A c : Performance!Subject(S, c) = {l \in S : key[l] = c}
  BY DEF Performance!Subject
<1>6. DOMAIN F = K /\ \A c \in K : F[c] = Performance!Revenue({l \in S : key[l] = c})
  BY <1>5
<1> HIDE DEF K, key, F
<1>7. Performance!SumOf(F) = Performance!Revenue(S)
  BY <1>3, <1>4, <1>6, GroupsAddUp
<1> QED BY <1>7 DEF F, K

\* The two windows have no line in common and leave none out.
LEMMA WindowsAddUp ==
    ASSUME PerformanceInv, NEW cs
    PROVE  LET current == Performance!Current({Home}, cs)
               prior == Performance!Prior({Home}, cs)
               all == {l \in ledger : /\ Catalog[l.product].store = Home
                                      /\ Catalog[l.product].category \in cs
                                      /\ l.at >= Performance!PriorSince}
           IN Performance!Revenue(current) + Performance!Revenue(prior) = Performance!Revenue(all)
<1> DEFINE current == Performance!Current({Home}, cs)
           prior == Performance!Prior({Home}, cs)
           all == {l \in ledger : /\ Catalog[l.product].store = Home
                                  /\ Catalog[l.product].category \in cs
                                  /\ l.at >= Performance!PriorSince}
<1>1. /\ Performance!Since \in Int /\ Performance!PriorSince \in Int /\ Now \in Int
      /\ Performance!PriorSince < Performance!Since
      /\ \A l \in ledger : l.at \in Int /\ l.at < Now
  <2>1. Lookback \in Nat \ {0} /\ Now \in Int
    BY ReportAssumption DEF Performance!PerformanceAssumption
  <2>2. /\ Performance!Since = Now - 2 * Lookback
        /\ Performance!PriorSince = Performance!Since - 2 * Lookback
    BY DEF Performance!Since, Performance!PriorSince
  <2>3. \A l \in ledger : l.at \in Int /\ l.at < Now
    BY ReportAssumption DEF PerformanceInv, Performance!PerformanceAssumption
  <2> QED BY <2>1, <2>2, <2>3
<1>2. /\ current \in SUBSET ledger /\ prior \in SUBSET ledger
      /\ current \cap prior = {} /\ all = current \cup prior
  <2> DEFINE ours == {l \in ledger : /\ Catalog[l.product].store = Home
                                     /\ Catalog[l.product].category \in cs}
  <2>1. /\ current = {l \in ours : l.at >= Performance!Since /\ l.at < Now}
        /\ prior = {l \in ours : l.at >= Performance!PriorSince /\ l.at < Performance!Since}
        /\ all = {l \in ours : l.at >= Performance!PriorSince}
    BY DEF Performance!Current, Performance!Prior, Performance!Lines, Performance!IsIn
  <2>2. \A l \in ours : l \in ledger /\ l.at \in Int /\ l.at < Now
    BY <1>1
  <2> HIDE DEF ours, current, prior, all
  <2> QED BY <1>1, <2>1, <2>2
<1> HIDE DEF current, prior, all
<1>3. Backfill!IsFiniteSet(ledger) /\ \A l \in ledger : LedgerWorth[l] \in Int
  BY LinesAreWorth
<1>4. SumOver(LedgerWorth, current \cup prior)
          = SumOver(LedgerWorth, current) + SumOver(LedgerWorth, prior)
  BY <1>2, <1>3, SumOfBoth
<1>5. all \in SUBSET ledger
  BY <1>2
<1>6. Performance!Revenue(current) + Performance!Revenue(prior) = Performance!Revenue(all)
  BY <1>2, <1>4, <1>5, RevenueOfLines
<1> QED BY <1>6 DEF current, prior, all

LEMMA SalesCountOnce == PerformanceInv => Performance!SalesAreCountedOnce
<1> SUFFICES ASSUME PerformanceInv, NEW cs \in Performance!Filters
             PROVE  LET current == Performance!Current({Home}, cs)
                        prior == Performance!Prior({Home}, cs)
                    IN /\ Performance!Revenue(current) + Performance!Revenue(prior) =
                            Performance!Revenue(
                              {l \in ledger : /\ Catalog[l.product].store = Home
                                              /\ Catalog[l.product].category \in cs
                                              /\ l.at >= Performance!PriorSince})
                       /\ Performance!SumOf(Performance!Weeks(current, Performance!Since))
                            = Performance!Revenue(current)
                       /\ Performance!SumOf(Performance!Weeks(prior, Performance!PriorSince))
                            = Performance!Revenue(prior)
                       /\ Performance!SumOf([c \in Performance!SubjectsOf(current) |->
                                 Performance!Revenue(Performance!Subject(current, c))])
                            = Performance!Revenue(current)
  BY DEF Performance!SalesAreCountedOnce
<1> DEFINE current == Performance!Current({Home}, cs)
           prior == Performance!Prior({Home}, cs)
<1>1. current \in SUBSET ledger /\ prior \in SUBSET ledger
  BY DEF Performance!Current, Performance!Prior, Performance!Lines
<1>2. Performance!Revenue(current) + Performance!Revenue(prior) =
        Performance!Revenue({l \in ledger : /\ Catalog[l.product].store = Home
                                            /\ Catalog[l.product].category \in cs
                                            /\ l.at >= Performance!PriorSince})
  BY WindowsAddUp
<1> HIDE DEF current, prior
<1>3. Performance!SumOf(Performance!Weeks(current, Performance!Since)) = Performance!Revenue(current)
  BY <1>1, WeeksAddUp
<1>4. Performance!SumOf(Performance!Weeks(prior, Performance!PriorSince))
        = Performance!Revenue(prior)
  BY <1>1, WeeksAddUp
<1>5. Performance!SumOf([c \in Performance!SubjectsOf(current) |->
                 Performance!Revenue(Performance!Subject(current, c))]) = Performance!Revenue(current)
  BY <1>1, SubjectsAddUp
<1> QED BY <1>2, <1>3, <1>4, <1>5 DEF current, prior

\* Lines with a price are worth something.
LEMMA RevenueIsPositive ==
    ASSUME PerformanceInv, NEW S \in SUBSET ledger,
           NEW l \in S, Catalog[l.product].price > 0
    PROVE  Performance!Revenue(S) > 0
<1> DEFINE R == RowsOf(LedgerWorth, S)
           r == [of |-> l, qty |-> LedgerWorth[l]]
<1>1. /\ Backfill!IsFiniteSet(S) /\ LedgerWorth[l] > 0
      /\ \A k \in S : LedgerWorth[k] \in Nat /\ LedgerWorth[k] \in Int
  BY LinesAreWorth
<1>2. AreCounted(R)
  <2>1. AreNumbers(R)
    BY <1>1, RowsAreNumbers
  <2>2. \A q \in R : q.qty \in Nat
    BY <1>1 DEF RowsOf
  <2> HIDE DEF R
  <2> QED BY <2>1, <2>2 DEF AreCounted, AreNumbers
<1>3. r \in R /\ r.qty > 0
  BY <1>1 DEF RowsOf
<1> HIDE DEF R, r
<1>4. Backfill!Units(R) > 0
  BY <1>2, <1>3, UnitsArePositive
<1> QED BY <1>4, RevenueOfLines DEF SumOver, R

LEMMA LostSalesShow == PerformanceInv => Performance!LostSalesAreSeen
<1> DEFINE cs == Performance!Categories
           current(p) == Performance!Of(Performance!Kept(Performance!Current({Home}, cs)), p)
           prior(p) == Performance!Of(Performance!Kept(Performance!Prior({Home}, cs)), p)
<1> SUFFICES ASSUME PerformanceInv, NEW p \in DOMAIN Catalog,
                    Catalog[p].margin >= MinMargin, Catalog[p].price > 0,
                    prior(p) # {}, current(p) = {}
             PROVE  p \in Performance!Opportunities(cs)
  BY DEF Performance!LostSalesAreSeen, Performance!Products
<1>1. /\ prior(p) \in SUBSET ledger /\ current(p) \in SUBSET ledger
      /\ \A l \in prior(p) : l.product = p
      /\ p \in Performance!ProductsOf(Performance!Kept(Performance!Prior({Home}, cs)))
  BY DEF Performance!Of, Performance!Kept, Performance!Current, Performance!Prior,
     Performance!Lines, Performance!ProductsOf
<1> DEFINE lost == Performance!Revenue(prior(p))
<1>2. lost \in Int /\ lost > 0
  <2>1. PICK l \in prior(p) : Catalog[l.product].price > 0
    BY <1>1
  <2> HIDE DEF prior, current
  <2> QED BY <1>1, <2>1, RevenueOfLines, RevenueIsPositive
<1>3. Performance!Revenue(current(p)) = 0
  <2>1. {} \in SUBSET ledger
    OBVIOUS
  <2> HIDE DEF current
  <2> QED BY <2>1, RevenueOfLines, SumOfNone
<1>4. 100 * (0 - lost) <= -MinDrop * lost
  <2>1. MinDrop \in 0 .. 100
    BY ReportAssumption DEF Performance!PerformanceAssumption
  <2>2. \A m \in 0 .. 100, n \in Int : n > 0 => 100 * (0 - n) <= -m * n
    OBVIOUS
  <2> HIDE DEF lost
  <2> QED BY <1>2, <2>1, <2>2
<1>5. Performance!IsOpportunity(p, current(p), prior(p))
  <2> HIDE DEF current, prior
  <2> QED BY <1>2, <1>3, <1>4 DEF Performance!IsOpportunity
<1> QED BY <1>1, <1>5 DEF Performance!Opportunities

\* The reports of a store tell of the same sales: the two windows hold every order line
\* since the first of them once, their weeks and their subjects add up; and a product
\* with a price that stopped selling is reported (merchandising.py,
\* product_performance.py).
THEOREM ReportsStayTrue == Spec => []PerformanceIsTrue
<1> DEFINE Inv == part = "performance" => PerformanceInv
<1>1. Init => Inv
  BY PartInit, InitPerformance
<1>2. Inv /\ [Next]_vars => Inv'
  BY PartStep, NextPerformance
<1>3. Inv => PerformanceIsTrue
  BY SalesCountOnce, LostSalesShow DEF PerformanceIsTrue
<1> QED BY <1>1, <1>2, <1>3, PTL DEF Spec

-----------------------------------------------------------------------------
(* The projection of strategies *)

\* What a request is about.
RequestInv ==
    /\ \A c \in Sections : /\ base[c].revenue \in Nat /\ base[c].rate \in Int
                             /\ base[c].space \in Nat
    /\ ask.from \in Sections \cup {None} /\ ask.to \in Sections \cup {None}
    /\ ask.margin \in Int /\ ask.cap \in Int

\* A row of a projection.
IsRow(row) == row.revenue \in Nat /\ row.space \in Nat /\ row.margin \in Int

LEMMA QuotientIsNat == \A a \in Nat, b \in Nat \ {0} : a \div b \in Nat
OBVIOUS
LEMMA QuotientIsInt == \A a \in Int, b \in Nat \ {0} : a \div b \in Int
OBVIOUS
LEMMA ProductIsNat == \A a, b \in Nat : a * b \in Nat
OBVIOUS
LEMMA ProductIsInt == \A a, b \in Int : a * b \in Int
OBVIOUS

LEMMA PercentIs ==
    /\ \A p, n \in Int : Projection!Percent(p, n) \in Int
    /\ \A p, n \in Nat : Projection!Percent(p, n) \in Nat
BY ProductIsNat, ProductIsInt, QuotientIsNat, QuotientIsInt DEF Projection!Percent

LEMMA MarginIs == \A n, p \in Int : Projection!Margin(n, p) \in Int
BY PercentIs DEF Projection!Margin

LEMMA DiscountedIs == \A n \in Int : Projection!Discounted(n) \in 0 .. 60
BY DEF Projection!Discounted, Projection!Lesser, Projection!Greater

LEMMA MovedIs == \A n \in Int : Projection!Moved(n) \in -40 .. 40
BY DEF Projection!Moved, Projection!Lesser, Projection!Greater

LEMMA DiscountMakesRow ==
    ASSUME RequestInv, NEW discount \in Int, NEW c \in Sections
    PROVE  /\ IsRow(Projection!AfterDiscount(discount, c))
           /\ Projection!AfterDiscount(discount, c).space = base[c].space * 100
<1> DEFINE d == Projection!Discounted(discount)
           left == Projection!Percent(100 - d, base[c].revenue)
           volume == (left * (1000 + 16 * d)) \div 1000
           cut == Projection!Greater(0, base[c].rate - (9 * d) \div 10)
<1>1. d \in Nat /\ 100 - d \in Nat /\ 1000 + 16 * d \in Nat
  BY DiscountedIs
<1>2. base[c].revenue \in Nat /\ base[c].rate \in Int /\ base[c].space * 100 \in Nat
  BY DEF RequestInv
<1>3. cut \in Int
  BY <1>1, <1>2 DEF Projection!Greater
<1> HIDE DEF d, cut
<1>4. left \in Nat
  BY <1>1, <1>2, PercentIs
<1> HIDE DEF left
<1>5. left * (1000 + 16 * d) \in Nat
  BY <1>1, <1>4, ProductIsNat
<1>6. volume \in Nat
  BY <1>5, QuotientIsNat
<1> HIDE DEF volume
<1>7. /\ Projection!Margin(volume, cut) \in Int
      /\ Projection!Margin(base[c].revenue, base[c].rate) \in Int
  <2>1. volume \in Int /\ base[c].revenue \in Int
    BY <1>2, <1>6
  <2> QED BY <1>2, <1>3, <2>1, MarginIs
<1> QED BY <1>2, <1>6, <1>7 DEF Projection!AfterDiscount, IsRow, volume, left, cut, d

\* A gain is a loss at worst of the amount that was moved.
LEMMA GainIs ==
    ASSUME RequestInv, NEW source \in Sections, NEW dest \in Sections, NEW amount \in Nat
    PROVE  /\ Projection!Gain(source, dest, amount) \in Int
           /\ Projection!Gain(source, dest, amount) >= -amount
<1> DEFINE area(c) == Projection!Greater(base[c].space, 1)
           sold == amount * base[dest].revenue * area(source)
           rate == area(dest) * base[source].revenue
<1>1. base[source].revenue \in Nat /\ base[dest].revenue \in Nat
  BY DEF RequestInv
<1>2. \A c \in Sections : area(c) \in Nat \ {0}
  BY DEF Projection!Greater, RequestInv
<1>3. CASE base[source].revenue = 0
  BY <1>3 DEF Projection!Gain
<1>4. CASE base[source].revenue # 0
  <2> HIDE DEF area
  <2>1. sold \in Nat
    <3>1. amount * base[dest].revenue \in Nat
      BY <1>1, ProductIsNat
    <3> QED BY <1>2, <3>1, ProductIsNat
  <2>2. rate \in Nat \ {0}
    <3>1. area(dest) \in Nat \ {0} /\ base[source].revenue \in Nat \ {0}
      BY <1>1, <1>2, <1>4
    <3>2. \A a, b \in Nat \ {0} : a * b \in Nat \ {0}
      OBVIOUS
    <3> QED BY <3>1, <3>2
  <2> DEFINE worth == sold \div rate
  <2>3. worth \in Nat
    <3> HIDE DEF sold, rate
    <3> QED BY <2>1, <2>2, QuotientIsNat
  <2>4. Projection!Gain(source, dest, amount) = Projection!Percent(35, worth - amount)
    BY <1>4 DEF Projection!Gain, area
  <2> HIDE DEF worth
  <2>5. Projection!Percent(35, worth - amount) = ((worth - amount) * 35) \div 100
    BY DEF Projection!Percent
  <2> QED BY <2>3, <2>4, <2>5
<1> QED BY <1>3, <1>4

\* A shift moves space from one category to another, and no more revenue than there is.
LEMMA ShiftMakesRows ==
    ASSUME RequestInv, NEW shift \in Int, NEW rows, DOMAIN rows = Sections,
           \A c \in Sections : IsRow(rows[c]) /\ rows[c].space = base[c].space * 100
    PROVE  LET shifted == Projection!AfterShift(rows, shift)
           IN /\ DOMAIN shifted = Sections
              /\ \A c \in Sections : IsRow(shifted[c])
              /\ \/ shifted = rows
                 \/ \E a, b \in Sections :
                      /\ a # b
                      /\ shifted[a].space + shifted[b].space = rows[a].space + rows[b].space
                      /\ \A c \in Sections \ {a, b} : shifted[c] = rows[c]
<1> DEFINE forward == Projection!Moved(shift) > 0
           source == IF forward THEN ask.from ELSE ask.to
           dest == IF forward THEN ask.to ELSE ask.from
           moved == IF forward THEN Projection!Moved(shift) ELSE -Projection!Moved(shift)
           amount == Projection!Reallocated(source, rows, moved)
           space == base[source].space * moved
           gain == Projection!Gain(source, dest, amount)
           rate == base[source].rate + ((base[dest].rate - base[source].rate) * 6) \div 10
           giver == [revenue |-> rows[source].revenue - amount,
                     space |-> Projection!Greater(0, rows[source].space - space),
                     margin |-> rows[source].margin - Projection!Margin(amount, base[source].rate)]
           taker == [revenue |-> rows[dest].revenue + amount + gain,
                     space |-> rows[dest].space + space,
                     margin |-> rows[dest].margin + Projection!Margin(amount, base[dest].rate)
                                  + Projection!Margin(gain, rate)]
           still == moved = 0 \/ ask.from = None \/ ask.to = None \/ ask.from = ask.to
           shifted == Projection!AfterShift(rows, shift)
<1>1. CASE still
  <2>1. shifted = rows
    BY <1>1 DEF Projection!AfterShift
  <2> QED BY <2>1
<1>2. CASE ~ still
  <2>1. shifted = [rows EXCEPT ![source] = giver, ![dest] = taker]
    <3>0. source # dest
      BY <1>2
    <3> QED BY <1>2, <3>0 DEF Projection!AfterShift
  <2>2. source \in Sections /\ dest \in Sections /\ source # dest
    BY <1>2 DEF RequestInv
  <2>3. moved \in 1 .. 40
    BY <1>2, MovedIs
  <2> HIDE DEF forward, source, dest, moved
  <2>4. /\ base[source].revenue \in Nat /\ base[source].space \in Nat
        /\ base[source].rate \in Int /\ base[dest].rate \in Int
        /\ IsRow(rows[source]) /\ IsRow(rows[dest])
        /\ rows[source].space = base[source].space * 100
    BY <2>2 DEF RequestInv
  <2>5. amount \in Nat /\ amount <= rows[source].revenue
    <3>1. Projection!Percent(moved, base[source].revenue) \in Nat
      <4>1. moved \in Nat
        BY <2>3
      <4> HIDE DEF source
      <4> QED BY <2>4, <4>1, PercentIs
    <3> QED BY <2>4, <3>1 DEF Projection!Reallocated, Projection!Lesser, IsRow
  <2> HIDE DEF amount
  <2>6. gain \in Int /\ gain >= -amount
    BY <2>2, <2>5, GainIs
  <2> HIDE DEF gain
  <2>7. space \in Nat /\ space <= rows[source].space
    <3>1. \A n \in Nat, m \in 1 .. 40 : n * m \in Nat /\ n * m <= n * 100
      OBVIOUS
    <3> QED BY <2>3, <2>4, <3>1
  <2> HIDE DEF space
  <2>8. rate \in Int
    BY <2>4
  <2> HIDE DEF rate
  <2>9. /\ Projection!Margin(amount, base[source].rate) \in Int
        /\ Projection!Margin(amount, base[dest].rate) \in Int
        /\ Projection!Margin(gain, rate) \in Int
    <3>1. amount \in Int
      BY <2>5
    <3> QED BY <2>4, <2>6, <2>8, <3>1, MarginIs
  <2>10. IsRow(giver) /\ giver.space = rows[source].space - space
    BY <2>4, <2>5, <2>7, <2>9 DEF IsRow, Projection!Greater
  <2>11. IsRow(taker) /\ taker.space = rows[dest].space + space
    BY <2>4, <2>5, <2>6, <2>7, <2>9 DEF IsRow
  <2> HIDE DEF giver, taker, shifted
  <2>12. /\ DOMAIN shifted = Sections /\ shifted[source] = giver /\ shifted[dest] = taker
         /\ \A c \in Sections \ {source, dest} : shifted[c] = rows[c]
    BY <2>1, <2>2
  <2>13. shifted[source].space + shifted[dest].space = rows[source].space + rows[dest].space
    BY <2>4, <2>7, <2>10, <2>11, <2>12 DEF IsRow
  <2>14. \A c \in Sections : IsRow(shifted[c])
    BY <2>10, <2>11, <2>12
  <2>15. \E a, b \in Sections :
            /\ a # b
            /\ shifted[a].space + shifted[b].space = rows[a].space + rows[b].space
            /\ \A c \in Sections \ {a, b} : shifted[c] = rows[c]
    BY <2>2, <2>12, <2>13
  <2> QED BY <2>12, <2>14, <2>15 DEF shifted
<1> QED BY <1>1, <1>2

\* Sums that differ at two members only, by nothing together.
LEMMA SumsOfShift ==
    ASSUME NEW S, Backfill!IsFiniteSet(S), NEW f, NEW g,
           \A x \in S : f[x] \in Int /\ g[x] \in Int,
           NEW a \in S, NEW b \in S, a # b, f[a] + f[b] = g[a] + g[b],
           \A x \in S \ {a, b} : f[x] = g[x]
    PROVE  SumOver(f, S) = SumOver(g, S)
<1> DEFINE T == S \ {a}
           U == T \ {b}
<1>1. Backfill!IsFiniteSet(T) /\ Backfill!IsFiniteSet(U) /\ b \in T /\ T \subseteq S /\ U \subseteq S
  BY SubsetIsFinite
<1>2. \A x \in U : f[x] = g[x]
  OBVIOUS
<1> HIDE DEF T, U
<1>3. SumOver(f, U) = SumOver(g, U) /\ SumOver(f, U) \in Int
  BY <1>1, <1>2, SumOfEqual, SumIsInt
<1>4. SumOver(f, S) = f[a] + SumOver(f, T) /\ SumOver(g, S) = g[a] + SumOver(g, T)
  BY SumWithout DEF T
<1>5. SumOver(f, T) = f[b] + SumOver(f, U) /\ SumOver(g, T) = g[b] + SumOver(g, U)
  BY <1>1, SumWithout DEF U
<1> QED BY <1>3, <1>4, <1>5

\* A projection keeps the floor space, and sells and holds nothing negative.
LEMMA ProjectedIs ==
    ASSUME RequestInv, NEW discount \in Int, NEW shift \in Int
    PROVE  LET rows == Projection!Projected(discount, shift)
           IN /\ DOMAIN rows = Sections /\ \A c \in Sections : IsRow(rows[c])
              /\ Projection!Total([c \in Sections |-> rows[c].space])
                   = Projection!Total([c \in Sections |-> base[c].space * 100])
<1> DEFINE first == [c \in Sections |-> Projection!AfterDiscount(discount, c)]
           rows == Projection!Projected(discount, shift)
           f == [c \in Sections |-> rows[c].space]
           g == [c \in Sections |-> base[c].space * 100]
<1>1. /\ DOMAIN first = Sections
      /\ \A c \in Sections : IsRow(first[c]) /\ first[c].space = base[c].space * 100
  BY DiscountMakesRow
<1>2. rows = Projection!AfterShift(first, shift)
  BY DEF Projection!Projected
<1> HIDE DEF first
<1>3. /\ DOMAIN rows = Sections /\ \A c \in Sections : IsRow(rows[c])
      /\ \/ rows = first
         \/ \E a, b \in Sections :
              /\ a # b
              /\ rows[a].space + rows[b].space = first[a].space + first[b].space
              /\ \A c \in Sections \ {a, b} : rows[c] = first[c]
  BY <1>1, <1>2, ShiftMakesRows
<1> HIDE DEF rows
<1>4. \A c \in Sections : f[c] \in Int /\ g[c] \in Int /\ g[c] = first[c].space
  BY <1>1, <1>3 DEF IsRow, RequestInv
<1>5. Backfill!IsFiniteSet(Sections)
  BY ReportAssumption DEF Projection!ProjectionAssumption, Projection!IsFiniteSet,
     Backfill!IsFiniteSet
<1>6. f = [c \in Sections |-> f[c]] /\ g = [c \in Sections |-> g[c]]
      /\ \A c \in Sections : f[c] = rows[c].space
  OBVIOUS
<1> HIDE DEF f, g
<1>7. SumOver(f, Sections) = SumOver(g, Sections)
  <2>1. CASE rows = first
    <3>1. \A c \in Sections : f[c] = g[c]
      BY <1>4, <1>6, <2>1
    <3> QED BY <3>1, SumOfEqual
  <2>2. ASSUME NEW a \in Sections, NEW b \in Sections, a # b,
               rows[a].space + rows[b].space = first[a].space + first[b].space,
               \A c \in Sections \ {a, b} : rows[c] = first[c]
        PROVE  SumOver(f, Sections) = SumOver(g, Sections)
    <3>1. f[a] + f[b] = g[a] + g[b] /\ \A c \in Sections \ {a, b} : f[c] = g[c]
      BY <1>4, <1>6, <2>2
    <3> QED BY <1>4, <1>5, <2>2, <3>1, SumsOfShift
  <2> QED BY <1>3, <2>1, <2>2
<1>8. Projection!Total(f) = SumOver(f, Sections) /\ Projection!Total(g) = SumOver(g, Sections)
  <2>1. DOMAIN f = Sections /\ DOMAIN g = Sections
    BY <1>6
  <2>2. Projection!Total(f) = SumOver(f, DOMAIN f)
    BY <1>4, <1>5, <2>1, TotalIsSum
  <2>3. Projection!Total(g) = SumOver(g, DOMAIN g)
    BY <1>4, <1>5, <2>1, TotalIsSum
  <2> QED BY <2>1, <2>2, <2>3
<1>9. Projection!Total(f) = Projection!Total(g)
  BY <1>7, <1>8
<1> QED BY <1>3, <1>9 DEF rows, f, g

\* The numbers of a scenario.
Numbers == [discount : Int, shift : Int, revenue : Int, delta : Int, rate : Int, rateDelta : Int]

LEMMA TotalIsInt ==
    ASSUME NEW f, DOMAIN f = Sections, \A c \in Sections : f[c] \in Int
    PROVE  Projection!Total(f) \in Int
<1>1. Backfill!IsFiniteSet(DOMAIN f)
  BY ReportAssumption DEF Projection!ProjectionAssumption, Projection!IsFiniteSet,
     Backfill!IsFiniteSet
<1>2. SumOver(f, DOMAIN f) \in Int
  BY <1>1, SumIsInt
<1> QED BY <1>1, <1>2, TotalIsSum

LEMMA ScenarioIs ==
    ASSUME RequestInv, NEW discount \in Int, NEW shift \in Int
    PROVE  /\ Projection!Scenario(discount, shift) \in Numbers
           /\ Projection!Scenario(discount, shift).discount = discount
           /\ Projection!Scenario(discount, shift).shift = shift
<1> DEFINE rows == Projection!Projected(discount, shift)
           f == [c \in Sections |-> base[c].revenue]
           g == [c \in Sections |-> Projection!Clamped(rows[c]).revenue]
           h == [c \in Sections |-> Projection!Clamped(rows[c]).margin]
           k == [c \in Sections |-> Projection!Margin(base[c].revenue, base[c].rate)]
           baseline == Projection!Total(f)
           revenue == Projection!Total(g)
           margin == Projection!Total(h)
           prior == Projection!Total(k)
           rate == IF revenue > 0 THEN (100 * margin) \div revenue ELSE 0
           first == IF baseline > 0 THEN (100 * prior) \div baseline ELSE 0
<1>1. \A c \in Sections : IsRow(rows[c])
  BY ProjectedIs
<1> HIDE DEF rows
<1>2. \A c \in Sections : Projection!Clamped(rows[c]) = rows[c]
  BY <1>1 DEF Projection!Clamped, IsRow
<1>3. \A c \in Sections : base[c].revenue \in Int /\ base[c].rate \in Int
  BY DEF RequestInv
<1>4. /\ \A c \in Sections : f[c] \in Int /\ DOMAIN f = Sections
      /\ \A c \in Sections : g[c] \in Int /\ DOMAIN g = Sections
      /\ \A c \in Sections : h[c] \in Int /\ DOMAIN h = Sections
      /\ \A c \in Sections : k[c] \in Int /\ DOMAIN k = Sections
  <2>1. \A c \in Sections : Projection!Margin(base[c].revenue, base[c].rate) \in Int
    BY <1>3, MarginIs
  <2>2. \A c \in Sections : rows[c].revenue \in Int /\ rows[c].margin \in Int
    BY <1>1 DEF IsRow
  <2> QED BY <1>2, <1>3, <2>1, <2>2
<1>5. baseline \in Int /\ revenue \in Int /\ margin \in Int /\ prior \in Int
  <2>1. DOMAIN f = Sections /\ DOMAIN g = Sections /\ DOMAIN h = Sections /\ DOMAIN k = Sections
    OBVIOUS
  <2> HIDE DEF f, g, h, k
  <2> QED BY <1>4, <2>1, TotalIsInt
<1> HIDE DEF baseline, revenue, margin, prior
<1>6. rate \in Int /\ first \in Int
  <2>1. \A a \in Int, b \in Int : b > 0 => (100 * a) \div b \in Int
    BY QuotientIsInt
  <2> QED BY <1>5, <2>1
<1> HIDE DEF rate, first
<1>7. Projection!Scenario(discount, shift) =
        [discount |-> discount, shift |-> shift, revenue |-> revenue, delta |-> revenue - baseline,
         rate |-> rate, rateDelta |-> rate - first]
  BY DEF Projection!Scenario, rows, f, g, h, k, baseline, revenue, margin, prior, rate, first
<1> QED BY <1>5, <1>6, <1>7 DEF Numbers

\* The steps of a range.
LEMMA RangeIs ==
    ASSUME NEW r, Projection!IsRange(r)
    PROVE  /\ Projection!InclusiveRange(r) \in Seq(Int)
           /\ Len(Projection!InclusiveRange(r)) \in Nat \ {0}
<1> DEFINE n == (r.max - r.min) \div r.step + 1
           steps == [i \in 1 .. n |-> r.min + (i - 1) * r.step]
<1>1. r.min \in Int /\ r.max \in Int /\ r.step \in Nat \ {0} /\ r.max - r.min \in Nat
  BY DEF Projection!IsRange
<1>2. n \in Nat \ {0}
  <2>1. (r.max - r.min) \div r.step \in Nat
    BY <1>1, QuotientIsNat
  <2> QED BY <2>1
<1> HIDE DEF n
<1>3. \A i \in 1 .. n : steps[i] \in Int
  <2> TAKE i \in 1 .. n
  <2>1. (i - 1) * r.step \in Int
    BY <1>1, <1>2, ProductIsInt
  <2> QED BY <1>1, <2>1
<1>4. steps \in Seq(Int) /\ Len(steps) = n
  BY <1>2, <1>3
<1>5. Projection!InclusiveRange(r) = IF steps[Len(steps)] = r.max THEN steps ELSE Append(steps, r.max)
  BY DEF Projection!InclusiveRange, n
<1> HIDE DEF steps
<1> QED BY <1>1, <1>2, <1>4, <1>5

LEMMA TriedIs ==
    /\ Projection!DiscountsTried \in Seq(Int) /\ Len(Projection!DiscountsTried) \in Nat \ {0}
    /\ Projection!ShiftsTried \in Seq(Int) /\ Len(Projection!ShiftsTried) \in Nat \ {0}
    /\ Projection!Grid \in Nat
<1>1. Projection!IsRange(DiscountRange) /\ Projection!IsRange(ShiftRange)
  BY ReportAssumption DEF Projection!ProjectionAssumption
<1>2. Projection!DiscountsTried \in Seq(Int) /\ Len(Projection!DiscountsTried) \in Nat \ {0}
  BY <1>1, RangeIs DEF Projection!DiscountsTried
<1>3. <<0>> \in Seq(Int) /\ Len(<<0>>) = 1
  OBVIOUS
<1>4. Projection!ShiftsTried \in Seq(Int) /\ Len(Projection!ShiftsTried) \in Nat \ {0}
  BY <1>1, <1>3, RangeIs DEF Projection!ShiftsTried
<1> QED BY <1>2, <1>4, ProductIsNat DEF Projection!Grid

\* The scenarios simulated are scenarios; what is offered is chosen from the whole grid.
ProjectionInv ==
    /\ RequestInv /\ candidates \in Seq(Numbers)
    /\ offered # None /\ offered # {} =>
          /\ Len(candidates) = Projection!Grid
          /\ offered = {i \in 1 .. Projection!Grid :
                          Projection!Cardinality({j \in 1 .. Projection!Grid :
                                                    j # i /\ Projection!Before(j, i)}) < TopK}

LEMMA InitProjection == Projection!Init => ProjectionInv
<1> SUFFICES ASSUME Projection!Init PROVE ProjectionInv
  OBVIOUS
<1>1. RequestInv
  BY ReportAssumption DEF Projection!Init, RequestInv, Projection!ProjectionAssumption
<1>2. candidates = <<>> /\ offered = None
  BY DEF Projection!Init
<1> QED BY <1>1, <1>2 DEF ProjectionInv

\* A step of the grid stays within it.
LEMMA GridIs ==
    ASSUME NEW n \in Nat, NEW m \in Nat \ {0}, NEW i \in Nat, i < n * m
    PROVE  (i \div m) + 1 \in 1 .. n /\ (i % m) + 1 \in 1 .. m
<1> DEFINE q == i \div m
           r == i % m
<1>1. q \in Nat /\ r \in 0 .. m - 1 /\ i = m * q + r
  OBVIOUS
<1> HIDE DEF q, r
<1>2. q < n
  <2>1. SUFFICES ASSUME q >= n PROVE FALSE
    BY <1>1
  <2>2. \A a \in Nat, b \in Nat, c \in Nat : a >= b => c * a >= b * c
    OBVIOUS
  <2> QED BY <1>1, <2>1, <2>2
<1> QED BY <1>1, <1>2 DEF q, r

LEMMA NextProjection == ProjectionInv /\ [Projection!Next]_(Projection!vars) => ProjectionInv'
<1> SUFFICES ASSUME ProjectionInv, [Projection!Next]_(Projection!vars) PROVE ProjectionInv'
  OBVIOUS
<1>1. UNCHANGED <<base, ask>> => RequestInv'
  BY DEF ProjectionInv, RequestInv
<1>2. CASE UNCHANGED Projection!vars
  <2>1. UNCHANGED <<base, ask, candidates, offered>>
    BY <1>2 DEF Projection!vars
  <2>2. /\ Projection!Grid' = Projection!Grid
        /\ \A i, j : Projection!Before(j, i)' = Projection!Before(j, i)
    BY <2>1 DEF Projection!Grid, Projection!ShiftsTried, Projection!DiscountsTried,
       Projection!Before, Projection!Better, Projection!Passes, Projection!Score
  <2> QED BY <1>1, <2>1, <2>2 DEF ProjectionInv
<1>3. CASE Projection!WhatIf
  <2>1. PICK discount, shift \in Adjustments :
          candidates' = <<Projection!Scenario(discount, shift)>>
    BY <1>3 DEF Projection!WhatIf
  <2>2. discount \in Int /\ shift \in Int
    BY ReportAssumption DEF Projection!ProjectionAssumption
  <2>3. candidates' \in Seq(Numbers)
    BY <2>1, <2>2, ScenarioIs DEF ProjectionInv
  <2> QED BY <1>1, <1>3, <2>3 DEF ProjectionInv, Projection!WhatIf
<1>4. CASE Projection!Simulate
  <2> DEFINE i == Len(candidates)
             discount == Projection!DiscountsTried[(i \div Len(Projection!ShiftsTried)) + 1]
             shift == Projection!ShiftsTried[(i % Len(Projection!ShiftsTried)) + 1]
  <2>1. /\ i < Projection!Grid /\ candidates' = Append(candidates, Projection!Scenario(discount, shift))
        /\ UNCHANGED <<base, ask, offered>> /\ offered = None
    BY <1>4 DEF Projection!Simulate
  <2>2. discount \in Int /\ shift \in Int
    <3>1. i \in Nat
      BY DEF ProjectionInv
    <3> HIDE DEF i
    <3>2. /\ (i \div Len(Projection!ShiftsTried)) + 1 \in 1 .. Len(Projection!DiscountsTried)
          /\ (i % Len(Projection!ShiftsTried)) + 1 \in 1 .. Len(Projection!ShiftsTried)
      BY <2>1, <3>1, TriedIs, GridIs DEF Projection!Grid
    <3> QED BY <3>2, TriedIs
  <2> HIDE DEF discount, shift
  <2>3. candidates' \in Seq(Numbers)
    <3>1. candidates \in Seq(Numbers) /\ Projection!Scenario(discount, shift) \in Numbers
      BY <2>2, ScenarioIs DEF ProjectionInv
    <3> QED BY <2>1, <3>1
  <2> QED BY <1>1, <2>1, <2>3 DEF ProjectionInv
<1>5. CASE Projection!Offer
  <2>1. /\ Len(candidates) = Projection!Grid /\ UNCHANGED <<base, ask, candidates>>
        /\ offered' = {i \in 1 .. Projection!Grid :
                          Projection!Cardinality({j \in 1 .. Projection!Grid :
                                                    j # i /\ Projection!Before(j, i)}) < TopK}
    BY <1>5 DEF Projection!Offer
  <2>2. /\ Projection!Grid' = Projection!Grid
        /\ \A i, j : Projection!Before(j, i)' = Projection!Before(j, i)
    BY <2>1 DEF Projection!Grid, Projection!ShiftsTried, Projection!DiscountsTried,
       Projection!Before, Projection!Better, Projection!Passes, Projection!Score
  <2> QED BY <1>1, <2>1, <2>2 DEF ProjectionInv
<1> QED BY <1>2, <1>3, <1>4, <1>5 DEF Projection!Next

\* The first of the members of S in the order R.
LeadersOf(S, R, n) ==
    {i \in S : Cardinality({j \in S : j # i /\ <<j, i>> \in R}) < n}

\* As many lead as asked for, if there are so many.
LEMMA LeadersAre ==
    ASSUME NEW S, Backfill!IsFiniteSet(S), NEW R, NEW n \in Nat,
           \A a, b \in S : a = b \/ <<a, b>> \in R \/ <<b, a>> \in R,
           \A a, b \in S : a # b => ~ (<<a, b>> \in R /\ <<b, a>> \in R),
           \A a, b, c \in S : <<a, b>> \in R /\ <<b, c>> \in R => <<a, c>> \in R
    PROVE  Cardinality(LeadersOf(S, R, n)) = IF n < Cardinality(S) THEN n ELSE Cardinality(S)
<1> DEFINE Wanted(s) == IF n < Cardinality(s) THEN n ELSE Cardinality(s)
           T == {s \in SUBSET S : Cardinality(LeadersOf(s, R, n)) # Wanted(s)}
<1>1. SUFFICES ASSUME T # {} PROVE FALSE
  BY S \in SUBSET S
<1>2. PICK s \in T : \A t \in T : t \subseteq s => t = s
  <2>1. T \subseteq SUBSET S
    OBVIOUS
  <2> HIDE DEF T
  <2> QED BY <1>1, <2>1, SmallestSubset
<1>3. Cardinality(LeadersOf(s, R, n)) # Wanted(s) /\ s \in SUBSET S
  OBVIOUS
<1>4. IsFiniteSet(s) /\ Cardinality(s) \in Nat
  BY <1>3, FS_Subset, FS_CardinalityType DEF Backfill!IsFiniteSet, IsFiniteSet
<1>5. s # {}
  <2>1. SUFFICES ASSUME s = {} PROVE FALSE
    OBVIOUS
  <2>2. LeadersOf(s, R, n) = {} /\ Cardinality(s) = 0
    BY <2>1, FS_EmptySet DEF LeadersOf
  <2> QED BY <1>3, <2>1, <2>2
<1>6. PICK m \in s : \A j \in s : j = m \/ <<j, m>> \in R
  <2> DEFINE Back == {p \in S \X S : <<p[2], p[1]>> \in R}
  <2>1. \A a, b \in S : <<a, b>> \in Back <=> <<b, a>> \in R
    OBVIOUS
  <2> HIDE DEF Back
  <2>2. /\ \A a, b \in s : a = b \/ <<a, b>> \in Back \/ <<b, a>> \in Back
        /\ \A a, b, c \in s : <<a, b>> \in Back /\ <<b, c>> \in Back => <<a, c>> \in Back
    BY <1>3, <2>1
  <2>3. \E m \in s : \A j \in s : j = m \/ <<m, j>> \in Back
    BY <1>3, <1>5, <2>2, SubsetIsFinite, HasFirst
  <2> QED BY <1>3, <2>1, <2>3
<1> DEFINE rest == s \ {m}
<1>7. /\ IsFiniteSet(rest) /\ Cardinality(rest) = Cardinality(s) - 1
      /\ Cardinality(LeadersOf(rest, R, n)) = Wanted(rest)
  <2>1. IsFiniteSet(rest) /\ Cardinality(rest) = Cardinality(s) - 1
    BY <1>4, FS_RemoveElement
  <2>2. rest \notin T /\ rest \in SUBSET S
    BY <1>2, <1>3
  <2> QED BY <2>1, <2>2
<1>8. LeadersOf(s, R, n) = LeadersOf(rest, R, n) \cup (IF Cardinality(rest) < n THEN {m} ELSE {})
  <2>1. \A i \in rest : {j \in s : j # i /\ <<j, i>> \in R} = {j \in rest : j # i /\ <<j, i>> \in R}
    BY <1>3, <1>6
  <2>2. {j \in s : j # m /\ <<j, m>> \in R} = rest
    BY <1>6
  <2> QED BY <2>1, <2>2 DEF LeadersOf
<1>9. LeadersOf(rest, R, n) \in SUBSET rest /\ m \notin LeadersOf(rest, R, n)
  BY DEF LeadersOf
<1>10. IsFiniteSet(LeadersOf(rest, R, n))
  <2> HIDE DEF rest
  <2> QED BY <1>7, <1>9, FS_Subset
<1> HIDE DEF rest, T
<1>11. CASE Cardinality(rest) < n
  <2>1. LeadersOf(s, R, n) = LeadersOf(rest, R, n) \cup {m}
    BY <1>8, <1>11
  <2>2. Cardinality(LeadersOf(s, R, n)) = Cardinality(LeadersOf(rest, R, n)) + 1
    BY <1>9, <1>10, <2>1, FS_AddElement
  <2> QED BY <1>3, <1>4, <1>7, <1>11, <2>2
<1>12. CASE ~ (Cardinality(rest) < n)
  <2>1. LeadersOf(s, R, n) = LeadersOf(rest, R, n)
    BY <1>8, <1>12
  <2> QED BY <1>3, <1>4, <1>7, <1>12, <2>1
<1> QED BY <1>11, <1>12

\* One that leads comes before none that does not.
LEMMA LeadersComeFirst ==
    ASSUME NEW S, Backfill!IsFiniteSet(S), NEW R, NEW n \in Nat,
           \A a, b \in S : a # b => ~ (<<a, b>> \in R /\ <<b, a>> \in R),
           \A a, b, c \in S : <<a, b>> \in R /\ <<b, c>> \in R => <<a, c>> \in R,
           NEW i \in LeadersOf(S, R, n), NEW j \in S \ LeadersOf(S, R, n)
    PROVE  <<j, i>> \notin R
<1> SUFFICES ASSUME <<j, i>> \in R PROVE FALSE
  OBVIOUS
<1> DEFINE P(k) == {l \in S : l # k /\ <<l, k>> \in R}
<1>1. i \in S /\ Cardinality(P(i)) < n /\ ~ (Cardinality(P(j)) < n)
  BY DEF LeadersOf
<1>2. P(j) \in SUBSET P(i)
  BY <1>1
<1>3. P(i) \in SUBSET S
  OBVIOUS
<1> HIDE DEF P
<1> IsFiniteSet(P(i))
  BY <1>3, FS_Subset DEF Backfill!IsFiniteSet, IsFiniteSet
<1>4. /\ Cardinality(P(j)) <= Cardinality(P(i))
      /\ Cardinality(P(j)) \in Nat /\ Cardinality(P(i)) \in Nat
  BY <1>2, <1>3, FS_Subset, FS_CardinalityType
<1> QED BY <1>1, <1>4

\* The scenarios stand in a strict weak order.
LEMMA ScoreIs ==
    ASSUME RequestInv, NEW s \in Numbers
    PROVE  /\ Projection!Score(s) \in Int /\ s.delta \in Int /\ s.rateDelta \in Int
           /\ Projection!Passes(s) \in BOOLEAN
<1>1. s.revenue \div 100 \in Int
  BY DEF Numbers
<1> QED BY <1>1 DEF Projection!Score, Projection!Passes, Numbers

LEMMA BetterIsOrder ==
    ASSUME RequestInv, NEW s \in Numbers, NEW t \in Numbers, NEW u \in Numbers
    PROVE  /\ ~ (Projection!Better(s, t) /\ Projection!Better(t, s))
           /\ Projection!Better(s, t) /\ Projection!Better(t, u) => Projection!Better(s, u)
           /\ ~ Projection!Better(s, t) /\ ~ Projection!Better(t, u) => ~ Projection!Better(s, u)
BY ScoreIs DEF Projection!Better

LEMMA BeforeIsOrder ==
    ASSUME ProjectionInv, NEW S, S \subseteq 1 .. Len(candidates)
    PROVE  /\ \A a, b \in S : a = b \/ Projection!Before(a, b) \/ Projection!Before(b, a)
           /\ \A a, b \in S : a # b => ~ (Projection!Before(a, b) /\ Projection!Before(b, a))
           /\ \A a, b, c \in S :
                 Projection!Before(a, b) /\ Projection!Before(b, c) => Projection!Before(a, c)
<1>1. RequestInv /\ \A a \in S : candidates[a] \in Numbers /\ a \in Int
  BY DEF ProjectionInv
<1>2. ASSUME NEW a \in S, NEW b \in S
      PROVE  ~ (Projection!Better(candidates[a], candidates[b])
                  /\ Projection!Better(candidates[b], candidates[a]))
  BY <1>1, BetterIsOrder
<1>3. ASSUME NEW a \in S, NEW b \in S, NEW c \in S,
             Projection!Before(a, b), Projection!Before(b, c)
      PROVE  Projection!Before(a, c)
  <2> DEFINE B(x, y) == Projection!Better(candidates[x], candidates[y])
  <2>1. /\ B(a, b) /\ B(b, c) => B(a, c)
        /\ B(c, b) /\ B(b, a) => B(c, a)
        /\ ~ B(a, c) /\ ~ B(c, b) => ~ B(a, b)
        /\ ~ B(b, a) /\ ~ B(a, c) => ~ B(b, c)
        /\ ~ B(c, b) /\ ~ B(b, a) => ~ B(c, a)
    BY <1>1, BetterIsOrder
  <2>2. /\ B(a, b) \/ (a < b /\ ~ B(b, a))
        /\ B(b, c) \/ (b < c /\ ~ B(c, b))
        /\ ~ (B(a, b) /\ B(b, a)) /\ ~ (B(b, c) /\ B(c, b))
    BY <1>2, <1>3 DEF Projection!Before
  <2>3. a < b /\ b < c => a < c
    BY <1>1
  <2>4. B(a, c) \/ (a < c /\ ~ B(c, a))
    <3> HIDE DEF B
    <3> QED BY <2>1, <2>2, <2>3
  <2> QED BY <2>4 DEF Projection!Before
<1>4. \A a, b \in S : a = b \/ Projection!Before(a, b) \/ Projection!Before(b, a)
  BY <1>1 DEF Projection!Before
<1>5. \A a, b \in S : a # b => ~ (Projection!Before(a, b) /\ Projection!Before(b, a))
  BY <1>1, <1>2 DEF Projection!Before
<1> QED BY <1>3, <1>4, <1>5

LEMMA ProjectionsAreSound == ProjectionInv => Projection!ProjectionIsSound
<1> SUFFICES ASSUME ProjectionInv, NEW i \in DOMAIN candidates
             PROVE  LET rows == Projection!Projected(candidates[i].discount, candidates[i].shift)
                    IN /\ Projection!Total([c \in Sections |-> rows[c].space])
                            = Projection!Total([c \in Sections |-> base[c].space * 100])
                       /\ \A c \in Sections : rows[c].revenue >= 0 /\ rows[c].space >= 0
  BY DEF Projection!ProjectionIsSound
<1> DEFINE rows == Projection!Projected(candidates[i].discount, candidates[i].shift)
<1>1. RequestInv /\ candidates[i].discount \in Int /\ candidates[i].shift \in Int
  <2>1. RequestInv /\ candidates[i] \in Numbers
    BY DEF ProjectionInv
  <2> QED BY <2>1 DEF Numbers
<1>2. /\ \A c \in Sections : IsRow(rows[c])
      /\ Projection!Total([c \in Sections |-> rows[c].space])
           = Projection!Total([c \in Sections |-> base[c].space * 100])
  BY <1>1, ProjectedIs
<1> HIDE DEF rows
<1>3. \A c \in Sections : rows[c].revenue >= 0 /\ rows[c].space >= 0
  BY <1>2 DEF IsRow
<1> QED BY <1>2, <1>3 DEF rows

LEMMA OffersAreBestOnes == ProjectionInv => Projection!OffersAreBest
<1> SUFFICES ASSUME ProjectionInv, offered # None, offered # {}
             PROVE  /\ Projection!Cardinality(offered) = Projection!Lesser(TopK, Projection!Grid)
                    /\ \A i \in offered, j \in (1 .. Projection!Grid) \ offered :
                          /\ Projection!Passes(candidates[j]) => Projection!Passes(candidates[i])
                          /\ Projection!Passes(candidates[i]) = Projection!Passes(candidates[j])
                                => Projection!Score(candidates[i]) >= Projection!Score(candidates[j])
  BY DEF Projection!OffersAreBest
<1> DEFINE G == 1 .. Projection!Grid
           R == {p \in G \X G : Projection!Before(p[1], p[2])}
<1>1. Projection!Grid \in Nat /\ TopK \in Nat /\ RequestInv
  BY TriedIs, ReportAssumption DEF Projection!ProjectionAssumption, ProjectionInv
<1>2. \A i, j \in G : <<j, i>> \in R <=> Projection!Before(j, i)
  OBVIOUS
<1>3. /\ Len(candidates) = Projection!Grid
      /\ offered = {i \in G : Projection!Cardinality({j \in G : j # i /\ Projection!Before(j, i)}) < TopK}
  BY DEF ProjectionInv
<1>4. \A S : Projection!Cardinality(S) = Cardinality(S)
  BY DEF Projection!Cardinality, Cardinality
<1>5. IsFiniteSet(G) /\ Cardinality(G) = Projection!Grid
  BY <1>1, FS_Interval
<1>6. Backfill!IsFiniteSet(G)
  BY <1>5 DEF Backfill!IsFiniteSet, IsFiniteSet
<1>7. \A i \in G : candidates[i] \in Numbers
  BY <1>3 DEF ProjectionInv
<1>8. /\ \A a, b \in G : a = b \/ Projection!Before(a, b) \/ Projection!Before(b, a)
      /\ \A a, b \in G : a # b => ~ (Projection!Before(a, b) /\ Projection!Before(b, a))
      /\ \A a, b, c \in G :
            Projection!Before(a, b) /\ Projection!Before(b, c) => Projection!Before(a, c)
  <2>1. G \subseteq 1 .. Len(candidates)
    BY <1>3
  <2> HIDE DEF G
  <2> QED BY <2>1, BeforeIsOrder
<1> HIDE DEF G, R
<1>9. offered = LeadersOf(G, R, TopK)
  <2>1. \A i \in G : {j \in G : j # i /\ Projection!Before(j, i)} = {j \in G : j # i /\ <<j, i>> \in R}
    BY <1>2
  <2> QED BY <1>3, <1>4, <2>1 DEF LeadersOf
<1>10. /\ \A a, b \in G : a = b \/ <<a, b>> \in R \/ <<b, a>> \in R
       /\ \A a, b \in G : a # b => ~ (<<a, b>> \in R /\ <<b, a>> \in R)
       /\ \A a, b, c \in G : <<a, b>> \in R /\ <<b, c>> \in R => <<a, c>> \in R
  BY <1>2, <1>8
<1>11. Projection!Cardinality(offered) = Projection!Lesser(TopK, Projection!Grid)
  <2>1. Cardinality(LeadersOf(G, R, TopK)) = IF TopK < Cardinality(G) THEN TopK ELSE Cardinality(G)
    BY <1>1, <1>6, <1>10, LeadersAre
  <2> QED BY <1>4, <1>5, <1>9, <2>1 DEF Projection!Lesser
<1>12. ASSUME NEW i \in offered, NEW j \in G \ offered
       PROVE  ~ Projection!Better(candidates[j], candidates[i])
  <2>1. <<j, i>> \notin R
    BY <1>1, <1>6, <1>9, <1>10, LeadersComeFirst
  <2>2. i \in G /\ j \in G
    BY <1>9 DEF LeadersOf
  <2> QED BY <1>2, <2>1, <2>2 DEF Projection!Before
<1>13. ASSUME NEW i \in offered, NEW j \in G \ offered
       PROVE  /\ Projection!Passes(candidates[j]) => Projection!Passes(candidates[i])
              /\ Projection!Passes(candidates[i]) = Projection!Passes(candidates[j])
                   => Projection!Score(candidates[i]) >= Projection!Score(candidates[j])
  <2>1. candidates[i] \in Numbers /\ candidates[j] \in Numbers
    BY <1>7, <1>9 DEF LeadersOf
  <2>2. Projection!Score(candidates[i]) \in Int /\ Projection!Score(candidates[j]) \in Int
    BY <1>1, <2>1, ScoreIs
  <2> QED BY <1>12, <2>2 DEF Projection!Better
<1> QED BY <1>11, <1>13 DEF G

\* A projection moves floor space and makes none and no category sells or holds less than
\* nothing, for any sales, discount and shift; as many scenarios are offered as asked, and
\* none better is withheld (executive.py).
THEOREM ProjectionStaysSound == Spec => []ProjectionIsSound
<1> DEFINE Inv == part = "projection" => ProjectionInv
<1>1. Init => Inv
  BY PartInit, InitProjection
<1>2. Inv /\ [Next]_vars => Inv'
  BY PartStep, NextProjection
<1>3. Inv => ProjectionIsSound
  BY ProjectionsAreSound, OffersAreBestOnes DEF ProjectionIsSound
<1> QED BY <1>1, <1>2, <1>3, PTL DEF Spec

=============================================================================
