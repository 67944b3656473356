----------------------- MODULE CatalogAuthoringProofs -----------------------
(***************************************************************************)
(* Proofs about module CatalogAuthoring, for any number of administrators, *)
(* requests in flight, keys and drafts: the variables keep their types, an *)
(* Idempotency-Key changes the catalog once, a revision takes no workflow  *)
(* from a draft, and, if the product has a row to lock from the start, no  *)
(* stale request changes the public product and no draft is used twice.    *)
(***************************************************************************)
EXTENDS CatalogAuthoring, FiniteSetTheorems, SequenceTheorems, TLAPS

Positions == {"idle", "lookup", "product", "check", "write", "commit"}
SessionRecords == [pc : Positions, key : Keys \cup {None}, ask : Asked \cup {None},
                   read : Nat, new : Drafts \cup {None}, moves : Owners \cup {None}]
Entries == [key : Keys, ask : Asked, version : Nat]

\* A request that names a draft to edit or publish names one that exists.
AskOK(q) == q \in Asked /\ (q.op \in UseDraft => q.draft \in Existing)
SessionOK(x) == x = Idle \/ (x.key \in Keys /\ AskOK(x.ask))

\* The type invariant, with what makes it inductive.
IType ==
    /\ TypeOK
    /\ \A s \in Sessions : SessionOK(session[s])
    /\ \A k \in Keys : mutation[k] # None => AskOK(mutation[k])

-----------------------------------------------------------------------------
\* An owner's drafts can be counted.
LEMMA OrdinalType == ASSUME NEW o PROVE Ordinal(o) \in Nat
<1>1. Own(o) \subseteq Drafts
  BY DEF Own, Existing
<1>2. IsFiniteSet(Own(o))
  BY <1>1, DraftAssumption, FS_Subset
<1> QED
  BY <1>2, FS_CardinalityType DEF Ordinal

\* What a client may ask for is well formed.
LEMMA AskType ==
    ASSUME IType, NEW o \in Owners, NEW q \in Asks(o)
    PROVE  AskOK(q)
<1>1. version \in Nat
  BY DEF IType, TypeOK
<1>2. ASSUME NEW d \in Own(o) PROVE d \in Existing /\ d \in Drafts /\ draft[d].base \in Nat
  BY NoneAssumption DEF Own, Existing, IType, TypeOK, DraftRows
<1>3. CASE q \in {Ask(op, o, None, version, 0) : op \in NeedProduct \cup {"create"}}
  <2>1. PICK op \in NeedProduct \cup {"create"} : q = Ask(op, o, None, version, 0)
    BY <1>3
  <2> QED
    BY <1>1, <2>1 DEF Ask, AskOK, Asked, UseDraft, NeedProduct
<1>4. CASE q \in {Ask("edit", o, d, draft[d].base, Ordinal(o)) : d \in Own(o)}
  BY <1>2, <1>4, OrdinalType DEF Ask, AskOK, Asked, UseDraft
<1>5. CASE q \in {Ask("publish", o, d, draft[d].base, 0) : d \in Own(o)}
  BY <1>2, <1>5 DEF Ask, AskOK, Asked, UseDraft
<1>6. CASE q \in {Ask("publish", o, d, version, 0) : d \in Own(o)}
  BY <1>1, <1>2, <1>6 DEF Ask, AskOK, Asked, UseDraft
<1> QED
  BY <1>3, <1>4, <1>5, <1>6 DEF Asks

\* A free session is well formed.
LEMMA IdleType == Idle \in SessionRecords /\ Idle.pc = "idle" /\ Idle.read = 0 /\ Idle.new = None
BY DEF Idle, At, SessionRecords, Positions

\* The invariant holds initially.
LEMMA InitType == Init => IType
<1> SUFFICES ASSUME Init PROVE IType
  OBVIOUS
<1>1. version \in Nat
  BY VersionAssumption DEF Init
<1>2. draft \in [Drafts -> DraftRows \cup {None}]
  <2>1. NoDraft \in [Drafts -> DraftRows \cup {None}]
    BY DEF NoDraft
  <2>2. ASSUME NEW o \in Owners PROVE Row(o, version, "draft") \in DraftRows
    BY <1>1 DEF Row, DraftRows
  <2> QED
    BY <2>1, <2>2 DEF Init
<1>3. session \in [Sessions -> SessionRecords] /\ \A s \in Sessions : SessionOK(session[s])
  BY IdleType DEF Init, SessionOK
<1>4. /\ link \in [Owners -> Drafts \cup {None}]
      /\ mutation \in [Keys -> Asked \cup {None}]
      /\ \A k \in Keys : mutation[k] = None
  BY DEF Init
<1>5. log \in Seq(Entries)
  BY DEF Init
<1> QED
  BY <1>1, <1>2, <1>3, <1>4, <1>5
     DEF IType, TypeOK, SessionRecords, Positions, Entries

\* A step of one session that leaves the tables alone.
LEMMA MoveType ==
    ASSUME IType, NEW s \in Sessions, NEW x \in SessionRecords, SessionOK(x),
           Goto(s, x), UNCHANGED <<tables, log>>
    PROVE  IType'
<1>1. session \in [Sessions -> SessionRecords]
  BY DEF IType, TypeOK, SessionRecords, Positions
<1>2. session' \in [Sessions -> SessionRecords]
  BY <1>1 DEF Goto
<1>3. ASSUME NEW q, AskOK(q) PROVE AskOK(q)'
  BY <1>3 DEF AskOK, tables, Existing
<1>4. ASSUME NEW t \in Sessions PROVE SessionOK(session[t])'
  <2>1. session'[t] = IF t = s THEN x ELSE session[t]
    BY <1>1 DEF Goto
  <2>2. SessionOK(session'[t])
    BY <2>1 DEF IType
  <2> QED
    BY <2>2, <1>3 DEF SessionOK
<1>5. ASSUME NEW k \in Keys, mutation'[k] # None PROVE AskOK(mutation[k])'
  BY <1>3, <1>5 DEF IType, tables
<1>6. TypeOK'
  BY <1>2 DEF IType, TypeOK, tables, SessionRecords, Positions
<1> QED
  BY <1>4, <1>5, <1>6 DEF IType

\* Ending a request leaves everything well typed.
LEMMA EndType == ASSUME IType, NEW s \in Sessions, End(s) PROVE IType'
BY IdleType, MoveType DEF End, SessionOK

\* The next position of a request in flight, with its key and question unchanged.
LEMMA GoOnType ==
    ASSUME IType, NEW s \in Sessions, session[s].pc # "idle", NEW pc \in Positions,
           NEW read \in Nat, NEW new \in Drafts \cup {None}, NEW moves \in Owners \cup {None},
           Goto(s, At(pc, session[s].key, session[s].ask, read, new, moves)),
           UNCHANGED <<tables, log>>
    PROVE  IType'
<1> DEFINE x == At(pc, session[s].key, session[s].ask, read, new, moves)
<1>1. session[s].key \in Keys /\ AskOK(session[s].ask)
  BY IdleType DEF IType, SessionOK
<1>2. x \in SessionRecords /\ SessionOK(x)
  BY <1>1 DEF At, SessionRecords, SessionOK, AskOK
<1> QED
  BY <1>2, MoveType

\* What the commit of session s writes to the drafts and to the version is well typed,
\* and no draft disappears.
LEMMA CommitRows ==
    ASSUME IType, NEW s \in Sessions, Commit(s)
    PROVE  /\ session[s].key \in Keys /\ session[s].ask \in Asked
           /\ version' \in Nat
           /\ draft' \in [Drafts -> DraftRows \cup {None}]
           /\ Existing \subseteq Existing'
<1> DEFINE q == session[s].ask
           n == session[s].new
<1>1. session[s].key \in Keys /\ AskOK(q) /\ q \in Asked
  BY IdleType DEF Commit, IType, SessionOK, AskOK
<1>2. n \in Drafts \cup {None}
  BY DEF IType, TypeOK
<1>3. q.expected \in Nat /\ q.owner \in Owners
  BY <1>1 DEF Asked
<1>4. version' \in Nat
  BY <1>3 DEF Commit, IType, TypeOK
<1>5. draft \in [Drafts -> DraftRows \cup {None}]
  BY DEF IType, TypeOK
<1>6. CASE n # None
  <2>1. draft' = [draft EXCEPT ![n] = Row(q.owner, q.expected, "draft")]
    BY <1>6 DEF Commit
  <2>2. Row(q.owner, q.expected, "draft") \in DraftRows
    BY <1>3 DEF Row, DraftRows
  <2>3. draft' \in [Drafts -> DraftRows \cup {None}]
    BY <1>5, <2>1, <2>2
  <2>4. Existing \subseteq Existing'
    BY <1>5, <2>1, <2>2, NoneAssumption DEF Existing
  <2> QED
    BY <1>1, <1>4, <2>3, <2>4
<1>7. CASE n = None /\ q.op = "publish"
  <2> DEFINE d == q.draft
             r == [draft[d] EXCEPT !.status = "published"]
  <2>1. draft' = [draft EXCEPT ![d] = r]
    BY <1>7 DEF Commit
  <2>2. d \in Existing
    BY <1>1, <1>7 DEF AskOK, UseDraft
  <2>3. draft[d] \in DraftRows
    BY <1>5, <2>2 DEF Existing
  <2>4. r \in DraftRows
    BY <2>3 DEF DraftRows
  <2> HIDE DEF r
  <2>5. draft' \in [Drafts -> DraftRows \cup {None}]
    BY <1>5, <2>1, <2>4
  <2>6. Existing \subseteq Existing'
    BY <1>5, <2>1, <2>4, NoneAssumption DEF Existing
  <2> QED
    BY <1>1, <1>4, <2>5, <2>6
<1>8. CASE n = None /\ q.op # "publish"
  <2>1. draft' = draft
    BY <1>8 DEF Commit
  <2> QED
    BY <1>1, <1>4, <1>5, <2>1 DEF Existing
<1> QED
  BY <1>6, <1>7, <1>8

\* The commit keeps the types.
LEMMA CommitType == ASSUME IType, NEW s \in Sessions, Commit(s) PROVE IType'
<1> DEFINE q == session[s].ask
           k == session[s].key
           e == [key |-> k, ask |-> q, version |-> version']
<1>1. /\ k \in Keys /\ q \in Asked /\ AskOK(q)
      /\ version' \in Nat
      /\ draft' \in [Drafts -> DraftRows \cup {None}]
      /\ Existing \subseteq Existing'
  BY CommitRows, IdleType DEF IType, SessionOK, Commit
<1>2. ASSUME NEW a, AskOK(a) PROVE AskOK(a)'
  BY <1>1, <1>2 DEF AskOK
<1>3. session' \in [Sessions -> SessionRecords]
  BY IdleType DEF Commit, Goto, IType, TypeOK, SessionRecords, Positions
<1>4. ASSUME NEW t \in Sessions PROVE SessionOK(session[t])'
  <2>1. session'[t] = Idle \/ session'[t] = session[t]
    BY DEF Commit, Goto, IType, TypeOK
  <2>2. SessionOK(session'[t])
    BY <2>1 DEF SessionOK, IType
  <2> QED
    BY <2>2, <1>2 DEF SessionOK
<1>5. mutation' \in [Keys -> Asked \cup {None}]
  BY <1>1 DEF Commit, IType, TypeOK
<1>6. ASSUME NEW j \in Keys, mutation'[j] # None PROVE AskOK(mutation[j])'
  <2>1. mutation'[j] = q \/ mutation'[j] = mutation[j]
    BY <1>1 DEF Commit, IType, TypeOK
  <2>2. AskOK(mutation'[j])
    BY <1>1, <1>6, <2>1 DEF IType
  <2> QED
    BY <1>2, <2>2
<1>7. link' \in [Owners -> Drafts \cup {None}]
  BY DEF Commit, IType, TypeOK
<1>8. log' \in Seq(Entries)
  <2>1. e \in Entries
    BY <1>1 DEF Entries
  <2>2. log \in Seq(Entries) /\ log' = Append(log, e)
    BY DEF IType, TypeOK, Entries, Commit
  <2> QED
    BY <2>1, <2>2
<1> QED
  BY <1>1, <1>3, <1>4, <1>5, <1>6, <1>7, <1>8
     DEF IType, TypeOK, SessionRecords, Positions, Entries

\* Every step keeps the types.
LEMMA NextType == IType /\ [Next]_vars => IType'
<1> SUFFICES ASSUME IType, [Next]_vars PROVE IType'
  OBVIOUS
<1>1. ASSUME NEW s \in Sessions, NEW k \in Keys, Send(s, k) PROVE IType'
  <2>0. PICK o \in Owners : \E q \in Asks(o) : Goto(s, At("lookup", k, q, 0, None, None))
    BY <1>1 DEF Send
  <2>1. PICK q \in Asks(o) : Goto(s, At("lookup", k, q, 0, None, None))
    BY <2>0
  <2>2. AskOK(q)
    BY AskType
  <2>3. LET x == At("lookup", k, q, 0, None, None) IN x \in SessionRecords /\ SessionOK(x)
    BY <2>2 DEF At, SessionRecords, SessionOK, Positions, AskOK
  <2> QED
    BY <1>1, <2>1, <2>3, MoveType DEF Send
<1>2. ASSUME NEW s \in Sessions, NEW k \in Keys, Retry(s, k) PROVE IType'
  <2>1. PICK q \in Repeatable(k) : Goto(s, At("lookup", k, q, 0, None, None))
    BY <1>2 DEF Retry
  <2>2. AskOK(q)
    <3>1. CASE q \in {mutation[k]} \ {None}
      BY <3>1 DEF IType
    <3>2. CASE \E t \in Sessions : session[t].key = k /\ q = session[t].ask
      <4>1. PICK t \in Sessions : session[t].key = k /\ q = session[t].ask
        BY <3>2
      <4>2. session[t] # Idle
        BY <4>1, NoneAssumption DEF Idle, At
      <4> QED
        BY <4>1, <4>2 DEF IType, SessionOK
    <3> QED
      BY <2>1, <3>1, <3>2 DEF Repeatable
  <2>3. LET x == At("lookup", k, q, 0, None, None) IN x \in SessionRecords /\ SessionOK(x)
    BY <2>2 DEF At, SessionRecords, SessionOK, Positions, AskOK
  <2> QED
    BY <1>2, <2>1, <2>3, MoveType DEF Retry
<1>3. ASSUME NEW o \in Owners, NEW d \in Drafts, Follow(o, d) PROVE IType'
  <2>1. link' \in [Owners -> Drafts \cup {None}]
    BY <1>3 DEF Follow, IType, TypeOK
  <2>2. ASSUME NEW q, AskOK(q) PROVE AskOK(q)'
    BY <1>3, <2>2 DEF AskOK, Existing, Follow
  <2> QED
    BY <1>3, <2>1, <2>2 DEF Follow, IType, TypeOK, SessionOK
<1>4. ASSUME NEW s \in Sessions, LookUp(s) PROVE IType'
  <2>1. CASE End(s)
    BY <2>1, EndType
  <2>2. CASE ~End(s)
    BY <1>4, <2>2, GoOnType DEF LookUp, Positions
  <2> QED
    BY <2>1, <2>2
<1>5. ASSUME NEW s \in Sessions, LockProduct(s) PROVE IType'
  <2>1. CASE End(s)
    BY <2>1, EndType
  <2>2. CASE ~End(s)
    <3>1. version \in Nat /\ session[s].pc # "idle"
      BY <1>5 DEF IType, TypeOK, LockProduct
    <3>2. PICK pc \in {"write", "check"} :
             Goto(s, At(pc, session[s].key, session[s].ask, version, None, None))
      BY <1>5, <2>2 DEF LockProduct
    <3>3. pc \in Positions
      BY DEF Positions
    <3> QED
      BY <1>5, <2>2, <3>1, <3>2, <3>3, GoOnType DEF LockProduct
  <2> QED
    BY <2>1, <2>2
<1>6. ASSUME NEW s \in Sessions, CheckDraft(s) \/ CheckRevision(s) PROVE IType'
  <2>1. CASE End(s)
    BY <2>1, EndType
  <2>2. CASE ~End(s)
    <3>1. session[s].read \in Nat /\ session[s].pc # "idle"
      BY <1>6 DEF IType, TypeOK, CheckDraft, CheckRevision
    <3>2. /\ Goto(s, At("write", session[s].key, session[s].ask, session[s].read, None, None))
          /\ UNCHANGED <<tables, log>>
      BY <1>6, <2>2 DEF CheckDraft, CheckRevision
    <3> QED
      BY <3>1, <3>2, GoOnType DEF Positions
  <2> QED
    BY <2>1, <2>2
<1>7. ASSUME NEW s \in Sessions, WriteDraft(s) PROVE IType'
  <2>1. PICK d \in Drafts :
           Goto(s, At("commit", session[s].key, session[s].ask, session[s].read, d,
                      IF Moves(session[s].ask) THEN session[s].ask.owner ELSE None))
    BY <1>7 DEF WriteDraft
  <2>2. session[s].read \in Nat /\ session[s].pc # "idle"
    BY <1>7 DEF IType, TypeOK, WriteDraft
  <2>3. session[s].ask.owner \in Owners
    BY <2>2, IdleType DEF IType, SessionOK, AskOK, Asked
  <2>4. (IF Moves(session[s].ask) THEN session[s].ask.owner ELSE None) \in Owners \cup {None}
    BY <2>3
  <2> QED
    BY <1>7, <2>1, <2>2, <2>4, GoOnType DEF WriteDraft, Positions
<1>8. ASSUME NEW s \in Sessions, WriteProduct(s) PROVE IType'
  <2>1. version \in Nat /\ session[s].pc # "idle"
    BY <1>8 DEF IType, TypeOK, WriteProduct
  <2> QED
    BY <1>8, <2>1, GoOnType DEF WriteProduct, Positions
<1>9. ASSUME NEW s \in Sessions, LoseCommit(s) \/ Abandon(s) PROVE IType'
  BY <1>9, EndType DEF LoseCommit, Abandon
<1>10. ASSUME NEW s \in Sessions, Commit(s) PROVE IType'
  BY <1>10, CommitType
<1>11. CASE UNCHANGED vars
  <2>1. ASSUME NEW q, AskOK(q) PROVE AskOK(q)'
    BY <1>11, <2>1 DEF AskOK, Existing, vars
  <2> QED
    BY <1>11, <2>1 DEF IType, TypeOK, SessionOK, vars
<1> QED
  BY <1>1, <1>2, <1>3, <1>4, <1>5, <1>6, <1>7, <1>8, <1>9, <1>10, <1>11 DEF Next, Step

\* The types hold in every reachable state.
LEMMA TypeInvariant == Spec => []IType
BY InitType, NextType, PTL DEF Spec

\* The product, drafts, workflows, recorded requests and requests in flight keep
\* their types; a publication always marks a draft that exists.
THEOREM TypeCorrect == Spec => []TypeOK
BY TypeInvariant, PTL DEF IType

-----------------------------------------------------------------------------
\* Steps that add nothing to the log change no draft and no version.
LEMMA LogStep ==
    ASSUME [Next]_vars, \A s \in Sessions : ~Commit(s)
    PROVE  UNCHANGED <<version, draft, mutation, log>>
<1>1. ASSUME NEW s \in Sessions, NEW k \in Keys, Send(s, k) \/ Retry(s, k)
      PROVE  UNCHANGED <<version, draft, mutation, log>>
  BY <1>1 DEF Send, Retry, tables
<1>2. ASSUME NEW s \in Sessions, Abandon(s) \/ Step(s) PROVE UNCHANGED <<version, draft, mutation, log>>
  <2>1. CASE End(s)
    BY <2>1 DEF End, tables
  <2>2. CASE ~End(s)
    BY <1>2, <2>2 DEF Step, Abandon, LookUp, LockProduct, CheckDraft, CheckRevision, WriteDraft,
                      WriteProduct, LoseCommit, tables
  <2> QED
    BY <2>1, <2>2
<1>3. ASSUME NEW o \in Owners, NEW d \in Drafts, Follow(o, d)
      PROVE  UNCHANGED <<version, draft, mutation, log>>
  BY <1>3 DEF Follow
<1> QED
  BY <1>1, <1>2, <1>3 DEF Next, vars

\* What a commit adds to the log.
LEMMA CommitLog ==
    ASSUME IType, NEW s \in Sessions, Commit(s)
    PROVE  /\ Len(log) \in Nat /\ DOMAIN log = 1 .. Len(log)
           /\ DOMAIN log' = 1 .. Len(log) + 1
           /\ \A i \in DOMAIN log : log[i] \in Entries /\ log'[i] = log[i]
           /\ log'[Len(log) + 1].key = session[s].key
           /\ log'[Len(log) + 1].ask = session[s].ask
           /\ log'[Len(log) + 1].version = version'
<1> DEFINE e == [key |-> session[s].key, ask |-> session[s].ask, version |-> version']
<1>1. e \in Entries
  BY CommitRows DEF Entries
<1>2. log \in Seq(Entries) /\ log' = Append(log, e)
  BY DEF Commit, IType, TypeOK, Entries
<1>3. e.key = session[s].key /\ e.ask = session[s].ask /\ e.version = version'
  OBVIOUS
<1> HIDE DEF e
<1> QED
  BY <1>1, <1>2, <1>3

\* Every committed mutation has recorded its key.
Recorded == \A i \in DOMAIN log : mutation[log[i].key] # None

\* One step of the argument: an entry is only added for a key that is not recorded
\* yet, and records it.
LEMMA RecordedStep ==
    ASSUME IType, Recorded, AppliedOnce, [Next]_vars
    PROVE  Recorded' /\ AppliedOnce'
<1>1. ASSUME NEW s \in Sessions, Commit(s) PROVE Recorded' /\ AppliedOnce'
  <2> DEFINE k == session[s].key
  <2>1. k \in Keys /\ session[s].ask \in Asked /\ mutation[k] = None
    BY <1>1, CommitRows DEF Commit
  <2>2. \A i \in DOMAIN log : log[i].key \in Keys /\ log[i].key # k
    BY <1>1, <2>1, CommitLog DEF Recorded, Entries
  <2>3. /\ mutation'[k] # None
        /\ \A j \in Keys \ {k} : mutation'[j] = mutation[j]
    BY <1>1, <2>1, NoneAssumption DEF Commit, IType, TypeOK
  <2>4. Recorded'
    BY <1>1, <2>2, <2>3, CommitLog DEF Recorded
  <2>5. AppliedOnce'
    BY <1>1, <2>2, CommitLog DEF AppliedOnce
  <2> QED
    BY <2>4, <2>5
<1>2. CASE \A s \in Sessions : ~Commit(s)
  BY <1>2, LogStep DEF Recorded, AppliedOnce
<1> QED
  BY <1>1, <1>2

\* _idempotent applies a request once: whatever is repeated, however concurrently,
\* every committed change has a key of its own.
THEOREM KeyAppliesOnce == Spec => []AppliedOnce
<1>1. Init => Recorded /\ AppliedOnce
  BY DEF Init, Recorded, AppliedOnce
<1>2. IType /\ Recorded /\ AppliedOnce /\ [Next]_vars => Recorded' /\ AppliedOnce'
  BY RecordedStep
<1> QED
  BY <1>1, <1>2, TypeInvariant, PTL DEF Spec
-----------------------------------------------------------------------------
\* A request that has passed the version check holds the product: nobody else
\* does, and the version it has checked is still the public one.
Inside == {"check", "write", "commit"}
Locked ==
    /\ version # 0
    /\ \A s \in Sessions : session[s].pc \in Inside <=> HoldsProduct(s)
    /\ \A s \in Sessions :
          HoldsProduct(s) => session[s].read = version /\ session[s].ask.expected = version
    /\ \A s, t \in Sessions : HoldsProduct(s) /\ HoldsProduct(t) => s = t

\* No committed mutation has left a version above the public one.
Newest == \A i \in DOMAIN log : log[i].version <= version

\* A session keeps Locked when it leaves the product alone, or has it to itself
\* at the version it expects.
LEMMA MoveLocked ==
    ASSUME IType, Locked, NEW s \in Sessions, NEW x, Goto(s, x), version' = version,
           \/ x.pc \notin Inside /\ x.read = 0
           \/ /\ x.pc \in Inside /\ x.read = version /\ x.ask.expected = version
              /\ \A t \in Sessions \ {s} : ~HoldsProduct(t)
    PROVE  Locked'
<1>1. session'[s] = x /\ \A t \in Sessions \ {s} : session'[t] = session[t]
  BY DEF Goto, IType, TypeOK
<1>2. \A t \in Sessions \ {s} : HoldsProduct(t)' <=> HoldsProduct(t)
  BY <1>1 DEF HoldsProduct
<1>3. HoldsProduct(s)' <=> x.read # 0
  BY <1>1 DEF HoldsProduct
<1> QED
  BY <1>1, <1>2, <1>3 DEF Locked

\* A request that ends gives the product back.
LEMMA EndLocked == ASSUME IType, Locked, NEW s \in Sessions, End(s) PROVE Locked'
BY MoveLocked, IdleType DEF End, tables, Idle, At, Inside

\* A request that goes on keeps the product it holds.
LEMMA GoOnLocked ==
    ASSUME IType, Locked, NEW s \in Sessions, session[s].pc \in Inside, NEW pc \in Inside,
           NEW new, NEW moves, UNCHANGED <<tables, log>>,
           Goto(s, At(pc, session[s].key, session[s].ask, version, new, moves))
    PROVE  Locked'
<1> DEFINE x == At(pc, session[s].key, session[s].ask, version, new, moves)
<1>1. HoldsProduct(s) /\ session[s].ask.expected = version
  BY DEF Locked
<1>2. x.pc = pc /\ x.read = version /\ x.ask = session[s].ask
  BY DEF At
<1>3. \A t \in Sessions \ {s} : ~HoldsProduct(t)
  BY <1>1 DEF Locked
<1>4. version' = version
  BY DEF tables
<1> HIDE DEF x
<1> QED
  BY <1>1, <1>2, <1>3, <1>4, MoveLocked DEF x

\* A commit is made at the public version, and raises it by one if it changes the
\* product.
LEMMA CommitLocked ==
    ASSUME IType, Locked, NEW s \in Sessions, Commit(s)
    PROVE  /\ Locked'
           /\ session[s].ask.expected = version
           /\ version' \in {version, version + 1}
           /\ session[s].ask.op = "publish" => version' = version + 1
<1>1. session[s].ask.expected = version /\ \A t \in Sessions \ {s} : ~HoldsProduct(t)
  BY DEF Locked, Commit, Inside
<1>2. /\ version' \in {version, version + 1}
      /\ session[s].ask.op = "publish" => version' = version + 1
  BY <1>1 DEF Commit
<1>3. version' # 0
  BY <1>2 DEF Locked, IType, TypeOK
<1>4. session'[s] = Idle /\ \A t \in Sessions \ {s} : session'[t] = session[t]
  BY DEF Commit, Goto, IType, TypeOK
<1>5. \A t \in Sessions : ~HoldsProduct(t)' /\ session'[t].pc \notin Inside
  BY <1>1, <1>4, IdleType DEF HoldsProduct, Locked, Inside
<1> QED
  BY <1>1, <1>2, <1>3, <1>5 DEF Locked

\* Every step keeps the lock and its version.
LEMMA NextLocked == IType /\ Locked /\ [Next]_vars => Locked'
<1> SUFFICES ASSUME IType, Locked, [Next]_vars PROVE Locked'
  OBVIOUS
<1>1. ASSUME NEW s \in Sessions, NEW k \in Keys, Send(s, k) \/ Retry(s, k) PROVE Locked'
  <2>1. PICK q : Goto(s, At("lookup", k, q, 0, None, None))
    BY <1>1 DEF Send, Retry
  <2>2. version' = version
    BY <1>1 DEF Send, Retry, tables
  <2> QED
    BY <2>1, <2>2, MoveLocked DEF At, Inside
<1>2. ASSUME NEW o \in Owners, NEW d \in Drafts, Follow(o, d) PROVE Locked'
  BY <1>2 DEF Follow, Locked, HoldsProduct
<1>3. ASSUME NEW s \in Sessions, LookUp(s), ~End(s) PROVE Locked'
  <2>1. Goto(s, At("product", session[s].key, session[s].ask, 0, None, None))
    BY <1>3 DEF LookUp
  <2>2. version' = version
    BY <1>3 DEF LookUp, tables
  <2> QED
    BY <2>1, <2>2, MoveLocked DEF At, Inside
<1>4. ASSUME NEW s \in Sessions, LockProduct(s), ~End(s) PROVE Locked'
  <2>1. /\ session[s].ask.expected = version /\ version' = version
        /\ \A t \in Sessions : ~HoldsProduct(t)
    BY <1>4 DEF LockProduct, tables
  <2>2. PICK pc \in {"write", "check"} :
           Goto(s, At(pc, session[s].key, session[s].ask, version, None, None))
    BY <1>4 DEF LockProduct
  <2>3. LET x == At(pc, session[s].key, session[s].ask, version, None, None)
        IN  x.pc \in Inside /\ x.read = version /\ x.ask.expected = version
    BY <2>1 DEF At, Inside
  <2> QED
    BY <2>1, <2>2, <2>3, MoveLocked
<1>5. ASSUME NEW s \in Sessions, CheckDraft(s) \/ CheckRevision(s), ~End(s) PROVE Locked'
  <2>1. session[s].pc = "check" /\ session[s].read = version
    BY <1>5 DEF CheckDraft, CheckRevision, Locked, Inside
  <2>2. /\ Goto(s, At("write", session[s].key, session[s].ask, version, None, None))
        /\ UNCHANGED <<tables, log>>
    BY <1>5, <2>1 DEF CheckDraft, CheckRevision
  <2> QED
    BY <2>1, <2>2, GoOnLocked DEF Inside
<1>6. ASSUME NEW s \in Sessions, WriteDraft(s) \/ WriteProduct(s) PROVE Locked'
  <2>1. session[s].pc = "write" /\ session[s].read = version
    BY <1>6 DEF WriteDraft, WriteProduct, Locked, Inside
  <2>2. PICK new, moves :
           Goto(s, At("commit", session[s].key, session[s].ask, version, new, moves))
    BY <1>6, <2>1 DEF WriteDraft, WriteProduct
  <2>3. UNCHANGED <<tables, log>>
    BY <1>6 DEF WriteDraft, WriteProduct
  <2> QED
    BY <2>1, <2>2, <2>3, GoOnLocked DEF Inside
<1>7. ASSUME NEW s \in Sessions, LoseCommit(s) \/ Abandon(s) PROVE End(s)
  BY <1>7 DEF LoseCommit, Abandon
<1>8. ASSUME NEW s \in Sessions, Commit(s) PROVE Locked'
  BY <1>8, CommitLocked
<1>9. ASSUME NEW s \in Sessions, Step(s) \/ Abandon(s) PROVE Locked'
  BY <1>3, <1>4, <1>5, <1>6, <1>7, <1>8, <1>9, EndLocked DEF Step
<1>10. CASE UNCHANGED vars
  BY <1>10 DEF vars, Locked, HoldsProduct
<1> QED
  BY <1>1, <1>2, <1>9, <1>10 DEF Next

\* A product with a row at first always has one, and the version a request checks
\* under its lock is the public version until it commits: no publication and no
\* archiving with an older expected version changes the product.
THEOREM StaleNeverPublishes ==
    ASSUME 0 \notin StartVersions
    PROVE  Spec => []StaleIsRefused
<1>1. Init => Locked /\ Newest /\ StaleIsRefused
  BY IdleType DEF Init, Locked, Newest, StaleIsRefused, HoldsProduct, Inside
<1>2. IType /\ Locked /\ Newest /\ StaleIsRefused /\ [Next]_vars
         => Locked' /\ Newest' /\ StaleIsRefused'
  <2> SUFFICES ASSUME IType, Locked, Newest, StaleIsRefused, [Next]_vars
               PROVE  Newest' /\ StaleIsRefused'
    BY NextLocked
  <2>1. ASSUME NEW s \in Sessions, Commit(s) PROVE Newest' /\ StaleIsRefused'
    <3>1. session[s].ask.expected = version /\ version' \in {version, version + 1}
      BY <2>1, CommitLocked
    <3>2. version \in Nat /\ version' \in Nat
      BY <2>1, CommitRows DEF IType, TypeOK
    <3>3. \A i \in DOMAIN log : log[i].version \in Nat /\ log[i].version <= version
      BY <2>1, CommitLog DEF Newest, Entries
    <3>4. Newest'
      BY <2>1, <3>1, <3>2, <3>3, CommitLog DEF Newest
    <3>5. StaleIsRefused'
      BY <2>1, <3>1, <3>2, <3>3, CommitLog DEF StaleIsRefused
    <3> QED
      BY <3>4, <3>5
  <2>2. CASE \A s \in Sessions : ~Commit(s)
    BY <2>2, LogStep DEF Newest, StaleIsRefused
  <2> QED
    BY <2>1, <2>2
<1> QED
  BY <1>1, <1>2, TypeInvariant, PTL DEF Spec

-----------------------------------------------------------------------------
\* What a request knows of the drafts from its check to its commit: the draft it
\* uses is the newest of its owner and made for the public version, and the draft
\* it makes will be the newest.
DraftOK(x) ==
    /\ x.pc \in {"write", "commit"} /\ x.ask.op \in UseDraft
          => IsLatest(x.ask.draft, x.ask.owner) /\ draft[x.ask.draft].base = version
    /\ x.new # None =>
          x.pc = "commit" /\ x.ask.op # "publish" /\ \A e \in Existing : e < x.new
    /\ x.pc = "commit" /\ x.ask.op = "edit" => x.new # None
Checked == \A s \in Sessions : DraftOK(session[s])

\* No draft is made for a version that is not public yet.
BasesArePublic == \A d \in Existing : draft[d].base <= version

\* A draft that cannot pass the check of an edit or a publication any more.
IsDead(d) ==
    /\ d \in Existing
    /\ \/ draft[d].status = "published"
       \/ draft[d].base < version
       \/ ~IsLatest(d, draft[d].owner)
UsedAreDead == \A i \in DOMAIN log : log[i].ask.op \in UseDraft => IsDead(log[i].ask.draft)

IDraft == Checked /\ BasesArePublic /\ UsedAreDead

\* A commit keeps every draft, its owner and its base; what changes is the one it
\* makes or publishes.
LEMMA CommitDrafts ==
    ASSUME IType, Locked, Checked, NEW s \in Sessions, Commit(s)
    PROVE  /\ Existing \subseteq Existing'
           /\ \A d \in Existing :
                 draft'[d].owner = draft[d].owner /\ draft'[d].base = draft[d].base
           /\ session[s].new # None =>
                 /\ session[s].new \in Nat /\ \A e \in Existing : e < session[s].new
                 /\ Existing' = Existing \cup {session[s].new}
                 /\ \A d \in Existing : draft'[d] = draft[d]
                 /\ draft'[session[s].new].owner = session[s].ask.owner
                 /\ draft'[session[s].new].status = "draft"
           /\ session[s].new = None /\ session[s].ask.op = "publish" =>
                 /\ Existing' = Existing
                 /\ session[s].ask.draft \in Existing
                 /\ draft'[session[s].ask.draft].status = "published"
           /\ session[s].new = None /\ session[s].ask.op # "publish" => draft' = draft
           /\ session[s].ask.op = "publish" => session[s].new = None
<1> DEFINE q == session[s].ask
           n == session[s].new
<1>0. Checked
  OBVIOUS
<1>1. draft \in [Drafts -> DraftRows \cup {None}] /\ n \in Drafts \cup {None}
  BY DEF IType, TypeOK
<1>2. q \in Asked /\ q.expected = version /\ version \in Nat /\ q.owner \in Owners
  BY CommitRows, CommitLocked DEF IType, TypeOK, Asked
<1>3. CASE n # None
  <2>1. draft' = [draft EXCEPT ![n] = Row(q.owner, version, "draft")]
    BY <1>2, <1>3 DEF Commit
  <2>2. Row(q.owner, version, "draft") \in DraftRows
    BY <1>2 DEF Row, DraftRows
  <2>3. \A e \in Existing : e < n
    BY <1>3 DEF Checked, DraftOK
  <2>4. n \in Drafts /\ n \in Nat /\ n \notin Existing
    <3>1. n \in Drafts /\ n \in Nat
      BY <1>1, <1>3, DraftAssumption
    <3>2. ~(n < n)
      BY <3>1
    <3> QED
      BY <2>3, <3>1, <3>2
  <2>5. /\ draft'[n] = Row(q.owner, version, "draft")
        /\ \A d \in Drafts \ {n} : draft'[d] = draft[d]
    BY <1>1, <2>1, <2>4
  <2>6. Existing' = Existing \cup {n}
    BY <2>2, <2>4, <2>5, NoneAssumption DEF Existing
  <2>7. \A d \in Existing : draft'[d] = draft[d]
    BY <2>4, <2>5 DEF Existing
  <2>8. draft'[n].owner = q.owner /\ draft'[n].status = "draft"
    BY <2>5 DEF Row
  <2>9. q.op # "publish"
    BY <1>0, <1>3 DEF Checked, DraftOK
  <2> QED
    BY <1>3, <2>3, <2>4, <2>6, <2>7, <2>8, <2>9
<1>4. CASE n = None /\ q.op = "publish"
  <2> DEFINE d == q.draft
             r == [draft[d] EXCEPT !.status = "published"]
  <2>1. draft' = [draft EXCEPT ![d] = r]
    BY <1>4 DEF Commit
  <2>2. d \in Existing
    BY <1>4, IdleType DEF Commit, IType, SessionOK, AskOK, UseDraft
  <2>3. draft[d] \in DraftRows
    BY <1>1, <2>2 DEF Existing
  <2>4. /\ r \in DraftRows /\ r.status = "published"
        /\ r.owner = draft[d].owner /\ r.base = draft[d].base
    BY <2>3 DEF DraftRows
  <2> HIDE DEF r
  <2>5. draft'[d] = r /\ \A e \in Drafts \ {d} : draft'[e] = draft[e]
    BY <1>1, <2>1, <2>2 DEF Existing
  <2>6. Existing' = Existing
    BY <2>2, <2>4, <2>5, NoneAssumption DEF Existing
  <2>7. \A e \in Existing : draft'[e].owner = draft[e].owner /\ draft'[e].base = draft[e].base
    BY <2>4, <2>5 DEF Existing
  <2> QED
    BY <1>4, <2>2, <2>4, <2>5, <2>6, <2>7
<1>5. CASE n = None /\ q.op # "publish"
  <2>1. draft' = draft
    BY <1>5 DEF Commit
  <2> QED
    BY <1>5, <2>1 DEF Existing
<1> QED
  BY <1>3, <1>4, <1>5

\* A draft that is dead stays dead: a newer draft may be published or a version
\* added, but then the draft was made for an older version.
LEMMA StaysDead ==
    ASSUME IType, Locked, IDraft, NEW s \in Sessions, Commit(s), NEW d, IsDead(d)
    PROVE  IsDead(d)'
<1>0. Checked /\ BasesArePublic
  BY DEF IDraft
<1> DEFINE q == session[s].ask
           n == session[s].new
<1>1. /\ version \in Nat /\ version' \in Nat /\ version' \in {version, version + 1}
      /\ d \in Existing /\ d \in Existing' /\ d \in Drafts /\ d \in Nat
      /\ draft'[d].owner = draft[d].owner /\ draft'[d].base = draft[d].base
      /\ draft[d].base \in Nat /\ draft[d].base <= version
  <2>1. version \in Nat /\ version' \in Nat /\ version' \in {version, version + 1}
    BY CommitRows, CommitLocked DEF IType, TypeOK
  <2>2. d \in Existing /\ d \in Drafts /\ d \in Nat /\ draft[d] \in DraftRows
    BY DraftAssumption DEF IsDead, Existing, IType, TypeOK
  <2>3. draft[d].base \in Nat /\ draft[d].base <= version
    BY <1>0, <2>2 DEF DraftRows, BasesArePublic
  <2>4. /\ d \in Existing'
        /\ draft'[d].owner = draft[d].owner /\ draft'[d].base = draft[d].base
    BY <1>0, <2>2, CommitDrafts
  <2> QED
    BY <2>1, <2>2, <2>3, <2>4
<1>2. CASE version' = version + 1
  BY <1>1, <1>2 DEF IsDead
<1>3. CASE version' = version
  <2>1. q.op # "publish"
    BY <1>1, <1>3, CommitLocked
  <2>2. draft'[d] = draft[d] /\ \A e \in Existing : draft'[e] = draft[e]
    BY <1>0, <1>1, <2>1, CommitDrafts
  <2>3. CASE ~IsLatest(d, draft[d].owner)
    BY <1>0, <1>1, <2>2, <2>3, CommitDrafts DEF IsDead, IsLatest, Open, Own
  <2> QED
    BY <1>1, <1>3, <2>2, <2>3 DEF IsDead
<1> QED
  BY <1>1, <1>2, <1>3

\* The draft a committed request has used is dead: published, or no longer the
\* newest of its owner.
LEMMA UseKills ==
    ASSUME IType, Locked, IDraft, NEW s \in Sessions, Commit(s), session[s].ask.op \in UseDraft,
           NEW d, d = session[s].ask.draft
    PROVE  IsDead(d)'
<1> PICK n : n = session[s].new
  OBVIOUS
<1> PICK o : o = session[s].ask.owner
  OBVIOUS
<1> DEFINE op == session[s].ask.op
<1>1. IsLatest(d, o) /\ d \in Existing /\ draft[d].owner = o
  BY DEF IDraft, Checked, DraftOK, Commit, IsLatest, Open, Own
<1>0. Checked
  BY DEF IDraft
<1>2. CASE n # None
  <2>1. /\ n \in Nat /\ n \in Existing' /\ d < n /\ d \in Existing'
        /\ draft'[d] = draft[d] /\ draft'[n].owner = o
        /\ draft'[n].status = "draft"
    BY <1>0, <1>1, <1>2, CommitDrafts
  <2>2. d \in Nat
    BY <1>1, DraftAssumption DEF Existing
  <2>3. (n \in Open(o))'
    BY <2>1 DEF Open, Own
  <2> QED
    BY <1>1, <2>1, <2>2, <2>3 DEF IsDead, IsLatest
<1>3. CASE n = None /\ op = "publish"
  BY <1>0, <1>1, <1>3, CommitDrafts DEF IsDead
<1>4. op = "edit" => n # None
  BY <1>0 DEF Checked, DraftOK, Commit
<1> QED
  BY <1>2, <1>3, <1>4 DEF UseDraft

\* A request that moves on with a session that is right leaves all of them right.
LEMMA MoveChecked ==
    ASSUME IType, Checked, NEW s \in Sessions, NEW x, Goto(s, x), DraftOK(x),
           UNCHANGED <<version, draft>>
    PROVE  Checked'
<1>1. session'[s] = x /\ \A t \in Sessions \ {s} : session'[t] = session[t]
  BY DEF Goto, IType, TypeOK
<1>2. \A t \in Sessions : DraftOK(session'[t])
  BY <1>1 DEF Checked
<1> QED
  BY <1>2 DEF Checked, DraftOK, IsLatest, Open, Own, Existing

\* A request that neither ends nor commits moves to a position where it knows
\* enough of the drafts.
LEMMA StepChecked ==
    ASSUME IType, Locked, Checked, NEW s \in Sessions, Step(s), ~Commit(s), ~End(s)
    PROVE  \E x : Goto(s, x) /\ DraftOK(x)
<1>1. CASE LookUp(s)
  <2>1. Goto(s, At("product", session[s].key, session[s].ask, 0, None, None))
    BY <1>1 DEF LookUp
  <2> QED
    BY <2>1 DEF At, DraftOK
<1>2. CASE LockProduct(s)
  <2>1. PICK pc \in {"write", "check"} :
           /\ Goto(s, At(pc, session[s].key, session[s].ask, version, None, None))
           /\ pc = "write" => session[s].ask.op \notin UseDraft
    BY <1>2 DEF LockProduct, UseDraft
  <2>2. DraftOK(At(pc, session[s].key, session[s].ask, version, None, None))
    BY <2>1 DEF At, DraftOK
  <2> QED
    BY <2>1, <2>2
<1>3. CASE CheckDraft(s) \/ CheckRevision(s)
  <2>1. /\ Goto(s, At("write", session[s].key, session[s].ask, session[s].read, None, None))
        /\ session[s].ask.op \in UseDraft =>
              /\ IsLatest(session[s].ask.draft, session[s].ask.owner)
              /\ draft[session[s].ask.draft].base = session[s].ask.expected
    BY <1>3 DEF CheckDraft, CheckRevision, UseDraft
  <2>2. session[s].ask.expected = version
    BY <1>3 DEF CheckDraft, CheckRevision, Locked, Inside
  <2>3. DraftOK(At("write", session[s].key, session[s].ask, session[s].read, None, None))
    BY <2>1, <2>2 DEF At, DraftOK
  <2> QED
    BY <2>1, <2>3
<1>4. CASE WriteDraft(s)
  <2> DEFINE M(d, moves) ==
        Goto(s, At("commit", session[s].key, session[s].ask, session[s].read, d, moves))
  <2>1. PICK d \in Drafts : IsNew(d) /\ \E moves : M(d, moves)
    BY <1>4 DEF WriteDraft
  <2>2. PICK moves : M(d, moves)
    BY <2>1
  <2>3. d # None /\ \A e \in Existing : e < d
    BY <2>1, DraftAssumption DEF IsNew
  <2>4. session[s].pc = "write" /\ session[s].ask.op \in MakeDraft
    BY <1>4 DEF WriteDraft
  <2>5. DraftOK(At("commit", session[s].key, session[s].ask, session[s].read, d, moves))
    BY <2>3, <2>4 DEF At, DraftOK, Checked, MakeDraft
  <2> QED
    BY <2>2, <2>5
<1>5. CASE WriteProduct(s)
  <2>1. /\ Goto(s, At("commit", session[s].key, session[s].ask, version, None, None))
        /\ session[s].pc = "write" /\ session[s].ask.op \in {"publish", "archive"}
    BY <1>5 DEF WriteProduct
  <2>2. DraftOK(At("commit", session[s].key, session[s].ask, version, None, None))
    BY <2>1 DEF At, DraftOK, Checked
  <2> QED
    BY <2>1, <2>2
<1> QED
  BY <1>1, <1>2, <1>3, <1>4, <1>5 DEF Step, LoseCommit

\* Every step but a commit leaves the sessions right.
LEMMA OtherChecked ==
    ASSUME IType, Locked, Checked, [Next]_vars, \A s \in Sessions : ~Commit(s)
    PROVE  Checked'
<1>1. UNCHANGED <<version, draft>>
  BY LogStep
<1>2. DraftOK(Idle)
  BY DEF DraftOK, Idle, At
<1>3. ASSUME NEW s \in Sessions, NEW k \in Keys, Send(s, k) \/ Retry(s, k) PROVE Checked'
  <2>1. PICK q : Goto(s, At("lookup", k, q, 0, None, None))
    BY <1>3 DEF Send, Retry
  <2>2. DraftOK(At("lookup", k, q, 0, None, None))
    BY DEF DraftOK, At
  <2> QED
    BY <1>1, <2>1, <2>2, MoveChecked
<1>4. ASSUME NEW s \in Sessions, Step(s) \/ Abandon(s) PROVE Checked'
  <2>1. PICK x : Goto(s, x) /\ DraftOK(x)
    BY <1>2, <1>4, StepChecked DEF Abandon, End
  <2> QED
    BY <1>1, <2>1, MoveChecked
<1>5. ASSUME session' = session PROVE Checked'
  BY <1>1, <1>5 DEF Checked, DraftOK, IsLatest, Open, Own, Existing
<1> QED
  BY <1>3, <1>4, <1>5 DEF Next, Follow, vars

\* A commit leaves nobody between a check and a commit, makes drafts for the
\* public version only, and kills the draft it uses.
LEMMA CommitKeepsDrafts ==
    ASSUME IType, Locked, IDraft, NEW s \in Sessions, Commit(s)
    PROVE  IDraft'
<1>1. Checked /\ BasesArePublic /\ UsedAreDead
  BY DEF IDraft
<1>2. Checked'
  <2>1. \A t \in Sessions \ {s} : session[t].pc \notin Inside
    BY DEF Locked, Commit, Inside
  <2>2. session'[s] = Idle /\ \A t \in Sessions \ {s} : session'[t] = session[t]
    BY DEF Commit, Goto, IType, TypeOK
  <2>3. \A t \in Sessions : session'[t].pc \notin Inside /\ session'[t].new = None
    BY <1>1, <2>1, <2>2, IdleType DEF Inside, Checked, DraftOK
  <2> QED
    BY <2>3 DEF Checked, DraftOK, Inside
<1>3. BasesArePublic'
  <2>1. version \in Nat /\ version' \in Nat /\ version' \in {version, version + 1}
    BY CommitRows, CommitLocked DEF IType, TypeOK
  <2>2. \A d \in Existing : draft'[d].base <= version'
    <3>1. ASSUME NEW d \in Existing PROVE draft[d].base \in Nat /\ draft[d].base <= version
      BY <1>1 DEF BasesArePublic, Existing, IType, TypeOK, DraftRows
    <3> QED
      BY <1>1, <2>1, <3>1, CommitDrafts
  <2>3. ASSUME session[s].new # None PROVE draft'[session[s].new].base = version
    <3>1. draft' = [draft EXCEPT ![session[s].new] = Row(session[s].ask.owner, version, "draft")]
      BY <2>3, CommitLocked DEF Commit
    <3> QED
      BY <2>3, <3>1 DEF IType, TypeOK, Row
  <2> QED
    BY <1>1, <2>1, <2>2, <2>3, CommitDrafts DEF BasesArePublic, Existing
<1>4. UsedAreDead'
  <2>1. ASSUME NEW i \in DOMAIN log, log'[i].ask.op \in UseDraft
        PROVE  IsDead(log[i].ask.draft)'
    <3>1. PICK d : d = log[i].ask.draft
      OBVIOUS
    <3>2. log'[i] = log[i]
      BY CommitLog
    <3>3. IsDead(d)'
      BY <1>1, <2>1, <3>1, <3>2, StaysDead DEF UsedAreDead
    <3> QED
      BY <3>1, <3>2, <3>3
  <2>2. PICK l : l = Len(log) + 1
    OBVIOUS
  <2>3. ASSUME log'[l].ask.op \in UseDraft PROVE IsDead(log[l].ask.draft)'
    <3>1. PICK d : d = session[s].ask.draft
      OBVIOUS
    <3>2. IsDead(d)'
      BY <2>2, <2>3, <3>1, UseKills, CommitLog
    <3> QED
      BY <2>2, <3>1, <3>2, CommitLog
  <2> QED
    BY <2>1, <2>2, <2>3, CommitLog DEF UsedAreDead
<1> QED
  BY <1>2, <1>3, <1>4 DEF IDraft

\* With a product to lock, a draft passes the check of one committed edit or
\* publication: of two requests that have seen the same draft one is refused, at
\* any distance.  The lock alone is not enough, as requests may wait with what
\* they have seen; they are refused because a used draft is dead for good.
THEOREM DraftsAreUsedOnce ==
    ASSUME 0 \notin StartVersions
    PROVE  Spec => []DraftIsUsedOnce
<1>1. Init => Locked /\ IDraft /\ DraftIsUsedOnce
  <2> SUFFICES ASSUME Init PROVE Locked /\ IDraft /\ DraftIsUsedOnce
    OBVIOUS
  <2>1. Locked /\ Checked
    BY IdleType DEF Init, Locked, HoldsProduct, Inside, Checked, DraftOK
  <2>2. UsedAreDead /\ DraftIsUsedOnce
    BY DEF Init, UsedAreDead, DraftIsUsedOnce
  <2>3. BasesArePublic
    <3>1. version \in Nat
      BY VersionAssumption DEF Init
    <3>2. \A d \in Existing : draft[d].base = version
      BY DraftAssumption DEF Init, Existing, NoDraft, Row
    <3> QED
      BY <3>1, <3>2 DEF BasesArePublic
  <2> QED
    BY <2>1, <2>2, <2>3 DEF IDraft
<1>2. IType /\ Locked /\ IDraft /\ DraftIsUsedOnce /\ [Next]_vars
         => Locked' /\ IDraft' /\ DraftIsUsedOnce'
  <2> SUFFICES ASSUME IType, Locked, IDraft, DraftIsUsedOnce, [Next]_vars
               PROVE  IDraft' /\ DraftIsUsedOnce'
    BY NextLocked
  <2>1. ASSUME NEW s \in Sessions, Commit(s) PROVE IDraft' /\ DraftIsUsedOnce'
    <3>1. ASSUME session[s].ask.op \in UseDraft
          PROVE  ~IsDead(session[s].ask.draft)
      <4>1. /\ IsLatest(session[s].ask.draft, session[s].ask.owner)
            /\ draft[session[s].ask.draft].base = version
        BY <2>1, <3>1 DEF Commit, IDraft, Checked, DraftOK
      <4> QED
        BY <4>1 DEF IsDead, IsLatest, Open, Own, IType, TypeOK
    <3>2. DraftIsUsedOnce'
      BY <2>1, <3>1, CommitLog DEF DraftIsUsedOnce, IDraft, UsedAreDead
    <3> QED
      BY <2>1, <3>2, CommitKeepsDrafts
  <2>2. CASE \A s \in Sessions : ~Commit(s)
    <3>1. UNCHANGED <<version, draft, log>> /\ Checked'
      BY <2>2, LogStep, OtherChecked DEF IDraft
    <3> QED
      BY <3>1 DEF IDraft, BasesArePublic, UsedAreDead, IsDead, IsLatest, Open, Own, Existing,
                  DraftIsUsedOnce
  <2> QED
    BY <2>1, <2>2
<1> QED
  BY <1>1, <1>2, TypeInvariant, PTL DEF Spec

-----------------------------------------------------------------------------
\* A revision that goes into a workflow holds it alone from its check to its commit, and
\* the workflow follows no draft; a session moves no workflow but its owner's.
Unlinked ==
    /\ \A s, t \in Sessions, o \in Owners : HoldsWorkflow(s, o) /\ HoldsWorkflow(t, o) => s = t
    /\ \A s \in Sessions, o \in Owners : HoldsWorkflow(s, o) => link[o] = None
    /\ \A s \in Sessions : session[s].moves # None => session[s].moves = session[s].ask.owner

\* A session keeps Unlinked when it has no workflow, or goes on with the one it holds, or
\* takes one that is free and follows no draft.
LEMMA MoveUnlinked ==
    ASSUME IType, Unlinked, NEW s \in Sessions, NEW x, Goto(s, x), link' = link,
           x.moves # None => x.moves = x.ask.owner,
           \/ x.pc \notin {"write", "commit"}
           \/ x.ask.op # "revise into"
           \/ x.ask = session[s].ask /\ session[s].pc \in {"write", "commit"}
           \/ (\A t \in Sessions : ~HoldsWorkflow(t, x.ask.owner)) /\ link[x.ask.owner] = None
    PROVE  Unlinked'
<1>1. session'[s] = x /\ \A t \in Sessions \ {s} : session'[t] = session[t]
  BY DEF Goto, IType, TypeOK
<1>2. \A t \in Sessions \ {s}, o \in Owners : HoldsWorkflow(t, o)' <=> HoldsWorkflow(t, o)
  BY <1>1 DEF HoldsWorkflow
<1>3. ASSUME NEW o \in Owners, HoldsWorkflow(s, o)'
      PROVE  link[o] = None /\ \A t \in Sessions \ {s} : ~HoldsWorkflow(t, o)
  <2>1. x.pc \in {"write", "commit"} /\ x.ask.op = "revise into" /\ x.ask.owner = o
    BY <1>1, <1>3 DEF HoldsWorkflow
  <2>2. CASE HoldsWorkflow(s, o)
    BY <2>2 DEF Unlinked
  <2>3. CASE ~HoldsWorkflow(s, o)
    BY <2>1, <2>3 DEF HoldsWorkflow
  <2> QED BY <2>2, <2>3
<1>4. \A t \in Sessions : session'[t].moves # None => session'[t].moves = session'[t].ask.owner
  BY <1>1 DEF Unlinked
<1> QED
  BY <1>2, <1>3, <1>4 DEF Unlinked

\* A request that ends gives the workflow back.
LEMMA EndUnlinked == ASSUME IType, Unlinked, NEW s \in Sessions, End(s) PROVE Unlinked'
BY MoveUnlinked, IdleType DEF End, tables, Idle, At

\* A commit may move its owner's workflow, which no other session holds then.
LEMMA CommitUnlinked == ASSUME IType, Unlinked, NEW s \in Sessions, Commit(s) PROVE Unlinked'
<1> DEFINE x == session[s]
<1>1. session'[s] = Idle /\ \A t \in Sessions \ {s} : session'[t] = session[t]
  BY DEF Commit, Goto, IType, TypeOK
<1>2. ASSUME NEW t \in Sessions, NEW o \in Owners, HoldsWorkflow(t, o)'
      PROVE  t # s /\ HoldsWorkflow(t, o)
  BY <1>1, <1>2, IdleType DEF HoldsWorkflow
<1>3. ASSUME NEW t \in Sessions, NEW o \in Owners, HoldsWorkflow(t, o)'
      PROVE  link'[o] = None
  <2>1. t # s /\ HoldsWorkflow(t, o) /\ link[o] = None
    BY <1>2, <1>3 DEF Unlinked
  <2>2. x.moves # o
    BY <2>1, NoneAssumption DEF Commit, Unlinked
  <2> QED
    BY <2>1, <2>2 DEF Commit, IType, TypeOK
<1>4. \A t \in Sessions : session'[t].moves # None => session'[t].moves = session'[t].ask.owner
  BY <1>1 DEF Unlinked, Idle, At
<1> QED
  BY <1>2, <1>3, <1>4 DEF Unlinked

\* Every step keeps it.
LEMMA NextUnlinked == IType /\ Unlinked /\ [Next]_vars => Unlinked'
<1> SUFFICES ASSUME IType, Unlinked, [Next]_vars PROVE Unlinked'
  OBVIOUS
<1>1. ASSUME NEW s \in Sessions, NEW k \in Keys, Send(s, k) \/ Retry(s, k) PROVE Unlinked'
  <2>1. PICK q : Goto(s, At("lookup", k, q, 0, None, None))
    BY <1>1 DEF Send, Retry
  <2>2. link' = link
    BY <1>1 DEF Send, Retry, tables
  <2> QED
    BY <2>1, <2>2, MoveUnlinked DEF At
<1>2. ASSUME NEW o \in Owners, NEW d \in Drafts, Follow(o, d) PROVE Unlinked'
  BY <1>2 DEF Follow, Unlinked, HoldsWorkflow, IType, TypeOK
<1>3. ASSUME NEW s \in Sessions, LookUp(s) \/ LockProduct(s) \/ CheckDraft(s), ~End(s)
      PROVE  Unlinked'
  <2>1. PICK pc, read : /\ Goto(s, At(pc, session[s].key, session[s].ask, read, None, None))
                        /\ pc \in {"product", "check"} \/ session[s].ask.op # "revise into"
    BY <1>3 DEF LookUp, LockProduct, CheckDraft, UseDraft
  <2>2. link' = link
    BY <1>3 DEF LookUp, LockProduct, CheckDraft, tables
  <2> QED
    BY <2>1, <2>2, MoveUnlinked DEF At
<1>4. ASSUME NEW s \in Sessions, CheckRevision(s), ~End(s) PROVE Unlinked'
  <2>1. /\ Goto(s, At("write", session[s].key, session[s].ask, session[s].read, None, None))
        /\ link' = link
        /\ session[s].ask.op = "revise into" =>
              /\ \A t \in Sessions : ~HoldsWorkflow(t, session[s].ask.owner)
              /\ link[session[s].ask.owner] = None
    BY <1>4 DEF CheckRevision, tables
  <2> QED
    BY <2>1, MoveUnlinked DEF At
<1>5. ASSUME NEW s \in Sessions, WriteDraft(s) \/ WriteProduct(s) PROVE Unlinked'
  <2>1. PICK read, new, moves :
           /\ Goto(s, At("commit", session[s].key, session[s].ask, read, new, moves))
           /\ moves # None => moves = session[s].ask.owner
    BY <1>5 DEF WriteDraft, WriteProduct
  <2>2. session[s].pc = "write" /\ link' = link
    BY <1>5 DEF WriteDraft, WriteProduct, tables
  <2> QED
    BY <2>1, <2>2, MoveUnlinked DEF At
<1>6. ASSUME NEW s \in Sessions, LoseCommit(s) \/ Abandon(s) PROVE End(s)
  BY <1>6 DEF LoseCommit, Abandon
<1>7. ASSUME NEW s \in Sessions, Step(s) \/ Abandon(s) PROVE Unlinked'
  BY <1>3, <1>4, <1>5, <1>6, <1>7, CommitUnlinked, EndUnlinked DEF Step
<1>8. CASE UNCHANGED vars
  BY <1>8 DEF vars, Unlinked, HoldsWorkflow
<1> QED
  BY <1>1, <1>2, <1>7, <1>8 DEF Next

\* A revision that goes into a workflow finds no draft in it when it commits, whatever
\* edits, events and other revisions came in after its check.
THEOREM RevisionsFindNoLink == Spec => RevisionKeepsWorkflow
<1>1. Init => Unlinked
  <2> SUFFICES ASSUME Init PROVE Unlinked
    OBVIOUS
  <2>1. \A s \in Sessions : session[s].pc = "idle" /\ session[s].moves = None
    BY DEF Init, Idle, At
  <2> QED
    BY <2>1 DEF Unlinked, HoldsWorkflow
<1>2. IType /\ Unlinked => RevisionFindsNoLink
  <2> SUFFICES ASSUME IType, Unlinked, NEW s \in Sessions, session[s].pc = "commit",
                      session[s].ask.op = "revise into"
               PROVE  link[session[s].ask.owner] = None
    BY DEF RevisionFindsNoLink
  <2>1. session[s].ask.owner \in Owners
    BY IdleType DEF IType, SessionOK, AskOK, Asked
  <2> QED
    BY <2>1 DEF Unlinked, HoldsWorkflow
<1> QED
  BY <1>1, <1>2, NextUnlinked, TypeInvariant, PTL DEF Spec, RevisionKeepsWorkflow
=============================================================================
