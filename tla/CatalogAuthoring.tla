-------------------------- MODULE CatalogAuthoring --------------------------
(***************************************************************************)
(* The mutations of one catalog product in app/services/catalog_admin.py:  *)
(* create and replace a private draft, publish it, archive the product and *)
(* start a revision, each under an Idempotency-Key and an expected_version.*)
(*                                                                         *)
(* A request is one PostgreSQL transaction at READ COMMITTED in a session  *)
(* of its own.  It sees what is committed when a statement runs, takes the *)
(* row locks of its SELECT ... FOR UPDATE statements in the order product, *)
(* draft, workflow, and writes everything at its commit.  A product that   *)
(* was never published has version 0 and no row: nothing to lock.          *)
(*                                                                         *)
(* Drafts are numbered by created_at.  The event a publication appends     *)
(* after its commit is a call of module CatalogWorkflow and changes        *)
(* nothing here; suggestion sets and source bundles are not followed.      *)
(***************************************************************************)
EXTENDS Naturals, Sequences, FiniteSets

CONSTANTS
    Owners,        \* administrators; drafts are private to one
    Sessions,      \* requests in flight
    Keys,          \* Idempotency-Key values
    Drafts,        \* draft numbers
    StartVersions, \* the versions the product may have at first
    None

ASSUME DraftAssumption == 
    /\ Drafts \subseteq Nat /\ IsFiniteSet(Drafts)
    /\ 1 \in Drafts /\ None \notin Drafts
ASSUME VersionAssumption == StartVersions \subseteq {0, 1}

\* What a request asks for, and a row of catalog_draft_revisions.
NeedProduct == {"archive", "revise", "revise into"}
UseDraft == {"edit", "publish"}
MakeDraft == {"create", "edit", "revise", "revise into"}
Asked == [op : NeedProduct \cup UseDraft \cup {"create"}, owner : Owners,
          draft : Drafts \cup {None}, expected : Nat, ordinal : Nat]
DraftRows == [owner : Owners, base : Nat, status : {"draft", "published"}]

ASSUME NoneAssumption == None \notin Asked \cup DraftRows \cup Owners \cup Keys

VARIABLES
    version,  \* catalog_products.version, or 0 when there is no row
    draft,    \* draft[d]: the catalog_draft_revisions row, or None
    link,     \* link[o]: the draft the workflow of owner o follows, or None
    mutation, \* mutation[k]: the request recorded under key k, or None
    session,  \* session[s]: where request s is
    log       \* the committed mutations in order (of the model only)

vars == <<version, draft, link, mutation, session, log>>
tables == <<version, draft, link, mutation>>

Existing == {d \in Drafts : draft[d] # None}
Own(o) == {d \in Existing : draft[d].owner = o}

\* _latest_owned_draft: the newest of the drafts that were not published.
Open(o) == {d \in Own(o) : draft[d].status = "draft"}
IsLatest(d, o) == d \in Open(o) /\ \A e \in Open(o) : e <= d

\* draft_revision_version: the ordinal of a draft counts every one of its owner.
Ordinal(o) == Cardinality(Own(o))

\* A request a client may send: it names versions and drafts the client has seen.
Ask(op, o, d, expected, ordinal) ==
    [op |-> op, owner |-> o, draft |-> d, expected |-> expected, ordinal |-> ordinal]
Asks(o) ==
    {Ask(op, o, None, version, 0) : op \in NeedProduct \cup {"create"}}
    \cup {Ask("edit", o, d, draft[d].base, Ordinal(o)) : d \in Own(o)}
    \cup {Ask("publish", o, d, draft[d].base, 0) : d \in Own(o)}
    \cup {Ask("publish", o, d, version, 0) : d \in Own(o)}

(* Definitions named Broken... are wrong on purpose: each is the form a
   plausible bug would give the definition after it, and shows that a property
   below can fail.  No specification uses one. *)

\* Where a request is: read is the product version it has read and locked (0: no
\* row), new the draft it has flushed, moves the owner whose workflow is to follow
\* that draft.
At(pc, k, q, read, new, moves) ==
    [pc |-> pc, key |-> k, ask |-> q, read |-> read, new |-> new, moves |-> moves]
Goto(s, x) == session' = [session EXCEPT ![s] = x]

BrokenIdle == At("idle", None, None, 1, None, None)

Idle == At("idle", None, None, 0, None, None)

Row(o, base, status) == [owner |-> o, base |-> base, status |-> status]

\* An owner may have begun a draft of the product already.
NoDraft == [d \in Drafts |-> None]

Init ==
    /\ version \in StartVersions
    /\ \/ draft = NoDraft
       \/ \E o \in Owners : draft = [NoDraft EXCEPT ![1] = Row(o, version, "draft")]
    /\ link = [o \in Owners |-> None]
    /\ mutation = [k \in Keys |-> None]
    /\ session = [s \in Sessions |-> Idle]
    /\ log = <<>>

-----------------------------------------------------------------------------
(* The row locks, held from the statement that takes them to the end of the
   transaction. *)

BrokenHoldsProduct(s) == session[s].read # 0 /\ session[s].ask.op # "archive"

HoldsProduct(s) == session[s].read # 0

HoldsDraft(s, d) ==
    /\ session[s].pc \in {"write", "commit"}
    /\ session[s].ask.op \in UseDraft
    /\ session[s].ask.draft = d

BrokenHoldsWorkflow(s, o) == FALSE

HoldsWorkflow(s, o) ==
    /\ session[s].pc \in {"write", "commit"}
    /\ session[s].ask.op = "revise into"
    /\ session[s].ask.owner = o

-----------------------------------------------------------------------------
\* The request ends without effect: it is refused, or replays a recorded answer.
End(s) ==
    /\ Goto(s, Idle)
    /\ UNCHANGED <<tables, log>>

\* A client sends a new request, under a fresh key or one it has used before ...
Send(s, k) ==
    /\ session[s].pc = "idle"
    /\ \E o \in Owners : \E q \in Asks(o) : Goto(s, At("lookup", k, q, 0, None, None))
    /\ UNCHANGED <<tables, log>>

\* ... or repeats one that has succeeded or is still in flight.
Repeatable(k) ==
    ({mutation[k]} \ {None}) \cup {session[t].ask : t \in {u \in Sessions : session[u].key = k}}
Retry(s, k) ==
    /\ session[s].pc = "idle"
    /\ \E q \in Repeatable(k) : Goto(s, At("lookup", k, q, 0, None, None))
    /\ UNCHANGED <<tables, log>>

\* An event that names a draft makes the workflow of its owner follow it.  The
\* append locks the workflow row, and the foreign key needs a share of the draft.
Follow(o, d) ==
    /\ d \in Own(o)
    /\ \A s \in Sessions : ~HoldsWorkflow(s, o) /\ ~HoldsDraft(s, d)
    /\ link' = [link EXCEPT ![o] = d]
    /\ UNCHANGED <<version, draft, mutation, session, log>>

\* _idempotent first looks the key up: the recorded answer is replayed, unless
\* the request differs.
LookUp(s) ==
    LET x == session[s] IN
    /\ x.pc = "lookup"
    /\ IF mutation[x.key] = None
       THEN Goto(s, At("product", x.key, x.ask, 0, None, None)) /\ UNCHANGED <<tables, log>>
       ELSE End(s)

\* _assert_expected_version reads and locks the product, if there is one.  Creating
\* without a current draft and archiving check nothing else.
LockProduct(s) ==
    LET x == session[s] IN
    /\ x.pc = "product"
    /\ \A t \in Sessions : ~HoldsProduct(t)
    /\ IF version = x.ask.expected /\ (version = 0 => x.ask.op \notin NeedProduct)
       THEN /\ Goto(s, At(IF x.ask.op \in {"create", "archive"} THEN "write" ELSE "check",
                          x.key, x.ask, version, None, None))
            /\ UNCHANGED <<tables, log>>
       ELSE End(s)

BrokenCheckDraft(s) ==
    LET x == session[s] IN
    /\ x.pc = "check" /\ x.ask.op \in UseDraft
    /\ \A t \in Sessions : ~HoldsDraft(t, x.ask.draft)
    /\ IF /\ x.ask.draft \in Open(x.ask.owner)
          /\ draft[x.ask.draft].base = x.ask.expected
          /\ x.ask.op = "edit" => Ordinal(x.ask.owner) = x.ask.ordinal
       THEN Goto(s, At("write", x.key, x.ask, x.read, None, None)) /\ UNCHANGED <<tables, log>>
       ELSE End(s)

\* An edit or a publication locks its draft, which must still be a draft, and the
\* newest of its owner, and made for the expected version; an edit must have seen
\* every draft.
CheckDraft(s) ==
    LET x == session[s] IN
    /\ x.pc = "check" /\ x.ask.op \in UseDraft
    /\ \A t \in Sessions : ~HoldsDraft(t, x.ask.draft)
    /\ IF /\ IsLatest(x.ask.draft, x.ask.owner)
          /\ draft[x.ask.draft].base = x.ask.expected
          /\ x.ask.op = "edit" => Ordinal(x.ask.owner) = x.ask.ordinal
       THEN Goto(s, At("write", x.key, x.ask, x.read, None, None)) /\ UNCHANGED <<tables, log>>
       ELSE End(s)

\* A revision needs that its owner has no draft of this version, and the workflow
\* it shall go into, which it locks, must follow none.
CheckRevision(s) ==
    LET x == session[s] IN
    /\ x.pc = "check" /\ x.ask.op \in {"revise", "revise into"}
    /\ x.ask.op = "revise into" => \A t \in Sessions : ~HoldsWorkflow(t, x.ask.owner)
    /\ IF \/ \E d \in Drafts : IsLatest(d, x.ask.owner) /\ draft[d].base = x.ask.expected
          \/ x.ask.op = "revise into" /\ link[x.ask.owner] # None
       THEN End(s)
       ELSE Goto(s, At("write", x.key, x.ask, x.read, None, None)) /\ UNCHANGED <<tables, log>>

\* The next created_at.
IsNew(d) ==
    LET taken == Existing \cup ({session[s].new : s \in Sessions} \ {None}) IN
    /\ \A e \in taken : e < d
    /\ \A e \in Drafts : e < d => \E f \in taken : e <= f

Moves(q) ==
    \/ q.op = "revise into"
    \/ q.op = "edit" /\ link[q.owner] = q.draft

\* A request that makes a draft flushes it; an edit has also selected the workflow
\* if it follows the draft that is replaced.
WriteDraft(s) ==
    LET x == session[s] IN
    /\ x.pc = "write" /\ x.ask.op \in MakeDraft
    /\ \E d \in Drafts :
          /\ IsNew(d)
          /\ Goto(s, At("commit", x.key, x.ask, x.read, d,
                        IF Moves(x.ask) THEN x.ask.owner ELSE None))
    /\ UNCHANGED <<tables, log>>

\* _apply_snapshot reads the product again if there was none: a row that has been
\* inserted since is updated, under its lock, like one that was there before.
WriteProduct(s) ==
    LET x == session[s] IN
    /\ x.pc = "write" /\ x.ask.op \in {"publish", "archive"}
    /\ x.read # 0 \/ \A t \in Sessions : ~HoldsProduct(t)
    /\ Goto(s, At("commit", x.key, x.ask, version, None, None))
    /\ UNCHANGED <<tables, log>>

\* Two inserts of the product, or two commits under one key: the later rolls back.
InsertsTwice(x) == x.ask.op = "publish" /\ x.read = 0 /\ version # 0

LoseCommit(s) ==
    LET x == session[s] IN
    /\ x.pc = "commit"
    /\ InsertsTwice(x) \/ mutation[x.key] # None
    /\ End(s)

BrokenCommit(s) ==
    LET x == session[s] IN
    /\ x.pc = "commit"
    /\ ~InsertsTwice(x)
    /\ mutation' = [mutation EXCEPT ![x.key] = x.ask]
    /\ version' = IF x.ask.op \in {"publish", "archive"} THEN x.ask.expected + 1 ELSE version
    /\ draft' = IF x.new # None
                THEN [draft EXCEPT ![x.new] = Row(x.ask.owner, x.ask.expected, "draft")]
                ELSE IF x.ask.op = "publish" THEN [draft EXCEPT ![x.ask.draft].status = "published"]
                ELSE draft
    /\ link' = IF x.moves # None THEN [link EXCEPT ![x.moves] = x.new] ELSE link
    /\ log' = Append(log, [key |-> x.key, ask |-> x.ask, version |-> version'])
    /\ Goto(s, Idle)

\* The commit writes the mutation's rows and its key together.
Commit(s) ==
    LET x == session[s] IN
    /\ x.pc = "commit"
    /\ ~InsertsTwice(x)
    /\ mutation[x.key] = None
    /\ x.moves # None => \A t \in Sessions \ {s} : ~HoldsWorkflow(t, x.ask.owner)
    /\ mutation' = [mutation EXCEPT ![x.key] = x.ask]
    /\ version' = IF x.ask.op \in {"publish", "archive"} THEN x.ask.expected + 1 ELSE version
    /\ draft' = IF x.new # None
                THEN [draft EXCEPT ![x.new] = Row(x.ask.owner, x.ask.expected, "draft")]
                ELSE IF x.ask.op = "publish" THEN [draft EXCEPT ![x.ask.draft].status = "published"]
                ELSE draft
    /\ link' = IF x.moves # None THEN [link EXCEPT ![x.moves] = x.new] ELSE link
    /\ log' = Append(log, [key |-> x.key, ask |-> x.ask, version |-> version'])
    /\ Goto(s, Idle)

\* The request is refused for its content, or the process dies: a rollback.
Abandon(s) ==
    /\ session[s].pc # "idle"
    /\ End(s)

Step(s) ==
    \/ LookUp(s) \/ LockProduct(s)
    \/ CheckDraft(s) \/ CheckRevision(s)
    \/ WriteDraft(s) \/ WriteProduct(s) \/ LoseCommit(s) \/ Commit(s)

Next ==
    \/ \E s \in Sessions, k \in Keys : Send(s, k) \/ Retry(s, k)
    \/ \E s \in Sessions : Step(s) \/ Abandon(s)
    \/ \E o \in Owners, d \in Drafts : Follow(o, d)

Spec == Init /\ [][Next]_vars

\* PostgreSQL grants a row lock to a waiting transaction in the end.
FairSpec == Spec /\ \A s \in Sessions : SF_vars(Step(s))

-----------------------------------------------------------------------------
(***************************************************************************)
(* Properties                                                              *)
(***************************************************************************)

\* Every variable keeps its type.
TypeOK ==
    /\ version \in Nat
    /\ draft \in [Drafts -> DraftRows \cup {None}]
    /\ link \in [Owners -> Drafts \cup {None}]
    /\ mutation \in [Keys -> Asked \cup {None}]
    /\ session \in [Sessions ->
          [pc : {"idle", "lookup", "product", "check", "write", "commit"},
           key : Keys \cup {None}, ask : Asked \cup {None}, read : Nat,
           new : Drafts \cup {None}, moves : Owners \cup {None}]]
    /\ log \in Seq([key : Keys, ask : Asked, version : Nat])

\* However often and however concurrently a request is repeated, one key changes
\* the catalog once.
AppliedOnce ==
    \A i, j \in DOMAIN log : log[i].key = log[j].key => i = j

\* A draft is replaced by one edit or published by one publication, and never
\* both: of two requests that have seen the same draft, one is refused, so no
\* edit is lost and what is published was not edited meanwhile.
DraftIsUsedOnce ==
    \A i, j \in DOMAIN log :
        /\ log[i].ask.op \in UseDraft /\ log[j].ask.op \in UseDraft
        /\ log[i].ask.draft = log[j].ask.draft
        => i = j

\* A publication or an archiving that expects an older version than the public
\* one changes nothing: versions of the public product grow by one.
StaleIsRefused ==
    \A i, j \in DOMAIN log :
        i < j /\ log[j].ask.op \in {"publish", "archive"} => log[i].version <= log[j].ask.expected

\* A revision never takes a workflow away from the draft it follows, although the
\* workflow is checked some statements before the revision is committed.
RevisionFindsNoLink ==
    \A s \in Sessions :
        /\ session[s].pc = "commit" /\ session[s].ask.op = "revise into"
        /\ session'[s].pc = "idle" /\ log' # log
        => link[session[s].ask.owner] = None
RevisionKeepsWorkflow == [][RevisionFindsNoLink]_vars

\* Every request is answered: the row locks are taken in an order that makes no
\* two requests wait for each other.
IsAnswered == \A s \in Sessions : session[s].pc # "idle" ~> session[s].pc = "idle"
=============================================================================
