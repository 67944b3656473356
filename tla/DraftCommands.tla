---------------------------- MODULE DraftCommands ----------------------------
(***************************************************************************)
(* The AI draft commands of app/services/catalog_ai.py on one catalog      *)
(* workflow: a command is looked up by its Idempotency-Key, validated,     *)
(* reserved in a transaction of its own, sent to the Responses provider,   *)
(* and stored: a new draft, the workflow row and its events in a second    *)
(* transaction, which validates again.                                     *)
(*                                                                         *)
(* The session is not expired by the first commit, and SELECT ... FOR      *)
(* UPDATE does not refresh a row it has loaded: the second transaction     *)
(* works with the copy of the workflow row made before the provider was    *)
(* called.  The unique sequence of the workflow's events is what refuses a *)
(* copy that has fallen behind.  Beside the commands the owner edits       *)
(* drafts, starts revisions and posts events (catalog_admin.py,            *)
(* catalog_workflow.py).  Drafts are numbered by created_at.               *)
(***************************************************************************)
EXTENDS Naturals, Sequences, FiniteSets

CONSTANTS
    Commands,       \* AI commands in flight
    Editors,        \* requests that replace a draft
    Keys,           \* Idempotency-Key values
    Drafts,         \* draft numbers
    NewProducts,    \* products the model may propose
    PublicProducts, \* published products without a draft, to revise
    MaxActs,        \* bound on edits, revisions and posted events
    MaxCrashes,     \* bound on crashes of the process that serves a command
    None

Products == NewProducts \cup PublicProducts
States == {"processing", "completed", "failed"}
Asked == [draft : Drafts \cup {None}, expected : Nat]
Mutations == [ask : Asked, state : States]
Edits == [draft : Drafts, expected : Nat, new : Drafts, moves : BOOLEAN]

\* What a run's constants must satisfy.
CommandAssumption ==
    /\ Drafts \subseteq Nat /\ IsFiniteSet(Drafts) /\ 1 \in Drafts
    /\ MaxActs \in Nat /\ MaxCrashes \in Nat
    /\ None \notin Nat \cup Products \cup Mutations \cup Edits

VARIABLES
    workflow, \* the catalog_workflows row: the draft it follows, its next sequence
    product,  \* product[d]: the product draft d is of, or None
    mutation, \* mutation[k]: the command recorded under key k, or None
    command,  \* command[s]: where AI command s is
    editor,   \* editor[e]: the replacement e has flushed, or None
    calls,    \* calls[k]: calls of the provider under key k (of the model only)
    log,      \* the accepted commands and edits in order (of the model only)
    acts, crashes

vars == <<workflow, product, mutation, command, editor, calls, log, acts, crashes>>
others == <<editor, acts, crashes>>

Existing == {d \in Drafts : product[d] # None}
IsLatest(d) == d \in Existing /\ \A e \in Existing : product[e] = product[d] => e <= d

(* Definitions named Broken... are wrong on purpose: each is the form a
   plausible bug would give the definition after it, and shows that a property
   below can fail.  No specification uses one. *)

\* draft_revision_version counts every draft of the product.
Version(d) == Cardinality({e \in Existing : product[e] = product[d]})

\* The next created_at, after the drafts that are flushed and not committed.
Flushed ==
    ({command[s].new : s \in Commands} \cup {editor[e].new : e \in {f \in Editors : editor[f] # None}})
    \ {None}
IsNew(d) ==
    LET taken == Existing \cup Flushed IN
    /\ \A e \in taken : e < d
    /\ \A e \in Drafts : e < d => \E f \in taken : e <= f

At(pc, k, q, copy, p, new) ==
    [pc |-> pc, key |-> k, ask |-> q, copy |-> copy, product |-> p, new |-> new]
Nothing == [draft |-> None, expected |-> 0]
NoCopy == [draft |-> None, next |-> 0]
Idle == At("idle", None, Nothing, NoCopy, None, None)
Goto(s, x) == command' = [command EXCEPT ![s] = x]
Continue(s, pc) == command' = [command EXCEPT ![s].pc = pc]

Record(q, state) == [ask |-> q, state |-> state]

Init ==
    /\ \/ product = [d \in Drafts |-> None] /\ workflow = [draft |-> None, next |-> 2]
       \/ \E p \in NewProducts, link \in {None, 1} :
             /\ product = [d \in Drafts |-> IF d = 1 THEN p ELSE None]
             /\ workflow = [draft |-> link, next |-> 2]
    /\ mutation = [k \in Keys |-> None]
    /\ command = [s \in Commands |-> Idle]
    /\ editor = [e \in Editors |-> None]
    /\ calls = [k \in Keys |-> 0]
    /\ log = <<>>
    /\ acts = 0
    /\ crashes = 0

-----------------------------------------------------------------------------
\* The row lock a command takes before it validates for the second time.
HoldsWorkflow(s) == command[s].pc = "commit"
IsFree == \A s \in Commands : ~HoldsWorkflow(s)

\* The command ends: it is answered, refused, or replays what is recorded.
End(s) == Goto(s, Idle)

\* A client sends a command: create a product, or refine a draft it has seen ...
Asks ==
    {Nothing} \cup {[draft |-> d, expected |-> Version(d)] : d \in Existing}
Send(s, k) ==
    /\ command[s].pc = "idle"
    /\ \E q \in Asks : Goto(s, At("lookup", k, q, NoCopy, None, None))
    /\ UNCHANGED <<workflow, product, mutation, calls, log, others>>

\* ... or repeats one, whatever has become of it.
Repeatable(k) ==
    {mutation[k].ask : j \in {i \in {k} : mutation[i] # None}}
    \cup {command[t].ask : t \in {u \in Commands : command[u].key = k}}
Retry(s, k) ==
    /\ command[s].pc = "idle"
    /\ \E q \in Repeatable(k) : Goto(s, At("lookup", k, q, NoCopy, None, None))
    /\ UNCHANGED <<workflow, product, mutation, calls, log, others>>

\* A command whose key is recorded is not executed: a completed one replays its
\* result, a failed one its error, one that is processing or differs is refused.
LookUp(s) ==
    /\ command[s].pc = "lookup"
    /\ IF mutation[command[s].key] = None THEN Continue(s, "validate") ELSE End(s)
    /\ UNCHANGED <<workflow, product, mutation, calls, log, others>>

\* _validate_command_state, on a copy of the workflow row.
IsCurrent(q, copy) ==
    /\ copy.draft = q.draft
    /\ q.draft # None => Version(q.draft) = q.expected

Validate(s) ==
    LET x == command[s] IN
    /\ x.pc = "validate"
    /\ IF IsCurrent(x.ask, workflow)
       THEN Goto(s, At("reserve", x.key, x.ask, workflow, None, None))
       ELSE End(s)
    /\ UNCHANGED <<workflow, product, mutation, calls, log, others>>

BrokenReserve(s) ==
    LET x == command[s] IN
    /\ x.pc = "reserve"
    /\ mutation' = [mutation EXCEPT ![x.key] = Record(x.ask, "processing")]
    /\ Continue(s, "provider")
    /\ UNCHANGED <<workflow, product, calls, log, others>>

\* The key is reserved before the provider is called; of two commands under one
\* key the primary key lets one go on.
Reserve(s) ==
    LET x == command[s] IN
    /\ x.pc = "reserve"
    /\ IF mutation[x.key] = None
       THEN /\ mutation' = [mutation EXCEPT ![x.key] = Record(x.ask, "processing")]
            /\ Continue(s, "provider")
       ELSE End(s) /\ UNCHANGED mutation
    /\ UNCHANGED <<workflow, product, calls, log, others>>

\* The provider proposes a product, which is the draft's own for a refinement, or
\* is blocked by moderation, or fails.
CallProvider(s) ==
    LET x == command[s] IN
    /\ x.pc = "provider"
    /\ calls' = [calls EXCEPT ![x.key] = @ + 1]
    /\ \/ \E p \in IF x.ask.draft = None THEN NewProducts ELSE {product[x.ask.draft]} :
             Goto(s, At("store", x.key, x.ask, x.copy, p, None))
       \/ Continue(s, "block") \/ Continue(s, "fail")
    /\ UNCHANGED <<workflow, product, mutation, log, others>>

\* _store_success locks the workflow and validates its copy of the row again,
\* with a fresh count of the drafts; a new product must not exist.  The draft is
\* flushed, the failure rolled back.
Store(s) ==
    LET x == command[s]
        isNewProduct == \A d \in Existing : product[d] # x.product
    IN
    /\ x.pc = "store"
    /\ IsFree
    /\ IF IsCurrent(x.ask, x.copy) /\ (x.ask.draft = None => isNewProduct)
       THEN \E d \in Drafts :
               /\ IsNew(d)
               /\ Goto(s, At("commit", x.key, x.ask, x.copy, x.product, d))
       ELSE Continue(s, "fail")
    /\ UNCHANGED <<workflow, product, mutation, calls, log, others>>

BrokenCollides(s) == FALSE

\* The events take their sequence numbers from the copy.
Collides(s) == command[s].copy.next # workflow.next

\* Draft, workflow, moderation and responses event and the recorded result are
\* committed together, unless a sequence number is taken.
Commit(s) ==
    LET x == command[s] IN
    /\ HoldsWorkflow(s)
    /\ ~Collides(s)
    /\ product' = [product EXCEPT ![x.new] = x.product]
    /\ workflow' = [draft |-> x.new, next |-> x.copy.next + 2]
    /\ mutation' = [mutation EXCEPT ![x.key] = Record(x.ask, "completed")]
    /\ log' = Append(log, [product |-> x.product, ask |-> x.ask])
    /\ End(s)
    /\ UNCHANGED <<calls, others>>

\* _store_blocked records the moderation result, and no draft.
Block(s) ==
    LET x == command[s] IN
    /\ x.pc = "block"
    /\ IsFree
    /\ ~Collides(s)
    /\ workflow' = [workflow EXCEPT !.next = @ + 2]
    /\ mutation' = [mutation EXCEPT ![x.key] = Record(x.ask, "completed")]
    /\ End(s)
    /\ UNCHANGED <<product, calls, log, others>>

\* A sequence number that is taken rolls the second transaction back.
Refuse(s) ==
    /\ command[s].pc = "commit" \/ (command[s].pc = "block" /\ IsFree)
    /\ Collides(s)
    /\ command' = [command EXCEPT ![s].pc = "fail", ![s].new = None]
    /\ UNCHANGED <<workflow, product, mutation, calls, log, others>>

BrokenFail(s) ==
    /\ command[s].pc = "fail"
    /\ IsFree
    /\ workflow' = [workflow EXCEPT !.next = @ + 1]
    /\ End(s)
    /\ UNCHANGED <<product, mutation, calls, log, others>>

\* _record_failure: after the rollback the row is read anew, an event is appended
\* and the error recorded for replays.
Fail(s) ==
    LET x == command[s] IN
    /\ x.pc = "fail"
    /\ IsFree
    /\ workflow' = [workflow EXCEPT !.next = @ + 1]
    /\ mutation' = [mutation EXCEPT ![x.key] = Record(x.ask, "failed")]
    /\ End(s)
    /\ UNCHANGED <<product, calls, log, others>>

\* The process that serves the command dies; what is not committed is lost.
Crash(s) ==
    /\ command[s].pc # "idle"
    /\ crashes < MaxCrashes
    /\ crashes' = crashes + 1
    /\ End(s)
    /\ UNCHANGED <<workflow, product, mutation, calls, log, editor, acts>>

-----------------------------------------------------------------------------
\* create_draft replaces a draft: it locks the draft, checks that it is the latest
\* and that its version is the expected one, flushes the next draft, and selects
\* the workflow if it follows the replaced one ...
EditDraft(e, d) ==
    /\ editor[e] = None
    /\ acts < MaxActs
    /\ IsLatest(d)
    /\ \A f \in Editors : editor[f] # None => editor[f].draft # d
    /\ \E n \in Drafts :
          /\ IsNew(n)
          /\ editor' = [editor EXCEPT ![e] =
                [draft |-> d, expected |-> Version(d), new |-> n, moves |-> workflow.draft = d]]
    /\ acts' = acts + 1
    /\ UNCHANGED <<workflow, product, mutation, command, calls, log, crashes>>

\* ... which follows the new draft after the commit.  The draft lock is released.
CommitEdit(e) ==
    LET x == editor[e] IN
    /\ x # None
    /\ x.moves => IsFree
    /\ product' = [product EXCEPT ![x.new] = product[x.draft]]
    /\ workflow' = IF x.moves THEN [workflow EXCEPT !.draft = x.new] ELSE workflow
    /\ editor' = [editor EXCEPT ![e] = None]
    /\ log' = Append(log, [product |-> product[x.draft],
                           ask |-> [draft |-> x.draft, expected |-> x.expected]])
    /\ UNCHANGED <<mutation, command, calls, acts, crashes>>

\* start_product_revision into the workflow, which must follow no draft: the row
\* is locked throughout, and no event is appended.
ReviseInto(p) ==
    /\ IsFree
    /\ acts < MaxActs
    /\ acts' = acts + 1
    /\ workflow.draft = None
    /\ \A d \in Existing : product[d] # p
    /\ \E d \in Drafts :
          /\ IsNew(d)
          /\ product' = [product EXCEPT ![d] = p]
          /\ workflow' = [workflow EXCEPT !.draft = d]
    /\ UNCHANGED <<mutation, command, editor, calls, log, crashes>>

\* A client posts an event, which may name a draft for the workflow to follow.
PostEvent(d) ==
    /\ IsFree
    /\ acts < MaxActs
    /\ acts' = acts + 1
    /\ workflow' = [draft |-> IF d \in Existing THEN d ELSE workflow.draft,
                    next |-> workflow.next + 1]
    /\ UNCHANGED <<product, mutation, command, editor, calls, log, crashes>>

Step(s) ==
    \/ LookUp(s) \/ Validate(s) \/ Reserve(s) \/ CallProvider(s) \/ Store(s)
    \/ Commit(s) \/ Block(s) \/ Refuse(s) \/ Fail(s)

Next ==
    \/ \E s \in Commands, k \in Keys : Send(s, k) \/ Retry(s, k)
    \/ \E s \in Commands : Step(s) \/ Crash(s)
    \/ \E e \in Editors : CommitEdit(e) \/ \E d \in Drafts : EditDraft(e, d)
    \/ \E p \in PublicProducts : ReviseInto(p)
    \/ \E d \in Drafts \cup {None} : PostEvent(d)

Spec == Init /\ [][Next]_vars

\* PostgreSQL grants a row lock to a waiting transaction in the end, and the
\* provider's client has a timeout.
FairSpec == Spec /\ \A s \in Commands : SF_vars(Step(s))

-----------------------------------------------------------------------------
(***************************************************************************)
(* Properties                                                              *)
(***************************************************************************)

\* Every variable keeps its type.
TypeOK ==
    /\ workflow \in [draft : Drafts \cup {None}, next : Nat]
    /\ product \in [Drafts -> Products \cup {None}]
    /\ mutation \in [Keys -> Mutations \cup {None}]
    /\ command \in [Commands ->
          [pc : {"idle", "lookup", "validate", "reserve", "provider", "store", "commit", "block",
                 "fail"},
           key : Keys \cup {None}, ask : Asked, copy : [draft : Drafts \cup {None}, next : Nat],
           product : Products \cup {None}, new : Drafts \cup {None}]]
    /\ editor \in [Editors -> Edits \cup {None}]
    /\ calls \in [Keys -> Nat]
    /\ log \in Seq([product : Products, ask : Asked])
    /\ acts \in Nat /\ crashes \in Nat

\* The provider is called once for a key, however often the command is repeated,
\* while it is in flight, after it and after a crash.
CalledOnce == \A k \in Keys : calls[k] <= 1

\* Of two commands or edits that expect the same version of a product's drafts one
\* is refused, although a command validates before the provider is called.
EditIsNotLost ==
    \A i, j \in DOMAIN log :
        /\ log[i].ask.draft # None /\ log[j].ask.draft # None
        /\ log[i].product = log[j].product /\ log[i].ask.expected = log[j].ask.expected
        => i = j

\* A command decides on a copy of the workflow row made before the provider was called.
\* Yet it moves the workflow from the draft it was asked to start from; what it may
\* overtake unnoticed, because it leaves no event, is a revision of another product or
\* the edit of one, never a newer draft of its own product.
WorkflowKeepsDraft ==
    [][\A s \in Commands :
          Commit(s) /\ workflow.draft # command[s].ask.draft =>
             /\ workflow.draft # None
             /\ product[workflow.draft] # command[s].product]_vars

\* A command that was reserved gets a result that replays return.
CommandIsAnswered ==
    \A k \in Keys :
        mutation[k] # None /\ mutation[k].state = "processing"
        ~> mutation[k] # None /\ mutation[k].state # "processing"
=============================================================================
