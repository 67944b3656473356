-------------------------- MODULE CatalogWorkflow --------------------------
(***************************************************************************)
(* The Catalog Studio workflow timeline of                                 *)
(* app/services/catalog_workflow.py: one catalog_workflows row, its        *)
(* catalog_workflow_events rows, and the database sessions that write      *)
(* them (request handlers, the image worker, stale-job recovery).          *)
(*                                                                         *)
(* The database is PostgreSQL at READ COMMITTED.  A session keeps every    *)
(* row it has loaded in its identity map; `SELECT ... FOR UPDATE` takes    *)
(* the row lock but does not refresh a row the session already holds, and  *)
(* commit does not expire it (expire_on_commit=False).  So a session may   *)
(* append under the lock while it still works from an older copy of the    *)
(* row; what protects the timeline then is the unique constraint on        *)
(* (workflow_id, sequence).                                                *)
(***************************************************************************)
EXTENDS Naturals

CONSTANTS
    Sessions,   \* database sessions that may touch this workflow
    Keys,       \* client_event_id values (their hashes)
    StartKey,   \* "workflow-started", stored unhashed: no client key equals it
    States,     \* (stage, status) pairs an event carries to the workflow row
    StartState, \* the pair of the first event: ("workflow", "started")
    Drafts,     \* draft revision ids an event or an edit may link
    Requests,   \* fingerprints of start requests sharing one idempotency key
    None        \* SQL NULL, or the absence of a row

ASSUME StartKeyAssumption == StartKey \notin Keys
VARIABLES
    wf,      \* the committed catalog_workflows row, or None
    events,  \* the committed catalog_workflow_events rows
    lock,    \* the session whose transaction holds the row lock, or None
    row,     \* row[s]: the copy of the row in the identity map of s, or None
    shadow,  \* the row as the lock holder's transaction has flushed it
    pending, \* the events the lock holder's transaction has flushed
    starting,\* starting[s]: the request s found no workflow for, or None
    outcome, \* outcome[s]: how the last call of s ended
    acked    \* every (event, sequence) a caller has been answered with

vars == <<wf, events, lock, row, shadow, pending, starting, outcome, acked>>

AllKeys == Keys \cup {StartKey}
AllStates == States \cup {StartState}

\* What a caller sends; input_hash fingerprints all of it.
Inputs == [key : Keys, state : States, draft : Drafts \cup {None}]

Rows == [request : Requests, next : Nat \ {0}, state : AllStates,
         draft : Drafts \cup {None}]

Entries == [key : AllKeys, state : AllStates, draft : Drafts \cup {None},
            seq : Nat \ {0}]

Events == [entry : Entries, expired : BOOLEAN]

\* None is a value of its own.
ASSUME NoneAssumption ==
    None \notin Sessions \cup Drafts \cup Requests \cup AllStates \cup Rows

Outcomes == {"none", "started", "acked", "conflict", "refused"}

-----------------------------------------------------------------------------
(* Definitions named Broken... are wrong on purpose: each is the form a
   plausible bug would give the definition after it, and shows that a property
   below can fail.  No specification uses one. *)

\* The row start_catalog_workflow inserts, and its first event.
NewRow(r) == [request |-> r, next |-> 2, state |-> StartState, draft |-> None]
FirstEntry == [key |-> StartKey, state |-> StartState, draft |-> None, seq |-> 1]

\* A stored event, with its payload and after the retention scrub.
Unexpired(x) == [entry |-> x, expired |-> FALSE]
Scrubbed(e) == [entry |-> e.entry, expired |-> TRUE]

Stored == {e.entry : e \in events}

\* What the lock holder's own queries see: its flushed rows too.
Visible == Stored \cup pending

Seqs(E) == {x.seq : x \in E}

\* The event append_workflow_event builds from the session's copy of the row.
EntryFor(s, i) == [key |-> i.key, state |-> i.state, draft |-> i.draft,
                   seq |-> row[s].next]

BrokenAdvance(r, i) == [request |-> r.request, next |-> r.next, state |-> i.state,
                        draft |-> IF i.draft # None THEN i.draft ELSE r.draft]

\* The session's copy of the row after the assignments of append_workflow_event.
Advance(r, i) == [request |-> r.request, next |-> r.next + 1, state |-> i.state,
                  draft |-> IF i.draft # None THEN i.draft ELSE r.draft]

BrokenFlush(stored, old, new) ==
    [request |-> stored.request,
     next    |-> IF new.next # old.next THEN new.next ELSE stored.next,
     state   |-> new.state,
     draft   |-> IF new.draft # old.draft THEN new.draft ELSE stored.draft]

\* The unit of work writes only the columns the session sees as changed.
Flush(stored, old, new) ==
    [request |-> stored.request,
     next    |-> IF new.next # old.next THEN new.next ELSE stored.next,
     state   |-> IF new.state # old.state THEN new.state ELSE stored.state,
     draft   |-> IF new.draft # old.draft THEN new.draft ELSE stored.draft]

\* The session's copy after an edit has moved the workflow to draft d.
Linked(r, d) == [r EXCEPT !.draft = d]

-----------------------------------------------------------------------------
Init ==
    /\ wf = None
    /\ events = {}
    /\ lock = None
    /\ row = [s \in Sessions |-> None]
    /\ shadow = None
    /\ pending = {}
    /\ starting = [s \in Sessions |-> None]
    /\ outcome = [s \in Sessions |-> "none"]
    /\ acked = {}

\* The answer to a start request when a workflow already exists under its key.
StartReplay(s, r) ==
    outcome' = [outcome EXCEPT ![s] =
                    IF wf.request = r THEN "started" ELSE "conflict"]

\* start_catalog_workflow looks for a workflow with the idempotency key.
StartLookup(s, r) ==
    /\ starting[s] = None
    /\ lock # s
    /\ IF wf # None
       THEN StartReplay(s, r) /\ UNCHANGED starting
       ELSE starting' = [starting EXCEPT ![s] = r] /\ UNCHANGED outcome
    /\ UNCHANGED <<wf, events, lock, row, shadow, pending, acked>>

BrokenStartInsert(s) ==
    /\ starting[s] # None
    /\ starting' = [starting EXCEPT ![s] = None]
    /\ wf' = NewRow(starting[s])
    /\ events' = {Unexpired(FirstEntry)}
    /\ outcome' = [outcome EXCEPT ![s] = "started"]
    /\ acked' = acked \cup {FirstEntry}
    /\ UNCHANGED <<lock, row, shadow, pending>>

\* ... inserts the row and its first event, or loses the race for the key.
StartInsert(s) ==
    /\ starting[s] # None
    /\ starting' = [starting EXCEPT ![s] = None]
    /\ IF wf = None
       THEN /\ wf' = NewRow(starting[s])
            /\ events' = {Unexpired(FirstEntry)}
            /\ outcome' = [outcome EXCEPT ![s] = "started"]
            /\ acked' = acked \cup {FirstEntry}
       ELSE /\ StartReplay(s, starting[s])
            /\ UNCHANGED <<wf, events, acked>>
    /\ UNCHANGED <<lock, row, shadow, pending>>

\* A caller reads the row without locking it: the AI command and the realtime
\* session (_owned_workflow), publication (_workflow_for_draft), the image
\* worker and stale recovery (db.get).  A row already held is not refreshed.
LoadWorkflow(s) ==
    /\ wf # None
    /\ lock # s
    /\ starting[s] = None
    /\ row[s] = None
    /\ row' = [row EXCEPT ![s] = wf]
    /\ UNCHANGED <<wf, events, lock, shadow, pending, starting, outcome, acked>>

\* _owner_workflow: SELECT ... FOR UPDATE.
LockWorkflow(s) ==
    /\ wf # None
    /\ lock = None
    /\ starting[s] = None
    /\ lock' = s
    /\ shadow' = wf
    /\ row' = [row EXCEPT ![s] = IF @ = None THEN wf ELSE @]
    /\ outcome' = [outcome EXCEPT ![s] = "none"]
    /\ UNCHANGED <<wf, events, pending, starting, acked>>

\* End of a transaction that leaves nothing behind; the row is expired.
Abandon(s, how) ==
    /\ lock' = None
    /\ shadow' = None
    /\ pending' = {}
    /\ row' = [row EXCEPT ![s] = None]
    /\ outcome' = [outcome EXCEPT ![s] = how]
    /\ UNCHANGED <<wf, events, starting, acked>>

\* append_workflow_event: the client_event_id is already on the timeline.
ReplayEvent(s, i) ==
    /\ lock = s
    /\ \E x \in Visible :
          /\ x.key = i.key
          /\ x.state = i.state /\ x.draft = i.draft
          /\ acked' = acked \cup ({x} \cap Stored)
    /\ outcome' = [outcome EXCEPT ![s] = "acked"]
    /\ UNCHANGED <<wf, events, lock, row, shadow, pending, starting>>

\* append_workflow_event: the client_event_id names a different event.
RejectReuse(s, i) ==
    /\ lock = s
    /\ \E x \in Visible :
          x.key = i.key /\ <<x.state, x.draft>> # <<i.state, i.draft>>
    /\ Abandon(s, "conflict")

NewKey(i) == \A x \in Visible : x.key # i.key

BrokenAppendUnchecked(s, i) ==
    /\ lock = s
    /\ NewKey(i)
    /\ pending' = pending \cup {EntryFor(s, i)}
    /\ row' = [row EXCEPT ![s] = Advance(@, i)]
    /\ shadow' = Flush(shadow, row[s], Advance(row[s], i))
    /\ UNCHANGED <<wf, events, lock, starting, outcome, acked>>

\* append_workflow_event: the event and the row update are flushed.
AppendEvent(s, i) ==
    /\ lock = s
    /\ NewKey(i)
    /\ row[s].next \notin Seqs(Visible)
    /\ pending' = pending \cup {EntryFor(s, i)}
    /\ row' = [row EXCEPT ![s] = Advance(@, i)]
    /\ shadow' = Flush(shadow, row[s], Advance(row[s], i))
    /\ UNCHANGED <<wf, events, lock, starting, outcome, acked>>

\* append_workflow_event: the insert breaks the unique (workflow_id, sequence);
\* the IntegrityError rolls the caller's transaction back.
RefuseSequence(s, i) ==
    /\ lock = s
    /\ NewKey(i)
    /\ row[s].next \in Seqs(Visible)
    /\ Abandon(s, "refused")

\* db.commit(): the caller is answered.
Commit(s) ==
    /\ lock = s
    /\ wf' = shadow
    /\ events' = events \cup {Unexpired(x) : x \in pending}
    /\ acked' = acked \cup pending
    /\ outcome' = [outcome EXCEPT ![s] = IF pending # {} THEN "acked" ELSE @]
    /\ lock' = None
    /\ shadow' = None
    /\ pending' = {}
    /\ UNCHANGED <<row, starting>>

\* The session ends before it commits: a later error, a crash, a lost connection.
Rollback(s) ==
    /\ lock = s
    /\ Abandon(s, "none")

\* The session closes, or expires what it holds (expire_all).
Forget(s) ==
    /\ lock # s
    /\ row' = [row EXCEPT ![s] = None]
    /\ starting' = [starting EXCEPT ![s] = None]
    /\ UNCHANGED <<wf, events, lock, shadow, pending, outcome, acked>>

\* An edit moves the workflow to another draft without an event (create_draft,
\* decide_suggestion_set): its UPDATE waits for the row lock, names the row by
\* its key only and writes the column if it differs from the session's copy.
LinkDraft(s, d) ==
    /\ row[s] # None
    /\ lock = None
    /\ wf' = Flush(wf, row[s], Linked(row[s], d))
    /\ row' = [row EXCEPT ![s] = Linked(@, d)]
    /\ UNCHANGED <<events, lock, shadow, pending, starting, outcome, acked>>

\* cleanup_expired_workflow_payloads: the payloads of old events are replaced.
ScrubPayloads ==
    /\ \E old \in SUBSET {e \in events : ~e.expired} :
          /\ old # {}
          /\ events' = (events \ old) \cup {Scrubbed(e) : e \in old}
    /\ UNCHANGED <<wf, lock, row, shadow, pending, starting, outcome, acked>>

SessionStep(s) ==
    \/ \E r \in Requests : StartLookup(s, r)
    \/ StartInsert(s)
    \/ LoadWorkflow(s)
    \/ LockWorkflow(s)
    \/ \E i \in Inputs :
          \/ ReplayEvent(s, i)
          \/ RejectReuse(s, i)
          \/ AppendEvent(s, i)
          \/ RefuseSequence(s, i)
    \/ Commit(s)
    \/ Rollback(s)
    \/ Forget(s)
    \/ \E d \in Drafts : LinkDraft(s, d)

Next == (\E s \in Sessions : SessionStep(s)) \/ ScrubPayloads

Spec == Init /\ [][Next]_vars

-----------------------------------------------------------------------------
(***************************************************************************)
(* Properties                                                              *)
(***************************************************************************)

\* Every variable keeps its type.
TypeOK ==
    /\ wf \in Rows \cup {None}
    /\ events \subseteq Events
    /\ lock \in Sessions \cup {None}
    /\ row \in [Sessions -> Rows \cup {None}]
    /\ shadow \in Rows \cup {None}
    /\ pending \subseteq Entries
    /\ starting \in [Sessions -> Requests \cup {None}]
    /\ outcome \in [Sessions -> Outcomes]
    /\ acked \subseteq Entries

\* The committed timeline is numbered 1, 2, 3, ... without a gap or a duplicate,
\* and no client_event_id is on it twice, although sessions number their events
\* from copies of the row that may be out of date.
TimelineDense ==
    /\ Seqs(Stored) = IF wf = None THEN {} ELSE 1 .. (wf.next - 1)
    /\ \A e, f \in events :
          e.entry.seq = f.entry.seq \/ e.entry.key = f.entry.key => e = f

\* The row's current_stage and status are those of the latest event: a session
\* with an older copy never writes an older stage back.
RowIsLastEvent ==
    wf # None => \E x \in Stored : x.seq = wf.next - 1 /\ x.state = wf.state

\* What a caller has been answered stays on the timeline, unchanged; with
\* TimelineDense, every retry of an event is answered with the same sequence.
AckedIsStored == acked \subseteq Stored

\* Neither the row nor an answer says what the timeline does not.
TimelineIsShown == RowIsLastEvent /\ AckedIsStored

\* No step removes or rewrites an event; the retention scrub only replaces its
\* payload, and never restores one.
TimelineOnlyGrows ==
    [][\A e \in events : \E f \in events' :
          f.entry = e.entry /\ (e.expired => f.expired)]_vars

\* An append is refused only when another session's event was committed after
\* the refused session read the row: a session that has just locked a row it did
\* not hold is never refused.
RefusedOnlyIfOvertaken ==
    [][\A s \in Sessions :
          outcome[s] # "refused" /\ outcome'[s] = "refused"
             => row[s].next < wf.next]_vars

\* The sessions together implement the append-only log of module EventLog: every
\* transaction of every session is an append or invisible to readers.
Log == INSTANCE EventLog WITH
           log    <- Stored,
           length <- IF wf = None THEN 0 ELSE wf.next - 1,
           state  <- IF wf = None THEN None ELSE wf.state

ImplementsLog == Log!Spec

=============================================================================
