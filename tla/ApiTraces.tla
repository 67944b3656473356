----------------------------- MODULE ApiTraces -----------------------------
(***************************************************************************)
(* One persisted API trace (app/api_traces/service.py).  The code under    *)
(* trace hands projections to a recorder, each written by a transaction of *)
(* its own that reads the trace without a lock (a commit inside a request  *)
(* records its workflow events, the end of the request the rest); the      *)
(* browser appends events under a lock of the trace; a stream reads the    *)
(* events after its cursor.  Payloads, and later the trace, are hidden     *)
(* from its readers when their time is over; nothing in the program calls  *)
(* cleanup_expired_api_traces, which would erase them.                     *)
(*                                                                         *)
(* The spans of a projection below its root are left out: only roots move. *)
(* Links and artifacts are written like events, and have no order.         *)
(***************************************************************************)
EXTENDS Integers, Sequences, SequencesExt

CONSTANTS
    Projections,  \* what the code records: a root and events in order of their sequence
    Spans,        \* span ids: the roots of projections, and browser actions
    Events,       \* event ids
    BrowserSpans, \* the spans of browser actions
    BrowserEvents,\* the events of the browser
    MaxEvents,    \* api_trace_max_events
    Retention,    \* hours a payload is kept
    Horizon,      \* the last hour of the model; the trace is kept for twice Retention
    None, Done    \* a row that is not there; a recorder that has ended

VARIABLES
    now,     \* the hour
    trace,   \* the trace's row, or None
    parent,  \* parent[s]: the parent of span s, None for a root, or "absent"
    rows,    \* the events: id and sequence
    task,    \* task[p]: None, what the recorder of projection p has read, or Done
    cursor,  \* the sequence the stream has reached
    sent     \* the ids of the events the stream has sent (of the model only)

vars == <<now, trace, parent, rows, task, cursor, sent>>

TraceRows == [root : Spans, until : Int, kept : Int]

\* What a run's constants must satisfy.
ProjectionAssumption ==
    /\ \A p \in Projections : p.root \in Spans /\ p.events \in Seq([id : Events, seq : Nat])
    /\ BrowserSpans \subseteq Spans /\ Spans \cap {None, "absent"} = {} /\ None # "absent"
    /\ Retention \in Nat /\ None \notin TraceRows

Present == {s \in Spans : parent[s] # "absent"}
Sequences(r) == {e.seq : e \in r}
Highest(r) == IF r = {} THEN -1 ELSE CHOOSE n \in Sequences(r) : \A m \in Sequences(r) : m <= n
Ids(r) == {e.id : e \in r}
Exists == trace # None /\ now < trace.kept

Init ==
    /\ now = 0 /\ trace = None
    /\ parent = [s \in Spans |-> "absent"] /\ rows = {}
    /\ task = [p \in Projections |-> None]
    /\ cursor = -1 /\ sent = {}

-----------------------------------------------------------------------------
\* ApiTraceRecorder._record, first half: what it reads.
Load(p) ==
    /\ task[p] = None
    /\ task' = [task EXCEPT ![p] = [trace |-> trace, parent |-> parent, rows |-> rows, at |-> now]]
    /\ UNCHANGED <<now, trace, parent, rows, cursor, sent>>

\* persisted_parent_span_id: the root of a projection goes below the root of the trace.
BrokenPersistedParent(p, seen) == None
PersistedParent(p, seen) ==
    IF seen.trace # None /\ p.root # seen.trace.root THEN seen.trace.root ELSE None

\* "existing trace span topology is immutable".
SameTopology(p, seen) ==
    seen.parent[p.root] \in {"absent", PersistedParent(p, seen)}

\* The first events that fit; one whose sequence is taken goes after the last.
Chosen(p, seen) ==
    LET new == SelectSeq(p.events, LAMBDA e : e.id \notin Ids(seen.rows))
        room == MaxEvents - Cardinality(seen.rows)
    IN SubSeq(new, 1, IF room < Len(new) THEN room ELSE Len(new))
Place(placed, e) ==
    LET taken == e.seq \in Sequences(placed)
    IN placed \cup {[id |-> e.id, seq |-> IF taken THEN Highest(placed) + 1 ELSE e.seq]}
Placed(p, seen) == FoldLeft(Place, seen.rows, Chosen(p, seen)) \ seen.rows

\* _record, second half, and its commit.  It fails, and records nothing, if a row it
\* inserts is there already or the trace's row has gone.
Later(a, b) == IF a > b THEN a ELSE b
Renewed(seen) ==
    [trace EXCEPT !.until = Later(seen.trace.until, seen.at + Retention),
                  !.kept = Later(seen.trace.kept, seen.at + 2 * Retention)]
Recordable(p, seen) ==
    /\ SameTopology(p, seen)
    /\ (seen.trace = None) = (trace = None)
    /\ seen.parent[p.root] = "absent" => parent[p.root] = "absent"
    /\ Ids(Placed(p, seen)) \cap Ids(rows) = {}

Record(p) ==
    /\ task[p] \notin {None, Done}
    /\ LET seen == task[p]
       IN /\ Recordable(p, seen)
          /\ trace' = IF trace = None
                      THEN [root |-> p.root, until |-> seen.at + Retention,
                            kept |-> seen.at + 2 * Retention]
                      ELSE Renewed(seen)
          /\ parent' = IF seen.parent[p.root] = "absent"
                       THEN [parent EXCEPT ![p.root] = PersistedParent(p, seen)] ELSE parent
          /\ rows' = rows \cup Placed(p, seen)
    /\ task' = [task EXCEPT ![p] = Done]
    /\ UNCHANGED <<now, cursor, sent>>

\* "recorder failures must never affect business behavior".
Drop(p) ==
    /\ task[p] # Done
    /\ task' = [task EXCEPT ![p] = Done]
    /\ UNCHANGED <<now, trace, parent, rows, cursor, sent>>

-----------------------------------------------------------------------------
\* append_client_trace_event, under the lock.  An event of a new browser span makes
\* that span the root of the trace.
Reroot(s) ==
    IF parent[s] = "absent"
    THEN /\ parent[trace.root] # "absent"
         /\ parent' = [parent EXCEPT ![trace.root] = s, ![s] = None]
         /\ trace' = [trace EXCEPT !.root = s]
    ELSE UNCHANGED <<parent, trace>>

AppendEvent ==
    /\ Exists
    /\ \E id \in BrowserEvents \ Ids(rows) :
          /\ Cardinality(rows) < MaxEvents
          /\ rows' = rows \cup {[id |-> id, seq |-> Highest(rows) + 1]}
    /\ \/ \E s \in BrowserSpans : Reroot(s)
       \/ UNCHANGED <<parent, trace>>
    /\ UNCHANGED <<now, task, cursor, sent>>

\* get_trace_events, as the stream calls it.
Poll ==
    /\ Exists
    /\ \E e \in rows : e.seq > cursor
    /\ sent' = sent \cup {e.id : e \in {r \in rows : r.seq > cursor}}
    /\ cursor' = Highest(rows)
    /\ UNCHANGED <<now, trace, parent, rows, task>>

\* An hour outlasts the transaction of a recorder.
Tick ==
    /\ now < Horizon /\ now' = now + 1
    /\ \A p \in Projections : task[p] \in {None, Done}
    /\ UNCHANGED <<trace, parent, rows, task, cursor, sent>>

Serve == AppendEvent \/ Poll
Next == \/ \E p \in Projections : Load(p) \/ Record(p) \/ Drop(p)
        \/ Serve \/ Tick

Spec == Init /\ [][Next]_vars

-----------------------------------------------------------------------------
TypeOK ==
    /\ now \in 0 .. Horizon
    /\ trace \in TraceRows \cup {None}
    /\ parent \in [Spans -> Spans \cup {None, "absent"}]
    /\ rows \subseteq [id : Events \cup BrowserEvents, seq : Nat]

\* The spans of a trace are one tree below its root, whatever the recorders and the
\* browser add to it at the same time: the projection that a client draws, and that
\* _ordered_spans walks, reaches every span.
SpansAreOneTree ==
    trace # None =>
        /\ trace.root \in Present /\ parent[trace.root] = None
        /\ \A s \in Present \ {trace.root} : parent[s] \in Present
        /\ \A group \in (SUBSET Present) \ {{}} : \E s \in group : parent[s] \notin group

\* A client that resumes after a sequence gets every event it has not seen
\* (frontend-api.md:498-499, 504-506).
StreamMissesNothing == trace # None => \A e \in rows : e.seq <= cursor => e.id \in sent

\* "After payload retention expires, the JSON ... carries retention markers instead of
\* prior payload values" (frontend-api.md:507-509): what was hidden stays hidden.
HiddenIsKept == trace # None /\ rows # {} /\ trace.until <= now => trace'.until <= now'
HiddenStaysHidden == [][HiddenIsKept]_vars
=============================================================================
