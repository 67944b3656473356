----------------------- MODULE CatalogWorkflowProofs -----------------------
(***************************************************************************)
(* Proofs about CatalogWorkflow: types, the inductive invariant behind the *)
(* dense timeline, and the implementation of EventLog.                     *)
(***************************************************************************)
EXTENDS CatalogWorkflow, TLAPS

-----------------------------------------------------------------------------
(* Types *)

\* The lock holder has flushed from a row it holds, and the lock is only ever
\* taken on a workflow that exists.
HolderHasRow ==
    /\ lock # None => wf \in Rows /\ shadow \in Rows /\ row[lock] \in Rows
    /\ \A s \in Sessions : row[s] # None => wf \in Rows

TypeInv == TypeOK /\ HolderHasRow

\* The initial state is well typed.
LEMMA InitType == Init => TypeInv
BY DEF Init, TypeInv, TypeOK, HolderHasRow, Outcomes

\* The columns an append assigns keep the type of the row.
LEMMA AdvanceType ==
    ASSUME NEW r \in Rows, NEW i \in Inputs PROVE Advance(r, i) \in Rows
<1>1. r.next + 1 \in Nat \ {0}
  BY DEF Rows
<1> QED BY <1>1 DEF Rows, Inputs, Advance, AllStates

\* A flush mixes columns of well-typed rows.
LEMMA FlushType ==
    ASSUME NEW r \in Rows, NEW old \in Rows, NEW new \in Rows
    PROVE  Flush(r, old, new) \in Rows
BY DEF Rows, Flush

\* An edit links a draft revision.
LEMMA LinkedType ==
    ASSUME NEW r \in Rows, NEW d \in Drafts PROVE Linked(r, d) \in Rows
BY DEF Rows, Linked

\* The row and the event start_catalog_workflow inserts.
LEMMA NewRowType == ASSUME NEW r \in Requests PROVE NewRow(r) \in Rows
BY DEF Rows, NewRow, AllStates

\* The event start_catalog_workflow inserts is an event of the model.
LEMMA FirstEntryType == FirstEntry \in Entries
BY DEF FirstEntry, Entries, AllKeys, AllStates

\* The event built from a well-typed row.
LEMMA EntryType ==
    ASSUME NEW s \in Sessions, row[s] \in Rows, NEW i \in Inputs
    PROVE  EntryFor(s, i) \in Entries
BY DEF EntryFor, Entries, Inputs, Rows, AllKeys, AllStates

\* Every step keeps every variable in its type, one case per action.
LEMMA NextType == TypeInv /\ [Next]_vars => TypeInv'
<1> SUFFICES ASSUME TypeInv, [Next]_vars PROVE TypeInv'
  OBVIOUS
<1> USE NoneAssumption DEF TypeInv, TypeOK, HolderHasRow
<1>1. ASSUME NEW s \in Sessions, NEW r \in Requests, StartLookup(s, r) PROVE TypeInv'
  BY <1>1 DEF StartLookup, StartReplay, Outcomes
<1>2. ASSUME NEW s \in Sessions, StartInsert(s) PROVE TypeInv'
  <2>1. starting[s] \in Requests
    BY <1>2 DEF StartInsert
  <2>2. events' \subseteq Events
    <3>1. Unexpired(FirstEntry) \in Events
      BY FirstEntryType DEF Events, Unexpired, Scrubbed
    <3>2. events' = events \/ events' = {Unexpired(FirstEntry)}
      BY <1>2 DEF StartInsert
    <3> QED BY <3>1, <3>2
  <2>3. /\ wf' \in Rows \cup {None}
        /\ wf # None => wf' = wf
        /\ acked' \subseteq Entries
    BY <1>2, <2>1, FirstEntryType, NewRowType DEF StartInsert
  <2>4. outcome' \in [Sessions -> Outcomes]
    BY <1>2 DEF StartInsert, StartReplay, Outcomes
  <2> QED BY <1>2, <2>2, <2>3, <2>4 DEF StartInsert
<1>3. ASSUME NEW s \in Sessions, LoadWorkflow(s) PROVE TypeInv'
  BY <1>3 DEF LoadWorkflow
<1>4. ASSUME NEW s \in Sessions, LockWorkflow(s) PROVE TypeInv'
  BY <1>4 DEF LockWorkflow, Outcomes
<1>5. ASSUME NEW s \in Sessions, NEW i \in Inputs, ReplayEvent(s, i) PROVE TypeInv'
  <2>1. Visible \subseteq Entries
    BY DEF Visible, Stored, Events
  <2>2. acked' \subseteq Entries
    BY <1>5, <2>1 DEF ReplayEvent
  <2> QED BY <1>5, <2>2 DEF ReplayEvent, Outcomes
<1>6. ASSUME NEW s \in Sessions, NEW h \in Outcomes, Abandon(s, h) PROVE TypeInv'
  BY <1>6 DEF Abandon
<1>7. ASSUME NEW s \in Sessions, NEW i \in Inputs, AppendEvent(s, i) PROVE TypeInv'
  <2>1. row[s] \in Rows /\ shadow \in Rows
    BY <1>7 DEF AppendEvent
  <2>2. EntryFor(s, i) \in Entries
    BY <2>1, EntryType
  <2>3. Advance(row[s], i) \in Rows
    BY <2>1, AdvanceType
  <2>4. Flush(shadow, row[s], Advance(row[s], i)) \in Rows
    BY <2>1, <2>3, FlushType
  <2> QED BY <1>7, <2>2, <2>3, <2>4 DEF AppendEvent
<1>8. ASSUME NEW s \in Sessions, Commit(s) PROVE TypeInv'
  <2>1. events' \subseteq Events
    <3>1. ASSUME NEW x \in pending PROVE Unexpired(x) \in Events
      BY DEF Events, Unexpired
    <3>2. events' = events \cup {Unexpired(x) : x \in pending}
      BY <1>8 DEF Commit
    <3> QED BY <3>1, <3>2
  <2> QED BY <1>8, <2>1 DEF Commit, Outcomes
<1>9. ASSUME NEW s \in Sessions, Forget(s) PROVE TypeInv'
  BY <1>9 DEF Forget
<1>10. ASSUME NEW s \in Sessions, NEW d \in Drafts, LinkDraft(s, d) PROVE TypeInv'
  <2>1. row[s] \in Rows /\ wf \in Rows
    BY <1>10 DEF LinkDraft
  <2>2. Linked(row[s], d) \in Rows
    BY <2>1, LinkedType
  <2>3. Flush(wf, row[s], Linked(row[s], d)) \in Rows
    BY <2>1, <2>2, FlushType
  <2> QED BY <1>10, <2>2, <2>3 DEF LinkDraft
<1>11. ASSUME ScrubPayloads PROVE TypeInv'
  <2>1. ASSUME NEW e \in Events PROVE Scrubbed(e) \in Events
    BY DEF Events, Unexpired, Scrubbed
  <2>2. events' \subseteq Events
    BY <1>11, <2>1 DEF ScrubPayloads
  <2> QED BY <1>11, <2>2 DEF ScrubPayloads
<1>12. CASE UNCHANGED vars
  BY <1>12 DEF vars
<1>13. \A h \in {"conflict", "refused", "none"} : h \in Outcomes
  BY DEF Outcomes
<1> QED
  BY <1>1, <1>2, <1>3, <1>4, <1>5, <1>6, <1>7, <1>8, <1>9, <1>10, <1>11, <1>12, <1>13
  DEF Next, SessionStep, RejectReuse, RefuseSequence, Rollback

\* Every variable keeps its type, whatever the number of sessions, events,
\* drafts and concurrent start requests.
THEOREM TypeCorrect == Spec => []TypeOK
<1>1. TypeInv => TypeOK
  BY DEF TypeInv
<1> QED BY <1>1, InitType, NextType, PTL DEF Spec

-----------------------------------------------------------------------------
(* The dense timeline *)

\* Entries numbered 1, 2, ... up to the row's next sequence, no key twice, the
\* last one carrying the row's state.
Numbered(E, r) ==
    /\ Seqs(E) = 1 .. (r.next - 1)
    /\ \A x, y \in E : x.seq = y.seq \/ x.key = y.key => x = y
    /\ \E x \in E : x.seq = r.next - 1 /\ x.state = r.state

\* A copy of the row is never ahead of the row, and one that is as recent agrees
\* with it on the state (an edit may have changed the draft only).
NotAhead(copy, r) ==
    /\ copy.next =< r.next
    /\ copy.next = r.next => copy.state = r.state

\* The inductive invariant.  Committed events are numbered by the committed row;
\* the lock holder's view, its own flushed events included, by its flushed row;
\* and each session's copy is not ahead of the row it will be compared with.
TimelineInv ==
    /\ TypeInv
    /\ wf = None => events = {} /\ acked = {}
    /\ wf # None => Numbered(Stored, wf)
    /\ \A e, f \in events : e.entry = f.entry => e = f
    /\ acked \subseteq Stored
    /\ lock = None => pending = {}
    /\ lock # None => Numbered(Visible, shadow)
    /\ \A x \in pending : x \notin Stored
    /\ \A s \in Sessions : row[s] # None =>
          NotAhead(row[s], IF lock = s THEN shadow ELSE wf)

\* Before the workflow is started nothing is committed, flushed or remembered.
LEMMA InitTimeline == Init => TimelineInv
BY InitType DEF Init, TimelineInv, Stored

\* An append that is not refused continues the numbering: its copy of the row
\* has caught up with the lock holder's view.
LEMMA AppendNumbers ==
    ASSUME TimelineInv, NEW s \in Sessions, NEW i \in Inputs, AppendEvent(s, i)
    PROVE  /\ Numbered(Visible', shadow')
           /\ NotAhead(row'[s], shadow')
           /\ EntryFor(s, i) \notin Visible
<1> USE NoneAssumption DEF TimelineInv, TypeInv, TypeOK, HolderHasRow
<1>1. /\ lock = s /\ row[s] \in Rows /\ shadow \in Rows
      /\ Numbered(Visible, shadow) /\ NotAhead(row[s], shadow)
  BY DEF AppendEvent
<1>2. row[s].next \in Nat /\ shadow.next \in Nat /\ row[s].next > 0 /\ shadow.next > 0
  BY <1>1 DEF Rows
<1>3. row[s].next \notin 1 .. (shadow.next - 1)
  BY <1>1 DEF AppendEvent, Numbered
<1>4. row[s].next = shadow.next /\ row[s].state = shadow.state
  BY <1>1, <1>2, <1>3 DEF NotAhead
<1>5. shadow'.next = shadow.next + 1 /\ shadow'.state = i.state
  BY <1>2, <1>4 DEF AppendEvent, Flush, Advance
<1>6. row'[s].next = shadow.next + 1 /\ row'[s].state = i.state
  BY <1>2, <1>4 DEF AppendEvent, Advance
<1>7. /\ Visible' = Visible \cup {EntryFor(s, i)}
      /\ EntryFor(s, i).seq = shadow.next /\ EntryFor(s, i).key = i.key
      /\ EntryFor(s, i).state = i.state
  BY <1>4 DEF AppendEvent, Visible, Stored, EntryFor
<1>8. Seqs(Visible') = Seqs(Visible) \cup {shadow.next}
  BY <1>7 DEF Seqs
<1>9. Seqs(Visible') = 1 .. (shadow'.next - 1)
  BY <1>1, <1>2, <1>5, <1>8 DEF Numbered
<1>10. \A x \in Visible : x.seq # shadow.next /\ x.key # i.key
  BY <1>1, <1>2 DEF Numbered, Seqs, AppendEvent, NewKey
<1>11. \A x, y \in Visible' : x.seq = y.seq \/ x.key = y.key => x = y
  BY <1>1, <1>7, <1>10 DEF Numbered
<1>12. \E x \in Visible' : x.seq = shadow'.next - 1 /\ x.state = shadow'.state
  BY <1>2, <1>5, <1>7
<1> QED BY <1>2, <1>5, <1>6, <1>7, <1>9, <1>10, <1>11, <1>12 DEF Numbered, NotAhead

\* The lock holder's view only extends the committed timeline, so copies of the
\* committed row stay behind when it commits.
LEMMA CommittedIsBehind ==
    ASSUME TimelineInv, lock # None PROVE NotAhead(wf, shadow)
<1> USE DEF TimelineInv, TypeInv, TypeOK, HolderHasRow
<1>1. /\ wf \in Rows /\ shadow \in Rows
      /\ Numbered(Stored, wf) /\ Numbered(Visible, shadow)
      /\ Stored \subseteq Visible
  BY NoneAssumption DEF Visible
<1>2. wf.next \in Nat /\ shadow.next \in Nat
  BY <1>1 DEF Rows
<1>3. PICK x \in Stored : x.seq = wf.next - 1 /\ x.state = wf.state
  BY <1>1 DEF Numbered
<1>4. wf.next - 1 \in 1 .. (shadow.next - 1)
  BY <1>1, <1>3 DEF Numbered, Seqs
<1>5. wf.next =< shadow.next
  BY <1>2, <1>4
<1>6. ASSUME wf.next = shadow.next PROVE wf.state = shadow.state
  <2>1. PICK y \in Visible : y.seq = shadow.next - 1 /\ y.state = shadow.state
    BY <1>1 DEF Numbered
  <2>2. x = y
    BY <1>1, <1>3, <1>6, <2>1 DEF Numbered
  <2> QED BY <1>3, <2>1, <2>2
<1> QED BY <1>5, <1>6 DEF NotAhead

\* An order fact on copies of the row.
LEMMA NotAheadTrans ==
    ASSUME NEW a \in Rows, NEW b \in Rows, NEW c \in Rows,
           NotAhead(a, b), NotAhead(b, c)
    PROVE  NotAhead(a, c)
BY DEF NotAhead, Rows

\* The timeline invariant is kept by every step, one case per action.
LEMMA NextTimeline == TimelineInv /\ [Next]_vars => TimelineInv'
<1> SUFFICES ASSUME TimelineInv, [Next]_vars PROVE TimelineInv'
  OBVIOUS
<1>0. TypeInv /\ TypeInv'
  BY NextType DEF TimelineInv
<1> USE <1>0, NoneAssumption
<1> USE DEF TypeInv, TypeOK, HolderHasRow, TimelineInv
<1>1. ASSUME NEW s \in Sessions, NEW r \in Requests, StartLookup(s, r) PROVE TimelineInv'
  BY <1>1 DEF StartLookup, Stored, Visible
<1>2. ASSUME NEW s \in Sessions, StartInsert(s) PROVE TimelineInv'
  <2>1. CASE wf = None
    <3>1. wf' = NewRow(starting[s]) /\ wf' \in Rows
      BY <1>2, <2>1, NewRowType DEF StartInsert
    <3>2. lock = None /\ \A t \in Sessions : row[t] = None
      BY <2>1
    <3>3. Stored' = {FirstEntry} /\ acked' = {FirstEntry}
      <4>1. events' = {Unexpired(FirstEntry)} /\ acked' = acked \cup {FirstEntry}
        BY <1>2, <2>1 DEF StartInsert
      <4>2. Unexpired(FirstEntry).entry = FirstEntry
        BY DEF Unexpired, Scrubbed
      <4>3. Stored' = {FirstEntry}
        BY <4>1, <4>2 DEF Stored
      <4> QED BY <2>1, <4>1, <4>3
    <3>4. Numbered(Stored', wf')
      BY <3>1, <3>3 DEF Numbered, Seqs, NewRow, FirstEntry
    <3>5. \A e, f \in events' : e = f
      BY <1>2, <2>1 DEF StartInsert
    <3>6. pending = {} /\ pending' = {} /\ lock' = None /\ row' = row
      BY <1>2, <3>2 DEF StartInsert
    <3> QED BY <3>1, <3>2, <3>3, <3>4, <3>5, <3>6
  <2>2. CASE wf # None
    BY <1>2, <2>2 DEF StartInsert, Stored, Visible
  <2> QED BY <2>1, <2>2
<1>3. ASSUME NEW s \in Sessions, LoadWorkflow(s) PROVE TimelineInv'
  <2>1. NotAhead(wf, wf)
    BY <1>3 DEF LoadWorkflow, NotAhead, Rows
  <2> QED BY <1>3, <2>1 DEF LoadWorkflow, Stored, Visible
<1>4. ASSUME NEW s \in Sessions, LockWorkflow(s) PROVE TimelineInv'
  <2>1. NotAhead(wf, wf) /\ pending = {}
    BY <1>4 DEF LockWorkflow, NotAhead, Rows
  <2>2. Visible' = Stored /\ Stored' = Stored
    BY <1>4, <2>1 DEF LockWorkflow, Visible, Stored
  <2>3. ASSUME NEW t \in Sessions, row'[t] # None
        PROVE  NotAhead(row'[t], wf)
    BY <1>4, <2>1, <2>3 DEF LockWorkflow
  <2> QED BY <1>4, <2>1, <2>2, <2>3 DEF LockWorkflow
<1>5. ASSUME NEW s \in Sessions, NEW i \in Inputs, ReplayEvent(s, i) PROVE TimelineInv'
  BY <1>5 DEF ReplayEvent, Stored, Visible
<1>6. ASSUME NEW s \in Sessions, NEW h, lock = s, Abandon(s, h) PROVE TimelineInv'
  BY <1>6 DEF Abandon, Stored
<1>7. ASSUME NEW s \in Sessions, NEW i \in Inputs, AppendEvent(s, i) PROVE TimelineInv'
  <2>1. /\ Numbered(Visible', shadow') /\ NotAhead(row'[s], shadow')
        /\ EntryFor(s, i) \notin Visible
    BY <1>7, AppendNumbers
  <2>2. /\ Stored' = Stored /\ lock' = lock /\ lock = s /\ wf' = wf /\ acked' = acked
        /\ events' = events /\ pending' = pending \cup {EntryFor(s, i)}
        /\ \A t \in Sessions : t # s => row'[t] = row[t]
    BY <1>7 DEF AppendEvent, Stored
  <2>3. \A x \in pending' : x \notin Stored'
    BY <2>1, <2>2 DEF Visible
  <2>4. \A t \in Sessions : row'[t] # None =>
            NotAhead(row'[t], IF lock' = t THEN shadow' ELSE wf')
    BY <2>1, <2>2
  <2> QED BY <2>1, <2>2, <2>3, <2>4
<1>8. ASSUME NEW s \in Sessions, Commit(s) PROVE TimelineInv'
  <2>1. NotAhead(wf, shadow) /\ wf \in Rows /\ shadow \in Rows /\ lock = s
    BY <1>8, CommittedIsBehind DEF Commit
  <2>0. /\ events' = events \cup {Unexpired(x) : x \in pending}
        /\ \A x \in pending : Unexpired(x).entry = x
    BY <1>8 DEF Commit, Unexpired
  <2>2. Stored' = Visible
    BY <2>0 DEF Stored, Visible
  <2>3. \A e, f \in events' : e.entry = f.entry => e = f
    <3>1. \A e \in events : e.entry \in Stored
      BY DEF Stored
    <3>2. ASSUME NEW e \in events', e \notin events
          PROVE  e.entry \in pending /\ e = Unexpired(e.entry)
      BY <2>0, <3>2
    <3> QED BY <3>1, <3>2
  <2>4. acked' \subseteq Stored'
    BY <1>8, <2>2 DEF Commit, Visible
  <2>5. ASSUME NEW t \in Sessions, row'[t] # None PROVE NotAhead(row'[t], wf')
    <3>1. row'[t] = row[t] /\ row[t] \in Rows /\ wf' = shadow
      BY <1>8, <2>5 DEF Commit
    <3>2. CASE t = s
      BY <2>1, <2>5, <3>1, <3>2
    <3>3. CASE t # s
      BY <2>1, <2>5, <3>1, <3>3, NotAheadTrans
    <3> QED BY <3>2, <3>3
  <2> QED BY <1>8, <2>1, <2>2, <2>3, <2>4, <2>5 DEF Commit
<1>9. ASSUME NEW s \in Sessions, Forget(s) PROVE TimelineInv'
  BY <1>9 DEF Forget, Stored, Visible
<1>10. ASSUME NEW s \in Sessions, NEW d \in Drafts, LinkDraft(s, d) PROVE TimelineInv'
  <2>1. row[s] \in Rows /\ wf \in Rows /\ lock = None
    BY <1>10 DEF LinkDraft
  <2>2. /\ wf' = Flush(wf, row[s], Linked(row[s], d)) /\ row' = [row EXCEPT ![s] = Linked(@, d)]
        /\ Stored' = Stored /\ lock' = None /\ pending' = {} /\ acked' = acked /\ events' = events
    BY <1>10 DEF LinkDraft, Stored
  <2>3. wf'.next = wf.next /\ wf'.state = wf.state
    BY <2>1, <2>2 DEF Flush, Linked, Rows
  <2>4. Linked(row[s], d).next = row[s].next /\ Linked(row[s], d).state = row[s].state
    BY <2>1 DEF Linked, Rows
  <2>5. \A t \in Sessions : row'[t] # None => NotAhead(row'[t], wf')
    BY <2>1, <2>2, <2>3, <2>4 DEF NotAhead
  <2>6. Numbered(Stored', wf')
    BY <2>1, <2>2, <2>3 DEF Numbered
  <2>7. wf' # None
    BY <1>10, <2>1, <2>2, LinkedType, FlushType
  <2> QED BY <2>1, <2>2, <2>5, <2>6, <2>7
<1>11. ASSUME ScrubPayloads PROVE TimelineInv'
  <2>1. PICK old \in SUBSET {e \in events : ~e.expired} :
           events' = (events \ old) \cup {Scrubbed(e) : e \in old}
    BY <1>11 DEF ScrubPayloads
  <2>2. \A e \in events : Scrubbed(e).entry = e.entry
    BY DEF Unexpired, Scrubbed
  <2>3. Stored' = Stored
    <3>1. ASSUME NEW e \in events PROVE \E f \in events' : f.entry = e.entry
      BY <2>1, <2>2
    <3>2. ASSUME NEW f \in events' PROVE \E e \in events : f.entry = e.entry
      BY <2>1, <2>2
    <3> QED BY <3>1, <3>2 DEF Stored
  <2>4. \A e, f \in events' : e.entry = f.entry => e = f
    <3>1. ASSUME NEW e \in events'
          PROVE  \/ e \in events \ old
                 \/ \E g \in old : e = Scrubbed(g) /\ e.entry = g.entry
      BY <2>1, <2>2
    <3>2. old \subseteq events
      OBVIOUS
    <3> QED BY <3>1, <3>2
  <2>5. Visible' = Visible
    BY <1>11, <2>3 DEF ScrubPayloads, Visible
  <2>6. events = {} => events' = {}
    BY <2>1
  <2> QED BY <1>11, <2>3, <2>4, <2>5, <2>6 DEF ScrubPayloads
<1>12. CASE UNCHANGED vars
  BY <1>12 DEF vars, Stored, Visible
<1> QED
  BY <1>1, <1>2, <1>3, <1>4, <1>5, <1>6, <1>7, <1>8, <1>9, <1>10, <1>11, <1>12
  DEF Next, SessionStep, RejectReuse, RefuseSequence, Rollback

\* For every number of sessions and events: the committed timeline is dense and
\* free of duplicates, the row shows the last event, and what callers were
\* answered is stored.
THEOREM TimelineSafety == Spec => [](TimelineDense /\ RowIsLastEvent /\ AckedIsStored)
<1>1. TimelineInv => TimelineDense /\ RowIsLastEvent /\ AckedIsStored
  <2> SUFFICES ASSUME TimelineInv PROVE TimelineDense /\ RowIsLastEvent /\ AckedIsStored
    OBVIOUS
  <2> USE DEF TimelineInv
  <2>1. \A e \in events : e.entry \in Stored
    BY DEF Stored
  <2>2. Seqs(Stored) = IF wf = None THEN {} ELSE 1 .. (wf.next - 1)
    BY DEF Numbered, Seqs, Stored
  <2>3. \A e, f \in events :
           e.entry.seq = f.entry.seq \/ e.entry.key = f.entry.key => e = f
    BY <2>1 DEF Numbered
  <2> QED BY <2>2, <2>3 DEF TimelineDense, RowIsLastEvent, AckedIsStored, Numbered
<1> QED BY <1>1, InitTimeline, NextTimeline, PTL DEF Spec

\* For every number of sessions: neither the row nor an answer says what the
\* timeline does not.
THEOREM RowAndAnswersAreTrue == Spec => []TimelineIsShown
BY TimelineSafety, PTL DEF TimelineIsShown

\* A transaction that has flushed an event has numbered it from the newest row.
FlushedIsCurrent == pending # {} => row[lock].next = shadow.next

\* Only an append flushes an event, and it numbers it from a row that has caught up.
LEMMA NextFlushed == TimelineInv /\ FlushedIsCurrent /\ [Next]_vars => FlushedIsCurrent'
<1> SUFFICES ASSUME TimelineInv, FlushedIsCurrent, [Next]_vars PROVE FlushedIsCurrent'
  OBVIOUS
<1> USE NoneAssumption DEF FlushedIsCurrent
<1>1. ASSUME NEW s \in Sessions, NEW i \in Inputs, AppendEvent(s, i) PROVE FlushedIsCurrent'
  <2>1. Numbered(Visible', shadow') /\ NotAhead(row'[s], shadow') /\ lock' = s
    BY <1>1, AppendNumbers DEF AppendEvent
  <2>2. TypeInv'
    BY NextType DEF TimelineInv
  <2>3. /\ row[s] \in Rows /\ shadow \in Rows /\ NotAhead(row[s], shadow)
        /\ Numbered(Visible, shadow)
    BY <1>1 DEF AppendEvent, TimelineInv, TypeInv, TypeOK, HolderHasRow
  <2>4. row[s].next \notin 1 .. (shadow.next - 1)
    BY <1>1, <2>3 DEF AppendEvent, Numbered
  <2>5. row[s].next = shadow.next
    BY <2>3, <2>4 DEF NotAhead, Rows
  <2>6. row'[s].next = row[s].next + 1 /\ shadow'.next = row[s].next + 1
    BY <1>1, <2>3, <2>5 DEF AppendEvent, Flush, Advance, Rows, TimelineInv, TypeInv, TypeOK
  <2> QED BY <2>1, <2>6
<1>2. ASSUME NEW s \in Sessions, NEW h, Abandon(s, h) PROVE FlushedIsCurrent'
  BY <1>2 DEF Abandon
<1>3. ASSUME lock = None PROVE pending = {}
  BY <1>3 DEF TimelineInv
<1>4. ASSUME NEW s \in Sessions, Forget(s) PROVE FlushedIsCurrent'
  BY <1>3, <1>4 DEF Forget, TimelineInv, TypeInv, TypeOK
<1>5. ASSUME NEW s \in Sessions, LoadWorkflow(s) PROVE FlushedIsCurrent'
  BY <1>3, <1>5 DEF LoadWorkflow, TimelineInv, TypeInv, TypeOK
<1>6. ASSUME NEW s \in Sessions,
             \/ \E r \in Requests : StartLookup(s, r)
             \/ StartInsert(s) \/ LockWorkflow(s) \/ Commit(s)
             \/ \E i \in Inputs : ReplayEvent(s, i)
             \/ \E d \in Drafts : LinkDraft(s, d)
      PROVE  FlushedIsCurrent'
  BY <1>3, <1>6
  DEF StartLookup, StartInsert, LockWorkflow, Commit, ReplayEvent, LinkDraft
<1>7. CASE ScrubPayloads
  BY <1>7 DEF ScrubPayloads
<1>8. CASE UNCHANGED vars
  BY <1>8 DEF vars
<1> QED
  BY <1>1, <1>2, <1>4, <1>5, <1>6, <1>7, <1>8
  DEF Next, SessionStep, RejectReuse, RefuseSequence, Rollback

\* An append is refused only to a session whose copy of the row was overtaken by an
\* event another session has committed, whatever the number of sessions and events.
THEOREM RefusalMeansOvertaken == Spec => RefusedOnlyIfOvertaken
<1> DEFINE Overtaken == \A s \in Sessions :
                           outcome[s] # "refused" /\ outcome'[s] = "refused"
                              => row[s].next < wf.next
<1>1. Init => FlushedIsCurrent
  BY DEF Init, FlushedIsCurrent
<1>2. ASSUME TimelineInv, FlushedIsCurrent, [Next]_vars PROVE [Overtaken]_vars
  <2>1. CASE UNCHANGED vars
    BY <2>1 DEF vars
  <2>2. ASSUME NEW s \in Sessions, NEW i \in Inputs, RefuseSequence(s, i)
        PROVE  row[s].next < wf.next
    <3>1. /\ lock = s /\ row[s] \in Rows /\ shadow \in Rows /\ wf \in Rows
          /\ Numbered(Visible, shadow) /\ Numbered(Stored, wf)
          /\ row[s].next \in Seqs(Visible)
      BY <1>2, <2>2, NoneAssumption
      DEF RefuseSequence, TimelineInv, TypeInv, TypeOK, HolderHasRow
    <3>2. row[s].next \in 1 .. (shadow.next - 1)
      BY <3>1 DEF Numbered
    <3>3. pending = {}
      BY <1>2, <3>1, <3>2 DEF FlushedIsCurrent, Rows
    <3>4. row[s].next \in 1 .. (wf.next - 1)
      BY <3>1, <3>3 DEF Visible, Numbered
    <3> QED BY <3>1, <3>4 DEF Rows
  <2>3. ASSUME NEW s \in Sessions, SessionStep(s), outcome \in [Sessions -> Outcomes]
        PROVE  \/ \E i \in Inputs : RefuseSequence(s, i)
               \/ \A t \in Sessions : outcome'[t] = "refused" => outcome[t] = "refused"
    BY <2>3
    DEF SessionStep, StartLookup, StartReplay, StartInsert, LoadWorkflow, LockWorkflow,
        ReplayEvent, RejectReuse, AppendEvent, Commit, Rollback, Forget, LinkDraft, Abandon
  <2>4. ASSUME NEW s \in Sessions, NEW i \in Inputs, RefuseSequence(s, i),
               NEW t \in Sessions, t # s
        PROVE  outcome'[t] = outcome[t]
    BY <1>2, <2>4 DEF RefuseSequence, Abandon, TimelineInv, TypeInv, TypeOK
  <2>5. CASE ScrubPayloads
    BY <2>5 DEF ScrubPayloads
  <2>6. outcome \in [Sessions -> Outcomes]
    BY <1>2 DEF TimelineInv, TypeInv, TypeOK
  <2> QED BY <1>2, <2>1, <2>2, <2>3, <2>4, <2>5, <2>6 DEF Next
<1> QED
  BY <1>1, <1>2, InitTimeline, NextTimeline, NextFlushed, PTL
  DEF Spec, RefusedOnlyIfOvertaken

\* No step of any session removes or rewrites a committed event, or restores a
\* scrubbed payload.
THEOREM TimelineAppendOnly == Spec => TimelineOnlyGrows
<1> DEFINE Kept == \A e \in events : \E f \in events' :
                      f.entry = e.entry /\ (e.expired => f.expired)
<1>1. ASSUME TimelineInv, [Next]_vars PROVE [Kept]_vars
  <2>1. CASE UNCHANGED vars
    BY <2>1 DEF vars
  <2>2. ASSUME NEW s \in Sessions, SessionStep(s) PROVE events \subseteq events'
    BY <1>1, <2>2
    DEF SessionStep, StartLookup, StartInsert, LoadWorkflow, LockWorkflow, ReplayEvent,
        RejectReuse, AppendEvent, RefuseSequence, Commit, Rollback, Forget, LinkDraft,
        Abandon, TimelineInv
  <2>3. ASSUME ScrubPayloads PROVE Kept
    <3>1. PICK old \in SUBSET {e \in events : ~e.expired} :
             events' = (events \ old) \cup {Scrubbed(e) : e \in old}
      BY <2>3 DEF ScrubPayloads
    <3>2. \A e \in events : Scrubbed(e).entry = e.entry /\ Scrubbed(e).expired
      BY DEF Scrubbed
    <3> QED BY <3>1, <3>2
  <2> QED BY <1>1, <2>1, <2>2, <2>3 DEF Next
<1> QED BY <1>1, InitTimeline, NextTimeline, PTL DEF Spec, TimelineOnlyGrows

-----------------------------------------------------------------------------
(* The timeline implements the append-only log *)

\* Steps that change neither the committed row nor the entries stutter.
LEMMA LogStutter ==
    ASSUME Stored' = Stored, wf' = wf PROVE UNCHANGED Log!logVars
BY DEF Log!logVars

\* A commit that flushed events appends them to the log.
LEMMA CommitAppends ==
    ASSUME TimelineInv, TimelineInv', NEW s \in Sessions, Commit(s)
    PROVE  [Log!Next]_(Log!logVars)
<1> USE NoneAssumption DEF TimelineInv, TypeInv, TypeOK, HolderHasRow
<1>1. /\ wf \in Rows /\ shadow \in Rows /\ wf' = shadow /\ lock = s
      /\ Numbered(Stored, wf) /\ Numbered(Visible, shadow) /\ NotAhead(wf, shadow)
  BY CommittedIsBehind DEF Commit
<1>2. wf.next \in Nat /\ wf.next > 0 /\ shadow.next \in Nat
  BY <1>1 DEF Rows
<1>3. Stored' = Visible
  <2>1. /\ events' = events \cup {Unexpired(x) : x \in pending}
        /\ \A x \in pending : Unexpired(x).entry = x
    BY DEF Commit, Unexpired
  <2> QED BY <2>1 DEF Stored, Visible
<1>4. Visible \ Stored = pending
  BY DEF Visible
<1>5. wf.next > 1
  <2>1. PICK x \in Stored : x.seq = wf.next - 1
    BY <1>1 DEF Numbered
  <2>2. wf.next - 1 \in 1 .. (wf.next - 1)
    BY <1>1, <2>1 DEF Numbered, Seqs
  <2> QED BY <1>2, <2>2
<1>6. CASE pending = {}
  <2>1. Visible = Stored
    BY <1>6 DEF Visible
  <2>2. wf.next = shadow.next
    BY <1>1, <1>2, <2>1 DEF Numbered, NotAhead
  <2>3. wf.state = shadow.state
    BY <1>1, <2>2 DEF NotAhead
  <2>4. wf # None /\ wf' # None
    BY <1>1
  <2> QED BY <1>1, <1>3, <2>1, <2>2, <2>3, <2>4 DEF Log!logVars
<1>7. CASE pending # {}
  <2>1. wf.next < shadow.next
    <3>1. PICK x \in pending : TRUE
      BY <1>7
    <3>2. x \in Visible /\ x.seq \in 1 .. (shadow.next - 1)
      BY <1>1, <3>1 DEF Visible, Numbered, Seqs
    <3>3. x.seq \notin 1 .. (wf.next - 1)
      <4>1. SUFFICES ASSUME x.seq \in 1 .. (wf.next - 1) PROVE FALSE
        OBVIOUS
      <4>2. PICK y \in Stored : y.seq = x.seq
        BY <1>1, <4>1 DEF Numbered, Seqs
      <4>3. x = y
        BY <1>1, <3>2, <4>2 DEF Numbered, Visible
      <4> QED BY <3>1, <4>2, <4>3
    <3> QED BY <1>2, <3>2, <3>3
  <2>2. {x.seq : x \in pending} = wf.next .. (shadow.next - 1)
    <3>1. ASSUME NEW x \in pending PROVE x.seq \in wf.next .. (shadow.next - 1)
      <4>1. x.seq \in 1 .. (shadow.next - 1)
        BY <1>1 DEF Visible, Numbered, Seqs
      <4>2. ASSUME x.seq \in 1 .. (wf.next - 1) PROVE FALSE
        <5>1. PICK y \in Stored : y.seq = x.seq
          BY <1>1, <4>2 DEF Numbered, Seqs
        <5>2. x = y
          BY <1>1, <5>1 DEF Numbered, Visible
        <5> QED BY <5>1, <5>2
      <4> QED BY <1>2, <4>1, <4>2
    <3>2. ASSUME NEW n \in wf.next .. (shadow.next - 1) PROVE \E x \in pending : x.seq = n
      <4>1. n \in 1 .. (shadow.next - 1) /\ n \notin 1 .. (wf.next - 1)
        BY <1>2
      <4>2. PICK x \in Visible : x.seq = n
        BY <1>1, <4>1 DEF Numbered, Seqs
      <4>3. x \notin Stored
        BY <1>1, <4>1, <4>2 DEF Numbered, Seqs
      <4> QED BY <4>2, <4>3 DEF Visible
    <3> QED BY <3>1, <3>2
  <2>3. /\ \A x, y \in pending : x.seq = y.seq \/ x.key = y.key => x = y
        /\ \A x \in pending, y \in Stored : x.key # y.key
    BY <1>1 DEF Numbered, Visible
  <2>4. \E x \in pending : x.seq = shadow.next - 1 /\ x.state = shadow.state
    <3>1. PICK x \in Visible : x.seq = shadow.next - 1 /\ x.state = shadow.state
      BY <1>1 DEF Numbered
    <3>2. x.seq \notin 1 .. (wf.next - 1)
      BY <1>2, <2>1, <3>1
    <3>3. x \notin Stored
      BY <1>1, <3>2 DEF Numbered, Seqs
    <3> QED BY <3>1, <3>3 DEF Visible
  <2>5. Stored' \ Stored = pending /\ Stored \subseteq Stored'
    BY <1>3, <1>4 DEF Visible
  <2>6. wf # None /\ wf' # None
    BY <1>1
  <2>7. (wf.next - 1) + 1 = wf.next /\ shadow.next - 1 > wf.next - 1 /\ wf.next - 1 > 0
    BY <1>2, <1>5, <2>1
  <2>8. Log!Append
    BY <1>1, <2>2, <2>3, <2>4, <2>5, <2>6, <2>7 DEF Log!Append, Log!Grow, Log!Continues
  <2> QED BY <2>8 DEF Log!Next
<1> QED BY <1>6, <1>7

\* Every step of the sessions is a step of the log or is invisible to it.
LEMMA LogStep ==
    TimelineInv /\ TimelineInv' /\ [Next]_vars => [Log!Next]_(Log!logVars)
<1> SUFFICES ASSUME TimelineInv, TimelineInv', [Next]_vars
             PROVE  [Log!Next]_(Log!logVars)
  OBVIOUS
<1>1. ASSUME NEW s \in Sessions, Commit(s) PROVE [Log!Next]_(Log!logVars)
  BY <1>1, CommitAppends
<1>2. ASSUME NEW s \in Sessions, StartInsert(s) PROVE [Log!Next]_(Log!logVars)
  <2>1. CASE wf = None
    <3>1. /\ Stored = {} /\ Stored' = {FirstEntry}
          /\ wf' = NewRow(starting[s]) /\ wf' # None
      <4>1. /\ events = {} /\ wf' = NewRow(starting[s])
            /\ events' = {Unexpired(FirstEntry)}
            /\ Unexpired(FirstEntry).entry = FirstEntry
        BY <1>2, <2>1 DEF StartInsert, Unexpired, TimelineInv
      <4>2. starting[s] \in Requests
        BY <1>2 DEF StartInsert, TimelineInv, TypeInv, TypeOK
      <4>3. wf' # None
        BY <4>1, <4>2, NewRowType, NoneAssumption
      <4> QED BY <4>1, <4>3 DEF Stored
    <3>2. wf'.next - 1 = 1 /\ wf'.state = StartState
      BY <3>1 DEF NewRow
    <3>3. FirstEntry.seq = 1 /\ FirstEntry.key = StartKey /\ FirstEntry.state = StartState
      BY DEF FirstEntry
    <3>4. {x.seq : x \in {FirstEntry}} = (0 + 1) .. 1
      BY <3>3
    <3>5. Stored' \ Stored = {FirstEntry}
      BY <3>1
    <3>6. Log!Start
      BY <2>1, <3>1, <3>2, <3>3, <3>4, <3>5 DEF Log!Start, Log!Grow, Log!Continues
    <3> QED BY <3>6 DEF Log!Next
  <2>2. CASE wf # None
    <3>1. Stored' = Stored /\ wf' = wf
      BY <1>2, <2>2 DEF StartInsert, Stored
    <3> QED BY <3>1, LogStutter
  <2> QED BY <2>1, <2>2
<1>3. ASSUME NEW s \in Sessions, NEW d \in Drafts, LinkDraft(s, d)
      PROVE  [Log!Next]_(Log!logVars)
  <2>1. row[s] \in Rows /\ wf \in Rows
    BY <1>3 DEF LinkDraft, TimelineInv, TypeInv, TypeOK, HolderHasRow
  <2>2. wf' = Flush(wf, row[s], Linked(row[s], d)) /\ Stored' = Stored
    BY <1>3 DEF LinkDraft, Stored
  <2>3. wf'.next = wf.next /\ wf'.state = wf.state
    BY <2>1, <2>2 DEF Flush, Linked, Rows
  <2>4. wf # None /\ wf' # None
    BY <2>1, <2>2, LinkedType, FlushType, NoneAssumption
  <2> QED BY <2>2, <2>3, <2>4 DEF Log!logVars
<1>4. ASSUME ScrubPayloads PROVE [Log!Next]_(Log!logVars)
  <2>1. PICK old \in SUBSET {e \in events : ~e.expired} :
           events' = (events \ old) \cup {Scrubbed(e) : e \in old}
    BY <1>4 DEF ScrubPayloads
  <2>2. \A e \in events : Scrubbed(e).entry = e.entry
    BY DEF Scrubbed
  <2>3. ASSUME NEW e \in events PROVE \E f \in events' : f.entry = e.entry
    BY <2>1, <2>2
  <2>4. ASSUME NEW f \in events' PROVE \E e \in events : f.entry = e.entry
    BY <2>1, <2>2
  <2>5. Stored' = Stored
    BY <2>3, <2>4 DEF Stored
  <2> QED BY <1>4, <2>5, LogStutter DEF ScrubPayloads
<1>5. ASSUME UNCHANGED <<wf, events>> PROVE [Log!Next]_(Log!logVars)
  BY <1>5, LogStutter DEF Stored
<1> QED BY <1>1, <1>2, <1>3, <1>4, <1>5
  DEF Next, SessionStep, StartLookup, LoadWorkflow, LockWorkflow, ReplayEvent,
      RejectReuse, AppendEvent, RefuseSequence, Rollback, Forget, Abandon, vars

\* The sessions, with their locks, cached rows and rollbacks, implement the
\* append-only log: readers of the timeline cannot tell them apart.
THEOREM LogImplementation == Spec => ImplementsLog
<1>1. Init => Log!Init
  BY DEF Init, Log!Init, Stored
<1> QED BY <1>1, InitTimeline, NextTimeline, LogStep, PTL DEF Spec, ImplementsLog, Log!Spec
=============================================================================
