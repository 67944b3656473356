---------------------------- MODULE VoiceSessions ----------------------------
(***************************************************************************)
(* Voice in Catalog Studio: a session is created for one catalog workflow  *)
(* (app/services/catalog_realtime.py) and the tools it may call are bound  *)
(* to it by the timeline event that records it                             *)
(* (app/services/catalog_voice_tools.py).  A tool answers a question or    *)
(* stages a field suggestion, as a keyed command of CatalogSuggestions.    *)
(*                                                                         *)
(* One operator and one product; its drafts are numbered as they are made, *)
(* and the version a request must name is how many there are.  A request   *)
(* loads the workflow once and keeps what it loaded: the event it appends  *)
(* at the end is refused if another took its sequence number, and writes   *)
(* the link if it changed what it loaded.                                  *)
(***************************************************************************)
EXTENDS Naturals

CONSTANTS
    Workflows, \* catalog workflows of the operator
    Requests,  \* concurrent requests
    Keys,      \* idempotency keys of proposals
    Modes,     \* what sessions are for, of "field", "workbench", "catalog" and "draft"
    MaxDrafts, \* bound on the drafts
    MaxEvents, \* bound on the session events
    None

VARIABLES
    made,    \* how many drafts the product has
    link,    \* link[w]: the draft workflow w is linked to, or None
    overtaken, \* the requests whose workflow had an event appended since they loaded it
    clock,   \* the last timestamp taken
    events,  \* the voice session events
    expired, \* the stamps of the sessions whose credential ran out
    answers, \* answers[k]: the state of the command of key k, or None
    staged,  \* the keys of the suggestion sets that were made
    work,    \* work[x]: what request x is doing, or None
    admitted \* the newest session a tool call was let through for (history)

vars == <<made, link, overtaken, clock, events, expired, answers, staged, work, admitted>>

VoiceAssumption == MaxDrafts \in Nat /\ MaxEvents \in Nat /\ None \notin Nat

Drafts == 1 .. MaxDrafts

Init ==
    /\ made = 1 /\ link \in [Workflows -> {None, 1}] /\ overtaken = {}
    /\ clock = 0 /\ events = {} /\ expired = {}
    /\ answers = [k \in Keys |-> None] /\ staged = {}
    /\ work = [x \in Requests |-> None]
    /\ admitted = 0

commands == <<answers, staged>>
drafts == <<made, link>>
Doing(x, op) == work[x] # None /\ work[x].op = op
Goto(x, w) == work' = [work EXCEPT ![x] = w]
End(x) == Goto(x, None)

\* An event is appended to w, by request x or by someone else.
Append(w, x) ==
    overtaken' = (overtaken \cup {y \in Requests : work[y] # None /\ work[y].workflow = w}) \ {x}

-----------------------------------------------------------------------------
\* Everything else that happens to a workflow: an edit, which its links follow, a
\* suggestion set, which links its draft, and any other event.
Edit ==
    /\ made < MaxDrafts
    /\ made' = made + 1
    /\ link' = [w \in Workflows |-> IF link[w] = made THEN made + 1 ELSE link[w]]
    /\ UNCHANGED <<overtaken, clock, events, expired, commands, work, admitted>>

LinkSet(w) ==
    /\ link[w] = None
    /\ link' = [link EXCEPT ![w] = made]
    /\ UNCHANGED <<made, overtaken, clock, events, expired, commands, work, admitted>>

AppendOther(w) ==
    /\ Append(w, None)
    /\ UNCHANGED <<drafts, clock, events, expired, commands, work, admitted>>

\* The legacy draft tool, refused for a workflow linked to a v3 draft, which all drafts
\* here are, records its event; the command it then runs is one of DraftCommands.
LegacyCall(w) ==
    /\ link[w] = None
    /\ Append(w, None)
    /\ UNCHANGED <<drafts, clock, events, expired, commands, work, admitted>>

-----------------------------------------------------------------------------
\* create_session.  Without a context ("draft") it offers the one legacy draft tool; with
\* a product ("field", "workbench") the version named must be the current one and the
\* workflow linked to the draft or to none, and the link waits for the commit.
StartSession(x) ==
    /\ work[x] = None /\ clock < MaxEvents
    /\ \E w \in Workflows, mode \in Modes, d \in 1 .. made :
          LET product == mode \in {"field", "workbench"}
          IN /\ product => link[w] \in {None, d}
             /\ ~product => d = 1
             /\ Goto(x, [op |-> "call", workflow |-> w, mode |-> mode,
                         draft |-> IF product THEN d ELSE None, version |-> IF product THEN made ELSE None,
                         write |-> product /\ link[w] = None])
    /\ UNCHANGED <<drafts, overtaken, clock, events, expired, commands, admitted>>

\* The provider answers with a credential, or fails; the event is stamped, then appended.
\* Of a failure nobody looks at the context.
Provider(x) ==
    /\ Doing(x, "call") /\ clock < MaxEvents
    /\ clock' = clock + 1
    /\ LET w == work[x]
           failure == [workflow |-> w.workflow, stamp |-> clock + 1, ok |-> FALSE]
           success == [workflow |-> w.workflow, stamp |-> clock + 1, ok |-> TRUE, mode |-> w.mode,
                       draft |-> w.draft, version |-> w.version]
       IN \E event \in {failure, success} :
             Goto(x, [op |-> "record", workflow |-> w.workflow, draft |-> w.draft, write |-> w.write,
                      event |-> event])
    /\ UNCHANGED <<drafts, overtaken, events, expired, commands, admitted>>

RecordSession(x) ==
    /\ Doing(x, "record")
    /\ x \notin overtaken
    /\ Append(work[x].workflow, x)
    /\ events' = events \cup {work[x].event}
    /\ link' = IF work[x].write THEN [link EXCEPT ![work[x].workflow] = work[x].draft] ELSE link
    /\ End(x)
    /\ UNCHANGED <<made, clock, expired, commands, admitted>>

Expire ==
    /\ \E e \in events : e.ok /\ expired' = expired \cup {e.stamp}
    /\ UNCHANGED <<drafts, overtaken, clock, events, commands, work, admitted>>

-----------------------------------------------------------------------------
\* _latest_v3_session_context: the operator's newest session event, of any workflow, must
\* be the session's, and a success.  The event is known by its stamp.
BrokenIsLatest(e) == e.ok /\ \A f \in events : f.workflow = e.workflow => f.stamp <= e.stamp
IsLatest(e) == e.ok /\ \A f \in events : f.stamp <= e.stamp

\* _validated_context_draft.
IsCurrent(e) == e.draft # None => link[e.workflow] = e.draft /\ e.version = made

\* execute_catalog_voice_tool: the session is checked once, here.  "field" sessions have
\* the proposal tool, the others those that read; a legacy session has no context and none
\* of these tools.
CheckTool(x) ==
    /\ work[x] = None
    /\ \E e \in events, k \in Keys :
          /\ IsLatest(e) /\ e.stamp \notin expired /\ e.mode # "draft" /\ IsCurrent(e)
          /\ admitted' = e.stamp
          /\ Goto(x, IF e.mode = "field"
                     THEN [op |-> "propose", session |-> e.stamp, workflow |-> e.workflow,
                           key |-> k, version |-> e.version]
                     ELSE [op |-> "report", workflow |-> e.workflow])
    /\ UNCHANGED <<drafts, overtaken, clock, events, expired, commands>>

\* The suggestion command: an answered one is replayed, one that is under way or has failed
\* is refused; otherwise the key is taken, before the provider is called.
Propose(x) ==
    /\ Doing(x, "propose")
    /\ LET w == work[x]
       IN \/ /\ answers[w.key] = "completed" /\ UNCHANGED answers
             /\ Goto(x, [op |-> "report", workflow |-> w.workflow])
          \/ /\ answers[w.key] = None /\ w.version = made
             /\ answers' = [answers EXCEPT ![w.key] = "processing"]
             /\ Goto(x, [w EXCEPT !.op = "stage"])
    /\ UNCHANGED <<drafts, overtaken, clock, events, expired, staged, admitted>>

\* The provider has answered: with suggestions, which are committed as a set if the version
\* is still the one named, or with none.  The session is not looked at again.
Stage(x) ==
    /\ Doing(x, "stage")
    /\ \/ work[x].version = made /\ staged' = staged \cup {work[x].key}
       \/ UNCHANGED staged
    /\ Goto(x, [op |-> "answer", workflow |-> work[x].workflow, key |-> work[x].key])
    /\ UNCHANGED <<drafts, overtaken, clock, events, expired, answers, admitted>>

\* The command's event and its answer are one transaction, after the set's.
Answer(x) ==
    /\ Doing(x, "answer") /\ x \notin overtaken
    /\ Append(work[x].workflow, x)
    /\ answers' = [answers EXCEPT ![work[x].key] = "completed"]
    /\ Goto(x, [op |-> "report", workflow |-> work[x].workflow])
    /\ UNCHANGED <<drafts, clock, events, expired, staged, admitted>>

\* _record_suggestion_failure: what was loaded is loaded again if a transaction was open,
\* as it is but when the provider failed.  What was staged stays.
FailCommand(x) ==
    /\ \/ Doing(x, "stage") /\ (x \notin overtaken \/ work[x].version # made)
       \/ Doing(x, "answer")
    /\ Append(work[x].workflow, x)
    /\ answers' = [answers EXCEPT ![work[x].key] = "failed"]
    /\ End(x)
    /\ UNCHANGED <<drafts, clock, events, expired, staged, admitted>>

\* _record_tool_event: what was staged stays if this event is refused.
ReportTool(x) ==
    /\ Doing(x, "report") /\ x \notin overtaken
    /\ Append(work[x].workflow, x)
    /\ End(x)
    /\ UNCHANGED <<drafts, clock, events, expired, commands, admitted>>

\* A request that is refused, fails or stops.
Refuse(x) ==
    /\ work[x] # None
    /\ End(x) /\ overtaken' = overtaken \ {x}
    /\ UNCHANGED <<drafts, clock, events, expired, commands, admitted>>

Next ==
    \/ Edit \/ Expire
    \/ \E w \in Workflows : LinkSet(w) \/ AppendOther(w) \/ LegacyCall(w)
    \/ \E x \in Requests : \/ StartSession(x) \/ Provider(x) \/ RecordSession(x)
                           \/ CheckTool(x) \/ Propose(x) \/ Stage(x) \/ Answer(x)
                           \/ FailCommand(x) \/ ReportTool(x) \/ Refuse(x)

Spec == Init /\ [][Next]_vars

-----------------------------------------------------------------------------
\* "This Realtime session is no longer active": once a tool call of a session was let
\* through, no later call of an older session is, in this or another workflow, however slow
\* the creation of a session was and in whatever order the events were committed.
NoOlderSessionIsAdmitted == admitted' >= admitted
OneSessionIsAdmitted == [][NoOlderSessionIsAdmitted]_vars

\* The plainer claim, that an older session does nothing any more, is false: a call that was
\* let through calls the provider and commits its suggestion set, whatever session was
\* recorded, and let through, in between.
NoOlderSessionActs ==
    \A x \in Requests : Stage(x) /\ staged' # staged => work[x].session >= admitted
=============================================================================
