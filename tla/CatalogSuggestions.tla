------------------------- MODULE CatalogSuggestions -------------------------
(***************************************************************************)
(* Reviewable suggestions for a product draft                              *)
(* (app/services/catalog_suggestions.py), and the AI command that makes a  *)
(* set of them (app/services/catalog_ai.py).  A set targets the draft it   *)
(* was made for; accepting suggestions of it makes a new draft revision    *)
(* and moves the set there; an edit in the structured editor supersedes    *)
(* the sets of the draft it replaces.                                      *)
(*                                                                         *)
(* One owner and one product.  A session is a request and its database     *)
(* transaction; it may end at any step (a refusal, a failed validation, a  *)
(* crash), and then its transaction leaves nothing.  Every request has a   *)
(* key of its own: the replay of a key is modelled in CatalogAuthoring.    *)
(* Drafts are numbered as they are made, so a draft's number is its        *)
(* version (draft_revision_version).  A field's value is known by what     *)
(* wrote it.                                                               *)
(***************************************************************************)
EXTENDS Naturals

CONSTANTS
    Fields,   \* the target paths of a draft
    Drafts,   \* draft numbers, from 1
    Sets,     \* suggestion set numbers, in order of creation
    Sessions, \* concurrent requests
    Commands, \* AI commands, by their idempotency key
    None

VARIABLES
    made,       \* how many drafts exist; the newest is the current one
    content,    \* content[d][f]: what wrote field f of draft d
    structured, \* whether the current draft has the v3 schema
    sets,       \* sets[i]: the row of suggestion set i with its suggestions, or None
    link,       \* the draft the workflow is linked to, or None
    command,    \* command[c]: the state of AI command c, or None
    work        \* work[s]: what session s is doing, or None

vars == <<made, content, structured, sets, link, command, work>>

Values == {<<"edit", d>> : d \in Drafts} \cup {<<"set", i>> : i \in Sets}
Choices == {"pending", "accepted", "rejected", "superseded"}
SetRow == [base : Drafts, current : Drafts,
           status : {"pending", "partially_reviewed", "reviewed", "superseded"},
           choice : [Fields -> Choices \cup {None}],
           prior : [Fields -> Values \cup {None}],
           applied : [Fields -> Drafts \cup {None}]]

\* What a run's constants must satisfy.
SuggestionAssumption ==
    /\ Drafts \subseteq Nat /\ 1 \in Drafts /\ Sets \subseteq Nat \ {0}
    /\ None \notin Nat \cup Choices \cup SetRow

Pending(x) == {f \in Fields : x.choice[f] = "pending"}
IsOpen(x) == x # None /\ x.status \in {"pending", "partially_reviewed"}
NewSet(i) == sets[i] = None /\ \A j \in Sets : j < i => sets[j] # None

Init ==
    /\ made = 1 /\ content = [d \in Drafts |-> [f \in Fields |-> <<"edit", 1>>]]
    /\ structured = FALSE
    /\ sets = [i \in Sets |-> None]
    /\ link \in {None, 1}
    /\ command = [c \in Commands |-> None]
    /\ work = [s \in Sessions |-> None]

-----------------------------------------------------------------------------
Begin(s, w) == work[s] = None /\ work' = [work EXCEPT ![s] = w]
Doing(s, op) == work[s] # None /\ work[s].op = op
Goto(s, w) == work' = [work EXCEPT ![s] = w]
End(s) == Goto(s, None)

\* A new revision; it becomes the current draft, and a workflow linked to the one
\* it replaces follows it.
Revise(values) ==
    /\ made + 1 \in Drafts
    /\ made' = made + 1
    /\ content' = [content EXCEPT ![made + 1] = values]
    /\ link' = IF link = made THEN made + 1 ELSE link

\* _supersede_other_suggestion_sets.
Superseded(x) ==
    [x EXCEPT !.status = "superseded",
              !.choice = [f \in Fields |-> IF x.choice[f] = "pending" THEN "superseded"
                                                                      ELSE x.choice[f]]]
WithOthersSuperseded(except) ==
    [i \in Sets |-> IF i \notin except /\ IsOpen(sets[i]) /\ sets[i].current = made
                    THEN Superseded(sets[i]) ELSE sets[i]]

\* An edit replaces the current draft, under a lock of it; one made from an older draft
\* is refused (see CatalogAuthoring).  create_draft_v3 supersedes the sets of the draft,
\* create_draft_v2 (for a draft that is not structured yet) does not.
Edit ==
    /\ \E f \in Fields : Revise([content[made] EXCEPT ![f] = <<"edit", made + 1>>])
    /\ \/ structured' = TRUE /\ sets' = WithOthersSuperseded({})
       \/ ~structured /\ UNCHANGED <<structured, sets>>
    /\ UNCHANGED <<command, work>>

-----------------------------------------------------------------------------
\* create_suggestion_set: checks without a lock, then one commit.
Linkable(d) == link \in {None, d}
CheckSet(s, d, w) ==
    /\ d = made /\ Linkable(d)
    /\ Goto(s, [w EXCEPT !.op = "create", !.draft = d, !.linked = link])

Creation(d, c) == [op |-> "create", draft |-> d, command |-> c, linked |-> None]

StartSet(s) ==
    /\ work[s] = None
    /\ CheckSet(s, made, Creation(made, None))
    /\ UNCHANGED <<made, content, structured, sets, link, command>>

\* The workflow row is written only if the session loaded it without a link.
CommitSet(s) ==
    /\ Doing(s, "create")
    /\ \E i \in Sets, fields \in SUBSET Fields \ {{}} :
          /\ NewSet(i)
          /\ sets' = [sets EXCEPT ![i] =
                [base |-> work[s].draft, current |-> work[s].draft, status |-> "pending",
                 choice |-> [f \in Fields |-> IF f \in fields THEN "pending" ELSE None],
                 prior |-> [f \in Fields |-> None], applied |-> [f \in Fields |-> None]]]
    /\ link' = IF work[s].linked = None THEN work[s].draft ELSE link
    /\ Goto(s, IF work[s].command = None THEN None ELSE [work[s] EXCEPT !.op = "report"])
    /\ UNCHANGED <<made, content, structured, command>>

-----------------------------------------------------------------------------
\* execute_catalog_ai_suggestion_command: the draft is checked, the command is
\* reserved and committed, the provider is called, create_suggestion_set checks the
\* draft again and commits the set, and a last commit stores the result.
Reserve(s) ==
    /\ \E c \in Commands :
          /\ command[c] = None /\ Linkable(made)
          /\ Begin(s, [Creation(made, c) EXCEPT !.op = "call"])
          /\ command' = [command EXCEPT ![c] = "processing"]
    /\ UNCHANGED <<made, content, structured, sets, link>>

Proposed(s) ==
    /\ Doing(s, "call")
    /\ CheckSet(s, work[s].draft, work[s])
    /\ UNCHANGED <<made, content, structured, sets, link, command>>

\* Also the answer of a call without suggestions, or one that moderation blocks.
Complete(s) ==
    /\ Doing(s, "report") \/ Doing(s, "call")
    /\ command' = [command EXCEPT ![work[s].command] = "completed"]
    /\ End(s)
    /\ UNCHANGED <<made, content, structured, sets, link>>

\* _record_suggestion_failure: after the provider, a conflict, or the last commit.
FailCommand(s) ==
    /\ work[s] # None /\ work[s].op \in {"call", "create", "report"} /\ work[s].command # None
    /\ command' = [command EXCEPT ![work[s].command] = "failed"]
    /\ End(s)
    /\ UNCHANGED <<made, content, structured, sets, link>>

-----------------------------------------------------------------------------
\* decide_suggestion_set: the set is read without a lock to learn its draft, the draft
\* is locked, the set is locked and read again, then both are checked.  The request
\* names the version of the newest draft its client can know.
StartDecision(s) ==
    /\ \E i \in Sets :
          /\ sets[i] # None
          /\ Begin(s, [op |-> "decide", set |-> i, seen |-> sets[i], version |-> made])
    /\ UNCHANGED <<made, content, structured, sets, link, command>>

BrokenReread(w) == w.seen
Reread(w) == sets[w.set]

BrokenIsCurrent(w, x) == x.status # "superseded" /\ w.version = made
IsCurrent(w, x) ==
    /\ x.status # "superseded"
    /\ w.seen.current = made
    /\ x.current = w.seen.current
    /\ w.version = made

Verdict(action) == CASE action = "accept" -> "accepted"
                     [] action = "reject" -> "rejected"
                     [] action = "supersede" -> "superseded"

Prior(x, f) == content[x.current][f]

Decided(x, action, chosen) ==
    LET choice == [f \in Fields |-> IF f \in chosen THEN Verdict(action) ELSE x.choice[f]]
        accepts == action = "accept"
    IN [base |-> x.base,
        current |-> IF accepts THEN made + 1 ELSE x.current,
        status |-> IF \E f \in Fields : choice[f] = "pending" THEN "partially_reviewed"
                   ELSE IF action = "supersede" THEN "superseded" ELSE "reviewed",
        choice |-> choice,
        prior |-> [f \in Fields |-> IF f \in chosen THEN Prior(x, f) ELSE x.prior[f]],
        applied |-> [f \in Fields |-> IF f \in chosen /\ accepts THEN made + 1
                                                                  ELSE x.applied[f]]]

Decide(s) ==
    /\ Doing(s, "decide")
    /\ LET w == work[s]
           x == Reread(w)
       IN /\ IsCurrent(w, x)
          /\ \E chosen \in SUBSET Pending(x) \ {{}}, action \in {"accept", "reject", "supersede"} :
                IF action = "accept"
                THEN /\ Revise([f \in Fields |-> IF f \in chosen THEN <<"set", w.set>>
                                                 ELSE content[x.current][f]])
                     /\ structured' = TRUE
                     /\ sets' = [WithOthersSuperseded({w.set}) EXCEPT ![w.set] = Decided(x, action, chosen)]
                ELSE /\ sets' = [sets EXCEPT ![w.set] = Decided(x, action, chosen)]
                     /\ UNCHANGED <<made, content, link, structured>>
    /\ End(s)
    /\ UNCHANGED command

\* A refusal, a failed validation, or a crash.
Abandon(s) ==
    /\ work[s] # None /\ End(s)
    /\ UNCHANGED <<made, content, structured, sets, link, command>>

Request(s) == StartSet(s) \/ CommitSet(s) \/ StartDecision(s) \/ Decide(s) \/ Abandon(s)
Ask(s) == Reserve(s) \/ Proposed(s) \/ Complete(s) \/ FailCommand(s)
Next == Edit \/ \E s \in Sessions : Request(s) \/ Ask(s)

Spec == Init /\ [][Next]_vars

-----------------------------------------------------------------------------
TypeOK ==
    /\ made \in Drafts /\ structured \in BOOLEAN
    /\ content \in [Drafts -> [Fields -> Values]]
    /\ sets \in [Sets -> SetRow \cup {None}]
    /\ link \in Drafts \cup {None}
    /\ command \in [Commands -> {None, "processing", "completed", "failed"}]

\* No revision loses what an earlier one holds: a field changes from one draft to the
\* next only if the edit that made the next touched it, or an accepted suggestion
\* names that draft as the one it was applied to.
RevisionKeepsOtherFields ==
    \A d \in 1 .. made - 1 : \A f \in Fields :
        \/ content[d + 1][f] = content[d][f]
        \/ content[d + 1][f] = <<"edit", d + 1>>
        \/ \E i \in Sets : /\ sets[i] # None /\ sets[i].applied[f] = d + 1
                           /\ content[d + 1][f] = <<"set", i>>

\* "Each accepted field records its prior value ... and resulting draft revision"
\* (frontend-api.md:635-637): the draft it names holds the proposed value, the one
\* before holds the prior value.
AuditIsTrue ==
    \A i \in Sets : sets[i] # None =>
        \A f \in Fields : sets[i].choice[f] = "accepted" =>
            LET d == sets[i].applied[f]
            IN /\ d \in 2 .. made
               /\ content[d][f] = <<"set", i>>
               /\ content[d - 1][f] = sets[i].prior[f]

AcceptedIsApplied == RevisionKeepsOtherFields /\ AuditIsTrue

\* A suggestion is decided once: concurrent decisions, edits and retries never change
\* a verdict.
VerdictsStand ==
    \A i \in Sets : sets[i] # None =>
       /\ sets'[i] # None
       /\ \A f \in Fields \ Pending(sets[i]) :
             /\ sets'[i].choice[f] = sets[i].choice[f]
             /\ sets'[i].prior[f] = sets[i].prior[f]
VerdictIsFinal == [][VerdictsStand]_vars
=============================================================================
