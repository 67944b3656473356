--------------------------- MODULE ProductReviews ---------------------------
(***************************************************************************)
(* The moderation of one product review (app/services/product_reviews.py): *)
(* its import under a trusted external id, the AI assistance, and the      *)
(* merchant's decisions and responses.                                     *)
(*                                                                         *)
(* A session is a request and its transaction.  The row lock a command     *)
(* takes lasts to its commit and refreshes what the session has loaded, so *)
(* check, write and commit are one step; the lookup of the key and the     *)
(* calls made before the lock are steps of their own.  A request that      *)
(* fails, or whose process stops, leaves nothing.                          *)
(***************************************************************************)
EXTENDS Naturals, Sequences

CONSTANTS
    Bodies,     \* what an import says the review is
    Texts,      \* response texts
    Keys,       \* Idempotency-Keys
    Sessions,   \* concurrent requests
    MaxVersion, \* bound on the version of the moderation
    None

VARIABLES
    review,  \* the imported body, or None
    past,    \* past[v]: the moderation row at version v; the last one is stored
    actions, \* the action history
    record,  \* record[k]: the stored command of key k, or None
    work     \* work[s]: what session s is doing, or None

vars == <<review, past, actions, record, work>>

Decisions == {"approve", "flag", "reject"}
State(action) == CASE action = "approve" -> "approved"
                   [] action = "flag" -> "flagged"
                   [] action = "reject" -> "rejected"

\* A command, the version it expects, and the text it brings: always when it saves a
\* response, if the merchant gives one when it publishes, from the provider for "assist".
Command == [action : {"assist", "save_response", "publish_response"} \cup Decisions,
            expects : 1 .. MaxVersion, text : Texts \cup {None}]
Requests == {r \in Command : /\ r.text # None => r.action \in {"save_response", "publish_response"}
                             /\ r.action = "save_response" => r.text # None}

ReviewAssumption == MaxVersion \in Nat /\ None \notin Bodies \cup Texts \cup Command

Version == Len(past)
Moderation == past[Version]

Init ==
    /\ review = None /\ past = <<>> /\ actions = <<>>
    /\ record = [k \in Keys |-> None]
    /\ work = [s \in Sessions |-> None]

Begin(s, w) == work[s] = None /\ work' = [work EXCEPT ![s] = w]
Doing(s, op) == work[s] # None /\ work[s].op = op
End(s) == work' = [work EXCEPT ![s] = None]

-----------------------------------------------------------------------------
\* import_product_review: the lookup, then the insert; the unique external id refuses
\* the second of two.  A repeated import changes nothing.
StartImport(s) ==
    /\ review = None
    /\ \E b \in Bodies : Begin(s, [op |-> "import", body |-> b])
    /\ UNCHANGED <<review, past, actions, record>>

Import(s) ==
    /\ Doing(s, "import") /\ review = None
    /\ review' = work[s].body
    /\ past' = <<[state |-> "pending", draft |-> None, response |-> None]>>
    /\ End(s)
    /\ UNCHANGED <<actions, record>>

-----------------------------------------------------------------------------
\* A command whose key is not stored yet; a stored key is answered from its record.
\* The client can only expect a version it may have read.
Request(s) ==
    /\ review # None
    /\ \E k \in Keys, r \in Requests :
          /\ record[k] = None /\ r.expects <= Version
          /\ r.action = "assist" => r.expects = Version
          /\ Begin(s, [op |-> IF r.action = "assist" THEN "call" ELSE "apply",
                       key |-> k, request |-> r])
    /\ UNCHANGED <<review, past, actions, record>>

\* ProductReviewAIService.generate: moderation and the proposal, with a draft or without.
Propose(s) ==
    /\ Doing(s, "call")
    /\ \E t \in Texts \cup {None} :
          work' = [work EXCEPT ![s] = [@ EXCEPT !.op = "apply", !.request.text = t]]
    /\ UNCHANGED <<review, past, actions, record>>

Response(m, r) == IF r.text # None THEN r.text ELSE m.draft

Allowed(m, r) ==
    r.action = "publish_response" => m.state = "approved" /\ Response(m, r) # None

Applied(m, r) ==
    [state |-> IF r.action \in Decisions THEN State(r.action) ELSE m.state,
     draft |-> IF r.action \in Decisions THEN m.draft ELSE Response(m, r),
     response |-> IF r.action = "publish_response" THEN Response(m, r) ELSE m.response]

\* The check that the lock makes final.
BrokenIsExpected(r) == r.expects <= Version
IsExpected(r) == r.expects = Version

RecordAction(k, r) ==
    actions' = Append(actions, [key |-> k, request |-> r, results |-> Version + 1])

\* The action of assist_product_review and of decide_product_review, and its commit
\* with the record of the key.  A key stored meanwhile fails the commit.
Apply(s) ==
    /\ Doing(s, "apply") /\ Version < MaxVersion
    /\ LET k == work[s].key
           r == work[s].request
       IN /\ IsExpected(r) /\ Allowed(Moderation, r)
          /\ record[k] = None
          /\ past' = Append(past, Applied(Moderation, r))
          /\ RecordAction(k, r)
          /\ record' = [record EXCEPT ![k] = r]
    /\ End(s)
    /\ UNCHANGED review

\* A refusal, a provider failure, a moderation block, a crash.
Refuse(s) ==
    /\ work[s] # None /\ End(s)
    /\ UNCHANGED <<review, past, actions, record>>

Next == \E s \in Sessions : \/ StartImport(s) \/ Import(s) \/ Request(s)
                            \/ Propose(s) \/ Apply(s) \/ Refuse(s)

Spec == Init /\ [][Next]_vars

-----------------------------------------------------------------------------
TypeOK ==
    /\ review \in Bodies \cup {None} /\ Version \in 0 .. MaxVersion
    /\ record \in [Keys -> Command \cup {None}]

\* "append-only merchant action history" (frontend-api.md:644-668): the actions are a
\* chain, each of a key of its own, and each was made on the version its actor named.
HistoryIsAChain ==
    /\ review # None => Len(actions) = Version - 1
    /\ \A i \in 1 .. Len(actions) :
          /\ actions[i].request.expects = i /\ actions[i].results = i + 1
          /\ record[actions[i].key] = actions[i].request

\* A response is public only with an approval before it, and a request that sends no
\* text publishes the draft its actor saw: no assistance, save or decision that comes
\* in between, nor a late proposal of the provider, changes what is published.
PublishedWasSeen ==
    \A i \in 1 .. Len(actions) :
        LET r == actions[i].request
        IN r.action = "publish_response" =>
              /\ past[i].state = "approved"
              /\ past[i + 1].response = IF r.text # None THEN r.text ELSE past[r.expects].draft

ReviewIsModerated == HistoryIsAChain /\ PublishedWasSeen
=============================================================================
