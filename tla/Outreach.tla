------------------------------ MODULE Outreach ------------------------------
(***************************************************************************)
(* One outgoing message: a customer's SMS or email                         *)
(* (app/services/communications.py), an executive strategy packet's email  *)
(* or a campaign draft (app/services/executive.py).  A request loads the   *)
(* row, checks the copy it loaded, may call the provider, and commits; no  *)
(* request locks the row, and a commit writes only the columns in which    *)
(* the copy has changed.  The Twilio smoke test is a campaign that its own *)
(* request sends.                                                          *)
(*                                                                         *)
(* The text of the message is left out.  The provider is external: a call  *)
(* that raises may have delivered or not.                                  *)
(***************************************************************************)
CONSTANTS
    Sessions, \* concurrent requests
    Raised,   \* the outcome of a call that raised
    Accepted, \* the outcome of one that did not
    None

VARIABLES
    kind,   \* what the message is
    status, \* the status column, or None before the row is there
    work,   \* work[s]: what request s is doing, or None
    calls   \* of the model only: the calls made or recorded since the message became a
            \* draft: their outcome, and their request until it records or loses it

vars == <<kind, status, work, calls>>

Kinds == {"sms", "email", "packet", "campaign"}
Outcomes == {Raised, Accepted}
Statuses == {"draft", "sent", "failed"}

\* A composition assumes it of what it instantiates the module with.
MessageAssumption ==
    /\ None \notin Sessions \cup Statuses \cup {"lost"} /\ "lost" \notin Sessions
    /\ None \notin [op : {"record"}, seen : Statuses, outcome : Outcomes]
    /\ Raised # Accepted

Init ==
    /\ kind \in Kinds /\ status = None
    /\ work = [s \in Sessions |-> None]
    /\ calls = {}

Doing(s, op) == work[s] # None /\ work[s].op = op
Goto(s, w) == work' = [work EXCEPT ![s] = w]
End(s) == Goto(s, None)

\* The column is written only if the copy has changed.
Write(seen, new) == status' = IF seen = new THEN status ELSE new

-----------------------------------------------------------------------------
\* What a request does first: it makes the row, or loads it to edit or to send.
NewDraft(s) ==
    /\ status = None /\ work[s] = None /\ status' = "draft"
    /\ UNCHANGED <<kind, calls>>
Begin(s, op) ==
    /\ status # None /\ work[s] = None
    /\ Goto(s, [op |-> op, seen |-> status])
    /\ UNCHANGED <<kind, status, calls>>
NewAndSend(s) == NewDraft(s) /\ Goto(s, [op |-> "send", seen |-> "draft"])

PrepareSms(s) == kind = "sms" /\ NewDraft(s) /\ UNCHANGED work
PrepareEmail(s) == kind = "email" /\ NewDraft(s) /\ UNCHANGED work
PreparePacket(s) == kind = "packet" /\ NewDraft(s) /\ UNCHANGED work
PrepareCampaign(s) == kind = "campaign" /\ NewDraft(s) /\ UNCHANGED work

\* send_customer_recommendations_email and twilio_smoke_test send what they prepared, on
\* the copy they have.
EmailNow(s) == kind = "email" /\ NewAndSend(s)
SmokeTest(s) == kind = "campaign" /\ NewAndSend(s)
Prepare(s) ==
    \/ PrepareSms(s) \/ PrepareEmail(s) \/ PreparePacket(s) \/ PrepareCampaign(s)
    \/ EmailNow(s) \/ SmokeTest(s)

\* An edit, or a second preparation, that the loaded copy allows.
UpdateSms(s) == kind = "sms" /\ status = "draft" /\ Begin(s, "edit")
UpdateEmail(s) == kind = "email" /\ status # "sent" /\ Begin(s, "edit")
PrepareAgain(s) == kind = "packet" /\ Begin(s, "edit")
LoadEdit(s) == UpdateSms(s) \/ UpdateEmail(s) \/ PrepareAgain(s)

Recorded == {c \in calls : c.by = None}
Owner(s, after) == {IF c.by = s THEN [c EXCEPT !.by = after] ELSE c : c \in calls}

\* Only prepare_strategy_packet_email resets the status.
BrokenCommitEdit(s) ==
    /\ Doing(s, "edit")
    /\ status' = IF kind = "packet" THEN "draft" ELSE work[s].seen
    /\ calls' = IF status # "draft" /\ status' = "draft" /\ kind = "packet"
                THEN calls \ Recorded ELSE calls
    /\ End(s)
    /\ UNCHANGED kind
CommitEdit(s) ==
    /\ Doing(s, "edit")
    /\ IF kind = "packet" THEN Write(work[s].seen, "draft") ELSE UNCHANGED status
    /\ calls' = IF status # "draft" /\ status' = "draft" THEN calls \ Recorded ELSE calls
    /\ End(s)
    /\ UNCHANGED kind

-----------------------------------------------------------------------------
\* send_customer_sms has no check; the others refuse a message that was sent.
SendSms(s) == kind = "sms" /\ Begin(s, "send")
SendEmail(s) == kind = "email" /\ status # "sent" /\ Begin(s, "send")
SendPacket(s) == kind = "packet" /\ status # "sent" /\ Begin(s, "send")
SendCampaign(s) == kind = "campaign" /\ status # "sent" /\ Begin(s, "send")
LoadSend(s) == SendSms(s) \/ SendEmail(s) \/ SendPacket(s) \/ SendCampaign(s)

Call(s) ==
    /\ Doing(s, "send")
    /\ \E o \in Outcomes :
          /\ Goto(s, [op |-> "record", seen |-> work[s].seen, outcome |-> o])
          /\ calls' = calls \cup {[outcome |-> o, by |-> s]}
    /\ UNCHANGED <<kind, status>>

StatusAfter(o) == IF o = Accepted THEN "sent" ELSE "failed"

Record(s) ==
    /\ Doing(s, "record")
    /\ Write(work[s].seen, StatusAfter(work[s].outcome))
    /\ calls' = Owner(s, None)
    /\ End(s)
    /\ UNCHANGED kind

\* A request that stops before its commit; what it has sent stays unrecorded.
Stop(s) ==
    /\ work[s] # None /\ End(s)
    /\ calls' = Owner(s, "lost")
    /\ UNCHANGED <<kind, status>>

Next == \E s \in Sessions : \/ Prepare(s) \/ LoadEdit(s) \/ CommitEdit(s)
                            \/ LoadSend(s) \/ Call(s) \/ Record(s) \/ Stop(s)

Spec == Init /\ [][Next]_vars

-----------------------------------------------------------------------------
TypeOK ==
    /\ kind \in Kinds /\ status \in Statuses \cup {None}
    /\ calls \subseteq [outcome : Outcomes, by : Sessions \cup {None, "lost"}]

\* The status tells an operator what is known of the message, whatever requests edit,
\* prepare and send it at once: a sent one was accepted by the provider and a failed
\* one was tried since it last became a draft, and of a draft no recorded delivery is
\* forgotten.
StatusIsTrue ==
    /\ status = "sent" => \E c \in calls : c.outcome = Accepted
    /\ status = "failed" => \E c \in calls : c.outcome = Raised
    /\ status = "draft" => \A c \in Recorded : c.outcome = Raised
=============================================================================
