------------------------------ MODULE ChatTurns ------------------------------
(***************************************************************************)
(* Turns of the storefront chat (app/services/chat/orchestrator.py): whose *)
(* conversation a request enters, the replay of a request that was already *)
(* answered, and the gate before a tool that reads customer data.          *)
(*                                                                         *)
(* A request is one transaction with one commit.  It finds its             *)
(* conversation and a completed turn to replay before it holds anything;   *)
(* the row of the conversation is inserted at once, or updated when the    *)
(* turn is, and from then the request holds it until it commits or fails.  *)
(*                                                                         *)
(* The message and the answer are left out, but for whether the answer     *)
(* holds customer data.  The language model, which routes the turn, is     *)
(* external: it may choose any tool and ask for or forget authentication.  *)
(***************************************************************************)
EXTENDS Naturals, Sequences, FiniteSetsExt

CONSTANTS
    Principals, \* the signed-in users
    Anonymous,  \* a request with no token
    ClientIds,  \* conversation ids a client may bring
    ServerIds,  \* those the server generates
    Keys,       \* client_request_id
    Requests,   \* concurrent requests
    MaxTurns,   \* bound on the turns of all conversations
    None

VARIABLES
    linked,  \* the principals that resolve to a customer
    chats,   \* chats[c]: the owner and the completed turns, or None
    holder,  \* holder[c]: the request that holds the row of c, or None
    work     \* work[r]: what request r is doing, or None

vars == <<linked, chats, holder, work>>

Ids == ClientIds \cup ServerIds
Identities == Principals \cup {Anonymous}
Turn == [key : Keys \cup {None}, by : Identities, private : BOOLEAN, seen : Nat]
Chats == [owner : Identities, turns : Seq(Turn)]

\* One tool of each class: CHAT_TOOL_CAPABILITIES gives the first kind a public
\* capability, the second a "shopper.account" one, the third "shopper.chat.turn".
ChatTools == {"semantic_catalog_search", "customer_summary", "chat_response"}
AuthRequiredTools == {"customer_summary"}
StrandsPublicTools == {"semantic_catalog_search"}

\* A composition assumes it of what it instantiates the module with.
ChatAssumption == None \notin Requests \cup Chats

Init ==
    /\ linked \in SUBSET Principals
    /\ chats = [c \in Ids |-> None]
    /\ holder = [c \in Ids |-> None]
    /\ work = [r \in Requests |-> None]

Doing(r, op) == work[r] # None /\ work[r].op = op
Goto(r, w) == work' = [work EXCEPT ![r] = w]
Release(r) == holder' = [c \in Ids |-> IF holder[c] = r THEN None ELSE holder[c]]

Turns(c) == IF chats[c] = None THEN <<>> ELSE chats[c].turns

\* A completed turn of conversation c for a key.
Completed(c, key) == {i \in 1 .. Len(Turns(c)) : key # None /\ Turns(c)[i].key = key}

-----------------------------------------------------------------------------
\* _session_matches_identity
BrokenMatches(c, who) == chats[c].owner \in {who, Anonymous}
Matches(c, who) == chats[c].owner = who

Unused == {c \in ServerIds : chats[c] = None /\ \A r \in Requests : work[r] # None => work[r].chat # c}

\* _persist_session: the conversation the client names, a new one of that id if there
\* is none, and one of a new id if it is another's or the client names none.
Conversations(named, who) ==
    IF named # None /\ (chats[named] = None \/ Matches(named, who)) THEN {named} ELSE Unused

\* The identity and the conversation of a request, as it loads them.
Load(r) ==
    /\ work[r] = None
    /\ \E who \in Identities, key \in Keys \cup {None},
          named \in ClientIds \cup {c \in ServerIds : chats[c] # None} \cup {None} :
          \E c \in Conversations(named, who) :
              Goto(r, [op |-> IF chats[c] = None THEN "insert" ELSE "find", who |-> who,
                       customer |-> who \in linked, chat |-> c, key |-> key,
                       seen |-> 0, private |-> FALSE])
    /\ UNCHANGED <<linked, chats, holder>>

\* The insert of a conversation waits for another of the same id, and fails if that
\* one is committed.
Insert(r) ==
    /\ Doing(r, "insert")
    /\ LET c == work[r].chat
       IN /\ holder[c] = None /\ chats[c] = None
          /\ holder' = [holder EXCEPT ![c] = r]
    /\ Goto(r, [work[r] EXCEPT !.op = "find"])
    /\ UNCHANGED <<linked, chats>>

\* A completed turn is replayed, and the request ends without a commit.
Replay(r) ==
    /\ Doing(r, "find")
    /\ Completed(work[r].chat, work[r].key) # {}
    /\ Goto(r, None) /\ Release(r)
    /\ UNCHANGED <<linked, chats>>

Miss(r) ==
    /\ Doing(r, "find")
    /\ Completed(work[r].chat, work[r].key) = {}
    /\ Goto(r, [work[r] EXCEPT !.op = "turn"])
    /\ UNCHANGED <<linked, chats, holder>>

\* The unique key of a turn within its conversation.
IsFree(c, key) == Completed(c, key) = {}

\* _create_chat_turn, with the update of the conversation in the same flush, and
\* _recent_history.
CreateTurn(r) ==
    /\ Doing(r, "turn")
    /\ LET c == work[r].chat
       IN /\ holder[c] \in {None, r} /\ IsFree(c, work[r].key)
          /\ holder' = [holder EXCEPT ![c] = r]
          /\ Goto(r, [work[r] EXCEPT !.op = "route", !.seen = Len(Turns(c))])
    /\ UNCHANGED <<linked, chats>>

-----------------------------------------------------------------------------
\* What safety, the router and the language model make of a message: no tool when the
\* message is blocked.
Routes == [tool : ChatTools, auth : BOOLEAN, followUp : BOOLEAN]

RequiresAuth(route) == route.auth \/ route.tool \in AuthRequiredTools

\* The capability the turn runs under, and the personas of a capability.
IsPrivate(route, customer) ==
    route.tool \in AuthRequiredTools /\ ~(RequiresAuth(route) /\ ~customer)

\* execute_capability refuses; the request fails.
Denied(route, customer) == IsPrivate(route, customer) /\ ~customer

\* _execute_selected_tool_response: a follow-up question, a blocked answer, or the tool.
ReadsCustomer(route, customer) ==
    /\ ~route.followUp /\ route.tool \in AuthRequiredTools
    /\ RequiresAuth(route) => customer

ToolRun(route, customer) ==
    [op |-> IF Denied(route, customer) THEN "denied" ELSE "commit",
     private |-> ReadsCustomer(route, customer)]

\* evaluate_chat_safety: the refusal of an intercepted message answers the turn.
Intercepted == [op |-> "commit", private |-> FALSE]

\* run_storefront_shopping_agent, without a gate: the agent has the public tools, and when
\* it fails the public tool it was asked for runs in its place.
Shopped(tool) == [op |-> "commit", private |-> tool \in AuthRequiredTools]

Route(r) ==
    /\ Doing(r, "route")
    /\ \E outcome \in {Intercepted} \cup {Shopped(tool) : tool \in StrandsPublicTools}
                          \cup {ToolRun(route, work[r].customer) : route \in Routes} :
          Goto(r, [work[r] EXCEPT !.op = outcome.op, !.private = outcome.private])
    /\ UNCHANGED <<linked, chats, holder>>

\* The messages, the tool calls, the turn and the conversation are committed together.
Commit(r) ==
    /\ Doing(r, "commit")
    /\ MapThenSumSet(LAMBDA c : Len(Turns(c)), Ids) < MaxTurns
    /\ LET w == work[r]
           turn == [key |-> w.key, by |-> w.who, private |-> w.private, seen |-> w.seen]
           owner == IF w.who # Anonymous \/ chats[w.chat] = None THEN w.who ELSE chats[w.chat].owner
       IN chats' = [chats EXCEPT ![w.chat] =
                      [owner |-> owner, turns |-> Append(Turns(w.chat), turn)]]
    /\ Goto(r, None) /\ Release(r)
    /\ UNCHANGED linked

\* A conflict, a denied tool, a failure of the tool or of the process.
Fail(r) ==
    /\ work[r] # None
    /\ Goto(r, None) /\ Release(r)
    /\ UNCHANGED <<linked, chats>>

\* resolve_chat_identity: a principal whose email matches one customer is linked.
Link ==
    /\ \E p \in Principals \ linked : linked' = linked \cup {p}
    /\ UNCHANGED <<chats, holder, work>>

Next ==
    \/ Link
    \/ \E r \in Requests : \/ Load(r) \/ Insert(r) \/ Replay(r) \/ Miss(r)
                           \/ CreateTurn(r) \/ Route(r) \/ Commit(r) \/ Fail(r)

Spec == Init /\ [][Next]_vars

-----------------------------------------------------------------------------
TypeOK ==
    /\ linked \subseteq Principals
    /\ chats \in [Ids -> Chats \cup {None}]
    /\ holder \in [Ids -> Requests \cup {None}]

\* A conversation has one owner through anonymous use, sign-in and races for its id: its
\* turns are the owner's, and so is every request that may replay one or is given them
\* as its history.  Customer data is read only for a customer, and no request
\* that the gate let through is denied by execute_capability.
ConversationIsOwn ==
    /\ \A c \in Ids : \A i \in 1 .. Len(Turns(c)) :
          LET turn == Turns(c)[i]
          IN /\ turn.by = chats[c].owner
             /\ turn.private => turn.by \in linked
    /\ \A r \in Requests :
          /\ work[r] # None /\ work[r].op # "insert" /\ chats[work[r].chat] # None
                => chats[work[r].chat].owner = work[r].who
          /\ ~Doing(r, "denied")

\* The turns of a conversation are serial: each was given all those before it as its
\* history, a request id is answered by one turn, however often and how fast it is retried.
TurnsAreSerial ==
    /\ \A c \in Ids : \A i \in 1 .. Len(Turns(c)) :
          /\ Turns(c)[i].seen = i - 1
          /\ \A j \in Completed(c, Turns(c)[i].key) : j = i
=============================================================================
