------------------------------ MODULE MCServices ------------------------------
(***************************************************************************)
(* One run for the job queues and the services that share no step: the     *)
(* indexing of a run beside a synchronous request, the image jobs, two AI  *)
(* draft commands, the trace store, the outreach messages, the customer    *)
(* chat, the loads and the daily orders of synthetic data, and the voice   *)
(* sessions.  Each behaviour is one of a single part, chosen in the        *)
(* initial state; the variables of the other parts have no value, but that *)
(* no run is indexed.                                                      *)
(***************************************************************************)
EXTENDS IndexJobs, TLC

CONSTANTS
    Sessions, Pair,  \* concurrent requests or processes, and two of other things
    Third,           \* one more request on a message
    Reader, ImageIds, ImageVariants, ImageStale, ImageFaults, \* of the image jobs
    DraftIds, Created, Published, ActLimit, CrashLimit,      \* of the AI commands
    Projections, Spans, Events, BrowserSpans, BrowserEvents, \* of the trace
    TraceLimit, Retention, Horizon,
    Raised, Accepted,                  \* outcomes of the call that sends a message
    RequestKeys,     \* idempotency keys of chat turns and voice proposals
    Principals, Anonymous, ClientIds, ServerIds, ChatLimit,  \* of the chat
    LoadKinds, Today, OrderLimit,      \* of the loads and the daily orders
    Beside,          \* processes that write daily orders beside a load
    VoiceModes, VoiceDrafts, VoiceEvents,                    \* of the voice sessions
    Done

VARIABLES
    part, \* the part this behaviour is of
    rows, work, mutation, link, log, calls, \* like job and crashes, of several parts
    worker, stale, told, late, faults,
    workflow, product, command, editor, acts,
    now, trace, parent, task, cursor, sent,
    kind, status,
    linked, chats, holder,
    loaded, orders, metrics, known,
    made, overtaken, clock, events, expired, answers, staged, admitted

indexVars == <<content, embedding, runStatus, asking, indexer, taker>>
imageVars == <<worker, stale, told, late, faults>>
commandVars == <<workflow, product, command, editor, acts>>
traceVars == <<now, trace, parent, task, cursor, sent>>
messageVars == <<kind, status>>
chatVars == <<linked, chats, holder>>
loadVars == <<loaded, orders, metrics, known>>
voiceVars == <<made, overtaken, clock, events, expired, answers, staged, admitted>>
allVars == <<part, job, rows, work, mutation, link, log, calls, crashes,
          indexVars, imageVars, commandVars, traceVars,
          messageVars, chatVars, loadVars, voiceVars>>

Images == INSTANCE ImageJobs
            WITH Jobs <- ImageIds, Workers <- Sessions, Readers <- {Reader},
                 MaxVariants <- ImageVariants, StaleAfter <- ImageStale,
                 MaxFaults <- ImageFaults
Drafting == INSTANCE DraftCommands
              WITH Commands <- Sessions, Editors <- {}, Keys <- Pair, Drafts <- DraftIds,
                   NewProducts <- Created, PublicProducts <- Published,
                   MaxActs <- ActLimit, MaxCrashes <- CrashLimit

\* Two projections with the same root, one of them recorded without its first event, and
\* one with another.
Recorded ==
    {[root |-> "b1", events |-> <<[id |-> "w", seq |-> 1]>>],
     [root |-> "b1", events |-> <<[id |-> "x", seq |-> 0], [id |-> "y", seq |-> 1]>>],
     [root |-> "b2", events |-> <<[id |-> "z", seq |-> 0]>>]}
Traces == INSTANCE ApiTraces WITH MaxEvents <- TraceLimit

Messages == INSTANCE Outreach WITH Sessions <- Sessions \cup {Third}
Chat == INSTANCE ChatTurns
          WITH Keys <- RequestKeys, Requests <- Sessions, MaxTurns <- ChatLimit
Loads == INSTANCE SyntheticData
           WITH Runs <- Pair, Daily <- Beside, Kinds <- LoadKinds, Today <- 1, MaxOrders <- 1
DailyOrders == INSTANCE SyntheticData
           WITH Daily <- Sessions, Kinds <- {}, MaxOrders <- OrderLimit
Voice == INSTANCE VoiceSessions
           WITH Workflows <- Pair, Requests <- Sessions, Keys <- RequestKeys, Modes <- VoiceModes,
                MaxDrafts <- VoiceDrafts, MaxEvents <- VoiceEvents

ASSUME ServiceAssumption ==
    /\ Images!ImageJobAssumption /\ Drafting!CommandAssumption /\ Traces!ProjectionAssumption
    /\ Messages!MessageAssumption /\ Chat!ChatAssumption /\ Loads!DataAssumption
    /\ DailyOrders!DataAssumption /\ Voice!VoiceAssumption

\* The variables of a part that this behaviour is not of.
NoIndexing ==
    /\ content = None /\ embedding = None /\ asking = None /\ indexer = None /\ taker = None
    /\ runStatus = [r \in Runs |-> "loaded"]
NoImages ==
    /\ worker = None /\ stale = None /\ told = None /\ late = None /\ faults = None
NoCommands ==
    /\ workflow = None /\ product = None /\ command = None /\ editor = None
    /\ acts = None
NoTraces ==
    /\ now = None /\ trace = None /\ parent = None /\ task = None /\ cursor = None
    /\ sent = None
NoOutreach ==
    /\ kind = None /\ status = None
NoChat ==
    /\ linked = None /\ chats = None /\ holder = None
NoLoads ==
    /\ loaded = None /\ orders = None /\ metrics = None /\ known = None
NoVoice ==
    /\ made = None /\ overtaken = None /\ clock = None /\ events = None
    /\ expired = None /\ answers = None /\ staged = None /\ admitted = None

MCInit ==
    \/ /\ part = "indexing" /\ Init
       /\ rows = None /\ work = None /\ mutation = None /\ link = None /\ log = None
       /\ calls = None
       /\ NoImages /\ NoCommands /\ NoTraces
       /\ NoOutreach /\ NoChat /\ NoLoads /\ NoVoice
    \/ /\ part = "images" /\ Images!Init
       /\ rows = None /\ work = None /\ mutation = None /\ link = None /\ log = None
       /\ calls = None /\ crashes = None
       /\ NoIndexing /\ NoCommands /\ NoTraces
       /\ NoOutreach /\ NoChat /\ NoLoads /\ NoVoice
    \/ /\ part = "commands" /\ Drafting!Init
       /\ job = None /\ rows = None /\ work = None /\ link = None
       /\ NoIndexing /\ NoImages /\ NoTraces
       /\ NoOutreach /\ NoChat /\ NoLoads /\ NoVoice
    \/ /\ part = "traces" /\ Traces!Init
       /\ job = None /\ work = None /\ mutation = None /\ link = None /\ log = None
       /\ calls = None /\ crashes = None
       /\ NoIndexing /\ NoImages /\ NoCommands
       /\ NoOutreach /\ NoChat /\ NoLoads /\ NoVoice
    \/ /\ part = "outreach" /\ Messages!Init
       /\ job = None /\ rows = None /\ mutation = None /\ link = None /\ log = None
       /\ crashes = None
       /\ NoIndexing /\ NoImages /\ NoCommands
       /\ NoTraces /\ NoChat /\ NoLoads /\ NoVoice
    \/ /\ part = "chat" /\ Chat!Init
       /\ job = None /\ rows = None /\ mutation = None /\ link = None /\ log = None
       /\ calls = None /\ crashes = None
       /\ NoIndexing /\ NoImages /\ NoCommands
       /\ NoTraces /\ NoOutreach /\ NoLoads /\ NoVoice
    \/ /\ \/ part = "loads" /\ Loads!Init
          \/ part = "daily orders" /\ DailyOrders!Init
       /\ mutation = None /\ link = None /\ log = None /\ calls = None /\ crashes = None
       /\ NoIndexing /\ NoImages /\ NoCommands
       /\ NoTraces /\ NoOutreach /\ NoChat /\ NoVoice
    \/ /\ part = "voice" /\ Voice!Init
       /\ job = None /\ rows = None /\ mutation = None /\ log = None /\ calls = None
       /\ crashes = None
       /\ NoIndexing /\ NoImages /\ NoCommands
       /\ NoTraces /\ NoOutreach /\ NoChat /\ NoLoads

MCNext ==
    \/ /\ part = "indexing" /\ Next
       /\ UNCHANGED <<part, rows, work, mutation, link, log, calls, imageVars,
                      commandVars, traceVars, messageVars, chatVars,
                      loadVars, voiceVars>>
    \/ /\ part = "images" /\ Images!Next
       /\ UNCHANGED <<part, rows, work, mutation, link, log, calls, crashes,
                      indexVars, commandVars, traceVars, messageVars,
                      chatVars, loadVars, voiceVars>>
    \/ /\ part = "commands" /\ Drafting!Next
       /\ UNCHANGED <<part, job, rows, work, link, indexVars, imageVars,
                      traceVars, messageVars, chatVars, loadVars, voiceVars>>
    \/ /\ part = "traces" /\ Traces!Next
       /\ UNCHANGED <<part, job, work, mutation, link, log, calls, crashes,
                      indexVars, imageVars, commandVars, messageVars,
                      chatVars, loadVars, voiceVars>>
    \/ /\ part = "outreach" /\ Messages!Next
       /\ UNCHANGED <<part, job, rows, mutation, link, log, crashes, indexVars,
                      imageVars, commandVars, traceVars, chatVars,
                      loadVars, voiceVars>>
    \/ /\ part = "chat" /\ Chat!Next
       /\ UNCHANGED <<part, job, rows, mutation, link, log, calls, crashes,
                      indexVars, imageVars, commandVars, traceVars,
                      messageVars, loadVars, voiceVars>>
    \/ /\ \/ part = "loads" /\ Loads!Next
          \/ part = "daily orders" /\ DailyOrders!Next
       /\ UNCHANGED <<part, mutation, link, log, calls, crashes, indexVars,
                      imageVars, commandVars, traceVars, messageVars,
                      chatVars, voiceVars>>
    \/ /\ part = "voice" /\ Voice!Next
       /\ UNCHANGED <<part, job, rows, mutation, log, calls, crashes, indexVars,
                      imageVars, commandVars, traceVars, messageVars,
                      chatVars, loadVars>>

MCSpec == MCInit /\ [][MCNext]_allVars

Symmetry == Permutations(Sessions) \cup Permutations(Pair)

-----------------------------------------------------------------------------
\* An image job has one worker, one that was given up begins at most one more variant,
\* and its outcome is true and final but for two races (ImageJobs).
ImageJobIsTrue ==
    [][part = "images" => /\ Images!OneWorkerPerJob' /\ Images!LateWorkIsBounded'
                          /\ Images!SuccessIsComplete /\ Images!OutcomeChangesOnlyInRace]_allVars

\* The provider is called once a key, and of two commands on the same drafts one is
\* refused (DraftCommands).
CommandsExclude == part = "commands" => Drafting!CalledOnce /\ Drafting!EditIsNotLost

\* The spans of a trace are one tree (ApiTraces).
SpansAreOneTree == part = "traces" => Traces!SpansAreOneTree

\* The status of a message tells what is known of it (Outreach).
StatusIsTrue == part = "outreach" => Messages!StatusIsTrue

\* A conversation has one owner, and its turns are serial (ChatTurns).
ConversationIsWhole == part = "chat" => Chat!ConversationIsOwn /\ Chat!TurnsAreSerial

\* A cutover leaves the rows of one run, and a day the metrics of one (SyntheticData).
LoadsAreWhole ==
    /\ part = "loads" => Loads!CutoverIsWhole /\ Loads!MetricsFollowOrders
    /\ part = "daily orders" => DailyOrders!MetricsFollowOrders

\* Once a call of a voice session was let through, no later one of an older session is
\* (VoiceSessions).
OneSessionIsAdmitted == [][part = "voice" => Voice!NoOlderSessionIsAdmitted]_allVars
=============================================================================
