--------------------------- MODULE MCJobsAndCommands ---------------------------
(***************************************************************************)
(* One run, with fairness, for the index jobs of two workers and for an AI *)
(* draft command beside an edit, which share no step.  Each behaviour is   *)
(* one of a single part, chosen in the initial state; the variables of the *)
(* other part keep their initial values.                                   *)
(***************************************************************************)
EXTENDS IndexJobs, TLC

CONSTANTS Askers, Editors, Keys, Drafts, NewProducts, PublicProducts, MaxActs, MaxLost

VARIABLES
    part, \* the part this behaviour is of
    workflow, product, mutation, command, editor, calls, log, acts, lost

commandVars == <<workflow, product, mutation, command, editor, calls, log, acts, lost>>
allVars == <<part, vars, commandVars>>

Edited == INSTANCE DraftCommands
            WITH Commands <- Askers, MaxCrashes <- MaxLost, crashes <- lost

ASSUME CommandsAssumption == Edited!CommandAssumption

MCInit == part \in {"jobs", "edited"} /\ Init /\ Edited!Init

MCNext ==
    \/ part = "jobs" /\ Next /\ UNCHANGED <<part, commandVars>>
    \/ part = "edited" /\ Edited!Next /\ UNCHANGED <<part, vars>>

\* The fairness of the parts: that of IndexJobs!FairSpec and DraftCommands!FairSpec.
MCSpec ==
    /\ MCInit /\ [][MCNext]_allVars
    /\ \A w \in Workers :
          /\ WF_allVars(part = "jobs" /\ Work(w) /\ UNCHANGED <<part, commandVars>>)
          /\ WF_allVars(part = "jobs" /\ Restart(w) /\ UNCHANGED <<part, commandVars>>)
    /\ \A s \in Askers :
          SF_allVars(part = "edited" /\ Edited!Step(s) /\ UNCHANGED <<part, vars>>)

-----------------------------------------------------------------------------
\* A command does not move the workflow away from a draft of its product that it did not
\* start from (DraftCommands).
WorkflowKeepsDraft ==
    [][part = "edited" =>
         \A s \in Askers :
            Edited!Commit(s) /\ workflow.draft # command[s].ask.draft =>
               /\ workflow.draft # None
               /\ product[workflow.draft] # command[s].product]_allVars

\* A reserved command gets a result that replays return (DraftCommands).
CommandIsAnswered ==
    \A k \in Keys :
        part = "edited" /\ mutation[k] # None /\ mutation[k].state = "processing"
        ~> mutation[k] # None /\ mutation[k].state # "processing"
=============================================================================
