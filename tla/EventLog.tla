------------------------------ MODULE EventLog ------------------------------
(***************************************************************************)
(* What the workflow timeline promises its readers: a log that only grows, *)
(* numbered from 1 without gaps, holding each client event once, beside a  *)
(* current state that is always the state of the last entry.               *)
(***************************************************************************)
EXTENDS Naturals

CONSTANTS StartKey, StartState, None

VARIABLES
    log,    \* the entries, each with a key, a state and a sequence number
    length, \* the sequence number of the last entry, 0 at first
    state   \* the state readers see, None before the log starts

logVars == <<log, length, state>>

Init == log = {} /\ length = 0 /\ state = None

\* The entries of one transaction continue the numbering, under new keys.
Continues(batch, last) ==
    /\ {x.seq : x \in batch} = (length + 1) .. last
    /\ \A x, y \in batch : x.seq = y.seq \/ x.key = y.key => x = y
    /\ \A x \in batch, y \in log : x.key # y.key

Grow ==
    /\ length' > length
    /\ log \subseteq log'
    /\ Continues(log' \ log, length')
    /\ \E x \in log' \ log : x.seq = length' /\ state' = x.state

Start ==
    /\ length = 0
    /\ Grow
    /\ length' = 1
    /\ \E x \in log' : x.key = StartKey
    /\ state' = StartState

Append == length > 0 /\ Grow

Next == Start \/ Append

Spec == Init /\ [][Next]_logVars
=============================================================================
