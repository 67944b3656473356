---------------------------- MODULE OperatorCache ----------------------------
(***************************************************************************)
(* The cache in front of the store lookups of one process                  *)
(* (services/operator_cache.py) with its two clients, which answer from it *)
(* or read the store directory and put what they found                     *)
(* (services/lookup.py resolve_store, merchandising.py peer_store_ids),    *)
(* and the reset of the synthetic tables, which commits the deletion of    *)
(* the stores and only then clears the cache; a load that adds stores      *)
(* clears nothing.  A lookup holds no lock between its miss and its put.   *)
(*                                                                         *)
(* What a lookup computes from the directory is abstracted to the version  *)
(* of the directory it read.                                               *)
(***************************************************************************)
EXTENDS Integers, FiniteSets

CONSTANTS Callers, Keys, TTL, MaxSize,
  MaxLoads,   \* bound on the changes of the directory
  Horizon,    \* bound on the clock
  None

CacheAssumption == TTL \in Nat \ {0} /\ MaxSize \in Nat \ {0}

VARIABLES
  stores,    \* version of the store directory
  resetting, \* the stores are deleted and the cache is not cleared yet
  items,     \* key |-> the entry [value, expires], for the keys in the cache
  order,     \* pairs of these keys: the second does not come before the first
  calls,     \* caller |-> None, or [key, value] of the lookup it computes
  now,
  uses,      \* history: pairs of the keys hit or put since the clear, in that order
  filled,    \* history: key |-> time of the last put
  answer     \* the last answer: [key, hit]
vars == <<stores, resetting, items, order, calls, now, uses, filled, answer>>

IsIn(key) == key \in DOMAIN items
Within(pairs, S) == {p \in pairs : p[1] \in S /\ p[2] \in S}
Without(key) == [k \in DOMAIN items \ {key} |-> items[k]]
MovedToEnd(pairs, key) ==
  {p \in pairs : p[1] # key /\ p[2] # key}
    \cup {<<k, key>> : k \in {p[1] : p \in pairs} \cup {key}}

Live(entries) == {k \in DOMAIN entries : entries[k].expires > now}
\* A plausible bug: popitem() without last=False drops the newest entries.
BrokenKept(entries, pairs) ==
  {k \in Live(entries) : Cardinality({j \in Live(entries) : j # k /\ <<j, k>> \in pairs}) < MaxSize}
\* Expired entries go first, then the least recently used.
Kept(entries, pairs) ==
  {k \in Live(entries) : Cardinality({j \in Live(entries) : j # k /\ <<k, j>> \in pairs}) < MaxSize}

Hit(c, key) ==
  /\ calls[c] = None /\ IsIn(key) /\ items[key].expires > now
  /\ order' = MovedToEnd(order, key) /\ uses' = MovedToEnd(uses, key)
  /\ answer' = [key |-> key, hit |-> TRUE]
  /\ UNCHANGED <<stores, resetting, items, calls, now, filled>>
Miss(c, key) ==
  /\ calls[c] = None
  /\ IsIn(key) => items[key].expires <= now
  /\ items' = Without(key) /\ order' = Within(order, DOMAIN items \ {key})
  /\ calls' = [calls EXCEPT ![c] = [key |-> key, value |-> stores]]
  /\ UNCHANGED <<stores, resetting, now, uses, filled, answer>>
Put(c) ==
  /\ calls[c] # None
  /\ LET key == calls[c].key
         entry == [value |-> calls[c].value, expires |-> now + TTL]
         entries == [k \in DOMAIN items \cup {key} |-> IF k = key THEN entry ELSE items[k]]
         kept == Kept(entries, MovedToEnd(order, key))
     IN /\ items' = [k \in kept |-> entries[k]]
        /\ order' = Within(MovedToEnd(order, key), kept)
        /\ uses' = MovedToEnd(uses, key)
        /\ filled' = [filled EXCEPT ![key] = now]
        /\ answer' = [key |-> key, hit |-> FALSE]
  /\ calls' = [calls EXCEPT ![c] = None]
  /\ UNCHANGED <<stores, resetting, now>>
\* No store was found: nothing is put.
Raise(c) ==
  /\ calls[c] # None /\ calls' = [calls EXCEPT ![c] = None]
  /\ UNCHANGED <<stores, resetting, items, order, now, uses, filled, answer>>

Load ==
  /\ stores < MaxLoads /\ stores' = stores + 1
  /\ UNCHANGED <<resetting, items, order, calls, now, uses, filled, answer>>
Reset ==
  /\ stores < MaxLoads /\ ~ resetting
  /\ stores' = stores + 1 /\ resetting' = TRUE
  /\ UNCHANGED <<items, order, calls, now, uses, filled, answer>>
Clear ==
  /\ resetting
  /\ resetting' = FALSE /\ items' = <<>> /\ order' = {} /\ uses' = {}
  /\ UNCHANGED <<stores, calls, now, filled, answer>>
Tick ==
  /\ now < Horizon /\ now' = now + 1
  /\ answer' = None
  /\ UNCHANGED <<stores, resetting, items, order, calls, uses, filled>>

Init ==
  /\ stores = 0 /\ resetting = FALSE /\ items = <<>> /\ order = {} /\ now = 0
  /\ calls = [c \in Callers |-> None]
  /\ uses = {} /\ filled = [k \in Keys |-> 0] /\ answer = None
Next ==
  \/ \E c \in Callers : Put(c) \/ Raise(c) \/ \E k \in Keys : Hit(c, k) \/ Miss(c, k)
  \/ Load \/ Reset \/ Clear \/ Tick
Spec == Init /\ [][Next]_vars

(***************************************************************************)
(* A late put after a clear leaves a value of the deleted stores behind,   *)
(* but no answer is older than TTL whatever the hits in between; the cache *)
(* keeps within its size and drops no live entry before a less recently    *)
(* used one.                                                               *)
(***************************************************************************)
CacheIsHonest ==
  /\ answer # None /\ answer.hit => now < filled[answer.key] + TTL
  /\ Cardinality(DOMAIN items) <= MaxSize
  /\ \A p \in uses : (IsIn(p[1]) /\ filled[p[2]] + TTL > now) => IsIn(p[2])
=============================================================================
