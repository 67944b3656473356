---------------------------- MODULE MerchStrategy ----------------------------
(***************************************************************************)
(* Strategy packets and their store overrides (app/services/executive.py): *)
(* an executive publishes packets for a scope of stores; a store manager   *)
(* overrides the packet in force, or goes back to it; the workspaces and   *)
(* the execution tags of recommendations read what is in force.            *)
(*                                                                         *)
(* A session is one tool call.  A save loads the override row without a    *)
(* lock, and the ORM writes only the columns whose value differs from what *)
(* was loaded: two saves of one row interleave column by column.           *)
(***************************************************************************)
EXTENDS Naturals, Sequences

CONSTANTS
    Stores,     \* store ids
    Cores,      \* the strategies an override may hold
    Sessions,   \* concurrent tool calls
    MaxPackets, \* bound on the packets published
    None

VARIABLES
    packets,   \* the published packets in order of creation, each its scope of stores
    overrides, \* overrides[p][s]: the row of packet p and store s, or None
    work,      \* work[s]: what session s is doing, or None
    last       \* last[p][s]: what the last save that committed asked for (history)

vars == <<packets, overrides, work, last>>

Ids == 1 .. MaxPackets
Rows == [status : {"active", "inactive"}, core : Cores]
StrategyAssumption ==
    MaxPackets \in Nat /\ "packet" \notin Cores /\ None \notin Nat /\ None \notin Cores \cup Rows

Packets == DOMAIN packets

Init ==
    /\ packets = <<>>
    /\ overrides = [p \in Ids |-> [s \in Stores |-> None]]
    /\ work = [x \in Sessions |-> None]
    /\ last = [p \in Ids |-> [s \in Stores |-> None]]

-----------------------------------------------------------------------------
\* publish_strategy_packet, of any scenario the caller sends, whether or not it passed
\* the guardrails; a packet without a scope covers every store.
Publish ==
    /\ Len(packets) < MaxPackets
    /\ \E scope \in SUBSET Stores : packets' = Append(packets, scope)
    /\ UNCHANGED <<overrides, work, last>>

Covers(p, s) == packets[p] = {} \/ s \in packets[p]

\* active_strategy_packet_for_store: the newest that covers the store.
InForce(s) ==
    LET covering == {p \in Packets : Covers(p, s)}
    IN IF covering = {} THEN None ELSE CHOOSE p \in covering : \A q \in covering : q <= p

\* get_effective_merch_strategy: the override if it is active, or the packet; of the
\* packet in force for a caller that names none.
Effective(p, s) ==
    LET row == overrides[p][s]
    IN IF row # None /\ row.status = "active" THEN row.core ELSE "packet"
Followed(s) == IF InForce(s) = None THEN None ELSE Effective(InForce(s), s)

-----------------------------------------------------------------------------
\* save_merch_strategy_override: of any packet and any store, whatever the scope.
LoadSave(x) ==
    /\ work[x] = None
    /\ \E p \in Packets, s \in Stores, ask \in Cores \cup {"packet"} :
          work' = [work EXCEPT ![x] =
                      [packet |-> p, store |-> s, ask |-> ask, row |-> overrides[p][s]]]
    /\ UNCHANGED <<packets, overrides, last>>

\* What a commit leaves in a row, when the session loaded `was` and wants `row`.
Merged(stored, was, row) ==
    [status |-> IF row.status # was.status THEN row.status ELSE stored.status,
     core |-> IF row.core # was.core THEN row.core ELSE stored.core]

\* A plausible bug: a save over a row that is inactive does not make it active again.
BrokenWanted(w) ==
    [status |-> IF w.ask = "packet" THEN "inactive"
                ELSE IF w.row = None THEN "active" ELSE w.row.status,
     core |-> IF w.ask = "packet" THEN w.row.core ELSE w.ask]
Wanted(w) == IF w.ask = "packet" THEN [w.row EXCEPT !.status = "inactive"]
             ELSE [status |-> "active", core |-> w.ask]

\* A new row, unless the store has one by then (uq_merch_strategy_override_packet_store);
\* going back to the packet makes none.
CommitSave(x) ==
    /\ work[x] # None
    /\ LET w == work[x]
           stored == overrides[w.packet][w.store]
       IN /\ w.row = None /\ w.ask # "packet" => stored = None
          /\ IF w.row = None /\ w.ask = "packet" THEN UNCHANGED <<overrides, last>>
             ELSE /\ overrides' = [overrides EXCEPT ![w.packet][w.store] =
                                      IF w.row = None THEN Wanted(w)
                                      ELSE Merged(stored, w.row, Wanted(w))]
                  /\ last' = [last EXCEPT ![w.packet][w.store] = w.ask]
    /\ work' = [work EXCEPT ![x] = None]
    /\ UNCHANGED packets

\* The conflict above, an error, or a process that stops.
FailSave(x) ==
    /\ work[x] # None
    /\ work' = [work EXCEPT ![x] = None]
    /\ UNCHANGED <<packets, overrides, last>>

Next == Publish \/ \E x \in Sessions : LoadSave(x) \/ CommitSave(x) \/ FailSave(x)

Spec == Init /\ [][Next]_vars

-----------------------------------------------------------------------------
(* apply_execution_tags_for_store, for one recommended product.  Margins are in
   percent. *)
Items == [focus : BOOLEAN, brand : BOOLEAN, brands : BOOLEAN,
          margin : {0, 34, 36, 40, 44, 46, 100}]
Floors == {0, 40, 96}

MarginFloor(floor, intensity) ==
    CASE intensity = "low" -> IF floor + 5 > 100 THEN 100 ELSE floor + 5
      [] intensity = "high" -> IF floor < 5 THEN 0 ELSE floor - 5
      [] OTHER -> floor

\* item.brands: the strategy prioritises brands; item.brand: this product's is one.
BrokenTags(item, floor, intensity) ==
    (IF item.focus THEN {"Focus This Week"} ELSE {})
        \cup (IF item.margin >= MarginFloor(floor, intensity) THEN {"Margin Priority"} ELSE {})
        \cup (IF intensity = "low" /\ item.brand THEN {"Campaign Assist"} ELSE {})
Tags(item, floor, intensity) ==
    LET brand == item.brand /\ item.brands
        focus == item.focus \/ (intensity = "high" /\ brand)
        margin == item.margin >= MarginFloor(floor, intensity)
        campaign == CASE intensity = "low" -> focus /\ (item.brands => brand)
                      [] intensity = "high" -> focus \/ brand \/ margin
                      [] OTHER -> focus \/ brand
    IN (IF focus THEN {"Focus This Week"} ELSE {})
           \cup (IF margin THEN {"Margin Priority"} ELSE {})
           \cup (IF campaign THEN {"Campaign Assist"} ELSE {})

-----------------------------------------------------------------------------
\* A higher tag intensity takes no tag away from a product
\* ("strategy_tag_intensity_changes_tag_coverage", tests/test_operator_workflows.py).
TagsGrowWithIntensity ==
    \A item \in Items, floor \in Floors :
        /\ Tags(item, floor, "low") \subseteq Tags(item, floor, "medium")
        /\ Tags(item, floor, "medium") \subseteq Tags(item, floor, "high")

\* A save that no other save has overtaken is in force when it has committed: the store
\* follows what was asked, an override or the packet again, whatever the row went
\* through before.
SaveIsInForce ==
    \A x \in Sessions, p \in Packets, s \in Stores :
        /\ CommitSave(x) /\ work[x].packet = p /\ work[x].store = s
        /\ overrides[p][s] = work[x].row /\ InForce(s) = p
        => Followed(s)' = work[x].ask

\* Two saves that overlap can break it, for they write column by column.
\* An override that was saved is in force until another save of it ("persists and hydrates
\* effective strategy", tests/test_operator_workflows.py), and a store that went back to
\* the packet follows the packet.
OverridePersists ==
    \A p \in Packets, s \in Stores : last[p][s] # None => Effective(p, s) = last[p][s]
=============================================================================
