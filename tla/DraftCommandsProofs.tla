------------------------- MODULE DraftCommandsProofs -------------------------
(***************************************************************************)
(* Proofs about the AI draft commands beside the edits of drafts, as       *)
(* MCJobsAndCommands composes them with the index jobs: what a command may *)
(* overtake although it decides on an old copy of the workflow row.        *)
(***************************************************************************)
EXTENDS MCJobsAndCommands, Integers, Sequences, FiniteSetTheorems, TLAPS

\* The drafts of a product, and how many there are.
DraftsOf(p) == {d \in Edited!Existing : product[d] = p}
Count(p) == Cardinality(DraftsOf(p))

\* A question about a draft there is, of a version that there was.
IsAsked(q) ==
    /\ q.draft \in Edited!Existing \cup {None}
    /\ q.draft # None => q.expected <= Count(product[q.draft])

\* Every question asked is one, and a command proposes a draft of the product it was asked
\* of, or of one that has no draft when the command is about to commit.
AsksAreOfDrafts ==
    /\ workflow.draft \in Edited!Existing \cup {None}
    /\ \A k \in Keys : mutation[k] # None => IsAsked(mutation[k].ask)
    /\ \A s \in Askers :
          /\ IsAsked(command[s].ask)
          /\ command[s].pc \in {"store", "commit"} =>
                /\ command[s].product \in Edited!Products
                /\ command[s].ask.draft # None =>
                      command[s].product = product[command[s].ask.draft]
          /\ command[s].pc = "commit" /\ command[s].ask.draft = None =>
                \A d \in Edited!Existing : product[d] # command[s].product

\* The drafts that are flushed are not there yet, and no two of them are the same.
FlushedAreNew ==
    /\ \A s, t \in Askers : Edited!HoldsWorkflow(s) /\ Edited!HoldsWorkflow(t) => s = t
    /\ \A s \in Askers : command[s].new # None => Edited!HoldsWorkflow(s)
    /\ \A s \in Askers : Edited!HoldsWorkflow(s) =>
          command[s].new \in Drafts \ Edited!Existing
    /\ \A e \in Editors : editor[e] # None =>
          /\ editor[e].draft \in Edited!Existing /\ editor[e].new \in Drafts \ Edited!Existing
          /\ \A s \in Askers : command[s].new # editor[e].new
          /\ \A f \in Editors : editor[f] # None /\ editor[f].new = editor[e].new => e = f

\* A command that has validated its copy of the workflow row.
HasCopy(s) == command[s].pc \in {"reserve", "provider", "store", "commit"}

\* A copy that no event has overtaken shows the draft the workflow follows, or the
\* workflow was moved without an event: to a draft of another product, or to a newer one
\* of the product, which the command notices before it commits.
IsLevel(x) ==
    /\ x.copy.draft = x.ask.draft
    /\ x.copy.next <= workflow.next
    /\ x.ask.draft # None /\ x.copy.next = workflow.next /\ workflow.draft # x.ask.draft =>
          /\ workflow.draft # None
          /\ \/ product[workflow.draft] # product[x.ask.draft]
             \/ x.pc # "commit" /\ x.ask.expected < Count(product[x.ask.draft])
CopyIsLevel == \A s \in Askers : HasCopy(s) => IsLevel(command[s])

\* The inductive invariant.
EditInv == Edited!TypeOK /\ AsksAreOfDrafts /\ FlushedAreNew /\ CopyIsLevel

-----------------------------------------------------------------------------
(* Counting drafts *)

\* Cardinality is the same in the module of the commands.
LEMMA SameCardinality == ASSUME NEW S PROVE Edited!Cardinality(S) = Cardinality(S)
BY DEF Edited!Cardinality, Cardinality

LEMMA DraftFacts ==
    /\ IsFiniteSet(Drafts) /\ Drafts \subseteq Nat /\ 1 \in Drafts
    /\ None \notin Drafts /\ None \notin Edited!Products
    /\ None \notin Edited!Mutations /\ None \notin Edited!Edits
BY CommandsAssumption
DEF Edited!CommandAssumption, Edited!IsFiniteSet, IsFiniteSet

\* The version of a draft counts the drafts of its product.
LEMMA VersionCounts == ASSUME NEW d PROVE Edited!Version(d) = Count(product[d])
BY SameCardinality DEF Edited!Version, Count, DraftsOf

LEMMA CountIsNat == ASSUME NEW p PROVE Count(p) \in Nat
<1>1. IsFiniteSet(DraftsOf(p))
  BY DraftFacts, FS_Subset DEF DraftsOf, Edited!Existing
<1> QED BY <1>1, FS_CardinalityType DEF Count

\* A new draft adds to the versions of its product, and takes from none.
LEMMA NewDraftCounts ==
    ASSUME Edited!TypeOK, NEW d \in Drafts \ Edited!Existing, NEW p \in Edited!Products,
           product' = [product EXCEPT ![d] = p]
    PROVE  /\ Edited!Existing' = Edited!Existing \cup {d} /\ product'[d] = p
           /\ \A e \in Edited!Existing : product'[e] = product[e]
           /\ \A q : Count(q) \in Nat /\ Count(q)' \in Nat /\ Count(q) <= Count(q)'
           /\ Count(p) < Count(p)'
<1> USE DraftFacts DEF Edited!TypeOK, Edited!Existing
<1>1. /\ Edited!Existing' = Edited!Existing \cup {d} /\ product'[d] = p
      /\ \A e \in Edited!Existing : product'[e] = product[e]
  OBVIOUS
<1>2. ASSUME NEW q
      PROVE  DraftsOf(q) \subseteq DraftsOf(q)' /\ IsFiniteSet(DraftsOf(q)')
  <2>1. DraftsOf(q) \subseteq DraftsOf(q)' /\ DraftsOf(q)' \subseteq Drafts
    BY <1>1 DEF DraftsOf
  <2> QED BY <2>1, FS_Subset
<1>3. \A q : Count(q) \in Nat /\ Count(q)' \in Nat /\ Count(q) <= Count(q)'
  BY <1>2, FS_Subset, FS_CardinalityType DEF Count
<1>4. d \in DraftsOf(p)' /\ d \notin DraftsOf(p)
  BY <1>1 DEF DraftsOf
<1>5. Count(p) < Count(p)'
  <2>1. DraftsOf(p) # DraftsOf(p)'
    BY <1>4
  <2>2. Count(p) # Count(p)'
    BY <1>2, <2>1, FS_Subset DEF Count
  <2> QED BY <1>3, <2>2
<1> QED BY <1>1, <1>3, <1>5

\* While no draft is added, the counts stay.
LEMMA SameCounts ==
    ASSUME product' = product
    PROVE  /\ Edited!Existing' = Edited!Existing
           /\ \A q : Count(q)' = Count(q)
           /\ \A q : IsAsked(q)' <=> IsAsked(q)
BY DEF Count, DraftsOf, Edited!Existing, IsAsked

\* A question stays one when a draft is added.
LEMMA AskedStays ==
    ASSUME Edited!TypeOK, NEW d \in Drafts \ Edited!Existing, NEW p \in Edited!Products,
           product' = [product EXCEPT ![d] = p], NEW q \in Edited!Asked, IsAsked(q)
    PROVE  IsAsked(q)'
<1>1. /\ Edited!Existing' = Edited!Existing \cup {d}
      /\ \A e \in Edited!Existing : product'[e] = product[e]
      /\ \A r : Count(r) \in Nat /\ Count(r)' \in Nat /\ Count(r) <= Count(r)'
  BY NewDraftCounts
<1>2. q.expected \in Nat
  BY DEF Edited!Asked
<1>3. CASE q.draft = None
  BY <1>3 DEF IsAsked
<1>4. CASE q.draft # None
  <2>1. PICK r : r = product[q.draft]
    OBVIOUS
  <2>2. q.draft \in Edited!Existing /\ product'[q.draft] = r /\ q.expected <= Count(r)
    BY <1>1, <1>4, <2>1 DEF IsAsked
  <2>3. q.expected <= Count(r)'
    BY <1>1, <1>2, <2>2
  <2>4. Count(product[q.draft])' = Count(r)'
    BY <2>2 DEF Count, DraftsOf
  <2> QED BY <1>1, <2>2, <2>3, <2>4 DEF IsAsked
<1> QED BY <1>3, <1>4

-----------------------------------------------------------------------------
(* Steps of the commands *)

CommandPlaces ==
    [pc : {"idle", "lookup", "validate", "reserve", "provider", "store", "commit", "block",
           "fail"},
     key : Keys \cup {None}, ask : Edited!Asked, copy : [draft : Drafts \cup {None}, next : Nat],
     product : Edited!Products \cup {None}, new : Drafts \cup {None}]

LEMMA IdlePlace ==
    /\ Edited!Idle \in CommandPlaces /\ Edited!Idle.pc = "idle" /\ Edited!Idle.new = None
    /\ IsAsked(Edited!Idle.ask)
BY DEF Edited!Idle, Edited!At, Edited!Nothing, Edited!NoCopy, CommandPlaces, Edited!Asked, IsAsked

\* The parts of the invariant, and what they say of a single command.
LEMMA EditFacts ==
    ASSUME EditInv
    PROVE  /\ Edited!TypeOK /\ AsksAreOfDrafts /\ FlushedAreNew /\ CopyIsLevel
           /\ workflow \in [draft : Drafts \cup {None}, next : Nat]
           /\ workflow.next \in Nat /\ workflow.draft \in Edited!Existing \cup {None}
           /\ product \in [Drafts -> Edited!Products \cup {None}]
           /\ mutation \in [Keys -> Edited!Mutations \cup {None}]
           /\ command \in [Askers -> CommandPlaces]
           /\ editor \in [Editors -> Edited!Edits \cup {None}]
           /\ calls \in [Keys -> Nat] /\ acts \in Nat /\ lost \in Nat
           /\ \A s \in Askers :
                 /\ command[s] \in CommandPlaces /\ command[s].copy.next \in Nat
                 /\ IsAsked(command[s].ask)
BY DEF EditInv, Edited!TypeOK, CommandPlaces, AsksAreOfDrafts

\* A copy stays level while the workflow follows the draft it follows and events are appended.
LEMMA LevelStays ==
    ASSUME product' = product, workflow'.draft = workflow.draft,
           workflow.next \in Nat, workflow'.next \in Nat, workflow.next <= workflow'.next,
           NEW y, y.copy.next \in Nat, IsLevel(y)
    PROVE  IsLevel(y)'
<1>1. \A q : Count(q)' = Count(q)
  BY SameCounts
<1>2. y.copy.next = workflow'.next => y.copy.next = workflow.next
  BY DEF IsLevel
<1>3. PICK q : q = product[y.ask.draft]
  OBVIOUS
<1>4. Count(product[y.ask.draft])' = Count(q) /\ Count(product[y.ask.draft]) = Count(q)
  BY <1>1, <1>3 DEF Count, DraftsOf
<1> QED BY <1>2, <1>4 DEF IsLevel

\* An event overtakes every copy.
LEMMA OvertakenIsLevel ==
    ASSUME workflow.next \in Nat, workflow'.next \in Nat, workflow.next < workflow'.next,
           NEW y, y.copy.next \in Nat, IsLevel(y)
    PROVE  IsLevel(y)'
BY DEF IsLevel

\* A move of a command that adds no draft and leaves the workflow's draft.
LEMMA QuietMove ==
    ASSUME EditInv, NEW s \in Askers, NEW x \in CommandPlaces,
           command' = [command EXCEPT ![s] = x], UNCHANGED <<product, editor, log>>,
           workflow' \in [draft : Drafts \cup {None}, next : Nat],
           workflow'.draft = workflow.draft, workflow.next <= workflow'.next,
           calls' \in [Keys -> Nat], acts' \in Nat, lost' \in Nat,
           \/ mutation' = mutation
           \/ \E state \in Edited!States :
                 mutation' = [mutation EXCEPT
                    ![command[s].key] = Edited!Record(command[s].ask, state)],
           IsAsked(x.ask), x.new = None, x.pc # "commit",
           x.pc = "store" => /\ x.product \in Edited!Products
                             /\ x.ask.draft # None => x.product = product[x.ask.draft],
           x.pc \in {"reserve", "provider", "store"} => IsLevel(x)
    PROVE  EditInv'
<1> USE DraftFacts
<1>0. /\ Edited!TypeOK /\ AsksAreOfDrafts /\ FlushedAreNew /\ CopyIsLevel
      /\ workflow.next \in Nat
      /\ mutation \in [Keys -> Edited!Mutations \cup {None}]
      /\ command \in [Askers -> CommandPlaces]
      /\ \A t \in Askers :
            /\ command[t] \in CommandPlaces /\ command[t].copy.next \in Nat
            /\ IsAsked(command[t].ask)
  BY EditFacts
<1>1. /\ command'[s] = x /\ \A t \in Askers \ {s} : command'[t] = command[t]
      /\ command' \in [Askers -> CommandPlaces]
  BY <1>0
<1>2. /\ mutation' \in [Keys -> Edited!Mutations \cup {None}]
      /\ \A k \in Keys : mutation'[k] # None => IsAsked(mutation'[k].ask)
  <2>1. CASE mutation' = mutation
    BY <1>0, <2>1 DEF AsksAreOfDrafts
  <2>2. ASSUME NEW state \in Edited!States,
               mutation' = [mutation EXCEPT
                               ![command[s].key] = Edited!Record(command[s].ask, state)]
        PROVE  /\ mutation' \in [Keys -> Edited!Mutations \cup {None}]
               /\ \A k \in Keys : mutation'[k] # None => IsAsked(mutation'[k].ask)
    <3>1. /\ Edited!Record(command[s].ask, state) \in Edited!Mutations
          /\ Edited!Record(command[s].ask, state).ask = command[s].ask
      <4>1. command[s].ask \in Edited!Asked
        BY <1>0 DEF CommandPlaces
      <4> QED BY <4>1 DEF Edited!Record, Edited!Mutations
    <3> QED BY <1>0, <2>2, <3>1 DEF AsksAreOfDrafts
  <2> QED BY <2>1, <2>2
<1>3. Edited!TypeOK'
  BY <1>0, <1>1, <1>2 DEF Edited!TypeOK, CommandPlaces
<1>4. /\ Edited!Existing' = Edited!Existing
      /\ \A q : IsAsked(q)' <=> IsAsked(q)
  BY SameCounts
<1>5. AsksAreOfDrafts'
  <2>1. \A k \in Keys : mutation'[k] # None => IsAsked(mutation[k].ask)'
    <3> SUFFICES ASSUME NEW k \in Keys, mutation'[k] # None
                 PROVE  IsAsked(mutation[k].ask)'
      OBVIOUS
    <3>1. PICK q : q = mutation'[k].ask
      OBVIOUS
    <3>2. IsAsked(q)'
      BY <1>2, <1>4, <3>1
    <3> QED BY <3>1, <3>2 DEF IsAsked, Count, DraftsOf, Edited!Existing
  <2>2. ASSUME NEW t \in Askers PROVE IsAsked(command[t].ask)'
    <3>1. PICK q : q = command'[t].ask
      OBVIOUS
    <3>2. IsAsked(q)'
      BY <1>0, <1>1, <1>4, <3>1
    <3> QED BY <3>1, <3>2 DEF IsAsked, Count, DraftsOf, Edited!Existing
  <2>3. ASSUME NEW t \in Askers
        PROVE  /\ command'[t].pc \in {"store", "commit"} =>
                     /\ command'[t].product \in Edited!Products
                     /\ command'[t].ask.draft # None =>
                           command'[t].product = product'[command'[t].ask.draft]
               /\ command'[t].pc = "commit" /\ command'[t].ask.draft = None =>
                     \A d \in Edited!Existing' : product'[d] # command'[t].product
    BY <1>0, <1>1, <1>4 DEF AsksAreOfDrafts
  <2> QED BY <1>0, <1>4, <2>1, <2>2, <2>3 DEF AsksAreOfDrafts
<1>6. FlushedAreNew'
  <2>1. \A t \in Askers : Edited!HoldsWorkflow(t)' => Edited!HoldsWorkflow(t) /\ t # s
    BY <1>1 DEF Edited!HoldsWorkflow
  <2>2. \A t \in Askers : command'[t].new # None => t # s /\ command'[t].new = command[t].new
    BY <1>1
  <2>3. \A t \in Askers \ {s} : Edited!HoldsWorkflow(t) => Edited!HoldsWorkflow(t)'
    BY <1>1 DEF Edited!HoldsWorkflow
  <2>4. \A e \in Editors : editor[e] # None =>
           editor[e].new # None /\ \A t \in Askers : command'[t].new # editor[e].new
    BY <1>0, <1>1, <2>2 DEF FlushedAreNew
  <2> QED BY <1>0, <1>1, <1>4, <2>1, <2>2, <2>3, <2>4 DEF FlushedAreNew
<1>7. CopyIsLevel'
  <2> SUFFICES ASSUME NEW t \in Askers, HasCopy(t)' PROVE IsLevel(command[t])'
    BY DEF CopyIsLevel
  <2>1. PICK y : y = command'[t]
    OBVIOUS
  <2>2. IsLevel(y) /\ y.copy.next \in Nat
    <3>1. CASE t = s
      BY <1>0, <1>1, <2>1, <3>1 DEF HasCopy, CommandPlaces
    <3>2. CASE t # s
      BY <1>0, <1>1, <2>1, <3>2 DEF HasCopy, CopyIsLevel
    <3> QED BY <3>1, <3>2
  <2>3. IsLevel(y)'
    BY <1>0, <2>2, LevelStays
  <2> QED BY <2>1, <2>3 DEF IsLevel, Count, DraftsOf, Edited!Existing
<1> QED BY <1>3, <1>5, <1>6, <1>7 DEF EditInv

\* A question that may be asked.
LEMMA AsksAreAsked ==
    ASSUME EditInv, NEW k \in Keys, NEW q \in Edited!Asks \cup Edited!Repeatable(k)
    PROVE  q \in Edited!Asked /\ IsAsked(q)
<1>0. Edited!TypeOK /\ AsksAreOfDrafts /\ command \in [Askers -> CommandPlaces]
  BY EditFacts
<1>1. ASSUME NEW d \in Edited!Existing,
             q = [draft |-> d, expected |-> Edited!Version(d)]
      PROVE  q \in Edited!Asked /\ IsAsked(q)
  <2>1. Edited!Version(d) = Count(product[d]) /\ Count(product[d]) \in Nat
    BY VersionCounts, CountIsNat
  <2> QED BY <1>1, <2>1 DEF Edited!Asked, Edited!Existing, IsAsked
<1>2. CASE q = Edited!Nothing
  BY <1>2 DEF Edited!Nothing, Edited!Asked, IsAsked
<1>3. CASE mutation[k] # None /\ q = mutation[k].ask
  BY <1>0, <1>3 DEF AsksAreOfDrafts, Edited!TypeOK, Edited!Mutations
<1>4. ASSUME NEW t \in Askers, q = command[t].ask
      PROVE  q \in Edited!Asked /\ IsAsked(q)
  BY <1>0, <1>4 DEF AsksAreOfDrafts, CommandPlaces
<1> QED BY <1>1, <1>2, <1>3, <1>4 DEF Edited!Asks, Edited!Repeatable

\* The steps of a command before its draft is flushed, and those that end it.
LEMMA QuietSteps ==
    ASSUME EditInv, NEW s \in Askers,
           \/ \E k \in Keys : Edited!Send(s, k) \/ Edited!Retry(s, k)
           \/ Edited!LookUp(s) \/ Edited!Validate(s) \/ Edited!Reserve(s)
           \/ Edited!CallProvider(s) \/ Edited!Block(s) \/ Edited!Fail(s) \/ Edited!Crash(s)
           \/ Edited!Refuse(s)
    PROVE  EditInv'
<1> USE DraftFacts DEF Edited!Goto, Edited!Continue, Edited!End, Edited!others
<1> DEFINE m == command[s]
<1>0. /\ Edited!TypeOK /\ AsksAreOfDrafts /\ FlushedAreNew /\ CopyIsLevel
      /\ workflow \in [draft : Drafts \cup {None}, next : Nat] /\ workflow.next \in Nat
      /\ workflow.draft \in Edited!Existing \cup {None}
      /\ product \in [Drafts -> Edited!Products \cup {None}]
      /\ calls \in [Keys -> Nat] /\ acts \in Nat /\ lost \in Nat
      /\ m \in CommandPlaces /\ m.copy.next \in Nat /\ IsAsked(m.ask)
      /\ m.new # None => m.pc = "commit"
  BY EditFacts DEF FlushedAreNew, Edited!HoldsWorkflow
<1>1. ASSUME NEW k \in Keys, Edited!Send(s, k) \/ Edited!Retry(s, k) PROVE EditInv'
  <2>1. PICK q \in Edited!Asks \cup Edited!Repeatable(k) :
           command' = [command EXCEPT
              ![s] = Edited!At("lookup", k, q, Edited!NoCopy, None, None)]
    BY <1>1 DEF Edited!Send, Edited!Retry
  <2> DEFINE x == Edited!At("lookup", k, q, Edited!NoCopy, None, None)
  <2>2. q \in Edited!Asked /\ IsAsked(q)
    BY AsksAreAsked
  <2>3. x \in CommandPlaces /\ x.pc = "lookup" /\ x.ask = q /\ x.new = None
    BY <2>2 DEF Edited!At, Edited!NoCopy, CommandPlaces
  <2>4. UNCHANGED <<workflow, product, mutation, editor, log, calls, acts, lost>>
    BY <1>1 DEF Edited!Send, Edited!Retry
  <2>5. command' = [command EXCEPT ![s] = x]
    BY <2>1
  <2> HIDE DEF x
  <2>6. /\ workflow' \in [draft : Drafts \cup {None}, next : Nat]
        /\ workflow'.draft = workflow.draft /\ workflow.next <= workflow'.next
        /\ calls' \in [Keys -> Nat] /\ acts' \in Nat /\ lost' \in Nat
    BY <1>0, <2>4
  <2> QED BY <2>2, <2>3, <2>4, <2>5, <2>6, QuietMove
<1>2. ASSUME command' = [command EXCEPT ![s] = Edited!Idle],
             UNCHANGED <<product, log, editor, calls>>,
             workflow' \in [draft : Drafts \cup {None}, next : Nat],
             workflow'.draft = workflow.draft, workflow.next <= workflow'.next,
             acts' \in Nat, lost' \in Nat,
             \/ mutation' = mutation
             \/ \E state \in Edited!States :
                   mutation' = [mutation EXCEPT
                      ![command[s].key] = Edited!Record(command[s].ask, state)]
      PROVE  EditInv'
  BY <1>0, <1>2, IdlePlace, QuietMove
<1>3. ASSUME NEW x \in CommandPlaces, command' = [command EXCEPT ![s] = x],
             UNCHANGED <<workflow, product, log, editor, acts, lost>>,
             calls' \in [Keys -> Nat],
             \/ mutation' = mutation
             \/ \E state \in Edited!States :
                   mutation' = [mutation EXCEPT
                      ![command[s].key] = Edited!Record(command[s].ask, state)],
             x.pc \in {"validate", "reserve", "provider", "store", "block", "fail"},
             x.ask = m.ask, x.new = None,
             x.pc \in {"reserve", "provider", "store"} => IsLevel(x),
             x.pc = "store" => /\ x.product \in Edited!Products
                               /\ x.ask.draft # None => x.product = product[x.ask.draft]
      PROVE  EditInv'
  <2>1. IsAsked(x.ask)
    BY <1>0, <1>3
  <2>2. x.pc # "commit"
    BY <1>3
  <2>3. /\ workflow' \in [draft : Drafts \cup {None}, next : Nat]
        /\ workflow'.draft = workflow.draft /\ workflow.next <= workflow'.next
        /\ UNCHANGED <<product, editor, log>> /\ acts' \in Nat /\ lost' \in Nat
    BY <1>0, <1>3
  <2> HIDE DEF m
  <2> QED BY <1>3, <2>1, <2>2, <2>3, QuietMove
<1>4. ASSUME Edited!LookUp(s) PROVE EditInv'
  <2>1. UNCHANGED <<workflow, product, mutation, editor, log, calls, acts, lost>>
    BY <1>4 DEF Edited!LookUp
  <2>2. CASE command' = [command EXCEPT ![s].pc = "validate"]
    <3> DEFINE x == [m EXCEPT !.pc = "validate"]
    <3>1. command' = [command EXCEPT ![s] = x]
      BY <2>2
    <3>2. m.new = None
      BY <1>0, <1>4 DEF Edited!LookUp
    <3>3. x \in CommandPlaces /\ x.pc = "validate" /\ x.ask = m.ask /\ x.new = None
      BY <1>0, <3>2 DEF CommandPlaces
    <3> HIDE DEF x, m
    <3> QED BY <1>0, <1>3, <2>1, <3>1, <3>3
  <2>3. CASE command' = [command EXCEPT ![s] = Edited!Idle]
    BY <1>0, <1>2, <2>1, <2>3
  <2> QED BY <1>4, <2>2, <2>3 DEF Edited!LookUp
<1>5. ASSUME Edited!Validate(s) PROVE EditInv'
  <2> DEFINE x == Edited!At("reserve", m.key, m.ask, workflow, None, None)
  <2>1. UNCHANGED <<workflow, product, mutation, editor, log, calls, acts, lost>>
    BY <1>5 DEF Edited!Validate
  <2>2. CASE Edited!IsCurrent(m.ask, workflow) /\ command' = [command EXCEPT ![s] = x]
    <3>1. /\ x \in CommandPlaces /\ x.pc = "reserve" /\ x.ask = m.ask /\ x.new = None
          /\ x.copy = workflow
      BY <1>0 DEF CommandPlaces, Edited!At
    <3>2. command' = [command EXCEPT ![s] = x] /\ workflow.draft = m.ask.draft
      BY <2>2 DEF Edited!IsCurrent
    <3> HIDE DEF x, m
    <3>3. IsLevel(x)
      BY <1>0, <3>1, <3>2 DEF IsLevel
    <3> QED BY <1>0, <1>3, <2>1, <3>1, <3>2, <3>3
  <2>3. CASE command' = [command EXCEPT ![s] = Edited!Idle]
    BY <1>0, <1>2, <2>1, <2>3
  <2> QED BY <1>5, <2>2, <2>3 DEF Edited!Validate
<1>6. ASSUME Edited!Reserve(s) PROVE EditInv'
  <2>1. UNCHANGED <<workflow, product, editor, log, calls, acts, lost>>
    BY <1>6 DEF Edited!Reserve
  <2>2. CASE mutation[m.key] = None
    <3> DEFINE x == [m EXCEPT !.pc = "provider"]
    <3>1. /\ command' = [command EXCEPT ![s] = x]
          /\ \E state \in Edited!States :
                mutation' = [mutation EXCEPT ![m.key] = Edited!Record(m.ask, state)]
      BY <1>6, <2>2 DEF Edited!Reserve, Edited!States
    <3>2. m.pc = "reserve" /\ m.new = None /\ IsLevel(m)
      BY <1>0, <1>6 DEF Edited!Reserve, CopyIsLevel, HasCopy
    <3>3. /\ x \in CommandPlaces /\ x.pc = "provider" /\ x.ask = m.ask /\ x.new = None
          /\ x.copy = m.copy
      BY <1>0, <3>2 DEF CommandPlaces
    <3>4. /\ \E state \in Edited!States :
                mutation' = [mutation EXCEPT
                    ![command[s].key] = Edited!Record(command[s].ask, state)]
          /\ m.pc # "commit"
      BY <3>1, <3>2
    <3> HIDE DEF x, m
    <3>5. IsLevel(x)
      BY <3>2, <3>3, <3>4 DEF IsLevel
    <3> QED BY <1>0, <1>3, <2>1, <3>1, <3>3, <3>4, <3>5
  <2>3. CASE mutation[m.key] # None
    BY <1>0, <1>2, <1>6, <2>1, <2>3 DEF Edited!Reserve
  <2> QED BY <2>2, <2>3
<1>7. ASSUME Edited!CallProvider(s) PROVE EditInv'
  <2>0. /\ UNCHANGED <<workflow, product, mutation, editor, log, acts, lost>>
        /\ calls' = [calls EXCEPT ![m.key] = @ + 1] /\ m.pc = "provider"
    BY <1>7 DEF Edited!CallProvider
  <2>1. calls' \in [Keys -> Nat] /\ m.new = None /\ IsLevel(m)
    <3>1. calls' \in [Keys -> Nat]
      <4>1. PICK k : k = m.key
        OBVIOUS
      <4>2. calls \in [Keys -> Nat] /\ calls' = [calls EXCEPT ![k] = @ + 1]
        BY <1>0, <2>0, <4>1
      <4>3. CASE k \in Keys
        BY <4>2, <4>3
      <4>4. CASE k \notin Keys
        <5>1. calls' = [j \in Keys |-> calls[j]]
          BY <4>2, <4>4, Zenon
        <5> QED BY <4>2, <5>1
      <4> QED BY <4>3, <4>4
    <3>2. m.new = None /\ IsLevel(m)
      BY <1>0, <2>0 DEF CopyIsLevel, HasCopy
    <3> QED BY <3>1, <3>2
  <2>2. ASSUME NEW p \in IF m.ask.draft = None THEN NewProducts ELSE {product[m.ask.draft]},
               command' = [command EXCEPT ![s] =
                              Edited!At("store", m.key, m.ask, m.copy, p, None)]
        PROVE  EditInv'
    <3> DEFINE x == Edited!At("store", m.key, m.ask, m.copy, p, None)
    <3>1. p \in Edited!Products
      <4>1. CASE m.ask.draft = None
        BY <2>2, <4>1 DEF Edited!Products
      <4>2. CASE m.ask.draft # None
        BY <1>0, <2>2, <4>2 DEF IsAsked, Edited!Existing
      <4> QED BY <4>1, <4>2
    <3>2. /\ x \in CommandPlaces /\ x.pc = "store" /\ x.ask = m.ask /\ x.new = None
          /\ x.copy = m.copy /\ x.product = p
      BY <1>0, <3>1 DEF CommandPlaces, Edited!At
    <3>3. x.ask.draft # None => x.product = product[x.ask.draft]
      BY <2>2, <3>2
    <3>4. command' = [command EXCEPT ![s] = x]
      BY <2>2
    <3> HIDE DEF x, m
    <3>5. IsLevel(x)
      BY <2>1, <3>2 DEF IsLevel
    <3> QED BY <1>0, <1>3, <2>0, <2>1, <3>1, <3>2, <3>3, <3>4, <3>5
  <2>3. ASSUME NEW pc \in {"block", "fail"}, command' = [command EXCEPT ![s].pc = pc]
        PROVE  EditInv'
    <3> DEFINE x == [m EXCEPT !.pc = pc]
    <3>1. command' = [command EXCEPT ![s] = x]
      BY <2>3
    <3>2. x \in CommandPlaces /\ x.pc = pc /\ x.ask = m.ask /\ x.new = None
      BY <1>0, <2>1 DEF CommandPlaces
    <3> HIDE DEF x, m
    <3> QED BY <1>0, <1>3, <2>0, <2>1, <3>1, <3>2
  <2> QED BY <1>7, <2>2, <2>3 DEF Edited!CallProvider
<1>8. ASSUME Edited!Block(s) \/ Edited!Fail(s) PROVE EditInv'
  <2>1. /\ command' = [command EXCEPT ![s] = Edited!Idle]
        /\ UNCHANGED <<product, log, editor, calls, acts, lost>>
        /\ \E state \in Edited!States :
              mutation' = [mutation EXCEPT
                 ![command[s].key] = Edited!Record(command[s].ask, state)]
    BY <1>8 DEF Edited!Block, Edited!Fail, Edited!States
  <2>2. /\ workflow' \in [draft : Drafts \cup {None}, next : Nat]
        /\ workflow'.draft = workflow.draft /\ workflow.next <= workflow'.next
    BY <1>0, <1>8 DEF Edited!Block, Edited!Fail
  <2> QED BY <1>0, <1>2, <2>1, <2>2
<1>9. ASSUME Edited!Crash(s) PROVE EditInv'
  <2>1. /\ command' = [command EXCEPT ![s] = Edited!Idle] /\ lost' \in Nat
        /\ UNCHANGED <<workflow, product, mutation, log, editor, calls, acts>>
    BY <1>0, <1>9 DEF Edited!Crash
  <2> QED BY <1>0, <1>2, <2>1
<1>10. ASSUME Edited!Refuse(s) PROVE EditInv'
  <2> DEFINE x == [m EXCEPT !.pc = "fail", !.new = None]
  <2>1. x \in CommandPlaces /\ x.pc = "fail" /\ x.ask = m.ask /\ x.new = None
    BY <1>0 DEF CommandPlaces
  <2>2. /\ command' = [command EXCEPT ![s] = x]
        /\ UNCHANGED <<workflow, product, mutation, editor, log, calls, acts, lost>>
    BY <1>10 DEF Edited!Refuse
  <2> HIDE DEF x, m
  <2> QED BY <1>0, <1>3, <2>1, <2>2
<1> QED BY <1>1, <1>4, <1>5, <1>6, <1>7, <1>8, <1>9, <1>10

\* The draft of a command is flushed, while it holds the workflow.
LEMMA StoreStep == ASSUME EditInv, NEW s \in Askers, Edited!Store(s) PROVE EditInv'
<1> USE DraftFacts DEF Edited!Goto, Edited!Continue
<1> DEFINE m == command[s]
<1>0. /\ Edited!TypeOK /\ AsksAreOfDrafts /\ FlushedAreNew /\ CopyIsLevel
      /\ workflow \in [draft : Drafts \cup {None}, next : Nat] /\ workflow.next \in Nat
      /\ command \in [Askers -> CommandPlaces]
      /\ calls \in [Keys -> Nat] /\ acts \in Nat /\ lost \in Nat
      /\ m \in CommandPlaces /\ IsAsked(m.ask)
  BY EditFacts
<1>1. /\ m.pc = "store" /\ Edited!IsFree
      /\ UNCHANGED <<workflow, product, mutation, editor, log, calls, acts, lost>>
  BY DEF Edited!Store, Edited!others
<1>2. m.new = None /\ IsLevel(m)
  BY <1>0, <1>1 DEF FlushedAreNew, Edited!HoldsWorkflow, CopyIsLevel, HasCopy
<1>3. CASE command' = [command EXCEPT ![s].pc = "fail"]
  <2> DEFINE x == [m EXCEPT !.pc = "fail"]
  <2>1. x \in CommandPlaces /\ x.pc = "fail" /\ x.ask = m.ask /\ x.new = None
    BY <1>0, <1>2 DEF CommandPlaces
  <2>2. command' = [command EXCEPT ![s] = x]
    BY <1>3
  <2> HIDE DEF x, m
  <2>3. IsAsked(x.ask) /\ x.pc # "commit" /\ x.pc \notin {"reserve", "provider", "store"}
    BY <1>0, <2>1
  <2>4. /\ workflow' \in [draft : Drafts \cup {None}, next : Nat]
        /\ workflow'.draft = workflow.draft /\ workflow.next <= workflow'.next
        /\ calls' \in [Keys -> Nat] /\ acts' \in Nat /\ lost' \in Nat
    BY <1>0, <1>1
  <2> QED BY <1>1, <2>1, <2>2, <2>3, <2>4, QuietMove
<1>4. ASSUME NEW d \in Drafts, Edited!IsNew(d), NEW x,
             x = Edited!At("commit", m.key, m.ask, m.copy, m.product, d),
             command' = [command EXCEPT ![s] = x],
             Edited!IsCurrent(m.ask, m.copy),
             m.ask.draft = None => \A e \in Edited!Existing : product[e] # m.product
      PROVE  EditInv'
  <2>1. d \notin Edited!Existing /\ d \notin Edited!Flushed
    BY <1>4 DEF Edited!IsNew
  <2>2. /\ m.product \in Edited!Products
        /\ m.ask.draft # None => m.product = product[m.ask.draft]
    BY <1>0, <1>1 DEF AsksAreOfDrafts
  <2>3. /\ x \in CommandPlaces /\ x.pc = "commit" /\ x.ask = m.ask /\ x.copy = m.copy
        /\ x.product = m.product /\ x.new = d
    BY <1>0, <1>4, <2>2 DEF Edited!At, CommandPlaces
  <2>4. /\ command'[s] = x /\ \A t \in Askers \ {s} : command'[t] = command[t]
        /\ command' \in [Askers -> CommandPlaces]
    BY <1>0, <1>4, <2>3
  <2>5. Edited!TypeOK'
    BY <1>0, <1>1, <2>4 DEF Edited!TypeOK, CommandPlaces
  <2>6. Edited!Existing' = Edited!Existing /\ \A q : IsAsked(q)' <=> IsAsked(q)
    BY <1>1, SameCounts
  <2>7. AsksAreOfDrafts'
    <3>1. \A k \in Keys : mutation'[k] # None => IsAsked(mutation[k].ask)'
      BY <1>0, <1>1, <2>6 DEF AsksAreOfDrafts, IsAsked, Count, DraftsOf
    <3>2. ASSUME NEW t \in Askers PROVE IsAsked(command[t].ask)'
      <4>1. PICK q : q = command'[t].ask
        OBVIOUS
      <4>2. IsAsked(q)
        BY <1>0, <2>3, <2>4, <4>1 DEF AsksAreOfDrafts
      <4>3. IsAsked(q)'
        BY <2>6, <4>2
      <4> QED BY <4>1, <4>3 DEF IsAsked, Count, DraftsOf, Edited!Existing
    <3>3. ASSUME NEW t \in Askers
          PROVE  /\ command'[t].pc \in {"store", "commit"} =>
                       /\ command'[t].product \in Edited!Products
                       /\ command'[t].ask.draft # None =>
                             command'[t].product = product'[command'[t].ask.draft]
                 /\ command'[t].pc = "commit" /\ command'[t].ask.draft = None =>
                       \A e \in Edited!Existing' : product'[e] # command'[t].product
      BY <1>0, <1>1, <1>4, <2>2, <2>3, <2>4, <2>6 DEF AsksAreOfDrafts
    <3> QED BY <1>0, <1>1, <2>6, <3>1, <3>2, <3>3 DEF AsksAreOfDrafts
  <2>8. FlushedAreNew'
    <3>1. \A t \in Askers : Edited!HoldsWorkflow(t)' <=> t = s
      BY <1>1, <2>3, <2>4 DEF Edited!HoldsWorkflow, Edited!IsFree
    <3>2. \A t \in Askers : command'[t].new # None <=> t = s
      BY <1>0, <1>1, <2>3, <2>4 DEF FlushedAreNew, Edited!IsFree
    <3>3. \A e \in Editors : editor[e] # None => editor[e].new # d
      BY <1>0, <2>1 DEF FlushedAreNew, Edited!Flushed
    <3>4. \A t \in Askers : \A e \in Editors :
             editor[e] # None => command'[t].new # editor[e].new
      BY <1>0, <2>3, <2>4, <3>3 DEF FlushedAreNew
    <3> QED BY <1>0, <1>1, <2>1, <2>3, <2>4, <2>6, <3>1, <3>2, <3>4 DEF FlushedAreNew
  <2>9. CopyIsLevel'
    <3> SUFFICES ASSUME NEW t \in Askers, HasCopy(t)' PROVE IsLevel(command[t])'
      BY DEF CopyIsLevel
    <3>1. PICK y : y = command'[t]
      OBVIOUS
    <3>2. IsLevel(y) /\ y.copy.next \in Nat
      <4>1. CASE t = s
        <5>1. m.ask.draft # None => m.ask.expected = Count(product[m.ask.draft])
          BY <1>4, VersionCounts DEF Edited!IsCurrent
        <5>2. m.ask.expected \in Nat
          BY <1>0 DEF CommandPlaces, Edited!Asked
        <5>3. m.ask.draft # None => ~(m.ask.expected < Count(product[m.ask.draft]))
          BY <5>1, <5>2
        <5>4. x.copy.next \in Nat
          BY <2>3 DEF CommandPlaces
        <5> QED BY <1>2, <2>3, <2>4, <3>1, <4>1, <5>3, <5>4 DEF IsLevel
      <4>2. CASE t # s
        BY <2>4, <3>1, <4>2, EditFacts DEF HasCopy, CopyIsLevel
      <4> QED BY <4>1, <4>2
    <3>3. IsLevel(y)'
      BY <1>0, <1>1, <3>2, LevelStays
    <3> QED BY <3>1, <3>3 DEF IsLevel, Count, DraftsOf, Edited!Existing
  <2> QED BY <2>5, <2>7, <2>8, <2>9 DEF EditInv
<1> QED BY <1>3, <1>4 DEF Edited!Store

\* An edit flushes a draft.
LEMMA EditStep ==
    ASSUME EditInv, NEW e \in Editors, NEW d \in Drafts, Edited!EditDraft(e, d)
    PROVE  EditInv'
<1> USE DraftFacts
<1>0. /\ Edited!TypeOK /\ AsksAreOfDrafts /\ FlushedAreNew /\ CopyIsLevel
      /\ editor \in [Editors -> Edited!Edits \cup {None}] /\ workflow.next \in Nat /\ acts \in Nat
  BY EditFacts
<1>1. PICK n \in Drafts :
         /\ Edited!IsNew(n)
         /\ editor' = [editor EXCEPT ![e] =
               [draft |-> d, expected |-> Edited!Version(d), new |-> n,
                moves |-> workflow.draft = d]]
  BY DEF Edited!EditDraft
<1> DEFINE r == [draft |-> d, expected |-> Edited!Version(d), new |-> n,
                 moves |-> workflow.draft = d]
<1>2. /\ UNCHANGED <<workflow, product, mutation, command, calls, log, lost>>
      /\ acts' \in Nat /\ d \in Edited!Existing
  BY <1>0 DEF Edited!EditDraft, Edited!IsLatest
<1>3. n \notin Edited!Existing /\ n \notin Edited!Flushed
  BY <1>1 DEF Edited!IsNew
<1>4. r \in Edited!Edits /\ r.draft = d /\ r.new = n
  <2>1. Edited!Version(d) \in Nat
    BY VersionCounts, CountIsNat
  <2> QED BY <2>1 DEF Edited!Edits
<1>5. editor' = [editor EXCEPT ![e] = r]
  BY <1>1
<1> HIDE DEF r
<1>6. /\ editor'[e] = r /\ \A f \in Editors \ {e} : editor'[f] = editor[f]
      /\ editor' \in [Editors -> Edited!Edits \cup {None}] /\ r # None
  BY <1>0, <1>4, <1>5
<1>7. Edited!TypeOK'
  BY <1>0, <1>2, <1>6 DEF Edited!TypeOK
<1>8. AsksAreOfDrafts' /\ CopyIsLevel'
  BY <1>0, <1>2
  DEF AsksAreOfDrafts, CopyIsLevel, HasCopy, IsLevel, IsAsked, Count, DraftsOf, Edited!Existing
<1>9. FlushedAreNew'
  <2>1. /\ \A s \in Askers : command[s].new # n
        /\ \A f \in Editors : editor[f] # None => editor[f].new # n
    BY <1>3 DEF Edited!Flushed
  <2>2. Edited!Existing' = Edited!Existing
    BY <1>2, SameCounts
  <2>3. ASSUME NEW f \in Editors, editor'[f] # None
        PROVE  /\ editor'[f].draft \in Edited!Existing
               /\ editor'[f].new \in Drafts \ Edited!Existing
               /\ \A s \in Askers : command[s].new # editor'[f].new
               /\ \A g \in Editors : editor'[g] # None /\ editor'[g].new = editor'[f].new => f = g
    <3>1. CASE f = e
      BY <1>2, <1>3, <1>4, <1>6, <2>1, <3>1
    <3>2. CASE f # e
      BY <1>0, <1>2, <1>4, <1>6, <2>1, <2>3, <3>2 DEF FlushedAreNew
    <3> QED BY <3>1, <3>2
  <2> QED BY <1>0, <1>2, <2>2, <2>3 DEF FlushedAreNew, Edited!HoldsWorkflow
<1> QED BY <1>7, <1>8, <1>9 DEF EditInv

-----------------------------------------------------------------------------
(* Steps that add a draft *)

\* A copy stays level when a draft is added that the workflow does not follow.
LEMMA LevelGrows ==
    ASSUME EditInv, NEW d \in Drafts \ Edited!Existing, NEW p \in Edited!Products,
           product' = [product EXCEPT ![d] = p], workflow' = workflow,
           NEW y, y.ask \in Edited!Asked, IsAsked(y.ask), IsLevel(y)
    PROVE  IsLevel(y)'
<1>1. PICK q : q = product[y.ask.draft]
  OBVIOUS
<1>2. /\ \A e \in Edited!Existing : product'[e] = product[e]
      /\ Count(q) \in Nat /\ Count(q)' \in Nat /\ Count(q) <= Count(q)'
  BY EditFacts, NewDraftCounts
<1>3. workflow.draft \in Edited!Existing \cup {None} /\ y.ask.expected \in Nat
  BY EditFacts DEF Edited!Asked
<1>4. y.ask.draft # None => product'[y.ask.draft] = q
  BY <1>1, <1>2 DEF IsAsked
<1>5. Count(product[y.ask.draft]) = Count(q)
  BY <1>1
<1>6. y.ask.draft # None => Count(product[y.ask.draft])' = Count(q)'
  BY <1>4 DEF Count, DraftsOf
<1> QED BY <1>1, <1>2, <1>3, <1>4, <1>5, <1>6 DEF IsLevel

\* A copy stays level when the workflow follows the added draft, unless the command is
\* about to commit: the draft is of another product, or the command notices it.
LEMMA LevelMoves ==
    ASSUME EditInv, NEW d \in Drafts \ Edited!Existing, NEW p \in Edited!Products,
           product' = [product EXCEPT ![d] = p], workflow' = [workflow EXCEPT !.draft = d],
           NEW y, y.ask \in Edited!Asked, IsAsked(y.ask), IsLevel(y), y.pc # "commit"
    PROVE  IsLevel(y)'
<1>1. PICK q : q = product[y.ask.draft]
  OBVIOUS
<1>2. /\ \A e \in Edited!Existing : product'[e] = product[e]
      /\ product'[d] = p
      /\ Count(q) \in Nat /\ Count(q)' \in Nat
      /\ q = p => Count(q) < Count(q)'
  BY EditFacts, NewDraftCounts
<1>3. /\ workflow'.draft = d /\ workflow'.next = workflow.next /\ d # None
      /\ y.ask.expected \in Nat
  BY EditFacts, DraftFacts DEF Edited!Asked
<1>4. y.ask.draft # None => /\ product'[y.ask.draft] = q
                            /\ y.ask.expected <= Count(product[y.ask.draft])
  BY <1>1, <1>2 DEF IsAsked
<1>5. Count(product[y.ask.draft]) = Count(q)
  BY <1>1
<1>6. y.ask.draft # None => Count(product[y.ask.draft])' = Count(q)'
  BY <1>4 DEF Count, DraftsOf
<1> QED BY <1>1, <1>2, <1>3, <1>4, <1>5, <1>6 DEF IsLevel

\* The questions asked stay questions, and a command its proposal, when a draft is added
\* that no command about to commit is against.
LEMMA AsksGrow ==
    ASSUME EditInv, NEW d \in Drafts \ Edited!Existing, NEW p \in Edited!Products,
           product' = [product EXCEPT ![d] = p],
           workflow'.draft \in Edited!Existing \cup {d, None},
           \A k \in Keys : mutation'[k] # None =>
              \/ mutation[k] # None /\ mutation'[k].ask = mutation[k].ask
              \/ \E s \in Askers : mutation'[k].ask = command[s].ask,
           \A s \in Askers : command'[s] = command[s] \/ command'[s] = Edited!Idle,
           \A s \in Askers :
              command'[s].pc = "commit" /\ command'[s].ask.draft = None =>
                 command'[s].product # p
    PROVE  AsksAreOfDrafts'
<1>0. Edited!TypeOK /\ AsksAreOfDrafts /\ command \in [Askers -> CommandPlaces]
  BY EditFacts
<1>1. /\ Edited!Existing' = Edited!Existing \cup {d} /\ product'[d] = p
      /\ \A e \in Edited!Existing : product'[e] = product[e]
  BY <1>0, NewDraftCounts
<1>2. ASSUME NEW q \in Edited!Asked, IsAsked(q) PROVE IsAsked(q)'
  BY <1>0, <1>2, AskedStays
<1>3. ASSUME NEW k \in Keys, mutation'[k] # None PROVE IsAsked(mutation[k].ask)'
  <2>1. PICK q : q = mutation'[k].ask
    OBVIOUS
  <2>2. q \in Edited!Asked /\ IsAsked(q)
    <3>1. CASE mutation[k] # None /\ mutation'[k].ask = mutation[k].ask
      <4>1. mutation[k] \in Edited!Mutations
        BY <1>0, <3>1 DEF Edited!TypeOK
      <4> QED BY <1>0, <2>1, <3>1, <4>1 DEF AsksAreOfDrafts, Edited!Mutations
    <3>2. CASE \E s \in Askers : mutation'[k].ask = command[s].ask
      BY <1>0, <2>1, <3>2 DEF AsksAreOfDrafts, CommandPlaces
    <3> QED BY <1>3, <3>1, <3>2
  <2>3. IsAsked(q)'
    BY <1>2, <2>2
  <2> QED BY <2>1, <2>3 DEF IsAsked, Count, DraftsOf, Edited!Existing
<1>4. ASSUME NEW s \in Askers
      PROVE  /\ IsAsked(command[s].ask)'
             /\ command'[s].pc \in {"store", "commit"} =>
                   /\ command'[s].product \in Edited!Products
                   /\ command'[s].ask.draft # None =>
                         command'[s].product = product'[command'[s].ask.draft]
             /\ command'[s].pc = "commit" /\ command'[s].ask.draft = None =>
                   \A e \in Edited!Existing' : product'[e] # command'[s].product
  <2>1. PICK q : q = command'[s].ask
    OBVIOUS
  <2>2. CASE command'[s] = Edited!Idle
    <3>1. q \in Edited!Asked /\ IsAsked(q)
      BY <2>1, <2>2, IdlePlace DEF CommandPlaces
    <3>2. IsAsked(q)'
      BY <1>2, <3>1
    <3>3. IsAsked(command[s].ask)'
      BY <2>1, <3>2 DEF IsAsked, Count, DraftsOf, Edited!Existing
    <3> QED BY <2>2, <3>3, IdlePlace
  <2>3. CASE command'[s] = command[s]
    <3>1. q \in Edited!Asked /\ IsAsked(q)
      BY <1>0, <2>1, <2>3 DEF CommandPlaces, AsksAreOfDrafts
    <3>2. IsAsked(q)'
      BY <1>2, <3>1
    <3>3. IsAsked(command[s].ask)'
      BY <2>1, <3>2 DEF IsAsked, Count, DraftsOf, Edited!Existing
    <3>4. command[s].ask.draft # None => command[s].ask.draft \in Edited!Existing
      BY <1>0 DEF AsksAreOfDrafts, IsAsked
    <3> QED BY <1>0, <1>1, <2>3, <3>3, <3>4 DEF AsksAreOfDrafts
  <2> QED BY <2>2, <2>3
<1> QED BY <1>1, <1>3, <1>4 DEF AsksAreOfDrafts

\* A command commits: its events overtake every other copy.
LEMMA CommitStep == ASSUME EditInv, NEW s \in Askers, Edited!Commit(s) PROVE EditInv'
<1> USE DraftFacts
<1> DEFINE m == command[s]
           r == Edited!Record(m.ask, "completed")
           entry == [product |-> m.product, ask |-> m.ask]
<1>0. /\ Edited!TypeOK /\ AsksAreOfDrafts /\ FlushedAreNew /\ CopyIsLevel
      /\ workflow \in [draft : Drafts \cup {None}, next : Nat] /\ workflow.next \in Nat
      /\ mutation \in [Keys -> Edited!Mutations \cup {None}]
      /\ command \in [Askers -> CommandPlaces]
      /\ m \in CommandPlaces /\ IsAsked(m.ask)
      /\ \A t \in Askers : command[t].copy.next \in Nat
  BY EditFacts
<1>1. /\ m.pc = "commit" /\ m.copy.next = workflow.next
      /\ product' = [product EXCEPT ![m.new] = m.product]
      /\ workflow' = [draft |-> m.new, next |-> m.copy.next + 2]
      /\ mutation' = [mutation EXCEPT ![m.key] = r]
      /\ log' = Append(log, entry)
      /\ command' = [command EXCEPT ![s] = Edited!Idle]
      /\ UNCHANGED <<calls, editor, acts, lost>>
  BY DEF Edited!Commit, Edited!HoldsWorkflow, Edited!Collides, Edited!End, Edited!Goto, Edited!others
<1>2. /\ m.new \in Drafts \ Edited!Existing /\ m.product \in Edited!Products
      /\ \A t \in Askers \ {s} : command[t].pc # "commit" /\ command[t].new = None
      /\ \A e \in Editors : editor[e] # None => editor[e].new # m.new
  BY <1>0, <1>1 DEF FlushedAreNew, AsksAreOfDrafts, Edited!HoldsWorkflow
<1>3. PICK d : d = m.new
  OBVIOUS
<1>4. PICK p : p = m.product
  OBVIOUS
<1>5. r \in Edited!Mutations /\ r.ask = m.ask
  BY <1>0 DEF CommandPlaces, Edited!Record, Edited!Mutations, Edited!States
<1>6. entry \in [product : Edited!Products, ask : Edited!Asked]
  BY <1>0, <1>2 DEF CommandPlaces
<1> HIDE DEF m, r, entry
<1>7. /\ command'[s] = Edited!Idle /\ \A t \in Askers \ {s} : command'[t] = command[t]
      /\ command' \in [Askers -> CommandPlaces]
  BY <1>0, <1>1, IdlePlace
<1>8. /\ mutation' \in [Keys -> Edited!Mutations \cup {None}]
      /\ \A k \in Keys : mutation'[k] = r \/ mutation'[k] = mutation[k]
  BY <1>0, <1>1, <1>5
<1>9. /\ product' = [product EXCEPT ![d] = p] /\ d \in Drafts \ Edited!Existing
      /\ p \in Edited!Products
  BY <1>1, <1>2, <1>3, <1>4
<1>10. /\ Edited!Existing' = Edited!Existing \cup {d}
       /\ \A e \in Edited!Existing : product'[e] = product[e]
  BY <1>0, <1>9, NewDraftCounts
<1>11. /\ workflow' \in [draft : Drafts \cup {None}, next : Nat]
       /\ workflow'.draft = d /\ workflow'.next = workflow.next + 2
  BY <1>0, <1>1, <1>2, <1>3
<1>12. Edited!TypeOK'
  <2>1. product' \in [Drafts -> Edited!Products \cup {None}]
    BY <1>0, <1>9 DEF Edited!TypeOK
  <2>2. log' \in Seq([product : Edited!Products, ask : Edited!Asked])
    BY <1>0, <1>1, <1>6 DEF Edited!TypeOK
  <2> QED BY <1>0, <1>1, <1>7, <1>8, <1>11, <2>1, <2>2 DEF Edited!TypeOK, CommandPlaces
<1>13. AsksAreOfDrafts'
  <2>1. \A k \in Keys : mutation'[k] # None =>
           \/ mutation[k] # None /\ mutation'[k].ask = mutation[k].ask
           \/ \E t \in Askers : mutation'[k].ask = command[t].ask
    BY <1>5, <1>8 DEF m
  <2>2. \A t \in Askers : /\ command'[t] = command[t] \/ command'[t] = Edited!Idle
                          /\ command'[t].pc # "commit"
    BY <1>2, <1>7, IdlePlace
  <2>3. workflow'.draft \in Edited!Existing \cup {d, None}
    BY <1>11
  <2> QED BY <1>9, <2>1, <2>2, <2>3, AsksGrow
<1>14. FlushedAreNew'
  <2>1. \A t \in Askers : ~Edited!HoldsWorkflow(t)' /\ command'[t].new = None
    BY <1>2, <1>7, IdlePlace DEF Edited!HoldsWorkflow
  <2>2. \A e \in Editors : editor[e] # None => editor[e].new # None
    BY <1>0 DEF FlushedAreNew
  <2> QED BY <1>0, <1>1, <1>2, <1>3, <1>10, <2>1, <2>2 DEF FlushedAreNew
<1>15. CopyIsLevel'
  <2> SUFFICES ASSUME NEW t \in Askers, HasCopy(t)' PROVE IsLevel(command[t])'
    BY DEF CopyIsLevel
  <2>1. PICK y : y = command'[t]
    OBVIOUS
  <2>2. IsLevel(y) /\ y.copy.next \in Nat
    BY <1>0, <1>7, <2>1, IdlePlace DEF HasCopy, CopyIsLevel
  <2>3. IsLevel(y)'
    BY <1>0, <1>11, <2>2, OvertakenIsLevel
  <2> QED BY <2>1, <2>3 DEF IsLevel, Count, DraftsOf, Edited!Existing
<1> QED BY <1>12, <1>13, <1>14, <1>15 DEF EditInv

\* A draft that is edited is replaced, and a workflow that followed it follows the new one.
LEMMA CommitEditStep == ASSUME EditInv, NEW e \in Editors, Edited!CommitEdit(e) PROVE EditInv'
<1> USE DraftFacts
<1> DEFINE x == editor[e]
           entry == [product |-> product[x.draft],
                     ask |-> [draft |-> x.draft, expected |-> x.expected]]
<1>0. /\ Edited!TypeOK /\ AsksAreOfDrafts /\ FlushedAreNew /\ CopyIsLevel
      /\ workflow \in [draft : Drafts \cup {None}, next : Nat] /\ workflow.next \in Nat
      /\ workflow.draft \in Edited!Existing \cup {None}
      /\ editor \in [Editors -> Edited!Edits \cup {None}]
      /\ \A t \in Askers : command[t] \in CommandPlaces /\ IsAsked(command[t].ask)
  BY EditFacts
<1>1. /\ x # None
      /\ x.moves => Edited!IsFree
      /\ product' = [product EXCEPT ![x.new] = product[x.draft]]
      /\ workflow' = IF x.moves THEN [workflow EXCEPT !.draft = x.new] ELSE workflow
      /\ editor' = [editor EXCEPT ![e] = None]
      /\ log' = Append(log, entry)
      /\ UNCHANGED <<mutation, command, calls, acts, lost>>
  BY DEF Edited!CommitEdit
<1>2. /\ x \in Edited!Edits /\ x.draft \in Edited!Existing
      /\ x.new \in Drafts \ Edited!Existing /\ product[x.draft] \in Edited!Products
      /\ \A s \in Askers : command[s].new # x.new
      /\ \A f \in Editors : editor[f] # None /\ editor[f].new = x.new => f = e
  BY <1>0, <1>1 DEF FlushedAreNew, Edited!Existing, Edited!TypeOK
<1>3. PICK d : d = x.new
  OBVIOUS
<1>4. PICK p : p = product[x.draft]
  OBVIOUS
<1>5. entry \in [product : Edited!Products, ask : Edited!Asked]
  BY <1>2 DEF Edited!Edits, Edited!Asked
<1>6. PICK o \in Edited!Existing : product[o] = p
  BY <1>2, <1>4
<1>7. PICK moves : moves = x.moves
  OBVIOUS
<1> HIDE DEF x, entry
<1>8. /\ product' = [product EXCEPT ![d] = p] /\ d \in Drafts \ Edited!Existing
      /\ p \in Edited!Products
      /\ moves => Edited!IsFree
      /\ workflow' = IF moves THEN [workflow EXCEPT !.draft = d] ELSE workflow
  BY <1>1, <1>2, <1>3, <1>4, <1>7
<1>9. /\ Edited!Existing' = Edited!Existing \cup {d}
      /\ \A f \in Edited!Existing : product'[f] = product[f]
  BY <1>0, <1>8, NewDraftCounts
<1>10. /\ editor'[e] = None /\ \A f \in Editors \ {e} : editor'[f] = editor[f]
       /\ editor' \in [Editors -> Edited!Edits \cup {None}]
  BY <1>0, <1>1
<1>11. /\ workflow' \in [draft : Drafts \cup {None}, next : Nat]
       /\ workflow'.draft \in Edited!Existing \cup {d, None}
  BY <1>0, <1>8
<1>12. Edited!TypeOK'
  <2>1. product' \in [Drafts -> Edited!Products \cup {None}]
    BY <1>0, <1>8 DEF Edited!TypeOK
  <2>2. log' \in Seq([product : Edited!Products, ask : Edited!Asked])
    BY <1>0, <1>1, <1>5 DEF Edited!TypeOK
  <2> QED BY <1>0, <1>1, <1>10, <1>11, <2>1, <2>2 DEF Edited!TypeOK
<1>13. AsksAreOfDrafts'
  <2>1. \A s \in Askers : command'[s].pc = "commit" /\ command'[s].ask.draft = None =>
           command'[s].product # p
    BY <1>0, <1>1, <1>6 DEF AsksAreOfDrafts
  <2> QED BY <1>1, <1>8, <1>11, <2>1, AsksGrow
<1>14. FlushedAreNew'
  BY <1>0, <1>1, <1>2, <1>3, <1>9, <1>10 DEF FlushedAreNew, Edited!HoldsWorkflow
<1>15. CopyIsLevel'
  <2> SUFFICES ASSUME NEW t \in Askers, HasCopy(t)' PROVE IsLevel(command[t])'
    BY DEF CopyIsLevel
  <2>1. PICK y : y = command[t]
    OBVIOUS
  <2>2. /\ IsLevel(y) /\ y.ask \in Edited!Asked /\ IsAsked(y.ask)
        /\ moves => y.pc # "commit"
    BY <1>0, <1>1, <1>8, <2>1
    DEF HasCopy, CopyIsLevel, CommandPlaces, Edited!IsFree, Edited!HoldsWorkflow
  <2>3. IsLevel(y)'
    <3>1. CASE moves
      BY <1>8, <2>2, <3>1, LevelMoves
    <3>2. CASE ~moves
      BY <1>8, <2>2, <3>2, LevelGrows
    <3> QED BY <3>1, <3>2
  <2> QED BY <1>1, <2>1, <2>3 DEF IsLevel, Count, DraftsOf, Edited!Existing
<1> QED BY <1>12, <1>13, <1>14, <1>15 DEF EditInv

\* A revision is linked into a workflow that follows no draft.
LEMMA ReviseStep ==
    ASSUME EditInv, NEW p \in PublicProducts, Edited!ReviseInto(p) PROVE EditInv'
<1> USE DraftFacts
<1>0. /\ Edited!TypeOK /\ AsksAreOfDrafts /\ FlushedAreNew /\ CopyIsLevel
      /\ workflow \in [draft : Drafts \cup {None}, next : Nat] /\ workflow.next \in Nat
      /\ acts \in Nat /\ \A t \in Askers : command[t].copy.next \in Nat
  BY EditFacts
<1>1. PICK d \in Drafts :
         /\ Edited!IsNew(d) /\ product' = [product EXCEPT ![d] = p]
         /\ workflow' = [workflow EXCEPT !.draft = d]
  BY DEF Edited!ReviseInto
<1>2. /\ Edited!IsFree /\ workflow.draft = None /\ acts' \in Nat
      /\ UNCHANGED <<mutation, command, editor, calls, log, lost>>
  BY <1>0 DEF Edited!ReviseInto
<1>3. d \notin Edited!Existing /\ d \notin Edited!Flushed /\ p \in Edited!Products
  BY <1>1 DEF Edited!IsNew, Edited!Products
<1>4. /\ Edited!Existing' = Edited!Existing \cup {d}
      /\ \A e \in Edited!Existing : product'[e] = product[e]
  BY <1>0, <1>1, <1>3, NewDraftCounts
<1>5. /\ workflow' \in [draft : Drafts \cup {None}, next : Nat]
      /\ workflow'.draft = d /\ workflow'.next = workflow.next
  BY <1>0, <1>1
<1>6. Edited!TypeOK'
  <2>1. product' \in [Drafts -> Edited!Products \cup {None}]
    BY <1>0, <1>1, <1>3 DEF Edited!TypeOK
  <2> QED BY <1>0, <1>2, <1>5, <2>1 DEF Edited!TypeOK
<1>7. AsksAreOfDrafts'
  <2>1. \A s \in Askers : command'[s].pc # "commit"
    BY <1>2 DEF Edited!IsFree, Edited!HoldsWorkflow
  <2> QED BY <1>1, <1>2, <1>3, <1>5, <2>1, AsksGrow
<1>8. FlushedAreNew'
  <2>1. \A e \in Editors : editor[e] # None => editor[e].new # d
    BY <1>3 DEF Edited!Flushed
  <2> QED BY <1>0, <1>2, <1>4, <2>1 DEF FlushedAreNew, Edited!HoldsWorkflow, Edited!IsFree
<1>9. CopyIsLevel'
  <2> SUFFICES ASSUME NEW t \in Askers, HasCopy(t)' PROVE IsLevel(command[t])'
    BY DEF CopyIsLevel
  <2>1. PICK y : y = command[t]
    OBVIOUS
  <2>2. IsLevel(y)
    BY <1>0, <1>2, <2>1 DEF HasCopy, CopyIsLevel
  <2>3. IsLevel(y)'
    BY <1>2, <1>5, <2>2 DEF IsLevel
  <2> QED BY <1>2, <2>1, <2>3 DEF IsLevel, Count, DraftsOf, Edited!Existing
<1> QED BY <1>6, <1>7, <1>8, <1>9 DEF EditInv

\* A posted event overtakes every copy, whatever draft it names.
LEMMA EventStep ==
    ASSUME EditInv, NEW d \in Drafts \cup {None}, Edited!PostEvent(d) PROVE EditInv'
<1> USE DraftFacts
<1>0. /\ Edited!TypeOK /\ AsksAreOfDrafts /\ FlushedAreNew /\ CopyIsLevel
      /\ workflow.draft \in Edited!Existing \cup {None} /\ workflow.next \in Nat
      /\ acts \in Nat /\ \A t \in Askers : command[t].copy.next \in Nat
  BY EditFacts
<1>1. /\ UNCHANGED <<product, mutation, command, editor, calls, log, lost>>
      /\ acts' \in Nat /\ workflow'.next = workflow.next + 1
      /\ workflow' \in [draft : Drafts \cup {None}, next : Nat]
      /\ workflow'.draft \in Edited!Existing \cup {None}
  BY <1>0 DEF Edited!PostEvent, Edited!Existing
<1>2. Edited!Existing' = Edited!Existing
  BY <1>1, SameCounts
<1>3. Edited!TypeOK'
  BY <1>0, <1>1 DEF Edited!TypeOK
<1>4. AsksAreOfDrafts' /\ FlushedAreNew'
  BY <1>0, <1>1, <1>2
  DEF AsksAreOfDrafts, IsAsked, Count, DraftsOf, FlushedAreNew, Edited!HoldsWorkflow
<1>5. CopyIsLevel'
  <2> SUFFICES ASSUME NEW t \in Askers, HasCopy(t)' PROVE IsLevel(command[t])'
    BY DEF CopyIsLevel
  <2>1. PICK y : y = command[t]
    OBVIOUS
  <2>2. IsLevel(y) /\ y.copy.next \in Nat
    BY <1>0, <1>1, <2>1 DEF HasCopy, CopyIsLevel
  <2>3. IsLevel(y)'
    BY <1>0, <1>1, <2>2, OvertakenIsLevel
  <2> QED BY <1>1, <2>1, <2>3 DEF IsLevel, Count, DraftsOf, Edited!Existing
<1> QED BY <1>3, <1>4, <1>5 DEF EditInv

-----------------------------------------------------------------------------
(* The invariant *)

LEMMA InitEdits == Edited!Init => EditInv
<1> SUFFICES ASSUME Edited!Init PROVE EditInv
  OBVIOUS
<1> USE DraftFacts
<1>1. /\ mutation = [k \in Keys |-> None] /\ command = [s \in Askers |-> Edited!Idle]
      /\ editor = [e \in Editors |-> None] /\ calls = [k \in Keys |-> 0]
      /\ log = <<>> /\ acts = 0 /\ lost = 0
  BY DEF Edited!Init
<1>2. /\ product \in [Drafts -> Edited!Products \cup {None}]
      /\ workflow \in [draft : Drafts \cup {None}, next : Nat]
      /\ workflow.draft \in Edited!Existing \cup {None}
  BY DEF Edited!Init, Edited!Products, Edited!Existing
<1>3. \A s \in Askers : command[s] = Edited!Idle
  BY <1>1
<1>4. Edited!TypeOK
  BY <1>1, <1>2, IdlePlace DEF Edited!TypeOK, CommandPlaces
<1>5. AsksAreOfDrafts
  BY <1>1, <1>2, <1>3, IdlePlace DEF AsksAreOfDrafts
<1>6. FlushedAreNew /\ CopyIsLevel
  BY <1>1, <1>3, IdlePlace DEF FlushedAreNew, CopyIsLevel, HasCopy, Edited!HoldsWorkflow
<1> QED BY <1>4, <1>5, <1>6 DEF EditInv

\* Every step keeps it.
LEMMA NextEdits == EditInv /\ [Edited!Next]_(Edited!vars) => EditInv'
<1> SUFFICES ASSUME EditInv, [Edited!Next]_(Edited!vars) PROVE EditInv'
  OBVIOUS
<1>1. CASE UNCHANGED Edited!vars
  <2>1. /\ Edited!TypeOK /\ AsksAreOfDrafts /\ FlushedAreNew /\ CopyIsLevel
        /\ UNCHANGED <<workflow, product, mutation, command, editor, calls, log, acts, lost>>
    BY <1>1 DEF EditInv, Edited!vars
  <2>2. Edited!TypeOK'
    BY <2>1 DEF Edited!TypeOK
  <2>3. AsksAreOfDrafts' /\ FlushedAreNew'
    BY <2>1
    DEF AsksAreOfDrafts, IsAsked, Count, DraftsOf, FlushedAreNew, Edited!HoldsWorkflow,
        Edited!Existing
  <2>4. CopyIsLevel'
    BY <2>1 DEF CopyIsLevel, HasCopy, IsLevel, Count, DraftsOf, Edited!Existing
  <2> QED BY <2>2, <2>3, <2>4 DEF EditInv
<1>2. ASSUME NEW s \in Askers, Edited!Step(s) PROVE EditInv'
  BY <1>2, QuietSteps, StoreStep, CommitStep DEF Edited!Step
<1>3. ASSUME NEW s \in Askers, Edited!Crash(s) PROVE EditInv'
  BY <1>3, QuietSteps
<1>4. ASSUME NEW s \in Askers, NEW k \in Keys, Edited!Send(s, k) \/ Edited!Retry(s, k)
      PROVE  EditInv'
  BY <1>4, QuietSteps
<1> QED
  BY <1>1, <1>2, <1>3, <1>4, EditStep, CommitEditStep, ReviseStep, EventStep DEF Edited!Next

\* A command that commits moves the workflow from the draft it was asked to start from, or
\* from one of another product: never from a newer draft of its own product.
LEMMA CommitKeepsDraft ==
    ASSUME EditInv, NEW s \in Askers, Edited!Commit(s), workflow.draft # command[s].ask.draft
    PROVE  workflow.draft # None /\ product[workflow.draft] # command[s].product
<1> DEFINE m == command[s]
<1>1. m.pc = "commit" /\ m.copy.next = workflow.next
  BY DEF Edited!Commit, Edited!HoldsWorkflow, Edited!Collides
<1>2. IsLevel(m)
  BY <1>1 DEF EditInv, CopyIsLevel, HasCopy
<1>3. CASE m.ask.draft # None
  BY <1>1, <1>2, <1>3 DEF IsLevel, EditInv, AsksAreOfDrafts
<1>4. CASE m.ask.draft = None
  BY <1>1, <1>4 DEF EditInv, AsksAreOfDrafts
<1> QED BY <1>3, <1>4

\* Although a command decides on the copy of the workflow row it made before the provider
\* was called, it never moves the workflow away from a newer draft of its product, for any
\* number of commands, editors, keys, products and drafts.
THEOREM CommandsKeepDraft == MCSpec => WorkflowKeepsDraft
<1> DEFINE Kept ==
       part = "edited" =>
         \A s \in Askers :
            Edited!Commit(s) /\ workflow.draft # command[s].ask.draft =>
               /\ workflow.draft # None
               /\ product[workflow.draft] # command[s].product
<1> DEFINE Inv == part = "edited" => EditInv
<1>1. MCInit => Inv
  BY InitEdits DEF MCInit
<1>2. Inv /\ [MCNext]_allVars => Inv'
  <2>1. Inv /\ UNCHANGED allVars => Inv'
    <3> SUFFICES ASSUME Inv, UNCHANGED allVars, part = "edited" PROVE EditInv'
      BY DEF allVars
    <3>1. UNCHANGED Edited!vars
      BY DEF allVars, commandVars, Edited!vars
    <3> QED BY <3>1, NextEdits
  <2>2. Inv /\ MCNext => Inv'
    BY NextEdits DEF MCNext
  <2> QED BY <2>1, <2>2
<1>3. Inv => Kept
  BY CommitKeepsDraft
<1> QED BY <1>1, <1>2, <1>3, PTL DEF MCSpec, WorkflowKeepsDraft
=============================================================================
