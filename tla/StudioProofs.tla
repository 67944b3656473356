---------------------------- MODULE StudioProofs ----------------------------
(***************************************************************************)
(* Proofs about the parts of Catalog Studio composed by MCCatalogStudio.   *)
(* A behaviour stays the behaviour of one part, so each property needs the *)
(* inductive invariant of its own part only.                               *)
(***************************************************************************)
EXTENDS MCCatalogStudio, Integers, FiniteSets, FiniteSetTheorems, TLAPS

-----------------------------------------------------------------------------
(* The part of a behaviour *)

\* A behaviour starts in the initial states of its part.
LEMMA PartInit ==
    ASSUME Init
    PROVE  /\ part = "images" => Images!Init
           /\ part = "sources" => Sources!Init
           /\ part = "gallery" => Gallery!Init
           /\ part = "suggestions" => Suggestions(Pair, {})!Init
           /\ part = "suggestion command" => Suggestions({Field}, SuggestionKeys)!Init
BY DEF Init

\* A step is one of the part, or leaves its variables alone.
LEMMA PartStep ==
    ASSUME [Next]_vars
    PROVE  /\ part' = part
           /\ part = "images" => [Images!Next]_(Images!vars)
           /\ part = "sources" => [Sources!Next]_(Sources!vars)
           /\ part = "gallery" => [Gallery!Next]_(Gallery!vars)
           /\ part = "suggestions" =>
                 [Suggestions(Pair, {})!Next]_(Suggestions(Pair, {})!vars)
           /\ part = "suggestion command" =>
                 [Suggestions({Field}, SuggestionKeys)!Next]_(Suggestions({Field}, SuggestionKeys)!vars)
BY DEF Next, vars, imageVars, sourceVars, suggestionVars, galleryVars, Sources!vars,
       Suggestions!vars, Gallery!vars, Images!vars

-----------------------------------------------------------------------------
(* The supplier sources *)

\* An upload alone writes the files of an asset without a row, a removal or a promotion
\* (which names its draft) holds the bundle, a removal so the row too, a promotion that is to
\* be marked is in the draft it has made, and only an edit or a media command takes an item
\* out of the draft before it.
SourceType ==
    /\ row \in [Pair -> {None, "ready", "promoted", "removed"}]
    /\ files \in [Pair -> SUBSET {"source", "preview"}]
    /\ mark \in [Pair -> Drafts \cup {None}]
    /\ media \in [Drafts -> SUBSET Pair] /\ DOMAIN by = Drafts
    /\ DOMAIN work = Sessions /\ made \in Nat \ {0} /\ 1 .. made \subseteq Drafts
    /\ \A s \in Sessions :
          work[s] # None /\ work[s].op \in {"upload", "remove", "promote", "mark"}
          => work[s].asset \in Pair
    /\ \A s \in Sessions : Sources!Doing(s, "edit") => work[s].media \subseteq Pair

KeepsMedia(d) == media[d - 1] \subseteq media[d] \/ by[d] = "edit"
Since(d, a) == d \in 1 .. made /\ a \in media[d]

SourceInv ==
    /\ SourceType
    /\ \A s \in Sessions : Sources!Doing(s, "upload") =>
          /\ row[work[s].asset] = None /\ files[work[s].asset] # {}
          /\ \A t \in Sessions : Sources!Doing(t, "upload") /\ work[t].asset = work[s].asset => s = t
    /\ \A s \in Sessions : Sources!Doing(s, "remove") =>
          bundle = s /\ row[work[s].asset] = "ready"
    /\ \A s \in Sessions : Sources!Doing(s, "promote") => bundle = s /\ work[s].draft # None
    /\ \A s \in Sessions : Sources!Doing(s, "mark") => Since(work[s].draft, work[s].asset)
    /\ \A a \in Pair : row[a] = "removed" => files[a] = {}
    /\ \A a \in Pair : row[a] = "promoted" => Since(mark[a], a)
    /\ \A d \in 2 .. made : KeepsMedia(d)

\* What StudioAssumption says of the sources.
LEMMA SourceConstants ==
    /\ Drafts \subseteq Nat /\ 1 \in Drafts
    /\ None \notin Nat /\ None \notin Sessions
    /\ None # "ready" /\ None # "promoted" /\ None # "removed"
BY StudioAssumption DEF Sources!SourceDraftAssumption

\* No source has been uploaded.
LEMMA InitSource == Sources!Init => SourceInv
BY SourceConstants DEF Sources!Init, SourceInv, SourceType, Sources!Doing

\* What is in a draft stays in it when the next one is made, and the next one keeps the
\* media of the newest, or is an edit.
LEMMA SinceLasts ==
    ASSUME SourceInv, NEW m, NEW kind, m \subseteq Pair,
           media[made] \subseteq m \/ kind = "edit",
           made' = made + 1, made + 1 \in Drafts, media' = [media EXCEPT ![made + 1] = m],
           by' = [by EXCEPT ![made + 1] = kind]
    PROVE  /\ media' \in [Drafts -> SUBSET Pair] /\ DOMAIN by' = Drafts
           /\ made' \in Nat \ {0} /\ 1 .. made' \subseteq Drafts
           /\ \A d, a : Since(d, a) => Since(d, a)'
           /\ \A d, a : d = made + 1 /\ a \in m => Since(d, a)'
           /\ \A d \in 2 .. made' : KeepsMedia(d)'
<1>1. /\ made \in Nat \ {0} /\ 1 .. made \subseteq Drafts
      /\ media \in [Drafts -> SUBSET Pair] /\ DOMAIN by = Drafts
  BY DEF SourceInv, SourceType
<1>2. /\ media'[made + 1] = m /\ \A d \in 1 .. made : media'[d] = media[d]
      /\ by'[made + 1] = kind /\ \A d \in 1 .. made : by'[d] = by[d]
  BY <1>1
<1>3. \A d, a : Since(d, a) => Since(d, a)'
  BY <1>1, <1>2 DEF Since
<1>4. \A d, a : d = made + 1 /\ a \in m => Since(d, a)'
  BY <1>1, <1>2 DEF Since
<1>5. ASSUME NEW d \in 2 .. made' PROVE KeepsMedia(d)'
  <2>1. CASE d = made + 1
    BY <1>1, <1>2, <2>1 DEF KeepsMedia
  <2>2. CASE d \in 2 .. made
    <3>1. KeepsMedia(d)
      BY <2>2 DEF SourceInv
    <3>2. media'[d] = media[d] /\ media'[d - 1] = media[d - 1] /\ by'[d] = by[d]
      BY <1>1, <1>2, <2>2
    <3> QED BY <3>1, <3>2 DEF KeepsMedia
  <2> QED BY <1>1, <2>1, <2>2
<1>6. /\ media' \in [Drafts -> SUBSET Pair] /\ DOMAIN by' = Drafts
      /\ made' \in Nat \ {0} /\ 1 .. made' \subseteq Drafts
  BY <1>1
<1> QED
  BY <1>3, <1>4, <1>5, <1>6

\* Every step of a request keeps the record of the sources.
LEMMA NextSource ==
    SourceInv /\ [Sources!Next]_(Sources!vars) => SourceInv'
<1> SUFFICES ASSUME SourceInv, [Sources!Next]_(Sources!vars) PROVE SourceInv'
  OBVIOUS
<1> USE SourceConstants
<1>1. CASE UNCHANGED Sources!vars
  BY <1>1 DEF Sources!vars, SourceInv, SourceType, Since, KeepsMedia, Sources!Doing
<1> USE DEF SourceInv, SourceType, Sources!Doing, Sources!Goto, Sources!End, Sources!Unlock,
            Sources!drafts, Sources!storage
<1>2. ASSUME NEW s \in Sessions, Sources!WriteFiles(s)
      PROVE  SourceInv'
  <2>1. UNCHANGED <<row, mark, public, made, media, by, attached, bundle>>
    BY <1>2 DEF Sources!WriteFiles
  <2>2. PICK a \in Pair : /\ row[a] = None /\ files[a] = {}
                          /\ files' = [files EXCEPT ![a] = {"source", "preview"}]
                          /\ work' = [work EXCEPT ![s] = [op |-> "upload", asset |-> a]]
    BY <1>2 DEF Sources!WriteFiles
  <2>3. \A d \in 2 .. made' : KeepsMedia(d)'
    BY <2>1 DEF KeepsMedia
  <2> QED BY <2>1, <2>2, <2>3 DEF Since
<1>3. ASSUME NEW s \in Sessions, Sources!CommitUpload(s)
      PROVE  SourceInv'
  BY <1>3 DEF Sources!CommitUpload, Since, KeepsMedia
<1>4. ASSUME NEW s \in Sessions, Sources!UndoUpload(s)
      PROVE  SourceInv'
  BY <1>4 DEF Sources!UndoUpload, Since, KeepsMedia
<1>5. ASSUME NEW s \in Sessions, Sources!StartRemove(s)
      PROVE  SourceInv'
  BY <1>5 DEF Sources!StartRemove, Since, KeepsMedia
<1>6. ASSUME NEW s \in Sessions, Sources!Unlink(s)
      PROVE  SourceInv'
  BY <1>6 DEF Sources!Unlink, Since, KeepsMedia
<1>7. ASSUME NEW s \in Sessions, Sources!CommitRemove(s)
      PROVE  SourceInv'
  BY <1>7 DEF Sources!CommitRemove, Sources!MayDelete, Since, KeepsMedia
<1>8. ASSUME NEW s \in Sessions, Sources!StartPromotion(s)
      PROVE  SourceInv'
  BY <1>8 DEF Sources!StartPromotion, Since, KeepsMedia
<1>9. ASSUME NEW s \in Sessions, Sources!CommitPromotion(s)
      PROVE  SourceInv'
  <2>1. work[s] # None /\ work[s].op = "promote" /\ work[s].draft = made
    BY <1>9 DEF Sources!CommitPromotion, Sources!Revise, Sources!Draft
  <2>2. PICK a \in Pair : a = work[s].asset
    BY <2>1
  <2> DEFINE m == media[made] \cup {a}
  <2>3. /\ made' = made + 1 /\ made + 1 \in Drafts /\ media' = [media EXCEPT ![made + 1] = m]
        /\ by' = [by EXCEPT ![made + 1] = "promotion"]
        /\ work' = [work EXCEPT ![s] = [op |-> "mark", asset |-> a, draft |-> made + 1]]
        /\ bundle' = None /\ UNCHANGED <<row, mark, files>>
    BY <1>9, <2>1, <2>2 DEF Sources!CommitPromotion, Sources!Revise, Sources!Draft
  <2>4. /\ media' \in [Drafts -> SUBSET Pair] /\ DOMAIN by' = Drafts
        /\ made' \in Nat \ {0} /\ 1 .. made' \subseteq Drafts
        /\ \A d, b : Since(d, b) => Since(d, b)'
        /\ \A d : d = made + 1 => Since(d, a)'
        /\ \A d \in 2 .. made' : KeepsMedia(d)'
    <3>1. media[made] \subseteq m /\ a \in m /\ m \subseteq Pair
      BY <2>2
    <3> HIDE DEF m, SourceInv
    <3> QED BY <2>3, <3>1, SinceLasts
  <2>5. \A t \in Sessions \ {s} :
           work'[t] = work[t] /\ ~ Sources!Doing(t, "remove") /\ ~ Sources!Doing(t, "promote")
    BY <2>1, <2>3
  <2>6. work'[s] = [op |-> "mark", asset |-> a, draft |-> made + 1] /\ DOMAIN work' = Sessions
    BY <2>3
  <2> HIDE DEF m
  <2>7. \A t \in Sessions : Sources!Doing(t, "mark")' => Since(work[t].draft, work[t].asset)'
    <3>1. ASSUME NEW t \in Sessions \ {s}, Sources!Doing(t, "mark")'
          PROVE  Since(work[t].draft, work[t].asset)'
      <4>1. PICK d, b : d = work[t].draft /\ b = work[t].asset
        OBVIOUS
      <4>2. Since(d, b) /\ d = work'[t].draft /\ b = work'[t].asset
        BY <2>5, <3>1, <4>1
      <4> QED BY <2>4, <4>2
    <3>2. Since(work[s].draft, work[s].asset)'
      <4>1. PICK d : d = made + 1
        OBVIOUS
      <4>2. Since(d, a)' /\ d = work'[s].draft /\ a = work'[s].asset
        BY <2>4, <2>6, <4>1
      <4> QED BY <4>2
    <3> QED BY <3>1, <3>2
  <2> QED BY <2>2, <2>3, <2>4, <2>5, <2>6, <2>7
<1>10. ASSUME NEW s \in Sessions, Sources!RefusePromotion(s)
       PROVE  SourceInv'
  <2>1. CASE work[s].created
    BY <1>10, <2>1 DEF Sources!RefusePromotion, Since, KeepsMedia
  <2>2. CASE ~ work[s].created
    BY <1>10, <2>2 DEF Sources!RefusePromotion, Since, KeepsMedia
  <2> QED BY <2>1, <2>2
<1>11. ASSUME NEW s \in Sessions, Sources!Clean(s) \/ Sources!Stop(s)
       PROVE  SourceInv'
  BY <1>11 DEF Sources!Clean, Sources!Stop, Since, KeepsMedia
<1>12. ASSUME NEW s \in Sessions, Sources!Mark(s)
       PROVE  SourceInv'
  BY <1>12 DEF Sources!Mark, Since, KeepsMedia
<1>13. ASSUME NEW s \in Sessions, Sources!CheckReferences(s) \/ Sources!CheckMutation(s)
       PROVE  SourceInv'
  <2>1. PICK w : /\ w.op = "edit" /\ w.media \subseteq Pair
                 /\ work' = [work EXCEPT ![s] = w]
    <3>1. \A m \in SUBSET Sources!Items : m \subseteq Pair
      BY DEF Sources!Items
    <3>2. ASSUME NEW a \in Sources!Items PROVE a \in Pair
      BY DEF Sources!Items
    <3>3. \A a : media[made] \ {a} \subseteq Pair
      OBVIOUS
    <3>4. \A a \in Sources!Items : media[made] \cup {a} \subseteq Pair
      BY <3>2
    <3>5. CASE Sources!CheckReferences(s)
      BY <3>1, <3>5 DEF Sources!CheckReferences
    <3>6. CASE Sources!CheckMutation(s)
      <4> DEFINE Lists == {media[made] \ {a} : a \in media[made]}
                           \cup {media[made] \cup {a} : a \in Sources!Items}
      <4>1. PICK m \in Lists :
               work' = [work EXCEPT ![s] = [op |-> "edit", draft |-> made, media |-> m,
                                            names |-> attached[made]]]
        BY <3>6 DEF Sources!CheckMutation
      <4>2. m \subseteq Pair
        BY <3>3, <3>4
      <4> QED BY <4>1, <4>2
    <3> QED BY <1>13, <3>5, <3>6
  <2>2. UNCHANGED <<row, mark, files, public, made, media, by, attached, bundle>>
    BY <1>13 DEF Sources!CheckReferences, Sources!CheckMutation
  <2> QED BY <2>1, <2>2 DEF Since, KeepsMedia
<1>14. ASSUME NEW s \in Sessions, Sources!CommitEdit(s)
       PROVE  SourceInv'
  <2>1. PICK m, k : m = work[s].media /\ k = "edit"
    OBVIOUS
  <2>2. /\ m \subseteq Pair /\ k = "edit"
        /\ made' = made + 1 /\ made + 1 \in Drafts
        /\ media' = [media EXCEPT ![made + 1] = m] /\ by' = [by EXCEPT ![made + 1] = k]
    BY <1>14, <2>1 DEF Sources!CommitEdit, Sources!Revise, Sources!Draft
  <2>3. /\ media' \in [Drafts -> SUBSET Pair] /\ DOMAIN by' = Drafts
        /\ made' \in Nat \ {0} /\ 1 .. made' \subseteq Drafts
        /\ \A d, a : Since(d, a) => Since(d, a)'
        /\ \A d \in 2 .. made' : KeepsMedia(d)'
    <3> HIDE DEF SourceInv
    <3> QED BY <2>2, SinceLasts
  <2> QED BY <1>14, <2>3 DEF Sources!CommitEdit
<1> QED
  BY <1>1, <1>2, <1>3, <1>4, <1>5, <1>6, <1>7, <1>8, <1>9, <1>10, <1>11, <1>12, <1>13, <1>14
  DEF Sources!Next, Sources!Upload, Sources!RemoveAsset, Sources!Promote

\* For any number of requests, sources and drafts, wherever a request stops: a removed
\* source has left no file, and a promoted one is in the draft it names and leaves the later
\* ones only by an edit or a media command.
THEOREM SourcesStayOnRecord == Spec => []SourceRecordIsTrue
<1> DEFINE Inv == part = "sources" => SourceInv
<1>1. Init => Inv
  BY PartInit, InitSource
<1>2. Inv /\ [Next]_vars => Inv'
  BY PartStep, NextSource
<1>3. Inv => SourceRecordIsTrue
  BY SourceConstants DEF SourceInv, SourceType, Since, KeepsMedia, SourceRecordIsTrue,
     Sources!SourceRecordIsTrue, Sources!RemovedLeavesNoFile, Sources!PromotedIsInDraft
<1> QED BY <1>1, <1>2, <1>3, PTL DEF Spec

-----------------------------------------------------------------------------
(* The suggestion sets, for any fields F and AI commands C *)

Creations(C) == [op : {"call", "create", "report"}, draft : Drafts, command : C \cup {None},
                 linked : Drafts \cup {None}]
Decisions(F, C) == [op : {"decide"}, set : Sets, seen : Suggestions(F, C)!SetRow, version : Nat]
SuggestionType(F, C) ==
    /\ made \in Nat \ {0} /\ 1 .. made \subseteq Drafts
    /\ content \in [Drafts -> [F -> Suggestions(F, C)!Values]]
    /\ sets \in [Sets -> Suggestions(F, C)!SetRow \cup {None}]
    /\ link \in Drafts \cup {None}
    /\ work \in [Sessions -> Creations(C) \cup Decisions(F, C) \cup {None}]
    /\ \A s \in Sessions : work[s] # None /\ work[s].op = "decide" => sets[work[s].set] # None

\* A pending suggestion has been applied to no draft, and what is recorded of an accepted
\* one is true of the drafts before and after it.
RowIsTrue(i, f) ==
    sets[i] # None =>
       /\ sets[i].choice[f] = "pending" => sets[i].applied[f] = None
       /\ sets[i].choice[f] = "accepted" =>
             LET d == sets[i].applied[f]
             IN /\ d \in 2 .. made /\ content[d][f] = <<"set", i>>
                /\ content[d - 1][f] = sets[i].prior[f]

\* The revision after draft d has kept field f, or it is known what wrote it.
IsKept(d, f) ==
    \/ content[d + 1][f] = content[d][f]
    \/ content[d + 1][f] = <<"edit", d + 1>>
    \/ \E i \in Sets : /\ sets[i] # None /\ sets[i].applied[f] = d + 1
                       /\ content[d + 1][f] = <<"set", i>>

SuggestionInv(F, C) ==
    /\ SuggestionType(F, C)
    /\ \A i \in Sets, f \in F : RowIsTrue(i, f)
    /\ \A d \in 1 .. made - 1, f \in F : IsKept(d, f)

\* A step changes neither a verdict on set i nor what it says of an applied suggestion.
Stands(F, i) ==
    sets[i] # None =>
       /\ sets'[i] # None
       /\ \A f \in F :
             /\ sets[i].choice[f] # "pending" =>
                   sets'[i].choice[f] = sets[i].choice[f] /\ sets'[i].prior[f] = sets[i].prior[f]
             /\ sets[i].applied[f] # None => sets'[i].applied[f] = sets[i].applied[f]

\* The drafts that exist are not written again.
DraftsStay == made' \in {made, made + 1} /\ \A d \in 1 .. made : content'[d] = content[d]

\* The one draft that exists was edited.
LEMMA InitSuggestion ==
    ASSUME NEW F, NEW C, Suggestions(F, C)!SuggestionAssumption, Suggestions(F, C)!Init
    PROVE  SuggestionInv(F, C)
BY DEF Suggestions!SuggestionAssumption, Suggestions!Init, SuggestionInv, SuggestionType,
       RowIsTrue, Suggestions!Values

\* So what a draft holds, it still holds.
LEMMA DraftsHold ==
    ASSUME DraftsStay, made \in Nat, NEW d \in 2 .. made, NEW f
    PROVE  /\ d \in 2 .. made'
           /\ content'[d][f] = content[d][f] /\ content'[d - 1][f] = content[d - 1][f]
<1>1. d \in 1 .. made /\ d - 1 \in 1 .. made
  OBVIOUS
<1> QED
  BY <1>1 DEF DraftsStay

\* A row that is kept as it is, or superseded, stays true.
LEMMA SupersededStands ==
    ASSUME NEW F, NEW C, Suggestions(F, C)!SuggestionAssumption, SuggestionInv(F, C), DraftsStay,
           NEW i \in Sets,
           \/ sets'[i] = sets[i]
           \/ sets[i] # None /\ sets'[i] = Suggestions(F, C)!Superseded(sets[i])
    PROVE  /\ sets'[i] \in Suggestions(F, C)!SetRow \cup {None} /\ Stands(F, i)
           /\ \A f \in F : RowIsTrue(i, f)'
<1>1. sets[i] \in Suggestions(F, C)!SetRow \cup {None} /\ made \in Nat \ {0}
  BY DEF SuggestionInv, SuggestionType
<1>2. ASSUME NEW f \in F, sets[i] # None
      PROVE  RowIsTrue(i, f)
  BY DEF SuggestionInv
<1>3. CASE sets'[i] = sets[i]
  <2>1. ASSUME NEW f \in F PROVE RowIsTrue(i, f)'
    <3>1. CASE sets[i] = None
      BY <1>3, <3>1 DEF RowIsTrue
    <3>2. CASE sets[i] # None
      <4>1. PICK d : d = sets[i].applied[f]
        OBVIOUS
      <4>2. d \in 2 .. made => /\ d \in 2 .. made' /\ content'[d][f] = content[d][f]
                              /\ content'[d - 1][f] = content[d - 1][f]
        BY <1>1, DraftsHold
      <4> QED BY <1>2, <1>3, <3>2, <4>1, <4>2 DEF RowIsTrue
    <3> QED BY <3>1, <3>2
  <2> QED BY <1>1, <1>3, <2>1 DEF Stands
<1>4. CASE sets[i] # None /\ sets'[i] = Suggestions(F, C)!Superseded(sets[i])
  <2> DEFINE x == sets[i]
             y == sets'[i]
  <2>1. /\ y \in Suggestions(F, C)!SetRow /\ y.prior = x.prior /\ y.applied = x.applied
        /\ \A f \in F : y.choice[f] = IF x.choice[f] = "pending" THEN "superseded" ELSE x.choice[f]
    <3>1. x \in Suggestions(F, C)!SetRow
      BY <1>1, <1>4
    <3>2. y = [x EXCEPT !.status = "superseded",
                        !.choice = [f \in F |-> IF x.choice[f] = "pending" THEN "superseded"
                                                ELSE x.choice[f]]]
      BY <1>4 DEF Suggestions!Superseded
    <3> HIDE DEF x, y
    <3>3. /\ y.prior = x.prior /\ y.applied = x.applied
          /\ y.choice = [f \in F |-> IF x.choice[f] = "pending" THEN "superseded" ELSE x.choice[f]]
      BY <3>1, <3>2 DEF Suggestions!SetRow
    <3>4. y.choice \in [F -> Suggestions(F, C)!Choices \cup {None}]
      BY <3>1, <3>3 DEF Suggestions!SetRow, Suggestions!Choices
    <3>5. y \in Suggestions(F, C)!SetRow
      BY <3>1, <3>2, <3>3, <3>4 DEF Suggestions!SetRow
    <3> QED BY <3>3, <3>5
  <2>2. y # None
    BY <2>1 DEF Suggestions!SuggestionAssumption
  <2>3. \A f \in F : y.choice[f] # "pending" /\ (y.choice[f] = "accepted" => x.choice[f] = "accepted")
    BY <2>1
  <2>4. ASSUME NEW f \in F PROVE RowIsTrue(i, f)'
    <3>1. PICK d : d = x.applied[f]
      OBVIOUS
    <3>2. d \in 2 .. made => /\ d \in 2 .. made' /\ content'[d][f] = content[d][f]
                            /\ content'[d - 1][f] = content[d - 1][f]
      BY <1>1, DraftsHold
    <3> QED BY <1>2, <1>4, <2>1, <2>3, <3>1, <3>2 DEF RowIsTrue
  <2> QED BY <1>4, <2>1, <2>2, <2>4 DEF Stands
<1> QED
  BY <1>3, <1>4

\* If every row stands, the revisions that were kept stay so.
LEMMA KeptStays ==
    ASSUME NEW F, NEW C, SuggestionInv(F, C), Suggestions(F, C)!SuggestionAssumption, DraftsStay,
           \A i \in Sets : Stands(F, i)
    PROVE  \A d \in 1 .. made - 1, f \in F : IsKept(d, f)'
<1> SUFFICES ASSUME NEW d \in 1 .. made - 1, NEW f \in F PROVE IsKept(d, f)'
  OBVIOUS
<1>1. IsKept(d, f) /\ made \in Nat
  BY DEF SuggestionInv, SuggestionType
<1>2. content'[d] = content[d] /\ content'[d + 1] = content[d + 1]
  BY <1>1 DEF DraftsStay
<1>3. ASSUME NEW i \in Sets, sets[i] # None, sets[i].applied[f] = d + 1
      PROVE  sets'[i] # None /\ sets'[i].applied[f] = d + 1
  BY <1>1, <1>3 DEF Stands, Suggestions!SuggestionAssumption
<1> QED
  BY <1>1, <1>2, <1>3 DEF IsKept

\* What an action has to show of the rows, the new draft and the types.
LEMMA SuggestionStep ==
    ASSUME NEW F, NEW C, SuggestionInv(F, C), Suggestions(F, C)!SuggestionAssumption,
           SuggestionType(F, C)', DraftsStay,
           \A i \in Sets : Stands(F, i) /\ \A f \in F : RowIsTrue(i, f)',
           \A d : d = made /\ made' = made + 1 => \A f \in F : IsKept(d, f)'
    PROVE  SuggestionInv(F, C)' /\ Suggestions(F, C)!VerdictsStand
<1>1. Suggestions(F, C)!VerdictsStand
  BY DEF Suggestions!VerdictsStand, Suggestions!Pending, Stands
<1>2. made \in Nat \ {0}
  BY DEF SuggestionInv, SuggestionType
<1>3. ASSUME NEW d \in 1 .. made' - 1, NEW f \in F
      PROVE  IsKept(d, f)'
  <2>1. CASE d \in 1 .. made - 1
    BY <2>1, KeptStays
  <2>2. CASE d = made /\ made' = made + 1
    BY <2>2
  <2> QED BY <1>2, <2>1, <2>2 DEF DraftsStay
<1> QED
  BY <1>1, <1>3 DEF SuggestionInv

\* A step of one request that leaves the drafts and the sets alone.
LEMMA QuietSuggestion ==
    ASSUME NEW F, NEW C, SuggestionInv(F, C), Suggestions(F, C)!SuggestionAssumption,
           UNCHANGED <<made, content, sets, link>>, NEW s \in Sessions,
           NEW w \in Creations(C) \cup Decisions(F, C) \cup {None},
           w # None /\ w.op = "decide" => sets[w.set] # None,
           work' = [work EXCEPT ![s] = w]
    PROVE  SuggestionInv(F, C)' /\ Suggestions(F, C)!VerdictsStand
<1>1. SuggestionType(F, C)'
  BY DEF SuggestionInv, SuggestionType, Creations, Decisions, Suggestions!SetRow,
         Suggestions!Values, Suggestions!Choices
<1>2. DraftsStay /\ made' # made + 1
  BY DEF DraftsStay, SuggestionInv, SuggestionType
<1> QED
  BY <1>1, <1>2, SupersededStands, SuggestionStep

\* An edit writes one field of the next draft, and supersedes sets or keeps them.
LEMMA EditSuggestion ==
    ASSUME NEW F, NEW C, SuggestionInv(F, C), Suggestions(F, C)!SuggestionAssumption,
           Suggestions(F, C)!Edit
    PROVE  SuggestionInv(F, C)' /\ Suggestions(F, C)!VerdictsStand
<1>1. PICK g \in F : Suggestions(F, C)!Revise([content[made] EXCEPT ![g] = <<"edit", made + 1>>])
  BY DEF Suggestions!Edit
<1>2. SuggestionType(F, C) /\ made \in Drafts
  BY DEF SuggestionInv, SuggestionType
<1>3. PICK n : n = made + 1
  OBVIOUS
<1>4. /\ made' = n /\ n \in Drafts /\ n \in Nat \ {0} /\ n # made
      /\ content' = [content EXCEPT ![n] = [content[made] EXCEPT ![g] = <<"edit", n>>]]
      /\ link' \in Drafts \cup {None} /\ work' = work
  <2>1. n \in Nat \ {0} /\ n # made
    BY <1>2, <1>3 DEF SuggestionType
  <2>2. /\ made' = n /\ n \in Drafts /\ link' = IF link = made THEN n ELSE link
        /\ content' = [content EXCEPT ![n] = [content[made] EXCEPT ![g] = <<"edit", n>>]]
    BY <1>1, <1>3 DEF Suggestions!Revise
  <2>3. link' \in Drafts \cup {None}
    BY <1>2, <2>2 DEF SuggestionType
  <2> QED BY <2>1, <2>2, <2>3 DEF Suggestions!Edit
<1>5. DraftsStay
  BY <1>2, <1>3, <1>4 DEF DraftsStay, SuggestionType
<1>6. /\ DOMAIN sets' = Sets
      /\ \A i \in Sets : \/ sets'[i] = sets[i]
                         \/ sets[i] # None /\ sets'[i] = Suggestions(F, C)!Superseded(sets[i])
  BY <1>2 DEF Suggestions!Edit, Suggestions!WithOthersSuperseded, Suggestions!IsOpen, SuggestionType
<1>7. \A i \in Sets : /\ sets'[i] \in Suggestions(F, C)!SetRow \cup {None} /\ Stands(F, i)
                      /\ \A f \in F : RowIsTrue(i, f)'
  BY <1>5, <1>6, SupersededStands
<1>8. content'[n] \in [F -> Suggestions(F, C)!Values]
  BY <1>2, <1>4 DEF SuggestionType, Suggestions!Values
<1>9. SuggestionType(F, C)'
  <2>1. content' \in [Drafts -> [F -> Suggestions(F, C)!Values]]
    BY <1>2, <1>4, <1>8 DEF SuggestionType
  <2>2. sets' \in [Sets -> Suggestions(F, C)!SetRow \cup {None}]
    <3>1. sets' = [i \in Sets |-> sets'[i]]
      BY <1>2, <1>6 DEF Suggestions!Edit, Suggestions!WithOthersSuperseded, SuggestionType
    <3> QED BY <1>7, <3>1
  <2>3. 1 .. made' \subseteq Drafts
    BY <1>2, <1>3, <1>4 DEF SuggestionType
  <2>4. \A s \in Sessions : work'[s] # None /\ work'[s].op = "decide" => sets'[work'[s].set] # None
    <3>1. ASSUME NEW s \in Sessions, work[s] # None, work[s].op = "decide"
          PROVE  work[s].set \in Sets /\ sets[work[s].set] # None
      BY <1>2, <3>1 DEF SuggestionType, Creations, Decisions
    <3> QED BY <1>4, <1>7, <3>1 DEF Stands
  <2>5. work' \in [Sessions -> Creations(C)' \cup Decisions(F, C)' \cup {None}]
    BY <1>2, <1>4 DEF SuggestionType, Creations, Decisions, Suggestions!SetRow, Suggestions!Choices,
       Suggestions!Values
  <2> QED BY <1>4, <2>1, <2>2, <2>3, <2>4, <2>5
      DEF SuggestionType, Suggestions!SetRow, Suggestions!Choices, Suggestions!Values
<1>10. ASSUME NEW d, d = made, NEW f \in F
       PROVE  IsKept(d, f)'
  <2>1. content'[d + 1][f] = IF f = g THEN <<"edit", d + 1>> ELSE content[d][f]
    BY <1>2, <1>3, <1>4, <1>10 DEF SuggestionType
  <2>2. content'[d] = content[d]
    BY <1>2, <1>5, <1>10 DEF DraftsStay, SuggestionType
  <2> QED BY <2>1, <2>2 DEF IsKept
<1> QED
  BY <1>5, <1>7, <1>9, <1>10, SuggestionStep

\* The set of an AI command, or of a request, is new and all its suggestions are pending.
LEMMA CommitSuggestion ==
    ASSUME NEW F, NEW C, SuggestionInv(F, C), Suggestions(F, C)!SuggestionAssumption,
           NEW s \in Sessions, Suggestions(F, C)!CommitSet(s)
    PROVE  SuggestionInv(F, C)' /\ Suggestions(F, C)!VerdictsStand
<1>1. PICK i \in Sets, fields \in SUBSET F \ {{}} :
         /\ Suggestions(F, C)!NewSet(i)
         /\ sets' = [sets EXCEPT ![i] =
               [base |-> work[s].draft, current |-> work[s].draft, status |-> "pending",
                choice |-> [f \in F |-> IF f \in fields THEN "pending" ELSE None],
                prior |-> [f \in F |-> None], applied |-> [f \in F |-> None]]]
  BY DEF Suggestions!CommitSet
<1>2. SuggestionType(F, C) /\ None \notin Nat
  BY DEF SuggestionInv, Suggestions!SuggestionAssumption
<1>3. work[s] # None /\ work[s].op = "create" /\ work[s] \in Creations(C)
  BY <1>2 DEF Suggestions!CommitSet, Suggestions!Doing, SuggestionType, Creations, Decisions
<1>4. work[s].draft \in Drafts
  BY <1>3 DEF Creations
<1>5. PICK w : w = IF work[s].command = None THEN None ELSE [work[s] EXCEPT !.op = "report"]
  OBVIOUS
<1>6. w \in Creations(C) \cup {None} /\ (w # None => w.op # "decide")
  BY <1>3, <1>5 DEF Creations
<1>7. /\ work' = [work EXCEPT ![s] = w] /\ UNCHANGED <<made, content>>
      /\ link' \in Drafts \cup {None}
  BY <1>2, <1>4, <1>5 DEF Suggestions!CommitSet, Suggestions!Goto, SuggestionType
<1>8. DraftsStay /\ made' # made + 1
  BY <1>2, <1>7 DEF DraftsStay, SuggestionType
<1>9. sets[i] = None
  BY <1>1 DEF Suggestions!NewSet
<1>10. sets'[i] \in Suggestions(F, C)!SetRow
  BY <1>1, <1>2, <1>4 DEF SuggestionType, Suggestions!SetRow, Suggestions!Choices
<1>11. \A f \in F : /\ sets'[i].choice[f] \in {"pending", None} /\ sets'[i].applied[f] = None
                    /\ sets'[i].prior[f] = None
  BY <1>1, <1>2 DEF SuggestionType
<1>12. ASSUME NEW j \in Sets
       PROVE  Stands(F, j) /\ \A f \in F : RowIsTrue(j, f)'
  <2>1. CASE j = i
    <3>1. None # "accepted"
      BY DEF Suggestions!SuggestionAssumption, Suggestions!Choices
    <3> QED BY <1>9, <1>11, <2>1, <3>1 DEF Stands, RowIsTrue
  <2>2. CASE j # i
    <3>1. sets'[j] = sets[j]
      BY <1>1, <1>2, <2>2 DEF SuggestionType
    <3> QED BY <1>8, <3>1, SupersededStands
  <2> QED BY <2>1, <2>2
<1>13. SuggestionType(F, C)'
  <2>1. sets' \in [Sets -> Suggestions(F, C)!SetRow \cup {None}]
    BY <1>1, <1>2, <1>10 DEF SuggestionType
  <2>2. \A t \in Sessions : work'[t] # None /\ work'[t].op = "decide" => sets'[work'[t].set] # None
    <3>1. ASSUME NEW t \in Sessions, t # s, work[t] # None, work[t].op = "decide"
          PROVE  work[t].set \in Sets /\ sets[work[t].set] # None
      BY <1>2, <3>1 DEF SuggestionType, Creations, Decisions
    <3> QED BY <1>2, <1>6, <1>7, <1>12, <3>1 DEF Stands, SuggestionType
  <2>3. work' \in [Sessions -> Creations(C)' \cup Decisions(F, C)' \cup {None}]
    BY <1>2, <1>6, <1>7 DEF SuggestionType, Creations, Decisions, Suggestions!SetRow,
       Suggestions!Choices, Suggestions!Values
  <2> QED BY <1>2, <1>7, <2>1, <2>2, <2>3
      DEF SuggestionType, Suggestions!SetRow, Suggestions!Choices, Suggestions!Values
<1> QED
  BY <1>8, <1>12, <1>13, SuggestionStep

\* What a decision on the pending suggestions `chosen` makes of row x.
LEMMA DecidedRow ==
    ASSUME NEW F, NEW C, SuggestionType(F, C), Suggestions(F, C)!SuggestionAssumption,
           NEW x \in Suggestions(F, C)!SetRow, x.current = made,
           NEW action \in {"accept", "reject", "supersede"}, action = "accept" => made + 1 \in Drafts,
           NEW chosen \in SUBSET F, NEW y, y = Suggestions(F, C)!Decided(x, action, chosen)
    PROVE  /\ y \in Suggestions(F, C)!SetRow
           /\ \A f \in chosen :
                 /\ y.choice[f] = Suggestions(F, C)!Verdict(action) /\ y.prior[f] = content[made][f]
                 /\ y.applied[f] = IF action = "accept" THEN made + 1 ELSE x.applied[f]
           /\ \A f \in F \ chosen :
                 y.choice[f] = x.choice[f] /\ y.prior[f] = x.prior[f] /\ y.applied[f] = x.applied[f]
<1>1. Suggestions(F, C)!Verdict(action) \in Suggestions(F, C)!Choices
  BY DEF Suggestions!Verdict, Suggestions!Choices
<1>2. \A f \in F : content[made][f] \in Suggestions(F, C)!Values
  BY DEF SuggestionType
<1>3. /\ y.base = x.base /\ y.current = (IF action = "accept" THEN made + 1 ELSE made)
      /\ y.status \in {"pending", "partially_reviewed", "reviewed", "superseded"}
      /\ y.choice = [f \in F |-> IF f \in chosen THEN Suggestions(F, C)!Verdict(action) ELSE x.choice[f]]
      /\ y.prior = [f \in F |-> IF f \in chosen THEN content[made][f] ELSE x.prior[f]]
      /\ y.applied = [f \in F |-> IF f \in chosen /\ action = "accept" THEN made + 1
                                                                     ELSE x.applied[f]]
      /\ y = [base |-> y.base, current |-> y.current, status |-> y.status, choice |-> y.choice,
              prior |-> y.prior, applied |-> y.applied]
  BY DEF Suggestions!Decided, Suggestions!Prior
<1>4. /\ y.choice \in [F -> Suggestions(F, C)!Choices \cup {None}]
      /\ y.prior \in [F -> Suggestions(F, C)!Values \cup {None}]
      /\ y.applied \in [F -> Drafts \cup {None}]
      /\ y.base \in Drafts /\ y.current \in Drafts
  BY <1>1, <1>2, <1>3 DEF Suggestions!SetRow
<1>5. y \in Suggestions(F, C)!SetRow
  BY <1>3, <1>4 DEF Suggestions!SetRow
<1> QED
  BY <1>3, <1>5

\* A decision is on the row as it is under its lock; an acceptance writes its fields into
\* the next draft.
LEMMA DecideSuggestion ==
    ASSUME NEW F, NEW C, SuggestionInv(F, C), Suggestions(F, C)!SuggestionAssumption,
           NEW s \in Sessions, Suggestions(F, C)!Decide(s)
    PROVE  SuggestionInv(F, C)' /\ Suggestions(F, C)!VerdictsStand
<1>1. SuggestionType(F, C) /\ made \in Drafts /\ None \notin Nat
  BY DEF SuggestionInv, SuggestionType, Suggestions!SuggestionAssumption
<1>2. work[s] # None /\ work[s].op = "decide" /\ work[s] \in Decisions(F, C)
  BY <1>1 DEF Suggestions!Decide, Suggestions!Doing, SuggestionType, Creations, Decisions
<1>3. PICK i \in Sets : i = work[s].set
  BY <1>2 DEF Decisions
<1>4. sets[i] \in Suggestions(F, C)!SetRow /\ sets[i].current = made
  BY <1>1, <1>2, <1>3 DEF SuggestionType, Suggestions!Decide, Suggestions!Reread, Suggestions!IsCurrent
<1>5. PICK chosen \in SUBSET Suggestions(F, C)!Pending(sets[i]) \ {{}},
           action \in {"accept", "reject", "supersede"} :
         IF action = "accept"
         THEN /\ Suggestions(F, C)!Revise([f \in F |-> IF f \in chosen THEN <<"set", i>>
                                                       ELSE content[sets[i].current][f]])
              /\ sets' = [Suggestions(F, C)!WithOthersSuperseded({i}) EXCEPT ![i] =
                             Suggestions(F, C)!Decided(sets[i], action, chosen)]
         ELSE /\ sets' = [sets EXCEPT ![i] = Suggestions(F, C)!Decided(sets[i], action, chosen)]
              /\ UNCHANGED <<made, content, link>>
  BY <1>3 DEF Suggestions!Decide, Suggestions!Reread
<1>6. chosen \in SUBSET F /\ \A f \in chosen : sets[i].choice[f] = "pending"
  BY DEF Suggestions!Pending
<1>7. PICK n : n = made + 1
  OBVIOUS
<1>8. n \in Nat \ {0} /\ n # made
  BY <1>1, <1>7 DEF SuggestionType
<1>9. action = "accept" =>
         /\ made' = n /\ n \in Drafts /\ link' = (IF link = made THEN n ELSE link)
         /\ content' = [content EXCEPT ![n] = [f \in F |-> IF f \in chosen THEN <<"set", i>>
                                                                     ELSE content[made][f]]]
  BY <1>4, <1>5, <1>7 DEF Suggestions!Revise
<1>10. DraftsStay
  BY <1>1, <1>5, <1>7, <1>8, <1>9 DEF DraftsStay, SuggestionType
<1>11. PICK y : y = Suggestions(F, C)!Decided(sets[i], action, chosen)
  OBVIOUS
<1>12. /\ y \in Suggestions(F, C)!SetRow
       /\ \A f \in chosen :
             /\ y.choice[f] = Suggestions(F, C)!Verdict(action) /\ y.prior[f] = content[made][f]
             /\ y.applied[f] = IF action = "accept" THEN n ELSE sets[i].applied[f]
       /\ \A f \in F \ chosen : /\ y.choice[f] = sets[i].choice[f] /\ y.prior[f] = sets[i].prior[f]
                                /\ y.applied[f] = sets[i].applied[f]
  BY <1>1, <1>4, <1>6, <1>7, <1>9, <1>11, DecidedRow
<1>13. /\ DOMAIN sets' = Sets /\ sets'[i] = y
       /\ \A j \in Sets \ {i} :
             \/ sets'[j] = sets[j]
             \/ sets[j] # None /\ sets'[j] = Suggestions(F, C)!Superseded(sets[j])
  BY <1>1, <1>5, <1>11 DEF Suggestions!WithOthersSuperseded, Suggestions!IsOpen, SuggestionType
<1>14. Stands(F, i)
  <2>1. y # None /\ \A f \in F : sets[i].choice[f] = "pending" => sets[i].applied[f] = None
    BY <1>4, <1>12 DEF SuggestionInv, RowIsTrue, Suggestions!SuggestionAssumption
  <2> QED BY <1>6, <1>12, <1>13, <2>1 DEF Stands
<1>15. ASSUME NEW f \in F
       PROVE  RowIsTrue(i, f)'
  <2>1. RowIsTrue(i, f) /\ sets[i] # None
    BY <1>4 DEF SuggestionInv, Suggestions!SuggestionAssumption
  <2>2. CASE f \in chosen /\ action = "accept"
    <3>1. y.choice[f] = "accepted" /\ y.applied[f] = n /\ y.prior[f] = content[made][f]
      BY <1>12, <2>2 DEF Suggestions!Verdict
    <3>2. n \in 2 .. made' /\ n - 1 = made
      <4>1. made \in Nat \ {0} /\ made' = n
        BY <1>1, <1>9, <2>2 DEF SuggestionType
      <4> QED BY <1>7, <4>1
    <3>3. content'[n][f] = <<"set", i>> /\ content'[made] = content[made]
      BY <1>1, <1>8, <1>9, <2>2 DEF SuggestionType
    <3> QED BY <1>13, <3>1, <3>2, <3>3 DEF RowIsTrue
  <2>3. CASE f \in chosen /\ action # "accept"
    <3>1. y.choice[f] \in {"rejected", "superseded"}
      BY <1>12, <2>3 DEF Suggestions!Verdict
    <3> QED BY <1>13, <3>1 DEF RowIsTrue
  <2>4. CASE f \notin chosen
    <3>1. PICK d : d = sets[i].applied[f]
      OBVIOUS
    <3>2. d \in 2 .. made => /\ d \in 2 .. made' /\ content'[d][f] = content[d][f]
                            /\ content'[d - 1][f] = content[d - 1][f]
      BY <1>1, <1>10, DraftsHold DEF SuggestionType
    <3> QED BY <1>12, <1>13, <2>1, <2>4, <3>1, <3>2 DEF RowIsTrue
  <2> QED BY <2>2, <2>3, <2>4
<1>16. \A j \in Sets : /\ sets'[j] \in Suggestions(F, C)!SetRow \cup {None} /\ Stands(F, j)
                       /\ \A f \in F : RowIsTrue(j, f)'
  <2>1. ASSUME NEW j \in Sets \ {i}
        PROVE  /\ sets'[j] \in Suggestions(F, C)!SetRow \cup {None} /\ Stands(F, j)
               /\ \A f \in F : RowIsTrue(j, f)'
    BY <1>10, <1>13, SupersededStands
  <2> QED BY <1>12, <1>13, <1>14, <1>15, <2>1
<1>17. SuggestionType(F, C)'
  <2>1. content' \in [Drafts -> [F -> Suggestions(F, C)!Values]]
    <3>1. CASE action = "accept"
      <4>1. [f \in F |-> IF f \in chosen THEN <<"set", i>> ELSE content[made][f]]
              \in [F -> Suggestions(F, C)!Values]
        BY <1>1 DEF SuggestionType, Suggestions!Values
      <4> QED BY <1>1, <1>9, <3>1, <4>1 DEF SuggestionType
    <3>2. CASE action # "accept"
      BY <1>1, <1>5, <3>2 DEF SuggestionType
    <3> QED BY <3>1, <3>2
  <2>2. sets' \in [Sets -> Suggestions(F, C)!SetRow \cup {None}]
    <3>1. sets' = [j \in Sets |-> sets'[j]]
      BY <1>1, <1>5 DEF Suggestions!WithOthersSuperseded, SuggestionType
    <3> QED BY <1>16, <3>1
  <2>3. made' \in Nat \ {0} /\ 1 .. made' \subseteq Drafts /\ link' \in Drafts \cup {None}
    <3>1. made \in Nat \ {0} /\ 1 .. made \subseteq Drafts /\ link \in Drafts \cup {None}
      BY <1>1 DEF SuggestionType
    <3>2. CASE action = "accept"
      <4>1. made' = n /\ n \in Drafts /\ link' = (IF link = made THEN n ELSE link)
        BY <1>9, <3>2
      <4> QED BY <1>7, <1>8, <3>1, <4>1
    <3>3. CASE action # "accept"
      BY <1>5, <3>1, <3>3
    <3> QED BY <3>2, <3>3
  <2>4. work' = [work EXCEPT ![s] = None]
    BY DEF Suggestions!Decide, Suggestions!End, Suggestions!Goto
  <2>5. \A t \in Sessions : work'[t] # None /\ work'[t].op = "decide" => sets'[work'[t].set] # None
    <3>1. ASSUME NEW t \in Sessions, work[t] # None, work[t].op = "decide"
          PROVE  work[t].set \in Sets /\ sets[work[t].set] # None
      BY <1>1, <3>1 DEF SuggestionType, Creations, Decisions
    <3> QED BY <1>1, <1>16, <2>4, <3>1 DEF Stands, SuggestionType
  <2>6. work' \in [Sessions -> Creations(C)' \cup Decisions(F, C)' \cup {None}]
    BY <1>1, <2>4 DEF SuggestionType, Creations, Decisions, Suggestions!SetRow,
       Suggestions!Choices, Suggestions!Values
  <2> QED BY <2>1, <2>2, <2>3, <2>5, <2>6
      DEF SuggestionType, Suggestions!SetRow, Suggestions!Choices, Suggestions!Values
<1>18. ASSUME NEW d, d = made, made' = made + 1, NEW f \in F
       PROVE  IsKept(d, f)'
  <2>1. action = "accept"
    BY <1>5, <1>7, <1>8, <1>18
  <2>2. content'[d + 1][f] = (IF f \in chosen THEN <<"set", i>> ELSE content[d][f])
    BY <1>1, <1>7, <1>9, <1>18, <2>1 DEF SuggestionType
  <2>3. content'[d] = content[d]
    BY <1>1, <1>10, <1>18 DEF DraftsStay, SuggestionType
  <2>4. f \in chosen => sets'[i] # None /\ sets'[i].applied[f] = d + 1
    BY <1>4, <1>7, <1>12, <1>13, <1>14, <1>18, <2>1 DEF Suggestions!SuggestionAssumption
  <2> QED BY <2>2, <2>3, <2>4 DEF IsKept
<1> QED
  BY <1>10, <1>16, <1>17, <1>18, SuggestionStep

\* Every step of an edit, a request or an AI command keeps the sets true.
LEMMA NextSuggestion ==
    ASSUME NEW F, NEW C, SuggestionInv(F, C), Suggestions(F, C)!SuggestionAssumption,
           [Suggestions(F, C)!Next]_(Suggestions(F, C)!vars)
    PROVE  SuggestionInv(F, C)' /\ Suggestions(F, C)!VerdictsStand
<1> DEFINE Goal == SuggestionInv(F, C)' /\ Suggestions(F, C)!VerdictsStand
<1>0. /\ SuggestionType(F, C) /\ None \notin Nat /\ made \in Drafts /\ link \in Drafts \cup {None}
      /\ \A s \in Sessions : work[s] \in Creations(C) \cup Decisions(F, C) \cup {None}
  BY DEF SuggestionInv, SuggestionType, Suggestions!SuggestionAssumption
<1>1. CASE UNCHANGED Suggestions(F, C)!vars
  <2>1. UNCHANGED <<made, content, sets, link, work>>
    BY <1>1 DEF Suggestions!vars
  <2>2. Creations(C)' = Creations(C) /\ Decisions(F, C)' = Decisions(F, C)
    BY DEF Creations, Decisions, Suggestions!SetRow, Suggestions!Choices, Suggestions!Values
  <2>3. Suggestions(F, C)!Values' = Suggestions(F, C)!Values
        /\ Suggestions(F, C)!SetRow' = Suggestions(F, C)!SetRow
    BY DEF Suggestions!SetRow, Suggestions!Choices, Suggestions!Values
  <2>4. SuggestionType(F, C)'
    BY <2>1, <2>2, <2>3, <1>0 DEF SuggestionType
  <2>5. \A i \in Sets, f \in F : RowIsTrue(i, f)'
    BY <2>1 DEF SuggestionInv, RowIsTrue
  <2>6. \A d \in 1 .. made' - 1, f \in F : IsKept(d, f)'
    BY <2>1 DEF SuggestionInv, IsKept
  <2>7. Suggestions(F, C)!VerdictsStand
    BY <2>1 DEF Suggestions!VerdictsStand
  <2> QED BY <2>4, <2>5, <2>6, <2>7 DEF SuggestionInv
<1>2. ASSUME NEW s \in Sessions, Suggestions(F, C)!StartSet(s)
      PROVE  Goal
  <2>1. PICK w : w = [Suggestions(F, C)!Creation(made, None)
                         EXCEPT !.op = "create", !.draft = made, !.linked = link]
    OBVIOUS
  <2>2. w \in Creations(C) /\ w.op = "create"
    BY <1>0, <2>1 DEF Suggestions!Creation, Creations
  <2>3. w \in Creations(C) \cup Decisions(F, C) \cup {None} /\ work' = [work EXCEPT ![s] = w]
        /\ UNCHANGED <<made, content, sets, link>>
    BY <1>2, <2>1, <2>2 DEF Suggestions!StartSet, Suggestions!CheckSet, Suggestions!Goto
  <2> QED BY <2>2, <2>3, QuietSuggestion
<1>3. ASSUME NEW s \in Sessions, Suggestions(F, C)!StartDecision(s)
      PROVE  Goal
  <2>1. PICK i \in Sets :
           /\ sets[i] # None
           /\ work' = [work EXCEPT ![s] =
                         [op |-> "decide", set |-> i, seen |-> sets[i], version |-> made]]
    BY <1>3 DEF Suggestions!StartDecision, Suggestions!Begin
  <2>2. PICK w : w = [op |-> "decide", set |-> i, seen |-> sets[i], version |-> made]
    OBVIOUS
  <2>3. w \in Decisions(F, C) /\ sets[w.set] # None
    BY <1>0, <2>1, <2>2 DEF Decisions, SuggestionType
  <2>4. w \in Creations(C) \cup Decisions(F, C) \cup {None} /\ work' = [work EXCEPT ![s] = w]
        /\ UNCHANGED <<made, content, sets, link>>
    BY <1>3, <2>1, <2>2, <2>3 DEF Suggestions!StartDecision
  <2> QED BY <2>3, <2>4, QuietSuggestion
<1>4. ASSUME NEW s \in Sessions,
             Suggestions(F, C)!Abandon(s) \/ Suggestions(F, C)!Complete(s)
             \/ Suggestions(F, C)!FailCommand(s)
      PROVE  Goal
  <2>1. work' = [work EXCEPT ![s] = None] /\ UNCHANGED <<made, content, sets, link>>
    BY <1>4 DEF Suggestions!Abandon, Suggestions!Complete, Suggestions!FailCommand,
       Suggestions!End, Suggestions!Goto
  <2> QED BY <2>1, QuietSuggestion
<1>5. ASSUME NEW s \in Sessions, Suggestions(F, C)!Reserve(s)
      PROVE  Goal
  <2>1. PICK c \in C : work' = [work EXCEPT ![s] =
                                  [Suggestions(F, C)!Creation(made, c) EXCEPT !.op = "call"]]
    BY <1>5 DEF Suggestions!Reserve, Suggestions!Begin
  <2>2. PICK w : w = [Suggestions(F, C)!Creation(made, c) EXCEPT !.op = "call"]
    OBVIOUS
  <2>3. w \in Creations(C) /\ w.op = "call"
    BY <1>0, <2>2 DEF Suggestions!Creation, Creations
  <2>4. w \in Creations(C) \cup Decisions(F, C) \cup {None} /\ work' = [work EXCEPT ![s] = w]
        /\ UNCHANGED <<made, content, sets, link>>
    BY <1>5, <2>1, <2>2, <2>3 DEF Suggestions!Reserve
  <2> QED BY <2>3, <2>4, QuietSuggestion
<1>6. ASSUME NEW s \in Sessions, Suggestions(F, C)!Proposed(s)
      PROVE  Goal
  <2>1. work[s] # None /\ work[s].op = "call" /\ work[s].draft = made
    BY <1>6 DEF Suggestions!Proposed, Suggestions!Doing, Suggestions!CheckSet
  <2>2. work[s] \in Creations(C)
    BY <1>0, <2>1 DEF Decisions
  <2>3. PICK w : w = [work[s] EXCEPT !.op = "create", !.draft = made, !.linked = link]
    OBVIOUS
  <2>4. w \in Creations(C) /\ w.op = "create"
    BY <1>0, <2>2, <2>3 DEF Creations
  <2>5. w \in Creations(C) \cup Decisions(F, C) \cup {None} /\ work' = [work EXCEPT ![s] = w]
        /\ UNCHANGED <<made, content, sets, link>>
    BY <1>6, <2>1, <2>3, <2>4 DEF Suggestions!Proposed, Suggestions!CheckSet, Suggestions!Goto
  <2> QED BY <2>4, <2>5, QuietSuggestion
<1> QED
  BY <1>1, <1>2, <1>3, <1>4, <1>5, <1>6, EditSuggestion, CommitSuggestion, DecideSuggestion
  DEF Suggestions!Next, Suggestions!Request, Suggestions!Ask

\* The invariant of both instances of the suggestions.
ReviewInv ==
    /\ part = "suggestions" => SuggestionInv(Pair, {})
    /\ part = "suggestion command" => SuggestionInv({Field}, SuggestionKeys)

LEMMA ReviewKeepsInv ==
    /\ Init => ReviewInv
    /\ ReviewInv /\ [Next]_vars => ReviewInv'
<1>1. /\ Suggestions(Pair, {})!SuggestionAssumption
      /\ Suggestions({Field}, SuggestionKeys)!SuggestionAssumption
  BY StudioAssumption
<1>2. Init => ReviewInv
  BY <1>1, PartInit, InitSuggestion DEF ReviewInv
<1>3. ReviewInv /\ [Next]_vars => ReviewInv'
  <2> SUFFICES ASSUME ReviewInv, [Next]_vars PROVE ReviewInv'
    OBVIOUS
  <2>1. ASSUME part = "suggestions" PROVE SuggestionInv(Pair, {})'
    <3>1. SuggestionInv(Pair, {}) /\ [Suggestions(Pair, {})!Next]_(Suggestions(Pair, {})!vars)
      BY <2>1, PartStep DEF ReviewInv
    <3> QED BY <1>1, <3>1, NextSuggestion
  <2>2. ASSUME part = "suggestion command" PROVE SuggestionInv({Field}, SuggestionKeys)'
    <3>1. /\ SuggestionInv({Field}, SuggestionKeys)
          /\ [Suggestions({Field}, SuggestionKeys)!Next]_(Suggestions({Field}, SuggestionKeys)!vars)
      BY <2>2, PartStep DEF ReviewInv
    <3> QED BY <1>1, <3>1, NextSuggestion
  <2> QED BY <2>1, <2>2, PartStep DEF ReviewInv
<1> QED BY <1>2, <1>3

\* For any number of fields, drafts, sets, requests and AI commands: no revision loses what
\* an earlier one holds, and what a set records of an accepted suggestion is true of the
\* drafts before and after it.
THEOREM AcceptedStaysApplied == Spec => []AcceptedIsApplied
<1>1. ReviewInv => AcceptedIsApplied
  <2>1. ASSUME NEW F, NEW C, SuggestionInv(F, C) PROVE Suggestions(F, C)!AcceptedIsApplied
    BY <2>1 DEF SuggestionInv, RowIsTrue, IsKept, Suggestions!AcceptedIsApplied,
       Suggestions!RevisionKeepsOtherFields, Suggestions!AuditIsTrue
  <2> QED BY <2>1 DEF ReviewInv, AcceptedIsApplied
<1> QED BY <1>1, ReviewKeepsInv, PTL DEF Spec

\* For any number of fields, drafts, sets, requests and AI commands: concurrent decisions
\* and edits never change a verdict, nor the prior value recorded with it.
THEOREM VerdictsAreFinal == Spec => VerdictIsFinal
<1>1. ReviewInv /\ [Next]_vars =>
         [/\ part = "suggestions" => Suggestions(Pair, {})!VerdictsStand
          /\ part = "suggestion command" => Suggestions({Field}, SuggestionKeys)!VerdictsStand]_vars
  <2> SUFFICES ASSUME ReviewInv, [Next]_vars
               PROVE  /\ part = "suggestions" => Suggestions(Pair, {})!VerdictsStand
                      /\ part = "suggestion command" =>
                            Suggestions({Field}, SuggestionKeys)!VerdictsStand
    OBVIOUS
  <2>1. ASSUME part = "suggestions" PROVE Suggestions(Pair, {})!VerdictsStand
    <3>1. SuggestionInv(Pair, {}) /\ [Suggestions(Pair, {})!Next]_(Suggestions(Pair, {})!vars)
      BY <2>1, PartStep DEF ReviewInv
    <3> QED BY <3>1, NextSuggestion, StudioAssumption
  <2>2. ASSUME part = "suggestion command"
        PROVE  Suggestions({Field}, SuggestionKeys)!VerdictsStand
    <3>1. /\ SuggestionInv({Field}, SuggestionKeys)
          /\ [Suggestions({Field}, SuggestionKeys)!Next]_(Suggestions({Field}, SuggestionKeys)!vars)
      BY <2>2, PartStep DEF ReviewInv
    <3> QED BY <3>1, NextSuggestion, StudioAssumption
  <2> QED BY <2>1, <2>2
<1> QED BY <1>1, ReviewKeepsInv, PTL DEF Spec, VerdictIsFinal

-----------------------------------------------------------------------------
(* Galleries *)

\* A gallery can be renumbered: its rows are told apart by id and by place, and the core,
\* which is approved, is the row in the first place.
Numbered(g) ==
    /\ g \subseteq Gallery!AssetRow /\ IsFiniteSet(g)
    /\ \A x, y \in g : x.id = y.id \/ x.order = y.order => x = y
    /\ \A x \in g : (x.role = "core" <=> x.order = 0) /\ (x.role = "core" => x.status = "approved")
    /\ g # {} => \E x \in g : x.order = 0

\* It is dense when every place up to its size is taken; the next place is then free.
Dense(g) == Numbered(g) /\ \A x \in g : x.order < Cardinality(g)

LEMMA NumberedIsReadable == \A g : Numbered(g) => Gallery!IsReadable(g)
BY DEF Numbered, Gallery!IsReadable

\* A row is found by its id.
LEMMA GetRow ==
    ASSUME NEW g, NEW x \in g, Numbered(g)
    PROVE  Gallery!Get(g, x.id) = x
BY DEF Numbered, Gallery!Get

\* New places, all different and none beyond the last, make a dense gallery of as many rows.
LEMMA PlacedIsDense ==
    ASSUME NEW g, IsFiniteSet(g), \A x, y \in g : x.id = y.id => x = y,
           NEW h \in [g -> Gallery!AssetRow], \A x \in g : h[x].id = x.id,
           \A x, y \in g : h[x].order = h[y].order => x = y,
           \A x \in g : /\ h[x].order < Cardinality(g)
                      /\ (h[x].role = "core" <=> h[x].order = 0)
                      /\ (h[x].role = "core" => h[x].status = "approved"),
           g # {} => \E x \in g : h[x].order = 0
    PROVE  LET placed == {h[x] : x \in g}
           IN Dense(placed) /\ Gallery!Ids(placed) = Gallery!Ids(g)
<1> DEFINE placed == {h[x] : x \in g}
<1>1. h \in Bijection(g, placed)
  BY DEF Bijection, Injection, Surjection, IsInjective
<1>2. IsFiniteSet(placed) /\ Cardinality(placed) = Cardinality(g)
  BY <1>1, FS_Bijection DEF ExistsBijection
<1>3. placed \subseteq Gallery!AssetRow
  OBVIOUS
<1>4. \A x, y \in placed : x.id = y.id \/ x.order = y.order => x = y
  OBVIOUS
<1>5. \A x \in placed : /\ (x.role = "core" <=> x.order = 0)
                       /\ (x.role = "core" => x.status = "approved")
                       /\ x.order < Cardinality(placed)
  BY <1>2
<1>6. placed # {} => \E x \in placed : x.order = 0
  OBVIOUS
<1>7. Gallery!Ids(placed) = Gallery!Ids(g)
  BY DEF Gallery!Ids
<1> QED
  BY <1>2, <1>3, <1>4, <1>5, <1>6, <1>7 DEF Dense, Numbered

\* The instance of MediaGallery counts as this module does.
LEMMA SameCardinality == \A S : Gallery!Cardinality(S) = Cardinality(S)
BY DEF Gallery!Cardinality, Cardinality

\* The rows before x are fewer than all, and fewer than those before a later row.
Before(g, x) == {y \in g : y.order < x.order}
LEMMA BeforeIsSmaller ==
    ASSUME NEW g, IsFiniteSet(g), \A x \in g : x.order \in Nat, NEW x \in g
    PROVE  /\ Cardinality(Before(g, x)) \in Nat /\ Cardinality(Before(g, x)) < Cardinality(g)
           /\ \A y \in g : x.order < y.order => Cardinality(Before(g, x)) < Cardinality(Before(g, y))
           /\ (Cardinality(Before(g, x)) = 0 <=> \A z \in g : x.order <= z.order)
<1>1. \A y \in g : IsFiniteSet(Before(g, y)) /\ Cardinality(Before(g, y)) \in Nat
  BY FS_Subset, FS_CardinalityType DEF Before
<1>2. ASSUME NEW A, NEW B, IsFiniteSet(B), A \subseteq B, A # B
      PROVE  Cardinality(A) < Cardinality(B)
  BY <1>2, FS_Subset, FS_CardinalityType
<1>3. Cardinality(Before(g, x)) < Cardinality(g)
  <2>1. Before(g, x) \subseteq g /\ Before(g, x) # g
    BY DEF Before
  <2> QED BY <1>2, <2>1
<1>4. ASSUME NEW y \in g, x.order < y.order
      PROVE  Cardinality(Before(g, x)) < Cardinality(Before(g, y))
  <2>1. Before(g, x) \subseteq Before(g, y) /\ x \in Before(g, y) /\ x \notin Before(g, x)
    BY <1>4 DEF Before
  <2> QED BY <1>1, <1>2, <2>1
<1>5. Cardinality(Before(g, x)) = 0 <=> Before(g, x) = {}
  BY <1>1, FS_EmptySet
<1> QED
  BY <1>1, <1>3, <1>4, <1>5 DEF Before

LEMMA RenumberedIsDense ==
    ASSUME NEW g, Numbered(g)
    PROVE  Dense(Gallery!Renumbered(g)) /\ Gallery!Ids(Gallery!Renumbered(g)) = Gallery!Ids(g)
<1> DEFINE h == [x \in g |-> [x EXCEPT !.order = Cardinality(Before(g, x))]]
<1>1. \A x \in g : x.order \in Nat /\ x \in Gallery!AssetRow
  BY DEF Numbered, Gallery!AssetRow
<1>2. \A x \in g : /\ Cardinality(Before(g, x)) \in Nat /\ Cardinality(Before(g, x)) < Cardinality(g)
                  /\ \A y \in g : x.order < y.order
                        => Cardinality(Before(g, x)) < Cardinality(Before(g, y))
                  /\ (Cardinality(Before(g, x)) = 0 <=> \A z \in g : x.order <= z.order)
  BY <1>1, BeforeIsSmaller DEF Numbered
<1>3. \A x \in g : /\ h[x] \in Gallery!AssetRow /\ h[x].order = Cardinality(Before(g, x))
                  /\ h[x].id = x.id /\ h[x].role = x.role /\ h[x].status = x.status
  BY <1>1, <1>2 DEF Gallery!AssetRow
<1>4. \A x, y \in g : h[x].order = h[y].order => x = y
  <2> SUFFICES ASSUME NEW x \in g, NEW y \in g, h[x].order = h[y].order PROVE x.order = y.order
    BY DEF Numbered
  <2> QED BY <1>1, <1>2, <1>3
<1>5. \A x \in g : x.order = 0 <=> h[x].order = 0
  <2> SUFFICES ASSUME NEW x \in g
               PROVE  x.order = 0 <=> Cardinality(Before(g, x)) = 0
    BY <1>3
  <2>1. x.order = 0 <=> \A z \in g : x.order <= z.order
    BY <1>1 DEF Numbered
  <2>2. Cardinality(Before(g, x)) = 0 <=> \A z \in g : x.order <= z.order
    BY <1>1, BeforeIsSmaller DEF Numbered
  <2> QED BY <2>1, <2>2
<1>6. Gallery!Renumbered(g) = {h[x] : x \in g}
  <2>1. \A x \in g : h[x] = [x EXCEPT !.order = Gallery!Cardinality({y \in g : y.order < x.order})]
    BY SameCardinality DEF Before
  <2> HIDE DEF h
  <2> QED BY ZenonT(60), <2>1 DEF Gallery!Renumbered
<1>7. h \in [g -> Gallery!AssetRow]
  BY <1>3
<1>8. /\ IsFiniteSet(g) /\ \A x, y \in g : x.id = y.id => x = y
      /\ \A x \in g : (x.role = "core" <=> x.order = 0) /\ (x.role = "core" => x.status = "approved")
      /\ g # {} => \E x \in g : x.order = 0
  BY DEF Numbered
<1>9. /\ \A x \in g : /\ h[x].order < Cardinality(g) /\ h[x].id = x.id
                     /\ (h[x].role = "core" <=> h[x].order = 0)
                     /\ (h[x].role = "core" => h[x].status = "approved")
      /\ g # {} => \E x \in g : h[x].order = 0
  BY <1>2, <1>3, <1>5, <1>8
<1> HIDE DEF h
<1>10. Dense({h[x] : x \in g}) /\ Gallery!Ids({h[x] : x \in g}) = Gallery!Ids(g)
  <2>1. \A x \in g : /\ h[x].order < Cardinality(g)
                    /\ (h[x].role = "core" <=> h[x].order = 0)
                    /\ (h[x].role = "core" => h[x].status = "approved")
    BY <1>9
  <2>2. \A x \in g : h[x].id = x.id
    BY <1>9
  <2> QED BY <1>4, <1>7, <1>8, <1>9, <2>1, <2>2, PlacedIsDense
<1> QED BY <1>6, <1>10

\* A row that takes a free place and a new id, after the others.
LEMMA AddIsDense ==
    ASSUME NEW g, Dense(g), NEW x \in Gallery!AssetRow, x.id \notin Gallery!Ids(g),
           x.role = "variation", x.order # 0, x.order <= Cardinality(g),
           \A y \in g : y.order # x.order, g # {}
    PROVE  Dense(g \cup {x}) /\ Gallery!Ids(g) \subseteq Gallery!Ids(g \cup {x})
<1>1. Numbered(g) /\ \A y \in g : y \in Gallery!AssetRow /\ y.order < Cardinality(g) /\ y.id # x.id
  BY DEF Dense, Numbered, Gallery!Ids
<1>2. IsFiniteSet(g \cup {x}) /\ Cardinality(g \cup {x}) = Cardinality(g) + 1 /\ Cardinality(g) \in Nat
  BY <1>1, FS_AddElement, FS_CardinalityType DEF Numbered
<1>3. Numbered(g \cup {x})
  BY <1>1, <1>2 DEF Numbered
<1>4. \A y \in g \cup {x} : y.order \in Nat /\ y.order <= Cardinality(g)
  BY <1>1, <1>2 DEF Gallery!AssetRow
<1>5. \A y \in g \cup {x} : y.order < Cardinality(g \cup {x})
  BY <1>2, <1>4
<1> QED BY <1>3, <1>5 DEF Dense, Gallery!Ids

\* A row that changes in its place, and becomes approved if it changes its status.
LEMMA SwapIsDense ==
    ASSUME NEW g, Dense(g), NEW x \in g, NEW y \in Gallery!AssetRow,
           y.id = x.id, y.role = x.role, y.order = x.order, y.status \in {x.status, "approved"}
    PROVE  Dense(Gallery!Swap(g, x, y)) /\ Gallery!Ids(Gallery!Swap(g, x, y)) = Gallery!Ids(g)
<1> DEFINE h == [z \in g |-> IF z = x THEN y ELSE z]
<1>1. /\ IsFiniteSet(g) /\ g \subseteq Gallery!AssetRow
      /\ \A z, u \in g : z.id = u.id \/ z.order = u.order => z = u
      /\ \A z \in g : (z.role = "core" <=> z.order = 0) /\ (z.role = "core" => z.status = "approved")
      /\ g # {} => \E z \in g : z.order = 0
      /\ \A z \in g : z.order < Cardinality(g)
  BY DEF Dense, Numbered
<1>2. Gallery!Swap(g, x, y) = {h[z] : z \in g}
  BY DEF Gallery!Swap
<1>3. h \in [g -> Gallery!AssetRow]
  BY <1>1
<1>4. \A z \in g : /\ h[z].id = z.id /\ h[z].order = z.order /\ h[z].role = z.role
                  /\ h[z].status \in {z.status, "approved"}
  OBVIOUS
<1> HIDE DEF h
<1>5. \A z \in g : /\ h[z].order < Cardinality(g)
                  /\ (h[z].role = "core" <=> h[z].order = 0)
                  /\ (h[z].role = "core" => h[z].status = "approved")
  BY <1>1, <1>4
<1>6. \A z, u \in g : h[z].order = h[u].order => z = u
  BY <1>1, <1>4
<1>7. g # {} => \E z \in g : h[z].order = 0
  BY <1>1, <1>4
<1>8. \A z, u \in g : z.id = u.id => z = u
  BY <1>1
<1>9. Dense({h[z] : z \in g}) /\ Gallery!Ids({h[z] : z \in g}) = Gallery!Ids(g)
  <2>1. \A z \in g : h[z].id = z.id
    BY <1>4
  <2> QED BY <1>1, <1>3, <1>5, <1>6, <1>7, <1>8, <2>1, PlacedIsDense
<1> QED BY <1>2, <1>9

\* A pending row takes the role and the place of an approved one, which leaves.
LEMMA ReplacedIsDense ==
    ASSUME NEW g, Dense(g), NEW x \in g, NEW old \in g, x # old,
           x.status = "pending", old.status = "approved", old.id \in MediaIds
    PROVE  LET left == Gallery!Renumbered(Gallery!Swap(g \ {old}, x, Gallery!Successor(x, old)))
           IN Dense(left) /\ Gallery!Ids(g) \subseteq Gallery!Ids(left) \cup {old.id}
<1> DEFINE y == Gallery!Successor(x, old)
           left == Gallery!Swap(g \ {old}, x, y)
<1>1. /\ IsFiniteSet(g) /\ g \subseteq Gallery!AssetRow
      /\ \A z, u \in g : z.id = u.id \/ z.order = u.order => z = u
      /\ \A z \in g : (z.role = "core" <=> z.order = 0) /\ (z.role = "core" => z.status = "approved")
      /\ \E z \in g : z.order = 0
  BY DEF Dense, Numbered
<1>2. /\ y \in Gallery!AssetRow /\ y.id = x.id /\ y.role = old.role
      /\ y.order = old.order /\ y.status = "approved"
  BY <1>1 DEF Gallery!AssetRow, Gallery!Successor, Gallery!Statuses
<1>3. left = (g \ {old, x}) \cup {y}
  BY DEF Gallery!Swap
<1> HIDE DEF y, left
<1>4. IsFiniteSet(left)
  <2>1. IsFiniteSet(g \ {old, x})
    BY <1>1, FS_Subset
  <2> QED BY <1>3, <2>1, FS_AddElement
<1>5. \A z, u \in left : z.id = u.id \/ z.order = u.order => z = u
  BY <1>1, <1>2, <1>3
<1>6. \A z \in left : (z.role = "core" <=> z.order = 0) /\ (z.role = "core" => z.status = "approved")
  BY <1>1, <1>2, <1>3
<1>7. \E z \in left : z.order = 0
  <2>1. x.order # 0
    BY <1>1
  <2>2. PICK z \in g : z.order = 0
    BY <1>1
  <2>3. z = old \/ z \in left
    BY <1>3, <2>1, <2>2
  <2> QED BY <1>2, <1>3, <2>2, <2>3
<1>8. Numbered(left)
  BY <1>1, <1>2, <1>3, <1>4, <1>5, <1>6, <1>7 DEF Numbered
<1>9. Gallery!Ids(g) \subseteq Gallery!Ids(left) \cup {old.id}
  BY <1>2, <1>3 DEF Gallery!Ids
<1> QED BY <1>8, <1>9, RenumberedIsDense DEF left, y

\* A variation leaves, and the others move up.
LEMMA RemovedIsDense ==
    ASSUME NEW g, Dense(g), NEW x \in g, x.role # "core"
    PROVE  Dense(Gallery!Renumbered(g \ {x})) /\ Gallery!Renumbered(g \ {x}) # {}
<1>1. Numbered(g) /\ x.order # 0 /\ \E z \in g : z.order = 0
  BY DEF Dense, Numbered
<1>2. IsFiniteSet(g \ {x})
  BY <1>1, FS_Subset DEF Numbered
<1>3. \E z \in g \ {x} : z.order = 0
  BY <1>1
<1>4. Numbered(g \ {x}) /\ g \ {x} # {}
  BY <1>1, <1>2, <1>3 DEF Numbered
<1> DEFINE left == g \ {x}
<1>5. Numbered(left) /\ \E z \in left : TRUE
  BY <1>4
<1> HIDE DEF left
<1>6. Dense(Gallery!Renumbered(left)) /\ Gallery!Ids(Gallery!Renumbered(left)) = Gallery!Ids(left)
  BY <1>5, RenumberedIsDense
<1>7. Gallery!Ids(left) # {}
  BY <1>5 DEF Gallery!Ids
<1>8. Gallery!Renumbered(left) # {}
  BY <1>6, <1>7 DEF Gallery!Ids
<1> QED BY <1>6, <1>8 DEF left

\* The main image takes the first place, and the others follow in their order.
Promoted(g, m) ==
    {[x EXCEPT
        !.role = IF x.id = m THEN "core" ELSE "variation",
        !.order = IF x.id = m THEN 0
                  ELSE 1 + Gallery!Cardinality({y \in g \ {x} : y.id # m /\ y.order < x.order})] :
     x \in g}
LEMMA MainIsDense ==
    ASSUME NEW g, Dense(g), NEW main \in g, main.status = "approved"
    PROVE  Dense(Promoted(g, main.id)) /\ Promoted(g, main.id) # {}
<1> DEFINE rest == g \ {main}
           h == [x \in g |-> [x EXCEPT
                      !.role = IF x.id = main.id THEN "core" ELSE "variation",
                      !.order = IF x.id = main.id THEN 0
                                ELSE 1 + Cardinality({y \in g \ {x} :
                                             y.id # main.id /\ y.order < x.order})]]
<1>1. /\ IsFiniteSet(g) /\ g \subseteq Gallery!AssetRow
      /\ \A z, u \in g : z.id = u.id \/ z.order = u.order => z = u
      /\ \A z \in g : z.order \in Nat
  BY DEF Dense, Numbered, Gallery!AssetRow
<1>2. /\ IsFiniteSet(rest) /\ Cardinality(rest) = Cardinality(g) - 1
      /\ Cardinality(g) \in Nat /\ Cardinality(rest) \in Nat
  BY <1>1, FS_RemoveElement, FS_CardinalityType
<1>3. \A x \in g : x.id = main.id <=> x = main
  BY <1>1
<1>4. \A x \in rest : {y \in g \ {x} : y.id # main.id /\ y.order < x.order} = Before(rest, x)
  BY <1>1, <1>3 DEF Before
<1>5. \A x \in rest : /\ Cardinality(Before(rest, x)) \in Nat
                      /\ Cardinality(Before(rest, x)) < Cardinality(rest)
  BY <1>1, <1>2, BeforeIsSmaller
<1>6. \A x, y \in rest : x.order < y.order => Cardinality(Before(rest, x)) < Cardinality(Before(rest, y))
  BY <1>1, <1>2, BeforeIsSmaller
<1>7. \A x \in rest : /\ h[x].id = x.id /\ h[x].role = "variation" /\ h[x].status = x.status
                      /\ h[x].order = 1 + Cardinality(Before(rest, x))
                      /\ h[x] \in Gallery!AssetRow
  <2> TAKE x \in rest
  <2> DEFINE n == 1 + Cardinality(Before(rest, x))
  <2>1. h[x] = [x EXCEPT !.role = "variation", !.order = n]
    BY <1>3, <1>4
  <2>2. n \in Nat /\ x \in Gallery!AssetRow
    BY <1>1, <1>5
  <2> HIDE DEF n, h
  <2>3. /\ h[x].id = x.id /\ h[x].role = "variation" /\ h[x].status = x.status
        /\ h[x].order = n /\ h[x] \in Gallery!AssetRow
    BY <2>1, <2>2 DEF Gallery!AssetRow
  <2> QED BY <2>3 DEF n
<1>8. /\ h[main].id = main.id /\ h[main].role = "core" /\ h[main].status = "approved"
      /\ h[main].order = 0 /\ h[main] \in Gallery!AssetRow
  <2> DEFINE n == 0
  <2>1. h[main] = [main EXCEPT !.role = "core", !.order = n]
    OBVIOUS
  <2>2. n \in Nat /\ main \in Gallery!AssetRow
    BY <1>1
  <2> HIDE DEF n, h
  <2>3. /\ h[main].id = main.id /\ h[main].role = "core" /\ h[main].status = main.status
        /\ h[main].order = n /\ h[main] \in Gallery!AssetRow
    BY <2>1, <2>2 DEF Gallery!AssetRow
  <2> QED BY <2>3 DEF n
<1>9. Promoted(g, main.id) = {h[x] : x \in g}
  <2> DEFINE k(x) == [x EXCEPT
                        !.role = IF x.id = main.id THEN "core" ELSE "variation",
                        !.order = IF x.id = main.id THEN 0
                                  ELSE 1 + Gallery!Cardinality({y \in g \ {x} :
                                               y.id # main.id /\ y.order < x.order})]
  <2>1. \A x \in g : h[x] = k(x)
    BY SameCardinality
  <2> HIDE DEF h, k
  <2>2. {k(x) : x \in g} = {h[x] : x \in g}
    BY <2>1
  <2> QED BY <2>2 DEF k, Promoted
<1>10. DOMAIN h = g /\ h = [x \in g |-> h[x]]
  OBVIOUS
<1>11. g = rest \cup {main}
  OBVIOUS
<1> HIDE DEF h, rest
<1>12. h \in [g -> Gallery!AssetRow]
  BY <1>7, <1>8, <1>10, <1>11
<1>13. \A x \in g : h[x].id = x.id
  BY <1>7, <1>8, <1>11
<1>14. \A x \in g : /\ h[x].order < Cardinality(g)
                    /\ (h[x].role = "core" <=> h[x].order = 0)
                    /\ (h[x].role = "core" => h[x].status = "approved")
  <2>1. \A x \in rest : /\ h[x].order < Cardinality(g) /\ h[x].order # 0
                        /\ h[x].role # "core"
    BY <1>2, <1>5, <1>7
  <2>2. 0 < Cardinality(g)
    BY <1>2
  <2> QED BY <1>8, <1>11, <2>1, <2>2
<1>15. \A x, y \in g : h[x].order = h[y].order => x = y
  <2>1. ASSUME NEW x \in rest, NEW y \in rest, h[x].order = h[y].order PROVE x = y
    <3>1. x \in g /\ y \in g
      BY <1>11
    <3>2. Cardinality(Before(rest, x)) = Cardinality(Before(rest, y))
      BY <1>5, <1>7, <2>1
    <3>3. x.order = y.order
      BY <1>1, <1>5, <1>6, <3>1, <3>2
    <3> QED BY <1>1, <3>1, <3>3
  <2>2. \A x \in rest : h[x].order # 0
    BY <1>5, <1>7
  <2> QED BY <1>8, <1>11, <2>1, <2>2
<1>16. \A x, y \in g : x.id = y.id => x = y
  BY <1>1
<1>17. \E x \in g : h[x].order = 0
  BY <1>8
<1>18. Dense({h[x] : x \in g})
  BY <1>1, <1>12, <1>13, <1>14, <1>15, <1>16, <1>17, PlacedIsDense
<1> QED BY <1>9, <1>18

\* New places for the variations, behind the core.
Others(g) == {x \in g : x.role # "core"}
Placed(g, place) == (g \ Others(g)) \cup {[x EXCEPT !.order = place[x.id]] : x \in Others(g)}
LEMMA ReorderedIsDense ==
    ASSUME NEW g, Dense(g), g # {},
           NEW place \in [Gallery!Ids(Others(g)) -> 1 .. Gallery!Cardinality(Others(g))],
           \A m, n \in Gallery!Ids(Others(g)) : place[m] = place[n] => m = n
    PROVE  Dense(Placed(g, place)) /\ Placed(g, place) # {}
<1> DEFINE others == Others(g)
           h == [x \in g |-> IF x \in others THEN [x EXCEPT !.order = place[x.id]] ELSE x]
<1>1. /\ IsFiniteSet(g) /\ g \subseteq Gallery!AssetRow
      /\ \A z, u \in g : z.id = u.id \/ z.order = u.order => z = u
      /\ \A z \in g : (z.role = "core" <=> z.order = 0) /\ (z.role = "core" => z.status = "approved")
  BY DEF Dense, Numbered
<1>2. PICK core \in g : core.order = 0
  BY DEF Dense, Numbered
<1>3. others = g \ {core} /\ others \subseteq g /\ core.role = "core"
  BY <1>1, <1>2 DEF Others
<1>4. /\ IsFiniteSet(others) /\ Cardinality(others) = Cardinality(g) - 1
      /\ Cardinality(g) \in Nat /\ Cardinality(others) \in Nat
  BY <1>1, <1>3, FS_RemoveElement, FS_CardinalityType
<1>5. \A x \in others : /\ x.id \in Gallery!Ids(others)
                        /\ place[x.id] \in Nat /\ 0 < place[x.id] /\ place[x.id] < Cardinality(g)
  <2>1. \A x \in others : x.id \in Gallery!Ids(others)
    BY DEF Gallery!Ids
  <2>2. \A m \in Gallery!Ids(others) : place[m] \in 1 .. Cardinality(others)
    BY SameCardinality
  <2> QED BY <1>4, <2>1, <2>2
<1>6. \A x \in others : /\ h[x].id = x.id /\ h[x].role = x.role /\ h[x].role # "core"
                        /\ h[x].order = place[x.id] /\ h[x] \in Gallery!AssetRow
  BY <1>1, <1>5 DEF Gallery!AssetRow, Others
<1>7. /\ h[core].id = core.id /\ h[core].role = "core" /\ h[core].status = "approved"
      /\ h[core].order = 0 /\ h[core] \in Gallery!AssetRow
  BY <1>1, <1>2, <1>3
<1>8. Placed(g, place) = {h[x] : x \in g}
  <2>1. \A x \in others : h[x] = [x EXCEPT !.order = place[x.id]]
    BY <1>3
  <2>2. \A x \in g \ others : h[x] = x
    OBVIOUS
  <2>3. others \subseteq g
    BY <1>3
  <2> HIDE DEF h
  <2>4. ASSUME NEW r
        PROVE  r \in (g \ others) \cup {[x EXCEPT !.order = place[x.id]] : x \in others}
                  <=> r \in {h[x] : x \in g}
    BY ZenonT(60), <2>1, <2>2, <2>3
  <2> QED BY <2>4 DEF Placed
<1>9. DOMAIN h = g /\ h = [x \in g |-> h[x]]
  OBVIOUS
<1>10. g = others \cup {core}
  BY <1>3
<1>11. \A x, y \in others : place[x.id] = place[y.id] => x = y
  BY <1>1, <1>3, <1>5
<1> HIDE DEF h, others
<1>12. h \in [g -> Gallery!AssetRow]
  BY <1>6, <1>7, <1>9, <1>10
<1>13. \A x \in g : h[x].id = x.id
  BY <1>6, <1>7, <1>10
<1>14. \A x \in g : /\ h[x].order < Cardinality(g)
                    /\ (h[x].role = "core" <=> h[x].order = 0)
                    /\ (h[x].role = "core" => h[x].status = "approved")
  <2>1. \A x \in others : h[x].order < Cardinality(g) /\ h[x].order # 0 /\ h[x].role # "core"
    BY <1>5, <1>6
  <2>2. 0 < Cardinality(g)
    BY <1>4
  <2> QED BY <1>7, <1>10, <2>1, <2>2
<1>15. \A x, y \in g : h[x].order = h[y].order => x = y
  <2>1. \A x \in others : h[x].order = place[x.id] /\ h[x].order # 0
    BY <1>5, <1>6
  <2>2. \A x, y \in others : h[x].order = h[y].order => x = y
    BY <1>11, <2>1
  <2> QED BY <1>7, <1>10, <2>1, <2>2
<1>16. \A x, y \in g : x.id = y.id => x = y
  BY <1>1
<1>17. \E x \in g : h[x].order = 0
  BY <1>7
<1>18. Dense({h[x] : x \in g})
  BY <1>1, <1>12, <1>13, <1>14, <1>15, <1>16, <1>17, PlacedIsDense
<1>19. h[core] \in {h[x] : x \in g}
  BY <1>2
<1> QED BY <1>8, <1>18, <1>19

\* Every draft made has a dense gallery, and once one had an image the current one has.
GalleryInv ==
    /\ made \in Nat \ {0} /\ 1 .. made \subseteq Drafts
    /\ gallery = [d \in Drafts |-> gallery[d]]
    /\ \A d \in 1 .. made : Dense(gallery[d])
    /\ \A d \in Drafts : d \notin 1 .. made => gallery[d] = {}
    /\ \A d \in 1 .. made : gallery[d] # {} => gallery[made] # {}
    /\ Dense(product) /\ (~live => product # {})

LEMMA InitGallery == Gallery!Init => GalleryInv
<1> SUFFICES ASSUME Gallery!Init PROVE GalleryInv
  OBVIOUS
<1> DEFINE First(n) == {Gallery!Uploaded(i, IF i = 1 THEN "core" ELSE "variation", i - 1) : i \in 1 .. n}
<1>1. PICK n \in {0, 1, 2} :
         1 .. n \subseteq MediaIds /\ gallery = [d \in Drafts |-> IF d = 1 THEN First(n) ELSE {}]
  BY DEF Gallery!Init
<1>2. Dense({})
  BY FS_EmptySet DEF Dense, Numbered
<1>3. Dense(First(n))
  <2> DEFINE one == Gallery!Uploaded(1, "core", 0)
             two == Gallery!Uploaded(2, "variation", 1)
  <2>0. /\ one.id = 1 /\ one.role = "core" /\ one.order = 0 /\ one.status = "approved"
        /\ two.id = 2 /\ two.role = "variation" /\ two.order = 1
        /\ 1 \in MediaIds => one \in Gallery!AssetRow
        /\ 2 \in MediaIds => two \in Gallery!AssetRow
    BY DEF Gallery!Uploaded, Gallery!Asset, Gallery!AssetRow, Gallery!Statuses
  <2>1. CASE n = 0
    <3>1. First(n) = {}
      BY <2>1
    <3> QED BY <1>2, <3>1
  <2>2. CASE n = 1
    <3>1. First(n) = {one} /\ 1 \in MediaIds
      BY <1>1, <2>2
    <3>2. IsFiniteSet({one}) /\ Cardinality({one}) = 1
      BY FS_Singleton
    <3> HIDE DEF one, two, First
    <3> QED BY <2>0, <3>1, <3>2 DEF Dense, Numbered
  <2>3. CASE n = 2
    <3>1. First(n) = {one, two} /\ 1 \in MediaIds /\ 2 \in MediaIds
      BY <1>1, <2>3
    <3> HIDE DEF one, two, First
    <3>2. two \notin {one}
      BY <2>0
    <3>3. IsFiniteSet({one}) /\ Cardinality({one}) = 1
      BY FS_Singleton
    <3>4. IsFiniteSet({one} \cup {two}) /\ Cardinality({one} \cup {two}) = 2
      BY <3>2, <3>3, FS_AddElement
    <3>5. First(n) = {one} \cup {two}
      BY <3>1
    <3>6. IsFiniteSet(First(n)) /\ Cardinality(First(n)) = 2
      BY <3>4, <3>5
    <3> QED BY <2>0, <3>1, <3>6 DEF Dense, Numbered
  <2> QED BY <2>1, <2>2, <2>3
<1> HIDE DEF First
<1>4. made = 1 /\ product = {} /\ live /\ 1 \in Drafts
  BY StudioAssumption DEF Gallery!Init, Gallery!MediaAssumption
<1> QED BY <1>1, <1>2, <1>3, <1>4 DEF GalleryInv

\* A draft without the newer ones has its asset in the history once it is approved.
LEMMA IsInHistory ==
    ASSUME NEW g, Dense(g), NEW x \in g, x.status = "approved"
    PROVE  Gallery!IsApproved(g, x.id) /\ Gallery!Has(g, x.id)
BY GetRow DEF Dense, Gallery!IsApproved, Gallery!Has, Gallery!Ids

\* What a command in place must leave.
LEMMA PutKeeps ==
    ASSUME GalleryInv, NEW g, Dense(g), gallery[made] # {} => g # {},
           Gallery!Put(g), UNCHANGED <<made, live, product>>,
           Gallery!Ids(gallery[made]) \subseteq Gallery!Ids(g) \cup replaced'
    PROVE  GalleryInv' /\ Gallery!MediaKept
<1>1. /\ made \in 1 .. made /\ made \in Drafts
      /\ gallery' = [gallery EXCEPT ![made] = g]
  BY DEF GalleryInv, Gallery!Put
<1>2. /\ gallery' = [d \in Drafts |-> gallery'[d]] /\ gallery'[made] = g
      /\ \A d \in Drafts \ {made} : gallery'[d] = gallery[d]
  BY <1>1 DEF GalleryInv
<1>3. GalleryInv'
  BY <1>1, <1>2 DEF GalleryInv
<1>4. Gallery!MediaKept
  BY <1>1, <1>2 DEF Gallery!MediaKept, Gallery!Current, Gallery!Has, Gallery!Ids
<1> QED BY <1>3, <1>4

\* What a command that makes a draft must leave.
LEMMA RevisionKeeps ==
    ASSUME GalleryInv, NEW g, Dense(g), gallery[made] # {} => g # {},
           made + 1 \in Drafts, made' = made + 1,
           gallery' = [gallery EXCEPT ![made + 1] = g],
           UNCHANGED product, live' = live \/ (live' /\ product # {})
    PROVE  GalleryInv' /\ Gallery!MediaKept
<1>1. /\ made \in Nat \ {0} /\ 1 .. made' = 1 .. made \cup {made + 1} /\ made + 1 \notin 1 .. made
      /\ made \in 1 .. made /\ 1 .. made \subseteq Drafts
  BY DEF GalleryInv
<1>2. /\ gallery' = [d \in Drafts |-> gallery'[d]] /\ gallery'[made + 1] = g
      /\ \A d \in Drafts \ {made + 1} : gallery'[d] = gallery[d]
  BY DEF GalleryInv
<1>3. GalleryInv'
  <2>1. \A d \in 1 .. made' : Dense(gallery'[d])
    BY <1>1, <1>2 DEF GalleryInv
  <2>2. \A d \in Drafts : d \notin 1 .. made' => gallery'[d] = {}
    BY <1>1, <1>2 DEF GalleryInv
  <2>3. \A d \in 1 .. made' : gallery'[d] # {} => gallery'[made'] # {}
    BY <1>1, <1>2 DEF GalleryInv
  <2>4. made' \in Nat \ {0} /\ 1 .. made' \subseteq Drafts
    BY <1>1
  <2>5. Dense(product') /\ (~live' => product' # {})
    BY DEF GalleryInv
  <2> QED BY <1>2, <2>1, <2>2, <2>3, <2>4, <2>5 DEF GalleryInv
<1>4. Gallery!MediaKept
  <2> SUFFICES ASSUME NEW x \in gallery[made], x.status = "approved"
               PROVE  \E d \in 1 .. made' - 1 : Gallery!IsApproved(gallery'[d], x.id)
    BY DEF Gallery!MediaKept, Gallery!Current
  <2>1. made \in 1 .. made' - 1 /\ gallery'[made] = gallery[made] /\ Dense(gallery[made])
    BY <1>1, <1>2 DEF GalleryInv
  <2> QED BY <2>1, IsInHistory
<1> QED BY <1>3, <1>4

\* The commands in place.
LEMMA InPlaceKeeps ==
    ASSUME GalleryInv, Gallery!InPlace
    PROVE  GalleryInv' /\ Gallery!MediaKept
<1> DEFINE g == gallery[made]
<1>1. Dense(g) /\ Gallery!Current = g /\ made \in 1 .. made /\ made \in Drafts
  BY DEF GalleryInv, Gallery!Current
<1>2. \A m : Gallery!Has(g, m) => Gallery!Get(g, m) \in g /\ Gallery!Get(g, m).id = m
  BY DEF Gallery!Has, Gallery!Get, Gallery!Ids
<1>3. \A x \in g : x \in Gallery!AssetRow /\ x.order \in Nat /\ x.order < Cardinality(g)
  BY <1>1 DEF Dense, Numbered, Gallery!AssetRow
<1>4. ASSUME Gallery!EnqueueMedia PROVE GalleryInv' /\ Gallery!MediaKept
  <2>1. PICK a \in MediaIds, source \in Gallery!Ids(g), last \in g :
           /\ Gallery!IsNew(a) /\ \A x \in g : x.order <= last.order
           /\ Gallery!Put(g \cup {Gallery!Asset(a, "variation", "pending", last.order + 1, FALSE, source, None)})
           /\ UNCHANGED <<made, live, product>>
    BY <1>1, <1>4 DEF Gallery!EnqueueMedia
  <2> DEFINE x == Gallery!Asset(a, "variation", "pending", last.order + 1, FALSE, source, None)
  <2>2. a \notin Gallery!Ids(g)
    BY <1>1, <2>1 DEF Gallery!IsNew, Gallery!Used, Gallery!Has
  <2>3. source \in MediaIds
    BY <1>3, <2>1 DEF Gallery!Ids, Gallery!AssetRow
  <2>4. /\ x \in Gallery!AssetRow /\ x.id = a /\ x.role = "variation" /\ x.order = last.order + 1
    BY <1>3, <2>1, <2>3 DEF Gallery!Asset, Gallery!AssetRow, Gallery!Statuses
  <2>5. Gallery!Put(g \cup {x})
    BY <2>1
  <2> HIDE DEF x, g
  <2>6. Cardinality(g) \in Nat
    BY <1>1, FS_CardinalityType DEF Dense, Numbered
  <2>7. /\ x.order # 0 /\ x.order <= Cardinality(g) /\ \A y \in g : y.order # x.order
    BY <1>3, <2>1, <2>4, <2>6
  <2>8. Dense(g \cup {x}) /\ Gallery!Ids(g) \subseteq Gallery!Ids(g \cup {x})
    BY <1>1, <2>1, <2>2, <2>4, <2>7, AddIsDense
  <2> QED BY <2>1, <2>5, <2>8, PutKeeps DEF g
<1>5. ASSUME NEW x \in g, NEW y \in Gallery!AssetRow, y.id = x.id, y.role = x.role,
             y.order = x.order, y.status \in {x.status, "approved"},
             Gallery!Put(Gallery!Swap(g, x, y)), UNCHANGED <<made, live, product>>
      PROVE  GalleryInv' /\ Gallery!MediaKept
  <2>1. /\ Dense(Gallery!Swap(g, x, y))
        /\ Gallery!Ids(Gallery!Swap(g, x, y)) = Gallery!Ids(g)
    BY <1>1, <1>5, SwapIsDense
  <2>2. Gallery!Swap(g, x, y) # {}
    BY DEF Gallery!Swap
  <2> QED BY <1>5, <2>1, <2>2, PutKeeps
<1>6. ASSUME Gallery!StoreMedia PROVE GalleryInv' /\ Gallery!MediaKept
  <2>1. PICK a \in MediaIds :
           /\ Gallery!Has(g, a) /\ UNCHANGED <<made, live, product>>
           /\ Gallery!Put(Gallery!Swap(g, Gallery!Get(g, a), [Gallery!Get(g, a) EXCEPT !.shown = TRUE]))
    BY <1>1, <1>6 DEF Gallery!StoreMedia
  <2>2. PICK x \in g : x = Gallery!Get(g, a)
    BY <1>2, <2>1
  <2>3. /\ [x EXCEPT !.shown = TRUE] \in Gallery!AssetRow
        /\ [x EXCEPT !.shown = TRUE].id = x.id /\ [x EXCEPT !.shown = TRUE].role = x.role
        /\ [x EXCEPT !.shown = TRUE].order = x.order /\ [x EXCEPT !.shown = TRUE].status = x.status
    BY <1>3, <2>2 DEF Gallery!AssetRow
  <2> QED BY <1>5, <2>1, <2>2, <2>3
<1>7. ASSUME Gallery!ApproveMedia PROVE GalleryInv' /\ Gallery!MediaKept
  <2>1. PICK a \in MediaIds :
           /\ Gallery!Has(g, a) /\ UNCHANGED <<made, live, product>>
           /\ Gallery!Put(Gallery!Swap(g, Gallery!Get(g, a), [Gallery!Get(g, a) EXCEPT !.status = "approved"]))
    BY <1>1, <1>7 DEF Gallery!ApproveMedia, Gallery!MayApprove
  <2>2. PICK x \in g : x = Gallery!Get(g, a)
    BY <1>2, <2>1
  <2>3. /\ [x EXCEPT !.status = "approved"] \in Gallery!AssetRow
        /\ [x EXCEPT !.status = "approved"].id = x.id
        /\ [x EXCEPT !.status = "approved"].role = x.role
        /\ [x EXCEPT !.status = "approved"].order = x.order
        /\ [x EXCEPT !.status = "approved"].status = "approved"
    BY <1>3, <2>2 DEF Gallery!AssetRow, Gallery!Statuses
  <2> QED BY <1>5, <2>1, <2>2, <2>3
<1>8. ASSUME Gallery!ReplaceMedia PROVE GalleryInv' /\ Gallery!MediaKept
  <2>1. PICK a \in MediaIds, p \in Gallery!Ids(g) :
           /\ p # a /\ Gallery!MayApprove(a) /\ Gallery!IsApproved(g, p)
           /\ Gallery!Put(Gallery!Renumbered(Gallery!Swap(g \ {Gallery!Get(g, p)}, Gallery!Get(g, a),
                             Gallery!Successor(Gallery!Get(g, a), Gallery!Get(g, p)))))
           /\ p \in replaced' /\ UNCHANGED <<made, live, product>>
           /\ replaced \subseteq replaced'
    BY <1>1, <1>8 DEF Gallery!ReplaceMedia
  <2>2. PICK x \in g : x = Gallery!Get(g, a) /\ x.id = a /\ x.status = "pending"
    BY <1>1, <1>2, <2>1 DEF Gallery!MayApprove
  <2>3. PICK old \in g : old = Gallery!Get(g, p) /\ old.id = p /\ old.status = "approved"
    BY <1>2, <2>1 DEF Gallery!IsApproved
  <2> DEFINE left == Gallery!Renumbered(Gallery!Swap(g \ {old}, x, Gallery!Successor(x, old)))
  <2>4. Dense(left) /\ Gallery!Ids(g) \subseteq Gallery!Ids(left) \cup {old.id}
    BY <1>1, <1>3, <2>1, <2>2, <2>3, ReplacedIsDense DEF Gallery!AssetRow
  <2>5. Gallery!Put(left)
    BY <2>1, <2>2, <2>3
  <2> HIDE DEF left
  <2>6. Gallery!Ids(g) \subseteq Gallery!Ids(left) \cup replaced'
    BY <2>1, <2>3, <2>4
  <2>7. left # {}
    <3>1. x.id \in Gallery!Ids(g)
      BY DEF Gallery!Ids
    <3>2. x.id \in Gallery!Ids(left)
      BY <2>1, <2>2, <2>3, <2>4, <3>1
    <3> QED BY <3>2 DEF Gallery!Ids
  <2> QED BY <2>1, <2>4, <2>5, <2>6, <2>7, PutKeeps
<1>9. ASSUME Gallery!ApprovePrimary PROVE GalleryInv' /\ Gallery!MediaKept
  <2>1. PICK a \in MediaIds : Gallery!Put({Gallery!Uploaded(a, "core", 0)}) /\ UNCHANGED <<made, live, product>>
    BY <1>1, <1>9 DEF Gallery!ApprovePrimary
  <2> DEFINE x == Gallery!Uploaded(a, "core", 0)
  <2>2. x \in Gallery!AssetRow /\ x.role = "core" /\ x.order = 0 /\ x.status = "approved"
    BY DEF Gallery!Uploaded, Gallery!Asset, Gallery!AssetRow, Gallery!Statuses
  <2>3. Gallery!Put({x})
    BY <2>1
  <2> HIDE DEF x
  <2>4. Dense({x})
    BY <2>2, FS_Singleton DEF Dense, Numbered
  <2>5. Gallery!Ids(g) = {}
    BY <1>1, <1>9 DEF Gallery!ApprovePrimary, Gallery!Ids
  <2> QED BY <2>1, <2>3, <2>4, <2>5, PutKeeps
<1>10. ASSUME Gallery!FailMedia PROVE GalleryInv' /\ Gallery!MediaKept
  <2>1. UNCHANGED <<made, live, gallery, product>>
    BY <1>10 DEF Gallery!FailMedia
  <2> QED BY <1>1, <2>1 DEF GalleryInv, Gallery!MediaKept, Gallery!Current, Gallery!Has, Gallery!Ids
<1> QED BY <1>4, <1>6, <1>7, <1>8, <1>9, <1>10 DEF Gallery!InPlace

\* The commands that make a draft.
LEMMA RevisionsKeep ==
    ASSUME GalleryInv, Gallery!Mutate \/ Gallery!StartRevision
    PROVE  GalleryInv' /\ Gallery!MediaKept
<1> DEFINE g == gallery[made]
<1>1. Dense(g) /\ Gallery!Current = g /\ made \in 1 .. made /\ made \in Drafts
  BY DEF GalleryInv, Gallery!Current
<1>2. \A f, m : Gallery!Has(f, m) => Gallery!Get(f, m) \in f /\ Gallery!Get(f, m).id = m
  BY DEF Gallery!Has, Gallery!Get, Gallery!Ids
<1>3. ASSUME NEW f, Dense(f), f # {}, Gallery!Revise(f) PROVE GalleryInv' /\ Gallery!MediaKept
  BY <1>3, RevisionKeeps DEF Gallery!Revise
<1>4. ASSUME Gallery!SetMain PROVE GalleryInv' /\ Gallery!MediaKept
  <2>1. PICK m \in Gallery!Ids(g) : Gallery!IsApproved(g, m) /\ Gallery!Revise(Promoted(g, m))
    BY <1>4 DEF Gallery!SetMain, Gallery!Current, Promoted
  <2>2. PICK main \in g : main.id = m /\ main.status = "approved"
    BY <1>2, <2>1 DEF Gallery!IsApproved
  <2>3. Dense(Promoted(g, main.id)) /\ Promoted(g, main.id) # {}
    BY <1>1, <2>2, MainIsDense
  <2> QED BY <1>3, <2>1, <2>2, <2>3
<1>5. ASSUME Gallery!Reorder PROVE GalleryInv' /\ Gallery!MediaKept
  <2>1. PICK place \in [Gallery!Ids(Others(g)) -> 1 .. Gallery!Cardinality(Others(g))] :
           /\ \A m, n \in Gallery!Ids(Others(g)) : place[m] = place[n] => m = n
           /\ \E x \in Others(g) : place[x.id] # x.order
           /\ Gallery!Revise(Placed(g, place))
    BY <1>5 DEF Gallery!Reorder, Gallery!Variations, Gallery!Current, Others, Placed
  <2>2. g # {}
    BY <2>1 DEF Others
  <2>3. Dense(Placed(g, place)) /\ Placed(g, place) # {}
    BY <1>1, <2>1, <2>2, ReorderedIsDense
  <2> QED BY <1>3, <2>1, <2>3
<1>6. ASSUME Gallery!Remove PROVE GalleryInv' /\ Gallery!MediaKept
  <2>1. PICK x \in g : x.role # "core" /\ Gallery!Revise(Gallery!Renumbered(g \ {x}))
    BY <1>1, <1>6 DEF Gallery!Remove
  <2>2. Dense(Gallery!Renumbered(g \ {x})) /\ Gallery!Renumbered(g \ {x}) # {}
    BY <1>1, <2>1, RemovedIsDense
  <2> QED BY <1>3, <2>1, <2>2
<1>7. ASSUME Gallery!Restore PROVE GalleryInv' /\ Gallery!MediaKept
  <2>1. PICK m \in MediaIds \ Gallery!Ids(g), d \in 1 .. made - 1 :
           /\ Gallery!IsApproved(gallery[d], m)
           /\ Gallery!Revise(g \cup {[Gallery!Get(gallery[d], m) EXCEPT
                                        !.role = "variation", !.order = Gallery!Cardinality(g)]})
    BY <1>1, <1>7 DEF Gallery!Restore, Gallery!Older
  <2>2. PICK old \in gallery[d] : old = Gallery!Get(gallery[d], m) /\ old.id = m
    BY <1>2, <2>1 DEF Gallery!IsApproved
  <2>3. d \in 1 .. made /\ old \in Gallery!AssetRow /\ g # {}
    <3>1. d \in 1 .. made
      BY DEF GalleryInv
    <3>2. Dense(gallery[d]) /\ gallery[d] # {}
      BY <2>2, <3>1 DEF GalleryInv
    <3> QED BY <2>2, <3>1, <3>2 DEF GalleryInv, Dense, Numbered
  <2> DEFINE n == Cardinality(g)
             x == [old EXCEPT !.role = "variation", !.order = n]
  <2>4. n \in Nat /\ n # 0 /\ \A y \in g : y.order < n
    BY <1>1, <2>3, FS_CardinalityType, FS_EmptySet DEF Dense, Numbered
  <2>5. Gallery!Revise(g \cup {x})
    BY <2>1, <2>2, SameCardinality
  <2>6. g \subseteq Gallery!AssetRow
    BY <1>1 DEF Dense, Numbered
  <2> HIDE DEF n
  <2>7. x \in Gallery!AssetRow /\ x.id = m /\ x.role = "variation" /\ x.order = n
    BY <2>2, <2>3, <2>4 DEF Gallery!AssetRow
  <2> HIDE DEF x
  <2>8. \A y \in g : y.order # x.order
    BY <2>4, <2>6, <2>7 DEF Gallery!AssetRow
  <2>9. x.order <= Cardinality(g)
    BY <2>4, <2>7 DEF n
  <2> HIDE DEF g
  <2>10. Dense(g \cup {x})
    BY <1>1, <2>1, <2>3, <2>4, <2>7, <2>8, <2>9, AddIsDense
  <2> QED BY <1>3, <2>5, <2>10
<1>8. ASSUME Gallery!StartRevision PROVE GalleryInv' /\ Gallery!MediaKept
  <2>1. /\ made + 1 \in Drafts /\ made' = made + 1 /\ live' /\ UNCHANGED product
        /\ gallery' = [gallery EXCEPT ![made + 1] = Gallery!Renumbered(product)]
        /\ Dense(product) /\ product # {}
    BY <1>8 DEF Gallery!StartRevision, GalleryInv
  <2>2. /\ Dense(Gallery!Renumbered(product))
        /\ Gallery!Ids(Gallery!Renumbered(product)) = Gallery!Ids(product)
    BY <2>1, RenumberedIsDense DEF Dense
  <2>3. Gallery!Ids(product) # {}
    BY <2>1 DEF Gallery!Ids
  <2>4. Gallery!Renumbered(product) # {}
    BY <2>2, <2>3 DEF Gallery!Ids
  <2> QED BY <2>1, <2>2, <2>4, RevisionKeeps
<1> QED BY <1>4, <1>5, <1>6, <1>7, <1>8 DEF Gallery!Mutate

LEMMA NextGallery ==
    ASSUME GalleryInv, [Gallery!Next]_(Gallery!vars)
    PROVE  GalleryInv' /\ Gallery!MediaKept
<1>1. ASSUME Gallery!PublishGallery PROVE GalleryInv' /\ Gallery!MediaKept
  <2>1. /\ UNCHANGED <<made, gallery>> /\ product' = gallery[made] /\ gallery[made] # {}
        /\ made \in 1 .. made
    BY <1>1 DEF Gallery!PublishGallery, Gallery!Current, GalleryInv
  <2> QED BY <2>1 DEF GalleryInv, Gallery!MediaKept, Gallery!Current, Gallery!Has, Gallery!Ids
<1>2. ASSUME UNCHANGED Gallery!vars PROVE GalleryInv' /\ Gallery!MediaKept
  BY <1>2 DEF Gallery!vars, GalleryInv, Gallery!MediaKept, Gallery!Current, Gallery!Has, Gallery!Ids
<1> QED BY <1>1, <1>2, InPlaceKeeps, RevisionsKeep DEF Gallery!Next

LEMMA GalleryKeepsInv == Spec => [](part = "gallery" => GalleryInv)
<1> DEFINE Inv == part = "gallery" => GalleryInv
<1>1. Init => Inv
  BY PartInit, InitGallery
<1>2. Inv /\ [Next]_vars => Inv'
  BY PartStep, NextGallery
<1> QED BY <1>1, <1>2, PTL DEF Spec

\* For any number of drafts and media ids, no sequence of media commands, publications and
\* revisions leaves a gallery that cannot be read again: every gallery is numbered from the
\* core, without a gap.
THEOREM GalleryStaysReadable == Spec => []GalleryIsReadable
<1>1. (part = "gallery" => GalleryInv) => GalleryIsReadable
  <2> SUFFICES ASSUME GalleryInv, NEW d \in Drafts PROVE Gallery!IsReadable(gallery[d])
    BY DEF GalleryIsReadable, Gallery!GalleryIsReadable
  <2>1. CASE d \in 1 .. made
    BY <2>1, NumberedIsReadable DEF GalleryInv, Dense
  <2>2. CASE d \notin 1 .. made
    BY <2>2 DEF GalleryInv, Gallery!IsReadable
  <2> QED BY <2>1, <2>2
<1> QED BY <1>1, GalleryKeepsInv, PTL

-----------------------------------------------------------------------------
(* Images *)

\* An image of variant v that a draft or an edit may hold.
IsReal(x, v) ==
    /\ x.approved => x.job # None
    /\ x.job # None =>
          /\ job[x.job] # None /\ job[x.job].status = "succeeded" /\ job[x.job].variant = v
          /\ x.job \in file
          /\ x.approved => x.job \in approval
AreReal(f) == f \in [Variants -> Images!ImageSet] /\ \A v \in Variants : IsReal(f[v], v)

\* The jobs of one variant in a set.
IsChild(j, set, v) == j \in Jobs /\ job[j] # None /\ job[j].set = set /\ job[j].variant = v

\* What a request knows at each place it may stand.  The locks it holds make it true until
\* the request ends.
Locking == {"edit", "stale edit", "publish"}
SetIsOpen(x) ==
    /\ x.set \in Images!Family /\ x.missing \subseteq Variants \ {0}
    /\ \A v \in Variants \ {0} : v \notin x.missing => \E k \in Jobs : IsChild(k, x.set, v)
    /\ \A v \in x.missing, k \in Jobs : IsChild(k, x.set, v) => job[k].status \in Images!Terminal
IsSound(x) ==
    /\ x = Images!Waiting(x.pc, x.draft, x.arg)
    /\ x.pc \in Locking => x.draft = draft
    /\ x.pc = "edit" => x.arg = image[draft]
    /\ x.pc \in {"loaded", "edit", "stale edit"} => AreReal(x.arg)
    /\ x.pc = "publish" => \A v \in Variants : x.arg[v].job # None => x.arg[v].job \in approval
    /\ x.pc = "approve" =>
          /\ x.draft \in ImageDrafts /\ x.arg \in Jobs /\ job[x.arg] # None
          /\ image[x.draft][job[x.arg].variant].job = x.arg
    /\ x.pc = "set" => SetIsOpen(x.arg)

\* A worker has a job of its own, which is not done, and the files once they are written.
WorkersAreSound ==
    /\ \A w \in Workers : worker[w].pc # "idle" =>
          /\ worker[w].job \in Jobs /\ job[worker[w].job] # None
          /\ job[worker[w].job].status \in {"running", "failed"}
          /\ worker[w].pc \in {"written", "store"} => worker[w].job \in file
    /\ \A w, u \in Workers : worker[w].pc # "idle" /\ worker[u].pc # "idle"
          /\ worker[w].job = worker[u].job => w = u

\* A set was enqueued with a job for every other variant, from its primary image, and a
\* job is followed by another for its variant only when it is over.
SetIsWhole(set) ==
    /\ \A j \in Jobs : job[j] # None /\ job[j].set = set =>
          /\ job[j].draft = set.draft /\ job[j].source = set.primary
          /\ \A v \in Variants \ {0} : \E k \in Jobs : IsChild(k, set, v)
    /\ \A v \in Variants, j, k \in Jobs :
          IsChild(j, set, v) /\ IsChild(k, set, v) /\ j < k => job[j].status \in Images!Terminal
SetsAreWhole == \A set \in Images!Family : SetIsWhole(set)

ImageType ==
    /\ made \in Nat \ {0} /\ draft \in 1 .. made /\ 1 .. made \subseteq ImageDrafts
    /\ image \in [ImageDrafts -> [Variants -> Images!ImageSet]]
    /\ job \in [Jobs -> Images!JobSet \cup {None}]
    /\ worker \in [Workers -> [pc : {"idle", "begin", "generate", "written", "store"},
                               job : Jobs \cup {None}]]
    /\ DOMAIN session = Sessions
    /\ IsFiniteSet(Images!Enqueued)

LocksHold ==
    /\ \A p, q \in Workers \cup Sessions :
          Images!HoldsWorkflow(p) /\ Images!HoldsWorkflow(q) => p = q
    /\ \A s, t \in Sessions : session[s].pc \in Locking /\ session[t].pc \in Locking => s = t

ImageInv ==
    /\ ImageType /\ LocksHold /\ WorkersAreSound /\ SetsAreWhole
    /\ \A s \in Sessions : IsSound(session[s])
    /\ \A d \in ImageDrafts, v \in Variants : IsReal(image[d][v], v)
    /\ product # None => \A v \in Variants : product[v].job # None => product[v].job \in approval

LEMMA ImageConstants ==
    /\ None \notin Nat /\ None \notin Images!JobSet /\ None \notin Images!Family
    /\ 0 \in Variants /\ Variants \subseteq Nat /\ IsFiniteSet(Variants)
    /\ Jobs \subseteq Nat /\ ImageDrafts \subseteq Nat /\ 1 \in ImageDrafts
    /\ Workers \cap Sessions = {} /\ None \notin Jobs
<1>1. \A S : Images!IsFiniteSet(S) <=> IsFiniteSet(S)
  BY DEF Images!IsFiniteSet, IsFiniteSet
<1> QED BY <1>1, StudioAssumption DEF Images!ImageAssumption

LEMMA InitImage == Images!Init => ImageInv
<1> SUFFICES ASSUME Images!Init PROVE ImageInv
  OBVIOUS
<1>1. Images!NoImage \in Images!ImageSet /\ Images!NoImage.job = None /\ ~Images!NoImage.approved
  BY DEF Images!NoImage, Images!ImageSet
<1>2. /\ \A s \in Sessions : session[s] = Images!Quiet
      /\ DOMAIN session = Sessions
      /\ \A w \in Workers : worker[w] = Images!Idle
      /\ \A j \in Jobs : job[j] = None
      /\ \A d \in ImageDrafts, v \in Variants : image[d][v] = Images!NoImage
  BY DEF Images!Init
<1>3. /\ Images!Quiet.pc = "quiet"
      /\ Images!Quiet = Images!Waiting(Images!Quiet.pc, Images!Quiet.draft, Images!Quiet.arg)
      /\ Images!Idle.pc = "idle" /\ Images!Idle.job = None
  BY DEF Images!Quiet, Images!Waiting, Images!Idle
<1>4. ImageType
  <2>1. image \in [ImageDrafts -> [Variants -> Images!ImageSet]]
    BY <1>1 DEF Images!Init
  <2>2. job \in [Jobs -> Images!JobSet \cup {None}]
    BY DEF Images!Init
  <2>3. worker \in [Workers -> [pc : {"idle", "begin", "generate", "written", "store"},
                                job : Jobs \cup {None}]]
    BY DEF Images!Init, Images!Idle
  <2>4. Images!Enqueued = {}
    BY <1>2 DEF Images!Enqueued
  <2> QED BY <1>2, <2>1, <2>2, <2>3, <2>4, FS_EmptySet, ImageConstants DEF ImageType, Images!Init
<1>5. LocksHold
  BY <1>2, <1>3 DEF LocksHold, Locking, Images!HoldsWorkflow
<1>6. WorkersAreSound /\ SetsAreWhole
  BY <1>2, <1>3 DEF WorkersAreSound, SetsAreWhole, SetIsWhole, IsChild
<1>7. \A s \in Sessions : IsSound(session[s])
  BY <1>2, <1>3 DEF IsSound, Locking
<1>8. \A d \in ImageDrafts, v \in Variants : IsReal(image[d][v], v)
  BY <1>1, <1>2 DEF IsReal
<1> QED BY <1>4, <1>5, <1>6, <1>7, <1>8 DEF ImageInv, Images!Init

\* Jobs stay what they are, and those that are done stay done, with their files.
Steady ==
    /\ \A j \in Jobs : job[j] # None =>
          /\ job'[j] # None
          /\ job'[j].variant = job[j].variant /\ job'[j].set = job[j].set
          /\ job'[j].draft = job[j].draft /\ job'[j].source = job[j].source
          /\ job[j].status \in Images!Terminal => job'[j].status \in Images!Terminal
          /\ job[j].status = "succeeded" => job'[j].status = "succeeded" /\ (j \in file => j \in file')
    /\ approval \subseteq approval'
NoNewChild == \A j \in Jobs : job[j] = None => job'[j] = None \/ job'[j].set = None

LEMMA RealLasts ==
    ASSUME Steady, NEW x \in Images!ImageSet, NEW v, IsReal(x, v)
    PROVE  IsReal(x, v)'
BY DEF Steady, IsReal, Images!ImageSet

LEMMA ChildLasts ==
    ASSUME Steady
    PROVE  \A j, set, v : IsChild(j, set, v) => IsChild(j, set, v)'
BY DEF Steady, IsChild

LEMMA NoNewLasts ==
    ASSUME Steady, NoNewChild
    PROVE  \A j, set, v : set # None /\ IsChild(j, set, v)' => IsChild(j, set, v)
BY DEF Steady, NoNewChild, IsChild

LEMMA SoundLasts ==
    ASSUME NEW x, IsSound(x), Steady,
           x.pc \in Locking => draft' = draft,
           x.pc = "edit" => image'[draft] = image[draft],
           x.pc = "approve" => image'[x.draft] = image[x.draft],
           x.pc = "set" => NoNewChild
    PROVE  IsSound(x)'
<1>1. x.pc \in {"loaded", "edit", "stale edit"} => AreReal(x.arg)'
  BY RealLasts DEF IsSound, AreReal
<1>2. x.pc = "publish" => \A v \in Variants : x.arg[v].job # None => x.arg[v].job \in approval'
  BY DEF IsSound, Steady
<1>3. x.pc = "approve" =>
          /\ x.draft \in ImageDrafts /\ x.arg \in Jobs /\ job'[x.arg] # None
          /\ image'[x.draft][job'[x.arg].variant].job = x.arg
  BY DEF IsSound, Steady
<1>4. x.pc = "set" => SetIsOpen(x.arg)'
  <2> SUFFICES ASSUME x.pc = "set" PROVE SetIsOpen(x.arg)'
    OBVIOUS
  <2>1. /\ x.arg.set \in Images!Family /\ x.arg.set # None /\ x.arg.missing \subseteq Variants \ {0}
        /\ \A v \in Variants \ {0} : v \notin x.arg.missing => \E k \in Jobs : IsChild(k, x.arg.set, v)
        /\ \A v \in x.arg.missing, k \in Jobs :
              IsChild(k, x.arg.set, v) => job[k].status \in Images!Terminal
    BY ImageConstants DEF IsSound, SetIsOpen
  <2>2. \A v \in Variants \ {0} : v \notin x.arg.missing => \E k \in Jobs : IsChild(k, x.arg.set, v)'
    BY <2>1, ChildLasts
  <2>3. \A v \in x.arg.missing, k \in Jobs :
           IsChild(k, x.arg.set, v)' => job'[k].status \in Images!Terminal
    <3> SUFFICES ASSUME NEW v \in x.arg.missing, NEW k \in Jobs, IsChild(k, x.arg.set, v)'
                 PROVE  job'[k].status \in Images!Terminal
      OBVIOUS
    <3>1. IsChild(k, x.arg.set, v)
      BY <2>1, NoNewLasts
    <3> QED BY <2>1, <3>1 DEF Steady, IsChild
  <2> QED BY <2>1, <2>2, <2>3 DEF SetIsOpen
<1>5. /\ x = Images!Waiting(x.pc, x.draft, x.arg)
      /\ x.pc \in Locking => x.draft = draft'
      /\ x.pc = "edit" => x.arg = image'[draft']
  BY DEF IsSound, Locking
<1> QED BY <1>1, <1>2, <1>3, <1>4, <1>5 DEF IsSound

LEMMA SetLasts ==
    ASSUME NEW set, set # None, SetIsWhole(set), Steady, NoNewChild
    PROVE  SetIsWhole(set)'
<1>1. \A j, v : IsChild(j, set, v)' <=> IsChild(j, set, v)
  BY ChildLasts, NoNewLasts
<1>2. ASSUME NEW j \in Jobs, job'[j] # None, job'[j].set = set
      PROVE  /\ job'[j].draft = set.draft /\ job'[j].source = set.primary
             /\ \A v \in Variants \ {0} : \E k \in Jobs : IsChild(k, set, v)'
  <2>1. job[j] # None /\ job[j].set = set
    BY <1>2 DEF Steady, NoNewChild
  <2> QED BY <1>1, <2>1 DEF SetIsWhole, Steady
<1>3. \A v \in Variants, j, k \in Jobs :
         IsChild(j, set, v)' /\ IsChild(k, set, v)' /\ j < k => job'[j].status \in Images!Terminal
  <2> SUFFICES ASSUME NEW v \in Variants, NEW j \in Jobs, NEW k \in Jobs, j < k,
                      IsChild(j, set, v)', IsChild(k, set, v)'
               PROVE  job'[j].status \in Images!Terminal
    OBVIOUS
  <2>1. IsChild(j, set, v) /\ IsChild(k, set, v)
    BY <1>1
  <2>2. job[j] # None /\ job[j].status \in Images!Terminal
    BY <2>1 DEF SetIsWhole, IsChild
  <2> QED BY <2>2 DEF Steady
<1> QED BY <1>2, <1>3 DEF SetIsWhole

\* Changing the status of a job that has not succeeded.
LEMMA StatusSteady ==
    ASSUME ImageType, NEW j \in Jobs, job[j] # None, job[j].status # "succeeded",
           NEW x \in {"queued", "running"} \cup Images!Terminal, Images!Set(j, x),
           job[j].status \in Images!Terminal => x \in Images!Terminal,
           file \ {j} \subseteq file', approval' = approval
    PROVE  /\ Steady /\ NoNewChild /\ Images!Enqueued' = Images!Enqueued
           /\ job' \in [Jobs -> Images!JobSet \cup {None}]
           /\ job'[j] # None /\ job'[j].status = x /\ \A k \in Jobs \ {j} : job'[k] = job[k]
<1>1. job \in [Jobs -> Images!JobSet \cup {None}] /\ job' = [job EXCEPT ![j].status = x]
  BY DEF ImageType, Images!Set
<1>2. job[j] \in Images!JobSet
  BY <1>1
<1> DEFINE r == [job[j] EXCEPT !.status = x]
<1>3. /\ r \in Images!JobSet /\ r.variant = job[j].variant /\ r.set = job[j].set
      /\ r.draft = job[j].draft /\ r.source = job[j].source /\ r.status = x
  BY <1>2 DEF Images!JobSet
<1>4. job'[j] = r /\ \A k \in Jobs \ {j} : job'[k] = job[k]
  BY <1>1
<1>5. job' \in [Jobs -> Images!JobSet \cup {None}]
  BY <1>1, <1>3
<1> HIDE DEF r
<1>6. job'[j] # None
  BY <1>3, <1>4, ImageConstants
<1>7. Steady
  BY <1>3, <1>4, <1>6 DEF Steady
<1>8. NoNewChild
  BY <1>4 DEF NoNewChild
<1>9. Images!Enqueued' = Images!Enqueued
  BY <1>4, <1>6 DEF Images!Enqueued
<1> QED BY <1>3, <1>4, <1>5, <1>6, <1>7, <1>8, <1>9

LEMMA SameIsSteady ==
    ASSUME ImageType, job' = job, file \subseteq file', approval \subseteq approval'
    PROVE  /\ Steady /\ NoNewChild /\ Images!Enqueued' = Images!Enqueued
           /\ job' \in [Jobs -> Images!JobSet \cup {None}]
BY DEF Steady, NoNewChild, Images!Enqueued, ImageType

\* What a step of a worker that leaves the drafts alone must show.
LEMMA WorkerKeeps ==
    ASSUME ImageInv, UNCHANGED <<made, draft, image, product, session, approval>>,
           Steady, NoNewChild, Images!Enqueued' = Images!Enqueued,
           job' \in [Jobs -> Images!JobSet \cup {None}],
           worker' \in [Workers -> [pc : {"idle", "begin", "generate", "written", "store"},
                                    job : Jobs \cup {None}]],
           LocksHold', WorkersAreSound'
    PROVE  ImageInv'
<1>1. ImageType'
  BY DEF ImageInv, ImageType
<1>2. SetsAreWhole'
  BY SetLasts, ImageConstants DEF ImageInv, SetsAreWhole
<1>3. \A s \in Sessions : IsSound(session[s])'
  <2> SUFFICES ASSUME NEW s \in Sessions PROVE IsSound(session[s])'
    OBVIOUS
  <2>1. PICK x : x = session[s] /\ x = session'[s]
    OBVIOUS
  <2>2. IsSound(x)'
    BY <2>1, SoundLasts DEF ImageInv
  <2> QED BY <2>1, <2>2
<1>4. \A d \in ImageDrafts, v \in Variants : IsReal(image[d][v], v)'
  <2> SUFFICES ASSUME NEW d \in ImageDrafts, NEW v \in Variants PROVE IsReal(image[d][v], v)'
    OBVIOUS
  <2>1. PICK x : x = image[d][v] /\ x = image'[d][v]
    OBVIOUS
  <2>2. x \in Images!ImageSet /\ IsReal(x, v)
    BY <2>1 DEF ImageInv, ImageType
  <2>3. IsReal(x, v)'
    BY <2>2, RealLasts
  <2> QED BY <2>1, <2>3
<1>5. product' # None => \A v \in Variants : product'[v].job # None => product'[v].job \in approval'
  BY DEF ImageInv
<1> QED BY <1>1, <1>2, <1>3, <1>4, <1>5 DEF ImageInv

\* A worker moves on with its job.
LEMMA AdvanceKeeps ==
    ASSUME ImageInv, NEW w \in Workers, worker[w].pc # "idle",
           NEW p \in {"idle", "generate", "written", "store"}, NEW k \in Jobs \cup {None},
           worker' = [worker EXCEPT ![w] = [pc |-> p, job |-> k]],
           p # "idle" => k = worker[w].job,
           p = "store" => Images!WorkflowIsFree,
           p \in {"written", "store"} => k \in file',
           UNCHANGED <<made, draft, image, product, session, approval, job>>, file \subseteq file'
    PROVE  ImageInv'
<1>1. ImageType /\ LocksHold /\ WorkersAreSound
  BY DEF ImageInv
<1>2. /\ worker' \in [Workers -> [pc : {"idle", "begin", "generate", "written", "store"},
                                 job : Jobs \cup {None}]]
      /\ worker'[w].pc = p /\ worker'[w].job = k /\ \A u \in Workers \ {w} : worker'[u] = worker[u]
  BY <1>1 DEF ImageType
<1>3. Steady /\ NoNewChild /\ Images!Enqueued' = Images!Enqueued
      /\ job' \in [Jobs -> Images!JobSet \cup {None}]
  BY <1>1, SameIsSteady
<1>4. LocksHold'
  <2>1. \A q \in Workers \cup Sessions : q # w /\ Images!HoldsWorkflow(q)' => Images!HoldsWorkflow(q)
    BY <1>2 DEF Images!HoldsWorkflow
  <2>2. Images!HoldsWorkflow(w)' => \A q \in Workers \cup Sessions : ~Images!HoldsWorkflow(q)
    BY <1>2, ImageConstants DEF Images!HoldsWorkflow, Images!WorkflowIsFree
  <2>3. \A q, r \in Workers \cup Sessions : Images!HoldsWorkflow(q)' /\ Images!HoldsWorkflow(r)' => q = r
    BY <1>1, <2>1, <2>2 DEF LocksHold
  <2> QED BY <1>1, <2>3 DEF LocksHold
<1>5. WorkersAreSound'
  <2>1. \A u \in Workers : worker'[u].pc # "idle" =>
           /\ worker[u].pc # "idle" /\ worker'[u].job = worker[u].job
           /\ (u # w => worker'[u] = worker[u])
    BY <1>2
  <2>2. \A u \in Workers : worker'[u].pc # "idle" =>
          /\ worker'[u].job \in Jobs /\ job'[worker'[u].job] # None
          /\ job'[worker'[u].job].status \in {"running", "failed"}
          /\ worker'[u].pc \in {"written", "store"} => worker'[u].job \in file'
    BY <1>1, <1>2, <2>1 DEF WorkersAreSound
  <2>3. \A u, v \in Workers : worker'[u].pc # "idle" /\ worker'[v].pc # "idle"
          /\ worker'[u].job = worker'[v].job => u = v
    BY <1>1, <2>1 DEF WorkersAreSound
  <2> QED BY <2>2, <2>3 DEF WorkersAreSound
<1> QED BY <1>2, <1>3, <1>4, <1>5, WorkerKeeps

\* A worker gives its job up, or takes one.
LEMMA GiveUpKeeps ==
    ASSUME ImageInv, NEW w \in Workers, NEW j \in Jobs, job[j] # None,
           NEW x \in {"running", "failed"}, Images!Set(j, x),
           NEW p \in {"idle", "begin"}, NEW k \in Jobs \cup {None},
           worker' = [worker EXCEPT ![w] = [pc |-> p, job |-> k]],
           \/ p = "idle" /\ worker[w].pc # "idle" /\ worker[w].job = j /\ x = "failed"
           \/ p = "begin" /\ job[j].status = "queued" /\ k = j,
           UNCHANGED <<made, draft, image, product, session, approval>>,
           file \ {j} \subseteq file', p = "begin" => file' = file
    PROVE  ImageInv'
<1>1. ImageType /\ LocksHold /\ WorkersAreSound
  BY DEF ImageInv
<1>2. /\ worker' \in [Workers -> [pc : {"idle", "begin", "generate", "written", "store"},
                                 job : Jobs \cup {None}]]
      /\ worker'[w].pc = p /\ worker'[w].job = k /\ \A u \in Workers \ {w} : worker'[u] = worker[u]
  BY <1>1 DEF ImageType
<1>3. job[j].status # "succeeded" /\ (job[j].status \in Images!Terminal => x \in Images!Terminal)
      /\ x \in {"queued", "running"} \cup Images!Terminal
  BY <1>1 DEF WorkersAreSound, Images!Terminal
<1>4. /\ Steady /\ NoNewChild /\ Images!Enqueued' = Images!Enqueued
      /\ job' \in [Jobs -> Images!JobSet \cup {None}]
      /\ job'[j] # None /\ job'[j].status = x /\ \A i \in Jobs \ {j} : job'[i] = job[i]
  BY <1>1, <1>3, StatusSteady
<1>5. LocksHold'
  <2>1. \A q \in Workers \cup Sessions : Images!HoldsWorkflow(q)' => Images!HoldsWorkflow(q)
    BY <1>2, ImageConstants DEF Images!HoldsWorkflow
  <2> QED BY <1>1, <2>1 DEF LocksHold
<1>6. WorkersAreSound'
  <2>1. \A u \in Workers \ {w} : worker[u].pc # "idle" => worker[u].job # j
    BY <1>1 DEF WorkersAreSound
  <2>2. \A u \in Workers : worker'[u].pc # "idle" =>
          /\ worker'[u].job \in Jobs /\ job'[worker'[u].job] # None
          /\ job'[worker'[u].job].status \in {"running", "failed"}
          /\ worker'[u].pc \in {"written", "store"} => worker'[u].job \in file'
    <3>1. ASSUME NEW u \in Workers \ {w}, worker'[u].pc # "idle"
          PROVE  /\ worker'[u].job \in Jobs /\ job'[worker'[u].job] # None
                 /\ job'[worker'[u].job].status \in {"running", "failed"}
                 /\ worker'[u].pc \in {"written", "store"} => worker'[u].job \in file'
      BY <1>1, <1>2, <1>4, <2>1, <3>1 DEF WorkersAreSound
    <3>2. worker'[w].pc = "begin" =>
                 /\ worker'[w].job \in Jobs /\ job'[worker'[w].job] # None
                 /\ job'[worker'[w].job].status \in {"running", "failed"}
      BY <1>2, <1>4
    <3> QED BY <1>2, <3>1, <3>2
  <2>3. \A u, v \in Workers : worker'[u].pc # "idle" /\ worker'[v].pc # "idle"
          /\ worker'[u].job = worker'[v].job => u = v
    BY <1>1, <1>2, <2>1 DEF WorkersAreSound
  <2> QED BY <2>2, <2>3 DEF WorkersAreSound
<1> QED BY <1>2, <1>4, <1>5, <1>6, WorkerKeeps

LEMMA WorkerSteps ==
    ASSUME ImageInv, NEW w \in Workers,
           \/ Images!Claim(w) \/ Images!Begin(w) \/ Images!Generate(w) \/ Images!LockResult(w)
           \/ Images!FailJob(w) \/ Images!CrashWorker(w)
    PROVE  ImageInv'
<1>1. /\ worker \in [Workers -> [pc : {"idle", "begin", "generate", "written", "store"},
                                job : Jobs \cup {None}]]
      /\ worker[w] = [pc |-> worker[w].pc, job |-> worker[w].job]
      /\ worker[w].pc # "idle" =>
            /\ worker[w].job \in Jobs /\ job[worker[w].job] # None
            /\ worker[w].pc \in {"written", "store"} => worker[w].job \in file
  BY DEF ImageInv, ImageType, WorkersAreSound
<1>2. Images!Idle = [pc |-> "idle", job |-> None]
  BY DEF Images!Idle
<1>3. ASSUME worker[w].pc # "idle", Images!Drop(w),
             UNCHANGED <<made, draft, image, product, session, approval>>
      PROVE  ImageInv'
  <2>1. /\ file' = file \ {worker[w].job} /\ Images!Set(worker[w].job, "failed")
        /\ worker' = [worker EXCEPT ![w] = [pc |-> "idle", job |-> None]]
    BY <1>2, <1>3 DEF Images!Drop
  <2> QED BY <1>1, <1>3, <2>1, GiveUpKeeps
<1>4. ASSUME Images!Claim(w) PROVE ImageInv'
  <2>1. PICK j \in Jobs :
           /\ job[j] # None /\ job[j].status = "queued" /\ Images!Set(j, "running")
           /\ worker' = [worker EXCEPT ![w] = [pc |-> "begin", job |-> j]]
           /\ UNCHANGED <<made, draft, image, product, session, approval, file>>
    BY <1>4 DEF Images!Claim, Images!At, Images!Enqueued
  <2> QED BY <2>1, GiveUpKeeps
<1>5. ASSUME NEW p \in {"generate", "written", "store"}, worker' = [worker EXCEPT ![w].pc = p]
      PROVE  worker' = [worker EXCEPT ![w] = [pc |-> p, job |-> worker[w].job]]
  <2>1. worker[w] \in [pc : {"idle", "begin", "generate", "written", "store"}, job : Jobs \cup {None}]
    BY <1>1
  <2>2. [worker[w] EXCEPT !.pc = p] = [pc |-> p, job |-> worker[w].job]
    BY <2>1
  <2>3. worker' = [worker EXCEPT ![w] = [worker[w] EXCEPT !.pc = p]]
    BY <1>5
  <2> QED BY <2>2, <2>3
<1>6. ASSUME Images!Begin(w) PROVE ImageInv'
  <2>1. worker[w].pc # "idle" /\ UNCHANGED <<made, draft, image, product, session, approval>>
    BY <1>6 DEF Images!Begin
  <2>2. CASE worker' = [worker EXCEPT ![w].pc = "generate"] /\ UNCHANGED <<job, file>>
    BY <1>1, <1>5, <2>1, <2>2, AdvanceKeeps
  <2>3. CASE Images!Drop(w)
    BY <1>3, <2>1, <2>3
  <2> QED BY <1>6, <2>2, <2>3 DEF Images!Begin
<1>7. ASSUME Images!Generate(w) PROVE ImageInv'
  <2>1. /\ worker[w].pc # "idle" /\ file' = file \cup {worker[w].job}
        /\ worker' = [worker EXCEPT ![w].pc = "written"]
        /\ UNCHANGED <<made, draft, image, product, session, approval, job>>
    BY <1>7 DEF Images!Generate
  <2> QED BY <1>1, <1>5, <2>1, AdvanceKeeps
<1>8. ASSUME Images!LockResult(w) PROVE ImageInv'
  <2>1. /\ worker[w].pc = "written" /\ Images!WorkflowIsFree
        /\ UNCHANGED <<made, draft, image, product, session, approval>>
    BY <1>8 DEF Images!LockResult
  <2>2. CASE worker' = [worker EXCEPT ![w].pc = "store"] /\ UNCHANGED <<job, file>>
    BY <1>1, <1>5, <2>1, <2>2, AdvanceKeeps
  <2>3. CASE Images!Drop(w)
    BY <1>3, <2>1, <2>3
  <2> QED BY <1>8, <2>2, <2>3 DEF Images!LockResult
<1>9. ASSUME Images!FailJob(w) PROVE ImageInv'
  BY <1>3, <1>9 DEF Images!FailJob
<1>10. ASSUME Images!CrashWorker(w) PROVE ImageInv'
  <2>1. /\ worker[w].pc # "idle" /\ worker' = [worker EXCEPT ![w] = [pc |-> "idle", job |-> None]]
        /\ UNCHANGED <<made, draft, image, product, session, approval, job, file>>
    BY <1>2, <1>10 DEF Images!CrashWorker
  <2> QED BY <2>1, AdvanceKeeps
<1> QED BY <1>4, <1>6, <1>7, <1>8, <1>9, <1>10

\* A stale job fails beside its worker.
LEMMA RecoverKeeps ==
    ASSUME ImageInv, Images!RecoverStale
    PROVE  ImageInv'
<1>1. PICK j \in Jobs :
         /\ job[j] # None /\ job[j].status = "running" /\ Images!Set(j, "failed")
         /\ UNCHANGED <<made, draft, image, product, session, approval, file, worker>>
  BY DEF Images!RecoverStale, Images!Enqueued
<1>2. ImageType /\ LocksHold /\ WorkersAreSound
  BY DEF ImageInv
<1>3. /\ Steady /\ NoNewChild /\ Images!Enqueued' = Images!Enqueued
      /\ job' \in [Jobs -> Images!JobSet \cup {None}]
      /\ job'[j] # None /\ job'[j].status = "failed" /\ \A i \in Jobs \ {j} : job'[i] = job[i]
  BY <1>1, <1>2, StatusSteady DEF Images!Terminal
<1>4. LocksHold'
  BY <1>1, <1>2 DEF LocksHold, Images!HoldsWorkflow
<1>5. WorkersAreSound'
  BY <1>1, <1>2, <1>3 DEF WorkersAreSound
<1>6. worker' \in [Workers -> [pc : {"idle", "begin", "generate", "written", "store"},
                               job : Jobs \cup {None}]]
  BY <1>1, <1>2 DEF ImageType
<1> QED BY <1>1, <1>3, <1>4, <1>5, <1>6, WorkerKeeps

\* The result of a worker, which holds the workflow, takes the place of an image that
\* no approval and no edit is about to use.
LEMMA StoreKeeps ==
    ASSUME ImageInv, NEW w \in Workers, Images!StoreResult(w)
    PROVE  ImageInv' /\ Images!ImageKept
<1>0. \A e \in ImageDrafts, u \in Variants : image[e][u] \in Images!ImageSet /\ IsReal(image[e][u], u)
  BY DEF ImageInv, ImageType
<1>1. ImageType /\ LocksHold /\ WorkersAreSound
  BY DEF ImageInv
<1>2. PICK j \in Jobs : j = worker[w].job
  BY <1>1 DEF Images!StoreResult, WorkersAreSound
<1>3. /\ worker[w].pc = "store" /\ job[j] # None /\ job[j].status \in {"running", "failed"} /\ j \in file
  BY <1>1, <1>2 DEF Images!StoreResult, WorkersAreSound
<1>4. PICK d, v : d = job[j].draft /\ v = job[j].variant
  OBVIOUS
<1>5. d \in ImageDrafts /\ v \in Variants
  BY <1>1, <1>3, <1>4 DEF ImageType, Images!JobSet
<1>6. /\ Images!DraftIsFree(d) /\ Images!Set(j, "succeeded")
      /\ image' = [image EXCEPT ![d][v] = Images!Reviewed(image[d][v], j)]
      /\ worker' = [worker EXCEPT ![w] = Images!Idle]
      /\ UNCHANGED <<made, draft, product, session, approval, file>>
  BY <1>2, <1>4 DEF Images!StoreResult
<1>7. /\ Steady /\ NoNewChild /\ Images!Enqueued' = Images!Enqueued
      /\ job' \in [Jobs -> Images!JobSet \cup {None}]
      /\ job'[j] # None /\ job'[j].status = "succeeded" /\ \A k \in Jobs \ {j} : job'[k] = job[k]
  BY <1>1, <1>3, <1>6, StatusSteady DEF Images!Terminal
<1> DEFINE old == image[d][v]
           new == Images!Reviewed(old, j)
<1>8. /\ old \in Images!ImageSet /\ new \in Images!ImageSet
      /\ new.job = j /\ ~new.approved /\ new.history = old.history \cup ({old.job} \ {None})
  BY <1>1, <1>5 DEF ImageType, Images!Reviewed, Images!ImageSet
<1>9. /\ image' \in [ImageDrafts -> [Variants -> Images!ImageSet]] /\ image'[d][v] = new
      /\ \A e \in ImageDrafts, u \in Variants : e # d \/ u # v => image'[e][u] = image[e][u]
      /\ \A e \in ImageDrafts : e # d => image'[e] = image[e]
  BY <1>1, <1>5, <1>6, <1>8 DEF ImageType
<1> HIDE DEF new, old
<1>10. /\ worker' \in [Workers -> [pc : {"idle", "begin", "generate", "written", "store"},
                                  job : Jobs \cup {None}]]
       /\ worker'[w].pc = "idle" /\ \A u \in Workers \ {w} : worker'[u] = worker[u]
  BY <1>1, <1>6 DEF ImageType, Images!Idle
<1>11. ImageType'
  BY <1>1, <1>6, <1>7, <1>9, <1>10 DEF ImageType
<1>12. LocksHold' /\ WorkersAreSound'
  <2>1. \A q \in Workers \cup Sessions : Images!HoldsWorkflow(q)' => Images!HoldsWorkflow(q)
    BY <1>6, <1>10 DEF Images!HoldsWorkflow
  <2>2. LocksHold'
    BY <1>1, <1>6, <2>1 DEF LocksHold
  <2>3. \A u \in Workers \ {w} : worker[u].pc # "idle" => worker[u].job # j
    BY <1>1, <1>2, <1>3 DEF WorkersAreSound
  <2>4. \A u \in Workers : worker'[u].pc # "idle" => u # w
    BY <1>10
  <2>5. WorkersAreSound'
    BY <1>1, <1>6, <1>7, <1>10, <2>3, <2>4 DEF WorkersAreSound
  <2> QED BY <2>2, <2>5
<1>13. SetsAreWhole'
  BY <1>7, SetLasts, ImageConstants DEF ImageInv, SetsAreWhole
<1>14. \A s \in Sessions : IsSound(session[s])'
  <2> SUFFICES ASSUME NEW s \in Sessions PROVE IsSound(session[s])'
    OBVIOUS
  <2>1. PICK x : x = session[s] /\ x = session'[s]
    BY <1>6
  <2>2. IsSound(x)
    BY <2>1 DEF ImageInv
  <2>3. x.pc # "approve"
    <3>1. Images!HoldsWorkflow(w)
      BY <1>3 DEF Images!HoldsWorkflow
    <3>2. x.pc = "approve" => Images!HoldsWorkflow(s) /\ s # w
      BY <2>1, ImageConstants DEF Images!HoldsWorkflow
    <3> QED BY <1>1, <3>1, <3>2 DEF LocksHold
  <2>4. x.pc = "edit" => image'[draft] = image[draft]
    <3>1. x.pc = "edit" => x.draft = draft /\ x.draft # d
      BY <1>6, <2>1, <2>2 DEF IsSound, Locking, Images!DraftIsFree, Images!HoldsDraft
    <3>2. draft \in ImageDrafts
      BY <1>1 DEF ImageType
    <3> QED BY <1>9, <3>1, <3>2
  <2>5. IsSound(x)'
    BY <1>6, <1>7, <2>2, <2>3, <2>4, SoundLasts
  <2> QED BY <2>1, <2>5
<1>15. \A e \in ImageDrafts, u \in Variants : IsReal(image[e][u], u)'
  <2> SUFFICES ASSUME NEW e \in ImageDrafts, NEW u \in Variants PROVE IsReal(image[e][u], u)'
    OBVIOUS
  <2>1. CASE e = d /\ u = v
    <3>1. PICK x : x = new
      OBVIOUS
    <3>2. IsReal(x, v)'
      BY <1>3, <1>4, <1>6, <1>7, <1>8, <3>1 DEF IsReal, Steady
    <3> QED BY <1>9, <2>1, <3>1, <3>2
  <2>2. CASE e # d \/ u # v
    <3>1. PICK x : x = image[e][u] /\ x = image'[e][u]
      BY <1>9, <2>2
    <3>2. x \in Images!ImageSet /\ IsReal(x, u)
      BY <1>0, <3>1
    <3>3. IsReal(x, u)'
      BY <1>7, <3>2, RealLasts
    <3> QED BY <3>1, <3>3
  <2> QED BY <2>1, <2>2
<1>16. product' # None => \A u \in Variants : product'[u].job # None => product'[u].job \in approval'
  BY <1>6 DEF ImageInv
<1>17. Images!ImageKept
  <2> SUFFICES ASSUME NEW u \in Variants, image[draft][u].approved
               PROVE  image[draft][u].job \in {image'[draft'][u].job} \cup image'[draft'][u].history
    BY DEF Images!ImageKept
  <2>1. draft' = draft /\ draft \in ImageDrafts
    BY <1>1, <1>6 DEF ImageType
  <2>2. CASE draft = d /\ u = v
    <3>1. old.job # None
      BY <2>1, <2>2 DEF ImageInv, IsReal, old
    <3> QED BY <1>8, <1>9, <2>1, <2>2, <3>1 DEF old
  <2>3. CASE draft # d \/ u # v
    BY <1>9, <2>1, <2>3
  <2> QED BY <2>2, <2>3
<1> QED BY <1>11, <1>12, <1>13, <1>14, <1>15, <1>16, <1>17 DEF ImageInv

\* A request waits or leaves.
LEMMA SessionKeeps ==
    ASSUME ImageInv, NEW s \in Sessions, NEW y, IsSound(y),
           session' = [session EXCEPT ![s] = y],
           UNCHANGED <<made, draft, image, product, job, file, worker, approval>>,
           y.pc \in {"set", "approve"} => Images!WorkflowIsFree,
           y.pc \in Locking => \A t \in Sessions : session[t].pc \notin Locking
    PROVE  ImageInv' /\ Images!ImageKept
<1>1. ImageType /\ LocksHold /\ WorkersAreSound
  BY DEF ImageInv
<1>2. DOMAIN session' = Sessions /\ session'[s] = y /\ \A t \in Sessions \ {s} : session'[t] = session[t]
  BY <1>1 DEF ImageType
<1>3. Steady /\ NoNewChild /\ Images!Enqueued' = Images!Enqueued
  BY <1>1, SameIsSteady
<1>4. ImageType'
  BY <1>1, <1>2, <1>3 DEF ImageType
<1>5. LocksHold'
  <2>1. \A q \in Workers \cup Sessions : q # s /\ Images!HoldsWorkflow(q)' => Images!HoldsWorkflow(q)
    BY <1>2 DEF Images!HoldsWorkflow
  <2>2. Images!HoldsWorkflow(s)' => \A q \in Workers \cup Sessions : ~Images!HoldsWorkflow(q)
    BY <1>2, ImageConstants DEF Images!HoldsWorkflow, Images!WorkflowIsFree
  <2>3. \A q, r \in Workers \cup Sessions : Images!HoldsWorkflow(q)' /\ Images!HoldsWorkflow(r)' => q = r
    BY <1>1, <2>1, <2>2 DEF LocksHold
  <2>4. \A t, u \in Sessions : session'[t].pc \in Locking /\ session'[u].pc \in Locking => t = u
    BY <1>1, <1>2 DEF LocksHold
  <2> QED BY <2>3, <2>4 DEF LocksHold
<1>6. WorkersAreSound' /\ SetsAreWhole'
  <2>1. WorkersAreSound'
    BY <1>1 DEF WorkersAreSound
  <2>2. SetsAreWhole'
    BY <1>3, SetLasts, ImageConstants DEF ImageInv, SetsAreWhole
  <2> QED BY <2>1, <2>2
<1>7. \A t \in Sessions : IsSound(session[t])'
  <2> SUFFICES ASSUME NEW t \in Sessions PROVE IsSound(session[t])'
    OBVIOUS
  <2>1. PICK x : x = session'[t]
    OBVIOUS
  <2>2. IsSound(x)
    BY <1>2, <2>1 DEF ImageInv
  <2>3. IsSound(x)'
    BY <1>3, <2>2, SoundLasts
  <2> QED BY <2>1, <2>3
<1>8. \A d \in ImageDrafts, v \in Variants : IsReal(image[d][v], v)'
  <2> SUFFICES ASSUME NEW d \in ImageDrafts, NEW v \in Variants PROVE IsReal(image[d][v], v)'
    OBVIOUS
  <2>1. PICK x : x = image[d][v] /\ x = image'[d][v]
    OBVIOUS
  <2>2. x \in Images!ImageSet /\ IsReal(x, v)
    BY <2>1 DEF ImageInv, ImageType
  <2>3. IsReal(x, v)'
    BY <1>3, <2>2, RealLasts
  <2> QED BY <2>1, <2>3
<1>9. product' # None => \A v \in Variants : product'[v].job # None => product'[v].job \in approval'
  BY DEF ImageInv
<1>10. Images!ImageKept
  BY DEF Images!ImageKept
<1> QED BY <1>4, <1>5, <1>6, <1>7, <1>8, <1>9, <1>10 DEF ImageInv

\* A finite set of job numbers has a last one.
LEMMA LatestIsLast ==
    ASSUME NEW T, T \subseteq Nat, T # {}, IsFiniteSet(T)
    PROVE  Images!Latest(T) \in T /\ \A k \in T : k <= Images!Latest(T)
<1> DEFINE After(x) == {y \in T : y > x}
           Afters == {After(x) : x \in T}
<1>1. Afters \subseteq FiniteSubsetsOf(T) /\ Afters # {}
  <2>1. \A x \in T : After(x) \subseteq T /\ IsFiniteSet(After(x))
    BY FS_Subset
  <2> QED BY <2>1 DEF FiniteSubsetsOf
<1>2. IsWellFoundedOn(StrictSubsetOrdering(T), FiniteSubsetsOf(T))
  BY FS_StrictSubsetOrderingWellFounded
<1>3. PICK A \in Afters : \A B \in Afters : <<B, A>> \notin StrictSubsetOrdering(T)
  <2> HIDE DEF Afters
  <2> QED BY <1>1, <1>2, WFMin
<1>4. PICK x \in T : A = After(x)
  OBVIOUS
<1>5. \A k \in T : k <= x
  <2> SUFFICES ASSUME NEW k \in T, ~(k <= x) PROVE FALSE
    OBVIOUS
  <2>0. k \in Nat /\ x \in Nat /\ k > x
    OBVIOUS
  <2>1. After(k) \subseteq T /\ After(x) \subseteq T /\ k \in After(x) /\ k \notin After(k)
    BY <2>0
  <2>2. After(k) \subseteq After(x)
    <3> SUFFICES ASSUME NEW i \in T, i > k PROVE i > x
      OBVIOUS
    <3>1. i \in Nat
      OBVIOUS
    <3> QED BY <2>0, <3>1
  <2>3. <<After(k), After(x)>> \in StrictSubsetOrdering(T)
    <3> HIDE DEF After
    <3> QED BY <2>1, <2>2 DEF StrictSubsetOrdering
  <2>4. After(k) \in Afters
    OBVIOUS
  <2> QED BY <1>3, <1>4, <2>3, <2>4
<1> QED BY <1>5 DEF Images!Latest

LEMMA LatestChild ==
    ASSUME ImageType, NEW set, NEW v
    PROVE  /\ \A k : k \in Images!InSet(set, v) <=> IsChild(k, set, v)
           /\ Images!InSet(set, v) # {} =>
                 /\ IsChild(Images!Latest(Images!InSet(set, v)), set, v)
                 /\ \A k \in Images!InSet(set, v) : k <= Images!Latest(Images!InSet(set, v))
<1>1. \A k : k \in Images!InSet(set, v) <=> IsChild(k, set, v)
  BY DEF Images!InSet, Images!Enqueued, IsChild
<1>2. Images!InSet(set, v) \subseteq Images!Enqueued /\ Images!InSet(set, v) \subseteq Nat
  BY ImageConstants DEF Images!InSet, Images!Enqueued
<1>3. IsFiniteSet(Images!InSet(set, v))
  BY <1>2, FS_Subset DEF ImageType
<1> QED BY <1>1, <1>2, <1>3, LatestIsLast

\* The requests that wait: under the workflow lock for a variant set or an approval,
\* under that of the draft for an edit or a publication, or with a draft they loaded.
LEMMA ReadSetKeeps ==
    ASSUME ImageInv, NEW s \in Sessions, Images!ReadSet(s)
    PROVE  ImageInv' /\ Images!ImageKept
<1>1. ImageType
  BY DEF ImageInv
<1> DEFINE primary == image[draft][0]
           set == [draft |-> draft, version |-> made, primary |-> primary.job]
           missing == {v \in Variants \ {0} : ~Images!IsSettled(set, v)}
           y == Images!Waiting("set", draft, [set |-> set, missing |-> missing])
<1>2. /\ session' = [session EXCEPT ![s] = y] /\ Images!WorkflowIsFree
      /\ primary.approved
      /\ UNCHANGED <<made, draft, image, product, job, file, worker, approval>>
  BY DEF Images!ReadSet
<1>3. set \in Images!Family
  <2>1. draft \in ImageDrafts /\ made \in ImageDrafts
    BY <1>1 DEF ImageType
  <2>2. primary \in Images!ImageSet /\ IsReal(primary, 0)
    BY <1>1, <2>1, ImageConstants DEF ImageInv, ImageType
  <2>3. primary.job \in Jobs
    BY <1>2, <2>2 DEF IsReal, Images!ImageSet
  <2> QED BY <2>1, <2>3 DEF Images!Family
<1> HIDE DEF set
<1>4. \A v \in Variants \ {0} : v \notin missing => \E k \in Jobs : IsChild(k, set, v)
  <2> SUFFICES ASSUME NEW v \in Variants \ {0}, Images!IsSettled(set, v)
               PROVE  \E k \in Jobs : IsChild(k, set, v)
    OBVIOUS
  <2>1. Images!InSet(set, v) # {}
    BY DEF Images!IsSettled
  <2> QED BY <1>1, <2>1, LatestChild DEF IsChild
<1>5. \A v \in missing, k \in Jobs : IsChild(k, set, v) => job[k].status \in Images!Terminal
  <2> SUFFICES ASSUME NEW v \in Variants \ {0}, ~Images!IsSettled(set, v),
                      NEW k \in Jobs, IsChild(k, set, v)
               PROVE  job[k].status \in Images!Terminal
    OBVIOUS
  <2> DEFINE last == Images!Latest(Images!InSet(set, v))
  <2>1. k \in Images!InSet(set, v)
    BY <1>1, LatestChild
  <2>2. IsChild(last, set, v) /\ k <= last
    BY <1>1, <2>1, LatestChild
  <2>3. job[last].status = "failed"
    BY <2>1 DEF Images!IsSettled
  <2> HIDE DEF last
  <2>4. CASE k = last
    BY <2>3, <2>4 DEF Images!Terminal
  <2>5. CASE k # last
    <3>1. k < last /\ last \in Jobs
      BY <2>2, <2>5, ImageConstants DEF IsChild
    <3>2. SetIsWhole(set)
      BY <1>3 DEF ImageInv, SetsAreWhole
    <3> QED BY <2>2, <3>1, <3>2 DEF SetIsWhole
  <2> QED BY <2>4, <2>5
<1> HIDE DEF missing
<1>6. missing \subseteq Variants \ {0}
  BY DEF missing
<1>7. y.pc = "set" /\ y.arg.set = set /\ y.arg.missing = missing
      /\ y = Images!Waiting(y.pc, y.draft, y.arg)
  BY DEF Images!Waiting
<1> HIDE DEF y
<1>8. IsSound(y)
  BY <1>3, <1>4, <1>5, <1>6, <1>7 DEF IsSound, SetIsOpen, Locking
<1>9. y.pc \notin Locking
  BY <1>7 DEF Locking
<1> QED BY <1>2, <1>8, <1>9, SessionKeeps

LEMMA WaitKeeps ==
    ASSUME ImageInv, NEW s \in Sessions,
           \/ Images!StartApproval(s) \/ Images!LoadDraft(s) \/ Images!StartEdit(s)
           \/ Images!StartPublish(s) \/ Images!AbortSession(s)
    PROVE  ImageInv' /\ Images!ImageKept
<1>1. ImageType /\ draft \in ImageDrafts /\ IsSound(session[s])
  BY DEF ImageInv, ImageType
<1>2. AreReal(image[draft])
  BY <1>1 DEF ImageInv, ImageType, AreReal
<1>3. ASSUME Images!StartApproval(s) PROVE ImageInv' /\ Images!ImageKept
  <2>1. PICK j \in Jobs :
           /\ job[j] # None /\ image[draft][job[j].variant].job = j
           /\ session' = [session EXCEPT ![s] = Images!Waiting("approve", draft, j)]
           /\ Images!WorkflowIsFree
           /\ UNCHANGED <<made, draft, image, product, job, file, worker, approval>>
    BY <1>3 DEF Images!StartApproval, Images!MayApprove, Images!Enqueued
  <2>2. IsSound(Images!Waiting("approve", draft, j)) /\ Images!Waiting("approve", draft, j).pc = "approve"
    BY <1>1, <2>1 DEF IsSound, Locking, Images!Waiting
  <2> QED BY <2>1, <2>2, SessionKeeps DEF Locking
<1>4. ASSUME Images!LoadDraft(s) PROVE ImageInv' /\ Images!ImageKept
  <2>1. /\ session' = [session EXCEPT ![s] = Images!Waiting("loaded", draft, image[draft])]
        /\ UNCHANGED <<made, draft, image, product, job, file, worker, approval>>
    BY <1>4 DEF Images!LoadDraft
  <2>2. /\ IsSound(Images!Waiting("loaded", draft, image[draft]))
        /\ Images!Waiting("loaded", draft, image[draft]).pc = "loaded"
    BY <1>2 DEF IsSound, Locking, Images!Waiting
  <2> QED BY <2>1, <2>2, SessionKeeps DEF Locking
<1>5. ASSUME Images!DraftIsFree(draft), NEW t \in Sessions PROVE session[t].pc \notin Locking
  BY <1>5 DEF ImageInv, IsSound, Locking, Images!DraftIsFree, Images!HoldsDraft
<1>6. ASSUME Images!StartEdit(s) PROVE ImageInv' /\ Images!ImageKept
  <2>1. /\ session[s].pc = "loaded" /\ session[s].draft = draft /\ Images!DraftIsFree(draft)
        /\ session' = [session EXCEPT
              ![s].pc = IF session[s].arg = image[draft] THEN "edit" ELSE "stale edit"]
        /\ UNCHANGED <<made, draft, image, product, job, file, worker, approval>>
    BY <1>6 DEF Images!StartEdit
  <2>2. PICK p : /\ p = IF session[s].arg = image[draft] THEN "edit" ELSE "stale edit"
                 /\ session' = [session EXCEPT ![s].pc = p]
    BY <2>1
  <2>3. session[s] = [pc |-> session[s].pc, draft |-> session[s].draft, arg |-> session[s].arg]
    BY <1>1 DEF IsSound, Images!Waiting
  <2>4. [session[s] EXCEPT !.pc = p] = [pc |-> p, draft |-> session[s].draft, arg |-> session[s].arg]
    BY <2>3
  <2> DEFINE y == Images!Waiting(p, session[s].draft, session[s].arg)
  <2>5. session' = [session EXCEPT ![s] = y]
    BY <2>2, <2>4 DEF Images!Waiting
  <2>6. /\ y.pc = p /\ y.draft = draft /\ y.arg = session[s].arg
        /\ y = Images!Waiting(y.pc, y.draft, y.arg)
    BY <2>1 DEF Images!Waiting
  <2>7. AreReal(session[s].arg)
    BY <1>1, <2>1 DEF IsSound
  <2> HIDE DEF y
  <2>8. IsSound(y)
    BY <2>2, <2>6, <2>7 DEF IsSound
  <2> QED BY <1>5, <2>1, <2>2, <2>5, <2>6, <2>8, SessionKeeps
<1>7. ASSUME Images!StartPublish(s) PROVE ImageInv' /\ Images!ImageKept
  <2>1. /\ session' = [session EXCEPT ![s] = Images!Waiting("publish", draft, image[draft])]
        /\ Images!DraftIsFree(draft) /\ Images!IsApproved(draft)
        /\ UNCHANGED <<made, draft, image, product, job, file, worker, approval>>
    BY <1>7 DEF Images!StartPublish
  <2> DEFINE y == Images!Waiting("publish", draft, image[draft])
  <2>2. /\ y.pc = "publish" /\ y.draft = draft /\ y.arg = image[draft]
        /\ y = Images!Waiting(y.pc, y.draft, y.arg)
    BY DEF Images!Waiting
  <2>3. \A v \in Variants : image[draft][v].job # None => image[draft][v].job \in approval
    BY <1>2, <2>1 DEF AreReal, IsReal, Images!IsApproved
  <2> HIDE DEF y
  <2>4. IsSound(y)
    BY <2>2, <2>3 DEF IsSound
  <2> QED BY <1>5, <2>1, <2>2, <2>4, SessionKeeps
<1>8. ASSUME Images!AbortSession(s) PROVE ImageInv' /\ Images!ImageKept
  <2>1. /\ session' = [session EXCEPT ![s] = Images!Quiet]
        /\ UNCHANGED <<made, draft, image, product, job, file, worker, approval>>
    BY <1>8 DEF Images!AbortSession
  <2>2. IsSound(Images!Quiet) /\ Images!Quiet.pc = "quiet"
    BY DEF IsSound, Locking, Images!Waiting, Images!Quiet
  <2> QED BY <2>1, <2>2, SessionKeeps DEF Locking
<1> QED BY <1>3, <1>4, <1>6, <1>7, <1>8

\* A new draft beside the workflow, and a new job that belongs to no set.
LEMMA RestKeeps ==
    ASSUME ImageInv, ImageType', Steady, NoNewChild,
           \A j \in Jobs : job[j] # None => job'[j] = job[j],
           UNCHANGED <<draft, image, product, file, worker, session, approval>>
    PROVE  ImageInv' /\ Images!ImageKept
<1>1. ImageType /\ LocksHold /\ WorkersAreSound
  BY DEF ImageInv
<1>2. LocksHold'
  BY <1>1 DEF LocksHold, Images!HoldsWorkflow
<1>3. WorkersAreSound'
  BY <1>1 DEF WorkersAreSound
<1>4. SetsAreWhole'
  BY SetLasts, ImageConstants DEF ImageInv, SetsAreWhole
<1>5. \A s \in Sessions : IsSound(session[s])'
  <2> SUFFICES ASSUME NEW s \in Sessions PROVE IsSound(session[s])'
    OBVIOUS
  <2>1. PICK x : x = session[s] /\ x = session'[s]
    OBVIOUS
  <2>2. IsSound(x)'
    BY <2>1, SoundLasts DEF ImageInv
  <2> QED BY <2>1, <2>2
<1>6. \A d \in ImageDrafts, v \in Variants : IsReal(image[d][v], v)'
  <2> SUFFICES ASSUME NEW d \in ImageDrafts, NEW v \in Variants PROVE IsReal(image[d][v], v)'
    OBVIOUS
  <2>1. PICK x : x = image[d][v] /\ x = image'[d][v]
    OBVIOUS
  <2>2. x \in Images!ImageSet /\ IsReal(x, v)
    BY <2>1 DEF ImageInv, ImageType
  <2>3. IsReal(x, v)'
    BY <2>2, RealLasts
  <2> QED BY <2>1, <2>3
<1>7. product' # None => \A v \in Variants : product'[v].job # None => product'[v].job \in approval'
  BY DEF ImageInv
<1>8. Images!ImageKept
  BY DEF Images!ImageKept
<1> QED BY <1>2, <1>3, <1>4, <1>5, <1>6, <1>7, <1>8 DEF ImageInv

LEMMA BesideKeeps ==
    ASSUME ImageInv, Images!CreateBeside
    PROVE  ImageInv' /\ Images!ImageKept
<1>1. ImageType
  BY DEF ImageInv
<1>2. /\ made + 1 \in ImageDrafts /\ made' = made + 1
      /\ UNCHANGED <<draft, image, product, job, file, worker, session, approval>>
  BY DEF Images!CreateBeside
<1>3. Steady /\ NoNewChild /\ Images!Enqueued' = Images!Enqueued
      /\ job' \in [Jobs -> Images!JobSet \cup {None}]
  BY <1>1, <1>2, SameIsSteady
<1>4. made' \in Nat \ {0} /\ draft' \in 1 .. made' /\ 1 .. made' \subseteq ImageDrafts
  <2>1. made \in Nat \ {0} /\ draft \in 1 .. made /\ 1 .. made \subseteq ImageDrafts
    BY <1>1 DEF ImageType
  <2>2. 1 .. made' = (1 .. made) \cup {made + 1}
    BY <1>2, <2>1
  <2> QED BY <1>2, <2>1, <2>2
<1>5. ImageType'
  BY <1>1, <1>2, <1>3, <1>4 DEF ImageType
<1> QED BY <1>2, <1>3, <1>5, RestKeeps

LEMMA EnqueueKeeps ==
    ASSUME ImageInv, Images!EnqueueImage
    PROVE  ImageInv' /\ Images!ImageKept
<1>1. ImageType
  BY DEF ImageInv
<1>2. PICK j \in Jobs, v \in Variants, source \in Jobs \cup {None} :
         /\ job[j] = None
         /\ job' = [job EXCEPT ![j] = Images!JobRow(v, source, None, draft, made)]
  BY DEF Images!EnqueueImage
<1>3. UNCHANGED <<made, draft, image, product, file, worker, session, approval>>
  BY DEF Images!EnqueueImage
<1>4. PICK r : r = Images!JobRow(v, source, None, draft, made)
  OBVIOUS
<1>5. draft \in ImageDrafts /\ made \in ImageDrafts
  BY <1>1 DEF ImageType
<1>6. r \in Images!JobSet /\ r # None /\ r.set = None
  BY <1>4, <1>5, ImageConstants DEF Images!JobRow, Images!JobSet
<1>7. /\ job' \in [Jobs -> Images!JobSet \cup {None}] /\ job'[j] = r
      /\ \A k \in Jobs \ {j} : job'[k] = job[k]
  BY <1>1, <1>2, <1>4, <1>6 DEF ImageType
<1>8. Steady /\ NoNewChild
  BY <1>2, <1>3, <1>6, <1>7 DEF Steady, NoNewChild
<1>9. IsFiniteSet(Images!Enqueued')
  <2>1. Images!Enqueued' = Images!Enqueued \cup {j}
    BY <1>6, <1>7 DEF Images!Enqueued
  <2> QED BY <1>1, <2>1, FS_AddElement DEF ImageType
<1>10. ImageType'
  BY <1>1, <1>3, <1>7, <1>9 DEF ImageType
<1>11. \A k \in Jobs : job[k] # None => job'[k] = job[k]
  BY <1>2, <1>7
<1> QED BY <1>3, <1>8, <1>10, <1>11, RestKeeps

\* A request ends: it lets its locks go.
LEMMA EndsWell ==
    ASSUME ImageInv, NEW s \in Sessions, session' = [session EXCEPT ![s] = Images!Quiet],
           worker' = worker, file' = file, \A j \in Jobs : job[j] # None => job'[j] = job[j]
    PROVE  /\ LocksHold' /\ WorkersAreSound'
           /\ DOMAIN session' = Sessions /\ session'[s].pc = "quiet" /\ IsSound(session[s])'
           /\ \A t \in Sessions \ {s} : session'[t] = session[t]
           /\ Images!HoldsWorkflow(s) =>
                 \A t \in Sessions \ {s} : session[t].pc \notin {"set", "approve"}
           /\ session[s].pc \in Locking => \A t \in Sessions \ {s} : session[t].pc \notin Locking
<1>1. ImageType /\ LocksHold /\ WorkersAreSound
  BY DEF ImageInv
<1>2. /\ DOMAIN session' = Sessions /\ session'[s] = Images!Quiet
      /\ \A t \in Sessions \ {s} : session'[t] = session[t]
  BY <1>1 DEF ImageType
<1>3. Images!Quiet.pc = "quiet" /\ IsSound(Images!Quiet)'
  BY DEF IsSound, Locking, Images!Waiting, Images!Quiet
<1>4. LocksHold'
  <2>1. \A q \in Workers \cup Sessions : Images!HoldsWorkflow(q)' => Images!HoldsWorkflow(q)
    BY <1>2, <1>3 DEF Images!HoldsWorkflow
  <2>2. \A t \in Sessions : session'[t].pc \in Locking => session[t].pc \in Locking
    BY <1>2, <1>3 DEF Locking
  <2> QED BY <1>1, <2>1, <2>2 DEF LocksHold
<1>5. WorkersAreSound'
  BY <1>1 DEF WorkersAreSound
<1>6. IsSound(session[s])'
  <2>1. PICK x : x = session'[s] /\ x = Images!Quiet
    BY <1>2
  <2>2. IsSound(x)'
    BY <1>3, <2>1 DEF Images!Quiet, Images!Waiting
  <2> QED BY <2>1, <2>2
<1>7. Images!HoldsWorkflow(s) =>
         \A t \in Sessions \ {s} : session[t].pc \notin {"set", "approve"}
  BY <1>1 DEF LocksHold, Images!HoldsWorkflow
<1>8. session[s].pc \in Locking => \A t \in Sessions \ {s} : session[t].pc \notin Locking
  BY <1>1 DEF LocksHold
<1> QED BY <1>2, <1>3, <1>4, <1>5, <1>6, <1>7, <1>8

\* The approval of an image that a draft shows.
LEMMA ApprovalKeeps ==
    ASSUME ImageInv, NEW s \in Sessions, Images!CommitApproval(s)
    PROVE  ImageInv' /\ Images!ImageKept
<1>0. \A e \in ImageDrafts, u \in Variants : image[e][u] \in Images!ImageSet /\ IsReal(image[e][u], u)
  BY DEF ImageInv, ImageType
<1>1. ImageType /\ IsSound(session[s])
  BY DEF ImageInv
<1>2. PICK d, j : d = session[s].draft /\ j = session[s].arg
  OBVIOUS
<1>3. /\ session[s].pc = "approve" /\ Images!DraftIsFree(d)
      /\ image' = [image EXCEPT ![d][job[j].variant].approved = TRUE]
      /\ approval' = approval \cup {j} /\ session' = [session EXCEPT ![s] = Images!Quiet]
      /\ UNCHANGED <<made, draft, product, job, file, worker>>
  BY <1>2 DEF Images!CommitApproval
<1>4. d \in ImageDrafts /\ j \in Jobs /\ job[j] # None /\ image[d][job[j].variant].job = j
  BY <1>1, <1>2, <1>3 DEF IsSound
<1>5. PICK v : v = job[j].variant
  OBVIOUS
<1>6. v \in Variants
  BY <1>1, <1>4, <1>5 DEF ImageType, Images!JobSet
<1>7. PICK old : old = image[d][v]
  OBVIOUS
<1>8. old \in Images!ImageSet /\ old.job = j /\ IsReal(old, v)
  BY <1>1, <1>4, <1>5, <1>6, <1>7 DEF ImageInv, ImageType
<1>9. PICK new : new = [old EXCEPT !.approved = TRUE]
  OBVIOUS
<1>10. new \in Images!ImageSet /\ new.job = j /\ new.history = old.history
  BY <1>8, <1>9 DEF Images!ImageSet
<1>11. image' = [image EXCEPT ![d][v] = new]
  BY <1>3, <1>5, <1>7, <1>9
<1>12. /\ image' \in [ImageDrafts -> [Variants -> Images!ImageSet]] /\ image'[d][v] = new
       /\ \A e \in ImageDrafts, u \in Variants : e # d \/ u # v => image'[e][u] = image[e][u]
       /\ \A e \in ImageDrafts : e # d => image'[e] = image[e]
  BY <1>1, <1>4, <1>6, <1>10, <1>11 DEF ImageType
<1>13. Steady /\ NoNewChild /\ Images!Enqueued' = Images!Enqueued
       /\ job' \in [Jobs -> Images!JobSet \cup {None}]
  BY <1>1, <1>3, SameIsSteady
<1>14. /\ LocksHold' /\ WorkersAreSound' /\ DOMAIN session' = Sessions /\ IsSound(session[s])'
       /\ \A t \in Sessions \ {s} : session'[t] = session[t]
       /\ Images!HoldsWorkflow(s) =>
             \A t \in Sessions \ {s} : session[t].pc \notin {"set", "approve"}
  BY <1>3, EndsWell
<1>15. ImageType'
  BY <1>1, <1>3, <1>12, <1>13, <1>14 DEF ImageType
<1>16. SetsAreWhole'
  BY <1>13, SetLasts, ImageConstants DEF ImageInv, SetsAreWhole
<1>17. \A t \in Sessions : IsSound(session[t])'
  <2> SUFFICES ASSUME NEW t \in Sessions \ {s} PROVE IsSound(session[t])'
    BY <1>14
  <2>1. PICK x : x = session[t] /\ x = session'[t]
    BY <1>14
  <2>2. IsSound(x)
    BY <2>1 DEF ImageInv
  <2>3. x.pc # "approve"
    BY <1>3, <1>14, <2>1 DEF Images!HoldsWorkflow
  <2>4. x.pc = "edit" => image'[draft] = image[draft]
    <3>1. x.pc = "edit" => x.draft = draft /\ x.draft # d
      BY <1>3, <2>1, <2>2 DEF IsSound, Locking, Images!DraftIsFree, Images!HoldsDraft
    <3>2. draft \in ImageDrafts
      BY <1>1 DEF ImageType
    <3> QED BY <1>12, <3>1, <3>2
  <2>5. IsSound(x)'
    BY <1>3, <1>13, <2>2, <2>3, <2>4, SoundLasts
  <2> QED BY <2>1, <2>5
<1>18. \A e \in ImageDrafts, u \in Variants : IsReal(image[e][u], u)'
  <2> SUFFICES ASSUME NEW e \in ImageDrafts, NEW u \in Variants PROVE IsReal(image[e][u], u)'
    OBVIOUS
  <2>1. CASE e = d /\ u = v
    <3>1. IsReal(new, u)'
      <4>1. j # None /\ job[j].status = "succeeded" /\ job[j].variant = v /\ j \in file
        BY <1>4, <1>8, ImageConstants DEF IsReal
      <4> QED BY <1>3, <1>4, <1>10, <2>1, <4>1 DEF IsReal
    <3>2. image'[e][u] = new
      BY <1>12, <2>1
    <3> QED BY <3>1, <3>2
  <2>2. CASE e # d \/ u # v
    <3>1. PICK x : x = image[e][u] /\ x = image'[e][u]
      BY <1>12, <2>2
    <3>2. x \in Images!ImageSet /\ IsReal(x, u)
      BY <1>0, <3>1
    <3>3. IsReal(x, u)'
      BY <1>13, <3>2, RealLasts
    <3> QED BY <3>1, <3>3
  <2> QED BY <2>1, <2>2
<1>19. product' # None => \A u \in Variants : product'[u].job # None => product'[u].job \in approval'
  BY <1>3 DEF ImageInv
<1>20. Images!ImageKept
  <2> SUFFICES ASSUME NEW u \in Variants, image[draft][u].approved
               PROVE  image[draft][u].job \in {image'[draft'][u].job} \cup image'[draft'][u].history
    BY DEF Images!ImageKept
  <2>1. draft' = draft /\ draft \in ImageDrafts
    BY <1>1, <1>3 DEF ImageType
  <2>2. CASE draft = d /\ u = v
    BY <1>7, <1>8, <1>10, <1>12, <2>1, <2>2
  <2>3. CASE draft # d \/ u # v
    BY <1>12, <2>1, <2>3
  <2> QED BY <2>2, <2>3
<1> QED BY <1>14, <1>15, <1>16, <1>17, <1>18, <1>19, <1>20 DEF ImageInv

\* An edit makes the next draft from the images it carries.
LEMMA EditKeeps ==
    ASSUME ImageInv, NEW s \in Sessions, Images!CommitEdit(s)
    PROVE  ImageInv' /\ Images!ImageKept
<1>1. ImageType /\ IsSound(session[s])
  BY DEF ImageInv
<1>2. PICK n, f : n = made + 1 /\ f = session[s].arg
  OBVIOUS
<1>3. /\ session[s].pc \in {"edit", "stale edit"} /\ Images!WorkflowIsFree /\ n \in ImageDrafts
      /\ made' = n /\ draft' = n /\ image' = [image EXCEPT ![n] = f]
      /\ session' = [session EXCEPT ![s] = Images!Quiet]
      /\ UNCHANGED <<product, job, file, worker, approval>>
  BY <1>2 DEF Images!CommitEdit
<1>4. AreReal(f)
  BY <1>1, <1>2, <1>3 DEF IsSound
<1>5. /\ image' \in [ImageDrafts -> [Variants -> Images!ImageSet]] /\ image'[n] = f
      /\ \A e \in ImageDrafts : e # n => image'[e] = image[e]
  BY <1>1, <1>3, <1>4 DEF ImageType, AreReal
<1>6. Steady /\ NoNewChild /\ Images!Enqueued' = Images!Enqueued
      /\ job' \in [Jobs -> Images!JobSet \cup {None}]
  BY <1>1, <1>3, SameIsSteady
<1>7. /\ LocksHold' /\ WorkersAreSound' /\ DOMAIN session' = Sessions
      /\ session'[s].pc = "quiet" /\ IsSound(session[s])'
      /\ \A t \in Sessions \ {s} : session'[t] = session[t]
      /\ session[s].pc \in Locking => \A t \in Sessions \ {s} : session[t].pc \notin Locking
  BY <1>3, EndsWell
<1>8. made' \in Nat \ {0} /\ draft' \in 1 .. made' /\ 1 .. made' \subseteq ImageDrafts /\ draft # n
  <2>1. made \in Nat \ {0} /\ draft \in 1 .. made /\ 1 .. made \subseteq ImageDrafts
    BY <1>1 DEF ImageType
  <2>2. 1 .. n = (1 .. made) \cup {n} /\ n \in 1 .. n /\ n \in Nat \ {0} /\ draft # n
    BY <1>2, <2>1
  <2>3. made' = n /\ draft' = n /\ n \in ImageDrafts
    BY <1>3
  <2> QED BY <2>1, <2>2, <2>3
<1>9. ImageType'
  BY <1>1, <1>3, <1>5, <1>6, <1>7, <1>8 DEF ImageType
<1>10. SetsAreWhole'
  BY <1>6, SetLasts, ImageConstants DEF ImageInv, SetsAreWhole
<1>11. \A t \in Sessions : IsSound(session[t])'
  <2> SUFFICES ASSUME NEW t \in Sessions \ {s} PROVE IsSound(session[t])'
    BY <1>7
  <2>1. PICK x : x = session[t] /\ x = session'[t]
    BY <1>7
  <2>2. IsSound(x)
    BY <2>1 DEF ImageInv
  <2>3. x.pc \notin {"set", "approve"}
    BY <1>3, <2>1 DEF Images!WorkflowIsFree, Images!HoldsWorkflow
  <2>4. x.pc \notin Locking
    BY <1>3, <1>7, <2>1 DEF Locking
  <2>5. IsSound(x)'
    BY <1>6, <2>2, <2>3, <2>4, SoundLasts DEF Locking
  <2> QED BY <2>1, <2>5
<1>12. \A e \in ImageDrafts, u \in Variants : IsReal(image[e][u], u)'
  <2> SUFFICES ASSUME NEW e \in ImageDrafts, NEW u \in Variants PROVE IsReal(image[e][u], u)'
    OBVIOUS
  <2>1. PICK x : x = image'[e][u]
    OBVIOUS
  <2>2. x \in Images!ImageSet /\ IsReal(x, u)
    BY <1>1, <1>4, <1>5, <2>1 DEF ImageInv, ImageType, AreReal
  <2>3. IsReal(x, u)'
    BY <1>6, <2>2, RealLasts
  <2> QED BY <2>1, <2>3
<1>13. product' # None => \A u \in Variants : product'[u].job # None => product'[u].job \in approval'
  BY <1>3 DEF ImageInv
<1>14. Images!ImageKept
  <2>1. CASE session[s].pc = "edit"
    <3>1. image'[draft'] = image[draft]
      BY <1>1, <1>2, <1>3, <1>5, <2>1 DEF IsSound
    <3> QED BY <3>1 DEF Images!ImageKept
  <2>2. CASE session[s].pc = "stale edit"
    BY <1>3, <1>7, <1>8, <2>2 DEF Images!ImageKept, Images!StaleEditCommits
  <2> QED BY <1>3, <2>1, <2>2
<1> QED BY <1>7, <1>9, <1>10, <1>11, <1>12, <1>13, <1>14 DEF ImageInv

\* A publication puts the images it validated on sale.
LEMMA PublishKeeps ==
    ASSUME ImageInv, NEW s \in Sessions, Images!CommitPublish(s)
    PROVE  ImageInv' /\ Images!ImageKept
<1>0. \A e \in ImageDrafts, u \in Variants : image[e][u] \in Images!ImageSet /\ IsReal(image[e][u], u)
  BY DEF ImageInv, ImageType
<1>1. ImageType /\ IsSound(session[s])
  BY DEF ImageInv
<1>2. /\ session[s].pc = "publish" /\ product' = session[s].arg
      /\ session' = [session EXCEPT ![s] = Images!Quiet]
      /\ UNCHANGED <<made, draft, image, job, file, worker, approval>>
  BY DEF Images!CommitPublish
<1>3. Steady /\ NoNewChild /\ Images!Enqueued' = Images!Enqueued
      /\ job' \in [Jobs -> Images!JobSet \cup {None}]
  BY <1>1, <1>2, SameIsSteady
<1>4. /\ LocksHold' /\ WorkersAreSound' /\ DOMAIN session' = Sessions /\ IsSound(session[s])'
      /\ \A t \in Sessions \ {s} : session'[t] = session[t]
  BY <1>2, EndsWell
<1>5. ImageType'
  BY <1>1, <1>2, <1>3, <1>4 DEF ImageType
<1>6. SetsAreWhole'
  BY <1>3, SetLasts, ImageConstants DEF ImageInv, SetsAreWhole
<1>7. \A t \in Sessions : IsSound(session[t])'
  <2> SUFFICES ASSUME NEW t \in Sessions \ {s} PROVE IsSound(session[t])'
    BY <1>4
  <2>1. PICK x : x = session[t] /\ x = session'[t]
    BY <1>4
  <2>2. IsSound(x)'
    BY <1>2, <1>3, <2>1, SoundLasts DEF ImageInv
  <2> QED BY <2>1, <2>2
<1>8. \A e \in ImageDrafts, u \in Variants : IsReal(image[e][u], u)'
  <2> SUFFICES ASSUME NEW e \in ImageDrafts, NEW u \in Variants PROVE IsReal(image[e][u], u)'
    OBVIOUS
  <2>1. PICK x : x = image[e][u] /\ x = image'[e][u]
    BY <1>2
  <2>2. x \in Images!ImageSet /\ IsReal(x, u)
    BY <1>0, <2>1
  <2>3. IsReal(x, u)'
    BY <1>3, <2>2, RealLasts
  <2> QED BY <2>1, <2>3
<1>9. product' # None => \A u \in Variants : product'[u].job # None => product'[u].job \in approval'
  BY <1>1, <1>2 DEF IsSound
<1>10. Images!ImageKept
  BY <1>2 DEF Images!ImageKept
<1> QED BY <1>4, <1>5, <1>6, <1>7, <1>8, <1>9, <1>10 DEF ImageInv

\* A request adds one job for every missing variant of its set.  It holds the workflow, so
\* what it read of the set is still true, and the new jobs come after all others.
LEMMA CommitSetKeeps ==
    ASSUME ImageInv, NEW s \in Sessions, Images!CommitSet(s)
    PROVE  ImageInv' /\ Images!ImageKept
<1>0. \A d \in ImageDrafts, v \in Variants : image[d][v] \in Images!ImageSet /\ IsReal(image[d][v], v)
  BY DEF ImageInv, ImageType
<1>1. ImageType /\ IsSound(session[s])
  BY DEF ImageInv
<1>2. PICK set, M : set = session[s].arg.set /\ M = session[s].arg.missing
  OBVIOUS
<1>3. PICK child \in [M -> Jobs] :
         /\ \A v \in M : job[child[v]] = None
         /\ \A v, u \in M : v < u => child[v] < child[u]
         /\ Images!TakesNext({child[v] : v \in M})
         /\ Images!Insert([j \in {child[v] : v \in M} |->
                Images!JobRow(CHOOSE v \in M : child[v] = j,
                              set.primary, set, set.draft, set.version)])
  <2> DEFINE Adds(family, missing) == \E child \in [missing -> Jobs] :
                /\ \A v \in missing : job[child[v]] = None
                /\ \A v, u \in missing : v < u => child[v] < child[u]
                /\ Images!TakesNext({child[v] : v \in missing})
                /\ Images!Insert([j \in {child[v] : v \in missing} |->
                       Images!JobRow(CHOOSE v \in missing : child[v] = j,
                                     family.primary, family, family.draft, family.version)])
  <2>1. Adds(session[s].arg.set, session[s].arg.missing)
    BY Zenon DEF Images!CommitSet
  <2> HIDE DEF Adds
  <2>2. Adds(set, M)
    BY <1>2, <2>1
  <2> QED BY <2>2, Zenon DEF Adds
<1>4. /\ session[s].pc = "set" /\ session' = [session EXCEPT ![s] = Images!Quiet]
      /\ UNCHANGED <<made, draft, image, product, file, worker, approval>>
  BY DEF Images!CommitSet
<1>5. /\ set \in Images!Family /\ M \subseteq Variants \ {0}
      /\ \A v \in Variants \ {0} : v \notin M => \E k \in Jobs : IsChild(k, set, v)
      /\ \A v \in M, k \in Jobs : IsChild(k, set, v) => job[k].status \in Images!Terminal
  BY <1>1, <1>2, <1>4 DEF IsSound, SetIsOpen
<1>6. PICK C : C = {child[v] : v \in M}
  OBVIOUS
<1> DEFINE Row(v) == Images!JobRow(v, set.primary, set, set.draft, set.version)
<1>8. \A v \in Variants :
         /\ Row(v) \in Images!JobSet /\ Row(v) # None /\ Row(v).variant = v /\ Row(v).set = set
         /\ Row(v).draft = set.draft /\ Row(v).source = set.primary
  <2>1. \A v \in Variants : Row(v) \in Images!JobSet
    BY <1>5 DEF Images!JobRow, Images!JobSet, Images!Family
  <2> QED BY <2>1, ImageConstants DEF Images!JobRow
<1> HIDE DEF Row
<1>9. \A v, u \in M : child[v] = child[u] => v = u
  <2> SUFFICES ASSUME NEW v \in M, NEW u \in M, child[v] = child[u] PROVE v = u
    OBVIOUS
  <2>1. v \in Nat /\ u \in Nat /\ child[v] \in Nat /\ child[u] \in Nat
    BY <1>5, ImageConstants
  <2>2. ~(v < u) /\ ~(u < v)
    BY <1>3, <2>1
  <2> QED BY <2>1, <2>2
<1>10. \A v \in M : job'[child[v]] = Row(v)
  <2> SUFFICES ASSUME NEW v \in M PROVE job'[child[v]] = Row(v)
    OBVIOUS
  <2>1. (CHOOSE u \in M : child[u] = child[v]) = v
    BY <1>9
  <2> QED BY <1>3, <2>1 DEF Images!Insert, Row
<1>11. \A k \in Jobs \ C : job'[k] = job[k]
  BY <1>3, <1>6 DEF Images!Insert
<1>12. C \subseteq Jobs /\ \A k \in C : \E v \in M : k = child[v]
  BY <1>6
<1>13. \A j \in Jobs : job[j] # None => j \notin C /\ job'[j] = job[j]
  BY <1>3, <1>11, <1>12
<1>14. \A j \in C, k \in Jobs : job[k] # None => k < j
  BY <1>3, <1>6, <1>13 DEF Images!TakesNext
<1>15. job' \in [Jobs -> Images!JobSet \cup {None}]
  <2>1. DOMAIN job' = Jobs /\ job' = [k \in Jobs |-> job'[k]]
    BY <1>3 DEF Images!Insert
  <2>2. \A k \in Jobs : job'[k] \in Images!JobSet \cup {None}
    <3> SUFFICES ASSUME NEW k \in Jobs PROVE job'[k] \in Images!JobSet \cup {None}
      OBVIOUS
    <3>1. CASE k \in C
      <4>1. PICK v \in M : k = child[v]
        BY <1>12, <3>1
      <4> QED BY <1>5, <1>8, <1>10, <4>1
    <3>2. CASE k \notin C
      BY <1>1, <1>11, <3>2 DEF ImageType
    <3> QED BY <3>1, <3>2
  <2> QED BY <2>1, <2>2
<1>16. \A k \in Jobs : job[k] = None /\ job'[k] # None => k \in C
  BY <1>11
<1>17. Steady
  BY <1>4, <1>13 DEF Steady
<1>18. IsFiniteSet(Images!Enqueued')
  <2>1. IsFiniteSet(M)
    BY <1>5, ImageConstants, FS_Subset
  <2>2. child \in Surjection(M, C)
    BY <1>6, <1>12 DEF Surjection
  <2>3. IsFiniteSet(C)
    BY <2>1, <2>2, FS_Surjection
  <2>4. Images!Enqueued' \subseteq Images!Enqueued \cup C
    BY <1>16 DEF Images!Enqueued
  <2>5. IsFiniteSet(Images!Enqueued \cup C)
    BY <1>1, <2>3, FS_Union DEF ImageType
  <2> QED BY <2>4, <2>5, FS_Subset
<1>19. /\ LocksHold' /\ WorkersAreSound' /\ DOMAIN session' = Sessions /\ IsSound(session[s])'
       /\ \A t \in Sessions \ {s} : session'[t] = session[t]
       /\ Images!HoldsWorkflow(s) =>
             \A t \in Sessions \ {s} : session[t].pc \notin {"set", "approve"}
  BY <1>4, <1>13, EndsWell
<1>20. ImageType'
  BY <1>1, <1>4, <1>15, <1>18, <1>19 DEF ImageType
<1>21. \A k, v : IsChild(k, set, v)' /\ ~IsChild(k, set, v) => v \in M /\ k = child[v] /\ k \in C
  <2> SUFFICES ASSUME NEW k \in Jobs, NEW v, IsChild(k, set, v)', ~IsChild(k, set, v)
               PROVE  v \in M /\ k = child[v] /\ k \in C
    BY DEF IsChild
  <2>1. k \in C
    BY <1>13, <1>16 DEF IsChild
  <2>2. PICK u \in M : k = child[u]
    BY <1>12, <2>1
  <2>3. u = v
    BY <1>5, <1>8, <1>10, <2>2 DEF IsChild
  <2> QED BY <2>1, <2>2, <2>3
<1>22. SetIsWhole(set)'
  <2>1. SetIsWhole(set)
    BY <1>5 DEF ImageInv, SetsAreWhole
  <2>2. \A v \in Variants \ {0} : \E k \in Jobs : IsChild(k, set, v)'
    <3> SUFFICES ASSUME NEW v \in Variants \ {0} PROVE \E k \in Jobs : IsChild(k, set, v)'
      OBVIOUS
    <3>1. CASE v \in M
      <4>1. child[v] \in Jobs /\ job'[child[v]] = Row(v)
        BY <1>10, <3>1
      <4>2. IsChild(child[v], set, v)'
        BY <1>8, <4>1 DEF IsChild
      <4> QED BY <4>1, <4>2
    <3>2. CASE v \notin M
      BY <1>5, <1>17, <3>2, ChildLasts
    <3> QED BY <3>1, <3>2
  <2>3. \A j \in Jobs : job'[j] # None /\ job'[j].set = set =>
           job'[j].draft = set.draft /\ job'[j].source = set.primary
    <3> SUFFICES ASSUME NEW j \in Jobs, job'[j] # None, job'[j].set = set
                 PROVE  job'[j].draft = set.draft /\ job'[j].source = set.primary
      OBVIOUS
    <3>1. CASE job[j] # None
      BY <1>13, <2>1, <3>1 DEF SetIsWhole
    <3>2. CASE job[j] = None
      <4>1. PICK v \in M : j = child[v]
        BY <1>12, <1>16, <3>2
      <4> QED BY <1>5, <1>8, <1>10, <4>1
    <3> QED BY <3>1, <3>2
  <2>4. \A v \in Variants, j, k \in Jobs :
           IsChild(j, set, v)' /\ IsChild(k, set, v)' /\ j < k => job'[j].status \in Images!Terminal
    <3> SUFFICES ASSUME NEW v \in Variants, NEW j \in Jobs, NEW k \in Jobs, j < k,
                        IsChild(j, set, v)', IsChild(k, set, v)'
                 PROVE  job'[j].status \in Images!Terminal
      OBVIOUS
    <3>1. j \in Nat /\ k \in Nat
      BY ImageConstants
    <3>2. IsChild(j, set, v)
      <4> SUFFICES ASSUME ~IsChild(j, set, v) PROVE FALSE
        OBVIOUS
      <4>1. v \in M /\ j = child[v] /\ j \in C
        BY <1>21
      <4>2. IsChild(k, set, v)
        BY <1>21, <3>1, <4>1
      <4>3. k < j
        BY <1>14, <4>1, <4>2 DEF IsChild
      <4> QED BY <3>1, <4>3
    <3>3. job[j] # None /\ job'[j] = job[j]
      BY <1>13, <3>2 DEF IsChild
    <3>4. CASE IsChild(k, set, v)
      <4>1. job[j].status \in Images!Terminal
        BY <2>1, <3>2, <3>4 DEF SetIsWhole
      <4> QED BY <3>3, <4>1
    <3>5. CASE ~IsChild(k, set, v)
      <4>1. v \in M
        BY <1>21, <3>5
      <4> QED BY <1>5, <3>2, <3>3, <4>1
    <3> QED BY <3>4, <3>5
  <2> QED BY <2>2, <2>3, <2>4 DEF SetIsWhole
<1>23. ASSUME NEW other \in Images!Family, other # set PROVE SetIsWhole(other)'
  <2>1. SetIsWhole(other)
    BY DEF ImageInv, SetsAreWhole
  <2>2. \A j \in Jobs : job'[j] # None /\ job'[j].set = other => job[j] # None /\ job'[j] = job[j]
    BY <1>5, <1>8, <1>10, <1>12, <1>13, <1>16, <1>23
  <2>3. \A j, v : IsChild(j, other, v)' <=> IsChild(j, other, v)
    BY <1>17, <2>2, ChildLasts DEF IsChild
  <2>4. \A j \in Jobs : job'[j] # None /\ job'[j].set = other =>
          /\ job'[j].draft = other.draft /\ job'[j].source = other.primary
          /\ \A v \in Variants \ {0} : \E k \in Jobs : IsChild(k, other, v)'
    BY <2>1, <2>2, <2>3 DEF SetIsWhole
  <2>5. \A v \in Variants, j, k \in Jobs :
           IsChild(j, other, v)' /\ IsChild(k, other, v)' /\ j < k => job'[j].status \in Images!Terminal
    <3> SUFFICES ASSUME NEW v \in Variants, NEW j \in Jobs, NEW k \in Jobs, j < k,
                        IsChild(j, other, v)', IsChild(k, other, v)'
                 PROVE  job'[j].status \in Images!Terminal
      OBVIOUS
    <3>1. IsChild(j, other, v) /\ IsChild(k, other, v)
      BY <2>3
    <3>2. job[j].status \in Images!Terminal /\ job'[j] = job[j]
      BY <1>13, <2>1, <3>1 DEF SetIsWhole, IsChild
    <3> QED BY <3>2
  <2> QED BY <2>4, <2>5 DEF SetIsWhole
<1>24. SetsAreWhole'
  BY <1>22, <1>23 DEF SetsAreWhole
<1>25. \A t \in Sessions : IsSound(session[t])'
  <2> SUFFICES ASSUME NEW t \in Sessions \ {s} PROVE IsSound(session[t])'
    BY <1>19
  <2>1. PICK x : x = session[t] /\ x = session'[t]
    BY <1>19
  <2>2. IsSound(x)
    BY <2>1 DEF ImageInv
  <2>3. x.pc # "set"
    BY <1>4, <1>19, <2>1 DEF Images!HoldsWorkflow
  <2>4. IsSound(x)'
    BY <1>4, <1>17, <2>2, <2>3, SoundLasts
  <2> QED BY <2>1, <2>4
<1>26. \A d \in ImageDrafts, v \in Variants : IsReal(image[d][v], v)'
  <2> SUFFICES ASSUME NEW d \in ImageDrafts, NEW v \in Variants PROVE IsReal(image[d][v], v)'
    OBVIOUS
  <2>1. PICK x : x = image[d][v] /\ x = image'[d][v]
    BY <1>4
  <2>2. x \in Images!ImageSet /\ IsReal(x, v)
    BY <1>0, <2>1
  <2>3. IsReal(x, v)'
    BY <1>17, <2>2, RealLasts
  <2> QED BY <2>1, <2>3
<1>27. product' # None => \A v \in Variants : product'[v].job # None => product'[v].job \in approval'
  BY <1>4 DEF ImageInv
<1>28. Images!ImageKept
  BY <1>4 DEF Images!ImageKept
<1> QED BY <1>19, <1>20, <1>24, <1>25, <1>26, <1>27, <1>28 DEF ImageInv

LEMMA NextImage ==
    ASSUME ImageInv, Images!Next \/ UNCHANGED Images!vars
    PROVE  ImageInv' /\ Images!ImageKept
<1>1. ASSUME UNCHANGED <<image, draft>> PROVE Images!ImageKept
  BY <1>1 DEF Images!ImageKept
<1>2. ASSUME NEW w \in Workers, Images!Work(w) PROVE ImageInv' /\ Images!ImageKept
  <2>1. ASSUME Images!StoreResult(w) PROVE ImageInv' /\ Images!ImageKept
    BY <2>1, StoreKeeps
  <2>2. ASSUME \/ Images!Claim(w) \/ Images!Begin(w) \/ Images!Generate(w)
               \/ Images!LockResult(w) \/ Images!FailJob(w) \/ Images!CrashWorker(w)
        PROVE  UNCHANGED <<image, draft>>
    BY <2>2 DEF Images!Claim, Images!Begin, Images!Generate, Images!LockResult,
                Images!FailJob, Images!CrashWorker
  <2> QED BY <1>1, <1>2, <2>1, <2>2, WorkerSteps DEF Images!Work
<1>3. ASSUME NEW s \in Sessions, Images!Request(s) PROVE ImageInv' /\ Images!ImageKept
  BY <1>3, ReadSetKeeps, CommitSetKeeps, WaitKeeps, ApprovalKeeps, EditKeeps, PublishKeeps
     DEF Images!Request
<1>4. ASSUME Images!RecoverStale PROVE ImageInv' /\ Images!ImageKept
  BY <1>1, <1>4, RecoverKeeps DEF Images!RecoverStale
<1>5. ASSUME UNCHANGED Images!vars PROVE ImageInv' /\ Images!ImageKept
  <2>1. ImageType /\ UNCHANGED <<made, draft, image, product, job, file, worker, session, approval>>
    BY <1>5 DEF Images!vars, ImageInv
  <2>2. Steady /\ NoNewChild /\ Images!Enqueued' = Images!Enqueued
    BY <2>1, SameIsSteady
  <2>3. ImageType'
    BY <2>1, <2>2 DEF ImageType
  <2>4. \A j \in Jobs : job[j] # None => job'[j] = job[j]
    BY <2>1
  <2> QED BY <2>1, <2>2, <2>3, <2>4, RestKeeps
<1> QED BY <1>2, <1>3, <1>4, <1>5, EnqueueKeeps, BesideKeeps DEF Images!Next

\* A set that is reported complete is one whose current images are all approved.
LEMMA CompleteMeansComplete ==
    ASSUME ImageType, NEW set, NEW x \in Variants, Images!InSet(set, x) # {},
           Images!FamilyStatus(set) = "complete"
    PROVE  Images!IsComplete(set)
<1> DEFINE statuses == {job[Images!Latest(Images!InSet(set, v))].status :
                           v \in {u \in Variants : Images!InSet(set, u) # {}}}
<1>1. \A v \in Variants : Images!InSet(set, v) # {} =>
         job[Images!Latest(Images!InSet(set, v))].status \in {"queued", "running", "succeeded", "failed"}
  <2> SUFFICES ASSUME NEW v \in Variants, Images!InSet(set, v) # {}
               PROVE  job[Images!Latest(Images!InSet(set, v))].status
                         \in {"queued", "running", "succeeded", "failed"}
    OBVIOUS
  <2>1. PICK k : k = Images!Latest(Images!InSet(set, v))
    OBVIOUS
  <2>2. IsChild(k, set, v)
    BY <2>1, LatestChild
  <2>3. job[k] \in Images!JobSet
    BY <2>2 DEF IsChild, ImageType
  <2> QED BY <2>1, <2>3 DEF Images!JobSet, Images!Terminal
<1>2. statuses \subseteq {"queued", "running", "succeeded", "failed"} /\ statuses # {}
  BY <1>1
<1>3. Images!FamilyStatus(set) =
         CASE "running" \in statuses -> "running"
           [] "running" \notin statuses /\ "queued" \in statuses -> "queued"
           [] statuses = {"failed"} -> "failed"
           [] statuses = {"failed", "succeeded"} -> "partially_failed"
           [] statuses = {"succeeded"} -> IF Images!IsComplete(set) THEN "complete" ELSE "review"
  BY Zenon DEF Images!FamilyStatus
<1> HIDE DEF statuses
<1>4. "running" \notin statuses
  BY <1>2, <1>3
<1>5. "queued" \notin statuses
  BY <1>2, <1>3, <1>4
<1>6. statuses = {"failed"} \/ statuses = {"failed", "succeeded"} \/ statuses = {"succeeded"}
  BY <1>2, <1>4, <1>5
<1> QED BY <1>3, <1>4, <1>5, <1>6

LEMMA ImageKeepsInv == Spec => [](part = "images" => ImageInv)
<1> DEFINE Inv == part = "images" => ImageInv
<1>1. Init => Inv
  BY PartInit, InitImage
<1>2. Inv /\ [Next]_vars => Inv'
  BY PartStep, NextImage
<1> QED BY <1>1, <1>2, PTL DEF Spec

\* For any number of drafts, variants, jobs, workers and requests, and any number of provider
\* failures, crashes and recoveries: every image a draft shows or a product sells was made for
\* its variant, has its files and was approved if it says so; a variant set has one job at
\* work on a child, and is complete only with approved images of its own family.
THEOREM ImagesStayReal == Spec => []ImagesAreReal
<1>1. ImageInv => Images!ShownImageIsReal /\ Images!ProductIsApproved
  BY DEF ImageInv, IsReal, Images!ShownImageIsReal, Images!ProductIsApproved
<1>2. ImageInv => Images!OneActiveChild
  <2> SUFFICES ASSUME ImageInv, NEW j \in Images!Enqueued, NEW k \in Images!Enqueued,
                      job[j].set # None, job[j].set = job[k].set,
                      job[j].variant = job[k].variant,
                      {job[j].status, job[k].status} \subseteq {"queued", "running"}
               PROVE  j = k
    BY DEF Images!OneActiveChild
  <2>1. PICK set, v : set = job[j].set /\ v = job[j].variant
    OBVIOUS
  <2>2. j \in Jobs /\ k \in Jobs /\ job[j] \in Images!JobSet /\ job[j] # None /\ job[k] # None
    BY DEF Images!Enqueued, ImageInv, ImageType
  <2>3. set \in Images!Family /\ v \in Variants
    BY <2>1, <2>2 DEF Images!JobSet
  <2>4. IsChild(j, set, v) /\ IsChild(k, set, v)
    BY <2>1, <2>2 DEF IsChild
  <2>5. SetIsWhole(set)
    BY <2>3 DEF ImageInv, SetsAreWhole
  <2>6. ~(j < k) /\ ~(k < j)
    BY <2>2, <2>3, <2>4, <2>5 DEF SetIsWhole, Images!Terminal
  <2> QED BY <2>2, <2>6, ImageConstants
<1>3. ImageInv => Images!CompleteIsApproved
  <2> SUFFICES ASSUME ImageInv, NEW j \in Images!Enqueued, job[j].set # None,
                      Images!FamilyStatus(job[j].set) = "complete"
               PROVE  /\ Images!IsApproved(job[j].draft)
                      /\ \A v \in Variants \ {0} :
                            job[image[job[j].draft][v].job].source = image[job[j].draft][0].job
    BY DEF Images!CompleteIsApproved
  <2>1. PICK set, x, d : set = job[j].set /\ x = job[j].variant /\ d = job[j].draft
    OBVIOUS
  <2>2. j \in Jobs /\ job[j] \in Images!JobSet /\ job[j] # None
    BY DEF Images!Enqueued, ImageInv, ImageType
  <2>3. set \in Images!Family /\ x \in Variants /\ ImageType
    BY <2>1, <2>2 DEF Images!JobSet, ImageInv
  <2>4. SetIsWhole(set)
    BY <2>3 DEF ImageInv, SetsAreWhole
  <2>5. d = set.draft /\ \A v \in Variants \ {0} : \E k \in Jobs : IsChild(k, set, v)
    BY <2>1, <2>2, <2>4 DEF SetIsWhole
  <2>6. Images!InSet(set, x) # {}
    BY <2>1, <2>2, <2>3, LatestChild DEF IsChild
  <2>7. Images!IsComplete(set)
    BY <2>1, <2>3, <2>6, CompleteMeansComplete
  <2>8. image[d][0].approved /\ image[d][0].job = set.primary
    BY <2>5, <2>7 DEF Images!IsComplete
  <2>9. ASSUME NEW v \in Variants \ {0}
        PROVE  image[d][v].approved /\ job[image[d][v].job].source = set.primary
    <3>1. Images!InSet(set, v) # {}
      BY <2>3, <2>5, LatestChild
    <3>2. PICK k : k = Images!Latest(Images!InSet(set, v))
      OBVIOUS
    <3>3. IsChild(k, set, v)
      BY <2>3, <3>1, <3>2, LatestChild
    <3>4. image[d][v].approved /\ image[d][v].job = k
      BY <2>5, <2>7, <3>1, <3>2 DEF Images!IsComplete
    <3>5. job[k].source = set.primary
      BY <2>4, <3>3 DEF SetIsWhole, IsChild
    <3> QED BY <3>4, <3>5
  <2> QED BY <2>1, <2>8, <2>9 DEF Images!IsApproved
<1>4. (part = "images" => ImageInv) => ImagesAreReal
  BY <1>1, <1>2, <1>3 DEF ImagesAreReal, Images!VariantSetIsCoherent
<1> QED BY <1>4, ImageKeepsInv, PTL

\* For any number of drafts, jobs, media and requests: no result, approval, media command or
\* edit that was made from the images of the draft loses an approved image, or an approved
\* media item.
THEOREM ApprovedStays == Spec => ApprovedIsKept
<1> DEFINE Inv == (part = "images" => ImageInv) /\ (part = "gallery" => GalleryInv)
<1>1. Inv /\ [Next]_vars =>
         [/\ part = "images" => Images!ImageKept
          /\ part = "gallery" => Gallery!MediaKept]_vars
  BY PartStep, NextImage, NextGallery
<1>2. Spec => []Inv
  BY ImageKeepsInv, GalleryKeepsInv, PTL
<1> QED BY <1>1, <1>2, PTL DEF Spec, ApprovedIsKept
=============================================================================
