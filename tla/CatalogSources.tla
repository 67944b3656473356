--------------------------- MODULE CatalogSources ---------------------------
(***************************************************************************)
(* The private supplier sources of a product draft                         *)
(* (app/services/catalog_sources.py): one bundle, its assets, and their    *)
(* two files on disk.  An asset can be removed, or promoted: a public copy *)
(* becomes an approved media item of a new draft revision.  An edit sends  *)
(* the media list it wants, and a media command removes or restores one    *)
(* item, so an item may leave the drafts and come back.                    *)
(*                                                                         *)
(* A request may crash, or fail, between any two of its steps.  The files  *)
(* change at once, the rows with the commit of a transaction, and a commit *)
(* frees the lock on the bundle.                                           *)
(***************************************************************************)
EXTENDS Naturals

CONSTANTS
    Assets,   \* source asset ids
    Drafts,   \* draft numbers, from 1; a draft's number is its version
    Sessions, \* concurrent requests
    None

\* What a run's constants must satisfy.
SourceDraftAssumption ==
    /\ Drafts \subseteq Nat /\ 1 \in Drafts
    /\ None \notin Nat \cup Sessions \cup {"ready", "promoted", "removed"}

VARIABLES
    row,      \* row[a]: the status of the asset's row, or None, or "removed"
    mark,     \* mark[a]: promoted_draft_revision_id, or None
    files,    \* files[a]: its private files, "source" and "preview"
    public,   \* the assets with a public copy
    made,     \* how many drafts exist
    media,    \* media[d]: the assets that are media of draft d, by provenance
    by,       \* by[d]: the kind of request that made draft d (of the model only)
    attached, \* attached[d]: the assets that draft d names in its source_references
    bundle,   \* the session that holds the lock on the bundle's row, or None
    work      \* work[s]: what session s is doing, or None

vars == <<row, mark, files, public, made, media, by, attached, bundle, work>>
drafts == <<made, media, by, attached>>
storage == <<files, public>>

Init ==
    /\ row = [a \in Assets |-> None] /\ mark = [a \in Assets |-> None]
    /\ files = [a \in Assets |-> {}] /\ public = {}
    /\ made = 1
    /\ media = [d \in Drafts |-> {}] /\ by = [d \in Drafts |-> None]
    /\ attached = [d \in Drafts |-> {}]
    /\ bundle = None
    /\ work = [s \in Sessions |-> None]

Doing(s, op) == work[s] # None /\ work[s].op = op
Goto(s, w) == work' = [work EXCEPT ![s] = w]
Unlock(s) == bundle' = IF bundle = s THEN None ELSE bundle
End(s) == Goto(s, None) /\ Unlock(s)

\* create_source_bundle: the private files are written before the row is committed.
WriteFiles(s) ==
    /\ work[s] = None
    /\ \E a \in Assets :
          /\ row[a] = None /\ files[a] = {}
          /\ files' = [files EXCEPT ![a] = {"source", "preview"}]
          /\ Goto(s, [op |-> "upload", asset |-> a])
    /\ UNCHANGED <<row, mark, public, drafts, bundle>>

CommitUpload(s) ==
    /\ Doing(s, "upload")
    /\ row' = [row EXCEPT ![work[s].asset] = "ready"]
    /\ End(s)
    /\ UNCHANGED <<mark, storage, drafts>>

UndoUpload(s) ==
    /\ Doing(s, "upload")
    /\ files' = [files EXCEPT ![work[s].asset] = {}]
    /\ End(s)
    /\ UNCHANGED <<row, mark, public, drafts>>

-----------------------------------------------------------------------------
\* remove_source_asset: under the lock, unless promoted, the files go one after the
\* other, then the row.  A file that cannot be removed ends the request (Stop).
StartRemove(s) ==
    /\ work[s] = None /\ bundle = None
    /\ \E a \in Assets : row[a] = "ready" /\ Goto(s, [op |-> "remove", asset |-> a])
    /\ bundle' = s
    /\ UNCHANGED <<row, mark, storage, drafts>>

Unlink(s) ==
    /\ Doing(s, "remove")
    /\ LET a == work[s].asset
       IN /\ files[a] # {}
          /\ files' = [files EXCEPT ![a] = IF "source" \in @ THEN @ \ {"source"} ELSE {}]
    /\ UNCHANGED <<row, mark, public, drafts, bundle, work>>

BrokenMayDelete(a) == "source" \notin files[a]
MayDelete(a) == files[a] = {}

CommitRemove(s) ==
    /\ Doing(s, "remove") /\ MayDelete(work[s].asset)
    /\ row' = [row EXCEPT ![work[s].asset] = "removed"]
    /\ End(s)
    /\ UNCHANGED <<mark, storage, drafts>>

-----------------------------------------------------------------------------
\* promote_source_asset: under the lock, the public copy is written; then the new draft
\* is committed, which frees the lock; then the asset is marked.
StartPromotion(s) ==
    /\ work[s] = None /\ bundle = None
    /\ \E a \in Assets :
          /\ row[a] = "ready" /\ a \notin media[made]
          /\ files[a] = {"source", "preview"}
          /\ public' = public \cup {a}
          /\ Goto(s, [op |-> "promote", asset |-> a, draft |-> made, created |-> a \notin public])
    /\ bundle' = s
    /\ UNCHANGED <<row, mark, files, drafts>>

Draft(m, r, kind) ==
    /\ made + 1 \in Drafts
    /\ made' = made + 1
    /\ media' = [media EXCEPT ![made + 1] = m]
    /\ by' = [by EXCEPT ![made + 1] = kind]
    /\ attached' = [attached EXCEPT ![made + 1] = r]

\* A draft that names a current one is refused unless that is still the newest.
Revise(d, m, r, kind) == d \in {made, None} /\ Draft(m, r, kind)

\* create_draft_from_v2_compatibility: refused unless the draft is still the newest one
\* and, when it is structured, the sources it names still have their rows.
HaveRows(r) == \A a \in r : row[a] \in {"ready", "promoted"}
BrokenCommitPromotion(s) ==
    /\ Doing(s, "promote")
    /\ LET w == work[s]
       IN /\ HaveRows(attached[w.draft])
          /\ Revise(w.draft, {w.asset}, attached[w.draft], "promotion")
          /\ Goto(s, [op |-> "mark", asset |-> w.asset, draft |-> made + 1])
    /\ bundle' = None
    /\ UNCHANGED <<row, mark, storage>>
CommitPromotion(s) ==
    /\ Doing(s, "promote")
    /\ LET w == work[s]
       IN /\ HaveRows(attached[w.draft])
          /\ Revise(w.draft, media[w.draft] \cup {w.asset}, attached[w.draft], "promotion")
          /\ Goto(s, [op |-> "mark", asset |-> w.asset, draft |-> made + 1])
    /\ bundle' = None
    /\ UNCHANGED <<row, mark, storage>>

\* A draft that is refused takes back the public copy, after the rollback.
RefusePromotion(s) ==
    /\ Doing(s, "promote")
    /\ Goto(s, IF work[s].created THEN [op |-> "clean", asset |-> work[s].asset] ELSE None)
    /\ bundle' = None
    /\ UNCHANGED <<row, mark, storage, drafts>>

Clean(s) ==
    /\ Doing(s, "clean")
    /\ public' = public \ {work[s].asset}
    /\ End(s)
    /\ UNCHANGED <<row, mark, files, drafts>>

\* The write of the bundle's row waits for its lock; a row removed meanwhile fails it.
\* Its status is not looked at: a promotion begun after this one's draft may be marked.
Mark(s) ==
    /\ Doing(s, "mark") /\ bundle = None
    /\ row[work[s].asset] \in {"ready", "promoted"}
    /\ row' = [row EXCEPT ![work[s].asset] = "promoted"]
    /\ mark' = [mark EXCEPT ![work[s].asset] = work[s].draft]
    /\ End(s)
    /\ UNCHANGED <<storage, drafts>>

-----------------------------------------------------------------------------
\* The media items a client has read: those of any draft so far.
Items == UNION {media[d] : d \in 1 .. made}

\* create_draft_v3: the client sends the media and the source references of the draft, and
\* may name a current one; the rows of the references are checked without a lock.
CheckReferences(s) ==
    /\ work[s] = None /\ made + 1 \in Drafts
    /\ \E r \in SUBSET Assets, m \in SUBSET Items, d \in {made, None} :
          /\ HaveRows(r)
          /\ Goto(s, [op |-> "edit", draft |-> d, media |-> m, names |-> r])
    /\ UNCHANGED <<row, mark, storage, drafts, bundle>>

\* mutate_catalog_media removes an item, or restores one of an older draft, and goes on as
\* an edit that keeps the rest of the draft.
CheckMutation(s) ==
    /\ work[s] = None /\ made + 1 \in Drafts /\ HaveRows(attached[made])
    /\ \E m \in {media[made] \ {a} : a \in media[made]} \cup {media[made] \cup {a} : a \in Items} :
          Goto(s, [op |-> "edit", draft |-> made, media |-> m, names |-> attached[made]])
    /\ UNCHANGED <<row, mark, storage, drafts, bundle>>

\* The rows of the bundles it names are written too.  A promotion may hold them and wait
\* for the draft this holds: the database then ends one of the two (Stop).
CommitEdit(s) ==
    /\ Doing(s, "edit") /\ (work[s].names # {} => bundle = None)
    /\ Revise(work[s].draft, work[s].media, work[s].names, "edit")
    /\ End(s)
    /\ UNCHANGED <<row, mark, storage>>

\* A refusal, a failed file operation, or a crash.
Stop(s) ==
    /\ work[s] # None /\ End(s)
    /\ UNCHANGED <<row, mark, storage, drafts>>

Upload(s) == WriteFiles(s) \/ CommitUpload(s) \/ UndoUpload(s)
RemoveAsset(s) == StartRemove(s) \/ Unlink(s) \/ CommitRemove(s)
Promote(s) == StartPromotion(s) \/ CommitPromotion(s) \/ RefusePromotion(s) \/ Clean(s) \/ Mark(s)
Next == \E s \in Sessions : \/ Upload(s) \/ RemoveAsset(s) \/ Promote(s)
                            \/ CheckReferences(s) \/ CheckMutation(s) \/ CommitEdit(s)
                            \/ Stop(s)

Spec == Init /\ [][Next]_vars

-----------------------------------------------------------------------------
TypeOK ==
    /\ row \in [Assets -> {None, "ready", "promoted", "removed"}]
    /\ mark \in [Assets -> Drafts \cup {None}]
    /\ files \in [Assets -> SUBSET {"source", "preview"}]
    /\ public \subseteq Assets /\ made \in Drafts
    /\ by \in [Drafts -> {"promotion", "edit", None}]
    /\ media \in [Drafts -> SUBSET Assets] /\ attached \in [Drafts -> SUBSET Assets]
    /\ bundle \in Sessions \cup {None}

\* "Removal does not delete the database record until both managed private files have
\* been removed" (frontend-api.md:584-585): no crash or failure leaves a private file
\* that no row names, once its row existed.
RemovedLeavesNoFile == \A a \in Assets : row[a] = "removed" => files[a] = {}

\* An asset marked as promoted is a media item of the draft its mark names, wherever the
\* promotion or another request stopped.  An item leaves the drafts only by the operator's
\* own edit or media command: the promotion of another asset never drops it, although it
\* makes its draft from one that it read some transactions before.
PromotedIsInDraft ==
    /\ \A a \in Assets : row[a] = "promoted" => mark[a] # None /\ a \in media[mark[a]]
    /\ \A d \in 2 .. made : media[d - 1] \subseteq media[d] \/ by[d] = "edit"

SourceRecordIsTrue == RemovedLeavesNoFile /\ PromotedIsInDraft

\* "Promoted source assets must be retained for media lineage"
\* (catalog_sources.py:676, frontend-api.md:564-565): a media item made from an asset
\* still has the asset's row.
LineageIsKept == \A a \in media[made] : row[a] \in {"ready", "promoted"}

\* A media item of the current draft has its public copy.  The code breaks this: a refused
\* promotion takes back a copy that another, of the same asset, has found and used.
MediaIsPublic == media[made] \subseteq public
=============================================================================
