---------------------------- MODULE MediaGallery ----------------------------
(***************************************************************************)
(* The media gallery of a product draft (app/services/catalog_images.py):  *)
(* variations are queued, generated and approved in place, the main image, *)
(* the order, removals and restorations make a new draft revision, and a   *)
(* publication turns the gallery into product_media_assets rows from which *)
(* the next revision starts.                                               *)
(*                                                                         *)
(* The commands on one workflow are serialised by its row lock, so each is *)
(* one step.  Assets are numbered as they are made; a media job is known   *)
(* by the asset it is to fill.  Other edits of the draft send its gallery  *)
(* back as it is (frontend-api.md:1082-1083).                              *)
(***************************************************************************)
EXTENDS Naturals, FiniteSets

CONSTANTS
    Assets, \* media ids, in order of creation
    Drafts, \* draft numbers, in order of created_at
    None

\* What a run's constants must satisfy.
MediaAssumption ==
    Assets \subseteq Nat /\ 1 \in Assets /\ None \notin Nat /\ Drafts \subseteq Nat /\ 1 \in Drafts

VARIABLES
    made,     \* how many drafts exist; the workflow follows the newest
    gallery,  \* gallery[d]: the assets in the snapshot of draft d
    live,     \* whether the current draft has not been published
    job,      \* job[a]: the media job that is to fill asset a, or None
    product,  \* the product_media_assets rows
    replaced  \* the assets an approval has replaced (of the model only)

vars == <<made, gallery, live, job, product, replaced>>

Statuses == {"pending", "approved"}
AssetRow == [id : Assets, role : {"core", "variation"}, status : Statuses,
             order : Nat, shown : BOOLEAN, source : Assets \cup {None},
             predecessor : Assets \cup {None}]
Asset(id, role, status, order, shown, source, predecessor) ==
    [id |-> id, role |-> role, status |-> status, order |-> order, shown |-> shown,
     source |-> source, predecessor |-> predecessor]
Uploaded(id, role, order) == Asset(id, role, "approved", order, TRUE, None, None)

Ids(g) == {x.id : x \in g}
Get(g, id) == CHOOSE x \in g : x.id = id
Has(g, id) == id \in Ids(g)
IsApproved(g, id) == Has(g, id) /\ Get(g, id).status = "approved"
Current == gallery[made]
Used == {a \in Assets : \E d \in Drafts : Has(gallery[d], a)} \cup replaced
IsNew(a) == a \notin Used /\ \A b \in Assets \ Used : a <= b
Active(j) == j # None /\ j.status = "active"

\* The validator of a product draft: what product_draft_v1_from_snapshot accepts.
IsReadable(g) ==
    /\ \A x, y \in g : x.id = y.id \/ x.order = y.order => x = y
    /\ g # {} => \E x \in g : /\ {y \in g : y.role = "core"} = {x}
                              /\ x.order = 0

Init ==
    /\ made = 1 /\ live = TRUE
    /\ \E n \in {0, 1, 2} :
          /\ 1 .. n \subseteq Assets
          /\ gallery = [d \in Drafts |->
                IF d = 1
                THEN {Uploaded(i, IF i = 1 THEN "core" ELSE "variation", i - 1) : i \in 1 .. n}
                ELSE {}]
    /\ job = [a \in Assets |-> None]
    /\ product = {} /\ replaced = {}

-----------------------------------------------------------------------------
\* In place: the draft and its version stay the same.
Put(g) == gallery' = [gallery EXCEPT ![made] = g]
Swap(g, x, y) == (g \ {x}) \cup {y}

\* enqueue_catalog_media_job: a pending asset after the others, and a job that edits
\* an approved source.
EnqueueMedia ==
    /\ \E a \in Assets, source \in Ids(Current) :
          /\ IsApproved(Current, source) /\ Get(Current, source).shown /\ IsNew(a)
          /\ \E last \in Current :
                /\ \A x \in Current : x.order <= last.order
                /\ Put(Current \cup
                       {Asset(a, "variation", "pending", last.order + 1, FALSE, source, None)})
          /\ job' = [job EXCEPT ![a] = [source |-> source, draft |-> made, status |-> "active"]]
    /\ UNCHANGED <<made, live, product, replaced>>

\* The worker stores the image if the draft is still current and still has the
\* asset with this source; otherwise, or when the provider fails, the job fails and
\* the asset stays pending.
StoreMedia ==
    /\ \E a \in Assets :
          /\ Active(job[a])
          /\ job' = [job EXCEPT ![a].status = "succeeded"]
          /\ job[a].draft = made
          /\ Has(Current, a) /\ Get(Current, a).source = job[a].source
          /\ Put(Swap(Current, Get(Current, a), [Get(Current, a) EXCEPT !.shown = TRUE]))
    /\ UNCHANGED <<made, live, product, replaced>>

FailMedia ==
    /\ \E a \in Assets : Active(job[a]) /\ job' = [job EXCEPT ![a].status = "failed"]
    /\ UNCHANGED <<made, gallery, live, product, replaced>>

MayApprove(a) ==
    /\ job[a] # None /\ job[a].status = "succeeded" /\ job[a].draft = made
    /\ Has(Current, a) /\ Get(Current, a).status = "pending"

\* approve_catalog_image with approval_intent "add" ...
ApproveMedia ==
    /\ \E a \in Assets :
          /\ MayApprove(a)
          /\ Put(Swap(Current, Get(Current, a), [Get(Current, a) EXCEPT !.status = "approved"]))
    /\ UNCHANGED <<made, live, job, product, replaced>>

\* ... and with "replace": the asset takes the role and the place of its
\* predecessor, which leaves the gallery; then all are numbered anew.
Renumbered(g) ==
    {[x EXCEPT !.order = Cardinality({y \in g : y.order < x.order})] : x \in g}
BrokenSuccessor(x, old) ==
    [x EXCEPT !.status = "approved", !.order = old.order, !.predecessor = old.id]
Successor(x, old) ==
    [x EXCEPT !.status = "approved", !.role = old.role, !.order = old.order, !.predecessor = old.id]

ReplaceMedia ==
    /\ \E a \in Assets, p \in Ids(Current) :
          /\ p # a /\ MayApprove(a) /\ IsApproved(Current, p)
          /\ LET x == Get(Current, a)
                 old == Get(Current, p)
             IN Put(Renumbered(Swap(Current \ {old}, x, Successor(x, old))))
          /\ replaced' = replaced \cup {p}
    /\ UNCHANGED <<made, live, job, product>>

\* The approved image of the primary variant becomes the core of an empty gallery.
ApprovePrimary ==
    /\ Current = {}
    /\ \E a \in Assets : IsNew(a) /\ Put({Uploaded(a, "core", 0)})
    /\ UNCHANGED <<made, live, job, product, replaced>>

-----------------------------------------------------------------------------
\* mutate_catalog_media: each action makes a new draft revision.
Revise(g) ==
    /\ live /\ made + 1 \in Drafts
    /\ made' = made + 1
    /\ gallery' = [gallery EXCEPT ![made + 1] = g]
    /\ UNCHANGED <<live, job, product, replaced>>

SetMain ==
    \E m \in Ids(Current) :
        /\ IsApproved(Current, m)
        /\ Revise({[x EXCEPT
                      !.role = IF x.id = m THEN "core" ELSE "variation",
                      !.order = IF x.id = m THEN 0
                                ELSE 1 + Cardinality({y \in Current \ {x} :
                                                         y.id # m /\ y.order < x.order})] :
                   x \in Current})

Variations == {x \in Current : x.role # "core"}
Reorder ==
    \E place \in [Ids(Variations) -> 1 .. Cardinality(Variations)] :
        /\ \A m, n \in Ids(Variations) : place[m] = place[n] => m = n
        /\ \E x \in Variations : place[x.id] # x.order
        /\ Revise((Current \ Variations) \cup
                     {[x EXCEPT !.order = place[x.id]] : x \in Variations})

BrokenRemove ==
    \E x \in Current :
        /\ Cardinality(Current) > 1 /\ x.role # "core"
        /\ Put(Renumbered(Current \ {x}))
        /\ UNCHANGED <<made, live, job, product, replaced>>
Remove ==
    \E x \in Current :
        /\ Cardinality(Current) > 1
        /\ x.role # "core"
        /\ \A a \in Assets : ~(Active(job[a]) /\ job[a].source = x.id /\ job[a].draft = made)
        /\ Revise(Renumbered(Current \ {x}))

\* The newest older draft that has the asset approved.
Older(m) == {d \in 1 .. made - 1 : IsApproved(gallery[d], m)}
Restore ==
    \E m \in Assets \ Ids(Current) :
        \E d \in Older(m) :
            /\ \A e \in Older(m) : e <= d
            /\ Revise(Current \cup
                      {[Get(gallery[d], m) EXCEPT !.role = "variation",
                                                  !.order = Cardinality(Current)]})

-----------------------------------------------------------------------------
\* publish_draft requires an approved core and no pending asset, and replaces the
\* rows of the product.
PublishGallery ==
    /\ live /\ Current # {}
    /\ \A x \in Current : x.status = "approved"
    /\ product' = Current
    /\ live' = FALSE
    /\ UNCHANGED <<made, gallery, job, replaced>>

\* start_product_revision: _complete_media_payload makes the gallery of the next
\* draft from the rows, with the core first.
StartRevision ==
    /\ ~live /\ made + 1 \in Drafts
    /\ made' = made + 1 /\ live' = TRUE
    /\ gallery' = [gallery EXCEPT ![made + 1] = Renumbered(product)]
    /\ UNCHANGED <<job, product, replaced>>

InPlace == EnqueueMedia \/ StoreMedia \/ FailMedia \/ ApproveMedia \/ ReplaceMedia \/ ApprovePrimary
Mutate == SetMain \/ Reorder \/ Remove \/ Restore
Next == InPlace \/ Mutate \/ PublishGallery \/ StartRevision

Spec == Init /\ [][Next]_vars

-----------------------------------------------------------------------------
TypeOK ==
    /\ made \in Drafts /\ live \in BOOLEAN
    /\ gallery \in [Drafts -> SUBSET AssetRow]
    /\ product \subseteq AssetRow /\ replaced \subseteq Assets

\* No sequence of media commands leaves a gallery the next reader of the draft
\* rejects: one core, in the first place, and every place taken once
\* (admin_schemas.py:150-162).  The commands that write in place store the
\* snapshot of a version 1 draft without validating it (admin_schemas.py:774-783).
GalleryIsReadable == \A d \in Drafts : IsReadable(gallery[d])

\* An approved asset leaves the gallery only when an approval replaces it or when it
\* can be restored from an older draft (frontend-api.md:1099-1101).
MediaKept ==
    \A x \in Current : x.status = "approved" =>
       \/ Has(gallery'[made'], x.id)
       \/ x.id \in replaced'
       \/ \E d \in 1 .. made' - 1 : IsApproved(gallery'[d], x.id)
ApprovedIsKept == [][MediaKept]_vars
=============================================================================
