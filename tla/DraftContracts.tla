--------------------------- MODULE DraftContracts ---------------------------
(***************************************************************************)
(* One product, its latest private draft and the three authoring           *)
(* contracts a draft may be written in (catalog/admin_schemas.py and the   *)
(* draft, publication and revision operations of services/catalog_admin).  *)
(* V1 keeps variants with their own rows of store inventory, v2 one list   *)
(* of rows for the product, v3 adds structured content, alternative text   *)
(* and references to supplier sources.  A stored draft keeps the contract  *)
(* it was written in, yet images are written into every draft through the  *)
(* v1 form, and publication fills the tables of the variants and of the    *)
(* product from the v1 form too: what a draft holds goes through several   *)
(* conversions on its way to the product and back into a revision.         *)
(*                                                                         *)
(* Abstracted: rows of different stores never meet in a conversion, so the *)
(* rows are those of one store; title, brand, price and the other fields   *)
(* every contract has are copied by every conversion and are left out.     *)
(***************************************************************************)
EXTENDS Integers, Sequences, FiniteSets, FiniteSetsExt, Functions

CONSTANTS
  Inventories,   \* sets of rows [size, units] a client may send
  Core,          \* the image whose role is "core"
  Galleries,     \* the media lists in use: the approval status of each image
  Structured,    \* the [content, sources, alt] a v3 client may send: structured
                 \* content, source references, images with an alternative text
  Complete,      \* the content that has every specification it requires
  Blank,         \* the content of a draft that has none
  MaxVersion,    \* bound on the versions of the product
  None

\* The units of a row are never negative, and a gallery has its core image.
ContractAssumption ==
  /\ \A rows \in Inventories : \A r \in rows :
       r = [size |-> r.size, units |-> r.units] /\ r.units \in Nat
  /\ \A g \in Galleries : DOMAIN g # {} => Core \in DOMAIN g

VARIABLES draft, product
vars == <<draft, product>>

\* ---- sizes --------------------------------------------------------------
\* Four spellings stand for all: no size (v2 and v3 only), its v1 spelling, a
\* size and the same size with a blank ("_" here), which only v1 does not strip.
Trimmed(size) == IF size = "S_" THEN "S" ELSE size
Key(size) == IF size = "One_Size" THEN "none" ELSE Trimmed(size)
Sizes(rows) == {r.size : r \in rows}
Keys(variants) == UNION {{Key(r.size) : r \in rows} : rows \in Range(variants)}
UnitsIn(rows, k) == MapThenSumSet(LAMBDA r : r.units, {r \in rows : Key(r.size) = k})
Units(variants) ==
  [k \in Keys(variants) |->
     MapThenSumSet(LAMBDA i : UnitsIn(variants[i], k), DOMAIN variants)]

\* ---- what each contract accepts --------------------------------------------
\* A row of v1 is told apart by its spelling, one of v2 by its stripped size.
IsRowsV1(rows) ==
  /\ rows # {} /\ "none" \notin Sizes(rows)
  /\ \A r, q \in rows : r.size = q.size => r = q
IsRowsV2(rows) ==
  /\ rows # {} /\ "S_" \notin Sizes(rows)
  /\ \A r, q \in rows : Trimmed(r.size) = Trimmed(q.size) => r = q

\* ---- the conversions ---------------------------------------------------------
V2FromV1(p) ==
  LET units == Units(p.variants)
  IN [p EXCEPT !.schema = 2,
               !.variants = <<{[size |-> k, units |-> units[k]] : k \in DOMAIN units}>>]
V1FromV2(p) ==
  [p EXCEPT !.schema = 1,
            !.variants = <<{[r EXCEPT !.size = IF @ = "none" THEN "One_Size" ELSE @] :
                              r \in p.variants[1]}>>]
V2FromV3(p) == [p EXCEPT !.schema = 2, !.content = Blank, !.sources = {}, !.alt = {}]
V3FromV2(p, preserved) ==
  [p EXCEPT !.schema = 3, !.content = preserved.content, !.sources = preserved.sources,
            !.alt = preserved.alt \cap DOMAIN p.media]

V2FromSnapshot(p) ==
  CASE p.schema = 3 -> V2FromV3(p)
    [] p.schema = 2 -> p
    [] p.schema = 1 -> V2FromV1(p)
V1FromSnapshot(p) == IF p.schema = 1 THEN p ELSE V1FromV2(V2FromSnapshot(p))
\* A plausible bug: the v3 form is rebuilt without the stored draft's own fields.
BrokenSnapshotFromV1(p, original) ==
  CASE original.schema = 3 -> V3FromV2(V2FromV1(p), V2FromV1(p))
    [] original.schema = 2 -> V2FromV1(p)
    [] original.schema = 1 -> p
SnapshotFromV1(p, original) ==
  CASE original.schema = 3 -> V3FromV2(V2FromV1(p), original)
    [] original.schema = 2 -> V2FromV1(p)
    [] original.schema = 1 -> p

\* The v1 form refuses two rows of one size, which "no size" and "One_Size"
\* become: the conversion raises and the request fails.
HasV1Form(p) == p.schema = 1 \/ ~ {"none", "One_Size"} \subseteq Sizes(p.variants[1])

\* ---- writes of a client ---------------------------------------------------------
Version == IF product = None THEN 0 ELSE product.version
IsOwnedByV3 == product # None /\ product.v3 # None
LatestIsV3 == draft # None /\ draft.snapshot.schema = 3
OlderWritesAreRefused == IsOwnedByV3 \/ LatestIsV3

\* A replacement of the latest draft keeps the approvals of the images it keeps.
Preserved(media) ==
  [m \in DOMAIN media |->
     IF m \in DOMAIN draft.snapshot.media THEN draft.snapshot.media[m] ELSE media[m]]

Store(p, approved) ==
  \/ draft' = [base |-> Version, approved |-> approved, snapshot |-> p, unchanged |-> FALSE]
  \/ /\ draft # None /\ draft.base = Version
     /\ draft' = [base |-> Version, approved |-> approved, unchanged |-> FALSE,
                  snapshot |-> [p EXCEPT !.media = Preserved(@)]]

\* What a client's write stores, its brand and stores being the registered ones.
Authored(schema, variants, media) ==
  [schema |-> schema, variants |-> variants, media |-> media,
   content |-> Blank, sources |-> {}, alt |-> {}]

WriteV1 ==
  /\ ~ OlderWritesAreRefused
  /\ \E rows \in [1..2 -> Inventories] \cup [1..1 -> Inventories], g \in Galleries,
        ok \in BOOLEAN :
       /\ \A i \in DOMAIN rows : IsRowsV1(rows[i])
       /\ Store(Authored(1, rows, g), ok)
  /\ UNCHANGED product

WriteV2 ==
  /\ ~ OlderWritesAreRefused
  /\ \E rows \in Inventories, g \in Galleries, ok \in BOOLEAN :
       IsRowsV2(rows) /\ Store(Authored(2, <<rows>>, g), ok)
  /\ UNCHANGED product

WriteV3 ==
  /\ \E rows \in Inventories, g \in Galleries, ok \in BOOLEAN, x \in Structured :
       IsRowsV2(rows) /\ Store(V3FromV2(Authored(2, <<rows>>, g), x), ok)
  /\ UNCHANGED product

\* The gallery and the promotion of a source write a v2 form of the draft and
\* let the v3 content of the stored draft through.
WriteThroughV2 ==
  /\ draft # None /\ draft.base = Version
  /\ draft.snapshot.schema = 3 \/ ~ OlderWritesAreRefused
  /\ \E g \in Galleries :
       LET p == [V2FromSnapshot(draft.snapshot) EXCEPT !.media = g]
       IN draft' = [draft EXCEPT
            !.unchanged = FALSE,
            !.snapshot = [(IF draft.snapshot.schema = 3 THEN V3FromV2(p, draft.snapshot) ELSE p)
                            EXCEPT !.media = Preserved(@)]]
  /\ UNCHANGED product

\* ---- images ---------------------------------------------------------------------
\* A generated image, an approval or a rejection rewrites the stored draft
\* through its v1 form.
ChangeMedia ==
  /\ draft # None /\ HasV1Form(draft.snapshot)
  /\ \E g \in Galleries :
       draft' = [draft EXCEPT
         !.unchanged = FALSE,
         !.snapshot = SnapshotFromV1([V1FromSnapshot(@) EXCEPT !.media = g], @)]
  /\ UNCHANGED product

\* ---- publication ------------------------------------------------------------------
MediaIsApproved(p) == DOMAIN p.media # {} /\ \A m \in DOMAIN p.media : p.media[m] = "approved"
IsReady(d) == MediaIsApproved(d.snapshot) /\ d.approved /\ d.snapshot.content \in Complete

\* A v1 draft without images has image links of its own, or is refused.
IsPublishable(d, p) ==
  /\ d.approved
  /\ \A m \in DOMAIN p.media : p.media[m] = "approved"
  /\ DOMAIN p.media = {} => d.snapshot.schema = 1
HasOneRowPerKey(rows) == \A r, q \in rows : Key(r.size) = Key(q.size) => r = q

Applied(p, version, v3) ==
  [version |-> version, v3 |-> v3, stores |-> p.variants,
   rows |-> V2FromV1(p).variants[1], media |-> DOMAIN p.media]
V3Metadata(p) == [content |-> p.content, alt |-> p.alt]

CanConvert(d) == d.snapshot.schema = 3 => IsReady(d)
Publish ==
  /\ draft # None /\ draft.base = Version /\ Version < MaxVersion
  /\ CanConvert(draft) /\ HasV1Form(draft.snapshot)
  /\ LET p == V1FromSnapshot(draft.snapshot)
     IN /\ IsPublishable(draft, p)
        /\ \A i \in DOMAIN p.variants : HasOneRowPerKey(p.variants[i])
        /\ product' = Applied(p, Version + 1,
                              IF LatestIsV3 THEN V3Metadata(draft.snapshot) ELSE None)
  /\ draft' = None

Archive ==
  /\ product # None /\ Version < MaxVersion
  /\ product' = [product EXCEPT !.version = @ + 1]
  /\ UNCHANGED draft

\* ---- revisions ----------------------------------------------------------------------
PublishedMedia == [m \in product.media |-> "approved"]
PublishedV1 == Authored(1, product.stores, PublishedMedia)
PublishedV2 == Authored(2, <<product.rows>>, PublishedMedia)
PublishedV3 ==
  LET base == V3FromV2(PublishedV2, PublishedV2)
  IN IF product.v3 = None THEN base
     ELSE [base EXCEPT !.content = product.v3.content,
                       !.alt = product.v3.alt \cap product.media]

\* Refused while a draft of the published version exists; the older contracts
\* are refused for a product that has v3 content.
Revise(p) ==
  /\ product # None
  /\ draft # None => draft.base # Version
  /\ draft' = [base |-> Version, approved |-> TRUE, snapshot |-> p, unchanged |-> TRUE]
  /\ UNCHANGED product
StartRevisionV1 == ~ IsOwnedByV3 /\ Revise(PublishedV1)
StartRevisionV2 == ~ IsOwnedByV3 /\ Revise(PublishedV2)
StartRevisionV3 == Revise(PublishedV3)

Init == draft = None /\ product = None
Next == \/ WriteV1 \/ WriteV2 \/ WriteV3 \/ WriteThroughV2 \/ ChangeMedia
        \/ Publish \/ Archive \/ StartRevisionV1 \/ StartRevisionV2 \/ StartRevisionV3
Spec == Init /\ [][Next]_vars

\* ---- properties ------------------------------------------------------------------------
\* The inventory of the product and the inventory of its variants are two
\* tables filled by one publication: whatever contracts the drafts went
\* through, they give the same units for every size.
TablesAgree == product # None => Units(product.stores) = Units(<<product.rows>>)

\* Changing the images of a draft, which goes through the v1 form, loses none
\* of its units, its content, its sources or the alternative text of an image
\* it keeps, and a revision published as it was started leaves the product's
\* units, images and v3 content as they were.
MediaKeepsTheRest ==
  ChangeMedia =>
    LET old == draft.snapshot  new == draft'.snapshot
    IN /\ Units(new.variants) = Units(old.variants)
       /\ new.content = old.content /\ new.sources = old.sources
       /\ new.alt = old.alt \cap DOMAIN new.media
RevisionKeepsProduct ==
  (Publish /\ draft.unchanged) =>
    /\ Units(product'.stores) = Units(product.stores)
    /\ product'.media = product.media
    /\ product.v3 # None => product'.v3 = product.v3

\* A v3 draft without blocking errors can be published ("V3 readiness
\* separates publication blockers from recommendations", docs/frontend-api.md).
ReadyIsPublishable ==
  (LatestIsV3 /\ IsReady(draft)) => HasV1Form(draft.snapshot)
=============================================================================
