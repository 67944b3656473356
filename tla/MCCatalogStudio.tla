--------------------------- MODULE MCCatalogStudio ---------------------------
(***************************************************************************)
(* One run for the parts of Catalog Studio that share no step: the images  *)
(* of a draft, its media gallery, the suggestion sets and the supplier     *)
(* sources.  Each behaviour is one of a single part, chosen in the initial *)
(* state; the variables of the other parts have no value.                  *)
(* Suggestions are checked twice, with two fields and without commands,    *)
(* and with one field and an AI command.                                   *)
(***************************************************************************)
EXTENDS Naturals, TLC

CONSTANTS
    Sessions,                           \* requests in flight, in every part
    Variants, Jobs, Workers, MaxFaults, \* the images
    ImageDrafts,                        \* the drafts of the images, and
    Drafts,                             \* those of the other parts
    MediaIds,                           \* the gallery
    Pair,                               \* two fields of the suggestions, or two sources
    Field, Sets, SuggestionKeys,        \* the suggestions
    None

VARIABLES
    part, \* the part of Catalog Studio this behaviour is of
    made, draft, status, image, product, job, file, worker, session, approval, faults,
    gallery, live, replaced,
    content, structured, sets, link, command, work,
    row, mark, files, public, media, by, attached, bundle

imageVars == <<draft, status, image, file, worker, session, approval, faults>>
galleryVars == <<gallery, live, replaced>>
suggestionVars == <<content, structured, sets, link>>
sourceVars == <<row, mark, files, public, media, by, attached, bundle>>
vars == <<part, made, job, product, command, work, imageVars, galleryVars, suggestionVars, sourceVars>>

Images == INSTANCE CatalogImages WITH Drafts <- ImageDrafts
Gallery == INSTANCE MediaGallery WITH Assets <- MediaIds
Suggestions(Fields, Commands) == INSTANCE CatalogSuggestions
Sources == INSTANCE CatalogSources WITH Assets <- Pair

ASSUME StudioAssumption ==
    /\ Images!ImageAssumption /\ Gallery!MediaAssumption /\ Sources!SourceDraftAssumption
    /\ Suggestions(Pair, {})!SuggestionAssumption
    /\ Suggestions({Field}, SuggestionKeys)!SuggestionAssumption

\* The variables of a part that this behaviour is not of.
NoImages ==
    /\ draft = None /\ status = None /\ image = None /\ file = None /\ worker = None
    /\ session = None /\ approval = None /\ faults = None
NoGallery ==
    /\ gallery = None /\ live = None /\ replaced = None
NoSuggestions ==
    /\ content = None /\ structured = None /\ sets = None /\ link = None
NoSources ==
    /\ row = None /\ mark = None /\ files = None /\ public = None /\ media = None
    /\ by = None /\ attached = None /\ bundle = None

Init ==
    \/ /\ part = "images" /\ Images!Init
       /\ command = None /\ work = None
       /\ NoGallery /\ NoSuggestions /\ NoSources
    \/ /\ part = "gallery" /\ Gallery!Init
       /\ command = None /\ work = None
       /\ NoImages /\ NoSuggestions /\ NoSources
    \/ /\ \/ part = "suggestions" /\ Suggestions(Pair, {})!Init
          \/ part = "suggestion command" /\ Suggestions({Field}, SuggestionKeys)!Init
       /\ job = None /\ product = None
       /\ NoImages /\ NoGallery /\ NoSources
    \/ /\ part = "sources" /\ Sources!Init
       /\ job = None /\ product = None /\ command = None
       /\ NoImages /\ NoGallery /\ NoSuggestions

Next ==
    \/ /\ part = "images" /\ Images!Next
       /\ UNCHANGED <<part, command, work, galleryVars, suggestionVars, sourceVars>>
    \/ /\ part = "gallery" /\ Gallery!Next
       /\ UNCHANGED <<part, command, work, imageVars, suggestionVars, sourceVars>>
    \/ /\ \/ part = "suggestions" /\ Suggestions(Pair, {})!Next
          \/ part = "suggestion command" /\ Suggestions({Field}, SuggestionKeys)!Next
       /\ UNCHANGED <<part, job, product, imageVars, galleryVars, sourceVars>>
    \/ /\ part = "sources" /\ Sources!Next
       /\ UNCHANGED <<part, job, product, command, imageVars, galleryVars, suggestionVars>>

Spec == Init /\ [][Next]_vars

Symmetry == Permutations(Sessions) \cup Permutations(Pair)

-----------------------------------------------------------------------------
\* No draft or product shows an image that was not generated for it, that lost its
\* files, or that counts as approved without the operator; a variant set has one job at
\* work on a child, and is complete only when its own images are approved (CatalogImages).
ImagesAreReal ==
    part = "images" => /\ Images!ShownImageIsReal /\ Images!ProductIsApproved
                       /\ Images!VariantSetIsCoherent

\* An approved image or media item is kept, whatever edits, results and approvals
\* commit at the same time (CatalogImages, MediaGallery).
ApprovedIsKept ==
    [][/\ part = "images" => Images!ImageKept
       /\ part = "gallery" => Gallery!MediaKept]_vars

\* Every gallery the media commands leave can be read again (MediaGallery).
GalleryIsReadable == part = "gallery" => Gallery!GalleryIsReadable

\* An accepted suggestion is in the draft it names, and no revision loses another's
\* fields (CatalogSuggestions).
AcceptedIsApplied ==
    /\ part = "suggestions" => Suggestions(Pair, {})!AcceptedIsApplied
    /\ part = "suggestion command" => Suggestions({Field}, SuggestionKeys)!AcceptedIsApplied

\* A suggestion is decided once (CatalogSuggestions).
VerdictIsFinal ==
    [][/\ part = "suggestions" => Suggestions(Pair, {})!VerdictsStand
       /\ part = "suggestion command" => Suggestions({Field}, SuggestionKeys)!VerdictsStand]_vars

\* A removed source leaves no file, and a promoted one is in the draft its mark names and
\* stays until the operator takes it out (CatalogSources).
SourceRecordIsTrue == part = "sources" => Sources!SourceRecordIsTrue
=============================================================================
