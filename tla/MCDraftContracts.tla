--------------------------- MODULE MCDraftContracts ---------------------------
(***************************************************************************)
(* One product whose clients send three sets of inventory rows, one of     *)
(* them with no size beside "One_Size", none, one or two images, and blank *)
(* or complete content.                                                    *)
(***************************************************************************)
EXTENDS DraftContracts

Row(size, units) == [size |-> size, units |-> units]
MCInventories == {{Row("One_Size", 1), Row("S_", 1)}, {Row("none", 1), Row("One_Size", 1)},
                  {Row("S", 2)}}
MCGalleries == {<<>>, [m1 |-> "pending"], [m1 |-> "approved", m2 |-> "approved"]}
MCStructured == {[content |-> "c0", sources |-> {}, alt |-> {}],
                 [content |-> "c1", sources |-> {"c1"}, alt |-> {"m1", "m2"}]}
=============================================================================
