------------------------- MODULE MCCatalogWorkflow -------------------------
EXTENDS CatalogWorkflow, TLC

CONSTANTS s1, s2, k1, k2, k3, running, failed, d1, r1, r2


Symmetry == Permutations(Sessions) \cup Permutations(Keys)
               \cup Permutations(States) \cup Permutations(Drafts)
               \cup Permutations(Requests)
=============================================================================
