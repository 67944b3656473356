------------------------ MODULE MCCatalogAuthoring ------------------------
EXTENDS CatalogAuthoring, TLC

MCDrafts == 1 .. 6
MCFewDrafts == 1 .. 4
Symmetry == Permutations(Sessions) \cup Permutations(Keys) \cup Permutations(Owners)
=============================================================================
