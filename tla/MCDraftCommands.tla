--------------------------- MODULE MCDraftCommands ---------------------------
EXTENDS DraftCommands, TLC

Symmetry == Permutations(Commands) \cup Permutations(Keys)
=============================================================================
