----------------------------- MODULE MCIndexJobs -----------------------------
EXTENDS IndexJobs, TLC

CONSTANTS w1, w2, p1, c1, c2, r1, r2

Symmetry == Permutations(Workers) \cup Permutations(Clients) \cup Permutations(Runs)
=============================================================================
