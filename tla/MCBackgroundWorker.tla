------------------------- MODULE MCBackgroundWorker -------------------------
EXTENDS BackgroundWorker, TLC

CONSTANTS w1, r1, c1, a1
=============================================================================
