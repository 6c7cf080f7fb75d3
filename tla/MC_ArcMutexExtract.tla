------------------------- MODULE MC_ArcMutexExtract -------------------------
EXTENDS ArcMutexExtract, TLC
=============================================================================
