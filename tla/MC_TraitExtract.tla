-------------------------- MODULE MC_TraitExtract --------------------------
(* Small files for TraitExtract.                                          *)
EXTENDS TraitExtract, TLC
=============================================================================
