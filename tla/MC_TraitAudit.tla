--------------------------- MODULE MC_TraitAudit ---------------------------
(* Small corpora for TraitAudit: model values for files and traits.       *)
EXTENDS TraitAudit, TLC

CONSTANTS f1, f2, t1, t2

MCFiles == {f1, f2}
MCFileOrder == <<f1, f2>>
=============================================================================
