----------------------------- MODULE MCHistory -----------------------------
(* Histories of up to three rows over two inputs.                          *)
EXTENDS History, TLC

MCWorst == 9
MCSymmetry == Permutations(Inputs)
MCObjectivesTwo == {0, 1}
MCAnyOutcome == {"DEFAULT", "FAILED"}
MCConstraints == {"NONE", "SATISFIED"}
MCAllMissing == {"REFUSE", "SKIP", "IMPUTE"}
MCAllDuplicates == {"ALLOW", "REJECT", "REPLACE"}
=============================================================================
