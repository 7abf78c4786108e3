----------------------- MODULE MCReproductionSources ------------------------
(* Three jobs over one source root, killed and run again.                  *)
EXTENDS ReproductionSources, TLC

MCSymmetry == Permutations(Jobs)
=============================================================================
