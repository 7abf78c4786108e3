--------------------------- MODULE MCTrustRegion ---------------------------
(* A region of three lengths fed batches of up to two of two points, and   *)
(* placed at a value that two successes can follow.  The step from -2000   *)
(* to -2001 is less than one thousandth, every other one more.             *)
EXTENDS TrustRegion

MCHuge == 9999
MCValues == {-2001, -2000, 2001, 4001}
MCObservable == {-2001, -2000, 2001, NaN}
MCTolerances == {0, 1}
MCLengthMin == -1
=============================================================================
