--------------------------- MODULE MCTurboDriver ---------------------------
(* Drivers of one and two regions whose designs hold one to three points   *)
(* and whose regions collapse after one or two batches without progress.   *)
EXTENDS TurboBatchDriver

MCHuge == 9999
MCValues == {-2001, -2000}
\* the step from -2000 to -2001 is less than one thousandth, the others are more
MCThreeValues == {-2001, -2000, 2001}
MCLengthMin == 0

\* two regions that restart and are placed again
TwoRegions == [completion |-> TRUE, nRegions |-> 2, required |-> 2, batch |-> 1,
               tolerance |-> 0, maxPending |-> 2, frozen |-> Unfrozen, budget |-> 8, failures |-> 1]
\* one region asked while its design is in flight
OneRegion == [TwoRegions EXCEPT !.nRegions = 1, !.failures = 2]
\* a frozen design of three rows, designs of failed points
FrozenDesign == [TwoRegions EXCEPT !.required = 1, !.maxPending = 3, !.frozen = 3,
                                   !.budget = 6, !.failures = 2]
\* batches that divide a design, that exceed it, and a frozen design
TwoByTwo == [TwoRegions EXCEPT !.completion = FALSE, !.batch = 2, !.maxPending = 0,
                               !.budget = 10]
OneByThree == [TwoByTwo EXCEPT !.nRegions = 1, !.required = 1, !.batch = 3,
                               !.budget = 9, !.failures = 3]
FrozenBatches == [TwoByTwo EXCEPT !.nRegions = 1, !.frozen = 3]
\* batches of two for a design of three
OddDesign == [TwoByTwo EXCEPT !.nRegions = 1, !.required = 3, !.budget = 6]

\* the driver of app/fortbo_reproduction.f90: batches of one point and a tolerance
\* of one thousandth; the same tolerance in batches and in the completion mode
Reproduction == [OddDesign EXCEPT !.batch = 1, !.required = 2, !.tolerance = 1, !.budget = 7]
TolerantBatches == [OneByThree EXCEPT !.tolerance = 1]
Tolerant == [OneRegion EXCEPT !.tolerance = 1, !.budget = 7]

MCConfigs == {TwoRegions, OneRegion, FrozenDesign, TwoByTwo, OneByThree, FrozenBatches,
              OddDesign, Reproduction, TolerantBatches, Tolerant}

\* only a tolerance tells more than two values apart
ValuesMatter == config.tolerance = 0 => \A pair \in told' : pair[2] # 2001

MCOneRegion == {[OneRegion EXCEPT !.budget = 5]}
MCOddDesign == {OddDesign}
=============================================================================
