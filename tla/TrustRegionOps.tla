-------------------------- MODULE TrustRegionOps --------------------------
(***************************************************************************)
(* The state machine of a TuRBO trust region, src/fortbo_trust_region.f90, *)
(* as operators on a region record.                                        *)
(*                                                                         *)
(* The base side length is 0.8 * 2^e: every resize of observe_batch        *)
(* doubles or halves it, so the record holds the exponent e.  length_max   *)
(* (1.6) is e = 1 and length_min (0.5^7) lies between e = -6 and e = -7.   *)
(* improvement_tolerance is a field of the region, in thousandths: zero    *)
(* unless the configuration of the driver sets another one.                *)
(***************************************************************************)
EXTENDS Integers, Sequences

CONSTANTS
    LengthMax,          \* largest exponent, 1 for the reference constants
    LengthMin,          \* smallest exponent not below length_min, -6 there
    SuccessTolerance,   \* success_tolerance
    FailureTolerance,   \* failure_tolerance
    Values,             \* objective values that can be told
    Huge,               \* huge(1.0_dp)
    NaN,                \* a value that is not a number
    Nowhere             \* center before any placement (the cube's center)

LengthInit == 0

ASSUME TrustRegionAssumption ==
    /\ LengthMax \in Int /\ LengthMax >= LengthInit
    /\ LengthMin \in Int /\ LengthMin <= LengthInit
    /\ SuccessTolerance \in Nat \ {0}
    /\ FailureTolerance \in Nat \ {0}
    /\ Values \subseteq Int
    /\ Huge \in Int /\ \A v \in Values : -Huge <= v /\ v < Huge
    /\ NaN \notin Int

\* real comparison: false whenever one side is not a number
Less(a, b) == a # NaN /\ b # NaN /\ a < b

NewRegion ==
    [length |-> LengthInit, success |-> 0, failure |-> 0, center |-> Nowhere,
     centerValue |-> Huge, active |-> FALSE, placed |-> FALSE, restarts |-> 0,
     event |-> "UNCHANGED", tolerance |-> 0]

\* restart: (re)place the region at its initial size
Restart(r, center, value) ==
    [length |-> LengthInit, success |-> 0, failure |-> 0, center |-> center,
     centerValue |-> value, active |-> TRUE, placed |-> TRUE,
     restarts |-> IF r.placed THEN r.restarts + 1 ELSE r.restarts,
     event |-> "UNCHANGED", tolerance |-> r.tolerance]

\* mutant: only the first entry of a batch is looked at
FirstOfBatch(values, i) == i = 1

\* The index observe_batch takes for the best of a batch: the first entry that
\* no later comparison displaces.  A NaN in the first place is never displaced,
\* a NaN elsewhere is never taken.
IsBatchBest(values, i) ==
    /\ i \in DOMAIN values
    /\ IF values[1] = NaN THEN i = 1
       ELSE /\ values[i] # NaN
            /\ \A j \in DOMAIN values : ~Less(values[j], values[i])
            /\ \A j \in 1..(i - 1) : Less(values[i], values[j]) \/ values[j] = NaN

Magnitude(x) == IF x < 0 THEN -x ELSE x

\* thousandths by which a batch has to beat the center
\* mutant: the sign of the center is kept
SignedRequired(r) == r.tolerance * r.centerValue
Required(r) == r.tolerance * Magnitude(r.centerValue)

\* mutant: falling short by nothing counts as progress
NoWorse(r, value) ==
    value # NaN /\ 1000 * value <= 1000 * r.centerValue - Required(r)
Improves(r, value) ==
    value # NaN /\ 1000 * value < 1000 * r.centerValue - Required(r)

Failed(r) == [r EXCEPT !.failure = r.failure + 1, !.success = 0]

SuccessesReached(r) == r.success >= SuccessTolerance

Expanded(r) == IF r.length + 1 > LengthMax THEN LengthMax ELSE r.length + 1

\* mutant: the smallest size is given up
AtMinimum(r) == r.length <= LengthMin
TooSmall(r) == r.length < LengthMin

\* the counters and the center after a batch with this best value
Count(r, point, value) ==
    IF Improves(r, value)
    THEN [r EXCEPT !.center = point, !.centerValue = value,
                   !.success = r.success + 1, !.failure = 0]
    ELSE Failed(r)

\* the resize that follows from the counters
Resize(r) ==
    IF SuccessesReached(r)
    THEN [r EXCEPT !.length = Expanded(r), !.success = 0, !.failure = 0,
                   !.event = "EXPANDED"]
    ELSE IF r.failure >= FailureTolerance
    THEN [r EXCEPT !.length = r.length - 1, !.success = 0, !.failure = 0,
                   !.event = "SHRANK"]
    ELSE [r EXCEPT !.event = "UNCHANGED"]

\* a region below length_min is exhausted
Exhaust(r) ==
    IF TooSmall(r) THEN [r EXCEPT !.active = FALSE, !.event = "EXHAUSTED"]
    ELSE r

\* observe_batch of an active region, for the best point and value of the batch
Observe(r, point, value) == Exhaust(Resize(Count(r, point, value)))

\* The relative gain of value over center exceeds t thousandths: what progress
\* is, said without the threshold of the code.  The properties are stated with it.
Clears(value, center, t) ==
    value # NaN /\ 1000 * (center - value) > t * Magnitude(center)

RegionType(Points) ==
    [length : (LengthMin - 1)..LengthMax, success : 0..(SuccessTolerance - 1),
     failure : 0..(FailureTolerance - 1), center : Points \cup {Nowhere},
     centerValue : Int, active : BOOLEAN, placed : BOOLEAN, restarts : Nat,
     tolerance : Nat, event : {"UNCHANGED", "EXPANDED", "SHRANK", "EXHAUSTED"}]
=============================================================================
