---------------------------- MODULE TrustRegion ----------------------------
(***************************************************************************)
(* One trust region driven as its callers drive it: placed at a point with *)
(* a measured value, fed batches while it is active, placed again after it *)
(* is exhausted (src/fortbo_trust_region.f90; the placements are those of  *)
(* place_region in src/fortbo_turbo_driver.f90).                           *)
(***************************************************************************)
EXTENDS TrustRegionOps

CONSTANTS
    Points,             \* points of the unit cube
    BatchSize,          \* largest batch observed at once
    Observable,         \* values a batch may carry: Values, perhaps NaN or Huge
    Tolerances,         \* improvement tolerances of the callers, in thousandths
    MaxRestarts         \* bound of the model on re-placements

ASSUME RegionAssumption ==
    /\ BatchSize \in Nat
    /\ Observable \subseteq Int \cup {NaN}
    /\ Tolerances \subseteq Nat

VARIABLES
    region,
    seen,               \* history variable: pairs compared since placement
    streak              \* history variable: the outcomes since the last resize

vars == <<region, seen, streak>>

Batches == UNION {[1..n -> Points \X Observable] : n \in 1..BatchSize}

\* what a batch contributes to seen: a batch that opens with a NaN is compared with
\* nothing, whatever else it holds
Compared(b) == IF b[1][2] = NaN THEN {} ELSE {b[j] : j \in DOMAIN b}

Init ==
    /\ \E t \in Tolerances : region = [NewRegion EXCEPT !.tolerance = t]
    /\ seen = {} /\ streak = <<>>

Place ==
    /\ ~region.active
    /\ region.placed => region.restarts < MaxRestarts
    /\ \E p \in Points, v \in Values :
          /\ region' = Restart(region, p, v)
          /\ seen' = {<<p, v>>}
    /\ streak' = <<>>

\* the last max(SuccessTolerance, FailureTolerance) outcomes are enough
Remember(s, outcome) ==
    LET n == IF SuccessTolerance > FailureTolerance THEN SuccessTolerance
             ELSE FailureTolerance
        t == Append(s, outcome)
    IN  IF Len(t) > n THEN Tail(t) ELSE t

ObserveBatch ==
    /\ region.active
    /\ \E b \in Batches :
          LET values == [j \in DOMAIN b |-> b[j][2]]
          IN  \E i \in DOMAIN b :
                /\ IsBatchBest(values, i)
                /\ region' = Observe(region, b[i][1], b[i][2])
                /\ seen' = seen \cup Compared(b)
                /\ streak' = IF region'.length # region.length \/ region'.event = "EXPANDED"
                             THEN <<>>
                             ELSE Remember(streak,
                                           Clears(values[i], region.centerValue,
                                                  region.tolerance))

Next == Place \/ ObserveBatch

Spec == Init /\ [][Next]_vars

\* the caller keeps feeding an active region
FairSpec == Spec /\ WF_vars(ObserveBatch)

-----------------------------------------------------------------------------
\* The type of the region; the counters never reach their tolerance.
TypeOK ==
    /\ region \in RegionType(Points)
    /\ seen \subseteq Points \X (Observable \cup Values)

\* A region is retired exactly when it has shrunk past length_min, and only the
\* batch that shrank it there may say so.
RetiredIffExhausted ==
    region.placed =>
        /\ region.active <=> region.length >= LengthMin
        /\ ~region.active <=> region.event = "EXHAUSTED"

\* The center is the incumbent of everything the region has compared since it was
\* placed, up to the improvement tolerance: a pair it saw, and nothing it saw
\* clears it (small gains may not add up to a lag larger than one tolerance).  A
\* batch that opens with a NaN is the exception: whatever it holds is lost.
CenterIsIncumbent ==
    region.placed =>
        /\ <<region.center, region.centerValue>> \in seen
        /\ \A s \in seen : ~Clears(s[2], region.centerValue, region.tolerance)

\* The counters measure consecutive batches: the success counter is the length
\* of the run of successes at the end of the outcomes since the last resize, and
\* the failure counter that of failures; a gain within the tolerance is a failure.
CountersAreStreaks ==
    LET run(o) == CHOOSE n \in 0..Len(streak) :
                     /\ \A j \in (Len(streak) - n + 1)..Len(streak) : streak[j] = o
                     /\ n = Len(streak) \/ streak[Len(streak) - n] # o
    IN  region.active => region.success = run(TRUE) /\ region.failure = run(FALSE)

\* A region resizes only on a full run of like outcomes: it grows after
\* success_tolerance consecutive successes, shrinks after failure_tolerance
\* consecutive failures, never by more than one factor of two, and a shrink to
\* length_min itself leaves it active.
ResizeOnlyOnStreak ==
    [][region.active /\ region'.length # region.length =>
          \/ /\ region'.length = region.length + 1
             /\ region'.centerValue < region.centerValue
             /\ Len(streak) >= SuccessTolerance - 1
             /\ \A j \in (Len(streak) - SuccessTolerance + 2)..Len(streak) : streak[j]
          \/ /\ region'.length = region.length - 1
             /\ region'.centerValue = region.centerValue
             /\ region'.active <=> region'.length >= LengthMin
             /\ Len(streak) >= FailureTolerance - 1
             /\ \A j \in (Len(streak) - FailureTolerance + 2)..Len(streak) : ~streak[j]]_vars

\* A stalled region cannot expand or idle for ever: fed batches, every region is
\* exhausted in the end, because only a strict improvement counts as progress.
EveryRegionExhausts == region.active ~> ~region.active
=============================================================================
