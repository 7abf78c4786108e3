---------------------------- MODULE TurboDriver ----------------------------
(***************************************************************************)
(* The TuRBO-m driver, src/fortbo_turbo_driver.f90, and its                *)
(* completion-driven mode: one point per ask, up to max_pending points in  *)
(* flight, results told in any order.  TurboBatchDriver adds the batch     *)
(* mode.  The driver composes one trust region (TrustRegionOps) and one    *)
(* history (HistoryOps) per region.                                        *)
(*                                                                         *)
(* A point is the serial number of the ask that proposed it.  Where in the *)
(* cube it lies, the surrogate and the acquisition are not modelled: the   *)
(* bandit may pick any region that has a surrogate.  A refused call that   *)
(* changes nothing (a busy driver, a result that matches no pending point) *)
(* is a stuttering step.  The caller is that of                            *)
(* app/fortbo_b5_completion_protocol.f90: it stops on any status that is   *)
(* not OK, except "no region has a surrogate yet" with points in flight.   *)
(***************************************************************************)
EXTENDS TrustRegionOps, HistoryOps, SequencesExt

CONSTANT
    Configs             \* the configurations, each with the bounds of its caller

Unfrozen == -1

\* completion_driven, n_regions, n_initial (resolved: never zero), batch_size,
\* improvement_tolerance in thousandths, max_pending and the rows of the frozen initial design, Unfrozen without one; the
\* caller's evaluation budget and the bound of the model on failed evaluations
Config == [completion : BOOLEAN, nRegions : Nat \ {0}, required : Nat \ {0},
           batch : Nat \ {0}, tolerance : Nat, maxPending : Nat,
           frozen : Nat \cup {Unfrozen}, budget : Nat, failures : Nat]

ASSUME DriverAssumption ==
    /\ Configs \subseteq Config
    /\ \A c \in Configs :
          /\ c.frozen = Unfrozen \/ c.frozen >= c.required * c.nRegions
          /\ c.completion => c.batch = 1 /\ c.maxPending >= 1
    /\ Worst = Huge /\ Missing \notin Int
    /\ Nowhere \notin Nat

VARIABLES
    config,
    regions, histories,
    pending,            \* pending_points and pending_region
    frozenLeft,         \* frozen design rows beyond initial_frozen_index
    evaluations, restarts,
    best,               \* best_value and best_point
    reply,              \* status of the last call
    origin,             \* history variable: region and epoch of every asked point
    told                \* history variable: point and value (or Missing) answered

vars == <<config, regions, histories, pending, frozenLeft, evaluations, restarts, best,
          reply, origin, told>>

Regions == 1..config.nRegions

\* Failed rows are stored as imputed worst cases under this policy.
\* mutant: the policy is left at its default
PlainHistory == NewHistory
DriverHistory == [NewHistory EXCEPT !.missing = "IMPUTE"]

Init ==
    /\ config \in Configs
    /\ regions = [k \in Regions |-> [NewRegion EXCEPT !.tolerance = config.tolerance]]
    /\ histories = [k \in Regions |-> DriverHistory]
    /\ pending = <<>>
    /\ frozenLeft = config.frozen
    /\ evaluations = 0 /\ restarts = 0
    /\ best = [value |-> Huge, point |-> Nowhere]
    /\ reply = "OK"
    /\ origin = <<>> /\ told = {}

\* how often region k has collapsed: a collapsed region counts as restarted
\* when it is placed again
Epoch(k) == regions[k].restarts
            + (IF regions[k].placed /\ ~regions[k].active THEN 1 ELSE 0)

Stopped == \/ reply \in {"REFUSED", "EXHAUSTED"}
           \/ reply = "NO_SURROGATE" /\ pending = <<>>

-----------------------------------------------------------------------------
InFlight(k) == Cardinality({i \in DOMAIN pending : pending[i].region = k})

Have(k) == Len(histories[k].rows) + InFlight(k)
HasUsable(k) == UsableRows(histories[k]) # {}

\* A region stays on its design until it is full and one result is usable.
NeedsDesign(k) == Have(k) < config.required \/ ~HasUsable(k)

\* next_completion_region_needing_design: fewest points first, then lowest index
IsNextDesign(k) ==
    /\ NeedsDesign(k)
    /\ \A j \in Regions : NeedsDesign(j) =>
          Have(k) < Have(j) \/ (Have(k) = Have(j) /\ k <= j)

\* the regions the bandit draws from: design answered, something to fit
\* mutant: a full design is not enough
HasMoreThanDesign(k) == Len(histories[k].rows) > config.required /\ HasUsable(k)
HasSurrogate(k) == Len(histories[k].rows) >= config.required /\ HasUsable(k)
Pool == {k \in Regions : HasSurrogate(k)}

\* place_region: a region is centered on the best row of its own history, the row
\* that best_index finds (module History checks that it does)
\* mutant: centered on the last row
PlacedLast(k) ==
    LET row == histories[k].rows[Len(histories[k].rows)]
    IN  Restart(regions[k], row.input, row.objective)
Placed(k) ==
    LET row == histories[k].rows[CHOOSE i \in DOMAIN histories[k].rows :
                                    IsBest(histories[k], i, 0)]
    IN  Restart(regions[k], row.input, row.objective)

\* register_completion_pending
Register(k) ==
    /\ pending' = Append(pending, [point |-> Len(origin) + 1, region |-> k])
    /\ origin' = Append(origin, [region |-> k, epoch |-> Epoch(k)])
    /\ reply' = "OK"

HasRoom == Len(pending) < config.maxPending

MayAsk ==
    /\ config.completion
    /\ ~Stopped
    /\ HasRoom
    /\ Len(origin) < config.budget

AskDesign ==
    /\ MayAsk
    /\ \E k \in Regions : IsNextDesign(k) /\ Register(k)
    /\ frozenLeft # 0
    /\ frozenLeft' = IF frozenLeft = Unfrozen THEN Unfrozen ELSE frozenLeft - 1
    /\ UNCHANGED <<config, regions, histories, evaluations, restarts, best, told>>

AskExhausted ==
    /\ MayAsk
    /\ \E k \in Regions : NeedsDesign(k)
    /\ frozenLeft = 0
    /\ reply' = "EXHAUSTED"
    /\ UNCHANGED <<config, regions, histories, pending, frozenLeft, evaluations, restarts,
                   best, origin, told>>

\* Every region of the pool that has no center is placed before the draw.
AskBandit ==
    /\ MayAsk
    /\ \A k \in Regions : ~NeedsDesign(k)
    /\ regions' = [k \in Regions |->
                     IF k \in Pool /\ ~regions[k].active THEN Placed(k)
                     ELSE regions[k]]
    /\ \E k \in Pool : Register(k)
    /\ UNCHANGED <<config, histories, frozenLeft, evaluations, restarts, best, told>>

AskNoSurrogate ==
    /\ MayAsk
    /\ \A k \in Regions : ~NeedsDesign(k)
    /\ Pool = {}
    /\ reply' = "NO_SURROGATE"
    /\ UNCHANGED <<config, regions, histories, pending, frozenLeft, evaluations, restarts,
                   best, origin, told>>

Ask == AskDesign \/ AskExhausted \/ AskBandit \/ AskNoSurrogate

-----------------------------------------------------------------------------
Failures == Cardinality({t \in told : t[2] = Missing})
Answers == [ok : {TRUE}, value : Values]
           \cup (IF Failures < config.failures THEN [ok : {FALSE}, value : {Huge}]
                 ELSE {})

\* what a told point makes of the history of its region
Recorded(h, point, a) ==
    Add(h, point, IF a.ok THEN a.value ELSE Missing,
        IF a.ok THEN "DEFAULT" ELSE "FAILED", NoGradient, "NONE")

\* mutant: the oldest pending point is taken for the told one
WithoutOldest(i) == Tail(pending)
Without(i) == RemoveAt(pending, i)

RegionOf(i) == pending[i].region

\* mutant: the latest value is the best
Latest(b, point, a) == IF a.ok THEN [value |-> a.value, point |-> point] ELSE b
Better(b, point, a) == IF a.ok /\ a.value < b.value
                       THEN [value |-> a.value, point |-> point] ELSE b

Collapses(before, after) == before.active /\ ~after.active

\* restart_region: the history of a collapsed region is initialized again
\* mutant: it keeps its rows
Kept(h) == h
Cleared(h) == NewHistory

\* complete_completion_pending comes first: a refused row has left the pending
\* points already.
TellRefused(i, a) ==
    /\ ~Stopped
    /\ ~Recorded(histories[RegionOf(i)], pending[i].point, a).ok
    /\ pending' = Without(i)
    /\ reply' = "REFUSED"
    /\ UNCHANGED <<config, regions, histories, frozenLeft, evaluations, restarts, best,
                   origin, told>>

\* A region with a center observes the value; one that has collapsed loses its
\* history and is placed again later.
TellAccepted(i, a) ==
    LET k == RegionOf(i)
        point == pending[i].point
        r == Recorded(histories[k], point, a)
        observed == IF regions[k].active THEN Observe(regions[k], point, a.value)
                    ELSE regions[k]
        collapsed == Collapses(regions[k], observed)
    IN  /\ ~Stopped
        /\ r.ok
        /\ pending' = Without(i)
        /\ best' = Better(best, point, a)
        /\ evaluations' = evaluations + 1
        /\ regions' = [regions EXCEPT ![k] = observed]
        /\ histories' = [histories EXCEPT ![k] = IF collapsed THEN Cleared(r.h) ELSE r.h]
        /\ restarts' = IF collapsed THEN restarts + 1 ELSE restarts
        /\ reply' = "OK"
        /\ told' = told \cup {<<point, IF a.ok THEN a.value ELSE Missing>>}
        /\ UNCHANGED <<config, frozenLeft, origin>>

Tell == /\ config.completion
        /\ \E i \in DOMAIN pending, a \in Answers : TellAccepted(i, a) \/ TellRefused(i, a)

Next == Ask \/ Tell

Spec == Init /\ [][Next]_vars

-----------------------------------------------------------------------------
Points == DOMAIN origin
PendingPoints == {pending[i].point : i \in DOMAIN pending}
ToldPoints == {t[1] : t \in told}
RowPoints(k) == {histories[k].rows[i].input : i \in DOMAIN histories[k].rows}

\* The type of the driver; the pending points never exceed the limit of the mode.
TypeOK ==
    /\ config \in Configs
    /\ regions \in [Regions -> RegionType(Points)]
    /\ \A k \in Regions : \A i \in DOMAIN histories[k].rows :
          LET row == histories[k].rows[i]
          IN  row.input \in Points /\ row.objective \in Values \cup {Huge}
    /\ pending \in Seq([point : Points, region : Regions])
    /\ Len(pending) <= (IF config.completion THEN config.maxPending ELSE config.batch)
    /\ origin \in Seq([region : Regions, epoch : Nat]) /\ Len(origin) <= config.budget
    /\ frozenLeft \in Nat \cup {Unfrozen} /\ evaluations \in Nat /\ restarts \in Nat
    /\ best \in [value : Values \cup {Huge}, point : Points \cup {Nowhere}]
    /\ reply \in {"OK", "NO_SURROGATE", "REFUSED", "EXHAUSTED"}

\* Until a tell is refused, every asked point is in flight or told, never both,
\* and every told point was charged as one evaluation, whatever the order of
\* the answers.
AskedIsPendingOrTold ==
    reply # "REFUSED" =>
        /\ Points = PendingPoints \cup ToldPoints
        /\ PendingPoints \cap ToldPoints = {}
        /\ Cardinality(PendingPoints) = Len(pending)
        /\ evaluations = Cardinality(told) /\ evaluations = Cardinality(ToldPoints)

\* "Regions must not share data": every row of a region's history was proposed by
\* that region and told, once; until a region collapses no told row is lost.
HistoriesAreLocal ==
    \A k \in Regions :
        /\ Cardinality(RowPoints(k)) = Len(histories[k].rows)
        /\ RowPoints(k) \subseteq {p \in ToldPoints : origin[p].region = k}
        /\ Epoch(k) = 0 => RowPoints(k) = {p \in ToldPoints : origin[p].region = k}

\* The center of an active region follows the rows of its own history: it is one of
\* the usable ones, better than every one before it, and none after it is better
\* by more than the improvement tolerance (without a tolerance it is the earliest
\* of the best).  Tells, placements and restarts keep the two states of a region,
\* geometry and data, in step.  Only a batch refused half way leaves rows behind
\* that no region has observed.
CenterIsHistoryIncumbent ==
    \A k \in Regions : regions[k].active /\ (config.completion \/ reply # "REFUSED") =>
        LET rows == histories[k].rows
            center == regions[k].centerValue
        IN  \E i \in UsableRows(histories[k]) :
                /\ rows[i].input = regions[k].center /\ rows[i].objective = center
                /\ \A j \in UsableRows(histories[k]) :
                      /\ j < i => center < rows[j].objective
                      /\ ~Clears(rows[j].objective, center, config.tolerance)

\* "Best value seen anywhere, across all regions and all restarts": the best
\* point was told with the best value, no told value is better, and discarded
\* histories do not take it along.
BestIsGlobal ==
    /\ \A t \in told : t[2] # Missing => best.value <= t[2]
    /\ best.value = Huge \/ <<best.point, best.value>> \in told

\* The completion-driven driver never asks its caller to wait while nothing is in
\* flight: waiting would be for ever.
WaitsOnlyForPending == config.completion /\ reply = "NO_SURROGATE" => pending # <<>>

\* "with several regions the designs advance together": until a region restarts,
\* two regions still in their designs never differ by more than one point.
DesignsAdvanceTogether ==
    restarts = 0 => \A j, k \in Regions :
        NeedsDesign(j) /\ NeedsDesign(k) => Have(j) - Have(k) \in -1..1

\* A failed evaluation is accepted by the driver as long as no region restarted.
FailuresAcceptedBeforeRestart == reply = "REFUSED" => restarts > 0

\* "a failed evaluation is accepted by the driver" (test_turbo_driver.f90:465):
\* no tell is refused.
FailuresAreAccepted == reply # "REFUSED"
=============================================================================
