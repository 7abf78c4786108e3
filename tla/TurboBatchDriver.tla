------------------------- MODULE TurboBatchDriver -------------------------
(***************************************************************************)
(* The batch mode of the TuRBO driver, src/fortbo_turbo_driver.f90: an ask *)
(* fills every slot of a batch, first with designs and then through the    *)
(* bandit, and a tell answers the whole batch.  The caller is that of      *)
(* app/fortbo_b5_protocol.f90: it asks only after it has told, and stops   *)
(* on any status that is not OK.                                           *)
(*                                                                         *)
(* pending stands for the points and regions the caller holds between an   *)
(* ask and its tell; the driver does not read them back in this mode.      *)
(***************************************************************************)
EXTENDS TurboDriver

-----------------------------------------------------------------------------
\* next_region_needing_design, with the slots rs that this ask has assigned
Assigned(rs, k) == Cardinality({i \in DOMAIN rs : rs[i] = k})

\* mutant: the slots of this batch are not counted
HaveStored(rs, k) == Len(histories[k].rows)
HaveWith(rs, k) == Len(histories[k].rows) + Assigned(rs, k)
NeedsDesignWith(rs, k) == HaveWith(rs, k) < config.required \/ ~HasUsable(k)
IsNextWith(rs, k) ==
    /\ NeedsDesignWith(rs, k)
    /\ \A j \in Regions : NeedsDesignWith(rs, j) =>
          \/ HaveWith(rs, k) < HaveWith(rs, j)
          \/ HaveWith(rs, k) = HaveWith(rs, j) /\ k <= j

\* the slots of this ask that go to designs: one region after the other, until the
\* batch is full or no design is short
IsDesign(rs) ==
    /\ \A i \in DOMAIN rs : IsNextWith(SubSeq(rs, 1, i - 1), rs[i])
    /\ Len(rs) < config.batch => \A k \in Regions : ~NeedsDesignWith(rs, k)
Design == CHOOSE rs \in UNION {[1..n -> Regions] : n \in 0..config.batch} : IsDesign(rs)

Consumed == IF frozenLeft = Unfrozen THEN Unfrozen ELSE frozenLeft - Len(Design)

MayAskBatch ==
    /\ ~config.completion
    /\ ~Stopped /\ pending = <<>>
    /\ Len(origin) + config.batch <= config.budget

\* remember_pending
Remember(slots) ==
    /\ pending' = [i \in DOMAIN slots |-> [point |-> Len(origin) + i, region |-> slots[i]]]
    /\ origin' = origin \o [i \in DOMAIN slots |->
                              [region |-> slots[i], epoch |-> Epoch(slots[i])]]
    /\ reply' = "OK"

\* The slots that no design takes go to regions of the pool, and only then is a
\* region without a center placed.
AskBatch ==
    /\ MayAskBatch
    /\ frozenLeft # Unfrozen => Len(Design) <= frozenLeft
    /\ \E picks \in [1..(config.batch - Len(Design)) -> Pool] : Remember(Design \o picks)
    /\ regions' = [k \in Regions |->
                     IF Len(Design) < config.batch /\ k \in Pool /\ ~regions[k].active
                     THEN Placed(k) ELSE regions[k]]
    /\ frozenLeft' = Consumed
    /\ UNCHANGED <<config, histories, evaluations, restarts, best, told>>

\* the frozen design runs out within the batch; what was left of it is gone
AskBatchExhausted ==
    /\ MayAskBatch
    /\ frozenLeft # Unfrozen /\ Len(Design) > frozenLeft
    /\ frozenLeft' = 0
    /\ reply' = "EXHAUSTED"
    /\ UNCHANGED <<config, regions, histories, pending, evaluations, restarts, best,
                   origin, told>>

\* a slot is left, every design is full once this batch is told, and no region has
\* a surrogate: the design points of this batch are lost
AskBatchNoSurrogate ==
    /\ MayAskBatch
    /\ frozenLeft # Unfrozen => Len(Design) <= frozenLeft
    /\ Len(Design) < config.batch /\ Pool = {}
    /\ frozenLeft' = Consumed
    /\ reply' = "NO_SURROGATE"
    /\ UNCHANGED <<config, regions, histories, pending, evaluations, restarts, best,
                   origin, told>>

-----------------------------------------------------------------------------
Batches ==
    {a \in [DOMAIN pending -> [ok : {TRUE}, value : Values] \cup [ok : {FALSE}, value : {Huge}]] :
        Failures + Cardinality({i \in DOMAIN pending : ~a[i].ok}) <= config.failures}

\* the answers up to the first one that its history refuses
Taken(a) ==
    {i \in DOMAIN pending : \A j \in 1..i :
        Recorded(histories[pending[j].region], pending[j].point, a[j]).ok}
InOrder(S) == SetToSortSeq(S, <)

\* the batch as region k sees it
Part(k) == {i \in DOMAIN pending : pending[i].region = k}

\* histories[k] after the answers S of the batch, recorded one after the other
LearnedFrom(S, k, a) ==
    LET h[i \in 0..Len(pending)] ==
          IF i = 0 THEN histories[k]
          ELSE IF i \in S THEN Recorded(h[i - 1], pending[i].point, a[i]).h
          ELSE h[i - 1]
    IN  h[Len(pending)]

\* mutant: every region learns the whole batch
LearnedByAll(k, a) == LearnedFrom(Taken(a), k, a)
Learned(k, a) == LearnedFrom(Taken(a) \cap Part(k), k, a)
BestOf(a) ==
    FoldLeft(LAMBDA b, i : Better(b, pending[i].point, a[i]), best, InOrder(Taken(a)))

\* gather_for_region and observe_batch, for a region that has a center
Observed(k, a) ==
    LET part == InOrder(Part(k))
        values == [j \in DOMAIN part |-> a[part[j]].value]
        b == CHOOSE j \in DOMAIN part : IsBatchBest(values, j)
    IN  IF part # <<>> /\ regions[k].active
        THEN Observe(regions[k], pending[part[b]].point, values[b])
        ELSE regions[k]

ToldWith(S, a) ==
    told \cup {<<pending[i].point, IF a[i].ok THEN a[i].value ELSE Missing>> : i \in S}

\* The rows before the refused one stay and may have moved the best; they are not
\* counted as evaluations and no region observes them.
TellBatchRefused(a) ==
    /\ ~Stopped
    /\ Taken(a) # DOMAIN pending
    /\ histories' = [k \in Regions |-> Learned(k, a)]
    /\ best' = BestOf(a)
    /\ told' = ToldWith(Taken(a), a)
    /\ reply' = "REFUSED"
    /\ UNCHANGED <<config, regions, pending, frozenLeft, evaluations, restarts, origin>>

TellBatchTaken(a) ==
    LET after == [k \in Regions |-> Observed(k, a)]
        collapsed == {k \in Regions : Collapses(regions[k], after[k])}
    IN  /\ ~Stopped
        /\ Taken(a) = DOMAIN pending
        /\ regions' = after
        /\ histories' = [k \in Regions |-> IF k \in collapsed THEN Cleared(Learned(k, a))
                                           ELSE Learned(k, a)]
        /\ restarts' = restarts + Cardinality(collapsed)
        /\ evaluations' = evaluations + Len(pending)
        /\ best' = BestOf(a)
        /\ told' = ToldWith(DOMAIN pending, a)
        /\ pending' = <<>>
        /\ reply' = "OK"
        /\ UNCHANGED <<config, frozenLeft, origin>>

TellBatch ==
    /\ ~config.completion /\ pending # <<>>
    /\ \E a \in Batches : TellBatchTaken(a) \/ TellBatchRefused(a)

DriverNext == \/ Ask \/ Tell
              \/ AskBatch \/ AskBatchExhausted \/ AskBatchNoSurrogate \/ TellBatch

DriverSpec == Init /\ [][DriverNext]_vars

-----------------------------------------------------------------------------
\* "Keeping the old history would rebuild the model that just collapsed": a batch
\* is told before the next is asked, so no point of a collapsed region enters
\* its fresh history in batch mode.
BatchesRestartFresh ==
    ~config.completion =>
        \A k \in Regions : \A p \in RowPoints(k) : origin[p].epoch = Epoch(k)

\* A batch size that divides the design never stalls: whatever collapses or fails,
\* an ask fills its batch.
DividingBatchesAreServed ==
    ~config.completion /\ config.required % config.batch = 0 => reply # "NO_SURROGATE"

\* "Every remaining slot goes through the pooled Thompson bandit": an ask of the
\* batch mode fills its batch, whatever the batch size.
EveryAskFillsItsBatch == ~config.completion => reply # "NO_SURROGATE"
=============================================================================
