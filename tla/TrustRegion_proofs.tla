------------------------ MODULE TrustRegion_proofs ------------------------
(***************************************************************************)
(* A region that is placed and fed, for all constants: its types, that it  *)
(* is retired exactly when it has shrunk past length_min, and that its     *)
(* center is its incumbent up to the improvement tolerance.                *)
(***************************************************************************)
EXTENDS TrustRegion, SequenceTheorems, TLAPS

\* The relative gain that the properties speak of is the improvement that
\* observe_batch computes, and it orders the values as they should be: what clears
\* the center is less than it, what does not is more than whatever does.
LEMMA ClearsFacts ==
    ASSUME NEW t \in Nat, NEW c \in Int
    PROVE  /\ \A r : r.tolerance = t /\ r.centerValue = c =>
                 \A v \in Int \cup {NaN} : Improves(r, v) <=> Clears(v, c, t)
           /\ \A v \in Int : Clears(v, c, t) => v < c
           /\ \A v, w \in Int : Clears(v, c, t) /\ ~Clears(w, c, t) => v < w
           /\ \A v, w \in Int : ~Clears(v, c, t) /\ v <= w => ~Clears(w, c, t)
           /\ \A w \in Int : c <= w => ~Clears(w, c, t)
<1> DEFINE q == t * Magnitude(c)
<1>1. q \in Nat
  <2>1. Magnitude(c) \in Nat
    BY DEF Magnitude
  <2> HIDE DEF q
  <2>2. \A x \in Nat : t * x \in Nat
    OBVIOUS
  <2>3. QED
    BY <2>1, <2>2 DEF q
<1>2. NaN \notin Int
  BY TrustRegionAssumption
<1>3. \A v \in Int : Clears(v, c, t) <=> 1000 * (c - v) > q
  BY <1>2 DEF Clears
<1>4. ASSUME NEW r, r.tolerance = t, r.centerValue = c, NEW v \in Int \cup {NaN}
      PROVE  Improves(r, v) <=> Clears(v, c, t)
  <2>1. Improves(r, v) <=> v # NaN /\ 1000 * v < 1000 * c - q
    BY <1>4 DEF Improves, Required
  <2>2. CASE v = NaN
    BY <2>1, <2>2 DEF Clears
  <2>3. CASE v \in Int
    <3> HIDE DEF q
    <3>1. 1000 * v < 1000 * c - q <=> 1000 * (c - v) > q
      BY <1>1, <2>3
    <3>2. QED
      BY <1>2, <1>3, <2>1, <2>3, <3>1
  <2>4. QED
    BY <2>2, <2>3
<1> HIDE DEF q
<1>5. /\ \A v \in Int : Clears(v, c, t) => v < c
      /\ \A v, w \in Int : Clears(v, c, t) /\ ~Clears(w, c, t) => v < w
      /\ \A v, w \in Int : ~Clears(v, c, t) /\ v <= w => ~Clears(w, c, t)
      /\ \A w \in Int : c <= w => ~Clears(w, c, t)
  BY <1>1, <1>3
<1>6. QED
  BY <1>4, <1>5

\* What observe_batch leaves of an active region, by the outcome of the batch:
\* the fields stay in their ranges, the region is retired if and only if it fell
\* below length_min, and the placement is not counted again.
LEMMA ObserveType ==
    ASSUME NEW P, NEW r \in RegionType(P), r.active, r.length >= LengthMin,
           NEW p \in P, NEW v \in Int \cup {NaN}
    PROVE  /\ Observe(r, p, v) \in RegionType(P)
           /\ Observe(r, p, v).active <=> Observe(r, p, v).length >= LengthMin
           /\ ~Observe(r, p, v).active <=> Observe(r, p, v).event = "EXHAUSTED"
           /\ Observe(r, p, v).placed = r.placed
           /\ Observe(r, p, v).restarts = r.restarts
           /\ Observe(r, p, v).tolerance = r.tolerance
<1> USE TrustRegionAssumption
<1> DEFINE c == Count(r, p, v)
           s == Resize(c)
           Counted == [length : LengthMin..LengthMax, success : 0..SuccessTolerance,
                       failure : 0..FailureTolerance, center : P \cup {Nowhere},
                       centerValue : Int, active : BOOLEAN, placed : BOOLEAN,
                       restarts : Nat, tolerance : Nat,
                       event : {"UNCHANGED", "EXPANDED", "SHRANK", "EXHAUSTED"}]
<1>1. /\ c \in Counted
      /\ c.active = TRUE /\ c.placed = r.placed /\ c.restarts = r.restarts
      /\ c.tolerance = r.tolerance
  <2>1. /\ r \in Counted
        /\ r.success + 1 \in 0..SuccessTolerance
        /\ r.failure + 1 \in 0..FailureTolerance
        /\ 0 \in 0..SuccessTolerance /\ 0 \in 0..FailureTolerance
    BY DEF RegionType
  <2>2. CASE Improves(r, v)
    <3> v \in Int
      BY <2>2 DEF Improves
    <3>1. c = [r EXCEPT !.center = p, !.centerValue = v,
                        !.success = r.success + 1, !.failure = 0]
      BY <2>2 DEF Count
    <3> HIDE DEF c
    <3>2. QED
      BY <2>1, <3>1
  <2>3. CASE ~Improves(r, v)
    <3>1. c = [r EXCEPT !.failure = r.failure + 1, !.success = 0]
      BY <2>3 DEF Count, Failed
    <3> HIDE DEF c
    <3>2. QED
      BY <2>1, <3>1
  <2>4. QED
    BY <2>2, <2>3
<1> HIDE DEF c
<1>2. /\ s \in RegionType(P)
      /\ s.active = TRUE /\ s.placed = c.placed /\ s.restarts = c.restarts
      /\ s.tolerance = c.tolerance
      /\ s.event # "EXHAUSTED"
  <2>1. /\ Expanded(c) \in (LengthMin - 1)..LengthMax
        /\ c.length - 1 \in (LengthMin - 1)..LengthMax
        /\ c.length \in (LengthMin - 1)..LengthMax
        /\ 0 \in 0..(SuccessTolerance - 1) /\ 0 \in 0..(FailureTolerance - 1)
    BY <1>1 DEF Expanded
  <2>2. CASE SuccessesReached(c)
    <3>1. s = [c EXCEPT !.length = Expanded(c), !.success = 0, !.failure = 0,
                        !.event = "EXPANDED"]
      BY <2>2 DEF Resize
    <3> HIDE DEF s
    <3>2. QED
      BY <1>1, <2>1, <3>1 DEF RegionType
  <2>3. CASE ~SuccessesReached(c) /\ c.failure >= FailureTolerance
    <3>1. s = [c EXCEPT !.length = c.length - 1, !.success = 0, !.failure = 0,
                        !.event = "SHRANK"]
      BY <2>3 DEF Resize
    <3> HIDE DEF s
    <3>2. QED
      BY <1>1, <2>1, <3>1 DEF RegionType
  <2>4. CASE ~SuccessesReached(c) /\ ~(c.failure >= FailureTolerance)
    <3>1. s = [c EXCEPT !.event = "UNCHANGED"]
      BY <2>4 DEF Resize
    <3>2. /\ c.success \in 0..(SuccessTolerance - 1)
          /\ c.failure \in 0..(FailureTolerance - 1)
      BY <1>1, <2>4 DEF SuccessesReached
    <3> HIDE DEF s
    <3>3. QED
      BY <1>1, <2>1, <3>1, <3>2 DEF RegionType
  <2>5. QED
    BY <2>2, <2>3, <2>4
<1> HIDE DEF s
<1>3. Observe(r, p, v) = IF TooSmall(s)
                         THEN [s EXCEPT !.active = FALSE, !.event = "EXHAUSTED"]
                         ELSE s
  BY DEF Observe, Exhaust, c, s
<1>4. CASE TooSmall(s)
  <2> DEFINE o == Observe(r, p, v)
  <2>1. o = [s EXCEPT !.active = FALSE, !.event = "EXHAUSTED"]
    BY <1>3, <1>4
  <2> HIDE DEF o
  <2>2. o \in RegionType(P)
    BY <1>2, <2>1 DEF RegionType
  <2>3. o.active = FALSE /\ o.event = "EXHAUSTED" /\ o.length = s.length
    BY <1>2, <2>1 DEF RegionType
  <2>4. o.placed = s.placed /\ o.restarts = s.restarts /\ o.tolerance = s.tolerance
    BY <1>2, <2>1 DEF RegionType
  <2>5. ~(o.length >= LengthMin)
    BY <1>2, <1>4, <2>3 DEF TooSmall, RegionType
  <2>6. QED
    BY <1>1, <1>2, <2>2, <2>3, <2>4, <2>5 DEF o
<1>5. CASE ~TooSmall(s)
  <2>1. Observe(r, p, v) = s
    BY <1>3, <1>5
  <2>2. s.length >= LengthMin
    BY <1>2, <1>5 DEF TooSmall, RegionType, LengthInit
  <2>3. QED
    BY <1>1, <1>2, <2>1, <2>2
<1>6. QED
  BY <1>4, <1>5

\* observe_batch moves the center to the best of the batch if and only if that
\* improves on the incumbent, and resizing does not touch it.
LEMMA ObserveCenter ==
    ASSUME NEW P, NEW r \in RegionType(P), NEW p, NEW v \in Int \cup {NaN}
    PROVE  IF Improves(r, v)
           THEN Observe(r, p, v).center = p /\ Observe(r, p, v).centerValue = v
           ELSE /\ Observe(r, p, v).center = r.center
                /\ Observe(r, p, v).centerValue = r.centerValue
<1> USE TrustRegionAssumption
<1> DEFINE c == Count(r, p, v)
           s == Resize(c)
<1>2. IF Improves(r, v) THEN c.center = p /\ c.centerValue = v
      ELSE c.center = r.center /\ c.centerValue = r.centerValue
  BY DEF Count, Failed, RegionType
<1>3. s.center = c.center /\ s.centerValue = c.centerValue
  BY DEF Resize, Count, Failed, RegionType
<1>4. Exhaust(s).center = s.center /\ Exhaust(s).centerValue = s.centerValue
  BY DEF Exhaust, Resize, Count, Failed, RegionType
<1>5. QED
  BY <1>2, <1>3, <1>4 DEF Observe

\* A placement makes an active region of the initial size.
LEMMA RestartType ==
    ASSUME NEW P, NEW r \in RegionType(P), NEW p \in P, NEW v \in Int
    PROVE  /\ Restart(r, p, v) \in RegionType(P)
           /\ Restart(r, p, v).active = TRUE /\ Restart(r, p, v).placed = TRUE
           /\ Restart(r, p, v).length = LengthInit
           /\ Restart(r, p, v).event = "UNCHANGED"
           /\ Restart(r, p, v).tolerance = r.tolerance
           /\ Restart(r, p, v).center = p /\ Restart(r, p, v).centerValue = v
BY TrustRegionAssumption DEF Restart, RegionType, LengthInit

\* What a batch with best value v makes of a region r in the four cases it may
\* meet: a success or a failure, completing a run of its tolerance or not.
BatchOutcome(r, v, o) ==
    /\ Improves(r, v) /\ r.success + 1 >= SuccessTolerance =>
          /\ o.length = Expanded(r) /\ o.success = 0 /\ o.failure = 0
          /\ o.event = "EXPANDED" /\ o.active = TRUE
    /\ Improves(r, v) /\ r.success + 1 < SuccessTolerance =>
          /\ o.length = r.length /\ o.success = r.success + 1 /\ o.failure = 0
          /\ o.event # "EXPANDED" /\ o.active = TRUE
    /\ ~Improves(r, v) /\ r.failure + 1 >= FailureTolerance =>
          /\ o.length = r.length - 1 /\ o.success = 0 /\ o.failure = 0
          /\ o.event # "EXPANDED"
    /\ ~Improves(r, v) /\ r.failure + 1 < FailureTolerance =>
          /\ o.length = r.length /\ o.success = 0 /\ o.failure = r.failure + 1
          /\ o.event # "EXPANDED" /\ o.active = TRUE

\* observe_batch of an active region: the counters and the length by these cases.
LEMMA ObserveOutcome ==
    ASSUME NEW P, NEW r \in RegionType(P), r.active, r.length >= LengthMin,
           NEW p \in P, NEW v \in Int \cup {NaN}
    PROVE  BatchOutcome(r, v, Observe(r, p, v))
<1> USE TrustRegionAssumption
<1> DEFINE c == Count(r, p, v)
           s == Resize(c)
           o == Observe(r, p, v)
<1>0. /\ r.length \in LengthMin..LengthMax /\ r.success \in 0..(SuccessTolerance - 1)
      /\ r.failure \in 0..(FailureTolerance - 1) /\ r.active = TRUE
  BY DEF RegionType
<1>1. /\ c.length = r.length /\ c.active = TRUE
      /\ Improves(r, v) => c.success = r.success + 1 /\ c.failure = 0
      /\ ~Improves(r, v) => c.success = 0 /\ c.failure = r.failure + 1
  BY <1>0 DEF Count, Failed, RegionType
<1>2. /\ SuccessesReached(c) =>
            /\ s.length = Expanded(c) /\ s.success = 0 /\ s.failure = 0
            /\ s.event = "EXPANDED" /\ s.active = c.active
      /\ ~SuccessesReached(c) /\ c.failure >= FailureTolerance =>
            /\ s.length = c.length - 1 /\ s.success = 0 /\ s.failure = 0
            /\ s.event = "SHRANK" /\ s.active = c.active
      /\ ~SuccessesReached(c) /\ ~(c.failure >= FailureTolerance) =>
            /\ s.length = c.length /\ s.success = c.success /\ s.failure = c.failure
            /\ s.event = "UNCHANGED" /\ s.active = c.active
  BY DEF Resize, Count, Failed, RegionType
<1>3. /\ o.length = s.length /\ o.success = s.success /\ o.failure = s.failure
      /\ s.event = "SHRANK" => o.event # "EXPANDED"
      /\ ~TooSmall(s) => o.event = s.event /\ o.active = s.active
  BY DEF Observe, Exhaust, Resize, Count, Failed, RegionType
<1>4. Expanded(c) = Expanded(r) /\ Expanded(r) >= LengthMin
  BY <1>0, <1>1 DEF Expanded, LengthInit
<1>5. SuccessesReached(c) <=> c.success >= SuccessTolerance
  BY DEF SuccessesReached
<1> HIDE DEF c, s, o
<1>6. CASE Improves(r, v) /\ r.success + 1 >= SuccessTolerance
  <2>1. s.length = Expanded(r) /\ s.success = 0 /\ s.failure = 0
        /\ s.event = "EXPANDED" /\ s.active = TRUE
    BY <1>1, <1>2, <1>4, <1>5, <1>6
  <2>2. ~TooSmall(s)
    BY <1>0, <1>4, <2>1 DEF TooSmall, Expanded
  <2>3. QED
    BY <1>0, <1>3, <1>6, <2>1, <2>2 DEF o, BatchOutcome
<1>7. CASE Improves(r, v) /\ r.success + 1 < SuccessTolerance
  <2>1. s.length = r.length /\ s.success = r.success + 1 /\ s.failure = 0
        /\ s.event = "UNCHANGED" /\ s.active = TRUE
    BY <1>0, <1>1, <1>2, <1>5, <1>7
  <2>2. ~TooSmall(s)
    BY <1>0, <2>1 DEF TooSmall
  <2>3. QED
    BY <1>0, <1>3, <1>7, <2>1, <2>2 DEF o, BatchOutcome
<1>8. CASE ~Improves(r, v) /\ r.failure + 1 >= FailureTolerance
  <2>1. s.length = r.length - 1 /\ s.success = 0 /\ s.failure = 0
        /\ s.event = "SHRANK"
    BY <1>0, <1>1, <1>2, <1>5, <1>8
  <2>2. QED
    BY <1>0, <1>3, <1>8, <2>1 DEF o, BatchOutcome
<1>9. CASE ~Improves(r, v) /\ r.failure + 1 < FailureTolerance
  <2>1. s.length = r.length /\ s.success = 0 /\ s.failure = r.failure + 1
        /\ s.event = "UNCHANGED" /\ s.active = TRUE
    BY <1>0, <1>1, <1>2, <1>5, <1>9
  <2>2. ~TooSmall(s)
    BY <1>0, <2>1 DEF TooSmall
  <2>3. QED
    BY <1>0, <1>3, <1>9, <2>1, <2>2 DEF o, BatchOutcome
<1>10. QED
  BY <1>0, <1>6, <1>7, <1>8, <1>9

-----------------------------------------------------------------------------
\* A batch that does not open with a NaN keeps its best entry: nothing in it is
\* less.
LEMMA BestOfBatch ==
    ASSUME NEW D, NEW values, DOMAIN values = D, NEW i, IsBatchBest(values, i),
           values[1] # NaN
    PROVE  i \in D /\ values[i] # NaN /\ \A j \in D : ~Less(values[j], values[i])
BY DEF IsBatchBest

-----------------------------------------------------------------------------

\* The region of the specification keeps its types, and is active exactly while
\* its length has not fallen below length_min.
RegionInv ==
    /\ TypeOK
    /\ RetiredIffExhausted
    /\ region.active => region.placed

\* The region starts typed and inactive.
LEMMA RegionInvInit == Init => RegionInv
<1> SUFFICES ASSUME Init PROVE RegionInv
  OBVIOUS
<1> USE TrustRegionAssumption DEF Init, NewRegion, LengthInit
<1>1. PICK t \in Tolerances : region = [NewRegion EXCEPT !.tolerance = t]
  OBVIOUS
<1>2. t \in Nat
  BY RegionAssumption
<1>3. NewRegion \in RegionType(Points) /\ ~NewRegion.active /\ ~NewRegion.placed
  BY DEF RegionType
<1>4. region \in RegionType(Points) /\ ~region.active /\ ~region.placed
  BY <1>1, <1>2, <1>3 DEF RegionType
<1>5. QED
  BY <1>4 DEF RegionInv, TypeOK, RetiredIffExhausted

\* Every operation on the region keeps it typed.
LEMMA RegionInvNext == RegionInv /\ [Next]_vars => RegionInv'
<1> SUFFICES ASSUME RegionInv, [Next]_vars PROVE RegionInv'
  OBVIOUS
<1> USE TrustRegionAssumption, RegionAssumption
<1>0. /\ region \in RegionType(Points)
      /\ seen \subseteq Points \X (Observable \cup Values)
  BY DEF RegionInv, TypeOK
<1>1. CASE Place
  <2>1. PICK p \in Points, v \in Values :
           region' = Restart(region, p, v) /\ seen' = {<<p, v>>}
    BY <1>1 DEF Place
  <2>2. v \in Int
    OBVIOUS
  <2>3. /\ region' \in RegionType(Points)
        /\ region'.active = TRUE /\ region'.length = LengthInit
        /\ region'.event = "UNCHANGED"
    <3>1. Restart(region, p, v) \in RegionType(Points)
      BY <1>0, <2>2, RestartType
    <3>2. QED
      BY <2>1, <3>1 DEF Restart
  <2>4. seen' \subseteq Points \X (Observable \cup Values)
    BY <2>1
  <2>5. region'.placed
    BY <2>1, <1>0 DEF Restart
  <2>6. QED
    BY <2>3, <2>4, <2>5 DEF RegionInv, TypeOK, RetiredIffExhausted, LengthInit
<1>2. CASE ObserveBatch
  <2>1. PICK b \in Batches : \E i \in DOMAIN b :
           /\ region' = Observe(region, b[i][1], b[i][2])
           /\ seen' \subseteq seen \cup {b[j] : j \in DOMAIN b}
    BY <1>2 DEF ObserveBatch, Compared
  <2>2. \A j \in DOMAIN b : b[j] \in Points \X Observable
    BY DEF Batches
  <2>3. PICK i \in DOMAIN b : region' = Observe(region, b[i][1], b[i][2])
    BY <2>1
  <2>4. b[i][1] \in Points /\ b[i][2] \in Int \cup {NaN}
    BY <2>2
  <2>5. region.active /\ region.placed
    BY <1>2 DEF ObserveBatch, RegionInv
  <2>6. region.length >= LengthMin
    BY <2>5 DEF RegionInv, RetiredIffExhausted
  <2>7. /\ region' \in RegionType(Points)
        /\ region'.active <=> region'.length >= LengthMin
        /\ ~region'.active <=> region'.event = "EXHAUSTED"
        /\ region'.placed = region.placed
    <3> DEFINE p == b[i][1]
               v == b[i][2]
    <3>1. p \in Points /\ v \in Int \cup {NaN}
      BY <2>4
    <3> HIDE DEF p, v
    <3>2. /\ Observe(region, p, v) \in RegionType(Points)
          /\ Observe(region, p, v).active <=> Observe(region, p, v).length >= LengthMin
          /\ ~Observe(region, p, v).active <=> Observe(region, p, v).event = "EXHAUSTED"
          /\ Observe(region, p, v).placed = region.placed
      BY <1>0, <2>5, <2>6, <3>1, ObserveType
    <3>3. region' = Observe(region, p, v)
      BY <2>3 DEF p, v
    <3>4. QED
      BY <3>2, <3>3
  <2>8. seen' \subseteq Points \X (Observable \cup Values)
    BY <1>0, <2>1, <2>2
  <2>9. QED
    BY <2>5, <2>7, <2>8 DEF RegionInv, TypeOK, RetiredIffExhausted
<1>3. CASE UNCHANGED vars
  BY <1>3 DEF vars, RegionInv, TypeOK, RetiredIffExhausted
<1>4. QED
  BY <1>1, <1>2, <1>3 DEF Next

\* The region's record stays well-formed under every sequence of placements and
\* batches: the counters below their tolerances, the length within one halving
\* below length_min and length_max (fortbo_trust_region.f90:271-337).
THEOREM TypeCorrect == Spec => []TypeOK
<1>1. RegionInv => TypeOK
  BY DEF RegionInv
<1>2. QED
  BY <1>1, RegionInvInit, RegionInvNext, PTL DEF Spec

\* A placed region is inactive if and only if it has shrunk below length_min,
\* and then its last event says so: no caller can meet a retired region that
\* still reports progress, nor an active one that is exhausted.
THEOREM RetiredExactlyWhenExhausted == Spec => []RetiredIffExhausted
<1>1. RegionInv => RetiredIffExhausted
  BY DEF RegionInv
<1>2. QED
  BY <1>1, RegionInvInit, RegionInvNext, PTL DEF Spec

-----------------------------------------------------------------------------
\* A step keeps the center the incumbent of all that the region compared.
LEMMA CenterNext ==
    ASSUME RegionInv, CenterIsIncumbent, [Next]_vars
    PROVE  CenterIsIncumbent'
<1> USE TrustRegionAssumption, RegionAssumption
<1>0. /\ region \in RegionType(Points)
      /\ seen \subseteq Points \X (Observable \cup Values)
      /\ region.centerValue \in Int /\ region.tolerance \in Nat
      /\ Observable \subseteq Int \cup {NaN} /\ Values \subseteq Int
  BY DEF RegionInv, TypeOK, RegionType
<1>1. CASE Place
  <2>1. PICK p \in Points, v \in Values :
           region' = Restart(region, p, v) /\ seen' = {<<p, v>>}
    BY <1>1 DEF Place
  <2>2. region'.center = p /\ region'.centerValue = v
        /\ region'.tolerance = region.tolerance
    BY <2>1 DEF Restart
  <2>3. v \in Int /\ ~Clears(v, v, region.tolerance)
    BY <1>0, ClearsFacts
  <2>4. QED
    BY <2>1, <2>2, <2>3 DEF CenterIsIncumbent
<1>2. CASE ObserveBatch
  <2>1. PICK b \in Batches : \E i \in DOMAIN b :
           /\ IsBatchBest([j \in DOMAIN b |-> b[j][2]], i)
           /\ region' = Observe(region, b[i][1], b[i][2])
           /\ seen' = seen \cup Compared(b)
    BY <1>2 DEF ObserveBatch
  <2>2. PICK i \in DOMAIN b :
           /\ IsBatchBest([j \in DOMAIN b |-> b[j][2]], i)
           /\ region' = Observe(region, b[i][1], b[i][2])
    BY <2>1
  <2>3. \A j \in DOMAIN b : /\ b[j] \in Points \X Observable
                            /\ b[j] = <<b[j][1], b[j][2]>>
                            /\ b[j][2] \in Int \cup {NaN}
    <3>1. \A j \in DOMAIN b : b[j] \in Points \X Observable
      BY DEF Batches
    <3>2. \A x \in Points \X Observable : x = <<x[1], x[2]>> /\ x[2] \in Observable
      OBVIOUS
    <3> HIDE TrustRegionAssumption, RegionAssumption
    <3>3. QED
      BY <1>0, <3>1, <3>2, Zenon
  <2>4. 1 \in DOMAIN b
    BY DEF Batches
  <2>5. region.active /\ region.placed
    BY <1>2 DEF ObserveBatch, RegionInv
  <2> DEFINE c == region.centerValue
             t == region.tolerance
             p == b[i][1]
             v == b[i][2]
  <2>6. /\ <<region.center, c>> \in seen
        /\ \A s \in seen : ~Clears(s[2], c, t)
        /\ \A s \in seen : s[2] \in Int \cup {NaN}
    <3>1. \A s \in seen : s[2] \in Int \cup {NaN}
      BY <1>0
    <3>2. QED
      BY <2>5, <3>1 DEF CenterIsIncumbent
  <2>7. /\ v \in Int \cup {NaN} /\ NaN \notin Int
        /\ IF Clears(v, c, t) THEN region'.center = p /\ region'.centerValue = v
           ELSE region'.center = region.center /\ region'.centerValue = c
    <3>1. v \in Int \cup {NaN}
      BY <2>3
    <3>2. Improves(region, v) <=> Clears(v, c, t)
      BY <1>0, <3>1, ClearsFacts
    <3>3. QED
      BY <1>0, <2>2, <3>1, <3>2, ObserveCenter
  <2>8. region'.tolerance = t
    BY <2>2 DEF Observe, Exhaust, Resize, Count, Failed
  <2>9. CASE b[1][2] = NaN
    <3>1. v = NaN
      BY <2>2, <2>4, <2>9 DEF IsBatchBest
    <3>2. ~Clears(v, c, t)
      BY <3>1 DEF Clears
    <3>3. seen' = seen
      BY <2>1, <2>9 DEF Compared
    <3>4. QED
      BY <2>6, <2>7, <2>8, <3>2, <3>3 DEF CenterIsIncumbent
  <2>10. CASE b[1][2] # NaN
    <3>1. seen' = seen \cup {b[j] : j \in DOMAIN b}
      BY <2>1, <2>10 DEF Compared
    <3>2. v \in Int /\ \A j \in DOMAIN b : b[j][2] = NaN \/ v <= b[j][2]
      <4> DEFINE values == [j \in DOMAIN b |-> b[j][2]]
      <4>1. values[1] # NaN /\ DOMAIN values = DOMAIN b
        BY <2>4, <2>10
      <4>2. values[i] # NaN /\ \A j \in DOMAIN b : ~Less(values[j], values[i])
        <5> HIDE DEF values
        <5>1. IsBatchBest(values, i)
          BY <2>2 DEF values
        <5>2. QED
          BY <4>1, <5>1, BestOfBatch
      <4>3. v # NaN /\ \A j \in DOMAIN b : ~Less(b[j][2], v)
        BY <4>2
      <4>4. QED
        BY <2>3, <2>7, <4>3 DEF Less
    <3>3. \A x : ~Clears(NaN, x, t)
      BY DEF Clears
    <3>4. CASE Clears(v, c, t)
      <4>1. <<region'.center, region'.centerValue>> \in seen'
        BY <2>3, <2>7, <3>1, <3>4
      <4>2. \A x \in Int \cup {NaN} : ~Clears(x, c, t) => ~Clears(x, v, t)
        <5>1. \A x \in Int : ~Clears(x, c, t) => v <= x
          BY <1>0, <3>2, <3>4, ClearsFacts
        <5>2. \A x \in Int : v <= x => ~Clears(x, v, t)
          BY <1>0, <3>2, ClearsFacts
        <5>3. QED
          BY <3>3, <5>1, <5>2
      <4>3. \A j \in DOMAIN b : ~Clears(b[j][2], v, t)
        <5>1. \A x \in Int : v <= x => ~Clears(x, v, t)
          BY <1>0, <3>2, ClearsFacts
        <5>2. QED
          BY <2>3, <3>2, <3>3, <5>1
      <4>4. \A s \in seen' : ~Clears(s[2], v, t)
        BY <2>6, <3>1, <4>2, <4>3
      <4>5. QED
        BY <2>7, <2>8, <3>4, <4>1, <4>4 DEF CenterIsIncumbent
    <3>5. CASE ~Clears(v, c, t)
      <4>1. <<region'.center, region'.centerValue>> \in seen'
        BY <2>6, <2>7, <3>1, <3>5
      <4>2. \A j \in DOMAIN b : ~Clears(b[j][2], c, t)
        <5>1. \A x \in Int : v <= x => ~Clears(x, c, t)
          BY <1>0, <3>2, <3>5, ClearsFacts
        <5>2. QED
          BY <2>3, <3>2, <3>3, <5>1
      <4>3. \A s \in seen' : ~Clears(s[2], c, t)
        BY <2>6, <3>1, <4>2
      <4>4. QED
        BY <2>7, <2>8, <3>5, <4>1, <4>3 DEF CenterIsIncumbent
    <3>6. QED
      BY <3>4, <3>5
  <2>11. QED
    BY <2>9, <2>10
<1>3. CASE UNCHANGED vars
  BY <1>3 DEF vars, CenterIsIncumbent
<1>4. QED
  BY <1>1, <1>2, <1>3 DEF Next

\* The center of a region is a pair the region observed since its placement and
\* nothing it compared is better by more than the improvement tolerance, for every
\* tolerance and sequence of placements and batches, with or without NaN
\* (observe_batch and restart, fortbo_trust_region.f90:149-180, 271-337).
THEOREM CenterCorrect == Spec => []CenterIsIncumbent
<1>1. Init => CenterIsIncumbent
  BY DEF Init, NewRegion, CenterIsIncumbent
<1>2. RegionInv /\ CenterIsIncumbent /\ [Next]_vars => CenterIsIncumbent'
  BY CenterNext
<1>3. QED
  BY <1>1, <1>2, RegionInvInit, RegionInvNext, PTL DEF Spec

-----------------------------------------------------------------------------
\* n is the length of the run of outcome o at the end of the sequence s.
IsRun(s, o, n) ==
    /\ n \in 0..Len(s)
    /\ \A j \in (Len(s) - n + 1)..Len(s) : s[j] = o
    /\ n = Len(s) \/ s[Len(s) - n] # o

MaxTolerance == IF SuccessTolerance > FailureTolerance THEN SuccessTolerance
                ELSE FailureTolerance

\* The remembered outcomes and the counters belong together.  CountersAreStreaks
\* alone does not say that the memory is long enough, on which the next count
\* depends.
StreakInv ==
    region.active =>
        /\ streak \in Seq(BOOLEAN) /\ Len(streak) <= MaxTolerance
        /\ IsRun(streak, TRUE, region.success)
        /\ IsRun(streak, FALSE, region.failure)

\* A sequence ends in one run of an outcome only, so its length is well defined.
LEMMA RunIsUnique ==
    ASSUME NEW s \in Seq(BOOLEAN), NEW o, NEW n, NEW m, IsRun(s, o, n), IsRun(s, o, m)
    PROVE  n = m
<1>1. ASSUME NEW a \in 0..Len(s), NEW b \in 0..Len(s), IsRun(s, o, a), IsRun(s, o, b),
             a < b
      PROVE  FALSE
  <2>1. Len(s) - a \in (Len(s) - b + 1)..Len(s)
    BY <1>1
  <2>2. s[Len(s) - a] = o
    BY <1>1, <2>1 DEF IsRun
  <2>3. a # Len(s)
    BY <1>1
  <2>4. QED
    BY <1>1, <2>2, <2>3 DEF IsRun
<1>2. n \in 0..Len(s) /\ m \in 0..Len(s)
  BY DEF IsRun
<1>3. ~(n < m) /\ ~(m < n)
  BY <1>1, <1>2
<1>4. QED
  BY <1>2, <1>3

\* Remembering one more outcome lengthens the run of that outcome by one and ends
\* that of the other, and forgetting the oldest outcome does not disturb a run
\* shorter than the memory.
LEMMA RememberRun ==
    ASSUME NEW s \in Seq(BOOLEAN), Len(s) <= MaxTolerance, NEW x \in BOOLEAN
    PROVE  /\ Remember(s, x) \in Seq(BOOLEAN) /\ Len(Remember(s, x)) <= MaxTolerance
           /\ \A o, n : IsRun(s, o, n) /\ n < MaxTolerance =>
                 IsRun(Remember(s, x), o, IF x = o THEN n + 1 ELSE 0)
<1> USE TrustRegionAssumption
<1> DEFINE t == Append(s, x)
           N == MaxTolerance
           r == Remember(s, x)
           L == Len(s)
<1>0. N \in Nat \ {0} /\ L \in Nat /\ L <= N
  BY DEF MaxTolerance
<1>1. /\ t \in Seq(BOOLEAN) /\ Len(t) = L + 1 /\ t # <<>>
      /\ \A j \in 1..L : t[j] = s[j]
      /\ t[L + 1] = x
  BY AppendProperties
<1>2. r = IF Len(t) > N THEN Tail(t) ELSE t
  BY DEF Remember, MaxTolerance
<1> HIDE DEF t, r, N
<1>3. /\ Tail(t) \in Seq(BOOLEAN) /\ Len(Tail(t)) = L
      /\ \A j \in 1..L : Tail(t)[j] = t[j + 1]
  BY <1>0, <1>1, HeadTailProperties
<1>4. PICK d \in 0..1 : /\ Len(r) = L + 1 - d
                        /\ \A j \in 1..Len(r) : r[j] = t[j + d]
                        /\ d = 1 => L = N
  <2>1. CASE Len(t) > N
    <3>1. r = Tail(t) /\ L = N
      BY <1>0, <1>1, <1>2, <2>1
    <3>2. Len(r) = L + 1 - 1 /\ \A j \in 1..Len(r) : r[j] = t[j + 1]
      BY <1>0, <1>3, <3>1
    <3>3. QED
      BY <3>1, <3>2
  <2>2. CASE ~(Len(t) > N)
    <3>1. r = t
      BY <1>2, <2>2
    <3>2. Len(r) = L + 1 - 0 /\ \A j \in 1..Len(r) : r[j] = t[j + 0]
      BY <1>0, <1>1, <3>1
    <3>3. QED
      BY <3>2
  <2>3. QED
    BY <2>1, <2>2
<1>5. r \in Seq(BOOLEAN) /\ Len(r) \in Nat /\ Len(r) <= N /\ Len(r) > 0
  <2>1. r \in Seq(BOOLEAN)
    BY <1>1, <1>2, <1>3
  <2>2. Len(r) <= N
    BY <1>0, <1>1, <1>2, <1>3
  <2>3. Len(r) > 0
    BY <1>0, <1>4
  <2>4. QED
    BY <2>1, <2>2, <2>3
<1>6. r[Len(r)] = x
  <2>1. Len(r) \in 1..Len(r) /\ Len(r) + d = L + 1
    BY <1>0, <1>5, <1>4
  <2>2. QED
    BY <1>1, <1>4, <2>1
<1>7. \A j \in 1..(Len(r) - 1) : j + d \in 1..L /\ r[j] = s[j + d]
  <2> SUFFICES ASSUME NEW j \in 1..(Len(r) - 1)
               PROVE  j + d \in 1..L /\ r[j] = s[j + d]
    OBVIOUS
  <2>1. j \in 1..Len(r) /\ j + d \in 1..L
    BY <1>0, <1>5, <1>4
  <2>2. QED
    BY <1>1, <1>4, <2>1
<1>8. ASSUME NEW o, NEW n, IsRun(s, o, n), n < N
      PROVE  IsRun(r, o, IF x = o THEN n + 1 ELSE 0)
  <2>0. n \in 0..L
    BY <1>8 DEF IsRun
  <2>run. /\ \A j \in (L - n + 1)..L : s[j] = o
          /\ n = L \/ s[L - n] # o
    BY <1>8 DEF IsRun
  <2>1. CASE x # o
    <3>1. \A j \in (Len(r) - 0 + 1)..Len(r) : r[j] = o
      BY <1>5
    <3>2. Len(r) - 0 = Len(r) /\ 0 \in 0..Len(r)
      BY <1>5
    <3>3. QED
      BY <1>6, <2>1, <3>1, <3>2 DEF IsRun
  <2>2. CASE x = o
    <3>1. n + 1 \in 0..Len(r)
      BY <1>0, <1>4, <1>8, <2>0
    <3>2. ASSUME NEW j \in (Len(r) - (n + 1) + 1)..Len(r)
          PROVE  r[j] = o
      <4>1. CASE j = Len(r)
        BY <1>6, <2>2, <4>1
      <4>2. CASE j # Len(r)
        <5>1. j \in 1..(Len(r) - 1)
          BY <1>5, <2>0, <3>1, <4>2
        <5>2. j + d \in (L - n + 1)..L
          BY <1>0, <1>4, <2>0, <5>1
        <5>3. r[j] = s[j + d]
          BY <1>7, <5>1
        <5>4. QED
          BY <2>run, <5>2, <5>3, Zenon
      <4>3. QED
        BY <4>1, <4>2
    <3>3. n + 1 = Len(r) \/ r[Len(r) - (n + 1)] # o
      <4> SUFFICES ASSUME n + 1 # Len(r) PROVE r[Len(r) - (n + 1)] # o
        OBVIOUS
      <4>1. Len(r) - (n + 1) \in 1..(Len(r) - 1) /\ Len(r) - (n + 1) + d = L - n
            /\ n # L
        BY <1>0, <1>5, <1>4, <2>0, <3>1
      <4>2. r[Len(r) - (n + 1)] = s[L - n]
        BY <1>7, <4>1
      <4>3. QED
        BY <2>run, <4>1, <4>2
    <3>4. QED
      BY <2>2, <3>1, <3>2, <3>3 DEF IsRun
  <2>3. QED
    BY <2>1, <2>2
<1>9. QED
  BY <1>5, <1>8 DEF r, N

\* What an observed batch does to the region, with the best value of the batch
\* named: the four cases of ObserveOutcome, and the memory that goes with each.
LEMMA ObserveStep ==
    ASSUME RegionInv, ObserveBatch
    PROVE  \E v \in Int \cup {NaN} :
              /\ Improves(region, v) /\ region.success + 1 >= SuccessTolerance =>
                    /\ region'.length = Expanded(region)
                    /\ region'.success = 0 /\ region'.failure = 0 /\ streak' = <<>>
                    /\ region'.centerValue = v
              /\ Improves(region, v) /\ region.success + 1 < SuccessTolerance =>
                    /\ region'.length = region.length
                    /\ region'.success = region.success + 1 /\ region'.failure = 0
                    /\ streak' = Remember(streak, TRUE)
              /\ ~Improves(region, v) /\ region.failure + 1 >= FailureTolerance =>
                    /\ region'.length = region.length - 1
                    /\ region'.success = 0 /\ region'.failure = 0 /\ streak' = <<>>
                    /\ region'.centerValue = region.centerValue
              /\ ~Improves(region, v) /\ region.failure + 1 < FailureTolerance =>
                    /\ region'.length = region.length
                    /\ region'.success = 0 /\ region'.failure = region.failure + 1
                    /\ streak' = Remember(streak, FALSE)
<1> USE TrustRegionAssumption, RegionAssumption
<1>1. PICK b \in Batches : \E i \in DOMAIN b :
         /\ region' = Observe(region, b[i][1], b[i][2])
         /\ streak' = IF region'.length # region.length \/ region'.event = "EXPANDED"
                      THEN <<>>
                      ELSE Remember(streak, Clears([j \in DOMAIN b |-> b[j][2]][i],
                                                   region.centerValue,
                                                   region.tolerance))
  BY DEF ObserveBatch
<1>2. PICK i \in DOMAIN b :
         /\ region' = Observe(region, b[i][1], b[i][2])
         /\ streak' = IF region'.length # region.length \/ region'.event = "EXPANDED"
                      THEN <<>>
                      ELSE Remember(streak, Clears([j \in DOMAIN b |-> b[j][2]][i],
                                                   region.centerValue,
                                                   region.tolerance))
  BY <1>1
<1>3. b[i] \in Points \X Observable
  BY DEF Batches
<1>4. b[i][1] \in Points /\ b[i][2] \in Int \cup {NaN}
  BY <1>3
<1>5. PICK p \in Points, v \in Int \cup {NaN} :
         /\ region' = Observe(region, p, v)
         /\ streak' = IF region'.length # region.length \/ region'.event = "EXPANDED"
                      THEN <<>> ELSE Remember(streak, Improves(region, v))
  <2> DEFINE c == region.centerValue
             t == region.tolerance
             v == b[i][2]
  <2>1. c \in Int /\ t \in Nat /\ v \in Int \cup {NaN}
    BY <1>4 DEF RegionInv, TypeOK, RegionType
  <2>2. [j \in DOMAIN b |-> b[j][2]][i] = v
    OBVIOUS
  <2>3. Improves(region, v) <=> Clears(v, c, t)
    <3>1. \A w \in Int \cup {NaN} : Improves(region, w) <=> Clears(w, c, t)
      BY <2>1, ClearsFacts
    <3> HIDE DEF c, t, v
    <3>2. QED
      BY <2>1, <3>1
  <2>4. Improves(region, v) \in BOOLEAN /\ Clears(v, c, t) \in BOOLEAN
    BY DEF Improves, Clears
  <2>5. Improves(region, v) = Clears(v, c, t)
    <3> HIDE DEF c, t, v
    <3>1. QED
      BY <2>3, <2>4
  <2>6. QED
    BY <1>2, <1>4, <2>2, <2>5
<1>6. /\ region \in RegionType(Points) /\ region.active
      /\ region.length >= LengthMin /\ region.length \in Int
  BY DEF RegionInv, TypeOK, RetiredIffExhausted, ObserveBatch, RegionType
<1>7. BatchOutcome(region, v, region')
  BY <1>5, <1>6, ObserveOutcome
<1>8. IF Improves(region, v) THEN region'.centerValue = v
      ELSE region'.centerValue = region.centerValue
  BY <1>5, <1>6, ObserveCenter
<1>9. Improves(region, v) \in BOOLEAN
  BY DEF Improves
<1>10. region.length - 1 # region.length
  BY <1>6
<1>11. QED
  BY <1>5, <1>7, <1>8, <1>9, <1>10 DEF BatchOutcome

\* Every step keeps the counters and the memory together.
LEMMA StreakNext == RegionInv /\ StreakInv /\ [Next]_vars => StreakInv'
<1> SUFFICES ASSUME RegionInv, StreakInv, [Next]_vars PROVE StreakInv'
  OBVIOUS
<1> USE TrustRegionAssumption
<1>0. <<>> \in Seq(BOOLEAN) /\ Len(<<>>) <= MaxTolerance
      /\ IsRun(<<>>, TRUE, 0) /\ IsRun(<<>>, FALSE, 0)
  <2>1. <<>> \in Seq(BOOLEAN) /\ Len(<<>>) = 0
    OBVIOUS
  <2>2. MaxTolerance >= 0
    BY DEF MaxTolerance
  <2>3. QED
    BY <2>1, <2>2 DEF IsRun
<1>1. CASE Place
  <2>1. PICK p \in Points, v \in Values : region' = Restart(region, p, v)
    BY <1>1 DEF Place
  <2>2. region'.success = 0 /\ region'.failure = 0 /\ streak' = <<>>
    BY <1>1, <2>1 DEF Restart, Place
  <2>3. QED
    BY <1>0, <2>2 DEF StreakInv
<1>2. CASE ObserveBatch
  <2>0. /\ streak \in Seq(BOOLEAN) /\ Len(streak) <= MaxTolerance
        /\ IsRun(streak, TRUE, region.success) /\ IsRun(streak, FALSE, region.failure)
    BY <1>2 DEF StreakInv, ObserveBatch
  <2>1. /\ region.success \in 0..(SuccessTolerance - 1)
        /\ region.failure \in 0..(FailureTolerance - 1)
        /\ region.success < MaxTolerance /\ region.failure < MaxTolerance
    BY DEF RegionInv, TypeOK, RegionType, MaxTolerance
  <2>2. ASSUME NEW x \in BOOLEAN
        PROVE  /\ Remember(streak, x) \in Seq(BOOLEAN)
               /\ Len(Remember(streak, x)) <= MaxTolerance
               /\ IsRun(Remember(streak, x), TRUE,
                        IF x = TRUE THEN region.success + 1 ELSE 0)
               /\ IsRun(Remember(streak, x), FALSE,
                        IF x = FALSE THEN region.failure + 1 ELSE 0)
    BY <2>0, <2>1, RememberRun
  <2>3. PICK v \in Int \cup {NaN} :
          /\ Improves(region, v) /\ region.success + 1 >= SuccessTolerance =>
                region'.success = 0 /\ region'.failure = 0 /\ streak' = <<>>
          /\ Improves(region, v) /\ region.success + 1 < SuccessTolerance =>
                /\ region'.success = region.success + 1 /\ region'.failure = 0
                /\ streak' = Remember(streak, TRUE)
          /\ ~Improves(region, v) /\ region.failure + 1 >= FailureTolerance =>
                region'.success = 0 /\ region'.failure = 0 /\ streak' = <<>>
          /\ ~Improves(region, v) /\ region.failure + 1 < FailureTolerance =>
                /\ region'.success = 0 /\ region'.failure = region.failure + 1
                /\ streak' = Remember(streak, FALSE)
    BY <1>2, ObserveStep
  <2>4. CASE streak' = <<>> /\ region'.success = 0 /\ region'.failure = 0
    BY <1>0, <2>4 DEF StreakInv
  <2>5. CASE /\ region'.success = region.success + 1 /\ region'.failure = 0
             /\ streak' = Remember(streak, TRUE)
    <3>1. /\ Remember(streak, TRUE) \in Seq(BOOLEAN)
          /\ Len(Remember(streak, TRUE)) <= MaxTolerance
          /\ IsRun(Remember(streak, TRUE), TRUE, region.success + 1)
          /\ IsRun(Remember(streak, TRUE), FALSE, 0)
      BY <2>2
    <3>2. QED
      BY <2>5, <3>1 DEF StreakInv
  <2>6. CASE /\ region'.success = 0 /\ region'.failure = region.failure + 1
             /\ streak' = Remember(streak, FALSE)
    <3>1. /\ Remember(streak, FALSE) \in Seq(BOOLEAN)
          /\ Len(Remember(streak, FALSE)) <= MaxTolerance
          /\ IsRun(Remember(streak, FALSE), TRUE, 0)
          /\ IsRun(Remember(streak, FALSE), FALSE, region.failure + 1)
      BY <2>2
    <3>2. QED
      BY <2>6, <3>1 DEF StreakInv
  <2>7. \/ region.success + 1 >= SuccessTolerance
        \/ region.success + 1 < SuccessTolerance
    BY <2>1
  <2>8. \/ region.failure + 1 >= FailureTolerance
        \/ region.failure + 1 < FailureTolerance
    BY <2>1
  <2>9. QED
    BY <2>3, <2>4, <2>5, <2>6, <2>7, <2>8
<1>3. CASE UNCHANGED vars
  BY <1>3 DEF vars, StreakInv
<1>4. QED
  BY <1>1, <1>2, <1>3 DEF Next

\* The counters and their streaks stay in step in every state.
LEMMA StreakInvariant == Spec => [](RegionInv /\ StreakInv)
<1>1. Init => StreakInv
  BY DEF Init, NewRegion, StreakInv
<1>2. QED
  BY <1>1, RegionInvInit, RegionInvNext, StreakNext, PTL DEF Spec

\* The success and failure counters of an active region are the lengths of the
\* runs of like outcomes that the last batches ended in, a gain within the
\* improvement tolerance being a failure: no NaN, no tie and no resize in between
\* makes a counter measure anything else (observe_batch,
\* fortbo_trust_region.f90:149-180).
THEOREM CountersMeasureStreaks == Spec => []CountersAreStreaks
<1>1. RegionInv /\ StreakInv => CountersAreStreaks
  <2> SUFFICES ASSUME StreakInv, region.active
               PROVE  \A o \in BOOLEAN :
                        LET run == CHOOSE n \in 0..Len(streak) : IsRun(streak, o, n)
                        IN  IF o THEN region.success = run ELSE region.failure = run
    BY DEF CountersAreStreaks, IsRun
  <2> TAKE o \in BOOLEAN
  <2>1. /\ streak \in Seq(BOOLEAN)
        /\ IsRun(streak, TRUE, region.success)
        /\ IsRun(streak, FALSE, region.failure)
    BY DEF StreakInv
  <2> DEFINE k == IF o THEN region.success ELSE region.failure
             run == CHOOSE n \in 0..Len(streak) : IsRun(streak, o, n)
  <2>2. IsRun(streak, o, k) /\ k \in 0..Len(streak)
    BY <2>1 DEF IsRun
  <2>3. IsRun(streak, o, run)
    BY <2>2
  <2>4. run = k
    BY <2>1, <2>2, <2>3, RunIsUnique
  <2>5. QED
    BY <2>4
<1>2. QED
  BY <1>1, StreakInvariant, PTL

\* A region grows only after SuccessTolerance gains beyond the tolerance in a row
\* and shrinks only after FailureTolerance failures in a row, one halving or
\* doubling at a time; the best value moves with the growth alone, and a shrunk
\* region goes on unless it fell below length_min.
THEOREM ResizesAreEarned == Spec => ResizeOnlyOnStreak
<1> DEFINE Grows == /\ region'.length = region.length + 1
                    /\ region'.centerValue < region.centerValue
                    /\ Len(streak) >= SuccessTolerance - 1
                    /\ \A j \in (Len(streak) - SuccessTolerance + 2)..Len(streak) : streak[j]
           Shrinks == /\ region'.length = region.length - 1
                      /\ region'.centerValue = region.centerValue
                      /\ region'.active <=> region'.length >= LengthMin
                      /\ Len(streak) >= FailureTolerance - 1
                      /\ \A j \in (Len(streak) - FailureTolerance + 2)..Len(streak) :
                            ~streak[j]
           Earned == region.active /\ region'.length # region.length => Grows \/ Shrinks
<1>1. RegionInv /\ RegionInv' /\ StreakInv /\ [Next]_vars => [Earned]_vars
  <2> SUFFICES ASSUME RegionInv, RegionInv', StreakInv, Next, region.active,
                      region'.length # region.length
               PROVE  Grows \/ Shrinks
    OBVIOUS
  <2> USE TrustRegionAssumption
  <2>1. ObserveBatch
    BY DEF Next, Place
  <2>2. /\ region.success \in 0..(SuccessTolerance - 1)
        /\ region.failure \in 0..(FailureTolerance - 1)
        /\ region.length \in (LengthMin - 1)..LengthMax /\ region.centerValue \in Int
    BY DEF RegionInv, TypeOK, RegionType
  <2>3. /\ IsRun(streak, TRUE, region.success) /\ IsRun(streak, FALSE, region.failure)
        /\ Len(streak) \in Nat
    <3>1. /\ IsRun(streak, TRUE, region.success)
          /\ IsRun(streak, FALSE, region.failure)
          /\ streak \in Seq(BOOLEAN)
      BY DEF StreakInv
    <3>2. Len(streak) \in Nat
      BY <3>1
    <3>3. QED
      BY <3>1, <3>2
  <2>4. PICK v \in Int \cup {NaN} :
          /\ Improves(region, v) /\ region.success + 1 >= SuccessTolerance =>
                region'.length = Expanded(region) /\ region'.centerValue = v
          /\ Improves(region, v) /\ region.success + 1 < SuccessTolerance =>
                region'.length = region.length
          /\ ~Improves(region, v) /\ region.failure + 1 >= FailureTolerance =>
                /\ region'.length = region.length - 1
                /\ region'.centerValue = region.centerValue
          /\ ~Improves(region, v) /\ region.failure + 1 < FailureTolerance =>
                region'.length = region.length
    BY <2>1, ObserveStep
  <2>5. CASE Improves(region, v)
    <3>1. region.success = SuccessTolerance - 1
      BY <2>2, <2>4, <2>5
    <3>2. region'.length = region.length + 1 /\ region'.centerValue = v
      <4>1. region'.length = Expanded(region) /\ region'.centerValue = v
        BY <2>2, <2>4, <2>5, <3>1
      <4>2. QED
        BY <2>2, <4>1 DEF Expanded
    <3>3. v < region.centerValue
      <4>1. region.centerValue \in Int /\ region.tolerance \in Nat
        BY DEF RegionInv, TypeOK, RegionType
      <4>2. v \in Int
        BY <2>5 DEF Improves
      <4>3. QED
        BY <2>5, <4>1, <4>2, ClearsFacts
    <3>4. /\ SuccessTolerance - 1 \in 0..Len(streak)
          /\ \A j \in (Len(streak) - (SuccessTolerance - 1) + 1)..Len(streak) :
                streak[j] = TRUE
      BY <2>3, <3>1 DEF IsRun
    <3>5. Len(streak) - (SuccessTolerance - 1) + 1 = Len(streak) - SuccessTolerance + 2
      BY <2>3
    <3>6. QED
      BY <2>3, <3>2, <3>3, <3>4, <3>5
  <2>6. CASE ~Improves(region, v)
    <3>1. region.failure = FailureTolerance - 1
      BY <2>2, <2>4, <2>6
    <3>2. region'.length = region.length - 1 /\ region'.centerValue = region.centerValue
      BY <2>2, <2>4, <2>6, <3>1
    <3>3. /\ FailureTolerance - 1 \in 0..Len(streak)
          /\ \A j \in (Len(streak) - (FailureTolerance - 1) + 1)..Len(streak) :
                streak[j] = FALSE
      BY <2>3, <3>1 DEF IsRun
    <3>4. Len(streak) - (FailureTolerance - 1) + 1 = Len(streak) - FailureTolerance + 2
      BY <2>3
    <3>5. region'.active <=> region'.length >= LengthMin
      <4>1. region'.placed
        BY <2>1 DEF ObserveBatch, RegionInv, Observe, Exhaust, Resize, Count, Failed
      <4>2. QED
        BY <4>1 DEF RegionInv, RetiredIffExhausted
    <3>6. QED
      BY <2>3, <3>2, <3>3, <3>4, <3>5
  <2>7. QED
    BY <2>5, <2>6
<1>2. QED
  BY <1>1, StreakInvariant, PTL DEF Spec, ResizeOnlyOnStreak
=============================================================================
