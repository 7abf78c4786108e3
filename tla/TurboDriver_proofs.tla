------------------------- MODULE TurboDriver_proofs -------------------------
(***************************************************************************)
(* Theorems about the TuRBO-m driver, for every set of configurations,     *)
(* budget, tolerance and set of values: of its completion-driven mode,     *)
(* about Spec, and at the end of its batch mode, about DriverSpec.         *)
(***************************************************************************)
EXTENDS TurboBatchDriver, SequenceTheorems, FiniteSetTheorems,
        WellFoundedInduction, TLAPS

\* The relative gain that the properties speak of is the improvement that
\* observe_batch computes, and it orders the values as they should be: what clears
\* the center is less than it, what does not is more than whatever does.
LEMMA ClearsFacts ==
    ASSUME NEW t \in Nat, NEW c \in Int
    PROVE  /\ \A r : r.tolerance = t /\ r.centerValue = c =>
                 \A v \in Int \cup {NaN} : Improves(r, v) <=> Clears(v, c, t)
           /\ \A v \in Int : Clears(v, c, t) => v < c
           /\ \A v, w \in Int : Clears(v, c, t) /\ ~Clears(w, c, t) => v < w
           /\ \A v, w \in Int : ~Clears(v, c, t) /\ v <= w => ~Clears(w, c, t)
           /\ \A w \in Int : c <= w => ~Clears(w, c, t)
<1> DEFINE q == t * Magnitude(c)
<1>1. q \in Nat
  <2>1. Magnitude(c) \in Nat
    BY DEF Magnitude
  <2> HIDE DEF q
  <2>2. \A x \in Nat : t * x \in Nat
    OBVIOUS
  <2>3. QED
    BY <2>1, <2>2 DEF q
<1>2. NaN \notin Int
  BY TrustRegionAssumption
<1>3. \A v \in Int : Clears(v, c, t) <=> 1000 * (c - v) > q
  BY <1>2 DEF Clears
<1>4. ASSUME NEW r, r.tolerance = t, r.centerValue = c, NEW v \in Int \cup {NaN}
      PROVE  Improves(r, v) <=> Clears(v, c, t)
  <2>1. Improves(r, v) <=> v # NaN /\ 1000 * v < 1000 * c - q
    BY <1>4 DEF Improves, Required
  <2>2. CASE v = NaN
    BY <2>1, <2>2 DEF Clears
  <2>3. CASE v \in Int
    <3> HIDE DEF q
    <3>1. 1000 * v < 1000 * c - q <=> 1000 * (c - v) > q
      BY <1>1, <2>3
    <3>2. QED
      BY <1>2, <1>3, <2>1, <2>3, <3>1
  <2>4. QED
    BY <2>2, <2>3
<1> HIDE DEF q
<1>5. /\ \A v \in Int : Clears(v, c, t) => v < c
      /\ \A v, w \in Int : Clears(v, c, t) /\ ~Clears(w, c, t) => v < w
      /\ \A v, w \in Int : ~Clears(v, c, t) /\ v <= w => ~Clears(w, c, t)
      /\ \A w \in Int : c <= w => ~Clears(w, c, t)
  BY <1>1, <1>3
<1>6. QED
  BY <1>4, <1>5

\* What observe_batch leaves of an active region, by the outcome of the batch:
\* the fields stay in their ranges, the region is retired if and only if it fell
\* below length_min, and the placement is not counted again.
LEMMA ObserveType ==
    ASSUME NEW P, NEW r \in RegionType(P), r.active, r.length >= LengthMin,
           NEW p \in P, NEW v \in Int \cup {NaN}
    PROVE  /\ Observe(r, p, v) \in RegionType(P)
           /\ Observe(r, p, v).active <=> Observe(r, p, v).length >= LengthMin
           /\ ~Observe(r, p, v).active <=> Observe(r, p, v).event = "EXHAUSTED"
           /\ Observe(r, p, v).placed = r.placed
           /\ Observe(r, p, v).restarts = r.restarts
           /\ Observe(r, p, v).tolerance = r.tolerance
<1> USE TrustRegionAssumption
<1> DEFINE c == Count(r, p, v)
           s == Resize(c)
           Counted == [length : LengthMin..LengthMax, success : 0..SuccessTolerance,
                       failure : 0..FailureTolerance, center : P \cup {Nowhere},
                       centerValue : Int, active : BOOLEAN, placed : BOOLEAN,
                       restarts : Nat, tolerance : Nat,
                       event : {"UNCHANGED", "EXPANDED", "SHRANK", "EXHAUSTED"}]
<1>1. /\ c \in Counted
      /\ c.active = TRUE /\ c.placed = r.placed /\ c.restarts = r.restarts
      /\ c.tolerance = r.tolerance
  <2>1. /\ r \in Counted
        /\ r.success + 1 \in 0..SuccessTolerance
        /\ r.failure + 1 \in 0..FailureTolerance
        /\ 0 \in 0..SuccessTolerance /\ 0 \in 0..FailureTolerance
    BY DEF RegionType
  <2>2. CASE Improves(r, v)
    <3> v \in Int
      BY <2>2 DEF Improves
    <3>1. c = [r EXCEPT !.center = p, !.centerValue = v,
                        !.success = r.success + 1, !.failure = 0]
      BY <2>2 DEF Count
    <3> HIDE DEF c
    <3>2. QED
      BY <2>1, <3>1
  <2>3. CASE ~Improves(r, v)
    <3>1. c = [r EXCEPT !.failure = r.failure + 1, !.success = 0]
      BY <2>3 DEF Count, Failed
    <3> HIDE DEF c
    <3>2. QED
      BY <2>1, <3>1
  <2>4. QED
    BY <2>2, <2>3
<1> HIDE DEF c
<1>2. /\ s \in RegionType(P)
      /\ s.active = TRUE /\ s.placed = c.placed /\ s.restarts = c.restarts
      /\ s.tolerance = c.tolerance
      /\ s.event # "EXHAUSTED"
  <2>1. /\ Expanded(c) \in (LengthMin - 1)..LengthMax
        /\ c.length - 1 \in (LengthMin - 1)..LengthMax
        /\ c.length \in (LengthMin - 1)..LengthMax
        /\ 0 \in 0..(SuccessTolerance - 1) /\ 0 \in 0..(FailureTolerance - 1)
    BY <1>1 DEF Expanded
  <2>2. CASE SuccessesReached(c)
    <3>1. s = [c EXCEPT !.length = Expanded(c), !.success = 0, !.failure = 0,
                        !.event = "EXPANDED"]
      BY <2>2 DEF Resize
    <3> HIDE DEF s
    <3>2. QED
      BY <1>1, <2>1, <3>1 DEF RegionType
  <2>3. CASE ~SuccessesReached(c) /\ c.failure >= FailureTolerance
    <3>1. s = [c EXCEPT !.length = c.length - 1, !.success = 0, !.failure = 0,
                        !.event = "SHRANK"]
      BY <2>3 DEF Resize
    <3> HIDE DEF s
    <3>2. QED
      BY <1>1, <2>1, <3>1 DEF RegionType
  <2>4. CASE ~SuccessesReached(c) /\ ~(c.failure >= FailureTolerance)
    <3>1. s = [c EXCEPT !.event = "UNCHANGED"]
      BY <2>4 DEF Resize
    <3>2. /\ c.success \in 0..(SuccessTolerance - 1)
          /\ c.failure \in 0..(FailureTolerance - 1)
      BY <1>1, <2>4 DEF SuccessesReached
    <3> HIDE DEF s
    <3>3. QED
      BY <1>1, <2>1, <3>1, <3>2 DEF RegionType
  <2>5. QED
    BY <2>2, <2>3, <2>4
<1> HIDE DEF s
<1>3. Observe(r, p, v) = IF TooSmall(s)
                         THEN [s EXCEPT !.active = FALSE, !.event = "EXHAUSTED"]
                         ELSE s
  BY DEF Observe, Exhaust, c, s
<1>4. CASE TooSmall(s)
  <2> DEFINE o == Observe(r, p, v)
  <2>1. o = [s EXCEPT !.active = FALSE, !.event = "EXHAUSTED"]
    BY <1>3, <1>4
  <2> HIDE DEF o
  <2>2. o \in RegionType(P)
    BY <1>2, <2>1 DEF RegionType
  <2>3. o.active = FALSE /\ o.event = "EXHAUSTED" /\ o.length = s.length
    BY <1>2, <2>1 DEF RegionType
  <2>4. o.placed = s.placed /\ o.restarts = s.restarts /\ o.tolerance = s.tolerance
    BY <1>2, <2>1 DEF RegionType
  <2>5. ~(o.length >= LengthMin)
    BY <1>2, <1>4, <2>3 DEF TooSmall, RegionType
  <2>6. QED
    BY <1>1, <1>2, <2>2, <2>3, <2>4, <2>5 DEF o
<1>5. CASE ~TooSmall(s)
  <2>1. Observe(r, p, v) = s
    BY <1>3, <1>5
  <2>2. s.length >= LengthMin
    BY <1>2, <1>5 DEF TooSmall, RegionType, LengthInit
  <2>3. QED
    BY <1>1, <1>2, <2>1, <2>2
<1>6. QED
  BY <1>4, <1>5

\* observe_batch moves the center to the best of the batch if and only if that
\* improves on the incumbent, and resizing does not touch it.
LEMMA ObserveCenter ==
    ASSUME NEW P, NEW r \in RegionType(P), NEW p, NEW v \in Int \cup {NaN}
    PROVE  IF Improves(r, v)
           THEN Observe(r, p, v).center = p /\ Observe(r, p, v).centerValue = v
           ELSE /\ Observe(r, p, v).center = r.center
                /\ Observe(r, p, v).centerValue = r.centerValue
<1> USE TrustRegionAssumption
<1> DEFINE c == Count(r, p, v)
           s == Resize(c)
<1>2. IF Improves(r, v) THEN c.center = p /\ c.centerValue = v
      ELSE c.center = r.center /\ c.centerValue = r.centerValue
  BY DEF Count, Failed, RegionType
<1>3. s.center = c.center /\ s.centerValue = c.centerValue
  BY DEF Resize, Count, Failed, RegionType
<1>4. Exhaust(s).center = s.center /\ Exhaust(s).centerValue = s.centerValue
  BY DEF Exhaust, Resize, Count, Failed, RegionType
<1>5. QED
  BY <1>2, <1>3, <1>4 DEF Observe

\* A placement makes an active region of the initial size.
LEMMA RestartType ==
    ASSUME NEW P, NEW r \in RegionType(P), NEW p \in P, NEW v \in Int
    PROVE  /\ Restart(r, p, v) \in RegionType(P)
           /\ Restart(r, p, v).active = TRUE /\ Restart(r, p, v).placed = TRUE
           /\ Restart(r, p, v).length = LengthInit
           /\ Restart(r, p, v).event = "UNCHANGED"
           /\ Restart(r, p, v).tolerance = r.tolerance
           /\ Restart(r, p, v).center = p /\ Restart(r, p, v).centerValue = v
BY TrustRegionAssumption DEF Restart, RegionType, LengthInit

-----------------------------------------------------------------------------
\* Every nonempty set of natural numbers has a least one.
LEMMA LeastNat ==
    ASSUME NEW T, T \subseteq Nat, T # {}
    PROVE  \E m \in T : \A n \in T : m <= n
<1>1. PICK m \in T : \A n \in T : ~ (<<n, m>> \in OpToRel(<, Nat))
  BY NatLessThanWellFounded, WFMin, Zenon
<1>2. \A n \in T : ~ (n < m)
  BY <1>1 DEF OpToRel
<1>3. QED
  BY <1>2

\* Every nonempty set of integers with a lower bound has a least one.
LEMMA LeastAbove ==
    ASSUME NEW T, T \subseteq Int, T # {}, NEW b \in Int, \A x \in T : b <= x
    PROVE  \E m \in T : \A x \in T : m <= x
<1> DEFINE S == {x - b : x \in T}
<1>1. S \subseteq Nat /\ S # {}
  <2>1. ASSUME NEW x \in T PROVE x - b \in Nat
    <3>1. x \in Int /\ b \in Int /\ b <= x
      OBVIOUS
    <3>2. QED
      BY <3>1
  <2>2. PICK x \in T : TRUE
    OBVIOUS
  <2>3. QED
    BY <2>1, <2>2
<1>2. PICK s \in S : \A y \in S : s <= y
  <2> HIDE DEF S
  <2>1. QED
    BY <1>1, LeastNat
<1>3. PICK m \in T : s = m - b
  OBVIOUS
<1>4. ASSUME NEW x \in T PROVE m <= x
  <2>1. x - b \in S
    OBVIOUS
  <2>2. m - b <= x - b
    BY <1>2, <1>3, <2>1
  <2>3. m \in Int /\ x \in Int
    OBVIOUS
  <2>4. QED
    BY <2>2, <2>3
<1>5. QED
  BY <1>4

\* The usable rows of h measure numbers below the imputed worst value, and not below
\* its negative.
Measured(h) ==
    \A i \in DOMAIN h.rows : IsUsable(h.rows[i]) =>
        /\ h.rows[i].objective \in Int
        /\ -Worst <= h.rows[i].objective /\ h.rows[i].objective < Worst

\* Without constraints, the row best_index finds (fortbo_history.f90:502-530) is the
\* earliest of the least usable rows.
LEMMA BestIsEarliestLeast ==
    ASSUME NEW h, Measured(h), NEW i
    PROVE  IsBest(h, i, 0) <=>
              /\ i \in DOMAIN h.rows /\ IsUsable(h.rows[i])
              /\ \A j \in DOMAIN h.rows : IsUsable(h.rows[j]) =>
                    /\ h.rows[i].objective <= h.rows[j].objective
                    /\ j < i => h.rows[i].objective < h.rows[j].objective
BY DEF IsBest, IsFeasible, Measured

\* A history with a usable row has a best one: place_region finds a center for
\* every region whose design has a measured value.
LEMMA BestExists ==
    ASSUME NEW h, NEW n \in Nat, DOMAIN h.rows = 1..n, Measured(h),
           UsableRows(h) # {}
    PROVE  \E i \in DOMAIN h.rows : IsBest(h, i, 0)
<1> DEFINE U == UsableRows(h)
           V == {h.rows[i].objective : i \in U}
<1>1. U \subseteq DOMAIN h.rows /\ \A i \in U : IsUsable(h.rows[i])
  BY DEF UsableRows
<1>2. PICK m \in V : \A v \in V : m <= v
  <2>1. V \subseteq Int /\ V # {} /\ -Worst \in Int /\ \A v \in V : -Worst <= v
    BY <1>1, DriverAssumption, TrustRegionAssumption DEF Measured
  <2> HIDE DEF V
  <2>2. QED
    BY <2>1, LeastAbove
<1>3. PICK i \in {j \in U : h.rows[j].objective = m} :
             \A j \in {j \in U : h.rows[j].objective = m} : i <= j
  <2> DEFINE T == {j \in U : h.rows[j].objective = m}
  <2>1. T \subseteq Nat /\ T # {}
    BY <1>1, <1>2
  <2> HIDE DEF T
  <2>2. \E i \in T : \A j \in T : i <= j
    BY <2>1, LeastNat
  <2>3. QED
    BY <2>2 DEF T
<1>4. \A j \in DOMAIN h.rows : IsUsable(h.rows[j]) =>
         /\ h.rows[i].objective <= h.rows[j].objective
         /\ j < i => h.rows[i].objective < h.rows[j].objective
  <2> SUFFICES ASSUME NEW j \in DOMAIN h.rows, IsUsable(h.rows[j])
               PROVE  /\ h.rows[i].objective <= h.rows[j].objective
                      /\ j < i => h.rows[i].objective < h.rows[j].objective
    OBVIOUS
  <2>1. j \in U
    BY DEF UsableRows
  <2>2. m <= h.rows[j].objective /\ h.rows[i].objective = m
    BY <1>2, <1>3, <2>1
  <2>3. h.rows[j].objective \in Int /\ m \in Int
    BY <1>1, <1>3, <2>1, <2>2 DEF Measured
  <2>4. ASSUME j < i PROVE h.rows[j].objective # m
    <3>1. SUFFICES ASSUME h.rows[j].objective = m PROVE FALSE
      OBVIOUS
    <3>2. i <= j
      BY <1>3, <2>1, <3>1
    <3>3. i \in Nat /\ j \in Nat
      BY <1>1, <1>3
    <3>4. QED
      BY <2>4, <3>2, <3>3
  <2>5. QED
    BY <2>2, <2>3, <2>4
<1>5. IsBest(h, i, 0)
  BY <1>1, <1>3, <1>4, BestIsEarliestLeast
<1>6. QED
  BY <1>1, <1>3, <1>5

-----------------------------------------------------------------------------
\* Under the policy of a new history, a row without gradient and constraints is
\* appended, refused or skipped by its missing value alone.
LEMMA AddToAllowing ==
    ASSUME NEW h, h.duplicates = "ALLOW", NEW input, NEW objective, NEW outcome
    PROVE  Add(h, input, objective, outcome, NoGradient, "NONE") =
              IF objective = Missing /\ h.missing = "REFUSE" THEN Refused(h)
              ELSE IF objective = Missing /\ h.missing = "SKIP" THEN Accepted(h, h.rows)
              ELSE Accepted(h, Append(h.rows, Row(input, objective, outcome,
                                                  NoGradient, "NONE")))
BY DEF Add, Replaces

-----------------------------------------------------------------------------

RowType(P) ==
    [input : P, objective : Values \cup {Huge}, present : BOOLEAN, imputed : BOOLEAN,
     outcome : {"OK", "FAILED"}, gradient : {NoGradient}, constraint : {"NONE"}]

HistoryType(P) ==
    [rows : Seq(RowType(P)), missing : {"REFUSE", "IMPUTE"}, duplicates : {"ALLOW"}]

\* Asking another point leaves every region and every history well typed.
LEMMA TypesGrow ==
    ASSUME NEW P, NEW Q, P \subseteq Q
    PROVE  RegionType(P) \subseteq RegionType(Q) /\ HistoryType(P) \subseteq HistoryType(Q)
<1>1. RegionType(P) \subseteq RegionType(Q)
  BY DEF RegionType
<1>2. RowType(P) \subseteq RowType(Q)
  BY DEF RowType
<1>3. Seq(RowType(P)) \subseteq Seq(RowType(Q))
  BY <1>2
<1>4. HistoryType(P) \subseteq HistoryType(Q)
  BY <1>3 DEF HistoryType
<1>5. QED
  BY <1>1, <1>4

\* The history of a region that is initialized or restarted.
LEMMA FreshHistory ==
    ASSUME NEW P, NEW h \in {NewHistory, DriverHistory}
    PROVE  h \in HistoryType(P) /\ Measured(h)
<1>1. h.rows = <<>> /\ h.missing \in {"REFUSE", "IMPUTE"} /\ h.duplicates = "ALLOW"
      /\ h = [rows |-> h.rows, missing |-> h.missing, duplicates |-> h.duplicates]
  BY DEF NewHistory, DriverHistory
<1>2. h.rows \in Seq(RowType(P))
  BY <1>1
<1>3. Measured(h)
  BY <1>1 DEF Measured
<1>4. \E m \in {"REFUSE", "IMPUTE"} : h = [rows |-> h.rows, missing |-> m,
                                          duplicates |-> "ALLOW"]
  BY <1>1
<1>5. h \in HistoryType(P)
  BY <1>2, <1>4 DEF HistoryType
<1>6. QED
  BY <1>3, <1>5

\* q is the list s without its entry i.
IsWithout(S, s, i, q) ==
    /\ DOMAIN q = 1..(Len(s) - 1) /\ Len(s) \in Nat /\ i \in 1..Len(s)
    /\ \A j \in 1..(Len(s) - 1) : q[j] = s[IF j < i THEN j ELSE j + 1]
    /\ q \in Seq(S) /\ Len(q) = Len(s) - 1

\* Completing a pending point takes it, and no other, out of the list.
LEMMA RemoveAtElements ==
    ASSUME NEW S, NEW s \in Seq(S), NEW i \in DOMAIN s,
           NEW q, q = RemoveAt(s, i)
    PROVE  IsWithout(S, s, i, q)
<1>1. i \in 1..Len(s) /\ Len(s) \in Nat
  OBVIOUS
<1> DEFINE u == SubSeq(s, 1, i - 1)
           v == SubSeq(s, i + 1, Len(s))
<1>2. u \in Seq(S) /\ Len(u) = i - 1 /\ \A j \in 1..(i - 1) : u[j] = s[j]
  <2>1. \A j \in 1..(i - 1) : s[j] \in S
    BY <1>1
  <2>2. 1 \in Int /\ i - 1 \in Int
    BY <1>1
  <2>3. /\ u \in Seq(S) /\ Len(u) = IF 1 <= i - 1 THEN (i - 1) - 1 + 1 ELSE 0
        /\ \A j \in 1..((i - 1) - 1 + 1) : u[j] = s[1 + j - 1]
    BY <2>1, <2>2, SubSeqProperties
  <2> HIDE DEF u
  <2>4. QED
    BY <1>1, <2>3
<1>3. v \in Seq(S) /\ Len(v) = Len(s) - i /\ \A j \in 1..(Len(s) - i) : v[j] = s[i + j]
  <2>1. \A j \in (i + 1)..Len(s) : s[j] \in S
    BY <1>1
  <2>2. i + 1 \in Int /\ Len(s) \in Int
    BY <1>1
  <2>3. /\ v \in Seq(S)
        /\ Len(v) = IF i + 1 <= Len(s) THEN Len(s) - (i + 1) + 1 ELSE 0
        /\ \A j \in 1..(Len(s) - (i + 1) + 1) : v[j] = s[(i + 1) + j - 1]
    BY <2>1, <2>2, SubSeqProperties
  <2> HIDE DEF v
  <2>4. QED
    BY <1>1, <2>3
<1>4. /\ u \o v \in Seq(S) /\ Len(u \o v) = Len(u) + Len(v)
      /\ \A j \in 1..(Len(u) + Len(v)) : (u \o v)[j] = IF j <= Len(u) THEN u[j]
                                                      ELSE v[j - Len(u)]
  BY <1>2, <1>3, ConcatProperties
<1>5. q = u \o v
  BY DEF RemoveAt
<1> HIDE DEF u, v
<1>6. q \in Seq(S) /\ Len(q) = Len(s) - 1
  <2>1. Len(u) + Len(v) = Len(s) - 1
    BY <1>1, <1>2, <1>3
  <2>2. q \in Seq(S) /\ Len(q) = Len(u) + Len(v)
    BY <1>4, <1>5
  <2>3. QED
    BY <2>1, <2>2
<1>7. ASSUME NEW j \in 1..(Len(s) - 1)
      PROVE  q[j] = s[IF j < i THEN j ELSE j + 1]
  <2>1. q[j] = IF j <= i - 1 THEN u[j] ELSE v[j - (i - 1)]
    <3>1. j \in 1..(Len(u) + Len(v))
      BY <1>1, <1>2, <1>3
    <3>2. (u \o v)[j] = IF j <= Len(u) THEN u[j] ELSE v[j - Len(u)]
      BY <1>4, <3>1
    <3>3. QED
      BY <1>2, <1>5, <3>2
  <2>2. CASE j < i
    <3>1. j <= i - 1 /\ j \in 1..(i - 1)
      BY <1>1, <2>2
    <3>2. QED
      BY <1>2, <2>1, <2>2, <3>1
  <2>3. CASE ~(j < i)
    <3>1. ~(j <= i - 1) /\ j - (i - 1) \in 1..(Len(s) - i) /\ i + (j - (i - 1)) = j + 1
      BY <1>1, <2>3
    <3>2. QED
      BY <1>3, <2>1, <2>3, <3>1
  <2>4. QED
    BY <2>2, <2>3
<1>8. DOMAIN q = 1..(Len(s) - 1)
  BY <1>6
<1>9. QED
  BY <1>1, <1>6, <1>7, <1>8 DEF IsWithout

\* ... and leaves the list typed and shorter by one.
LEMMA RemoveAtType ==
    ASSUME NEW S, NEW s \in Seq(S), NEW i \in DOMAIN s
    PROVE  RemoveAt(s, i) \in Seq(S) /\ Len(RemoveAt(s, i)) = Len(s) - 1
<1>1. PICK q : q = RemoveAt(s, i)
  OBVIOUS
<1>2. q \in Seq(S) /\ Len(q) = Len(s) - 1
  BY <1>1, RemoveAtElements DEF IsWithout
<1>3. QED
  BY <1>1, <1>2

-----------------------------------------------------------------------------
Result == [ok : {TRUE}, value : Values] \cup [ok : {FALSE}, value : {Huge}]

\* Every answer the model enumerates is a result: a value, or a failure at the worst.
LEMMA AnswersAreResults == Answers \subseteq Result
BY DEF Answers, Result

\* the row a told result makes
ToldRow(p, a) ==
    Row(p, IF a.ok THEN a.value ELSE Missing, IF a.ok THEN "DEFAULT" ELSE "FAILED",
        NoGradient, "NONE")

\* A result carries a value exactly when its evaluation succeeded, and the row it
\* makes is usable exactly then; a failed one stands at the worst value.
LEMMA ToldRowFacts ==
    ASSUME NEW P, NEW p \in P, NEW a \in Result
    PROVE  /\ ToldRow(p, a) \in RowType(P)
           /\ ToldRow(p, a).input = p /\ ToldRow(p, a).objective = a.value
           /\ IsUsable(ToldRow(p, a)) <=> a.ok
           /\ a.ok => a.value \in Values /\ -Huge <= a.value /\ a.value < Huge
           /\ ~a.ok => a.value = Huge
           /\ a.ok \in BOOLEAN
           /\ a.value \in Int /\ a.value # NaN /\ Huge \in Int
<1> USE DriverAssumption, TrustRegionAssumption
<1>1. /\ a.ok \in BOOLEAN /\ (~a.ok => a.value = Huge)
      /\ a.value \in Int /\ a.value # NaN /\ Huge \in Int
      /\ a.ok => a.value \in Values /\ -Huge <= a.value /\ a.value < Huge
      /\ a.ok => a.value # Missing
  <2>1. CASE a \in [ok : {TRUE}, value : Values]
    <3>1. a.ok = TRUE /\ a.value \in Values
      BY <2>1
    <3>2. a.value \in Int /\ Huge \in Int
      BY <3>1
    <3>3. -Huge <= a.value /\ a.value < Huge
      BY <3>1
    <3>4. a.value # Missing /\ a.value # NaN /\ a.value \in Int
      <4>1. a.value \in Int
        BY <3>2
      <4>2. Missing \notin Int /\ NaN \notin Int
        OBVIOUS
      <4>3. QED
        BY <4>1, <4>2
    <3>5. QED
      BY <3>1, <3>2, <3>3, <3>4
  <2>2. CASE a \in [ok : {FALSE}, value : {Huge}]
    <3>1. a.ok = FALSE /\ a.value = Huge
      BY <2>2
    <3>2. Huge \in Int /\ Huge # NaN
      OBVIOUS
    <3>3. QED
      BY <3>1, <3>2
  <2>3. QED
    BY <2>1, <2>2 DEF Result
<1>2. CASE a.ok
  <2>1. ToldRow(p, a) = [input |-> p, objective |-> a.value, present |-> TRUE,
                         imputed |-> FALSE, outcome |-> "OK",
                         gradient |-> NoGradient, constraint |-> "NONE"]
    BY <1>1, <1>2 DEF ToldRow, Row, Stored, OutcomeOf
  <2>2. QED
    BY <1>1, <1>2, <2>1 DEF RowType, IsUsable
<1>3. CASE ~a.ok
  <2>1. ToldRow(p, a) = [input |-> p, objective |-> Huge, present |-> FALSE,
                         imputed |-> TRUE, outcome |-> "FAILED",
                         gradient |-> NoGradient, constraint |-> "NONE"]
    BY <1>1, <1>3 DEF ToldRow, Row, Stored, OutcomeOf
  <2>2. QED
    BY <1>1, <1>3, <2>1 DEF RowType, IsUsable
<1>4. QED
  BY <1>2, <1>3

\* A told result is appended to the history of its region, unless it failed and the
\* history has the policy to refuse that.
LEMMA RecordedShape ==
    ASSUME NEW P, NEW h \in HistoryType(P), NEW p \in P, NEW a \in Result
    PROVE  Recorded(h, p, a) = IF ~a.ok /\ h.missing = "REFUSE" THEN Refused(h)
                               ELSE Accepted(h, Append(h.rows, ToldRow(p, a)))
<1> DEFINE objective == IF a.ok THEN a.value ELSE Missing
           outcome == IF a.ok THEN "DEFAULT" ELSE "FAILED"
<1>1. objective = Missing <=> ~a.ok
  BY DriverAssumption, ToldRowFacts
<1>2. h.duplicates = "ALLOW" /\ h.missing # "SKIP"
  BY DEF HistoryType
<1>3. Recorded(h, p, a) = Add(h, p, objective, outcome, NoGradient, "NONE")
  BY DEF Recorded
<1>4. ToldRow(p, a) = Row(p, objective, outcome, NoGradient, "NONE")
  BY DEF ToldRow
<1> HIDE DEF objective, outcome
<1>5. QED
  BY <1>1, <1>2, <1>3, <1>4, AddToAllowing

\* The history that a told result leaves: the old rows, the new one, the old policy.
LEMMA AppendedHistory ==
    ASSUME NEW P, NEW h \in HistoryType(P), Measured(h), NEW p \in P,
           NEW a \in Result, NEW g, g = [h EXCEPT !.rows = Append(h.rows, ToldRow(p, a))]
    PROVE  /\ g \in HistoryType(P) /\ Measured(g) /\ g.missing = h.missing
           /\ DOMAIN h.rows = 1..Len(h.rows) /\ Len(h.rows) \in Nat
           /\ DOMAIN g.rows = 1..(Len(h.rows) + 1)
           /\ \A j \in 1..Len(h.rows) : g.rows[j] = h.rows[j]
           /\ g.rows[Len(h.rows) + 1] = ToldRow(p, a)
<1>1. h.rows \in Seq(RowType(P)) /\ ToldRow(p, a) \in RowType(P)
  BY ToldRowFacts DEF HistoryType
<1>2. g.rows = Append(h.rows, ToldRow(p, a)) /\ g.missing = h.missing
      /\ g \in HistoryType(P)
  <2> DEFINE rows == Append(h.rows, ToldRow(p, a))
  <2>1. rows \in Seq(RowType(P))
    BY <1>1, AppendProperties
  <2>2. g = [h EXCEPT !.rows = rows]
    OBVIOUS
  <2> HIDE DEF rows
  <2>3. g.rows = rows /\ g.missing = h.missing /\ g \in HistoryType(P)
    BY <2>1, <2>2 DEF HistoryType
  <2>4. QED
    BY <2>3 DEF rows
<1>3. /\ DOMAIN h.rows = 1..Len(h.rows) /\ Len(h.rows) \in Nat
      /\ DOMAIN g.rows = 1..(Len(h.rows) + 1)
      /\ \A j \in 1..Len(h.rows) : g.rows[j] = h.rows[j]
      /\ g.rows[Len(h.rows) + 1] = ToldRow(p, a)
  BY <1>1, <1>2, AppendProperties
<1>4. Measured(g)
  <2> SUFFICES ASSUME NEW j \in DOMAIN g.rows, IsUsable(g.rows[j])
               PROVE  /\ g.rows[j].objective \in Int
                      /\ -Worst <= g.rows[j].objective /\ g.rows[j].objective < Worst
    BY DEF Measured
  <2>1. CASE j \in 1..Len(h.rows)
    BY <1>3, <2>1 DEF Measured
  <2>2. CASE j = Len(h.rows) + 1
    BY <1>3, <2>2, ToldRowFacts, DriverAssumption
  <2>3. QED
    BY <1>3, <2>1, <2>2
<1>5. QED
  BY <1>2, <1>3, <1>4

-----------------------------------------------------------------------------
\* The parts of the inductive invariant beyond the type.  The code keeps the first
\* in every history: only the two policies the driver sets, only measured values.
HistoriesTyped ==
    /\ \A k \in Regions : Measured(histories[k])
    /\ histories \in [Regions -> HistoryType(Points)]

\* an active region is at least of the minimum length
ActiveIsLargeEnough ==
    \A k \in Regions : regions[k].active => regions[k].length >= LengthMin

\* row i of history h is the center of region r and its incumbent, up to the
\* improvement tolerance
IsCenter(r, h, i) ==
    /\ i \in DOMAIN h.rows /\ IsUsable(h.rows[i])
    /\ h.rows[i].input = r.center /\ h.rows[i].objective = r.centerValue
    /\ \A j \in DOMAIN h.rows : IsUsable(h.rows[j]) =>
          /\ j < i => r.centerValue < h.rows[j].objective
          /\ ~Clears(h.rows[j].objective, r.centerValue, r.tolerance)

Centered(r, h) == r.active => \E i \in DOMAIN h.rows : IsCenter(r, h, i)

\* CenterIsHistoryIncumbent of every mode and every reply
CentersAreIncumbents == \A k \in Regions : Centered(regions[k], histories[k])

ToldTyped == told \subseteq Points \X (Values \cup {Missing})

\* Before the first restart every history imputes failed rows.
ImputeUntilRestart ==
    restarts = 0 => \A k \in Regions : histories[k].missing = "IMPUTE"

\* the regions keep the tolerance they are initialized with
TolerancesKept == \A k \in Regions : regions[k].tolerance = config.tolerance

IInv ==
    /\ TypeOK /\ HistoriesTyped /\ ActiveIsLargeEnough /\ CentersAreIncumbents
    /\ TolerancesKept
    /\ ToldTyped /\ ImputeUntilRestart

\* Numbers of regions, as every configuration has them.
LEMMA ConfigFacts ==
    ASSUME config \in Configs
    PROVE  /\ config.nRegions \in Nat \ {0} /\ config.required \in Nat \ {0}
           /\ config.budget \in Nat /\ config.maxPending \in Nat
           /\ config.batch \in Nat \ {0} /\ config.frozen \in Nat \cup {Unfrozen}
           /\ 1 \in Regions /\ Regions \subseteq Nat
<1>1. config \in Config
  BY DriverAssumption
<1>2. QED
  BY <1>1 DEF Config, Regions

\* The rows of a history are points that were asked.
LEMMA RowsTyped ==
    ASSUME NEW P, NEW h \in HistoryType(P), NEW i \in DOMAIN h.rows
    PROVE  h.rows[i].input \in P /\ h.rows[i].objective \in Values \cup {Huge}
<1>1. h.rows[i] \in RowType(P)
  BY DEF HistoryType
<1>2. QED
  BY <1>1 DEF RowType

\* place_region takes an incumbent of the region's history for its center.
LEMMA PlacedIsCentered ==
    ASSUME NEW P, NEW k \in Regions, regions[k] \in RegionType(P),
           histories[k] \in HistoryType(P), Measured(histories[k]), HasUsable(k)
    PROVE  /\ Placed(k) \in RegionType(P) /\ Placed(k).length >= LengthMin
           /\ Centered(Placed(k), histories[k])
           /\ Placed(k).tolerance = regions[k].tolerance
<1> DEFINE h == histories[k]
           i == CHOOSE j \in DOMAIN h.rows : IsBest(h, j, 0)
<1>1. h.rows \in Seq(RowType(P))
  BY DEF HistoryType
<1>2. DOMAIN h.rows = 1..Len(h.rows) /\ Len(h.rows) \in Nat
  BY <1>1, LenProperties
<1>3. \E j \in DOMAIN h.rows : IsBest(h, j, 0)
  <2>1. UsableRows(h) # {} /\ Measured(h)
    BY DEF HasUsable
  <2> HIDE DEF h
  <2>2. QED
    BY <1>2, <2>1, BestExists
<1>4. i \in DOMAIN h.rows /\ IsBest(h, i, 0)
  BY <1>3
<1>5. h.rows[i].input \in P /\ h.rows[i].objective \in Int
  <2>1. h.rows[i].input \in P /\ h.rows[i].objective \in Values \cup {Huge}
    BY <1>4, RowsTyped
  <2>2. Values \cup {Huge} \subseteq Int
    BY TrustRegionAssumption
  <2> HIDE DEF i, h
  <2>3. QED
    BY <2>1, <2>2
<1>6. Placed(k) = Restart(regions[k], h.rows[i].input, h.rows[i].objective)
  BY DEF Placed
<1> HIDE DEF i, h
<1>7. /\ Placed(k) \in RegionType(P) /\ Placed(k).length = LengthInit
      /\ Placed(k).center = h.rows[i].input /\ Placed(k).centerValue = h.rows[i].objective
      /\ Placed(k).tolerance = regions[k].tolerance
  <2> DEFINE r == regions[k]
             c == h.rows[i].input
             v == h.rows[i].objective
  <2>1. r \in RegionType(P) /\ c \in P /\ v \in Int /\ Placed(k) = Restart(r, c, v)
    BY <1>5, <1>6
  <2>2. /\ Placed(k) \in RegionType(P) /\ Placed(k).length = LengthInit
        /\ Placed(k).center = c /\ Placed(k).centerValue = v
        /\ Placed(k).tolerance = r.tolerance
    <3> HIDE DEF r, c, v
    <3>1. Restart(r, c, v) \in RegionType(P)
      BY <2>1, RestartType
    <3>2. /\ Restart(r, c, v).length = LengthInit
          /\ Restart(r, c, v).center = c /\ Restart(r, c, v).centerValue = v
          /\ Restart(r, c, v).tolerance = r.tolerance
      BY DEF Restart
    <3>3. QED
      BY <2>1, <3>1, <3>2
  <2>3. QED
    BY <2>2
<1>8. Placed(k).length >= LengthMin
  BY <1>7, TrustRegionAssumption DEF LengthInit
<1>9. Centered(Placed(k), h)
  <2> DEFINE v == h.rows[i].objective
             t == regions[k].tolerance
  <2>1. /\ IsUsable(h.rows[i]) /\ v \in Int
        /\ \A j \in DOMAIN h.rows : IsUsable(h.rows[j]) =>
              /\ h.rows[j].objective \in Int /\ v <= h.rows[j].objective
              /\ j < i => v < h.rows[j].objective
    <3>1. Measured(h)
      BY DEF h
    <3>2. QED
      BY <1>4, <1>5, <3>1, BestIsEarliestLeast DEF Measured
  <2>2. t \in Nat
    BY DEF RegionType
  <2>3. \A w \in Int : v <= w => ~Clears(w, v, t)
    <3> HIDE DEF v, t
    <3>1. QED
      BY <2>1, <2>2, ClearsFacts
  <2>4. IsCenter(Placed(k), h, i)
    BY <1>4, <1>7, <2>1, <2>3 DEF IsCenter
  <2>5. QED
    BY <1>4, <2>4 DEF Centered
<1>10. QED
  BY <1>7, <1>8, <1>9 DEF h

\* A result told to an active region moves the center and the incumbent together.
LEMMA ObservedIsCentered ==
    ASSUME NEW P, NEW r \in RegionType(P), r.active, NEW p \in P, NEW a \in Result,
           NEW h, Measured(h), NEW n \in Nat, DOMAIN h.rows = 1..n, Centered(r, h),
           NEW g, Measured(g), DOMAIN g.rows = 1..(n + 1),
           \A j \in 1..n : g.rows[j] = h.rows[j], g.rows[n + 1] = ToldRow(p, a)
    PROVE  Centered(Observe(r, p, a.value), g)
<1> DEFINE o == Observe(r, p, a.value)
<1>2. PICK i \in DOMAIN h.rows : IsCenter(r, h, i)
  BY DEF Centered
<1> DEFINE c == r.centerValue
           t == r.tolerance
           v == a.value
<1>3. /\ i \in 1..n /\ IsUsable(h.rows[i])
      /\ h.rows[i].input = r.center /\ h.rows[i].objective = c
      /\ c \in Int /\ c < Huge
  BY <1>2, DriverAssumption DEF IsCenter, Measured
<1>4. /\ t \in Nat /\ v \in Int /\ NaN \notin Int /\ Huge \in Int
      /\ a.ok \in BOOLEAN /\ (~a.ok => v = Huge)
      /\ ToldRow(p, a).input = p /\ ToldRow(p, a).objective = v
      /\ IsUsable(ToldRow(p, a)) <=> a.ok
  BY ToldRowFacts, TrustRegionAssumption DEF RegionType
<1>5. /\ IF Clears(v, c, t) THEN o.center = p /\ o.centerValue = v
         ELSE o.center = r.center /\ o.centerValue = c
      /\ o.tolerance = t
  <2>1. Improves(r, v) <=> Clears(v, c, t)
    BY <1>3, <1>4, ClearsFacts
  <2>2. o.tolerance = t
    BY DEF Observe, Exhaust, Resize, Count, Failed, RegionType
  <2>3. QED
    BY <1>4, <2>1, <2>2, ObserveCenter
<1>6. \A j \in 1..n : IsUsable(g.rows[j]) =>
         /\ g.rows[j].objective \in Int
         /\ j < i => c < g.rows[j].objective
         /\ ~Clears(g.rows[j].objective, c, t)
  BY <1>2 DEF IsCenter, Measured
<1>7. /\ \A w \in Int : Clears(v, c, t) /\ ~Clears(w, c, t) => v < w
      /\ \A w \in Int : v <= w => ~Clears(w, v, t)
      /\ Clears(v, c, t) => v < c
  <2> HIDE DEF c, t, v
  <2>1. QED
    BY <1>3, <1>4, ClearsFacts
<1> HIDE DEF o, c, t, v
<1>8. CASE Clears(v, c, t)
  <2>1. a.ok /\ o.center = p /\ o.centerValue = v
    BY <1>3, <1>4, <1>5, <1>7, <1>8
  <2>2. /\ n + 1 \in DOMAIN g.rows /\ IsUsable(g.rows[n + 1])
        /\ g.rows[n + 1].input = p /\ g.rows[n + 1].objective = v
    BY <1>4, <2>1
  <2>3. ASSUME NEW j \in DOMAIN g.rows, IsUsable(g.rows[j])
        PROVE  /\ j < n + 1 => v < g.rows[j].objective
               /\ ~Clears(g.rows[j].objective, v, t)
    <3>1. CASE j = n + 1
      BY <1>4, <1>7, <2>2, <3>1
    <3>2. CASE j # n + 1
      <4>1. /\ g.rows[j].objective \in Int
            /\ v < g.rows[j].objective
        BY <1>6, <1>7, <1>8, <2>3, <3>2
      <4>2. QED
        BY <1>4, <1>7, <4>1
    <3>3. QED
      BY <3>1, <3>2
  <2>4. IsCenter(o, g, n + 1)
    BY <1>5, <2>1, <2>2, <2>3 DEF IsCenter
  <2>5. QED
    BY <2>2, <2>4 DEF Centered, o, v
<1>9. CASE ~Clears(v, c, t)
  <2>1. o.center = r.center /\ o.centerValue = c
    BY <1>5, <1>9
  <2>2. /\ i \in DOMAIN g.rows /\ IsUsable(g.rows[i])
        /\ g.rows[i].input = r.center /\ g.rows[i].objective = c
    BY <1>3
  <2>3. ASSUME NEW j \in DOMAIN g.rows, IsUsable(g.rows[j])
        PROVE  /\ j < i => c < g.rows[j].objective
               /\ ~Clears(g.rows[j].objective, c, t)
    <3>1. CASE j = n + 1
      BY <1>3, <1>4, <1>9, <3>1
    <3>2. CASE j # n + 1
      BY <1>6, <2>3, <3>2
    <3>3. QED
      BY <3>1, <3>2
  <2>4. IsCenter(o, g, i)
    BY <1>5, <2>1, <2>2, <2>3 DEF IsCenter
  <2>5. QED
    BY <2>2, <2>4 DEF Centered, o, v
<1>10. QED
  BY <1>8, <1>9

-----------------------------------------------------------------------------
\* The driver's initial state.
LEMMA InitIsTyped == Init => IInv
<1> SUFFICES ASSUME Init PROVE IInv
  OBVIOUS
<1> USE DriverAssumption, TrustRegionAssumption DEF Init
<1>1. Points = {} /\ origin = <<>> /\ pending = <<>>
  BY DEF Points
<1>2. \A k \in Regions : /\ histories[k] = DriverHistory
                       /\ regions[k] = [NewRegion EXCEPT !.tolerance = config.tolerance]
  OBVIOUS
<1>3. HistoriesTyped
  <2>1. DriverHistory \in HistoryType(Points) /\ Measured(DriverHistory)
    BY FreshHistory
  <2>2. QED
    BY <1>2, <2>1 DEF HistoriesTyped
<1>4. \A k \in Regions : histories[k].rows = <<>> /\ histories[k].missing = "IMPUTE"
  BY <1>2 DEF DriverHistory, NewHistory
<1>5. \A k \in Regions : /\ regions[k] \in RegionType(Points) /\ ~regions[k].active
                       /\ regions[k].tolerance = config.tolerance
  <2>1. config.tolerance \in Nat
    BY DEF Config
  <2>2. /\ NewRegion \in RegionType(Points) /\ ~NewRegion.active
    BY DEF NewRegion, RegionType, LengthInit
  <2>3. QED
    BY <1>2, <2>1, <2>2 DEF RegionType
<1>6. /\ ActiveIsLargeEnough /\ CentersAreIncumbents /\ ToldTyped /\ ImputeUntilRestart
      /\ TolerancesKept
  BY <1>4, <1>5 DEF ActiveIsLargeEnough, CentersAreIncumbents, Centered, ToldTyped,
                    ImputeUntilRestart, TolerancesKept
<1>7. TypeOK
  <2>1. config \in Configs /\ regions \in [Regions -> RegionType(Points)]
    BY <1>2, <1>5
  <2>2. frozenLeft \in Nat \cup {Unfrozen} /\ evaluations \in Nat /\ restarts \in Nat
    BY <2>1, ConfigFacts
  <2>3. /\ pending \in Seq([point : Points, region : Regions])
        /\ Len(pending) <= IF config.completion THEN config.maxPending ELSE config.batch
    BY <1>1, <2>1, ConfigFacts
  <2>4. origin \in Seq([region : Regions, epoch : Nat]) /\ Len(origin) <= config.budget
    BY <1>1, <2>1, ConfigFacts
  <2>5. /\ best \in [value : Values \cup {Huge}, point : Points \cup {Nowhere}]
        /\ reply \in {"OK", "NO_SURROGATE", "REFUSED", "EXHAUSTED"}
    OBVIOUS
  <2>6. \A k \in Regions : DOMAIN histories[k].rows = {}
    BY <1>4
  <2>7. QED
    BY <2>1, <2>2, <2>3, <2>4, <2>5, <2>6 DEF TypeOK
<1>8. QED
  BY <1>3, <1>6, <1>7 DEF IInv

\* The rows that TypeOK types, from the type of the histories.
LEMMA RowsAreTyped ==
    ASSUME NEW K, NEW P, NEW hs, \A k \in K : hs[k] \in HistoryType(P)
    PROVE  \A k \in K : \A i \in DOMAIN hs[k].rows :
              LET row == hs[k].rows[i]
              IN  row.input \in P /\ row.objective \in Values \cup {Huge}
BY RowsTyped

\* register_completion_pending adds one point to the asked and the pending ones.
LEMMA RegisterType ==
    ASSUME TypeOK, config.completion, HasRoom, Len(origin) < config.budget,
           UNCHANGED config, NEW k \in Regions, Register(k)
    PROVE  /\ Points \subseteq Points' /\ reply' = "OK"
           /\ pending' \in Seq([point : Points', region : Regions'])
           /\ Len(pending') <= (IF config'.completion THEN config'.maxPending
                                ELSE config'.batch)
           /\ origin' \in Seq([region : Regions', epoch : Nat])
           /\ Len(origin') <= config'.budget
<1> DEFINE asked == [region |-> k, epoch |-> Epoch(k)]
           new == [point |-> Len(origin) + 1, region |-> k]
           Ask0 == [region : Regions, epoch : Nat]
<1>1. /\ pending' = Append(pending, new) /\ origin' = Append(origin, asked)
      /\ reply' = "OK" /\ Regions' = Regions
  BY DEF Register, Regions
<1>2. asked \in Ask0
  <2>1. regions[k].restarts \in Nat
    BY DEF TypeOK, RegionType
  <2>2. Epoch(k) \in Nat
    BY <2>1 DEF Epoch
  <2>3. QED
    BY <2>2
<1>3. origin \in Seq(Ask0) /\ Len(origin) <= config.budget
  BY DEF TypeOK
<1> HIDE DEF asked, Ask0
<1>4. /\ origin' \in Seq(Ask0) /\ Len(origin') = Len(origin) + 1 /\ Len(origin) \in Nat
      /\ DOMAIN origin = 1..Len(origin) /\ DOMAIN origin' = 1..Len(origin')
  <2>1. Append(origin, asked) \in Seq(Ask0) /\ Len(Append(origin, asked)) = Len(origin) + 1
    BY <1>2, <1>3, AppendProperties
  <2>2. QED
    BY <1>1, <1>3, <2>1, LenProperties
<1>5. Points = 1..Len(origin) /\ Points' = 1..(Len(origin) + 1)
  BY <1>4 DEF Points
<1>6. Points \subseteq Points' /\ Len(origin) + 1 \in Points'
  BY <1>4, <1>5
<1> DEFINE Pend == [point : Points', region : Regions]
<1>7. pending \in Seq(Pend) /\ new \in Pend
  <2> DEFINE Old == [point : Points, region : Regions]
  <2>1. pending \in Seq(Old)
    BY DEF TypeOK
  <2>2. Old \subseteq Pend
    BY <1>6
  <2>3. new \in Pend
    BY <1>6
  <2> HIDE DEF Old, Pend, new
  <2>4. Seq(Old) \subseteq Seq(Pend)
    BY <2>2, SeqMonotonic
  <2>5. QED
    BY <2>1, <2>3, <2>4
<1> HIDE DEF Pend, new
<1>8. pending' \in Seq(Pend) /\ Len(pending') = Len(pending) + 1 /\ Len(pending) \in Nat
  <2>1. Append(pending, new) \in Seq(Pend) /\ Len(Append(pending, new)) = Len(pending) + 1
    BY <1>7, AppendProperties
  <2>2. QED
    BY <1>1, <1>7, <2>1, LenProperties
<1>9. Len(pending') <= config'.maxPending /\ Len(origin') <= config'.budget
  <2>1. Len(pending) < config.maxPending /\ Len(origin) < config.budget
    BY DEF HasRoom
  <2>2. config \in Configs
    BY DEF TypeOK
  <2>3. config.maxPending \in Nat /\ config.budget \in Nat
    BY <2>2, ConfigFacts
  <2>4. QED
    BY <1>4, <1>8, <2>1, <2>3
<1>10. QED
  BY <1>1, <1>4, <1>6, <1>8, <1>9 DEF Pend, Ask0

\* What a step does not touch stays typed while the asked points grow.
LEMMA GrowingPoints ==
    ASSUME IInv, UNCHANGED <<config, histories, evaluations, best, told>>,
           Points \subseteq Points'
    PROVE  /\ HistoriesTyped' /\ ToldTyped'
           /\ \A k \in Regions' : \A i \in DOMAIN histories'[k].rows :
                 LET row == histories'[k].rows[i]
                 IN  row.input \in Points' /\ row.objective \in Values \cup {Huge}
           /\ config' \in Configs /\ evaluations' \in Nat
           /\ best' \in [value : Values \cup {Huge}, point : Points' \cup {Nowhere}]
<1>1. Regions' = Regions
  BY DEF Regions
<1>2. HistoryType(Points) \subseteq HistoryType(Points')
  BY TypesGrow
<1>3. histories' \in [Regions -> HistoryType(Points')]
  BY <1>2 DEF IInv, HistoriesTyped
<1>4. HistoriesTyped'
  BY <1>1, <1>3 DEF IInv, HistoriesTyped
<1>5. ToldTyped'
  BY DEF IInv, ToldTyped
<1>6. \A k \in Regions : histories'[k] \in HistoryType(Points')
  BY <1>3
<1>7. \A k \in Regions : \A i \in DOMAIN histories'[k].rows :
         LET row == histories'[k].rows[i]
         IN  row.input \in Points' /\ row.objective \in Values \cup {Huge}
  <2> SUFFICES ASSUME NEW k \in Regions, NEW i \in DOMAIN histories'[k].rows
               PROVE  LET row == histories'[k].rows[i]
                      IN  row.input \in Points' /\ row.objective \in Values \cup {Huge}
    OBVIOUS
  <2>1. PICK h, P : h = histories'[k] /\ P = Points'
    OBVIOUS
  <2>2. h \in HistoryType(P) /\ i \in DOMAIN h.rows
    BY <1>6, <2>1
  <2>3. h.rows[i].input \in P /\ h.rows[i].objective \in Values \cup {Huge}
    BY <2>2, RowsTyped
  <2>4. QED
    BY <2>1, <2>3
<1>8. best' \in [value : Values \cup {Huge}, point : Points' \cup {Nowhere}]
  <2>1. best \in [value : Values \cup {Huge}, point : Points \cup {Nowhere}]
    BY DEF IInv, TypeOK
  <2>2. QED
    BY <2>1
<1>9. config' \in Configs /\ evaluations' \in Nat
  BY DEF IInv, TypeOK
<1>10. QED
  BY <1>1, <1>4, <1>5, <1>7, <1>8, <1>9

\* A design point goes to a region, and leaves the region as it is.
LEMMA AskDesignInv == IInv /\ AskDesign => IInv'
<1> SUFFICES ASSUME IInv, AskDesign PROVE IInv'
  OBVIOUS
<1>1. PICK k \in Regions : Register(k)
  BY DEF AskDesign
<1>2. /\ UNCHANGED <<config, regions, histories, evaluations, restarts, best, told>>
      /\ config.completion /\ HasRoom /\ Len(origin) < config.budget
      /\ frozenLeft # 0
      /\ frozenLeft' = IF frozenLeft = Unfrozen THEN Unfrozen ELSE frozenLeft - 1
  BY DEF AskDesign, MayAsk
<1>3. /\ Points \subseteq Points' /\ reply' = "OK"
      /\ pending' \in Seq([point : Points', region : Regions'])
      /\ Len(pending') <= IF config'.completion THEN config'.maxPending
                          ELSE config'.batch
      /\ origin' \in Seq([region : Regions', epoch : Nat])
      /\ Len(origin') <= config'.budget
  BY <1>1, <1>2, RegisterType DEF IInv
<1>4. /\ HistoriesTyped' /\ ToldTyped'
      /\ \A j \in Regions' : \A i \in DOMAIN histories'[j].rows :
            LET row == histories'[j].rows[i]
            IN  row.input \in Points' /\ row.objective \in Values \cup {Huge}
      /\ config' \in Configs /\ evaluations' \in Nat
      /\ best' \in [value : Values \cup {Huge}, point : Points' \cup {Nowhere}]
  BY <1>2, <1>3, GrowingPoints
<1>5. regions' \in [Regions' -> RegionType(Points')]
  <2>1. regions \in [Regions -> RegionType(Points)] /\ Regions' = Regions
    BY <1>2 DEF IInv, TypeOK, Regions
  <2>2. RegionType(Points) \subseteq RegionType(Points')
    BY <1>3, TypesGrow
  <2>3. QED
    BY <1>2, <2>1, <2>2
<1>6. frozenLeft' \in Nat \cup {Unfrozen} /\ restarts' \in Nat
  <2>1. frozenLeft \in Nat \cup {Unfrozen} /\ restarts \in Nat
    BY DEF IInv, TypeOK
  <2>2. QED
    BY <1>2, <2>1
<1>7. TypeOK'
  BY <1>3, <1>4, <1>5, <1>6 DEF TypeOK
<1>8. /\ ActiveIsLargeEnough' /\ CentersAreIncumbents' /\ ImputeUntilRestart'
      /\ TolerancesKept'
  BY <1>2 DEF IInv, ActiveIsLargeEnough, CentersAreIncumbents, ImputeUntilRestart,
              TolerancesKept, Regions
<1>9. QED
  BY <1>4, <1>7, <1>8 DEF IInv

\* A bandit draw places every region of the pool that has no center.
LEMMA AskBanditInv == IInv /\ AskBandit => IInv'
<1> SUFFICES ASSUME IInv, AskBandit PROVE IInv'
  OBVIOUS
<1>1. PICK c \in Pool : Register(c)
  BY DEF AskBandit
<1>2. /\ UNCHANGED <<config, histories, frozenLeft, evaluations, restarts, best, told>>
      /\ config.completion /\ HasRoom /\ Len(origin) < config.budget
      /\ regions' = [k \in Regions |->
                       IF k \in Pool /\ ~regions[k].active THEN Placed(k)
                       ELSE regions[k]]
  BY DEF AskBandit, MayAsk
<1>3. /\ Points \subseteq Points' /\ reply' = "OK"
      /\ pending' \in Seq([point : Points', region : Regions'])
      /\ Len(pending') <= IF config'.completion THEN config'.maxPending
                          ELSE config'.batch
      /\ origin' \in Seq([region : Regions', epoch : Nat])
      /\ Len(origin') <= config'.budget
  <2>1. c \in Regions
    BY DEF Pool
  <2>2. QED
    BY <1>1, <1>2, <2>1, RegisterType DEF IInv
<1>4. /\ HistoriesTyped' /\ ToldTyped'
      /\ \A j \in Regions' : \A i \in DOMAIN histories'[j].rows :
            LET row == histories'[j].rows[i]
            IN  row.input \in Points' /\ row.objective \in Values \cup {Huge}
      /\ config' \in Configs /\ evaluations' \in Nat
      /\ best' \in [value : Values \cup {Huge}, point : Points' \cup {Nowhere}]
  BY <1>2, <1>3, GrowingPoints
<1>5. /\ Regions' = Regions /\ histories' = histories
      /\ regions \in [Regions -> RegionType(Points)]
      /\ RegionType(Points) \subseteq RegionType(Points')
  BY <1>2, <1>3, TypesGrow DEF IInv, TypeOK, Regions
<1>6. ASSUME NEW k \in Regions
      PROVE  /\ regions'[k] \in RegionType(Points')
             /\ regions'[k].active => regions'[k].length >= LengthMin
             /\ Centered(regions'[k], histories[k])
             /\ regions'[k].tolerance = config.tolerance
  <2>1. CASE k \in Pool /\ ~regions[k].active
    <3>1. regions'[k] = Placed(k) /\ HasUsable(k)
      BY <1>2, <2>1 DEF Pool, HasSurrogate
    <3>2. /\ regions[k] \in RegionType(Points)
          /\ histories[k] \in HistoryType(Points) /\ Measured(histories[k])
      BY <1>5 DEF IInv, HistoriesTyped
    <3>3. /\ Placed(k) \in RegionType(Points) /\ Placed(k).length >= LengthMin
          /\ Centered(Placed(k), histories[k])
          /\ Placed(k).tolerance = regions[k].tolerance
      BY <3>1, <3>2, PlacedIsCentered
    <3>4. QED
      BY <1>5, <3>1, <3>3 DEF IInv, TolerancesKept
  <2>2. CASE ~(k \in Pool /\ ~regions[k].active)
    <3>1. regions'[k] = regions[k]
      BY <1>2, <2>2
    <3>2. QED
      BY <1>5, <3>1 DEF IInv, ActiveIsLargeEnough, CentersAreIncumbents, TolerancesKept
  <2>3. QED
    BY <2>1, <2>2
<1>7. regions' \in [Regions' -> RegionType(Points')]
  BY <1>2, <1>5, <1>6
<1>8. ActiveIsLargeEnough' /\ CentersAreIncumbents' /\ TolerancesKept'
  BY <1>2, <1>5, <1>6 DEF ActiveIsLargeEnough, CentersAreIncumbents, TolerancesKept
<1>9. frozenLeft' \in Nat \cup {Unfrozen} /\ restarts' \in Nat
  BY <1>2 DEF IInv, TypeOK
<1>10. TypeOK'
  BY <1>3, <1>4, <1>7, <1>9 DEF TypeOK
<1>11. ImputeUntilRestart'
  BY <1>2, <1>5 DEF IInv, ImputeUntilRestart
<1>12. QED
  BY <1>4, <1>8, <1>10, <1>11 DEF IInv

\* Steps that only answer the caller or take a point out of the pending ones.
LEMMA AnswerOnlyInv ==
    ASSUME IInv, UNCHANGED <<config, regions, histories, frozenLeft, evaluations, restarts,
                             best, origin, told>>,
           \/ pending' = pending
           \/ \E i \in DOMAIN pending : pending' = Without(i),
           reply' \in {"OK", "NO_SURROGATE", "REFUSED", "EXHAUSTED"}
    PROVE  IInv'
<1>1. Points' = Points /\ Regions' = Regions
  BY DEF Points, Regions
<1>2. /\ pending' \in Seq([point : Points, region : Regions])
      /\ Len(pending') <= IF config.completion THEN config.maxPending ELSE config.batch
  <2>1. /\ pending \in Seq([point : Points, region : Regions])
        /\ Len(pending) <= IF config.completion THEN config.maxPending ELSE config.batch
        /\ config \in Configs
    BY DEF IInv, TypeOK
  <2>2. CASE pending' = pending
    BY <2>1, <2>2
  <2>3. ASSUME NEW i \in DOMAIN pending, pending' = Without(i)
        PROVE  /\ pending' \in Seq([point : Points, region : Regions])
               /\ Len(pending') <= IF config.completion THEN config.maxPending
                                   ELSE config.batch
    <3> DEFINE S == [point : Points, region : Regions]
    <3>1. pending' = RemoveAt(pending, i) /\ pending \in Seq(S)
      BY <2>1, <2>3 DEF Without
    <3> HIDE DEF S
    <3>2. pending' \in Seq(S) /\ Len(pending') = Len(pending) - 1 /\ Len(pending) \in Nat
      BY <3>1, RemoveAtType
    <3>3. config.maxPending \in Nat /\ config.batch \in Nat
      BY <2>1, ConfigFacts
    <3>4. Len(pending') <= IF config.completion THEN config.maxPending ELSE config.batch
      BY <2>1, <3>2, <3>3
    <3>5. QED
      BY <3>2, <3>4 DEF S
  <2>4. QED
    BY <2>2, <2>3
<1>3. TypeOK'
  BY <1>1, <1>2 DEF IInv, TypeOK
<1>4. HistoriesTyped' /\ ToldTyped' /\ ImputeUntilRestart'
  BY <1>1 DEF IInv, HistoriesTyped, ToldTyped, ImputeUntilRestart
<1>5. ActiveIsLargeEnough' /\ CentersAreIncumbents' /\ TolerancesKept'
  BY <1>1 DEF IInv, ActiveIsLargeEnough, CentersAreIncumbents, TolerancesKept
<1>6. QED
  BY <1>3, <1>4, <1>5 DEF IInv

-----------------------------------------------------------------------------
\* The pieces of an accepted tell: the region k, the point, the history g that the
\* row makes and the region o that has observed the value.
LEMMA AcceptedShape ==
    ASSUME IInv, NEW i \in DOMAIN pending, NEW a \in Answers
    PROVE  /\ a \in Result
           /\ RegionOf(i) \in Regions /\ pending[i].point \in Points
           /\ histories[RegionOf(i)] \in HistoryType(Points)
           /\ Measured(histories[RegionOf(i)])
           /\ regions[RegionOf(i)] \in RegionType(Points)
<1>1. pending \in Seq([point : Points, region : Regions])
  BY DEF IInv, TypeOK
<1>2. pending[i] \in [point : Points, region : Regions]
  <2> DEFINE S == [point : Points, region : Regions]
  <2>1. pending \in Seq(S)
    BY <1>1
  <2> HIDE DEF S
  <2>2. pending[i] \in S
    BY <2>1
  <2>3. QED
    BY <2>2 DEF S
<1>3. pending[i].point \in Points /\ RegionOf(i) \in Regions
  BY <1>2 DEF RegionOf
<1>4. QED
  BY <1>3, AnswersAreResults DEF IInv, TypeOK, HistoriesTyped

\* A result is refused only by a history that refuses failed rows.
LEMMA RefusedShape ==
    ASSUME NEW P, NEW h \in HistoryType(P), NEW p \in P, NEW a \in Result
    PROVE  /\ ~Recorded(h, p, a).ok => h.missing = "REFUSE"
           /\ Recorded(h, p, a).ok =>
                 Recorded(h, p, a).h = [h EXCEPT !.rows = Append(h.rows, ToldRow(p, a))]
<1>1. Recorded(h, p, a) = IF ~a.ok /\ h.missing = "REFUSE" THEN Refused(h)
                          ELSE Accepted(h, Append(h.rows, ToldRow(p, a)))
  BY RecordedShape
<1>2. QED
  BY <1>1 DEF Refused, Accepted

\* What an accepted tell leaves of the region and the history it concerns.
LEMMA AcceptedRegion ==
    ASSUME NEW P, NEW r \in RegionType(P), r.active => r.length >= LengthMin,
           NEW h \in HistoryType(P), Measured(h), Centered(r, h), NEW p \in P,
           NEW a \in Result, Recorded(h, p, a).ok,
           NEW o, o = IF r.active THEN Observe(r, p, a.value) ELSE r,
           NEW g, g = IF Collapses(r, o) THEN Cleared(Recorded(h, p, a).h)
                      ELSE Recorded(h, p, a).h
    PROVE  /\ o \in RegionType(P) /\ (o.active => o.length >= LengthMin)
           /\ g \in HistoryType(P) /\ Measured(g) /\ Centered(o, g)
           /\ ~Collapses(r, o) => g.missing = h.missing
           /\ o.tolerance = r.tolerance
<1> DEFINE u == [h EXCEPT !.rows = Append(h.rows, ToldRow(p, a))]
           n == Len(h.rows)
<1>1. Recorded(h, p, a).h = u
  <2>1. Recorded(h, p, a).ok =>
           Recorded(h, p, a).h = [h EXCEPT !.rows = Append(h.rows, ToldRow(p, a))]
    BY RefusedShape
  <2>2. QED
    BY <2>1, Zenon
<1>2. /\ u \in HistoryType(P) /\ Measured(u) /\ u.missing = h.missing
      /\ DOMAIN h.rows = 1..n /\ n \in Nat /\ DOMAIN u.rows = 1..(n + 1)
      /\ \A j \in 1..n : u.rows[j] = h.rows[j]
      /\ u.rows[n + 1] = ToldRow(p, a)
  BY AppendedHistory
<1> HIDE DEF u, n
<1>3. g = IF Collapses(r, o) THEN NewHistory ELSE u
  BY <1>1 DEF Cleared
<1>4. NewHistory \in HistoryType(P) /\ Measured(NewHistory)
  BY FreshHistory
<1>5. g \in HistoryType(P) /\ Measured(g) /\ (~Collapses(r, o) => g.missing = h.missing)
  BY <1>2, <1>3, <1>4
<1>6. CASE r.active
  <2>1. o = Observe(r, p, a.value)
    BY <1>6
  <2>2. PICK v \in Int \cup {NaN} : v = a.value
    BY ToldRowFacts
  <2>3. /\ o \in RegionType(P) /\ (o.active <=> o.length >= LengthMin)
        /\ o.tolerance = r.tolerance
    <3>1. r.length >= LengthMin
      BY <1>6
    <3>2. /\ Observe(r, p, v) \in RegionType(P)
          /\ Observe(r, p, v).active <=> Observe(r, p, v).length >= LengthMin
          /\ Observe(r, p, v).tolerance = r.tolerance
      BY <1>6, <3>1, ObserveType
    <3>3. o = Observe(r, p, v)
      BY <2>1, <2>2
    <3>4. QED
      BY <3>2, <3>3, Zenon
  <2>4. Centered(Observe(r, p, a.value), u)
    BY <1>2, <1>6, ObservedIsCentered
  <2>5. Collapses(r, o) <=> ~o.active
    BY <1>6 DEF Collapses
  <2>6. Centered(o, g)
    BY <1>3, <2>1, <2>4, <2>5 DEF Centered
  <2>7. QED
    BY <1>5, <2>1, <2>3, <2>6
<1>7. CASE ~r.active
  BY <1>5, <1>7 DEF Centered
<1>8. QED
  BY <1>6, <1>7

\* An accepted tell, with every piece of state it writes.
LEMMA TellAcceptedInv ==
    ASSUME IInv, NEW i \in DOMAIN pending, NEW a \in Answers, TellAccepted(i, a)
    PROVE  IInv'
<1> DEFINE k == RegionOf(i)
           point == pending[i].point
           r == Recorded(histories[k], point, a)
           o == IF regions[k].active THEN Observe(regions[k], point, a.value)
                ELSE regions[k]
           collapsed == Collapses(regions[k], o)
           g == IF collapsed THEN Cleared(r.h) ELSE r.h
           answer == <<point, IF a.ok THEN a.value ELSE Missing>>
<1>1. /\ r.ok /\ pending' = Without(i) /\ reply' = "OK"
      /\ best' = Better(best, point, a) /\ evaluations' = evaluations + 1
      /\ regions' = [regions EXCEPT ![k] = o]
      /\ histories' = [histories EXCEPT ![k] = g]
      /\ restarts' = (IF collapsed THEN restarts + 1 ELSE restarts)
      /\ told' = told \cup {answer}
      /\ UNCHANGED <<config, frozenLeft, origin>>
  BY DEF TellAccepted
<1>2. /\ a \in Result /\ k \in Regions /\ point \in Points
      /\ histories[k] \in HistoryType(Points) /\ Measured(histories[k])
      /\ regions[k] \in RegionType(Points)
  BY AcceptedShape
<1>3. /\ regions[k].active => regions[k].length >= LengthMin
      /\ Centered(regions[k], histories[k])
  BY <1>2 DEF IInv, ActiveIsLargeEnough, CentersAreIncumbents
<1>4. /\ o \in RegionType(Points) /\ (o.active => o.length >= LengthMin)
      /\ g \in HistoryType(Points) /\ Measured(g) /\ Centered(o, g)
      /\ ~collapsed => g.missing = histories[k].missing
      /\ o.tolerance = regions[k].tolerance
  <2> DEFINE rk == regions[k]
             hk == histories[k]
  <2>1. /\ rk \in RegionType(Points) /\ (rk.active => rk.length >= LengthMin)
        /\ hk \in HistoryType(Points) /\ Measured(hk) /\ Centered(rk, hk)
        /\ point \in Points /\ a \in Result /\ Recorded(hk, point, a).ok
    BY <1>1, <1>2, <1>3
  <2>2. /\ o = IF rk.active THEN Observe(rk, point, a.value) ELSE rk
        /\ g = IF Collapses(rk, o) THEN Cleared(Recorded(hk, point, a).h)
               ELSE Recorded(hk, point, a).h
        /\ collapsed <=> Collapses(rk, o)
    OBVIOUS
  <2> HIDE DEF rk, hk, point, o, g, collapsed
  <2>3. /\ o \in RegionType(Points) /\ (o.active => o.length >= LengthMin)
        /\ g \in HistoryType(Points) /\ Measured(g) /\ Centered(o, g)
        /\ ~Collapses(rk, o) => g.missing = hk.missing
        /\ o.tolerance = rk.tolerance
    BY <2>1, <2>2, AcceptedRegion
  <2>4. QED
    BY <2>2, <2>3 DEF rk, hk
<1>5. Points' = Points /\ Regions' = Regions
  BY <1>1 DEF Points, Regions
<1>6. /\ regions \in [Regions -> RegionType(Points)]
      /\ histories \in [Regions -> HistoryType(Points)]
      /\ restarts \in Nat /\ evaluations \in Nat
  BY DEF IInv, TypeOK, HistoriesTyped
<1>7. a.ok => a.value \in Values
  BY <1>2, ToldRowFacts
<1> HIDE DEF k, point, o, g, collapsed, r
<1>8. /\ regions' \in [Regions' -> RegionType(Points')]
      /\ histories' \in [Regions' -> HistoryType(Points')]
  BY <1>1, <1>2, <1>4, <1>5, <1>6
<1>9. \A j \in Regions : /\ regions'[j] = IF j = k THEN o ELSE regions[j]
                         /\ histories'[j] = IF j = k THEN g ELSE histories[j]
  BY <1>1, <1>6
<1>10. HistoriesTyped'
  BY <1>4, <1>5, <1>8, <1>9 DEF IInv, HistoriesTyped
<1>11. ActiveIsLargeEnough' /\ CentersAreIncumbents' /\ TolerancesKept'
  BY <1>1, <1>4, <1>5, <1>9 DEF IInv, ActiveIsLargeEnough, CentersAreIncumbents,
                                TolerancesKept
<1>12. ToldTyped'
  <2>1. answer \in Points \X (Values \cup {Missing})
    BY <1>2, <1>7
  <2>2. QED
    BY <1>1, <1>5, <2>1 DEF IInv, ToldTyped
<1>13. ImputeUntilRestart'
  <2> SUFFICES ASSUME restarts' = 0, NEW j \in Regions
               PROVE  histories'[j].missing = "IMPUTE"
    BY <1>5 DEF ImputeUntilRestart
  <2>1. ~collapsed /\ restarts = 0
    BY <1>1, <1>6
  <2>2. histories[j].missing = "IMPUTE" /\ histories[k].missing = "IMPUTE"
    BY <1>2, <2>1 DEF IInv, ImputeUntilRestart
  <2>3. QED
    BY <1>4, <1>9, <2>1, <2>2
<1>14. TypeOK'
  <2>1. /\ pending' \in Seq([point : Points', region : Regions'])
        /\ Len(pending') <= IF config'.completion THEN config'.maxPending
                            ELSE config'.batch
    <3> DEFINE S == [point : Points, region : Regions]
    <3>1. /\ pending' = RemoveAt(pending, i) /\ pending \in Seq(S)
          /\ Len(pending) <= IF config.completion THEN config.maxPending ELSE config.batch
          /\ config \in Configs
      BY <1>1 DEF Without, IInv, TypeOK
    <3> HIDE DEF S
    <3>2. pending' \in Seq(S) /\ Len(pending') = Len(pending) - 1 /\ Len(pending) \in Nat
      BY <3>1, RemoveAtType
    <3>3. config.maxPending \in Nat /\ config.batch \in Nat
      BY <3>1, ConfigFacts
    <3>4. Len(pending') <= IF config.completion THEN config.maxPending ELSE config.batch
      BY <3>1, <3>2, <3>3
    <3>5. QED
      BY <1>1, <1>5, <3>2, <3>4 DEF S
  <2>2. \A j \in Regions' : \A m \in DOMAIN histories'[j].rows :
           LET row == histories'[j].rows[m]
           IN  row.input \in Points' /\ row.objective \in Values \cup {Huge}
    <3>1. \A j \in Regions' : histories'[j] \in HistoryType(Points')
      BY <1>8
    <3>2. QED
      BY <3>1, RowsAreTyped
  <2>3. best' \in [value : Values \cup {Huge}, point : Points' \cup {Nowhere}]
    <3>1. best \in [value : Values \cup {Huge}, point : Points \cup {Nowhere}]
      BY DEF IInv, TypeOK
    <3>2. QED
      BY <1>1, <1>2, <1>5, <1>7, <3>1 DEF Better
  <2>4. /\ config' \in Configs /\ origin' \in Seq([region : Regions', epoch : Nat])
        /\ Len(origin') <= config'.budget /\ frozenLeft' \in Nat \cup {Unfrozen}
    BY <1>1, <1>5 DEF IInv, TypeOK
  <2>5. evaluations' \in Nat /\ restarts' \in Nat
    BY <1>1, <1>6
  <2>6. QED
    BY <1>1, <1>8, <2>1, <2>2, <2>3, <2>4, <2>5 DEF TypeOK
<1>15. QED
  BY <1>10, <1>11, <1>12, <1>13, <1>14 DEF IInv

\* Every step of the driver, and none at all, preserves the inductive invariant.
LEMMA StepInv == IInv /\ [Next]_vars => IInv'
<1> SUFFICES ASSUME IInv, [Next]_vars PROVE IInv'
  OBVIOUS
<1>1. CASE AskDesign
  BY <1>1, AskDesignInv
<1>2. CASE AskBandit
  BY <1>2, AskBanditInv
<1>3. CASE AskExhausted
  BY <1>3, AnswerOnlyInv DEF AskExhausted
<1>4. CASE AskNoSurrogate
  BY <1>4, AnswerOnlyInv DEF AskNoSurrogate
<1>5. ASSUME NEW i \in DOMAIN pending, NEW a \in Answers, TellAccepted(i, a)
      PROVE  IInv'
  BY <1>5, TellAcceptedInv
<1>6. ASSUME NEW i \in DOMAIN pending, NEW a \in Answers, TellRefused(i, a)
      PROVE  IInv'
  BY <1>6, AnswerOnlyInv DEF TellRefused
<1>7. CASE UNCHANGED vars
  <2>1. reply \in {"OK", "NO_SURROGATE", "REFUSED", "EXHAUSTED"}
    BY DEF IInv, TypeOK
  <2>2. QED
    BY <1>7, <2>1, AnswerOnlyInv DEF vars
<1>8. QED
  BY <1>1, <1>2, <1>3, <1>4, <1>5, <1>6, <1>7 DEF Next, Ask, Tell

\* The inductive invariant holds in every state of the completion-driven driver.
THEOREM Invariance == Spec => []IInv
<1>1. Init => IInv
  BY InitIsTyped
<1>2. IInv /\ [Next]_vars => IInv'
  BY StepInv
<1>3. QED
  BY <1>1, <1>2, PTL DEF Spec

-----------------------------------------------------------------------------
\* Type correctness of the driver, fortbo_turbo_driver.f90: for every budget,
\* number of regions, tolerance and limit of points in flight, no ask or tell
\* leaves the ranges of the types, and the pending points never exceed max_pending.
THEOREM TypeCorrect == Spec => []TypeOK
<1>1. IInv => TypeOK
  BY DEF IInv
<1>2. QED
  BY <1>1, Invariance, PTL

\* The geometry and the data of a region stay in step: whatever the order of the
\* answers, the failures among them, the restarts and the improvement tolerance, the
\* center of an active region is a usable row of its own history, better than every
\* one before, and no later one clears it (place_region, observe_region).
THEOREM CenterFollowsHistory == Spec => []CenterIsHistoryIncumbent
<1>1. IInv => CenterIsHistoryIncumbent
  <2> SUFFICES ASSUME IInv, NEW k \in Regions, regions[k].active
               PROVE  LET rows == histories[k].rows
                          center == regions[k].centerValue
                      IN  \E i \in UsableRows(histories[k]) :
                            /\ rows[i].input = regions[k].center
                            /\ rows[i].objective = center
                            /\ \A j \in UsableRows(histories[k]) :
                                  /\ j < i => center < rows[j].objective
                                  /\ ~Clears(rows[j].objective, center, config.tolerance)
    BY DEF CenterIsHistoryIncumbent
  <2>1. PICK i \in DOMAIN histories[k].rows : IsCenter(regions[k], histories[k], i)
    BY DEF IInv, CentersAreIncumbents, Centered
  <2>2. i \in UsableRows(histories[k]) /\ regions[k].tolerance = config.tolerance
    BY <2>1 DEF IInv, IsCenter, UsableRows, TolerancesKept
  <2>3. QED
    BY <2>1, <2>2 DEF IsCenter, UsableRows
<1>2. QED
  BY <1>1, Invariance, PTL

\* The completion-driven driver never tells its caller to wait when nothing is in
\* flight (fortbo_turbo_driver.f90: no_surrogate_yet): a region whose design is full
\* and usable but that has no surrogate has points pending.
THEOREM WaitIsNeverForNothing == Spec => []WaitsOnlyForPending
<1>1. Init => WaitsOnlyForPending
  BY DEF Init, WaitsOnlyForPending
<1>2. ASSUME IInv, WaitsOnlyForPending, [Next]_vars PROVE WaitsOnlyForPending'
  <2>1. CASE AskNoSurrogate
    <3>1. /\ \A k \in Regions : ~NeedsDesign(k)
          /\ Pool = {} /\ pending' = pending /\ config \in Configs
      BY <1>2, <2>1 DEF AskNoSurrogate, IInv, TypeOK
    <3>2. 1 \in Regions
      BY <3>1, ConfigFacts
    <3>3. /\ ~(Have(1) < config.required) /\ HasUsable(1)
          /\ ~(Len(histories[1].rows) >= config.required)
      BY <3>1, <3>2 DEF NeedsDesign, Pool, HasSurrogate
    <3>4. ASSUME pending = <<>> PROVE FALSE
      <4>1. {i \in DOMAIN pending : pending[i].region = 1} = {}
        BY <3>4
      <4>2. InFlight(1) = 0
        BY <4>1, FS_EmptySet DEF InFlight
      <4>3. Len(histories[1].rows) \in Nat
        <5>1. histories[1] \in HistoryType(Points)
          BY <1>2, <3>2 DEF IInv, HistoriesTyped
        <5>2. histories[1].rows \in Seq(RowType(Points))
          BY <5>1 DEF HistoryType
        <5>3. QED
          BY <5>2, LenProperties
      <4>4. config.required \in Nat
        BY <3>1, ConfigFacts
      <4>5. QED
        BY <3>3, <4>2, <4>3, <4>4 DEF Have
    <3>5. QED
      BY <3>1, <3>4 DEF WaitsOnlyForPending
  <2>2. CASE UNCHANGED vars
    BY <1>2, <2>2 DEF vars, WaitsOnlyForPending
  <2>3. CASE AskDesign \/ AskExhausted \/ AskBandit \/ Tell
    <3>1. reply' # "NO_SURROGATE"
      BY <2>3 DEF AskDesign, AskExhausted, AskBandit, Register, Tell, TellAccepted,
                  TellRefused
    <3>2. QED
      BY <3>1 DEF WaitsOnlyForPending
  <2>4. QED
    BY <1>2, <2>1, <2>2, <2>3 DEF Next, Ask
<1>3. QED
  BY <1>1, <1>2, Invariance, PTL DEF Spec

\* As long as no region has restarted, a failed evaluation is accepted: the driver
\* refuses a result only after restart_region has dropped the missing policy.
THEOREM RefusalsFollowRestarts == Spec => []FailuresAcceptedBeforeRestart
<1>1. Init => FailuresAcceptedBeforeRestart
  BY DEF Init, FailuresAcceptedBeforeRestart
<1>2. ASSUME IInv, FailuresAcceptedBeforeRestart, [Next]_vars
      PROVE  FailuresAcceptedBeforeRestart'
  <2>1. restarts \in Nat
    BY <1>2 DEF IInv, TypeOK
  <2>2. ASSUME NEW i \in DOMAIN pending, NEW a \in Answers, TellRefused(i, a)
        PROVE  restarts' > 0
    <3>1. /\ ~Recorded(histories[RegionOf(i)], pending[i].point, a).ok
          /\ restarts' = restarts
      BY <2>2 DEF TellRefused
    <3>2. /\ a \in Result /\ RegionOf(i) \in Regions /\ pending[i].point \in Points
          /\ histories[RegionOf(i)] \in HistoryType(Points)
      BY <1>2, AcceptedShape
    <3>3. histories[RegionOf(i)].missing = "REFUSE"
      BY <3>1, <3>2, RefusedShape
    <3>4. restarts # 0
      BY <1>2, <3>2, <3>3 DEF IInv, ImputeUntilRestart
    <3>5. QED
      BY <2>1, <3>1, <3>4
  <2>3. ASSUME NEW i \in DOMAIN pending, NEW a \in Answers, TellAccepted(i, a)
        PROVE  reply' # "REFUSED"
    BY <2>3 DEF TellAccepted
  <2>4. CASE Ask
    BY <2>4 DEF Ask, AskDesign, AskExhausted, AskBandit, AskNoSurrogate, Register,
                FailuresAcceptedBeforeRestart
  <2>5. CASE UNCHANGED vars
    BY <1>2, <2>5 DEF vars, FailuresAcceptedBeforeRestart
  <2>6. QED
    BY <1>2, <2>2, <2>3, <2>4, <2>5 DEF Next, Tell, FailuresAcceptedBeforeRestart
<1>3. QED
  BY <1>1, <1>2, Invariance, PTL DEF Spec

\* The best value and point of the driver are those of all told results, of every
\* region and of the histories that restarts have discarded.
THEOREM BestOutlivesRestarts == Spec => []BestIsGlobal
<1>1. Init => BestIsGlobal
  BY DEF Init, BestIsGlobal
<1>2. ASSUME IInv, BestIsGlobal, [Next]_vars PROVE BestIsGlobal'
  <2>1. ASSUME NEW i \in DOMAIN pending, NEW a \in Answers, TellAccepted(i, a)
        PROVE  BestIsGlobal'
    <3> DEFINE point == pending[i].point
               value == IF a.ok THEN a.value ELSE Missing
    <3>1. best' = Better(best, point, a) /\ told' = told \cup {<<point, value>>}
      BY <2>1 DEF TellAccepted
    <3>2. a.value \in Int
      <4>1. a \in Result /\ point \in Points
        BY <1>2, AcceptedShape
      <4>2. QED
        BY <4>1, ToldRowFacts
    <3>3. best.value \in Int /\ \A t \in told : t[2] # Missing => t[2] \in Int
      <4>1. best.value \in Values \cup {Huge}
        BY <1>2 DEF IInv, TypeOK
      <4>2. Values \cup {Huge} \subseteq Int
        BY TrustRegionAssumption
      <4>3. \A t \in told : t[2] \in Values \cup {Missing}
        BY <1>2 DEF IInv, ToldTyped
      <4>4. QED
        BY <4>1, <4>2, <4>3
    <3> HIDE DEF point
    <3>4. CASE a.ok /\ a.value < best.value
      <4>1. /\ best'.value = a.value /\ best'.point = point
            /\ told' = told \cup {<<point, a.value>>}
        BY <3>1, <3>4 DEF Better
      <4>2. \A t \in told : t[2] # Missing => best'.value <= t[2]
        BY <1>2, <3>2, <3>3, <3>4, <4>1 DEF BestIsGlobal
      <4>3. best'.value <= a.value
        BY <3>2, <3>4, <4>1
      <4>4. QED
        BY <4>1, <4>2, <4>3 DEF BestIsGlobal
    <3>5. CASE ~(a.ok /\ a.value < best.value)
      <4>1. best' = best
        BY <3>1, <3>5 DEF Better
      <4>2. value # Missing => best.value <= value
        BY <3>2, <3>3, <3>5
      <4>3. QED
        BY <1>2, <3>1, <4>1, <4>2 DEF BestIsGlobal
    <3>6. QED
      BY <3>4, <3>5
  <2>2. ASSUME NEW i \in DOMAIN pending, NEW a \in Answers, TellRefused(i, a)
        PROVE  BestIsGlobal'
    BY <1>2, <2>2 DEF TellRefused, BestIsGlobal
  <2>3. CASE Ask
    BY <1>2, <2>3 DEF Ask, AskDesign, AskExhausted, AskBandit, AskNoSurrogate,
                      BestIsGlobal
  <2>4. CASE UNCHANGED vars
    BY <1>2, <2>4 DEF vars, BestIsGlobal
  <2>5. QED
    BY <1>2, <2>1, <2>2, <2>3, <2>4 DEF Next, Tell
<1>3. QED
  BY <1>1, <1>2, Invariance, PTL DEF Spec

-----------------------------------------------------------------------------
\* Every pending point is pending once, and in the region that proposed it.
DistinctPoints(q) == \A i, j \in DOMAIN q : q[i].point = q[j].point => i = j

\* What is left of a list of distinct points when one of them is taken out.
LEMMA WithoutOne ==
    ASSUME NEW S, NEW s \in Seq(S), DistinctPoints(s), NEW i \in DOMAIN s,
           NEW q, q = RemoveAt(s, i)
    PROVE  /\ DistinctPoints(q)
           /\ Range(q) = Range(s) \ {s[i]}
           /\ \A j \in DOMAIN s : s[j].point = s[i].point => j = i
<1>0. IsWithout(S, s, i, q)
  BY RemoveAtElements
<1> DEFINE at(j) == IF j < i THEN j ELSE j + 1
<1>1. /\ DOMAIN q = 1..(Len(s) - 1) /\ Len(s) \in Nat /\ i \in 1..Len(s)
      /\ \A j \in 1..(Len(s) - 1) : q[j] = s[at(j)]
      /\ DOMAIN s = 1..Len(s)
  BY <1>0 DEF IsWithout
<1>2. \A j \in DOMAIN q : at(j) \in DOMAIN s /\ at(j) # i
  BY <1>1
<1>3. \A j, k \in DOMAIN q : at(j) = at(k) => j = k
  BY <1>1
<1>4. ASSUME NEW m \in DOMAIN s, m # i
      PROVE  \E j \in DOMAIN q : at(j) = m
  <2>1. CASE m < i
    <3>1. m \in DOMAIN q /\ at(m) = m
      BY <1>1, <2>1
    <3>2. QED
      BY <3>1
  <2>2. CASE m > i
    <3>1. m - 1 \in DOMAIN q /\ at(m - 1) = m
      BY <1>1, <2>2
    <3>2. QED
      BY <3>1
  <2>3. QED
    BY <1>1, <1>4, <2>1, <2>2
<1>5. \A j \in DOMAIN q : q[j] = s[at(j)]
  BY <1>1
<1> HIDE DEF at
<1>6. DistinctPoints(q)
  <2> SUFFICES ASSUME NEW j \in DOMAIN q, NEW k \in DOMAIN q, q[j].point = q[k].point
               PROVE  j = k
    BY DEF DistinctPoints
  <2>1. s[at(j)].point = s[at(k)].point
    BY <1>5
  <2>2. at(j) = at(k)
    BY <1>2, <2>1 DEF DistinctPoints
  <2>3. QED
    BY <1>3, <2>2
<1>7. ASSUME NEW x
      PROVE  x \in Range(q) <=> x \in Range(s) /\ x # s[i]
  <2>1. ASSUME NEW j \in DOMAIN q, x = q[j]
        PROVE  x \in Range(s) /\ x # s[i]
    <3>1. x = s[at(j)] /\ at(j) \in DOMAIN s /\ at(j) # i
      BY <1>2, <1>5, <2>1
    <3>2. x.point # s[i].point
      BY <3>1 DEF DistinctPoints
    <3>3. QED
      BY <3>1, <3>2 DEF Range
  <2>2. ASSUME NEW m \in DOMAIN s, x = s[m], x # s[i]
        PROVE  x \in Range(q)
    <3>1. PICK j \in DOMAIN q : at(j) = m
      BY <1>4, <2>2
    <3>2. q[j] = x
      BY <1>5, <2>2, <3>1
    <3>3. QED
      BY <3>2 DEF Range
  <2>3. QED
    BY <2>1, <2>2 DEF Range
<1>8. QED
  BY <1>6, <1>7 DEF DistinctPoints

\* Adding a point that is not in the list yet.
LEMMA WithOneMore ==
    ASSUME NEW S, NEW s \in Seq(S), DistinctPoints(s), NEW e \in S,
           \A j \in DOMAIN s : s[j].point # e.point, NEW q, q = Append(s, e)
    PROVE  DistinctPoints(q) /\ Range(q) = Range(s) \cup {e}
<1>1. /\ DOMAIN s = 1..Len(s) /\ Len(s) \in Nat /\ DOMAIN q = 1..(Len(s) + 1)
      /\ \A j \in 1..Len(s) : q[j] = s[j]
      /\ q[Len(s) + 1] = e
  BY AppendProperties
<1>2. DistinctPoints(q)
  <2> SUFFICES ASSUME NEW j \in DOMAIN q, NEW k \in DOMAIN q, q[j].point = q[k].point
               PROVE  j = k
    BY DEF DistinctPoints
  <2>1. CASE j \in DOMAIN s /\ k \in DOMAIN s
    <3>1. q[j] = s[j] /\ q[k] = s[k]
      BY <1>1, <2>1
    <3>2. QED
      BY <2>1, <3>1 DEF DistinctPoints
  <2>2. CASE j = Len(s) + 1 /\ k \in DOMAIN s
    BY <1>1, <2>2
  <2>3. CASE k = Len(s) + 1 /\ j \in DOMAIN s
    BY <1>1, <2>3
  <2>4. QED
    BY <1>1, <2>1, <2>2, <2>3
<1>3. ASSUME NEW x
      PROVE  x \in Range(q) <=> x \in Range(s) \/ x = e
  <2>1. ASSUME NEW j \in DOMAIN q, x = q[j] PROVE x \in Range(s) \/ x = e
    BY <1>1, <2>1 DEF Range
  <2>2. ASSUME NEW j \in DOMAIN s, x = s[j] PROVE x \in Range(q)
    <3>1. j \in DOMAIN q /\ q[j] = x
      BY <1>1, <2>2
    <3>2. QED
      BY <3>1 DEF Range
  <2>3. e \in Range(q)
    <3>1. Len(s) + 1 \in DOMAIN q /\ q[Len(s) + 1] = e
      BY <1>1
    <3>2. QED
      BY <3>1 DEF Range
  <2>4. QED
    BY <2>1, <2>2, <2>3 DEF Range
<1>4. QED
  BY <1>2, <1>3

\* Counting places in a list of distinct points is counting the points.
LEMMA CountByPoint ==
    ASSUME NEW S, NEW q \in Seq(S), DistinctPoints(q), NEW I, I \subseteq DOMAIN q
    PROVE  LET T == {q[i].point : i \in I}
           IN  IsFiniteSet(I) /\ IsFiniteSet(T) /\ Cardinality(T) = Cardinality(I)
<1> DEFINE T == {q[i].point : i \in I}
           f == [i \in I |-> q[i].point]
<1>1. IsFiniteSet(I)
  <2>1. DOMAIN q = 1..Len(q) /\ 1 \in Int /\ Len(q) \in Int
    OBVIOUS
  <2>2. IsFiniteSet(DOMAIN q)
    BY <2>1, FS_Interval
  <2>3. QED
    BY <2>2, FS_Subset
<1>2. f \in Bijection(I, T)
  <2>1. f \in [I -> T] /\ \A y \in T : \E x \in I : f[x] = y
    OBVIOUS
  <2>2. \A x, y \in I : f[x] = f[y] => x = y
    BY DEF DistinctPoints
  <2> HIDE DEF f, T
  <2>3. QED
    BY <2>1, <2>2 DEF Bijection, Injection, Surjection, IsInjective
<1>3. ExistsBijection(I, T)
  BY <1>2 DEF ExistsBijection
<1> HIDE DEF T, f
<1>4. IsFiniteSet(T) /\ Cardinality(T) = Cardinality(I)
  BY <1>1, <1>3, FS_Bijection
<1>5. QED
  BY <1>1, <1>4 DEF T

\* The entries and the places of region k in a list of pending points.
EntriesOf(q, k) == {e \in Range(q) : e.region = k}
PlacesOf(q, k) == {i \in DOMAIN q : q[i].region = k}

\* InFlight counts places; as the points are distinct it counts entries.
LEMMA CountByEntry ==
    ASSUME NEW S, NEW q \in Seq(S), DistinctPoints(q), NEW k
    PROVE  /\ IsFiniteSet(EntriesOf(q, k)) /\ Cardinality(EntriesOf(q, k)) \in Nat
           /\ Cardinality(PlacesOf(q, k)) = Cardinality(EntriesOf(q, k))
<1> DEFINE E == {e \in Range(q) : e.region = k}
           I == {i \in DOMAIN q : q[i].region = k}
           f == [i \in I |-> q[i]]
<1>1. IsFiniteSet(I)
  <2>1. I \subseteq DOMAIN q
    OBVIOUS
  <2>2. QED
    BY <2>1, CountByPoint
<1>2. f \in Bijection(I, E)
  <2>1. f \in [I -> E] /\ \A y \in E : \E x \in I : f[x] = y
    BY DEF Range
  <2>2. \A x, y \in I : f[x] = f[y] => x = y
    BY DEF DistinctPoints
  <2> HIDE DEF f, E, I
  <2>3. QED
    BY <2>1, <2>2 DEF Bijection, Injection, Surjection, IsInjective
<1>3. ExistsBijection(I, E)
  BY <1>2 DEF ExistsBijection
<1> HIDE DEF E, I, f
<1>4. IsFiniteSet(E) /\ Cardinality(E) = Cardinality(I)
  BY <1>1, <1>3, FS_Bijection
<1>5. Cardinality(E) \in Nat
  BY <1>4, FS_CardinalityType
<1>6. QED
  BY <1>4, <1>5 DEF E, I, EntriesOf, PlacesOf

-----------------------------------------------------------------------------
\* What holds of the asked, pending and told points in every state, a refused tell
\* included.  AskedIsPendingOrTold alone is not inductive: it does not say whose the
\* pending points are, nor that a point is pending once.
PointsInv ==
    /\ DistinctPoints(pending)
    /\ \A e \in Range(pending) : origin[e.point].region = e.region
    /\ PendingPoints \cap ToldPoints = {}
    /\ reply # "REFUSED" => Points = PendingPoints \cup ToldPoints
    /\ IsFiniteSet(told) /\ IsFiniteSet(ToldPoints)
    /\ evaluations = Cardinality(told) /\ evaluations = Cardinality(ToldPoints)

\* Pending entries are points that were asked, told points too.
LEMMA PointsTyped ==
    ASSUME IInv
    PROVE  /\ pending \in Seq([point : Points, region : Regions])
           /\ \A e \in Range(pending) : e.point \in Points /\ e.region \in Regions
           /\ PendingPoints = {e.point : e \in Range(pending)}
           /\ PendingPoints \subseteq Points /\ ToldPoints \subseteq Points
           /\ Points = 1..Len(origin) /\ Len(origin) \in Nat
<1> DEFINE S == [point : Points, region : Regions]
<1>1. pending \in Seq(S)
  BY DEF IInv, TypeOK
<1>2. \A e \in Range(pending) : e \in S
  <2> HIDE DEF S
  <2>1. QED
    BY <1>1 DEF Range
<1>3. \A e \in S : e.point \in Points /\ e.region \in Regions
  OBVIOUS
<1>4. PendingPoints = {e.point : e \in Range(pending)}
  BY DEF PendingPoints, Range
<1>5. ToldPoints \subseteq Points
  <2>1. told \subseteq Points \X (Values \cup {Missing})
    BY DEF IInv, ToldTyped
  <2>2. \A t \in Points \X (Values \cup {Missing}) : t[1] \in Points
    OBVIOUS
  <2>3. QED
    BY <2>1, <2>2 DEF ToldPoints
<1>6. Points = 1..Len(origin) /\ Len(origin) \in Nat
  <2>1. origin \in Seq([region : Regions, epoch : Nat])
    BY DEF IInv, TypeOK
  <2> DEFINE A == [region : Regions, epoch : Nat]
  <2>2. origin \in Seq(A)
    BY <2>1
  <2> HIDE DEF A
  <2>3. QED
    BY <2>2 DEF Points
<1>7. QED
  BY <1>1, <1>2, <1>3, <1>4, <1>5, <1>6

\* Asking makes the next serial number a pending point of its region.
LEMMA RegisterPoints ==
    ASSUME IInv, PointsInv, NEW k \in Regions, Register(k), NEW n, n = Len(origin) + 1
    PROVE  /\ Points' = Points \cup {n} /\ n \notin Points
           /\ \A p \in Points : origin'[p] = origin[p]
           /\ origin'[n].region = k
           /\ DistinctPoints(pending)'
           /\ Range(pending)' = Range(pending) \cup {[point |-> n, region |-> k]}
           /\ PendingPoints' = PendingPoints \cup {n}
<1> DEFINE e == [point |-> n, region |-> k]
           asked == [region |-> k, epoch |-> Epoch(k)]
           S == [point : Points \cup {n}, region : Regions]
           A == [region : Regions, epoch : {Epoch(k)} \cup Nat]
<1>1. pending' = Append(pending, e) /\ origin' = Append(origin, asked)
  BY DEF Register
<1>2. Points = 1..Len(origin) /\ Len(origin) \in Nat /\ n \notin Points
  BY PointsTyped
<1>3. origin \in Seq(A) /\ asked \in A
  <2> DEFINE B == [region : Regions, epoch : Nat]
  <2>1. origin \in Seq(B) /\ B \subseteq A
    BY DEF IInv, TypeOK
  <2>2. asked \in A
    OBVIOUS
  <2> HIDE DEF A, B, asked
  <2>3. QED
    BY <2>1, <2>2, SeqMonotonic
<1>4. asked.region = k
  OBVIOUS
<1>5. /\ DOMAIN origin' = 1..(Len(origin) + 1)
      /\ \A p \in 1..Len(origin) : origin'[p] = origin[p]
      /\ origin'[n] = asked
  <2> HIDE DEF A, asked
  <2>1. QED
    BY <1>1, <1>3, AppendProperties
<1>6. Points' = Points \cup {n}
  BY <1>2, <1>5 DEF Points
<1>7. pending \in Seq(S) /\ e \in S
  <2> DEFINE B == [point : Points, region : Regions]
  <2>1. pending \in Seq(B)
    BY PointsTyped
  <2>2. B \subseteq S /\ e \in S
    OBVIOUS
  <2> HIDE DEF S, B, e
  <2>3. QED
    BY <2>1, <2>2, SeqMonotonic
<1>8. \A j \in DOMAIN pending : pending[j].point # e.point
  <2> SUFFICES ASSUME NEW j \in DOMAIN pending PROVE pending[j].point # n
    OBVIOUS
  <2>1. pending[j] \in Range(pending)
    BY DEF Range
  <2>2. QED
    BY <1>2, <2>1, PointsTyped
<1>9. e.point = n
  OBVIOUS
<1> HIDE DEF e, S
<1>10. DistinctPoints(pending') /\ Range(pending') = Range(pending) \cup {e}
  <2>1. DistinctPoints(pending)
    BY DEF PointsInv
  <2>2. PICK d : d = e
    OBVIOUS
  <2>3. PICK q : q = Append(pending, d)
    OBVIOUS
  <2>4. /\ pending \in Seq(S) /\ d \in S
        /\ \A j \in DOMAIN pending : pending[j].point # d.point
    BY <1>7, <1>8, <2>2
  <2>5. DistinctPoints(q) /\ Range(q) = Range(pending) \cup {d}
    BY <2>1, <2>3, <2>4, WithOneMore
  <2>6. q = pending'
    BY <1>1, <2>2, <2>3
  <2>7. QED
    BY <2>2, <2>5, <2>6
<1>11. PendingPoints' = PendingPoints \cup {n}
  <2>1. PendingPoints' = {x.point : x \in Range(pending')}
    BY DEF PendingPoints, Range
  <2>2. PendingPoints = {x.point : x \in Range(pending)}
    BY PointsTyped
  <2>3. QED
    BY <1>9, <1>10, <2>1, <2>2
<1>12. QED
  BY <1>2, <1>4, <1>5, <1>6, <1>10, <1>11 DEF e

\* Telling, accepted or refused, takes the told point out of the pending ones.
LEMMA CompletePoints ==
    ASSUME IInv, PointsInv, NEW i \in DOMAIN pending, pending' = Without(i),
           NEW e, e = pending[i]
    PROVE  /\ e \in Range(pending) /\ e.point \in PendingPoints
           /\ DistinctPoints(pending)'
           /\ Range(pending)' = Range(pending) \ {e}
           /\ PendingPoints' = PendingPoints \ {e.point}
<1> DEFINE S == [point : Points, region : Regions]
<1>1. pending \in Seq(S) /\ pending' = RemoveAt(pending, i)
  BY PointsTyped DEF Without
<1> HIDE DEF S
<1>2. /\ DistinctPoints(pending') /\ Range(pending') = Range(pending) \ {e}
      /\ \A j \in DOMAIN pending : pending[j].point = e.point => j = i
  BY <1>1, WithoutOne DEF PointsInv
<1>3. e \in Range(pending)
  BY DEF Range
<1>4. \A x \in Range(pending) : x.point = e.point => x = e
  BY <1>2 DEF Range
<1>5. PendingPoints = {x.point : x \in Range(pending)}
  BY PointsTyped
<1>6. PendingPoints' = {x.point : x \in Range(pending')}
  BY DEF PendingPoints, Range
<1>7. PendingPoints' = PendingPoints \ {e.point}
  BY <1>2, <1>4, <1>5, <1>6
<1>8. QED
  BY <1>2, <1>3, <1>5, <1>7

\* Every ask keeps the account of the points: the new one is pending.
LEMMA AskPoints ==
    ASSUME IInv, PointsInv, NEW k \in Regions, Register(k), reply # "REFUSED",
           evaluations' = evaluations, told' = told
    PROVE  PointsInv'
<1> DEFINE n == Len(origin) + 1
<1>1. /\ Points' = Points \cup {n} /\ n \notin Points
      /\ \A p \in Points : origin'[p] = origin[p]
      /\ origin'[n].region = k
      /\ DistinctPoints(pending)'
      /\ Range(pending)' = Range(pending) \cup {[point |-> n, region |-> k]}
      /\ PendingPoints' = PendingPoints \cup {n}
  BY RegisterPoints
<1> HIDE DEF n
<1>2. ToldPoints' = ToldPoints
  BY DEF ToldPoints
<1>3. /\ \A e \in Range(pending) : e.point \in Points /\ e.region \in Regions
      /\ ToldPoints \subseteq Points
  BY PointsTyped
<1>4. \A e \in Range(pending)' : origin'[e.point].region = e.region
  <2> SUFFICES ASSUME NEW e \in Range(pending)'
               PROVE  origin'[e.point].region = e.region
    OBVIOUS
  <2>1. CASE e \in Range(pending)
    BY <1>1, <1>3, <2>1 DEF PointsInv
  <2>2. CASE e = [point |-> n, region |-> k]
    BY <1>1, <2>2
  <2>3. QED
    BY <1>1, <2>1, <2>2
<1>5. PendingPoints' \cap ToldPoints' = {}
  BY <1>1, <1>2, <1>3 DEF PointsInv
<1>6. Points' = PendingPoints' \cup ToldPoints'
  BY <1>1, <1>2 DEF PointsInv
<1>7. /\ IsFiniteSet(told') /\ IsFiniteSet(ToldPoints')
      /\ evaluations' = Cardinality(told') /\ evaluations' = Cardinality(ToldPoints')
  BY <1>2 DEF PointsInv
<1>8. QED
  BY <1>1, <1>4, <1>5, <1>6, <1>7 DEF PointsInv

\* An accepted tell moves one point from the pending to the told ones, and charges it.
LEMMA AcceptedPoints ==
    ASSUME IInv, PointsInv, NEW i \in DOMAIN pending, NEW a \in Answers,
           TellAccepted(i, a)
    PROVE  /\ PointsInv'
           /\ pending[i].point \notin ToldPoints
           /\ ToldPoints' = ToldPoints \cup {pending[i].point}
<1> DEFINE e == pending[i]
           t == <<e.point, IF a.ok THEN a.value ELSE Missing>>
<1>1. /\ pending' = Without(i) /\ told' = told \cup {t} /\ origin' = origin
      /\ evaluations' = evaluations + 1 /\ reply # "REFUSED" /\ reply' = "OK"
  BY DEF TellAccepted, Stopped
<1>2. t[1] = e.point
  OBVIOUS
<1> HIDE DEF e, t
<1>3. /\ e \in Range(pending) /\ e.point \in PendingPoints
      /\ DistinctPoints(pending)'
      /\ Range(pending)' = Range(pending) \ {e}
      /\ PendingPoints' = PendingPoints \ {e.point}
  BY <1>1, CompletePoints DEF e
<1>4. e.point \notin ToldPoints /\ t \notin told
  BY <1>2, <1>3 DEF PointsInv, ToldPoints
<1>5. ToldPoints' = ToldPoints \cup {e.point}
  BY <1>1, <1>2 DEF ToldPoints
<1>6. Points' = Points
  BY <1>1 DEF Points
<1>7. /\ IsFiniteSet(told') /\ Cardinality(told') = Cardinality(told) + 1
      /\ IsFiniteSet(ToldPoints')
      /\ Cardinality(ToldPoints') = Cardinality(ToldPoints) + 1
  <2>1. IsFiniteSet(told) /\ IsFiniteSet(ToldPoints)
    BY DEF PointsInv
  <2>2. IsFiniteSet(told \cup {t}) /\ Cardinality(told \cup {t}) = Cardinality(told) + 1
    BY <1>4, <2>1, FS_AddElement
  <2>3. /\ IsFiniteSet(ToldPoints \cup {e.point})
        /\ Cardinality(ToldPoints \cup {e.point}) = Cardinality(ToldPoints) + 1
    BY <1>4, <2>1, FS_AddElement
  <2>4. QED
    BY <1>1, <1>5, <2>2, <2>3
<1>8. Points' = PendingPoints' \cup ToldPoints'
  BY <1>1, <1>3, <1>5, <1>6 DEF PointsInv
<1>9. PendingPoints' \cap ToldPoints' = {}
  BY <1>3, <1>5 DEF PointsInv
<1>10. \A x \in Range(pending)' : origin'[x.point].region = x.region
  BY <1>1, <1>3 DEF PointsInv
<1>11. PointsInv'
  BY <1>1, <1>3, <1>7, <1>8, <1>9, <1>10 DEF PointsInv
<1>12. QED
  BY <1>4, <1>5, <1>11 DEF e

\* Every step of the driver keeps its account of the points.
LEMMA PointsNext == IInv /\ PointsInv /\ [Next]_vars => PointsInv'
<1> SUFFICES ASSUME IInv, PointsInv, [Next]_vars PROVE PointsInv'
  OBVIOUS
<1>1. CASE AskDesign
  <2>1. PICK k \in Regions : Register(k)
    BY <1>1 DEF AskDesign
  <2>2. reply # "REFUSED" /\ evaluations' = evaluations /\ told' = told
    BY <1>1 DEF AskDesign, MayAsk, Stopped
  <2>3. QED
    BY <2>1, <2>2, AskPoints
<1>2. CASE AskBandit
  <2>1. PICK k \in Regions : Register(k)
    BY <1>2 DEF AskBandit, Pool
  <2>2. reply # "REFUSED" /\ evaluations' = evaluations /\ told' = told
    BY <1>2 DEF AskBandit, MayAsk, Stopped
  <2>3. QED
    BY <2>1, <2>2, AskPoints
<1>3. ASSUME UNCHANGED <<pending, origin, told, evaluations>>,
             reply' \in {reply, "REFUSED"} \/ reply # "REFUSED"
      PROVE  PointsInv'
  <2>1. /\ Points' = Points /\ PendingPoints' = PendingPoints
        /\ ToldPoints' = ToldPoints
    BY <1>3 DEF PendingPoints, ToldPoints, Points
  <2>2. /\ Range(pending)' = Range(pending)
        /\ DistinctPoints(pending)' <=> DistinctPoints(pending)
    BY <1>3 DEF DistinctPoints, Range
  <2>3. \A e \in Range(pending)' : origin'[e.point].region = e.region
    BY <1>3, <2>2 DEF PointsInv
  <2>4. QED
    BY <1>3, <2>1, <2>2, <2>3 DEF PointsInv
<1>4. CASE AskExhausted \/ AskNoSurrogate
  BY <1>3, <1>4 DEF AskExhausted, AskNoSurrogate, MayAsk, Stopped
<1>5. CASE UNCHANGED vars
  BY <1>3, <1>5 DEF vars
<1>6. ASSUME NEW i \in DOMAIN pending, NEW a \in Answers, TellAccepted(i, a)
      PROVE  PointsInv'
  BY <1>6, AcceptedPoints
<1>7. ASSUME NEW i \in DOMAIN pending, NEW a \in Answers, TellRefused(i, a)
      PROVE  PointsInv'
  <2>1. /\ pending' = Without(i) /\ reply' = "REFUSED"
        /\ told' = told /\ origin' = origin /\ evaluations' = evaluations
    BY <1>7 DEF TellRefused
  <2>2. /\ DistinctPoints(pending)'
        /\ Range(pending)' = Range(pending) \ {pending[i]}
        /\ PendingPoints' = PendingPoints \ {pending[i].point}
    BY <2>1, CompletePoints
  <2>3. ToldPoints' = ToldPoints
    BY <2>1 DEF ToldPoints
  <2>4. QED
    BY <2>1, <2>2, <2>3 DEF PointsInv
<1>8. QED
  BY <1>1, <1>2, <1>4, <1>5, <1>6, <1>7 DEF Next, Ask, Tell

\* The account of the points is right in every state.
LEMMA PointsInvariant == Spec => [](IInv /\ PointsInv)
<1>1. Init => PointsInv
  <2> SUFFICES ASSUME Init PROVE PointsInv
    OBVIOUS
  <2>1. /\ pending = <<>> /\ origin = <<>> /\ told = {} /\ evaluations = 0
    BY DEF Init
  <2>2. Range(pending) = {} /\ PendingPoints = {} /\ ToldPoints = {} /\ Points = {}
    BY <2>1 DEF Range, PendingPoints, ToldPoints, Points
  <2>3. DistinctPoints(pending)
    BY <2>1 DEF DistinctPoints
  <2>4. QED
    BY <2>1, <2>2, <2>3, FS_EmptySet DEF PointsInv
<1>2. QED
  BY <1>1, PointsNext, Invariance, PTL DEF Spec

\* No asked point is lost, told twice or charged twice, whatever the order of the
\* answers, the failures among them and the restarts: until a tell is refused every
\* point is in flight or told, and evaluations counts the told ones.
THEOREM AskedPointsAreAccounted == Spec => []AskedIsPendingOrTold
<1>1. IInv /\ PointsInv => AskedIsPendingOrTold
  <2> SUFFICES ASSUME IInv, PointsInv
               PROVE  Cardinality(PendingPoints) = Len(pending)
    BY DEF PointsInv, AskedIsPendingOrTold
  <2> DEFINE S == [point : Points, region : Regions]
  <2>1. pending \in Seq(S) /\ DistinctPoints(pending)
    BY PointsTyped DEF PointsInv
  <2> HIDE DEF S
  <2>2. DOMAIN pending = 1..Len(pending) /\ Len(pending) \in Nat /\ 1 \in Int
        /\ Len(pending) \in Int
    BY <2>1
  <2>3. Cardinality(PendingPoints) = Cardinality(DOMAIN pending)
    <3>1. LET T == {pending[i].point : i \in DOMAIN pending}
          IN  Cardinality(T) = Cardinality(DOMAIN pending)
      BY <2>1, CountByPoint
    <3>2. QED
      BY <3>1 DEF PendingPoints
  <2>4. Cardinality(1..Len(pending)) = IF 1 > Len(pending) THEN 0 ELSE Len(pending) - 1 + 1
    BY <2>2, FS_Interval
  <2>5. QED
    BY <2>2, <2>3, <2>4
<1>2. QED
  BY <1>1, PointsInvariant, PTL

-----------------------------------------------------------------------------
\* Epoch as a function of the region, and the points a region has been told.
EpochOf(r) == r.restarts + (IF r.placed /\ ~r.active THEN 1 ELSE 0)

OwnTold(k) == {p \in ToldPoints : origin[p].region = k}

\* Placing a region again is the second half of the restart its collapse has begun.
LEMMA PlacingKeepsEpoch ==
    ASSUME NEW P, NEW r \in RegionType(P), ~r.active, NEW p, NEW v,
           NEW o, o = Restart(r, p, v)
    PROVE  o.placed = TRUE /\ EpochOf(o) = EpochOf(r)
<1>1. /\ o.active = TRUE /\ o.placed = TRUE
      /\ o.restarts = IF r.placed THEN r.restarts + 1 ELSE r.restarts
  BY DEF Restart
<1>2. r.restarts \in Nat /\ r.active = FALSE /\ r.placed \in BOOLEAN
  BY DEF RegionType
<1>3. EpochOf(o) = o.restarts
  <2>1. o.restarts \in Nat
    BY <1>1, <1>2
  <2>2. QED
    BY <1>1, <2>1 DEF EpochOf
<1>4. EpochOf(r) = IF r.placed THEN r.restarts + 1 ELSE r.restarts
  BY <1>2 DEF EpochOf
<1>5. QED
  BY <1>1, <1>3, <1>4

\* A told value begins another epoch exactly when the region collapses.
LEMMA CollapseRaisesEpoch ==
    ASSUME NEW P, NEW r \in RegionType(P), r.active => r.length >= LengthMin /\ r.placed,
           NEW p \in P, NEW v \in Int,
           NEW o, o = IF r.active THEN Observe(r, p, v) ELSE r
    PROVE  /\ o.active => o.placed
           /\ EpochOf(o) = IF Collapses(r, o) THEN EpochOf(r) + 1 ELSE EpochOf(r)
           /\ EpochOf(r) \in Nat
<1>1. r.restarts \in Nat /\ r.active \in BOOLEAN /\ r.placed \in BOOLEAN
  BY DEF RegionType
<1>2. EpochOf(r) \in Nat
  BY <1>1 DEF EpochOf
<1>3. CASE r.active
  <2>1. o.placed = r.placed /\ o.restarts = r.restarts
    BY <1>3, ObserveType
  <2>2. r.placed /\ EpochOf(r) = r.restarts
    BY <1>1, <1>3 DEF EpochOf
  <2>3. Collapses(r, o) <=> ~o.active
    BY <1>3 DEF Collapses
  <2>4. EpochOf(o) = IF ~o.active THEN r.restarts + 1 ELSE r.restarts
    BY <1>1, <2>1, <2>2 DEF EpochOf
  <2>5. QED
    BY <1>2, <2>1, <2>2, <2>3, <2>4
<1>4. CASE ~r.active
  <2>1. o = r /\ ~Collapses(r, o)
    BY <1>4 DEF Collapses
  <2>2. QED
    BY <1>2, <1>4, <2>1
<1>5. QED
  BY <1>3, <1>4

Inputs(h) == {h.rows[i].input : i \in DOMAIN h.rows}

\* The points of a history to which one row has been appended.
LEMMA RowPointsGrow ==
    ASSUME NEW P, NEW h \in HistoryType(P), Measured(h), NEW p \in P, NEW a \in Result,
           NEW g, g = [h EXCEPT !.rows = Append(h.rows, ToldRow(p, a))]
    PROVE  /\ Inputs(g) = Inputs(h) \cup {p}
           /\ Len(g.rows) = Len(h.rows) + 1 /\ Len(h.rows) \in Nat
           /\ UsableRows(h) # {} => UsableRows(g) # {}
<1>1. /\ DOMAIN h.rows = 1..Len(h.rows) /\ Len(h.rows) \in Nat
      /\ DOMAIN g.rows = 1..(Len(h.rows) + 1)
      /\ \A j \in 1..Len(h.rows) : g.rows[j] = h.rows[j]
      /\ g.rows[Len(h.rows) + 1] = ToldRow(p, a)
      /\ g \in HistoryType(P)
  BY AppendedHistory
<1>2. ToldRow(p, a).input = p
  BY ToldRowFacts
<1>3. Len(g.rows) = Len(h.rows) + 1
  <2>1. g.rows \in Seq(RowType(P))
    BY <1>1 DEF HistoryType
  <2>2. DOMAIN g.rows = 1..Len(g.rows) /\ Len(g.rows) \in Nat
    BY <2>1, LenProperties
  <2>3. QED
    BY <1>1, <2>2
<1>4. UsableRows(h) # {} => UsableRows(g) # {}
  <2>1. \A j \in UsableRows(h) : j \in UsableRows(g)
    BY <1>1 DEF UsableRows
  <2>2. QED
    BY <2>1
<1>5. ASSUME NEW x
      PROVE  x \in Inputs(g) <=> x \in Inputs(h) \cup {p}
  <2>1. ASSUME NEW i \in DOMAIN g.rows, x = g.rows[i].input
        PROVE  x \in Inputs(h) \cup {p}
    BY <1>1, <1>2, <2>1 DEF Inputs
  <2>2. ASSUME NEW i \in DOMAIN h.rows, x = h.rows[i].input
        PROVE  \E j \in DOMAIN g.rows : x = g.rows[j].input
    BY <1>1, <2>2
  <2>3. x = p => \E j \in DOMAIN g.rows : x = g.rows[j].input
    <3>1. Len(h.rows) + 1 \in DOMAIN g.rows /\ g.rows[Len(h.rows) + 1].input = p
      BY <1>1, <1>2
    <3>2. QED
      BY <3>1
  <2>4. QED
    BY <2>1, <2>2, <2>3 DEF Inputs
<1>6. QED
  BY <1>1, <1>3, <1>4, <1>5

-----------------------------------------------------------------------------
\* The history of region k holds points that k proposed, each once, and all of them
\* until k has collapsed; a region is only ever active after it has been placed.
LocalRows(k) ==
    /\ IsFiniteSet(RowPoints(k))
    /\ Cardinality(RowPoints(k)) = Len(histories[k].rows)
    /\ RowPoints(k) \subseteq OwnTold(k)
    /\ Epoch(k) = 0 => OwnTold(k) \subseteq RowPoints(k)
    /\ regions[k].active => regions[k].placed

RowsInv == \A k \in Regions : LocalRows(k)

\* Nothing told, nothing recorded: the rows of a region stay its own when its history
\* is untouched and its epoch does not go back.
LEMMA RowsUntouched ==
    ASSUME IInv, NEW k \in Regions, LocalRows(k), histories'[k] = histories[k],
           OwnTold(k)' = OwnTold(k), Epoch(k)' = 0 => Epoch(k) = 0,
           regions'[k].active => regions'[k].placed
    PROVE  LocalRows(k)'
<1>1. RowPoints(k)' = RowPoints(k)
  BY DEF RowPoints
<1>2. QED
  BY <1>1 DEF LocalRows

\* Asking another point changes nothing of the points told so far.
LEMMA AskKeepsTold ==
    ASSUME IInv, PointsInv, NEW k \in Regions, Register(k), told' = told, NEW j
    PROVE  OwnTold(j)' = OwnTold(j)
<1>1. PICK n : n = Len(origin) + 1
  OBVIOUS
<1>2. \A p \in Points : origin'[p] = origin[p]
  BY <1>1, RegisterPoints
<1>3. ToldPoints' = ToldPoints /\ ToldPoints \subseteq Points
  BY PointsTyped DEF ToldPoints
<1>4. QED
  BY <1>2, <1>3 DEF OwnTold

\* An accepted tell adds its point to the region that proposed it and to no other.
LEMMA AcceptedTold ==
    ASSUME IInv, PointsInv, NEW i \in DOMAIN pending, NEW a \in Answers,
           TellAccepted(i, a), NEW j
    PROVE  /\ OwnTold(j)' = IF j = RegionOf(i) THEN OwnTold(j) \cup {pending[i].point}
                            ELSE OwnTold(j)
           /\ pending[i].point \notin ToldPoints
<1>1. /\ pending[i].point \notin ToldPoints
      /\ ToldPoints' = ToldPoints \cup {pending[i].point}
  BY AcceptedPoints
<1>2. origin' = origin
  BY DEF TellAccepted
<1>3. origin[pending[i].point].region = RegionOf(i)
  BY DEF PointsInv, RegionOf, Range
<1>4. QED
  BY <1>1, <1>2, <1>3 DEF OwnTold

\* The rows that an accepted tell leaves in the region it concerns.
LEMMA AcceptedRows ==
    ASSUME IInv, PointsInv, RowsInv, NEW i \in DOMAIN pending, NEW a \in Answers,
           TellAccepted(i, a), NEW k, k = RegionOf(i), NEW p, p = pending[i].point,
           NEW o, o = IF regions[k].active THEN Observe(regions[k], p, a.value)
                      ELSE regions[k],
           NEW u, u = [histories[k] EXCEPT !.rows = Append(histories[k].rows,
                                                          ToldRow(p, a))]
    PROVE  /\ k \in Regions /\ p \in Points /\ a \in Result
           /\ regions'[k] = o
           /\ histories'[k] = IF Collapses(regions[k], o) THEN NewHistory ELSE u
           /\ \A j \in Regions \ {k} : /\ regions'[j] = regions[j]
                                       /\ histories'[j] = histories[j]
           /\ restarts' = IF Collapses(regions[k], o) THEN restarts + 1 ELSE restarts
<1>1. /\ a \in Result /\ k \in Regions /\ p \in Points
      /\ histories[k] \in HistoryType(Points)
  BY AcceptedShape
<1>2. PICK r : r = Recorded(histories[k], p, a)
  OBVIOUS
<1>3. /\ r.ok
      /\ regions' = [regions EXCEPT ![k] = o]
      /\ histories' = [histories EXCEPT ![k] =
                         IF Collapses(regions[k], o) THEN Cleared(r.h) ELSE r.h]
      /\ restarts' = IF Collapses(regions[k], o) THEN restarts + 1 ELSE restarts
  BY <1>2 DEF TellAccepted
<1>4. r.h = u
  <2>1. PICK h : h = histories[k]
    OBVIOUS
  <2>2. h \in HistoryType(Points) /\ Recorded(h, p, a).ok
    BY <1>1, <1>2, <1>3, <2>1
  <2>3. Recorded(h, p, a).h = [h EXCEPT !.rows = Append(h.rows, ToldRow(p, a))]
    BY <1>1, <2>2, RefusedShape
  <2>4. QED
    BY <1>2, <2>1, <2>3
<1>5. /\ regions \in [Regions -> RegionType(Points)]
      /\ histories \in [Regions -> HistoryType(Points)]
  BY DEF IInv, TypeOK, HistoriesTyped
<1>6. PICK g : g = IF Collapses(regions[k], o) THEN NewHistory ELSE u
  OBVIOUS
<1>7. histories' = [histories EXCEPT ![k] = g]
  BY <1>3, <1>4, <1>6 DEF Cleared
<1>8. /\ regions'[k] = o /\ histories'[k] = g
      /\ \A j \in Regions \ {k} : /\ regions'[j] = regions[j]
                                  /\ histories'[j] = histories[j]
  BY <1>1, <1>3, <1>5, <1>7
<1>9. QED
  BY <1>1, <1>3, <1>6, <1>8

\* An accepted tell keeps the histories apart.
LEMMA AcceptedLocal ==
    ASSUME IInv, PointsInv, RowsInv, NEW i \in DOMAIN pending, NEW a \in Answers,
           TellAccepted(i, a)
    PROVE  RowsInv'
<1>1. PICK k, p : k = RegionOf(i) /\ p = pending[i].point
  OBVIOUS
<1>2. PICK o : o = IF regions[k].active THEN Observe(regions[k], p, a.value)
                   ELSE regions[k]
  OBVIOUS
<1>3. PICK h : h = histories[k]
  OBVIOUS
<1>4. PICK u : u = [h EXCEPT !.rows = Append(h.rows, ToldRow(p, a))]
  OBVIOUS
<1>5. /\ k \in Regions /\ p \in Points /\ a \in Result
      /\ regions'[k] = o
      /\ histories'[k] = IF Collapses(regions[k], o) THEN NewHistory ELSE u
      /\ \A j \in Regions \ {k} : /\ regions'[j] = regions[j]
                                  /\ histories'[j] = histories[j]
  BY <1>1, <1>2, <1>3, <1>4, AcceptedRows
<1>6. /\ p \notin ToldPoints
      /\ OwnTold(k)' = OwnTold(k) \cup {p}
      /\ \A j \in Regions \ {k} : OwnTold(j)' = OwnTold(j)
  BY <1>1, AcceptedTold
<1>7. /\ regions[k] \in RegionType(Points)
      /\ regions[k].active => regions[k].length >= LengthMin /\ regions[k].placed
      /\ h \in HistoryType(Points) /\ Measured(h)
  BY <1>1, <1>3, <1>5, AcceptedShape DEF IInv, ActiveIsLargeEnough, RowsInv, LocalRows
<1>8. /\ o.active => o.placed
      /\ EpochOf(o) = IF Collapses(regions[k], o) THEN EpochOf(regions[k]) + 1
                      ELSE EpochOf(regions[k])
      /\ EpochOf(regions[k]) \in Nat
  <2>1. a.value \in Int
    BY <1>5, ToldRowFacts
  <2>2. QED
    BY <1>2, <1>5, <1>7, <2>1, CollapseRaisesEpoch
<1>9. Epoch(k)' = EpochOf(o) /\ Epoch(k) = EpochOf(regions[k])
  BY <1>5 DEF Epoch, EpochOf
<1>10. LocalRows(k)'
  <2>1. CASE Collapses(regions[k], o)
    <3>1. histories'[k].rows = <<>>
      BY <1>5, <2>1 DEF NewHistory
    <3>2. RowPoints(k)' = {} /\ Len(histories'[k].rows) = 0
      BY <3>1 DEF RowPoints
    <3>3. Epoch(k)' # 0
      BY <1>8, <1>9, <2>1
    <3>4. QED
      BY <1>5, <1>8, <3>2, <3>3, FS_EmptySet DEF LocalRows
  <2>2. CASE ~Collapses(regions[k], o)
    <3>1. histories'[k] = u
      BY <1>5, <2>2
    <3>2. /\ Inputs(u) = Inputs(h) \cup {p}
          /\ Len(u.rows) = Len(h.rows) + 1 /\ Len(h.rows) \in Nat
      <4>1. h \in HistoryType(Points) /\ Measured(h) /\ p \in Points /\ a \in Result
        BY <1>5, <1>7
      <4>2. QED
        BY <1>4, <4>1, RowPointsGrow
    <3>3. /\ RowPoints(k)' = RowPoints(k) \cup {p}
          /\ Len(histories'[k].rows) = Len(histories[k].rows) + 1
      BY <1>3, <3>1, <3>2 DEF RowPoints, Inputs
    <3>4. LocalRows(k)
      BY <1>5 DEF RowsInv
    <3>5. p \notin RowPoints(k)
      BY <1>6, <3>4 DEF LocalRows, OwnTold
    <3>6. /\ IsFiniteSet(RowPoints(k) \cup {p})
          /\ Cardinality(RowPoints(k) \cup {p}) = Cardinality(RowPoints(k)) + 1
      BY <3>4, <3>5, FS_AddElement DEF LocalRows
    <3>7. /\ RowPoints(k)' \subseteq OwnTold(k)'
          /\ Epoch(k)' = 0 => OwnTold(k)' \subseteq RowPoints(k)'
      BY <1>6, <1>8, <1>9, <2>2, <3>3, <3>4 DEF LocalRows
    <3>8. /\ IsFiniteSet(RowPoints(k)')
          /\ Cardinality(RowPoints(k)') = Len(histories'[k].rows)
      BY <3>3, <3>4, <3>6 DEF LocalRows
    <3>9. QED
      BY <1>5, <1>8, <3>7, <3>8 DEF LocalRows
  <2>3. QED
    BY <2>1, <2>2
<1>11. ASSUME NEW j \in Regions \ {k} PROVE LocalRows(j)'
  <2>1. LocalRows(j) /\ regions'[j] = regions[j] /\ histories'[j] = histories[j]
    BY <1>5 DEF RowsInv
  <2>2. Epoch(j)' = Epoch(j)
    BY <2>1 DEF Epoch
  <2>3. OwnTold(j)' = OwnTold(j)
    BY <1>6
  <2>4. regions'[j].active => regions'[j].placed
    BY <2>1 DEF LocalRows
  <2>5. QED
    BY <2>1, <2>2, <2>3, <2>4, RowsUntouched
<1>12. Regions' = Regions
  BY DEF TellAccepted, Regions
<1>13. QED
  BY <1>10, <1>11, <1>12 DEF RowsInv

\* Every step of the driver keeps the histories apart.
LEMMA RowsNext == IInv /\ PointsInv /\ RowsInv /\ [Next]_vars => RowsInv'
<1> SUFFICES ASSUME IInv, PointsInv, RowsInv, [Next]_vars PROVE RowsInv'
  OBVIOUS
<1>1. CASE AskDesign
  <2>1. PICK k \in Regions : Register(k)
    BY <1>1 DEF AskDesign
  <2>2. UNCHANGED <<config, regions, histories, told>>
    BY <1>1 DEF AskDesign
  <2>3. Regions' = Regions
    BY <2>2 DEF Regions
  <2>4. ASSUME NEW j \in Regions PROVE LocalRows(j)'
    <3>1. OwnTold(j)' = OwnTold(j)
      BY <2>1, <2>2, AskKeepsTold
    <3>2. /\ LocalRows(j) /\ Epoch(j)' = Epoch(j)
          /\ regions'[j].active => regions'[j].placed
      BY <2>2 DEF Epoch, RowsInv, LocalRows
    <3>3. QED
      BY <2>2, <3>1, <3>2, RowsUntouched
  <2>5. QED
    BY <2>3, <2>4 DEF RowsInv
<1>2. CASE AskBandit
  <2>1. PICK k \in Regions : Register(k)
    BY <1>2 DEF AskBandit, Pool
  <2>2. /\ UNCHANGED <<config, histories, told>>
        /\ regions' = [j \in Regions |->
                         IF j \in Pool /\ ~regions[j].active THEN Placed(j)
                         ELSE regions[j]]
    BY <1>2 DEF AskBandit
  <2>3. Regions' = Regions
    BY <2>2 DEF Regions
  <2>4. ASSUME NEW j \in Regions PROVE LocalRows(j)'
    <3>1. OwnTold(j)' = OwnTold(j)
      BY <2>1, <2>2, AskKeepsTold
    <3>2. LocalRows(j)
      BY DEF RowsInv
    <3>3. /\ regions'[j].active => regions'[j].placed
          /\ EpochOf(regions'[j]) = EpochOf(regions[j])
      <4>1. CASE j \in Pool /\ ~regions[j].active
        <5>1. regions'[j] = Placed(j)
          BY <2>2, <4>1
        <5>2. PICK c, v : Placed(j) = Restart(regions[j], c, v)
          BY DEF Placed
        <5>3. regions[j] \in RegionType(Points)
          BY DEF IInv, TypeOK
        <5>4. PICK o, r : o = regions'[j] /\ r = regions[j]
          OBVIOUS
        <5>5. r \in RegionType(Points) /\ ~r.active /\ o = Restart(r, c, v)
          BY <4>1, <5>1, <5>2, <5>3, <5>4
        <5>6. o.placed = TRUE /\ EpochOf(o) = EpochOf(r)
          BY <5>5, PlacingKeepsEpoch
        <5>7. QED
          BY <5>4, <5>6
      <4>2. CASE ~(j \in Pool /\ ~regions[j].active)
        <5>1. regions'[j] = regions[j]
          BY <2>2, <4>2
        <5>2. QED
          BY <3>2, <5>1 DEF LocalRows
      <4>3. QED
        BY <4>1, <4>2
    <3>4. Epoch(j)' = Epoch(j)
      BY <3>3 DEF Epoch, EpochOf
    <3>5. QED
      BY <2>2, <3>1, <3>2, <3>3, <3>4, RowsUntouched
  <2>5. QED
    BY <2>3, <2>4 DEF RowsInv
<1>3. ASSUME UNCHANGED <<config, regions, histories, told, origin>>
      PROVE  RowsInv'
  <2>1. Regions' = Regions
    BY <1>3 DEF Regions
  <2>2. ASSUME NEW j \in Regions PROVE LocalRows(j)'
    <3>1. OwnTold(j)' = OwnTold(j) /\ Epoch(j)' = Epoch(j)
      BY <1>3 DEF OwnTold, ToldPoints, Epoch
    <3>2. LocalRows(j) /\ (regions'[j].active => regions'[j].placed)
      BY <1>3 DEF RowsInv, LocalRows
    <3>3. QED
      BY <1>3, <3>1, <3>2, RowsUntouched
  <2>3. QED
    BY <2>1, <2>2 DEF RowsInv
<1>4. CASE AskExhausted \/ AskNoSurrogate
  BY <1>3, <1>4 DEF AskExhausted, AskNoSurrogate
<1>5. CASE UNCHANGED vars
  BY <1>3, <1>5 DEF vars
<1>6. ASSUME NEW i \in DOMAIN pending, NEW a \in Answers, TellAccepted(i, a)
      PROVE  RowsInv'
  BY <1>6, AcceptedLocal
<1>7. ASSUME NEW i \in DOMAIN pending, NEW a \in Answers, TellRefused(i, a)
      PROVE  RowsInv'
  BY <1>3, <1>7 DEF TellRefused
<1>8. QED
  BY <1>1, <1>2, <1>4, <1>5, <1>6, <1>7 DEF Next, Ask, Tell

\* The histories start empty and stay apart.
LEMMA RowsInvariant == Spec => []RowsInv
<1>1. Init => RowsInv
  <2> SUFFICES ASSUME Init, NEW k \in Regions PROVE LocalRows(k)
    BY DEF RowsInv
  <2>1. /\ histories[k] = DriverHistory /\ told = {}
        /\ regions[k] = [NewRegion EXCEPT !.tolerance = config.tolerance]
    BY DEF Init
  <2>2. histories[k].rows = <<>> /\ ~regions[k].active
    BY <2>1 DEF DriverHistory, NewHistory, NewRegion
  <2>3. RowPoints(k) = {} /\ OwnTold(k) = {} /\ Len(histories[k].rows) = 0
    BY <2>1, <2>2 DEF RowPoints, OwnTold, ToldPoints
  <2>4. QED
    BY <2>2, <2>3, FS_EmptySet DEF LocalRows
<1>2. QED
  BY <1>1, RowsNext, PointsInvariant, PTL DEF Spec

\* "Regions must not share data": whatever order the answers of several regions come
\* in, the history of a region holds only points which that region has proposed, each
\* once, and it loses none of them before the region collapses.
THEOREM RegionsKeepTheirData == Spec => []HistoriesAreLocal
<1>1. RowsInv => HistoriesAreLocal
  BY DEF RowsInv, LocalRows, OwnTold, HistoriesAreLocal
<1>2. QED
  BY <1>1, RowsInvariant, PTL

-----------------------------------------------------------------------------
\* The points a region has in flight, before and after a step.
LEMMA InFlightOfStep ==
    ASSUME IInv, PointsInv, IInv', PointsInv', NEW j
    PROVE  /\ InFlight(j) = Cardinality(EntriesOf(pending, j)) /\ InFlight(j) \in Nat
           /\ InFlight(j)' = Cardinality(EntriesOf(pending', j))
           /\ IsFiniteSet(EntriesOf(pending, j))
<1>1. PICK S : S = [point : Points, region : Regions]
  OBVIOUS
<1>2. PICK T : T = [point : Points', region : Regions']
  OBVIOUS
<1>3. /\ pending \in Seq(S) /\ DistinctPoints(pending)
      /\ pending' \in Seq(T) /\ DistinctPoints(pending')
  BY <1>1, <1>2 DEF IInv, TypeOK, PointsInv, DistinctPoints
<1>4. InFlight(j)' = Cardinality(EntriesOf(pending', j))
  <2>1. Cardinality(PlacesOf(pending', j)) = Cardinality(EntriesOf(pending', j))
    BY <1>3, CountByEntry
  <2>2. QED
    BY <2>1 DEF InFlight, PlacesOf
<1>5. /\ InFlight(j) = Cardinality(EntriesOf(pending, j)) /\ InFlight(j) \in Nat
      /\ IsFiniteSet(EntriesOf(pending, j))
  <2>1. /\ IsFiniteSet(EntriesOf(pending, j)) /\ Cardinality(EntriesOf(pending, j)) \in Nat
        /\ Cardinality(PlacesOf(pending, j)) = Cardinality(EntriesOf(pending, j))
    BY <1>3, CountByEntry
  <2>2. QED
    BY <2>1 DEF InFlight, PlacesOf
<1>6. QED
  BY <1>4, <1>5

\* Asking puts one more point of region k in flight.
LEMMA InFlightAsked ==
    ASSUME IInv, PointsInv, IInv', PointsInv', NEW k \in Regions, Register(k), NEW j
    PROVE  InFlight(j)' = (IF j = k THEN InFlight(j) + 1 ELSE InFlight(j))
           /\ InFlight(j) \in Nat
<1>1. PICK n : n = Len(origin) + 1
  OBVIOUS
<1>2. PICK e : e = [point |-> n, region |-> k]
  OBVIOUS
<1>3. n \notin Points /\ Range(pending') = Range(pending) \cup {e}
  <2>1. n \notin Points /\ Range(pending)' = Range(pending) \cup {e}
    BY <1>1, <1>2, RegisterPoints
  <2>2. QED
    BY <2>1 DEF Range
<1>4. e \notin Range(pending) /\ e.region = k
  BY <1>2, <1>3, PointsTyped
<1>5. EntriesOf(pending', j) = IF j = k THEN EntriesOf(pending, j) \cup {e}
                               ELSE EntriesOf(pending, j)
  BY <1>3, <1>4 DEF EntriesOf
<1>6. /\ InFlight(j) = Cardinality(EntriesOf(pending, j)) /\ InFlight(j) \in Nat
      /\ InFlight(j)' = Cardinality(EntriesOf(pending', j))
      /\ IsFiniteSet(EntriesOf(pending, j))
  BY InFlightOfStep
<1>7. e \notin EntriesOf(pending, j)
  BY <1>4 DEF EntriesOf
<1>8. Cardinality(EntriesOf(pending, j) \cup {e}) = Cardinality(EntriesOf(pending, j)) + 1
  BY <1>6, <1>7, FS_AddElement
<1>9. QED
  BY <1>5, <1>6, <1>8

\* A tell takes one point of its region out of flight.
LEMMA InFlightTold ==
    ASSUME IInv, PointsInv, IInv', PointsInv', NEW i \in DOMAIN pending,
           pending' = Without(i), NEW j
    PROVE  InFlight(j)' = (IF j = RegionOf(i) THEN InFlight(j) - 1 ELSE InFlight(j))
           /\ InFlight(j) \in Nat
<1>1. PICK e : e = pending[i]
  OBVIOUS
<1>2. e \in Range(pending) /\ Range(pending') = Range(pending) \ {e}
  <2>1. e \in Range(pending) /\ Range(pending)' = Range(pending) \ {e}
    BY <1>1, CompletePoints
  <2>2. QED
    BY <2>1 DEF Range
<1>3. e.region = RegionOf(i)
  BY <1>1 DEF RegionOf
<1>4. EntriesOf(pending', j) = IF j = RegionOf(i) THEN EntriesOf(pending, j) \ {e}
                               ELSE EntriesOf(pending, j)
  BY <1>2, <1>3 DEF EntriesOf
<1>5. /\ InFlight(j) = Cardinality(EntriesOf(pending, j)) /\ InFlight(j) \in Nat
      /\ InFlight(j)' = Cardinality(EntriesOf(pending', j))
      /\ IsFiniteSet(EntriesOf(pending, j))
  BY InFlightOfStep
<1>6. j = RegionOf(i) =>
         Cardinality(EntriesOf(pending, j) \ {e}) = Cardinality(EntriesOf(pending, j)) - 1
  <2>1. j = RegionOf(i) => e \in EntriesOf(pending, j)
    BY <1>2, <1>3 DEF EntriesOf
  <2>2. QED
    BY <1>5, <2>1, FS_RemoveElement
<1>7. QED
  BY <1>4, <1>5, <1>6

-----------------------------------------------------------------------------
\* No step before the first restart lets a region get more than one point ahead of
\* another that is still in its design.
LEMMA DesignsStep ==
    ASSUME IInv, PointsInv, RowsInv, DesignsAdvanceTogether, [Next]_vars,
           IInv', PointsInv'
    PROVE  DesignsAdvanceTogether'
<1>1. config' = config /\ Regions' = Regions /\ config.required \in Nat
  <2>1. config \in Configs
    BY DEF IInv, TypeOK
  <2>2. config' = config
    BY DEF Next, Ask, Tell, AskDesign, AskExhausted, AskBandit, AskNoSurrogate,
           TellAccepted, TellRefused, vars
  <2>3. QED
    BY <2>1, <2>2, ConfigFacts DEF Regions
<1>2. \A j \in Regions : Len(histories[j].rows) \in Nat
  <2> SUFFICES ASSUME NEW j \in Regions PROVE Len(histories[j].rows) \in Nat
    OBVIOUS
  <2>1. histories[j] \in HistoryType(Points)
    BY DEF IInv, HistoriesTyped
  <2>2. histories[j].rows \in Seq(RowType(Points))
    BY <2>1 DEF HistoryType
  <2>3. QED
    BY <2>2, LenProperties
<1>3. CASE AskDesign
  <2>1. PICK k \in Regions : IsNextDesign(k) /\ Register(k)
    BY <1>3 DEF AskDesign
  <2>2. histories' = histories /\ restarts' = restarts
    BY <1>3 DEF AskDesign
  <2>3. ASSUME NEW j \in Regions
        PROVE  /\ Have(j)' = (IF j = k THEN Have(j) + 1 ELSE Have(j)) /\ Have(j) \in Nat
               /\ NeedsDesign(j)' => NeedsDesign(j)
    <3>1. /\ InFlight(j)' = (IF j = k THEN InFlight(j) + 1 ELSE InFlight(j))
          /\ InFlight(j) \in Nat
      BY <2>1, InFlightAsked
    <3>2. /\ Have(j) = Len(histories[j].rows) + InFlight(j)
          /\ Have(j)' = Len(histories[j].rows) + InFlight(j)'
      BY <2>2, Zenon DEF Have
    <3>3. Have(j)' = (IF j = k THEN Have(j) + 1 ELSE Have(j)) /\ Have(j) \in Nat
      <4>1. Len(histories[j].rows) \in Nat
        BY <1>2
      <4>2. CASE j = k
        BY <3>1, <3>2, <4>1, <4>2
      <4>3. CASE j # k
        BY <3>1, <3>2, <4>1, <4>3
      <4>4. QED
        BY <4>2, <4>3
    <3>4. HasUsable(j)' <=> HasUsable(j)
      BY <2>2 DEF HasUsable
    <3>5. QED
      BY <1>1, <3>3, <3>4 DEF NeedsDesign
  <2>4. QED
    <3> SUFFICES ASSUME restarts = 0, NEW i \in Regions, NEW j \in Regions,
                        NeedsDesign(i)', NeedsDesign(j)'
                 PROVE  Have(i)' - Have(j)' \in -1..1
      BY <1>1, <2>2 DEF DesignsAdvanceTogether
    <3>1. NeedsDesign(i) /\ NeedsDesign(j)
      BY <2>3
    <3>2. Have(i) - Have(j) \in -1..1
      BY <3>1 DEF DesignsAdvanceTogether
    <3>3. Have(k) <= Have(i) /\ Have(k) <= Have(j)
      BY <2>1, <2>3, <3>1 DEF IsNextDesign
    <3>4. QED
      BY <2>3, <3>2, <3>3
<1>4. CASE AskBandit
  <2>1. PICK k \in Regions : Register(k)
    BY <1>4 DEF AskBandit, Pool
  <2>2. histories' = histories /\ \A j \in Regions : ~NeedsDesign(j)
    BY <1>4 DEF AskBandit
  <2>3. ASSUME NEW j \in Regions PROVE ~NeedsDesign(j)'
    <3>1. /\ InFlight(j)' = (IF j = k THEN InFlight(j) + 1 ELSE InFlight(j))
          /\ InFlight(j) \in Nat
      BY <2>1, InFlightAsked
    <3>2. /\ Have(j) = Len(histories[j].rows) + InFlight(j)
          /\ Have(j)' = Len(histories[j].rows) + InFlight(j)'
      BY <2>2, Zenon DEF Have
    <3>3. Have(j)' >= Have(j) /\ Have(j)' \in Nat /\ Have(j) \in Nat
      <4>1. Len(histories[j].rows) \in Nat
        BY <1>2
      <4>2. PICK m, n, d : m = InFlight(j) /\ n = InFlight(j)'
                           /\ d = Len(histories[j].rows)
        OBVIOUS
      <4>3. Have(j) = d + m /\ Have(j)' = d + n
        BY <3>2, <4>2
      <4>4. m \in Nat /\ n \in {m, m + 1} /\ d \in Nat
        BY <3>1, <4>1, <4>2
      <4>5. d + n >= d + m /\ d + n \in Nat /\ d + m \in Nat
        BY <4>4
      <4>6. QED
        BY <4>3, <4>5
    <3>4. HasUsable(j)' <=> HasUsable(j)
      BY <2>2 DEF HasUsable
    <3>5. QED
      BY <1>1, <2>2, <3>3, <3>4 DEF NeedsDesign
  <2>4. QED
    BY <1>1, <2>3 DEF DesignsAdvanceTogether
<1>5. ASSUME UNCHANGED <<config, histories, pending, restarts>>
      PROVE  DesignsAdvanceTogether'
  <2>1. \A j : Have(j)' = Have(j) /\ (NeedsDesign(j)' <=> NeedsDesign(j))
    BY <1>5 DEF Have, InFlight, NeedsDesign, HasUsable
  <2>2. QED
    BY <1>1, <1>5, <2>1 DEF DesignsAdvanceTogether
<1>6. CASE AskExhausted \/ AskNoSurrogate
  BY <1>5, <1>6 DEF AskExhausted, AskNoSurrogate
<1>7. CASE UNCHANGED vars
  BY <1>5, <1>7 DEF vars
<1>8. ASSUME NEW i \in DOMAIN pending, NEW a \in Answers, TellAccepted(i, a)
      PROVE  DesignsAdvanceTogether'
  <2>1. PICK k, p : k = RegionOf(i) /\ p = pending[i].point
    OBVIOUS
  <2>2. PICK o : o = IF regions[k].active THEN Observe(regions[k], p, a.value)
                     ELSE regions[k]
    OBVIOUS
  <2>3. PICK h : h = histories[k]
    OBVIOUS
  <2>4. PICK u : u = [h EXCEPT !.rows = Append(h.rows, ToldRow(p, a))]
    OBVIOUS
  <2>5. /\ k \in Regions /\ p \in Points /\ a \in Result
        /\ histories'[k] = IF Collapses(regions[k], o) THEN NewHistory ELSE u
        /\ \A j \in Regions \ {k} : histories'[j] = histories[j]
        /\ restarts' = IF Collapses(regions[k], o) THEN restarts + 1 ELSE restarts
    BY <1>8, <2>1, <2>2, <2>3, <2>4, AcceptedRows
  <2>6. restarts \in Nat
    BY DEF IInv, TypeOK
  <2>7. CASE Collapses(regions[k], o)
    <3>1. restarts' # 0
      BY <2>5, <2>6, <2>7
    <3>2. QED
      BY <3>1 DEF DesignsAdvanceTogether
  <2>8. CASE ~Collapses(regions[k], o)
    <3>1. /\ h \in HistoryType(Points) /\ Measured(h)
          /\ histories'[k] = u /\ restarts' = restarts
      BY <2>1, <2>3, <2>5, <2>8, AcceptedShape
    <3>2. /\ Len(u.rows) = Len(h.rows) + 1 /\ Len(h.rows) \in Nat
          /\ UsableRows(h) # {} => UsableRows(u) # {}
      BY <2>4, <2>5, <3>1, RowPointsGrow
    <3>3. pending' = Without(i)
      BY <1>8 DEF TellAccepted
    <3>4. ASSUME NEW j \in Regions
          PROVE  /\ Have(j)' = Have(j) /\ (NeedsDesign(j)' => NeedsDesign(j))
      <4>1. /\ InFlight(j)' = (IF j = k THEN InFlight(j) - 1 ELSE InFlight(j))
            /\ InFlight(j) \in Nat
        BY <2>1, <3>3, InFlightTold
      <4>2. Len(histories'[j].rows) = IF j = k THEN Len(histories[j].rows) + 1
                                      ELSE Len(histories[j].rows)
        BY <2>3, <2>5, <3>1, <3>2
      <4>3. Have(j)' = Have(j)
        <5>1. /\ Have(j) = Len(histories[j].rows) + InFlight(j)
              /\ Have(j)' = Len(histories'[j].rows) + InFlight(j)'
          BY Zenon DEF Have
        <5>2. QED
          BY <1>2, <4>1, <4>2, <5>1
      <4>4. HasUsable(j) => HasUsable(j)'
        BY <2>3, <2>5, <3>1, <3>2 DEF HasUsable
      <4>5. QED
        BY <1>1, <4>3, <4>4 DEF NeedsDesign
    <3>5. QED
      BY <1>1, <3>1, <3>4 DEF DesignsAdvanceTogether
  <2>9. QED
    BY <2>7, <2>8
<1>9. ASSUME NEW i \in DOMAIN pending, NEW a \in Answers, TellRefused(i, a)
      PROVE  DesignsAdvanceTogether'
  <2>1. /\ ~Recorded(histories[RegionOf(i)], pending[i].point, a).ok
        /\ restarts' = restarts
    BY <1>9 DEF TellRefused
  <2>2. /\ a \in Result /\ RegionOf(i) \in Regions /\ pending[i].point \in Points
        /\ histories[RegionOf(i)] \in HistoryType(Points)
    BY AcceptedShape
  <2>3. histories[RegionOf(i)].missing = "REFUSE"
    BY <2>1, <2>2, RefusedShape
  <2>4. restarts # 0
    BY <2>2, <2>3 DEF IInv, ImputeUntilRestart
  <2>5. QED
    BY <2>1, <2>4 DEF DesignsAdvanceTogether
<1>10. QED
  BY <1>3, <1>4, <1>6, <1>7, <1>8, <1>9 DEF Next, Ask, Tell

\* "With several regions the designs advance together": as long as no region has
\* restarted, no design in progress is more than one point ahead of another, whatever
\* the order of the answers and the failures among them.
THEOREM DesignsStayLevel == Spec => []DesignsAdvanceTogether
<1>1. Init => DesignsAdvanceTogether
  <2> SUFFICES ASSUME Init, NEW j \in Regions, NEW k \in Regions
               PROVE  Have(j) - Have(k) \in -1..1
    BY DEF DesignsAdvanceTogether
  <2>1. ASSUME NEW i \in Regions PROVE Have(i) = 0
    <3>1. histories[i].rows = <<>> /\ pending = <<>>
      BY DEF Init, DriverHistory, NewHistory
    <3>2. {m \in DOMAIN pending : pending[m].region = i} = {}
      BY <3>1
    <3>3. InFlight(i) = 0
      BY <3>2, FS_EmptySet DEF InFlight
    <3>4. QED
      BY <3>1, <3>3 DEF Have
  <2>2. QED
    BY <2>1
<1>2. QED
  BY <1>1, DesignsStep, PointsInvariant, RowsInvariant, PTL DEF Spec

-----------------------------------------------------------------------------
\* One turn of the loop that records a batch: s holds the history after each turn.
LearnStep(S, k, a, s, i) ==
    IF i = 0 THEN histories[k]
    ELSE IF i \in S THEN Recorded(s[i - 1], pending[i].point, a[i]).h
    ELSE s[i - 1]

\* The loop runs to its end, whatever its length.
LEMMA LearnExists ==
    ASSUME NEW S, NEW k, NEW a, NEW L \in Nat
    PROVE  \E s : s = [i \in 0..L |-> LearnStep(S, k, a, s, i)]
<1> DEFINE Reaches(m) == \E s : s = [i \in 0..m |-> LearnStep(S, k, a, s, i)]
           T == {m \in Nat : ~Reaches(m)}
<1>1. ASSUME T # {} PROVE FALSE
  <2>1. PICK m \in T : \A l \in T : m <= l
    <3>1. T \subseteq Nat
      OBVIOUS
    <3> HIDE DEF T
    <3>2. QED
      BY <1>1, <3>1, LeastNat
  <2>2. m \in Nat /\ ~Reaches(m)
    OBVIOUS
  <2>3. CASE m = 0
    <3>1. PICK s : s = [i \in 0..0 |-> histories[k]]
      OBVIOUS
    <3>2. \A i \in 0..0 : LearnStep(S, k, a, s, i) = histories[k]
      BY DEF LearnStep
    <3>3. s = [i \in 0..0 |-> LearnStep(S, k, a, s, i)]
      BY <3>1, <3>2
    <3>4. QED
      BY <2>2, <2>3, <3>3
  <2>4. CASE m # 0
    <3>1. PICK l : l = m - 1
      OBVIOUS
    <3>2. l \in Nat /\ l < m /\ m = l + 1 /\ 0..m = 0..l \cup {m} /\ m \notin 0..l
      BY <2>2, <2>4, <3>1
    <3>3. l \notin T
      BY <2>1, <2>2, <3>2
    <3>4. PICK s : s = [i \in 0..l |-> LearnStep(S, k, a, s, i)]
      BY <3>2, <3>3
    <3>5. PICK t : t = [i \in 0..m |-> IF i = m THEN LearnStep(S, k, a, s, m) ELSE s[i]]
      OBVIOUS
    <3>6. \A i \in 0..l : t[i] = s[i]
      BY <3>2, <3>5
    <3>7. \A i \in 0..m : i # 0 => i - 1 \in 0..l
      BY <3>2
    <3>8. \A i \in 0..m : i # 0 => t[i - 1] = s[i - 1]
      BY <3>6, <3>7
    <3>9. \A i \in 0..m : LearnStep(S, k, a, t, i) = LearnStep(S, k, a, s, i)
      BY <3>8 DEF LearnStep
    <3>10. \A i \in 0..l : s[i] = LearnStep(S, k, a, s, i)
      BY <3>4
    <3>11. \A i \in 0..m : t[i] = LearnStep(S, k, a, t, i)
      BY <3>2, <3>5, <3>9, <3>10
    <3>12. t = [i \in 0..m |-> t[i]]
      BY <3>5
    <3>13. t = [i \in 0..m |-> LearnStep(S, k, a, t, i)]
      BY <3>11, <3>12
    <3>14. QED
      BY <2>2, <3>13
  <2>5. QED
    BY <2>3, <2>4
<1>2. QED
  BY <1>1

\* What region k may learn of a batch: results of asked points, and failures only while
\* its history imputes them.
MayLearn(P, k, S, a) ==
    /\ histories[k] \in HistoryType(P) /\ Measured(histories[k])
    /\ Len(pending) \in Nat /\ S \subseteq 1..Len(pending)
    /\ \A i \in S : /\ pending[i].point \in P /\ a[i] \in Result
                    /\ a[i].ok \/ histories[k].missing # "REFUSE"

\* g is that history after the answers S up to the n-th.
HasLearned(P, k, S, n, g) ==
    /\ g \in HistoryType(P) /\ Measured(g) /\ g.missing = histories[k].missing
    /\ Inputs(g) \subseteq Inputs(histories[k]) \cup {pending[i].point : i \in S}
    /\ Len(g.rows) = Len(histories[k].rows) + Cardinality(S \cap (1..n))

\* One more turn.
LEMMA LearnTurn ==
    ASSUME NEW P, NEW k, NEW S, NEW a, MayLearn(P, k, S, a),
           NEW m \in Nat, m + 1 <= Len(pending), NEW s, HasLearned(P, k, S, m, s[m])
    PROVE  HasLearned(P, k, S, m + 1, LearnStep(S, k, a, s, m + 1))
<1>1. PICK n : n = m + 1
  OBVIOUS
<1>2. n \in Nat /\ n # 0 /\ n - 1 = m /\ 1..n = 1..m \cup {n} /\ n \notin 1..m
  BY <1>1
<1>3. PICK g : g = s[m]
  OBVIOUS
<1>4. /\ g \in HistoryType(P) /\ Measured(g) /\ g.missing = histories[k].missing
      /\ Inputs(g) \subseteq Inputs(histories[k]) \cup {pending[i].point : i \in S}
      /\ Len(g.rows) = Len(histories[k].rows) + Cardinality(S \cap (1..m))
  BY <1>3 DEF HasLearned
<1>5. IsFiniteSet(S \cap (1..m)) /\ Cardinality(S \cap (1..m)) \in Nat
  <2>1. IsFiniteSet(1..m)
    BY FS_Interval
  <2>2. S \cap (1..m) \subseteq 1..m
    OBVIOUS
  <2>3. QED
    BY <2>1, <2>2, FS_Subset, FS_CardinalityType
<1>6. Len(histories[k].rows) \in Nat
  BY DEF MayLearn, HistoryType
<1>7. CASE n \in S
  <2>1. PICK p, r : p = pending[n].point /\ r = a[n]
    OBVIOUS
  <2>2. p \in P /\ r \in Result /\ (r.ok \/ g.missing # "REFUSE")
    BY <1>4, <1>7, <2>1 DEF MayLearn
  <2>3. Recorded(g, p, r) = Accepted(g, Append(g.rows, ToldRow(p, r)))
    BY <1>4, <2>2, RecordedShape
  <2>4. PICK f : f = Recorded(g, p, r).h
    OBVIOUS
  <2>5. f = [g EXCEPT !.rows = Append(g.rows, ToldRow(p, r))]
    BY <2>3, <2>4 DEF Accepted
  <2>6. f \in HistoryType(P) /\ Measured(f) /\ f.missing = g.missing
    BY <1>4, <2>2, <2>5, AppendedHistory
  <2>7. Inputs(f) = Inputs(g) \cup {p} /\ Len(f.rows) = Len(g.rows) + 1
    BY <1>4, <2>2, <2>5, RowPointsGrow
  <2>8. Inputs(f) \subseteq Inputs(histories[k]) \cup {pending[i].point : i \in S}
    BY <1>4, <1>7, <2>1, <2>7
  <2>9. S \cap (1..n) = (S \cap (1..m)) \cup {n} /\ n \notin S \cap (1..m)
    BY <1>2, <1>7
  <2>10. Cardinality(S \cap (1..n)) = Cardinality(S \cap (1..m)) + 1
    BY <1>5, <2>9, FS_AddElement
  <2>11. Len(f.rows) = Len(histories[k].rows) + Cardinality(S \cap (1..n))
    <3>1. PICK u, v, w : /\ u = Len(histories[k].rows) /\ v = Cardinality(S \cap (1..m))
                         /\ w = Cardinality(S \cap (1..n))
      OBVIOUS
    <3>2. u \in Nat /\ v \in Nat /\ w = v + 1 /\ Len(g.rows) = u + v
      BY <1>4, <1>5, <1>6, <2>10, <3>1
    <3>3. Len(f.rows) = u + w
      BY <2>7, <3>2
    <3>4. QED
      BY <3>1, <3>3
  <2>12. LearnStep(S, k, a, s, n) = f
    BY <1>2, <1>3, <1>7, <2>1, <2>4 DEF LearnStep
  <2>13. HasLearned(P, k, S, n, f)
    BY <1>4, <2>6, <2>8, <2>11 DEF HasLearned
  <2>14. QED
    BY <1>1, <2>12, <2>13
<1>8. CASE n \notin S
  <2>1. LearnStep(S, k, a, s, n) = g
    BY <1>2, <1>3, <1>8 DEF LearnStep
  <2>2. S \cap (1..n) = S \cap (1..m)
    BY <1>2, <1>8
  <2>3. HasLearned(P, k, S, n, g)
    BY <1>4, <2>2 DEF HasLearned
  <2>4. QED
    BY <1>1, <2>1, <2>3
<1>9. QED
  BY <1>7, <1>8

\* A region that learns answers of a batch has a row for each of them, of its point, and
\* keeps its policies.
LEMMA LearnedRows ==
    ASSUME NEW P, NEW k, NEW S, NEW a, MayLearn(P, k, S, a)
    PROVE  HasLearned(P, k, S, Len(pending), LearnedFrom(S, k, a))
<1> DEFINE L == Len(pending)
           loop == CHOOSE t : t = [i \in 0..L |-> LearnStep(S, k, a, t, i)]
<1>0. L \in Nat
  BY DEF MayLearn
<1>1. loop = [i \in 0..L |-> LearnStep(S, k, a, loop, i)]
  <2>1. \E s : s = [i \in 0..L |-> LearnStep(S, k, a, s, i)]
    BY <1>0, LearnExists
  <2>2. QED
    BY <2>1, Zenon
<1>2. LearnedFrom(S, k, a) = loop[L]
  BY Zenon DEF LearnedFrom, LearnStep
<1>3. PICK s : s = loop
  OBVIOUS
<1>4. /\ \A i \in 0..L : s[i] = LearnStep(S, k, a, s, i)
      /\ LearnedFrom(S, k, a) = s[L]
  <2> HIDE DEF loop
  <2>1. \A i \in 0..L : loop[i] = LearnStep(S, k, a, loop, i)
    BY <1>1
  <2>2. QED
    BY <1>2, <1>3, <2>1
<1> HIDE DEF loop
<1> DEFINE T == {n \in 0..L : ~HasLearned(P, k, S, n, s[n])}
<1>5. T = {}
  <2> SUFFICES ASSUME T # {} PROVE FALSE
    OBVIOUS
  <2>1. PICK n \in T : \A m \in T : n <= m
    <3>1. T \subseteq Nat
      BY <1>0
    <3> HIDE DEF T
    <3>2. QED
      BY <3>1, LeastNat
  <2>2. n \in 0..L /\ ~HasLearned(P, k, S, n, s[n])
    OBVIOUS
  <2>3. CASE n = 0
    <3>1. s[n] = histories[k]
      BY <1>0, <1>4, <2>2, <2>3 DEF LearnStep
    <3>2. S \cap (1..n) = {}
      BY <2>3
    <3>3. Cardinality(S \cap (1..n)) = 0
      BY <3>2, FS_EmptySet
    <3>4. Len(histories[k].rows) \in Nat
      BY DEF MayLearn, HistoryType
    <3>5. QED
      BY <2>2, <3>1, <3>3, <3>4 DEF HasLearned, MayLearn
  <2>4. CASE n # 0
    <3>1. PICK m : m = n - 1
      OBVIOUS
    <3>2. m \in Nat /\ m \in 0..L /\ n = m + 1 /\ m < n /\ m + 1 <= L
      BY <1>0, <2>2, <2>4, <3>1
    <3>3. m \notin T
      BY <2>1, <2>2, <3>2
    <3>4. HasLearned(P, k, S, m, s[m])
      BY <3>2, <3>3
    <3>5. HasLearned(P, k, S, m + 1, LearnStep(S, k, a, s, m + 1))
      BY <3>2, <3>4, LearnTurn
    <3>6. QED
      BY <1>4, <2>2, <3>2, <3>5
  <2>5. QED
    BY <2>3, <2>4
<1>6. QED
  BY <1>0, <1>4, <1>5

-----------------------------------------------------------------------------
\* What the choice of a batch's slots needs to know of the driver.
RowsCounted == config \in Configs /\ \A k \in Regions : Len(histories[k].rows) \in Nat

\* The first slots of a list of slots.
LEMMA FirstSlots ==
    ASSUME NEW R, NEW n \in Nat, NEW rs \in [1..n -> R], NEW m \in 0..n
    PROVE  /\ SubSeq(rs, 1, m) = [j \in 1..m |-> rs[j]]
           /\ SubSeq(rs, 1, m) \in [1..m -> R]
<1>1. rs \in Seq(R)
  OBVIOUS
<1>2. SubSeq(rs, 1, m) = [j \in 1..(m - 1 + 1) |-> rs[1 + j - 1]]
  OBVIOUS
<1>3. m - 1 + 1 = m /\ \A j \in 1..m : 1 + j - 1 = j /\ j \in 1..n
  OBVIOUS
<1>4. QED
  BY <1>2, <1>3

\* The points a region has with the slots assigned to it are a natural number.
LEMMA HaveCounts ==
    ASSUME RowsCounted, NEW n \in Nat, NEW rs \in [1..n -> Regions], NEW k \in Regions
    PROVE  /\ IsFiniteSet({i \in 1..n : rs[i] = k})
           /\ Assigned(rs, k) = Cardinality({i \in 1..n : rs[i] = k})
           /\ Assigned(rs, k) \in Nat /\ HaveWith(rs, k) \in Nat
<1>1. {i \in 1..n : rs[i] = k} \subseteq 1..n /\ IsFiniteSet(1..n)
  BY FS_Interval
<1>2. IsFiniteSet({i \in 1..n : rs[i] = k}) /\ Cardinality({i \in 1..n : rs[i] = k}) \in Nat
  BY <1>1, FS_Subset, FS_CardinalityType
<1>3. DOMAIN rs = 1..n
  OBVIOUS
<1>4. Assigned(rs, k) = Cardinality({i \in 1..n : rs[i] = k})
  BY <1>3 DEF Assigned
<1>5. QED
  BY <1>2, <1>4 DEF HaveWith, RowsCounted

\* As long as a region needs a design point, one of them is next.
LEMMA NextExists ==
    ASSUME RowsCounted, NEW n \in Nat, NEW rs \in [1..n -> Regions],
           \E k \in Regions : NeedsDesignWith(rs, k)
    PROVE  \E k \in Regions : IsNextWith(rs, k)
<1> DEFINE N == {k \in Regions : NeedsDesignWith(rs, k)}
           H == {HaveWith(rs, k) : k \in N}
<1>1. \A k \in Regions : HaveWith(rs, k) \in Nat
  BY HaveCounts
<1>2. PICK h \in H : \A g \in H : h <= g
  <2>1. H \subseteq Nat /\ H # {}
    BY <1>1
  <2> HIDE DEF H
  <2>2. QED
    BY <2>1, LeastNat
<1> DEFINE L == {k \in N : HaveWith(rs, k) = h}
<1>3. PICK k \in L : \A j \in L : k <= j
  <2>1. L \subseteq Nat /\ L # {}
    BY <1>2, ConfigFacts DEF RowsCounted
  <2> HIDE DEF L
  <2>2. QED
    BY <2>1, LeastNat
<1>4. ASSUME NEW j \in Regions, NeedsDesignWith(rs, j)
      PROVE  \/ HaveWith(rs, k) < HaveWith(rs, j)
             \/ HaveWith(rs, k) = HaveWith(rs, j) /\ k <= j
  <2>1. HaveWith(rs, j) \in H /\ HaveWith(rs, k) = h
    BY <1>3, <1>4
  <2>2. h <= HaveWith(rs, j) /\ h \in Nat /\ HaveWith(rs, j) \in Nat
    BY <1>1, <1>2, <2>1, <1>3
  <2>3. CASE HaveWith(rs, j) = h
    BY <1>3, <1>4, <2>1, <2>3
  <2>4. CASE HaveWith(rs, j) # h
    <3> HIDE DEF H, L
    <3>1. QED
      BY <2>1, <2>2, <2>4
  <2>5. QED
    BY <2>3, <2>4
<1>5. k \in Regions /\ NeedsDesignWith(rs, k)
  BY <1>3
<1>6. IsNextWith(rs, k)
  BY <1>4, <1>5 DEF IsNextWith
<1>7. QED
  BY <1>5, <1>6

\* Every slot of the list goes to the region that is next at its turn.
IsServed(n, rs) ==
    /\ rs \in [1..n -> Regions]
    /\ \A i \in 1..n : IsNextWith(SubSeq(rs, 1, i - 1), rs[i])

\* One more slot for the region that is next.
LEMMA ServeNext ==
    ASSUME NEW n \in Nat, NEW rs, IsServed(n, rs), NEW k \in Regions, IsNextWith(rs, k),
           NEW q, q = [i \in 1..(n + 1) |-> IF i = n + 1 THEN k ELSE rs[i]]
    PROVE  IsServed(n + 1, q)
<1>1. PICK m : m = n + 1
  OBVIOUS
<1>2. m \in Nat /\ n \in 0..m /\ 1..m = 1..n \cup {m} /\ m \notin 1..n /\ m - 1 = n
  BY <1>1
<1>3. rs \in [1..n -> Regions] /\ q \in [1..m -> Regions]
  BY <1>1 DEF IsServed
<1>4. ASSUME NEW i \in 1..m
      PROVE  SubSeq(q, 1, i - 1) = SubSeq(rs, 1, i - 1)
  <2>1. PICK l : l = i - 1
    OBVIOUS
  <2>2. l \in 0..n /\ l \in 0..m /\ \A j \in 1..l : j \in 1..n /\ j \in 1..m /\ j # m
    BY <1>2, <2>1
  <2>3. \A j \in 1..l : q[j] = rs[j]
    BY <1>1, <2>2
  <2>4. SubSeq(q, 1, l) = [j \in 1..l |-> q[j]]
    BY <1>2, <1>3, <2>2, FirstSlots
  <2>5. SubSeq(rs, 1, l) = [j \in 1..l |-> rs[j]]
    BY <1>3, <2>2, FirstSlots
  <2>6. QED
    BY <2>1, <2>3, <2>4, <2>5
<1>5. SubSeq(rs, 1, n) = rs
  <2>1. n \in 0..n
    OBVIOUS
  <2>2. SubSeq(rs, 1, n) = [j \in 1..n |-> rs[j]]
    BY <1>3, <2>1, FirstSlots
  <2>3. rs = [j \in 1..n |-> rs[j]]
    BY <1>3
  <2>4. QED
    BY <2>2, <2>3
<1>6. ASSUME NEW i \in 1..m
      PROVE  IsNextWith(SubSeq(q, 1, i - 1), q[i])
  <2>1. CASE i = m
    BY <1>1, <1>2, <1>4, <1>5, <2>1
  <2>2. CASE i # m
    <3>1. i \in 1..n /\ q[i] = rs[i]
      BY <1>1, <1>2, <2>2
    <3>2. IsNextWith(SubSeq(rs, 1, i - 1), rs[i])
      BY <3>1 DEF IsServed
    <3>3. QED
      BY <1>4, <3>1, <3>2
  <2>3. QED
    BY <2>1, <2>2
<1>7. QED
  BY <1>1, <1>3, <1>6 DEF IsServed

\* A batch always has a list of design slots: the longest served list that fits.
LEMMA DesignExists ==
    ASSUME RowsCounted
    PROVE  \E n \in 0..config.batch :
              /\ Len(Design) = n /\ DOMAIN Design = 1..n /\ IsServed(n, Design)
              /\ n < config.batch => \A k \in Regions : ~NeedsDesignWith(Design, k)
<1> DEFINE B == config.batch
           Served(n) == \E rs : IsServed(n, rs)
           T == {m \in Nat : m <= B /\ Served(B - m)}
<1>0. B \in Nat
  BY ConfigFacts DEF RowsCounted
<1>1. PICK m \in T : \A l \in T : m <= l
  <2>1. Served(0)
    <3>1. PICK e : e = [i \in 1..0 |-> 1]
      OBVIOUS
    <3>2. 1..0 = {} /\ e \in [1..0 -> Regions]
      BY <3>1
    <3>3. QED
      BY <3>2 DEF IsServed
  <2>2. B \in T
    <3>1. B - B = 0 /\ B <= B
      BY <1>0
    <3> HIDE DEF B
    <3>2. QED
      BY <1>0, <2>1, <3>1
  <2>3. T \subseteq Nat /\ T # {}
    BY <2>2
  <2> HIDE DEF T
  <2>4. QED
    BY <2>3, LeastNat
<1>2. PICK n : n = B - m
  OBVIOUS
<1> HIDE DEF B
<1>3. n \in Nat /\ n \in 0..B /\ Served(n) /\ m \in Nat /\ m <= B
  BY <1>0, <1>1, <1>2
<1>4. PICK rs : IsServed(n, rs)
  BY <1>3
<1>5. rs \in [1..n -> Regions] /\ Len(rs) = n /\ DOMAIN rs = 1..n
  <2>1. rs \in [1..n -> Regions]
    BY <1>4 DEF IsServed
  <2>2. rs \in Seq(Regions)
    BY <1>3, <2>1
  <2>3. QED
    BY <1>3, <2>1, <2>2
<1>6. n < B => \A k \in Regions : ~NeedsDesignWith(rs, k)
  <2> SUFFICES ASSUME n < B, NEW j \in Regions, NeedsDesignWith(rs, j) PROVE FALSE
    OBVIOUS
  <2>1. PICK k \in Regions : IsNextWith(rs, k)
    BY <1>3, <1>5, NextExists
  <2>2. PICK q : q = [i \in 1..(n + 1) |-> IF i = n + 1 THEN k ELSE rs[i]]
    OBVIOUS
  <2>3. IsServed(n + 1, q)
    BY <1>3, <1>4, <2>1, <2>2, ServeNext
  <2>4. PICK l : l = m - 1
    OBVIOUS
  <2>5. l \in Nat /\ l <= B /\ B - l = n + 1 /\ ~(m <= l)
    BY <1>0, <1>2, <1>3, <2>4
  <2>6. Served(B - l)
    BY <2>3, <2>5
  <2>7. QED
    BY <1>1, <2>5, <2>6
<1>7. IsDesign(rs)
  BY <1>4, <1>5, <1>6 DEF IsDesign, IsServed, B
<1>8. rs \in UNION {[1..l -> Regions] : l \in 0..config.batch}
  BY <1>3, <1>5 DEF B
<1>9. /\ Design \in UNION {[1..l -> Regions] : l \in 0..config.batch}
      /\ IsDesign(Design)
  BY <1>7, <1>8 DEF Design
<1>10. PICK l \in 0..config.batch : Design \in [1..l -> Regions]
  BY <1>9
<1>11. l \in Nat
  BY <1>0 DEF B
<1>12. Len(Design) = l /\ DOMAIN Design = 1..l
  <2>1. Design \in Seq(Regions)
    BY <1>10, <1>11
  <2>2. QED
    BY <1>10, <1>11, <2>1
<1>13. IsServed(l, Design)
  BY <1>9, <1>10, <1>12 DEF IsDesign, IsServed
<1>14. l < config.batch => \A k \in Regions : ~NeedsDesignWith(Design, k)
  BY <1>9, <1>12 DEF IsDesign
<1>15. QED
  BY <1>12, <1>13, <1>14

-----------------------------------------------------------------------------
\* A region, whatever its numbers are.
IsRegion(r) ==
    /\ r = [length |-> r.length, success |-> r.success, failure |-> r.failure,
            center |-> r.center, centerValue |-> r.centerValue, active |-> r.active,
            placed |-> r.placed, restarts |-> r.restarts, event |-> r.event,
            tolerance |-> r.tolerance]
    /\ r.active \in BOOLEAN /\ r.placed \in BOOLEAN /\ r.restarts \in Nat
    /\ r.active => r.placed

\* What a batch does to a region is no restart, and revives none.
LEMMA ObserveKeepsPlace ==
    ASSUME NEW r, IsRegion(r), NEW p, NEW v, NEW o, o = Observe(r, p, v)
    PROVE  /\ IsRegion(o) /\ o.placed = r.placed /\ o.restarts = r.restarts
           /\ o.active => r.active
<1>1. PICK c : c = Count(r, p, v)
  OBVIOUS
<1>2. /\ IsRegion(c) /\ c.placed = r.placed /\ c.restarts = r.restarts
      /\ c.active = r.active
  BY <1>1 DEF Count, Failed, IsRegion
<1>3. PICK d : d = Resize(c)
  OBVIOUS
<1>4. /\ IsRegion(d) /\ d.placed = c.placed /\ d.restarts = c.restarts
      /\ d.active = c.active
  BY <1>2, <1>3 DEF Resize, IsRegion
<1>5. o = Exhaust(d)
  BY <1>1, <1>3 DEF Observe
<1>6. /\ IsRegion(o) /\ o.placed = d.placed /\ o.restarts = d.restarts
      /\ o.active => d.active
  BY <1>4, <1>5 DEF Exhaust, IsRegion
<1>7. QED
  BY <1>2, <1>4, <1>6

\* The epoch of a region ends when it collapses and at no other time.
LEMMA ObservedEpoch ==
    ASSUME NEW r, IsRegion(r), NEW p, NEW v, NEW o, o \in {r, Observe(r, p, v)}
    PROVE  /\ IsRegion(o) /\ EpochOf(r) \in Nat
           /\ o.active => r.active
           /\ ~Collapses(r, o) => EpochOf(o) = EpochOf(r)
<1>1. IsRegion(o) /\ o.placed = r.placed /\ o.restarts = r.restarts /\ (o.active => r.active)
  BY ObserveKeepsPlace
<1>2. EpochOf(r) \in Nat
  BY DEF EpochOf, IsRegion
<1>3. ~Collapses(r, o) => EpochOf(o) = EpochOf(r)
  BY <1>1 DEF Collapses, EpochOf, IsRegion
<1>4. QED
  BY <1>1, <1>2, <1>3

\* Placing a region begins no other epoch than its collapse has begun.
LEMMA PlacedEpoch ==
    ASSUME NEW r, IsRegion(r), ~r.active, NEW p, NEW v, NEW o, o = Restart(r, p, v)
    PROVE  IsRegion(o) /\ EpochOf(o) = EpochOf(r)
<1>1. /\ o.active = TRUE /\ o.placed = TRUE
      /\ o.restarts = IF r.placed THEN r.restarts + 1 ELSE r.restarts
  BY DEF Restart
<1>2. o.restarts \in Nat /\ r.restarts \in Nat
  BY <1>1 DEF IsRegion
<1>3. IsRegion(o)
  BY <1>1, <1>2 DEF IsRegion, Restart
<1>4. EpochOf(o) = o.restarts
  BY <1>1, <1>2 DEF EpochOf
<1>5. EpochOf(r) = IF r.placed THEN r.restarts + 1 ELSE r.restarts
  BY <1>2 DEF EpochOf
<1>6. QED
  BY <1>1, <1>3, <1>4, <1>5

\* The batch mode: types; and every point of a region, in its history or with the
\* caller, belongs to the present epoch of the region.
BatchTyped ==
    /\ config \in Configs
    /\ origin \in Seq([region : Regions, epoch : Nat])
    /\ pending \in Seq([point : Points, region : Regions])
    /\ \A k \in Regions : IsRegion(regions[k])
    /\ \A k \in Regions : histories[k] \in HistoryType(Points) /\ Measured(histories[k])

PointsAreFresh ==
    /\ \A k \in Regions : \A p \in Inputs(histories[k]) : origin[p].epoch = Epoch(k)
    /\ \A i \in DOMAIN pending : origin[pending[i].point].epoch = Epoch(pending[i].region)

BatchInv == config \in Configs /\ (~config.completion => BatchTyped /\ PointsAreFresh)

\* The fields of a pending point, and the numbers of the driver.
LEMMA BatchFacts ==
    ASSUME BatchTyped
    PROVE  /\ Points = 1..Len(origin) /\ Len(origin) \in Nat
           /\ Len(pending) \in Nat /\ DOMAIN pending = 1..Len(pending)
           /\ \A i \in DOMAIN pending : pending[i].point \in Points
                                        /\ pending[i].region \in Regions
           /\ RowsCounted
<1>1. Points = 1..Len(origin) /\ Len(origin) \in Nat
  <2> DEFINE A == [region : Regions, epoch : Nat]
  <2>1. origin \in Seq(A)
    BY DEF BatchTyped
  <2> HIDE DEF A
  <2>2. QED
    BY <2>1 DEF Points
<1>2. /\ Len(pending) \in Nat /\ DOMAIN pending = 1..Len(pending)
      /\ \A i \in DOMAIN pending : pending[i].point \in Points
                                   /\ pending[i].region \in Regions
  <2> DEFINE A == [point : Points, region : Regions]
  <2>1. pending \in Seq(A)
    BY DEF BatchTyped
  <2>2. \A e \in A : e.point \in Points /\ e.region \in Regions
    OBVIOUS
  <2> HIDE DEF A
  <2>3. QED
    BY <2>1, <2>2
<1>3. RowsCounted
  BY DEF BatchTyped, RowsCounted, HistoryType
<1>4. QED
  BY <1>1, <1>2, <1>3

\* The slots of an ask are regions, as many as the batch.
LEMMA SlotsFill ==
    ASSUME BatchTyped, NEW picks \in [1..(config.batch - Len(Design)) -> Pool],
           NEW slots, slots = Design \o picks
    PROVE  /\ Len(Design) \in 0..config.batch /\ DOMAIN Design = 1..Len(Design)
           /\ slots \in Seq(Regions) /\ Len(slots) = config.batch
           /\ DOMAIN slots = 1..config.batch
           /\ \A i \in 1..Len(Design) : slots[i] = Design[i]
<1>1. config.batch \in Nat
  BY ConfigFacts DEF BatchTyped
<1>2. PICK n \in 0..config.batch : Len(Design) = n /\ DOMAIN Design = 1..n /\ IsServed(n, Design)
  BY BatchFacts, DesignExists
<1>3. Design \in Seq(Regions)
  BY <1>1, <1>2 DEF IsServed
<1>4. PICK m : m = config.batch - n
  OBVIOUS
<1>5. m \in Nat /\ n \in Nat /\ n + m = config.batch
  BY <1>1, <1>2, <1>4
<1>6. picks \in Seq(Regions) /\ Len(picks) = m
  <2>1. picks \in [1..m -> Regions]
    BY <1>2, <1>4 DEF Pool
  <2>2. QED
    BY <1>5, <2>1
<1>7. PICK d : d = Design
  OBVIOUS
<1>8. /\ slots \in Seq(Regions) /\ Len(slots) = n + m
      /\ \A i \in 1..n : slots[i] = d[i]
  <2>1. d \in Seq(Regions) /\ Len(d) = n /\ slots = d \o picks
    BY <1>2, <1>3, <1>7
  <2>2. /\ d \o picks \in Seq(Regions) /\ Len(d \o picks) = n + m
        /\ \A i \in 1..(n + m) : (d \o picks)[i] = IF i <= n THEN d[i] ELSE picks[i - n]
    BY <1>6, <2>1, ConcatProperties
  <2>3. QED
    BY <1>5, <2>1, <2>2
<1>9. DOMAIN slots = 1..Len(slots)
  BY <1>8
<1>10. QED
  BY <1>1, <1>2, <1>5, <1>7, <1>8, <1>9

\* The batch asked: its slots are the new points, each of the present epoch of its region.
LEMMA Remembered ==
    ASSUME BatchTyped, NEW slots \in Seq(Regions), Remember(slots), config' = config
    PROVE  /\ origin' \in Seq([region : Regions, epoch : Nat])
           /\ Points \subseteq Points'
           /\ pending' \in Seq([point : Points', region : Regions])
           /\ \A p \in Points : origin'[p] = origin[p]
           /\ Len(pending') = Len(slots) /\ DOMAIN pending' = DOMAIN slots
           /\ \A i \in DOMAIN pending' :
                 /\ pending'[i].region = slots[i]
                 /\ origin'[pending'[i].point].epoch = Epoch(slots[i])
<1> DEFINE E == [region : Regions, epoch : Nat]
<1>1. PICK n, L : n = Len(origin) /\ L = Len(slots)
  OBVIOUS
<1>2. /\ n \in Nat /\ L \in Nat /\ DOMAIN slots = 1..L /\ Points = 1..n
      /\ \A i \in 1..L : slots[i] \in Regions
  BY <1>1, BatchFacts
<1>3. PICK q : q = [i \in DOMAIN slots |-> [region |-> slots[i], epoch |-> Epoch(slots[i])]]
  OBVIOUS
<1>4. ASSUME NEW k \in Regions PROVE Epoch(k) \in Nat
  <2>1. PICK r : r = regions[k]
    OBVIOUS
  <2>2. IsRegion(r)
    BY <2>1 DEF BatchTyped
  <2>3. QED
    BY <2>1, <2>2 DEF IsRegion, Epoch
<1>5. \A i \in 1..L : q[i] \in E /\ q[i].epoch = Epoch(slots[i])
  BY <1>2, <1>3, <1>4
<1>6. q \in Seq(E) /\ Len(q) = L /\ origin \in Seq(E)
  <2>1. q \in [1..L -> E]
    BY <1>2, <1>3, <1>5
  <2>2. origin \in Seq(E)
    BY DEF BatchTyped
  <2> HIDE DEF E
  <2>3. QED
    BY <1>2, <2>1, <2>2
<1>7. origin' = origin \o q
  BY <1>3 DEF Remember
<1>8. /\ origin' \in Seq(E) /\ Len(origin') = n + L
      /\ \A i \in 1..n : origin'[i] = origin[i]
      /\ \A i \in 1..L : origin'[n + i] = q[i]
  <2>0. PICK F : F = E
    OBVIOUS
  <2>9. origin \in Seq(F) /\ q \in Seq(F) /\ Len(origin) = n /\ Len(q) = L
    BY <1>1, <1>6, <2>0
  <2>1. /\ origin \o q \in Seq(F) /\ Len(origin \o q) = n + L
        /\ \A i \in 1..(n + L) : (origin \o q)[i] = IF i <= n THEN origin[i] ELSE q[i - n]
    BY <2>9, ConcatProperties
  <2>2. \A i \in 1..n : i \in 1..(n + L) /\ i <= n
    BY <1>2
  <2>3. \A i \in 1..L : n + i \in 1..(n + L) /\ ~(n + i <= n) /\ (n + i) - n = i
    BY <1>2
  <2>4. QED
    BY <1>7, <2>0, <2>1, <2>2, <2>3
<1>9. Points' = 1..(n + L)
  <2> HIDE DEF E
  <2>1. DOMAIN origin' = 1..(n + L)
    BY <1>8
  <2>2. QED
    BY <2>1 DEF Points
<1>10. Points \subseteq Points'
  BY <1>2, <1>9
<1>11. pending' = [i \in DOMAIN slots |-> [point |-> n + i, region |-> slots[i]]]
  BY <1>1 DEF Remember
<1>12. \A i \in 1..L : /\ pending'[i].point = n + i /\ pending'[i].region = slots[i]
                       /\ pending'[i] \in [point : Points', region : Regions]
  BY <1>2, <1>9, <1>11
<1>13. pending' \in Seq([point : Points', region : Regions]) /\ Len(pending') = L
       /\ DOMAIN pending' = 1..L
  <2>1. PICK F : F = [point : Points', region : Regions]
    OBVIOUS
  <2>2. pending' \in [1..L -> F]
    BY <1>2, <1>11, <1>12, <2>1
  <2>3. pending' \in Seq(F) /\ Len(pending') = L /\ DOMAIN pending' = 1..L
    BY <1>2, <2>2
  <2>4. QED
    BY <2>1, <2>3
<1>14. \A i \in 1..L : origin'[pending'[i].point].epoch = Epoch(slots[i])
  BY <1>5, <1>8, <1>12
<1>15. QED
  BY <1>1, <1>2, <1>8, <1>10, <1>12, <1>13, <1>14

\* Asking a batch leaves every point in the epoch of its region.
LEMMA AskBatchFresh ==
    ASSUME BatchTyped, PointsAreFresh, AskBatch
    PROVE  BatchTyped' /\ PointsAreFresh'
<1>1. PICK picks \in [1..(config.batch - Len(Design)) -> Pool] : Remember(Design \o picks)
  BY DEF AskBatch
<1>2. PICK slots : slots = Design \o picks
  OBVIOUS
<1>3. slots \in Seq(Regions) /\ Remember(slots)
  BY <1>1, <1>2, SlotsFill
<1>4. config' = config /\ histories' = histories /\ Regions' = Regions
  BY DEF AskBatch, Regions
<1>5. /\ origin' \in Seq([region : Regions, epoch : Nat]) /\ Points \subseteq Points'
      /\ pending' \in Seq([point : Points', region : Regions])
      /\ \A p \in Points : origin'[p] = origin[p]
      /\ DOMAIN pending' = DOMAIN slots
      /\ \A i \in DOMAIN pending' : /\ pending'[i].region = slots[i]
                                    /\ origin'[pending'[i].point].epoch = Epoch(slots[i])
  BY <1>3, <1>4, Remembered
<1>6. ASSUME NEW k \in Regions
      PROVE  IsRegion(regions'[k]) /\ Epoch(k)' = Epoch(k)
  <2>1. PICK r, o : r = regions[k] /\ o = regions'[k]
    OBVIOUS
  <2>2. IsRegion(r)
    BY <2>1 DEF BatchTyped
  <2>3. o = IF Len(Design) < config.batch /\ k \in Pool /\ ~r.active THEN Placed(k) ELSE r
    BY <2>1 DEF AskBatch
  <2>4. \/ o = r
        \/ ~r.active /\ \E p, v : o = Restart(r, p, v)
    BY <2>1, <2>3 DEF Placed
  <2>5. IsRegion(o) /\ EpochOf(o) = EpochOf(r)
    BY <2>2, <2>4, PlacedEpoch
  <2>6. QED
    BY <2>1, <2>5 DEF Epoch, EpochOf
<1>7. ASSUME NEW k \in Regions
      PROVE  /\ histories[k] \in HistoryType(Points') /\ Measured(histories[k])
             /\ \A p \in Inputs(histories[k]) : p \in Points /\ origin[p].epoch = Epoch(k)
  <2>1. histories[k] \in HistoryType(Points) /\ Measured(histories[k])
    BY DEF BatchTyped
  <2>2. histories[k] \in HistoryType(Points')
    BY <1>5, <2>1, TypesGrow
  <2>3. \A p \in Inputs(histories[k]) : p \in Points
    BY <2>1, RowsTyped DEF Inputs
  <2>4. QED
    BY <2>1, <2>2, <2>3 DEF PointsAreFresh
<1>8. BatchTyped'
  BY <1>4, <1>5, <1>6, <1>7 DEF BatchTyped
<1>9. \A k \in Regions : \A p \in Inputs(histories[k]) : origin'[p].epoch = Epoch(k)'
  BY <1>5, <1>6, <1>7
<1>10. ASSUME NEW i \in DOMAIN pending'
       PROVE  origin'[pending'[i].point].epoch = Epoch(pending[i].region)'
  <2>1. slots[i] \in Regions
    BY <1>3, <1>5, <1>10
  <2>3. PICK k : k = slots[i]
    OBVIOUS
  <2>4. pending'[i].region = k /\ origin'[pending'[i].point].epoch = Epoch(k)
    BY <1>5, <1>10, <2>3
  <2>5. Epoch(k)' = Epoch(k)
    BY <1>6, <2>1, <2>3
  <2>6. Epoch(pending[i].region)' = regions'[k].restarts
            + (IF regions'[k].placed /\ ~regions'[k].active THEN 1 ELSE 0)
    BY <2>4 DEF Epoch
  <2>7. Epoch(k)' = regions'[k].restarts
            + (IF regions'[k].placed /\ ~regions'[k].active THEN 1 ELSE 0)
    BY DEF Epoch
  <2>8. QED
    BY <2>4, <2>5, <2>6, <2>7
<1>11. QED
  BY <1>4, <1>8, <1>9, <1>10 DEF PointsAreFresh

\* What a region may learn of a batch whose answers it takes.
LEMMA BatchMayLearn ==
    ASSUME BatchTyped, NEW a \in Batches, NEW k \in Regions
    PROVE  /\ MayLearn(Points, k, Taken(a) \cap Part(k), a)
           /\ HasLearned(Points, k, Taken(a) \cap Part(k), Len(pending), Learned(k, a))
<1> DEFINE S == Taken(a) \cap Part(k)
<1>1. histories[k] \in HistoryType(Points) /\ Measured(histories[k]) /\ Len(pending) \in Nat
  BY BatchFacts DEF BatchTyped
<1>2. S \subseteq 1..Len(pending)
  BY BatchFacts DEF Taken
<1>3. ASSUME NEW i \in S
      PROVE  /\ pending[i].point \in Points /\ a[i] \in Result
             /\ a[i].ok \/ histories[k].missing # "REFUSE"
  <2>1. i \in DOMAIN pending /\ i \in Nat /\ i >= 1 /\ pending[i].region = k
    BY <1>2, <1>3, BatchFacts DEF Part
  <2>2. PICK p, r : p = pending[i].point /\ r = a[i]
    OBVIOUS
  <2>3. p \in Points
    BY <2>1, <2>2, BatchFacts
  <2>4. r \in Result
    BY <2>1, <2>2 DEF Batches, Result
  <2>5. Recorded(histories[k], p, r).ok
    <3>1. i \in 1..i
      BY <2>1
    <3>2. \A j \in 1..i : Recorded(histories[pending[j].region], pending[j].point, a[j]).ok
      BY <1>3 DEF Taken
    <3>3. Recorded(histories[pending[i].region], pending[i].point, a[i]).ok
      BY <3>1, <3>2
    <3>4. QED
      BY <2>1, <2>2, <3>3
  <2>6. Recorded(histories[k], p, r) =
           IF ~r.ok /\ histories[k].missing = "REFUSE" THEN Refused(histories[k])
           ELSE Accepted(histories[k], Append(histories[k].rows, ToldRow(p, r)))
    BY <1>1, <2>3, <2>4, RecordedShape
  <2>7. r.ok \/ histories[k].missing # "REFUSE"
    BY <2>5, <2>6 DEF Refused
  <2>8. QED
    BY <2>2, <2>3, <2>4, <2>7
<1>4. MayLearn(Points, k, S, a)
  BY <1>1, <1>2, <1>3 DEF MayLearn
<1>5. HasLearned(Points, k, S, Len(pending), LearnedFrom(S, k, a))
  BY <1>4, LearnedRows
<1>6. QED
  BY <1>4, <1>5 DEF Learned

\* What a region has learned of a batch is of its present epoch, like what it knew.
LEMMA LearnedIsFresh ==
    ASSUME BatchTyped, PointsAreFresh, NEW a \in Batches, NEW k \in Regions,
           NEW g, g = Learned(k, a)
    PROVE  /\ g \in HistoryType(Points) /\ Measured(g)
           /\ \A p \in Inputs(g) : origin[p].epoch = Epoch(k)
<1> DEFINE S == Taken(a) \cap Part(k)
<1>1. HasLearned(Points, k, S, Len(pending), g)
  BY BatchMayLearn
<1>2. /\ g \in HistoryType(Points) /\ Measured(g)
      /\ Inputs(g) \subseteq Inputs(histories[k]) \cup {pending[i].point : i \in S}
  BY <1>1 DEF HasLearned
<1>3. \A i \in S : i \in DOMAIN pending /\ pending[i].region = k
  BY DEF Part
<1>4. ASSUME NEW p \in Inputs(g)
      PROVE  origin[p].epoch = Epoch(k)
  <2>1. CASE p \in Inputs(histories[k])
    BY <2>1 DEF PointsAreFresh
  <2>2. CASE p \notin Inputs(histories[k])
    <3>1. PICK i \in S : p = pending[i].point
      BY <1>2, <1>4, <2>2
    <3>2. origin[pending[i].point].epoch = Epoch(pending[i].region)
      BY <1>3, <3>1 DEF PointsAreFresh
    <3>3. QED
      BY <1>3, <3>1, <3>2
  <2>3. QED
    BY <2>1, <2>2
<1>5. QED
  BY <1>2, <1>4

\* A batch refused at one of its rows leaves only rows of the present epochs behind.
LEMMA RefusedBatchFresh ==
    ASSUME BatchTyped, PointsAreFresh, NEW a \in Batches, TellBatchRefused(a)
    PROVE  BatchTyped' /\ PointsAreFresh'
<1>1. /\ config' = config /\ regions' = regions /\ pending' = pending /\ origin' = origin
      /\ histories' = [k \in Regions |-> Learned(k, a)]
  BY DEF TellBatchRefused
<1>2. Regions' = Regions /\ Points' = Points
  BY <1>1 DEF Regions, Points
<1>3. ASSUME NEW k \in Regions
      PROVE  /\ histories'[k] \in HistoryType(Points) /\ Measured(histories'[k])
             /\ \A p \in Inputs(histories'[k]) : origin[p].epoch = Epoch(k)
  <2>1. histories'[k] = Learned(k, a)
    BY <1>1
  <2>2. QED
    BY <2>1, LearnedIsFresh
<1>4. BatchTyped'
  BY <1>1, <1>2, <1>3 DEF BatchTyped
<1>5. \A k \in Regions : \A p \in Inputs(histories'[k]) : origin[p].epoch = Epoch(k)'
  BY <1>1, <1>3 DEF Epoch
<1>6. \A i \in DOMAIN pending :
         origin[pending[i].point].epoch = Epoch(pending[i].region)'
  BY <1>1 DEF PointsAreFresh, Epoch
<1>7. QED
  BY <1>1, <1>2, <1>4, <1>5, <1>6 DEF PointsAreFresh

\* A batch taken leaves nothing pending; a region that collapses has no rows any more, and
\* every other one is in the epoch it was in.
LEMMA TakenBatchFresh ==
    ASSUME BatchTyped, PointsAreFresh, NEW a \in Batches, TellBatchTaken(a)
    PROVE  BatchTyped' /\ PointsAreFresh'
<1> DEFINE after == [k \in Regions |-> Observed(k, a)]
           collapsed == {k \in Regions : Collapses(regions[k], after[k])}
<1>1. /\ config' = config /\ pending' = <<>> /\ origin' = origin
      /\ regions' = after
      /\ histories' = [k \in Regions |-> IF k \in collapsed THEN Cleared(Learned(k, a))
                                         ELSE Learned(k, a)]
  BY DEF TellBatchTaken
<1>2. Regions' = Regions /\ Points' = Points
  BY <1>1 DEF Regions, Points
<1>3. ASSUME NEW k \in Regions
      PROVE  /\ IsRegion(regions'[k])
             /\ ~Collapses(regions[k], regions'[k]) => Epoch(k)' = Epoch(k)
  <2>1. PICK r, o : r = regions[k] /\ o = regions'[k]
    OBVIOUS
  <2>2. IsRegion(r) /\ o = Observed(k, a)
    BY <1>1, <2>1 DEF BatchTyped
  <2>3. \E p, v : o = r \/ o = Observe(r, p, v)
    BY <2>1, <2>2 DEF Observed
  <2>4. PICK p, v : o \in {r, Observe(r, p, v)}
    BY <2>3
  <2>5. IsRegion(o) /\ (~Collapses(r, o) => EpochOf(o) = EpochOf(r))
    BY <2>2, <2>4, ObservedEpoch
  <2>6. QED
    BY <2>1, <2>5 DEF Epoch, EpochOf
<1>4. ASSUME NEW k \in Regions
      PROVE  /\ histories'[k] \in HistoryType(Points) /\ Measured(histories'[k])
             /\ \A p \in Inputs(histories'[k]) : origin[p].epoch = Epoch(k)'
  <2>1. CASE Collapses(regions[k], regions'[k])
    <3>1. histories'[k] = NewHistory
      BY <1>1, <2>1 DEF Cleared
    <3>2. NewHistory \in HistoryType(Points) /\ Measured(NewHistory)
      BY FreshHistory
    <3>3. Inputs(NewHistory) = {}
      BY DEF Inputs, NewHistory
    <3>4. QED
      BY <3>1, <3>2, <3>3
  <2>2. CASE ~Collapses(regions[k], regions'[k])
    <3>1. histories'[k] = Learned(k, a)
      BY <1>1, <2>2
    <3>2. /\ Learned(k, a) \in HistoryType(Points) /\ Measured(Learned(k, a))
          /\ \A p \in Inputs(Learned(k, a)) : origin[p].epoch = Epoch(k)
      BY LearnedIsFresh
    <3>3. Epoch(k)' = Epoch(k)
      BY <1>3, <2>2
    <3>4. QED
      BY <3>1, <3>2, <3>3
  <2>3. QED
    BY <2>1, <2>2
<1> HIDE DEF after, collapsed
<1>5. BatchTyped'
  <2>1. pending' \in Seq([point : Points, region : Regions])
    BY <1>1
  <2>2. QED
    BY <1>1, <1>2, <1>3, <1>4, <2>1 DEF BatchTyped
<1>6. DOMAIN pending' = {}
  BY <1>1
<1>7. QED
  BY <1>1, <1>2, <1>4, <1>5, <1>6 DEF PointsAreFresh

\* A driver that has been asked nothing.
LEMMA InitBatch == Init => BatchInv
<1> SUFFICES ASSUME Init PROVE BatchInv
  OBVIOUS
<1>1. config \in Configs /\ origin = <<>> /\ pending = <<>>
      /\ \A k \in Regions :
            /\ regions[k] = [NewRegion EXCEPT !.tolerance = config.tolerance]
            /\ histories[k] = DriverHistory
  BY DEF Init
<1>2. IsRegion([NewRegion EXCEPT !.tolerance = config.tolerance])
  <2>1. PICK t : t = config.tolerance
    OBVIOUS
  <2>2. PICK r : r = [NewRegion EXCEPT !.tolerance = t]
    OBVIOUS
  <2>3. IsRegion(r)
    BY <2>2 DEF IsRegion, NewRegion
  <2>4. QED
    BY <2>1, <2>2, <2>3, Zenon
<1>3. /\ DriverHistory \in HistoryType(Points) /\ Measured(DriverHistory)
      /\ Inputs(DriverHistory) = {}
  <2>1. DriverHistory \in HistoryType(Points) /\ Measured(DriverHistory)
    BY FreshHistory
  <2>2. DriverHistory.rows = <<>>
    BY DEF DriverHistory, NewHistory
  <2>3. QED
    BY <2>1, <2>2 DEF Inputs
<1>4. QED
  BY <1>1, <1>2, <1>3 DEF BatchInv, BatchTyped, PointsAreFresh

\* Every call keeps the points of a region in its present epoch.
LEMMA NextBatch == BatchInv /\ [DriverNext]_vars => BatchInv'
<1> SUFFICES ASSUME BatchInv, [DriverNext]_vars PROVE BatchInv'
  OBVIOUS
<1>1. config' = config
  BY DEF DriverNext, Ask, Tell, AskDesign, AskExhausted, AskBandit, AskNoSurrogate,
         TellAccepted, TellRefused, AskBatch, AskBatchExhausted, AskBatchNoSurrogate,
         TellBatch, TellBatchTaken, TellBatchRefused, vars
<1>2. CASE config.completion
  BY <1>1, <1>2 DEF BatchInv
<1>3. CASE ~config.completion
  <2>1. BatchTyped /\ PointsAreFresh
    BY <1>3 DEF BatchInv
  <2>2. ~Ask /\ ~Tell
    BY <1>3 DEF Ask, AskDesign, AskExhausted, AskBandit, AskNoSurrogate, MayAsk, Tell
  <2>3. CASE AskBatch
    BY <1>1, <2>1, <2>3, AskBatchFresh DEF BatchInv, BatchTyped
  <2>4. CASE TellBatch
    <3>1. PICK a \in Batches : TellBatchTaken(a) \/ TellBatchRefused(a)
      BY <2>4 DEF TellBatch
    <3>2. BatchTyped' /\ PointsAreFresh'
      BY <2>1, <3>1, TakenBatchFresh, RefusedBatchFresh
    <3>3. QED
      BY <1>1, <3>2 DEF BatchInv, BatchTyped
  <2>5. CASE AskBatchExhausted \/ AskBatchNoSurrogate \/ UNCHANGED vars
    <3>1. /\ regions' = regions /\ histories' = histories /\ pending' = pending
          /\ origin' = origin
      BY <2>5 DEF AskBatchExhausted, AskBatchNoSurrogate, vars
    <3>2. QED
      BY <1>1, <2>1, <3>1 DEF BatchInv, BatchTyped, PointsAreFresh, Epoch, Regions, Points
  <2>6. QED
    BY <2>2, <2>3, <2>4, <2>5 DEF DriverNext
<1>4. QED
  BY <1>2, <1>3

\* In batch mode no point of a region that has collapsed enters its fresh history: every
\* row of a region was asked after its last restart (fortbo_turbo_driver.f90:1004).
THEOREM BatchesStayFresh == DriverSpec => []BatchesRestartFresh
<1>1. BatchInv => BatchesRestartFresh
  BY DEF BatchInv, PointsAreFresh, BatchesRestartFresh, RowPoints, Inputs
<1>2. QED
  BY <1>1, InitBatch, NextBatch, PTL DEF DriverSpec

-----------------------------------------------------------------------------
\* Multiples of the batch.
LEMMA Multiples ==
    ASSUME NEW q \in Nat, NEW b \in Nat \ {0}
    PROVE  /\ q * b \in Nat
           /\ q # 0 => q * b - b = (q - 1) * b /\ q - 1 \in Nat /\ q * b >= b
           /\ \A c, r, n \in Nat : n = r * b =>
                 q * b + c * n = (q + c * r) * b /\ q + c * r \in Nat
           /\ 0 = 0 * b
OBVIOUS

\* A number that the batch divides is a multiple of it.
LEMMA Divides ==
    ASSUME NEW n \in Nat, NEW b \in Nat \ {0}, n % b = 0
    PROVE  \E r \in Nat : n = r * b
<1>1. n = b * (n \div b) + (n % b) /\ n \div b \in Nat
  OBVIOUS
<1>2. n = (n \div b) * b
  BY <1>1
<1>3. QED
  BY <1>1, <1>2

\* The design points that regions with f[k] points each still lack.
Lacking(f) == {s \in Regions \X (1..config.required) : s[2] > f[s[1]]}

\* Points that are lacking can be counted; none is when every design is full.
LEMMA LackingFinite ==
    ASSUME config \in Configs, NEW f
    PROVE  /\ IsFiniteSet(Lacking(f)) /\ Cardinality(Lacking(f)) \in Nat
           /\ Lacking(f) = {} <=> Cardinality(Lacking(f)) = 0
<1>1. IsFiniteSet(Regions) /\ IsFiniteSet(1..config.required)
  <2>1. 1 \in Int /\ config.nRegions \in Int /\ config.required \in Int
    BY ConfigFacts
  <2>2. QED
    BY <2>1, FS_Interval DEF Regions
<1>2. IsFiniteSet(Regions \X (1..config.required))
  BY <1>1, FS_Product
<1>3. Lacking(f) \subseteq Regions \X (1..config.required)
  BY DEF Lacking
<1>4. IsFiniteSet(Lacking(f))
  BY <1>2, <1>3, FS_Subset
<1>5. QED
  BY <1>4, FS_CardinalityType, FS_EmptySet

\* Nothing is lacking exactly when every design is full.
LEMMA NothingLacks ==
    ASSUME config \in Configs, NEW f \in [Regions -> Nat]
    PROVE  Lacking(f) = {} <=> \A k \in Regions : f[k] >= config.required
<1> PICK n : n = config.required
  OBVIOUS
<1>1. n \in Nat /\ n >= 1
  BY ConfigFacts
<1>2. ASSUME NEW k \in Regions, ~(f[k] >= n) PROVE <<k, n>> \in Lacking(f)
  BY <1>1, <1>2 DEF Lacking
<1>3. ASSUME NEW s \in Lacking(f), f[s[1]] >= n PROVE FALSE
  BY <1>1, <1>3 DEF Lacking
<1>4. \A s \in Lacking(f) : s[1] \in Regions
  BY DEF Lacking
<1>5. QED
  BY <1>2, <1>3, <1>4

\* One more point for a region takes one off what is lacking, if its design is short.
LEMMA LackingLess ==
    ASSUME config \in Configs, NEW f \in [Regions -> Nat], NEW g \in [Regions -> Nat],
           NEW k \in Regions, g[k] = f[k] + 1, \A j \in Regions \ {k} : g[j] = f[j]
    PROVE  /\ f[k] < config.required =>
                 Cardinality(Lacking(g)) = Cardinality(Lacking(f)) - 1
           /\ f[k] >= config.required => Lacking(g) = Lacking(f)
<1> PICK n : n = config.required
  OBVIOUS
<1>1. n \in Nat /\ n >= 1 /\ Lacking(f) = {s \in Regions \X (1..n) : s[2] > f[s[1]]}
      /\ Lacking(g) = {s \in Regions \X (1..n) : s[2] > g[s[1]]}
  BY ConfigFacts DEF Lacking
<1>2. CASE f[k] < n
  <2>1. PICK e : e = <<k, f[k] + 1>>
    OBVIOUS
  <2>2. e \in Lacking(f)
    BY <1>1, <1>2, <2>1
  <2>3. ASSUME NEW s \in Regions \X (1..n)
        PROVE  s \in Lacking(g) <=> s \in Lacking(f) \ {e}
    <3>1. PICK j \in Regions, m \in 1..n : s = <<j, m>>
      BY <2>3
    <3>2. CASE j = k
      BY <1>1, <2>1, <3>1, <3>2
    <3>3. CASE j # k
      BY <1>1, <2>1, <3>1, <3>3
    <3>4. QED
      BY <3>2, <3>3
  <2>4. Lacking(g) = Lacking(f) \ {e}
    BY <1>1, <2>3
  <2>5. Cardinality(Lacking(f) \ {e}) = Cardinality(Lacking(f)) - 1
    BY <2>2, LackingFinite, FS_RemoveElement
  <2>6. ~(f[k] >= n)
    BY <1>1, <1>2
  <2>7. QED
    BY <1>2, <2>4, <2>5, <2>6
<1>3. CASE f[k] >= n
  <2>1. ASSUME NEW s \in Regions \X (1..n)
        PROVE  s \in Lacking(g) <=> s \in Lacking(f)
    <3>1. PICK j \in Regions, m \in 1..n : s = <<j, m>>
      BY <2>1
    <3>2. CASE j = k
      BY <1>1, <1>3, <3>1, <3>2
    <3>3. CASE j # k
      BY <1>1, <3>1, <3>3
    <3>4. QED
      BY <3>2, <3>3
  <2>2. QED
    BY <1>1, <1>3, <2>1
<1>4. QED
  BY <1>2, <1>3

\* Regions that lose a full design lack all of it.
LEMMA LackingMore ==
    ASSUME config \in Configs, NEW f \in [Regions -> Nat], NEW g \in [Regions -> Nat],
           NEW C \in SUBSET Regions, \A k \in C : f[k] >= config.required /\ g[k] = 0,
           \A k \in Regions \ C : g[k] = f[k]
    PROVE  /\ Cardinality(C) \in Nat
           /\ Cardinality(Lacking(g)) =
                 Cardinality(Lacking(f)) + Cardinality(C) * config.required
<1> PICK n : n = config.required
  OBVIOUS
<1>1. n \in Nat /\ n >= 1 /\ Lacking(f) = {s \in Regions \X (1..n) : s[2] > f[s[1]]}
      /\ Lacking(g) = {s \in Regions \X (1..n) : s[2] > g[s[1]]}
  BY ConfigFacts DEF Lacking
<1>2. IsFiniteSet(C) /\ Cardinality(C) \in Nat /\ IsFiniteSet(1..n) /\ Cardinality(1..n) = n
  <2>1. IsFiniteSet(Regions)
    BY ConfigFacts, FS_Interval DEF Regions
  <2>2. IsFiniteSet(C)
    BY <2>1, FS_Subset
  <2>3. IsFiniteSet(1..n) /\ Cardinality(1..n) = n
    BY <1>1, FS_Interval
  <2>4. QED
    BY <2>2, <2>3, FS_CardinalityType
<1>3. PICK D : D = C \X (1..n)
  OBVIOUS
<1>4. IsFiniteSet(D) /\ Cardinality(D) = Cardinality(C) * n
  BY <1>2, <1>3, FS_Product
<1>5. ASSUME NEW s \in Regions \X (1..n)
      PROVE  s \in Lacking(g) <=> s \in Lacking(f) \cup D
  <2>1. PICK j \in Regions, m \in 1..n : s = <<j, m>>
    BY <1>5
  <2>2. CASE j \in C
    BY <1>1, <1>3, <2>1, <2>2
  <2>3. CASE j \notin C
    BY <1>1, <1>3, <2>1, <2>3
  <2>4. QED
    BY <2>2, <2>3
<1>6. Lacking(g) = Lacking(f) \cup D
  BY <1>1, <1>3, <1>5
<1>7. Lacking(f) \cap D = {}
  <2> SUFFICES ASSUME NEW s \in Lacking(f), s \in D PROVE FALSE
    OBVIOUS
  <2>1. PICK j \in C, m \in 1..n : s = <<j, m>>
    BY <1>3
  <2>2. m > f[j] /\ f[j] >= n /\ f[j] \in Nat
    BY <1>1, <2>1
  <2>3. QED
    BY <1>1, <2>2
<1>8. Cardinality(Lacking(f) \cap D) = 0
  BY <1>7, FS_EmptySet
<1>9. Cardinality(Lacking(f)) \in Nat /\ Cardinality(D) \in Nat /\ IsFiniteSet(Lacking(f))
  BY <1>4, LackingFinite, FS_CardinalityType
<1>10. Cardinality(Lacking(f) \cup D)
         = Cardinality(Lacking(f)) + Cardinality(D) - Cardinality(Lacking(f) \cap D)
  BY <1>4, <1>9, FS_Union
<1>11. QED
  BY <1>2, <1>4, <1>6, <1>8, <1>9, <1>10

-----------------------------------------------------------------------------
\* The points of the regions with the slots rs assigned.
HaveAll(rs) == [k \in Regions |-> HaveWith(rs, k)]

\* g is f with one point more for region k.
HasOnePointMore(f, g, k) ==
    /\ f \in [Regions -> Nat] /\ g \in [Regions -> Nat] /\ k \in Regions
    /\ g[k] = f[k] + 1 /\ \A j \in Regions \ {k} : g[j] = f[j]

\* One slot more is one point more for its region.
LEMMA SlotCounts ==
    ASSUME RowsCounted, NEW n \in Nat, NEW rs \in [1..n -> Regions], NEW l \in 1..n
    PROVE  HasOnePointMore(HaveAll(SubSeq(rs, 1, l - 1)), HaveAll(SubSeq(rs, 1, l)), rs[l])
<1>0. PICK m : m = l - 1
  OBVIOUS
<1>1. m \in Nat /\ l = m + 1
  BY <1>0
<1>10. PICK p, q : p = SubSeq(rs, 1, m) /\ q = SubSeq(rs, 1, l)
  OBVIOUS
<1>2. l \in Nat /\ m \in 0..n /\ l \in 0..n /\ 1..l = 1..m \cup {l} /\ l \notin 1..m
      /\ l \in 1..n
  BY <1>1
<1>3. p = [j \in 1..m |-> rs[j]] /\ p \in [1..m -> Regions]
  BY <1>2, <1>10, FirstSlots
<1>4. q = [j \in 1..l |-> rs[j]] /\ q \in [1..l -> Regions]
  BY <1>2, <1>10, FirstSlots
<1>9. m \in Nat /\ p \in [1..m -> Regions] /\ l \in Nat /\ q \in [1..l -> Regions]
  BY <1>1, <1>2, <1>3, <1>4
<1>5. PICK d : d = rs[l]
  OBVIOUS
<1>6. d \in Regions
  BY <1>2, <1>5
<1>7. ASSUME NEW k \in Regions
      PROVE  /\ HaveWith(p, k) \in Nat /\ HaveWith(q, k) \in Nat
             /\ HaveWith(q, k) = IF k = d THEN HaveWith(p, k) + 1 ELSE HaveWith(p, k)
  <2>1. PICK P, Q : P = {i \in 1..m : p[i] = k} /\ Q = {i \in 1..l : q[i] = k}
    OBVIOUS
  <2>2. /\ IsFiniteSet(P) /\ Assigned(p, k) = Cardinality(P) /\ Assigned(p, k) \in Nat
        /\ Assigned(q, k) = Cardinality(Q) /\ Assigned(q, k) \in Nat
        /\ HaveWith(p, k) \in Nat /\ HaveWith(q, k) \in Nat
    <3>1. /\ IsFiniteSet({i \in 1..m : p[i] = k})
          /\ Assigned(p, k) = Cardinality({i \in 1..m : p[i] = k})
          /\ Assigned(p, k) \in Nat /\ HaveWith(p, k) \in Nat
      BY <1>9, HaveCounts
    <3>2. /\ Assigned(q, k) = Cardinality({i \in 1..l : q[i] = k})
          /\ Assigned(q, k) \in Nat /\ HaveWith(q, k) \in Nat
      BY <1>9, HaveCounts
    <3>3. QED
      BY <2>1, <3>1, <3>2
  <2>3. \A i \in 1..m : p[i] = rs[i] /\ q[i] = rs[i]
    BY <1>2, <1>3, <1>4
  <2>4. q[l] = d
    BY <1>2, <1>4, <1>5
  <2>5. Q = IF k = d THEN P \cup {l} ELSE P
    BY <1>2, <2>1, <2>3, <2>4
  <2>6. l \notin P
    BY <1>2, <2>1
  <2>7. Cardinality(P \cup {l}) = Cardinality(P) + 1
    BY <2>2, <2>6, FS_AddElement
  <2>8. Assigned(q, k) = IF k = d THEN Assigned(p, k) + 1 ELSE Assigned(p, k)
    BY <2>2, <2>5, <2>7
  <2>9. Len(histories[k].rows) \in Nat
    BY DEF RowsCounted
  <2>10. QED
    BY <2>2, <2>8, <2>9 DEF HaveWith
<1>8. HasOnePointMore(HaveAll(p), HaveAll(q), d)
  BY <1>6, <1>7 DEF HaveAll, HasOnePointMore
<1>11. QED
  BY <1>0, <1>5, <1>8, <1>10

\* As long as designs are short, every slot that is served takes one off what they lack.
LEMMA ServingFills ==
    ASSUME RowsCounted, NEW n \in Nat, NEW rs, IsServed(n, rs),
           NEW c, c = Cardinality(Lacking(HaveAll(SubSeq(rs, 1, 0)))),
           NEW m \in 0..n
    PROVE  Cardinality(Lacking(HaveAll(SubSeq(rs, 1, m)))) = IF m <= c THEN c - m ELSE 0
<1> DEFINE L(i) == Cardinality(Lacking(HaveAll(SubSeq(rs, 1, i))))
           T == {i \in 0..n : ~(L(i) = IF i <= c THEN c - i ELSE 0)}
<1>0. config \in Configs /\ c \in Nat /\ rs \in [1..n -> Regions]
  BY LackingFinite DEF RowsCounted, IsServed
<1>1. T = {}
  <2> SUFFICES ASSUME T # {} PROVE FALSE
    OBVIOUS
  <2>1. PICK i \in T : \A j \in T : i <= j
    <3>1. T \subseteq Nat
      OBVIOUS
    <3> HIDE DEF T
    <3>2. QED
      BY <3>1, LeastNat
  <2>2. i \in 0..n /\ ~(L(i) = IF i <= c THEN c - i ELSE 0)
    OBVIOUS
  <2>3. i # 0
    <3>1. c - 0 = c /\ 0 <= c
      BY <1>0
    <3>2. QED
      BY <2>2, <3>1
  <2>4. PICK j : j = i - 1
    OBVIOUS
  <2>5. j \in Nat /\ j + 1 = i /\ j \in 0..n /\ j + 1 <= n /\ j < i /\ j \notin T
    BY <2>1, <2>2, <2>3, <2>4
  <2>6. L(j) = IF j <= c THEN c - j ELSE 0
    BY <2>5
  <2>7. PICK p, q, d : p = SubSeq(rs, 1, j) /\ q = SubSeq(rs, 1, i) /\ d = rs[i]
    OBVIOUS
  <2>8. PICK f, g : f = HaveAll(p) /\ g = HaveAll(q)
    OBVIOUS
  <2>9. /\ f \in [Regions -> Nat] /\ g \in [Regions -> Nat] /\ d \in Regions
        /\ g[d] = f[d] + 1 /\ \A k \in Regions \ {d} : g[k] = f[k]
    <3>1. i \in 1..n /\ i - 1 = j
      BY <2>2, <2>3, <2>4
    <3>2. HasOnePointMore(HaveAll(SubSeq(rs, 1, i - 1)), HaveAll(SubSeq(rs, 1, i)), rs[i])
      BY <1>0, <3>1, SlotCounts
    <3>3. HasOnePointMore(f, g, d)
      BY <2>7, <2>8, <3>1, <3>2
    <3>4. QED
      BY <3>3 DEF HasOnePointMore
  <2>10. /\ f[d] < config.required =>
               Cardinality(Lacking(g)) = Cardinality(Lacking(f)) - 1
         /\ f[d] >= config.required => Lacking(g) = Lacking(f)
    BY <1>0, <2>9, LackingLess
  <2>11. L(j) = Cardinality(Lacking(f)) /\ L(i) = Cardinality(Lacking(g))
    BY <2>7, <2>8
  <2>12. IsNextWith(p, d)
    <3>1. i \in 1..n /\ i - 1 = j
      BY <2>2, <2>3, <2>4
    <3>2. IsNextWith(SubSeq(rs, 1, i - 1), rs[i])
      BY <3>1 DEF IsServed
    <3>3. QED
      BY <2>7, <3>1, <3>2
  <2>13. f[d] >= config.required => Lacking(f) = {}
    <3> SUFFICES ASSUME f[d] >= config.required, NEW k \in Regions
                 PROVE  f[k] >= config.required
      BY <1>0, <2>9, NothingLacks
    <3>1. f[k] = HaveWith(p, k) /\ f[d] = HaveWith(p, d)
      BY <2>8, <2>9 DEF HaveAll
    <3>2. config.required \in Nat /\ f[k] \in Nat /\ f[d] \in Nat
      BY <1>0, <2>9, ConfigFacts
    <3>3. f[k] < config.required => NeedsDesignWith(p, k)
      BY <3>1 DEF NeedsDesignWith
    <3>4. NeedsDesignWith(p, k) => f[d] <= f[k]
      BY <2>12, <3>1, <3>2 DEF IsNextWith
    <3>5. QED
      BY <3>2, <3>3, <3>4
  <2>14. PICK u, v : u = Cardinality(Lacking(f)) /\ v = Cardinality(Lacking(g))
    OBVIOUS
  <2>15. u \in Nat /\ v \in Nat /\ (Lacking(f) = {} => u = 0)
         /\ config.required \in Nat /\ f[d] \in Nat
    BY <1>0, <2>9, <2>14, LackingFinite, ConfigFacts
  <2>16. CASE f[d] < config.required
    <3>1. v = u - 1 /\ u = IF j <= c THEN c - j ELSE 0
      BY <2>6, <2>10, <2>11, <2>14, <2>16
    <3>2. v = IF i <= c THEN c - i ELSE 0
      BY <1>0, <2>5, <2>15, <3>1
    <3>3. QED
      BY <2>2, <2>11, <2>14, <3>2
  <2>17. CASE f[d] >= config.required
    <3>1. v = u /\ u = 0 /\ u = IF j <= c THEN c - j ELSE 0
      BY <2>6, <2>10, <2>11, <2>13, <2>14, <2>15, <2>17
    <3>2. v = IF i <= c THEN c - i ELSE 0
      BY <1>0, <2>5, <3>1
    <3>3. QED
      BY <2>2, <2>11, <2>14, <3>2
  <2>18. QED
    BY <2>15, <2>16, <2>17
<1>2. QED
  BY <1>1

-----------------------------------------------------------------------------
\* The points of every region, in its history and with the caller.
HaveNow == [k \in Regions |-> Have(k)]

\* Between batches the designs lack whole batches; and a region has a center only once
\* its design has been answered.
DesignsDivide == \E q \in Nat : Cardinality(Lacking(HaveNow)) = q * config.batch
ActiveAreFull == \A k \in Regions :
                    regions[k].active => Len(histories[k].rows) >= config.required

BatchDivides == ~config.completion /\ config.required % config.batch = 0

ServedInv ==
    /\ BatchInv
    /\ BatchDivides => /\ reply # "NO_SURROGATE" /\ ActiveAreFull
                       /\ ~Stopped => DesignsDivide

\* What the regions have in flight is what the caller holds.
LEMMA HaveCountsPending ==
    ASSUME BatchTyped, NEW k \in Regions
    PROVE  /\ InFlight(k) = Cardinality(Part(k)) /\ IsFiniteSet(Part(k))
           /\ Cardinality(Part(k)) \in Nat /\ Len(histories[k].rows) \in Nat
           /\ HaveNow[k] = Len(histories[k].rows) + Cardinality(Part(k))
           /\ HaveNow[k] \in Nat
<1>1. InFlight(k) = Cardinality(Part(k))
  BY DEF InFlight, Part
<1>2. IsFiniteSet(Part(k))
  <2>1. IsFiniteSet(1..Len(pending))
    BY BatchFacts, FS_Interval
  <2>2. Part(k) \subseteq 1..Len(pending)
    BY BatchFacts DEF Part
  <2>3. QED
    BY <2>1, <2>2, FS_Subset
<1>3. Cardinality(Part(k)) \in Nat
  BY <1>2, FS_CardinalityType
<1>4. Len(histories[k].rows) \in Nat
  BY BatchFacts DEF RowsCounted
<1>5. QED
  BY <1>1, <1>2, <1>3, <1>4 DEF HaveNow, Have

\* With nothing in flight, the regions have their rows.
LEMMA NothingInFlight ==
    ASSUME BatchTyped, pending = <<>>
    PROVE  /\ HaveNow \in [Regions -> Nat]
           /\ HaveNow = HaveAll(SubSeq(Design, 1, 0))
           /\ \A k \in Regions : HaveNow[k] = Len(histories[k].rows)
<1>1. \A k \in Regions : Part(k) = {}
  BY DEF Part
<1>2. \A k \in Regions : Cardinality(Part(k)) = 0
  BY <1>1, FS_EmptySet
<1>3. ASSUME NEW k \in Regions
      PROVE  HaveNow[k] = Len(histories[k].rows) /\ HaveNow[k] \in Nat
  BY <1>2, HaveCountsPending
<1>4. PICK p : p = SubSeq(Design, 1, 0)
  OBVIOUS
<1>5. DOMAIN p = {}
  <2>1. PICK n \in 0..config.batch : IsServed(n, Design)
    BY BatchFacts, DesignExists
  <2>2. n \in Nat /\ 0 \in 0..n
    BY ConfigFacts DEF BatchTyped
  <2>3. p = [j \in 1..0 |-> Design[j]]
    BY <1>4, <2>1, <2>2, FirstSlots DEF IsServed
  <2>4. QED
    BY <2>3
<1>6. ASSUME NEW k \in Regions
      PROVE  HaveWith(p, k) = Len(histories[k].rows)
  <2>1. {i \in DOMAIN p : p[i] = k} = {}
    BY <1>5
  <2>2. Assigned(p, k) = 0
    BY <2>1, FS_EmptySet DEF Assigned
  <2>3. QED
    BY <2>2, BatchFacts DEF HaveWith, RowsCounted
<1>7. HaveNow = HaveAll(p)
  BY <1>3, <1>6 DEF HaveNow, HaveAll
<1>8. QED
  BY <1>3, <1>4, <1>7 DEF HaveNow

\* The design slots of an ask: a whole batch of what is lacking; or nothing is lacking, not
\* even before them, and every region has something to fit.
LEMMA DesignFills ==
    ASSUME BatchTyped, pending = <<>>, DesignsDivide
    PROVE  /\ HaveAll(Design) \in [Regions -> Nat] /\ Len(Design) \in 0..config.batch
           /\ Len(Design) = config.batch =>
                 \E q \in Nat : Cardinality(Lacking(HaveAll(Design))) = q * config.batch
           /\ Len(Design) < config.batch =>
                 /\ Lacking(HaveNow) = {} /\ Lacking(HaveAll(Design)) = {}
                 /\ \A k \in Regions : HasUsable(k)
<1> PICK B : B = config.batch
  OBVIOUS
<1>0. config \in Configs /\ B \in Nat \ {0} /\ RowsCounted
      /\ config.required \in Nat /\ 1 \in Regions
  BY BatchFacts, ConfigFacts DEF BatchTyped
<1>1. PICK n \in 0..config.batch :
         /\ Len(Design) = n /\ DOMAIN Design = 1..n /\ IsServed(n, Design)
         /\ n < config.batch => \A k \in Regions : ~NeedsDesignWith(Design, k)
  BY BatchFacts, DesignExists
<1>2. n \in Nat /\ n <= B /\ n \in 0..n /\ Design \in [1..n -> Regions]
  BY <1>0, <1>1 DEF IsServed
<1>3. PICK c, d : /\ c = Cardinality(Lacking(HaveNow))
                  /\ d = Cardinality(Lacking(HaveAll(Design)))
  OBVIOUS
<1>4. c \in Nat /\ d \in Nat /\ (Lacking(HaveNow) = {} <=> c = 0)
      /\ (Lacking(HaveAll(Design)) = {} <=> d = 0)
  BY <1>0, <1>3, LackingFinite
<1>5. SubSeq(Design, 1, n) = Design
  <2>1. SubSeq(Design, 1, n) = [j \in 1..n |-> Design[j]]
    BY <1>2, FirstSlots
  <2>2. Design = [j \in 1..n |-> Design[j]]
    BY <1>2
  <2>3. QED
    BY <2>1, <2>2
<1>6. d = IF n <= c THEN c - n ELSE 0
  <2>1. c = Cardinality(Lacking(HaveAll(SubSeq(Design, 1, 0))))
    BY <1>3, NothingInFlight
  <2>2. Cardinality(Lacking(HaveAll(SubSeq(Design, 1, n)))) = IF n <= c THEN c - n ELSE 0
    BY <1>0, <1>1, <1>2, <2>1, ServingFills
  <2>3. QED
    BY <1>3, <1>5, <2>2
<1>7. PICK q \in Nat : c = q * B
  BY <1>3 DEF DesignsDivide
<1>8. q * B \in Nat /\ (q # 0 => q * B - B = (q - 1) * B /\ q - 1 \in Nat /\ q * B >= B)
      /\ 0 = 0 * B
  BY <1>0, Multiples
<1>9. \A k \in Regions : HaveAll(Design)[k] = HaveWith(Design, k) /\ HaveWith(Design, k) \in Nat
  BY <1>0, <1>2, HaveCounts DEF HaveAll
<1>10. HaveAll(Design) \in [Regions -> Nat]
  BY <1>9 DEF HaveAll
<1>11. ASSUME n = B PROVE \E r \in Nat : d = r * B
  <2>1. CASE q = 0
    <3>1. d = 0
      BY <1>0, <1>6, <1>7, <1>8, <1>11, <2>1
    <3>2. QED
      BY <1>8, <3>1
  <2>2. CASE q # 0
    <3>1. d = (q - 1) * B
      BY <1>6, <1>7, <1>8, <1>11, <2>2
    <3>2. QED
      BY <1>8, <2>2, <3>1
  <2>3. QED
    BY <2>1, <2>2
<1>12. ASSUME n < B PROVE d = 0 /\ c = 0 /\ \A k \in Regions : HasUsable(k)
  <2>1. \A k \in Regions : ~NeedsDesignWith(Design, k)
    BY <1>1, <1>12
  <2>2. \A k \in Regions : HaveAll(Design)[k] >= config.required /\ HasUsable(k)
    BY <1>0, <1>9, <2>1 DEF NeedsDesignWith
  <2>3. d = 0
    BY <1>0, <1>4, <1>10, <2>2, NothingLacks
  <2>4. c <= n
    BY <1>2, <1>4, <1>6, <2>3
  <2>5. q = 0
    BY <1>0, <1>2, <1>4, <1>7, <1>8, <1>12, <2>4
  <2>6. QED
    BY <1>7, <1>8, <2>2, <2>3, <2>5
<1>13. QED
  BY <1>1, <1>3, <1>4, <1>10, <1>11, <1>12

-----------------------------------------------------------------------------
\* Emptying full designs of a size that the batch divides leaves whole batches lacking.
LEMMA EmptyingDivides ==
    ASSUME config \in Configs, config.required % config.batch = 0,
           NEW f \in [Regions -> Nat], NEW g \in [Regions -> Nat],
           NEW C \in SUBSET Regions, \A k \in C : f[k] >= config.required /\ g[k] = 0,
           \A k \in Regions \ C : g[k] = f[k],
           \E q \in Nat : Cardinality(Lacking(f)) = q * config.batch
    PROVE  \E q \in Nat : Cardinality(Lacking(g)) = q * config.batch
<1> PICK n, b, c : n = config.required /\ b = config.batch /\ c = Cardinality(C)
  OBVIOUS
<1>1. n \in Nat /\ b \in Nat \ {0} /\ n % b = 0
  BY ConfigFacts
<1>2. c \in Nat /\ Cardinality(Lacking(g)) = Cardinality(Lacking(f)) + c * n
  BY LackingMore
<1>3. PICK q \in Nat : Cardinality(Lacking(f)) = q * b
  OBVIOUS
<1>4. PICK r \in Nat : n = r * b
  BY <1>1, Divides
<1>5. q * b + c * n = (q + c * r) * b /\ q + c * r \in Nat
  BY <1>1, <1>2, <1>4, Multiples
<1>6. QED
  BY <1>2, <1>3, <1>5

\* A driver that has been asked nothing lacks all its designs.
LEMMA InitServed == Init => ServedInv
<1> SUFFICES ASSUME Init, BatchDivides
             PROVE  reply # "NO_SURROGATE" /\ ActiveAreFull /\ DesignsDivide
  BY InitBatch DEF ServedInv
<1>1. /\ config \in Configs /\ pending = <<>> /\ reply = "OK"
      /\ \A k \in Regions :
            /\ regions[k] = [NewRegion EXCEPT !.tolerance = config.tolerance]
            /\ histories[k] = DriverHistory
  BY DEF Init
<1>2. BatchTyped
  BY InitBatch DEF BatchInv, BatchDivides
<1>3. ASSUME NEW k \in Regions
      PROVE  ~regions[k].active /\ Len(histories[k].rows) = 0
  BY <1>1 DEF NewRegion, DriverHistory, NewHistory
<1>4. HaveNow \in [Regions -> Nat] /\ \A k \in Regions : HaveNow[k] = 0
  BY <1>1, <1>2, <1>3, NothingInFlight
<1>5. PICK n : n = config.required
  OBVIOUS
<1>6. n \in Nat /\ config.batch \in Nat \ {0} /\ config.required % config.batch = 0
  BY <1>1, <1>5, ConfigFacts DEF BatchDivides
<1>7. PICK f : f = [k \in Regions |-> n]
  OBVIOUS
<1>8. f \in [Regions -> Nat] /\ \A k \in Regions : f[k] = n /\ f[k] >= n
  BY <1>6, <1>7
<1>9. Cardinality(Lacking(f)) = 0
  BY <1>1, <1>5, <1>8, NothingLacks, LackingFinite
<1>10. \E q \in Nat : Cardinality(Lacking(f)) = q * config.batch
  BY <1>6, <1>9, Multiples
<1>11. \E q \in Nat : Cardinality(Lacking(HaveNow)) = q * config.batch
  <2>1. \A k \in Regions : f[k] >= config.required /\ HaveNow[k] = 0
    BY <1>4, <1>5, <1>8
  <2>2. Regions \in SUBSET Regions /\ \A k \in Regions \ Regions : HaveNow[k] = f[k]
    OBVIOUS
  <2>3. QED
    BY <1>1, <1>4, <1>6, <1>8, <1>10, <2>1, <2>2, EmptyingDivides
<1>12. QED
  BY <1>1, <1>3, <1>11 DEF ActiveAreFull, DesignsDivide

\* A batch asked leaves whole batches lacking.
LEMMA AskBatchDivides ==
    ASSUME BatchTyped, DesignsDivide, AskBatch
    PROVE  DesignsDivide'
<1>1. PICK picks \in [1..(config.batch - Len(Design)) -> Pool] : Remember(Design \o picks)
  BY DEF AskBatch
<1>2. PICK slots : slots = Design \o picks
  OBVIOUS
<1>3. /\ slots \in Seq(Regions) /\ Remember(slots) /\ DOMAIN slots = 1..config.batch
      /\ Len(Design) \in 0..config.batch /\ DOMAIN Design = 1..Len(Design)
      /\ \A i \in 1..Len(Design) : slots[i] = Design[i]
  BY <1>1, <1>2, SlotsFill
<1>4. config' = config /\ histories' = histories /\ Regions' = Regions /\ pending = <<>>
  BY DEF AskBatch, MayAskBatch, Regions
<1>5. DOMAIN pending' = DOMAIN slots /\ \A i \in DOMAIN pending' : pending'[i].region = slots[i]
  BY <1>3, <1>4, Remembered
<1>6. ASSUME NEW k \in Regions
      PROVE  Have(k)' = HaveWith(slots, k)
  <2>1. {i \in DOMAIN pending' : pending'[i].region = k} = {i \in DOMAIN slots : slots[i] = k}
    BY <1>5
  <2>2. InFlight(k)' = Assigned(slots, k)
    BY <2>1 DEF InFlight, Assigned
  <2>3. QED
    BY <1>4, <2>2 DEF Have, HaveWith
<1>7. HaveNow' = HaveAll(slots)
  BY <1>4, <1>6 DEF HaveNow, HaveAll
<1>8. Lacking(HaveNow)' = Lacking(HaveAll(slots))
  BY <1>4, <1>7 DEF Lacking
<1>9. \E q \in Nat : Cardinality(Lacking(HaveAll(slots))) = q * config.batch
  <2>1. CASE Len(Design) = config.batch
    <3>1. \A i \in 1..config.batch : slots[i] = Design[i]
      BY <1>3, <2>1
    <3>2. ASSUME NEW k \in Regions
          PROVE  HaveWith(slots, k) = HaveWith(Design, k)
      <4>1. {i \in DOMAIN slots : slots[i] = k} = {i \in DOMAIN Design : Design[i] = k}
        BY <1>3, <2>1, <3>1
      <4>2. QED
        BY <4>1 DEF HaveWith, Assigned
    <3>3. HaveAll(slots) = HaveAll(Design)
      BY <3>2 DEF HaveAll
    <3>4. QED
      BY <1>4, <2>1, <3>3, DesignFills
  <2>2. CASE Len(Design) # config.batch
    <3>0. config \in Configs /\ config.batch \in Nat \ {0} /\ config.required \in Nat
          /\ RowsCounted
      BY BatchFacts, ConfigFacts DEF BatchTyped
    <3>1. Len(Design) < config.batch
      BY <1>3, <2>2, <3>0
    <3>2. Lacking(HaveAll(Design)) = {} /\ HaveAll(Design) \in [Regions -> Nat]
      BY <1>4, <3>1, DesignFills
    <3>3. \A k \in Regions : HaveAll(Design)[k] >= config.required
      BY <3>0, <3>2, NothingLacks
    <3>4. Len(Design) \in Nat /\ slots \in [1..config.batch -> Regions]
          /\ Design \in [1..Len(Design) -> Regions]
          /\ 1..Len(Design) \subseteq 1..config.batch
      <4>0. PICK R : R = Regions
        OBVIOUS
      <4>1. \A i \in 1..config.batch : slots[i] \in Regions
        <5>1. slots \in Seq(R) /\ Len(slots) = config.batch
          BY <1>1, <1>2, <4>0, SlotsFill
        <5>2. QED
          BY <4>0, <5>1, ElementOfSeq
      <4>2. slots \in [1..config.batch -> Regions]
        BY <1>3, <4>1
      <4>3. PICK n \in 0..config.batch : Len(Design) = n /\ IsServed(n, Design)
        BY BatchFacts, DesignExists
      <4>4. QED
        BY <3>0, <4>2, <4>3 DEF IsServed
    <3>5. ASSUME NEW k \in Regions
          PROVE  HaveAll(slots)[k] \in Nat /\ HaveAll(slots)[k] >= config.required
      <4>1. PICK l, d, s : /\ l = Len(Design) /\ d = Assigned(Design, k)
                           /\ s = Assigned(slots, k)
        OBVIOUS
      <4>2. PICK D, S : D = {i \in 1..l : Design[i] = k}
                        /\ S = {i \in 1..config.batch : slots[i] = k}
        OBVIOUS
      <4>3. d = Cardinality(D) /\ d \in Nat /\ HaveWith(Design, k) \in Nat
        BY <3>0, <3>4, <4>1, <4>2, HaveCounts
      <4>4. IsFiniteSet(S) /\ s = Cardinality(S) /\ s \in Nat /\ HaveWith(slots, k) \in Nat
        BY <3>0, <3>4, <4>1, <4>2, HaveCounts
      <4>5. D \subseteq S
        BY <1>3, <3>4, <4>1, <4>2
      <4>6. d <= s
        BY <4>3, <4>4, <4>5, FS_Subset
      <4>7. PICK m : m = Len(histories[k].rows)
        OBVIOUS
      <4>8. m \in Nat /\ HaveWith(Design, k) = m + d /\ HaveWith(slots, k) = m + s
        BY <3>0, <4>1, <4>7 DEF HaveWith, RowsCounted
      <4>9. m + d >= config.required
        BY <3>3, <4>8 DEF HaveAll
      <4>10. m + s >= config.required /\ m + s \in Nat
        BY <3>0, <4>3, <4>4, <4>6, <4>8, <4>9
      <4>11. HaveAll(slots)[k] = m + s
        BY <4>8 DEF HaveAll
      <4>12. QED
        BY <4>10, <4>11
    <3>6. HaveAll(slots) \in [Regions -> Nat]
      BY <3>5 DEF HaveAll
    <3>7. Cardinality(Lacking(HaveAll(slots))) = 0
      BY <3>0, <3>5, <3>6, NothingLacks, LackingFinite
    <3>8. QED
      BY <3>0, <3>7, Multiples
  <2>3. QED
    BY <2>1, <2>2
<1>10. QED
  BY <1>4, <1>8, <1>9 DEF DesignsDivide

\* An ask places only regions whose design is answered.
LEMMA AskBatchFull ==
    ASSUME ActiveAreFull, AskBatch
    PROVE  ActiveAreFull'
<1>1. config' = config /\ histories' = histories /\ Regions' = Regions
  BY DEF AskBatch, Regions
<1>2. ASSUME NEW k \in Regions, regions'[k].active
      PROVE  Len(histories[k].rows) >= config.required
  <2>1. regions'[k] = regions[k] \/ k \in Pool
    BY DEF AskBatch
  <2>2. CASE regions'[k] = regions[k]
    BY <1>2, <2>2 DEF ActiveAreFull
  <2>3. CASE k \in Pool
    BY <2>3 DEF Pool, HasSurrogate
  <2>4. QED
    BY <2>1, <2>2, <2>3
<1>3. QED
  BY <1>1, <1>2 DEF ActiveAreFull

\* An ask with a slot to spare finds a region to draw from: when no design is short, none
\* was before the ask.
LEMMA SlotsFindRegions ==
    ASSUME BatchTyped, DesignsDivide
    PROVE  ~AskBatchNoSurrogate
<1> SUFFICES ASSUME AskBatchNoSurrogate PROVE FALSE
  OBVIOUS
<1>1. pending = <<>> /\ Len(Design) < config.batch /\ Pool = {}
  BY DEF AskBatchNoSurrogate, MayAskBatch
<1>2. Lacking(HaveNow) = {} /\ \A k \in Regions : HasUsable(k)
  BY <1>1, DesignFills
<1>3. config \in Configs /\ 1 \in Regions
  BY ConfigFacts DEF BatchTyped
<1>4. HaveNow \in [Regions -> Nat] /\ \A k \in Regions : HaveNow[k] = Len(histories[k].rows)
  BY <1>1, NothingInFlight
<1>5. Len(histories[1].rows) >= config.required
  BY <1>2, <1>3, <1>4, NothingLacks
<1>6. QED
  BY <1>1, <1>2, <1>3, <1>5 DEF Pool, HasSurrogate

\* What a region has after a batch that is taken: nothing, if it has collapsed, and what
\* it had before with the batch in flight if not.
LEMMA TakenKeeps ==
    ASSUME BatchTyped, NEW a \in Batches, TellBatchTaken(a), NEW k \in Regions
    PROVE  /\ histories'[k].rows \in Seq(RowType(Points)) /\ InFlight(k)' = 0
           /\ regions'[k].active => regions[k].active
           /\ IF Collapses(regions[k], regions'[k]) THEN HaveNow'[k] = 0
              ELSE HaveNow'[k] = HaveNow[k] /\ HaveNow'[k] = Len(histories'[k].rows)
<1> DEFINE after == [j \in Regions |-> Observed(j, a)]
           collapsed == {j \in Regions : Collapses(regions[j], after[j])}
<1>1. /\ config' = config /\ pending' = <<>> /\ regions' = after
      /\ histories' = [j \in Regions |-> IF j \in collapsed THEN Cleared(Learned(j, a))
                                         ELSE Learned(j, a)]
      /\ Taken(a) = DOMAIN pending /\ Regions' = Regions
  BY DEF TellBatchTaken, Regions
<1>2. regions'[k].active => regions[k].active
  <2>1. PICK r, o : r = regions[k] /\ o = regions'[k]
    OBVIOUS
  <2>2. IsRegion(r) /\ o = Observed(k, a)
    BY <1>1, <2>1 DEF BatchTyped
  <2>3. \E p, v : o = r \/ o = Observe(r, p, v)
    BY <2>1, <2>2 DEF Observed
  <2>4. PICK p, v : o \in {r, Observe(r, p, v)}
    BY <2>3
  <2>5. QED
    BY <2>1, <2>2, <2>4, ObservedEpoch
<1>3. histories'[k] = IF Collapses(regions[k], regions'[k]) THEN NewHistory ELSE Learned(k, a)
  BY <1>1 DEF Cleared
<1>4. InFlight(k)' = 0
  <2>1. {i \in DOMAIN pending' : pending'[i].region = k} = {}
    BY <1>1
  <2>2. QED
    BY <2>1, FS_EmptySet DEF InFlight
<1>5. PICK g : g = Learned(k, a)
  OBVIOUS
<1>6. /\ g.rows \in Seq(RowType(Points)) /\ Len(g.rows) \in Nat
      /\ Len(g.rows) = Len(histories[k].rows) + Cardinality(Part(k))
  <2>1. HasLearned(Points, k, Taken(a) \cap Part(k), Len(pending), g)
    BY <1>5, BatchMayLearn
  <2>2. Taken(a) \cap Part(k) = Part(k) /\ Part(k) \cap (1..Len(pending)) = Part(k)
    BY <1>1, BatchFacts DEF Part
  <2>3. g \in HistoryType(Points)
        /\ Len(g.rows) = Len(histories[k].rows) + Cardinality(Part(k))
    BY <2>1, <2>2 DEF HasLearned
  <2>4. g.rows \in Seq(RowType(Points))
    BY <2>3 DEF HistoryType
  <2>5. QED
    BY <2>3, <2>4
<1>7. HaveNow'[k] = Len(histories'[k].rows) + InFlight(k)'
  BY <1>1 DEF HaveNow, Have
<1>8. CASE Collapses(regions[k], regions'[k])
  <2>1. histories'[k].rows = <<>>
    BY <1>3, <1>8 DEF NewHistory
  <2>2. HaveNow'[k] = 0 /\ histories'[k].rows \in Seq(RowType(Points))
    BY <1>4, <1>7, <2>1
  <2>3. QED
    BY <1>2, <1>4, <1>8, <2>2
<1>9. CASE ~Collapses(regions[k], regions'[k])
  <2>1. histories'[k].rows = g.rows
    BY <1>3, <1>5, <1>9
  <2>2. HaveNow'[k] = Len(g.rows) /\ HaveNow[k] = Len(g.rows)
    BY <1>4, <1>6, <1>7, <2>1, HaveCountsPending
  <2>3. QED
    BY <1>2, <1>4, <1>6, <1>9, <2>1, <2>2
<1>10. QED
  BY <1>8, <1>9

\* A batch taken empties the full designs of the regions that collapse, and no others.
LEMMA TakenDivides ==
    ASSUME BatchTyped, ActiveAreFull, DesignsDivide, BatchDivides,
           NEW a \in Batches, TellBatchTaken(a)
    PROVE  ActiveAreFull' /\ DesignsDivide'
<1> DEFINE C == {k \in Regions : Collapses(regions[k], regions'[k])}
<1>1. config' = config /\ Regions' = Regions
  BY DEF TellBatchTaken, Regions
<1>2. config \in Configs /\ config.required \in Nat /\ config.required % config.batch = 0
  BY ConfigFacts DEF BatchTyped, BatchDivides
<1>3. ASSUME NEW k \in Regions, regions[k].active
      PROVE  HaveNow[k] >= config.required
  BY <1>2, <1>3, HaveCountsPending DEF ActiveAreFull
<1>4. HaveNow \in [Regions -> Nat]
  BY HaveCountsPending DEF HaveNow
<1>5. ASSUME NEW k \in Regions
      PROVE  /\ HaveNow'[k] = IF k \in C THEN 0 ELSE HaveNow[k]
             /\ k \in C => HaveNow[k] >= config.required
  BY <1>3, TakenKeeps DEF Collapses
<1>6. HaveNow' \in [Regions -> Nat]
  <2>1. \A k \in Regions : HaveNow'[k] \in Nat
    BY <1>4, <1>5
  <2>2. HaveNow' = [k \in Regions |-> HaveNow'[k]]
    BY <1>1 DEF HaveNow
  <2>3. QED
    BY <2>1, <2>2
<1>7. DesignsDivide'
  <2>1. PICK g : g = HaveNow'
    OBVIOUS
  <2>2. Lacking(HaveNow)' = Lacking(g)
    BY <1>1, <2>1 DEF Lacking
  <2>3. C \in SUBSET Regions
    OBVIOUS
  <2>4. g \in [Regions -> Nat] /\ (\A k \in C : HaveNow[k] >= config.required /\ g[k] = 0)
        /\ \A k \in Regions \ C : g[k] = HaveNow[k]
    BY <1>5, <1>6, <2>1
  <2> HIDE DEF C
  <2>5. \E q \in Nat : Cardinality(Lacking(g)) = q * config.batch
    BY <1>2, <1>4, <2>3, <2>4, EmptyingDivides DEF DesignsDivide
  <2>6. QED
    BY <1>1, <2>2, <2>5 DEF DesignsDivide
<1>8. ASSUME NEW k \in Regions, regions'[k].active
      PROVE  Len(histories'[k].rows) >= config.required
  <2>1. regions[k].active /\ ~Collapses(regions[k], regions'[k])
    BY <1>8, TakenKeeps DEF Collapses
  <2>2. HaveNow[k] >= config.required
    BY <1>3, <2>1
  <2>3. Len(histories'[k].rows) = HaveNow[k]
    BY <2>1, TakenKeeps
  <2>4. QED
    BY <2>2, <2>3
<1>9. QED
  BY <1>1, <1>7, <1>8 DEF ActiveAreFull

\* A batch refused at one of its rows takes none from a region.
LEMMA RefusedFull ==
    ASSUME BatchTyped, ActiveAreFull, NEW a \in Batches, TellBatchRefused(a)
    PROVE  ActiveAreFull'
<1>1. /\ config' = config /\ regions' = regions /\ Regions' = Regions
      /\ histories' = [k \in Regions |-> Learned(k, a)]
  BY DEF TellBatchRefused, Regions
<1>2. ASSUME NEW k \in Regions, regions[k].active
      PROVE  Len(histories'[k].rows) >= config.required
  <2>1. PICK g, S : g = Learned(k, a) /\ S = (Taken(a) \cap Part(k)) \cap (1..Len(pending))
    OBVIOUS
  <2>2. Len(g.rows) = Len(histories[k].rows) + Cardinality(S)
    BY <2>1, BatchMayLearn DEF HasLearned
  <2>3. Cardinality(S) \in Nat /\ Len(histories[k].rows) \in Nat
    <3>1. S \subseteq Part(k)
      BY <2>1
    <3>2. QED
      BY <3>1, HaveCountsPending, FS_Subset, FS_CardinalityType
  <2>4. Len(histories[k].rows) >= config.required /\ config.required \in Nat
    BY <1>2, ConfigFacts DEF ActiveAreFull, BatchTyped
  <2>5. QED
    BY <1>1, <2>1, <2>2, <2>3, <2>4
<1>3. QED
  BY <1>1, <1>2 DEF ActiveAreFull

\* Every call keeps the lacking designs a multiple of the batch.
LEMMA NextServed == ServedInv /\ [DriverNext]_vars => ServedInv'
<1> SUFFICES ASSUME ServedInv, [DriverNext]_vars PROVE ServedInv'
  OBVIOUS
<1>1. BatchInv /\ BatchInv'
  BY NextBatch DEF ServedInv
<1>2. config' = config
  BY DEF DriverNext, Ask, Tell, AskDesign, AskExhausted, AskBandit, AskNoSurrogate,
         TellAccepted, TellRefused, AskBatch, AskBatchExhausted, AskBatchNoSurrogate,
         TellBatch, TellBatchTaken, TellBatchRefused, vars
<1>3. CASE ~BatchDivides
  BY <1>1, <1>2, <1>3 DEF ServedInv, BatchDivides
<1>4. CASE BatchDivides
  <2>1. /\ BatchTyped /\ reply # "NO_SURROGATE" /\ ActiveAreFull
        /\ ~Stopped => DesignsDivide
    BY <1>1, <1>4 DEF ServedInv, BatchInv, BatchDivides
  <2>2. SUFFICES reply' # "NO_SURROGATE" /\ ActiveAreFull' /\ (~Stopped' => DesignsDivide')
    BY <1>1 DEF ServedInv
  <2>3. ~Ask /\ ~Tell
    BY <1>4 DEF BatchDivides, Ask, AskDesign, AskExhausted, AskBandit, AskNoSurrogate,
                MayAsk, Tell
  <2>4. CASE AskBatch
    <3>1. reply' = "OK" /\ ~Stopped
      BY <2>4 DEF AskBatch, Remember, MayAskBatch
    <3>2. QED
      BY <2>1, <2>4, <3>1, AskBatchDivides, AskBatchFull
  <2>5. CASE AskBatchExhausted
    <3>1. reply' = "EXHAUSTED" /\ regions' = regions /\ histories' = histories
      BY <2>5 DEF AskBatchExhausted
    <3>2. ActiveAreFull'
      BY <1>2, <2>1, <3>1 DEF ActiveAreFull, Regions
    <3>3. QED
      BY <3>1, <3>2 DEF Stopped
  <2>6. CASE AskBatchNoSurrogate
    <3>1. ~Stopped
      BY <2>6 DEF AskBatchNoSurrogate, MayAskBatch
    <3>2. QED
      BY <2>1, <2>6, <3>1, SlotsFindRegions
  <2>7. CASE TellBatch
    <3>1. PICK a \in Batches : TellBatchTaken(a) \/ TellBatchRefused(a)
      BY <2>7 DEF TellBatch
    <3>2. CASE TellBatchTaken(a)
      <4>1. reply' = "OK" /\ ~Stopped
        BY <3>2 DEF TellBatchTaken
      <4>2. QED
        BY <1>4, <2>1, <3>2, <4>1, TakenDivides
    <3>3. CASE TellBatchRefused(a)
      <4>1. reply' = "REFUSED"
        BY <3>3 DEF TellBatchRefused
      <4>2. QED
        BY <2>1, <3>3, <4>1, RefusedFull DEF Stopped
    <3>4. QED
      BY <3>1, <3>2, <3>3
  <2>8. CASE UNCHANGED vars
    <3>1. /\ regions' = regions /\ histories' = histories /\ pending' = pending
          /\ reply' = reply
      BY <2>8 DEF vars
    <3>2. HaveNow' = HaveNow /\ Stopped' = Stopped
      BY <1>2, <3>1 DEF HaveNow, Have, InFlight, Regions, Stopped
    <3>3. DesignsDivide' = DesignsDivide
      BY <1>2, <3>2 DEF DesignsDivide, Lacking, Regions
    <3>4. ActiveAreFull'
      BY <1>2, <2>1, <3>1 DEF ActiveAreFull, Regions
    <3>5. QED
      BY <2>1, <3>1, <3>2, <3>3, <3>4
  <2>9. QED
    BY <2>3, <2>4, <2>5, <2>6, <2>7, <2>8 DEF DriverNext
<1>5. QED
  BY <1>3, <1>4

\* A batch size that divides the initial design never stalls, whatever collapses or fails:
\* no ask ends with a slot left and no region to draw from (fortbo_turbo_driver.f90:556).
THEOREM DividingBatchesFill == DriverSpec => []DividingBatchesAreServed
<1>1. ServedInv => DividingBatchesAreServed
  BY DEF ServedInv, BatchDivides, DividingBatchesAreServed
<1>2. QED
  BY <1>1, InitServed, NextServed, PTL DEF DriverSpec
=============================================================================
