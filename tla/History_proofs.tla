-------------------------- MODULE History_proofs --------------------------
(***************************************************************************)
(* For every set of inputs, objectives and policies, and any number of     *)
(* calls: the history trains surrogates on measured values only, keeps a   *)
(* dispatched row answerable, finds the earliest best row, restores the    *)
(* checkpoint it wrote and never moves a row.                              *)
(***************************************************************************)
EXTENDS History, WellFoundedInduction, TLAPS

\* Every nonempty set of natural numbers has a least one.
LEMMA LeastNat ==
    ASSUME NEW T, T \subseteq Nat, T # {}
    PROVE  \E m \in T : \A n \in T : m <= n
<1>1. PICK m \in T : \A n \in T : ~ (<<n, m>> \in OpToRel(<, Nat))
  BY NatLessThanWellFounded, WFMin, Zenon
<1>2. \A n \in T : ~ (n < m)
  BY <1>1 DEF OpToRel
<1>3. QED
  BY <1>2

\* one turn of the loop of best_index, after the turns s
ScanStep(g, c, s, n) ==
    IF n = 0 THEN [best |-> 0, value |-> Worst]
    ELSE IF /\ IsUsable(g.rows[n])
            /\ IsFeasible(g.rows[n], c)
            /\ BetterThan(g.rows[n], s[n - 1].value)
         THEN [best |-> n, value |-> g.rows[n].objective]
         ELSE s[n - 1]

\* The loop of best_index takes all its turns: induction on the rows, by a least row
\* that it does not reach.
LEMMA ScanExists ==
    ASSUME NEW g, NEW c, NEW L \in Nat
    PROVE  \E s : s = [n \in 0..L |-> ScanStep(g, c, s, n)]
<1> DEFINE Reaches(k) == \E s : s = [n \in 0..k |-> ScanStep(g, c, s, n)]
           T == {k \in Nat : ~Reaches(k)}
<1>1. ASSUME T # {} PROVE FALSE
  <2>1. PICK k \in T : \A l \in T : k <= l
    <3>1. T \subseteq Nat
      OBVIOUS
    <3> HIDE DEF T
    <3>2. QED
      BY <1>1, <3>1, LeastNat
  <2>2. k \in Nat /\ ~Reaches(k)
    OBVIOUS
  <2>3. CASE k = 0
    <3>1. PICK s : s = [n \in 0..0 |-> [best |-> 0, value |-> Worst]]
      OBVIOUS
    <3>2. \A n \in 0..0 : ScanStep(g, c, s, n) = [best |-> 0, value |-> Worst]
      BY DEF ScanStep
    <3>3. s = [n \in 0..0 |-> ScanStep(g, c, s, n)]
      BY <3>1, <3>2
    <3>4. QED
      BY <2>2, <2>3, <3>3
  <2>4. CASE k # 0
    <3>1. PICK l : l = k - 1
      OBVIOUS
    <3>2. l \in Nat /\ l < k /\ k = l + 1 /\ 0..k = 0..l \cup {k} /\ k \notin 0..l
      BY <2>2, <2>4, <3>1
    <3>3. l \notin T
      BY <2>1, <2>2, <3>2
    <3>4. PICK s : s = [n \in 0..l |-> ScanStep(g, c, s, n)]
      BY <3>2, <3>3
    <3>5. PICK t : t = [n \in 0..k |-> IF n = k THEN ScanStep(g, c, s, k) ELSE s[n]]
      OBVIOUS
    <3>6. \A n \in 0..l : t[n] = s[n]
      BY <3>2, <3>5
    <3>7. \A n \in 0..k : n # 0 => n - 1 \in 0..l
      BY <3>2
    <3>8. \A n \in 0..k : n # 0 => t[n - 1] = s[n - 1]
      BY <3>6, <3>7
    <3>9. \A n \in 0..k : ScanStep(g, c, t, n) = ScanStep(g, c, s, n)
      BY <3>8 DEF ScanStep
    <3>10. \A n \in 0..l : s[n] = ScanStep(g, c, s, n)
      BY <3>4
    <3>11. \A n \in 0..k : t[n] = ScanStep(g, c, t, n)
      BY <3>2, <3>5, <3>9, <3>10
    <3>12. t = [n \in 0..k |-> t[n]]
      BY <3>5
    <3>13. t = [n \in 0..k |-> ScanStep(g, c, t, n)]
      BY <3>11, <3>12
    <3>14. QED
      BY <2>2, <3>13
  <2>5. QED
    BY <2>3, <2>4
<1>2. QED
  BY <1>1

\* a row best_index may return
Candidate(g, c, j) ==
    /\ IsUsable(g.rows[j]) /\ IsFeasible(g.rows[j], c)
    /\ g.rows[j].objective < Worst

\* what the loop has found after n turns
FoundBest(g, c, n, found) ==
    \/ /\ found.best = 0 /\ found.value = Worst
       /\ \A j \in 1..n : ~Candidate(g, c, j)
    \/ /\ found.best \in 1..n /\ Candidate(g, c, found.best)
       /\ found.value = g.rows[found.best].objective
       /\ \A j \in 1..n : Candidate(g, c, j) =>
             /\ g.rows[found.best].objective <= g.rows[j].objective
             /\ j < found.best => g.rows[found.best].objective < g.rows[j].objective

\* One more turn.
LEMMA ScanTurn ==
    ASSUME NEW g, NEW c, NEW m \in Nat, NEW s, FoundBest(g, c, m, s[m]), Worst \in Int,
           \A j \in 1..(m + 1) : g.rows[j].objective \in Int
    PROVE  FoundBest(g, c, m + 1, ScanStep(g, c, s, m + 1))
<1>1. PICK n : n = m + 1
  OBVIOUS
<1>2. n \in Nat /\ n # 0 /\ n - 1 = m /\ 1..n = 1..m \cup {n} /\ \A j \in 1..m : j < n
  BY <1>1
<1>3. PICK f : f = s[m]
  OBVIOUS
<1>4. FoundBest(g, c, m, f)
  BY <1>3
<1>5. PICK v : v = g.rows[n].objective
  OBVIOUS
<1>6. v \in Int /\ \A j \in 1..n : g.rows[j].objective \in Int
  BY <1>1, <1>2, <1>5
<1>7. f.value \in Int /\ f.value <= Worst
  BY <1>2, <1>4, <1>6 DEF FoundBest, Candidate
<1>8. CASE IsUsable(g.rows[n]) /\ IsFeasible(g.rows[n], c) /\ v < f.value
  <2>1. ScanStep(g, c, s, n) = [best |-> n, value |-> v]
    BY <1>2, <1>3, <1>5, <1>8 DEF ScanStep, BetterThan
  <2>2. PICK r : r = ScanStep(g, c, s, n)
    OBVIOUS
  <2>3. r.best = n /\ r.value = v
    BY <2>1, <2>2
  <2>4. Candidate(g, c, n)
    BY <1>5, <1>6, <1>7, <1>8 DEF Candidate
  <2>5. \A j \in 1..m : Candidate(g, c, j) => v < g.rows[j].objective
    BY <1>2, <1>4, <1>6, <1>7, <1>8 DEF FoundBest
  <2>6. n \in 1..n /\ v <= v /\ ~(n < n)
    BY <1>2, <1>6
  <2>7. \A j \in 1..n : Candidate(g, c, j) =>
           /\ v <= g.rows[j].objective
           /\ j < n => v < g.rows[j].objective
    BY <1>2, <1>5, <1>6, <2>5, <2>6
  <2>8. FoundBest(g, c, n, r)
    BY <1>5, <2>3, <2>4, <2>6, <2>7 DEF FoundBest
  <2>9. QED
    BY <1>1, <2>2, <2>8
<1>9. CASE ~(IsUsable(g.rows[n]) /\ IsFeasible(g.rows[n], c) /\ v < f.value)
  <2>1. ScanStep(g, c, s, n) = f
    BY <1>2, <1>3, <1>5, <1>9 DEF ScanStep, BetterThan
  <2>2. Candidate(g, c, n) => f.value <= v /\ v < Worst
    BY <1>5, <1>6, <1>7, <1>9 DEF Candidate
  <2>3. CASE /\ f.best = 0 /\ f.value = Worst
             /\ \A j \in 1..m : ~Candidate(g, c, j)
    <3>1. ~Candidate(g, c, n)
      BY <1>6, <2>2, <2>3
    <3>2. FoundBest(g, c, n, f)
      BY <1>2, <2>3, <3>1 DEF FoundBest
    <3>3. QED
      BY <1>1, <2>1, <3>2
  <2>4. CASE /\ f.best \in 1..m /\ Candidate(g, c, f.best)
             /\ f.value = g.rows[f.best].objective
             /\ \A j \in 1..m : Candidate(g, c, j) =>
                   /\ g.rows[f.best].objective <= g.rows[j].objective
                   /\ j < f.best => g.rows[f.best].objective < g.rows[j].objective
    <3>1. f.best \in 1..n /\ ~(n < f.best)
      BY <1>2, <2>4
    <3>2. \A j \in 1..n : Candidate(g, c, j) =>
             /\ g.rows[f.best].objective <= g.rows[j].objective
             /\ j < f.best => g.rows[f.best].objective < g.rows[j].objective
      BY <1>2, <1>5, <2>2, <2>4, <3>1
    <3>3. FoundBest(g, c, n, f)
      BY <2>4, <3>1, <3>2 DEF FoundBest
    <3>4. QED
      BY <1>1, <2>1, <3>3
  <2>5. QED
    BY <1>4, <2>3, <2>4 DEF FoundBest
<1>10. QED
  BY <1>8, <1>9

\* best_index returns the earliest of the best candidates, or zero when there is none:
\* what its loop computes is what IsBest says.
LEMMA BestIndexIsBest ==
    ASSUME NEW g, NEW c, Len(g.rows) \in Nat, DOMAIN g.rows = 1..Len(g.rows), Worst \in Int,
           \A j \in DOMAIN g.rows : g.rows[j].objective \in Int
    PROVE  IF BestIndex(g, c) = 0 THEN \A i \in DOMAIN g.rows : ~IsBest(g, i, c)
           ELSE IsBest(g, BestIndex(g, c), c)
<1> DEFINE L == Len(g.rows)
           scan == CHOOSE t : t = [n \in 0..L |-> ScanStep(g, c, t, n)]
<1>1. scan = [n \in 0..L |-> ScanStep(g, c, scan, n)]
  <2>1. \E s : s = [n \in 0..L |-> ScanStep(g, c, s, n)]
    BY ScanExists
  <2>2. QED
    BY <2>1, Zenon
<1>2. BestIndex(g, c) = scan[L].best
  BY Zenon DEF BestIndex, ScanStep
<1>3. PICK s : s = scan
  OBVIOUS
<1>4. /\ \A n \in 0..L : s[n] = ScanStep(g, c, s, n)
      /\ BestIndex(g, c) = s[L].best
  <2> HIDE DEF scan
  <2>1. \A n \in 0..L : scan[n] = ScanStep(g, c, scan, n)
    BY <1>1
  <2>2. QED
    BY <1>2, <1>3, <2>1
<1> HIDE DEF scan
<1> DEFINE T == {n \in 0..L : ~FoundBest(g, c, n, s[n])}
<1>5. T = {}
  <2> SUFFICES ASSUME T # {} PROVE FALSE
    OBVIOUS
  <2>1. PICK n \in T : \A m \in T : n <= m
    <3>1. T \subseteq Nat
      OBVIOUS
    <3> HIDE DEF T
    <3>2. QED
      BY <3>1, LeastNat
  <2>2. n \in 0..L /\ ~FoundBest(g, c, n, s[n])
    OBVIOUS
  <2>3. CASE n = 0
    <3>1. s[n] = [best |-> 0, value |-> Worst]
      BY <1>4, <2>2, <2>3 DEF ScanStep
    <3>2. \A j \in 1..n : FALSE
      BY <2>3
    <3>3. QED
      BY <2>2, <3>1, <3>2 DEF FoundBest
  <2>4. CASE n # 0
    <3>1. PICK m : m = n - 1
      OBVIOUS
    <3>2. m \in Nat /\ m \in 0..L /\ n = m + 1 /\ m < n /\ \A j \in 1..n : j \in 1..L
      BY <2>2, <2>4, <3>1
    <3>3. m \notin T
      BY <2>1, <2>2, <3>2
    <3>4. FoundBest(g, c, m, s[m])
      BY <3>2, <3>3
    <3>5. \A j \in 1..(m + 1) : g.rows[j].objective \in Int
      BY <3>2
    <3>6. FoundBest(g, c, m + 1, ScanStep(g, c, s, m + 1))
      BY <3>2, <3>4, <3>5, ScanTurn
    <3>7. QED
      BY <1>4, <2>2, <3>2, <3>6
  <2>5. QED
    BY <2>3, <2>4
<1>6. FoundBest(g, c, L, s[L])
  BY <1>5
<1>7. PICK b : b = BestIndex(g, c)
  OBVIOUS
<1>8. CASE b = 0
  <2>1. \A j \in 1..L : ~Candidate(g, c, j)
    BY <1>4, <1>6, <1>7, <1>8 DEF FoundBest
  <2>2. QED
    BY <1>7, <1>8, <2>1 DEF IsBest, Candidate
<1>9. CASE b # 0
  <2>1. /\ b \in 1..L /\ Candidate(g, c, b)
        /\ \A j \in 1..L : Candidate(g, c, j) =>
              /\ g.rows[b].objective <= g.rows[j].objective
              /\ j < b => g.rows[b].objective < g.rows[j].objective
    BY <1>4, <1>6, <1>7, <1>9 DEF FoundBest
  <2>2. IsBest(g, b, c)
    BY <2>1 DEF IsBest, Candidate
  <2>3. QED
    BY <1>7, <1>9, <2>2
<1>10. QED
  BY <1>8, <1>9

-----------------------------------------------------------------------------

\* The types of a row and of a history.
HRow == [input : Inputs, objective : Int, present : BOOLEAN, imputed : BOOLEAN,
         outcome : {"PENDING", "OK", "FAILED"}, gradient : {NoGradient} \cup Nat,
         constraint : Constraints \cup {"NONE"}]
HistoryType == [rows : Seq(HRow), missing : {"REFUSE", "SKIP", "IMPUTE"},
                duplicates : {"ALLOW", "REJECT", "REPLACE"}]

\* The types of what the program and the disk hold.
Typed ==
    /\ h \in HistoryType
    /\ file \in [state : {"ABSENT", "WRITING", "COMPLETE", "TRUNCATED"}, h : HistoryType]
    /\ up \in BOOLEAN /\ calls \in 0..MaxCalls
    /\ written.h \in HistoryType

\* A row that waits has nothing yet, and a gradient is the label of one of n accepted
\* calls.
IsSound(row, n) ==
    /\ row.outcome = "PENDING" => /\ ~row.present /\ ~row.imputed
                                  /\ row.gradient = NoGradient
    /\ row.gradient # NoGradient => row.gradient \in 1..n

RowsAreSound(g, n) ==
    /\ Len(g.rows) <= n
    /\ \A i \in DOMAIN g.rows : IsSound(g.rows[i], n)

\* The usable rows of g are among what has been measured.
RowIsMeasured(i, row, policy, labels) == \E m \in labels :
    /\ m[1] = i /\ m[2] = row.objective
    /\ policy # "REPLACE" /\ row.gradient # NoGradient => m[3] = row.gradient
IsMeasured(g, labels) == \A i \in UsableRows(g) :
    RowIsMeasured(i, g.rows[i], g.duplicates, labels)

Waiting(g) == {i \in DOMAIN g.rows : g.rows[i].outcome = "PENDING"}

\* What is owed are rows of a running history: those that wait, unless rows are replaced.
OwedAreRows ==
    up => /\ owed \subseteq DOMAIN h.rows
          /\ h.duplicates # "REPLACE" => owed = Waiting(h)

\* The checkpoint is of the history in memory while it is written, and once complete it
\* is the last one written.
CheckpointIsKept ==
    /\ file.state = "WRITING" => up /\ file.h = h
    /\ file.state = "COMPLETE" => file.h = written.h

\* What every call, crash and resume preserves.
HInv == /\ Typed
        /\ RowsAreSound(h, calls) /\ RowsAreSound(file.h, calls)
        /\ RowsAreSound(written.h, calls)
        /\ IsMeasured(h, measured) /\ IsMeasured(written.h, written.measured)
        /\ OwedAreRows /\ CheckpointIsKept

-----------------------------------------------------------------------------
\* A sequence of rows with one more, or with one changed.
LEMMA Appended ==
    ASSUME NEW rows \in Seq(HRow), NEW row \in HRow, NEW more, more = Append(rows, row)
    PROVE  /\ more \in Seq(HRow) /\ Len(rows) \in Nat /\ Len(more) = Len(rows) + 1
           /\ DOMAIN rows = 1..Len(rows) /\ DOMAIN more = 1..(Len(rows) + 1)
           /\ more[Len(rows) + 1] = row /\ \A j \in DOMAIN rows : more[j] = rows[j]
OBVIOUS

\* The same rows, one of them changed.
LEMMA Changed ==
    ASSUME NEW rows \in Seq(HRow), NEW row \in HRow, NEW i \in DOMAIN rows,
           NEW others, others = [rows EXCEPT ![i] = row]
    PROVE  /\ others \in Seq(HRow) /\ Len(rows) \in Nat /\ Len(others) = Len(rows)
           /\ DOMAIN others = DOMAIN rows
           /\ others[i] = row /\ \A j \in DOMAIN rows : j # i => others[j] = rows[j]
OBVIOUS

\* A history has rows and policies.
LEMMA Rows ==
    ASSUME NEW g \in HistoryType
    PROVE  g.rows \in Seq(HRow) /\ g.missing \in {"REFUSE", "SKIP", "IMPUTE"}
           /\ g.duplicates \in {"ALLOW", "REJECT", "REPLACE"}
           /\ Len(g.rows) \in Nat /\ DOMAIN g.rows = 1..Len(g.rows)
           /\ \A i \in DOMAIN g.rows : g.rows[i] \in HRow
BY DEF HistoryType

\* A history with other rows is a history under the same policies.
LEMMA WithRows ==
    ASSUME NEW g \in HistoryType, NEW rows \in Seq(HRow), NEW k, k = [g EXCEPT !.rows = rows]
    PROVE  k \in HistoryType /\ k.rows = rows /\ k.missing = g.missing
           /\ k.duplicates = g.duplicates
BY DEF HistoryType

\* What a row is made of.
LEMMA RowFields ==
    ASSUME NEW row \in HRow
    PROVE  row.input \in Inputs /\ row.objective \in Int /\ row.present \in BOOLEAN
           /\ row.imputed \in BOOLEAN /\ row.outcome \in {"PENDING", "OK", "FAILED"}
           /\ row.gradient \in {NoGradient} \cup Nat
           /\ row.constraint \in Constraints \cup {"NONE"}
BY DEF HRow

-----------------------------------------------------------------------------
\* What a call adds or changes is one row: g is in order, and so is the row at i.
MayTake(g, i, row, n, labels, more) ==
    /\ g \in HistoryType /\ row \in HRow /\ n \in Nat
    /\ RowsAreSound(g, n) /\ IsMeasured(g, labels) /\ labels \subseteq more
    /\ IsSound(row, n + 1)
    /\ IsUsable(row) => RowIsMeasured(i, row, g.duplicates, more)

\* k is g with one more row, or with its row at i answered or replaced.
HasOneMore(g, k, row) ==
    /\ Len(k.rows) = Len(g.rows) + 1 /\ DOMAIN k.rows = 1..(Len(g.rows) + 1)
    /\ k.rows[Len(g.rows) + 1] = row /\ \A j \in DOMAIN g.rows : k.rows[j] = g.rows[j]
    /\ Waiting(k) = IF row.outcome = "PENDING" THEN Waiting(g) \cup {Len(g.rows) + 1}
                    ELSE Waiting(g)

HasOneChanged(g, k, i, row) ==
    /\ Len(k.rows) = Len(g.rows) /\ DOMAIN k.rows = DOMAIN g.rows
    /\ k.rows[i] = row /\ \A j \in DOMAIN g.rows : j # i => k.rows[j] = g.rows[j]
    /\ row.outcome # "PENDING" => Waiting(k) = Waiting(g) \ {i}

\* The history with the row is in order too, and its other rows are kept.
LEMMA AppendStep ==
    ASSUME NEW g, NEW row, NEW n, NEW labels, NEW more, NEW k,
           MayTake(g, Len(g.rows) + 1, row, n, labels, more),
           k.rows = Append(g.rows, row), k.duplicates = g.duplicates
    PROVE  /\ RowsAreSound(k, n + 1) /\ IsMeasured(k, more)
           /\ HasOneMore(g, k, row)
<1> PICK m : m = n + 1
  OBVIOUS
<1> USE DEF MayTake, HasOneMore
<1>1. PICK rows : rows = Append(g.rows, row)
  OBVIOUS
<1>2. PICK L : L = Len(g.rows)
  OBVIOUS
<1>3. /\ rows \in Seq(HRow) /\ L \in Nat /\ Len(rows) = L + 1
      /\ DOMAIN g.rows = 1..L /\ DOMAIN rows = 1..(L + 1)
      /\ rows[L + 1] = row /\ \A j \in DOMAIN g.rows : rows[j] = g.rows[j]
  BY <1>1, <1>2, Rows, Appended
<1>4. k.rows = rows /\ k.duplicates = g.duplicates
  BY <1>1
<1>5. \A j \in 1..(L + 1) : j \in 1..L \/ j = L + 1
  BY <1>3
<1>6. RowsAreSound(k, m)
  <2>1. L + 1 <= m
    BY <1>2, <1>3 DEF RowsAreSound
  <2>2. ASSUME NEW j \in 1..L PROVE IsSound(rows[j], m)
    <3>1. PICK r : r = rows[j]
      OBVIOUS
    <3>2. IsSound(r, n)
      BY <1>3, <2>2, <3>1 DEF RowsAreSound
    <3>3. 1..n \subseteq 1..m
      OBVIOUS
    <3>4. IsSound(r, m)
      BY <3>2, <3>3, Zenon DEF IsSound
    <3>5. QED
      BY <3>1, <3>4
  <2>3. QED
    BY <1>3, <1>4, <1>5, <2>1, <2>2 DEF RowsAreSound
<1>7. IsMeasured(k, more)
  <2>1. SUFFICES ASSUME NEW j \in 1..(L + 1), IsUsable(rows[j])
                 PROVE  RowIsMeasured(j, rows[j], g.duplicates, more)
    BY <1>3, <1>4 DEF IsMeasured, UsableRows
  <2>2. CASE j = L + 1
    BY <1>2, <1>3, <2>1, <2>2
  <2>3. CASE j \in 1..L
    <3>1. j \in UsableRows(g)
      BY <1>3, <2>1, <2>3 DEF UsableRows
    <3>2. RowIsMeasured(j, g.rows[j], g.duplicates, labels)
      BY <3>1 DEF IsMeasured
    <3>3. RowIsMeasured(j, g.rows[j], g.duplicates, more)
      BY <3>2, Zenon DEF RowIsMeasured
    <3>4. QED
      BY <1>3, <2>3, <3>3
  <2>4. QED
    BY <1>5, <2>2, <2>3
<1>8. Waiting(k) = IF row.outcome = "PENDING" THEN Waiting(g) \cup {L + 1} ELSE Waiting(g)
  <2>1. \A j \in 1..L : j \in 1..(L + 1) /\ j # L + 1
    BY <1>3
  <2>2. L + 1 \in 1..(L + 1)
    BY <1>3
  <2>3. Waiting(k) = {j \in 1..(L + 1) : rows[j].outcome = "PENDING"}
    BY <1>3, <1>4 DEF Waiting
  <2>4. Waiting(g) = {j \in 1..L : rows[j].outcome = "PENDING"}
    BY <1>3 DEF Waiting
  <2>5. QED
    BY <1>3, <1>5, <2>1, <2>2, <2>3, <2>4
<1>9. QED
  BY <1>2, <1>3, <1>4, <1>6, <1>7, <1>8

\* So is the history with a row in place of another.
LEMMA ChangeStep ==
    ASSUME NEW g, NEW row, NEW n, NEW labels, NEW more, NEW k, NEW i,
           i \in DOMAIN g.rows, MayTake(g, i, row, n, labels, more),
           k.rows = [g.rows EXCEPT ![i] = row], k.duplicates = g.duplicates
    PROVE  /\ RowsAreSound(k, n + 1) /\ IsMeasured(k, more)
           /\ HasOneChanged(g, k, i, row)
<1> PICK m : m = n + 1
  OBVIOUS
<1> USE DEF MayTake, HasOneChanged
<1>1. PICK rows : rows = [g.rows EXCEPT ![i] = row]
  OBVIOUS
<1>2. PICK L : L = Len(g.rows)
  OBVIOUS
<1>3. /\ rows \in Seq(HRow) /\ L \in Nat /\ Len(rows) = L
      /\ DOMAIN rows = DOMAIN g.rows
      /\ rows[i] = row /\ \A j \in DOMAIN g.rows : j # i => rows[j] = g.rows[j]
  BY <1>1, <1>2, Rows, Changed
<1>4. k.rows = rows /\ k.duplicates = g.duplicates
  BY <1>1
<1>6. RowsAreSound(k, m)
  <2>1. L <= m
    BY <1>2, <1>3 DEF RowsAreSound
  <2>2. ASSUME NEW j \in DOMAIN g.rows, j # i PROVE IsSound(rows[j], m)
    <3>1. PICK r : r = rows[j]
      OBVIOUS
    <3>2. IsSound(r, n)
      BY <1>3, <2>2, <3>1 DEF RowsAreSound
    <3>3. 1..n \subseteq 1..m
      OBVIOUS
    <3>4. IsSound(r, m)
      BY <3>2, <3>3, Zenon DEF IsSound
    <3>5. QED
      BY <3>1, <3>4
  <2>3. QED
    BY <1>3, <1>4, <2>1, <2>2 DEF RowsAreSound
<1>7. IsMeasured(k, more)
  <2>1. SUFFICES ASSUME NEW j \in DOMAIN g.rows, IsUsable(rows[j])
                 PROVE  RowIsMeasured(j, rows[j], g.duplicates, more)
    BY <1>3, <1>4 DEF IsMeasured, UsableRows
  <2>2. CASE j = i
    BY <1>3, <2>1, <2>2
  <2>3. CASE j # i
    <3>1. j \in UsableRows(g)
      BY <1>3, <2>1, <2>3 DEF UsableRows
    <3>2. RowIsMeasured(j, g.rows[j], g.duplicates, labels)
      BY <3>1 DEF IsMeasured
    <3>3. RowIsMeasured(j, g.rows[j], g.duplicates, more)
      BY <3>2, Zenon DEF RowIsMeasured
    <3>4. QED
      BY <1>3, <2>3, <3>3
  <2>4. QED
    BY <2>2, <2>3
<1>8. ASSUME row.outcome # "PENDING" PROVE Waiting(k) = Waiting(g) \ {i}
  BY <1>3, <1>4, <1>8 DEF Waiting
<1>9. QED
  BY <1>2, <1>3, <1>4, <1>6, <1>7, <1>8

-----------------------------------------------------------------------------
\* The row of an accepted call has an outcome.
LEMMA RowMade ==
    ASSUME NEW x \in Inputs, NEW v \in Objectives \cup {Missing}, NEW o \in Outcomes,
           NEW c \in Constraints, NEW n \in Nat, NEW gr \in {NoGradient, n},
           NEW row, row = Row(x, v, o, gr, c)
    PROVE  /\ row \in HRow /\ row.outcome # "PENDING" /\ row.input = x
           /\ IsUsable(row) => v # Missing /\ row.objective = v
           /\ row.gradient = gr
<1>1. v # Missing => v \in Int
  BY HistoryAssumption
<1>2. Stored(v) \in Int /\ (v # Missing => Stored(v) = v)
  BY <1>1, HistoryAssumption DEF Stored
<1>3. /\ row.input = x /\ row.objective = Stored(v) /\ row.present = (v # Missing)
      /\ row.imputed = (v = Missing) /\ row.gradient = gr /\ row.constraint = c
      /\ row.outcome = IF o = "DEFAULT" THEN OutcomeOf(v) ELSE o
  BY DEF Row
<1>4. row.outcome \in {"OK", "FAILED"}
  BY <1>3, CallersAssumption DEF OutcomeOf
<1>5. row = [input |-> row.input, objective |-> row.objective, present |-> row.present,
             imputed |-> row.imputed, outcome |-> row.outcome, gradient |-> row.gradient,
             constraint |-> row.constraint]
  BY DEF Row
<1>6. row.present \in BOOLEAN /\ row.imputed \in BOOLEAN
  BY <1>3
<1>7. row \in HRow
  BY <1>2, <1>3, <1>4, <1>5, <1>6 DEF HRow
<1>8. QED
  BY <1>2, <1>3, <1>4, <1>7 DEF IsUsable

\* The first of the rows at an input is one of them.
LEMMA FirstIsOne ==
    ASSUME NEW g \in HistoryType, NEW x, Duplicates(g, x) # {}
    PROVE  First(Duplicates(g, x)) \in Duplicates(g, x)
<1>1. PICK T : T = Duplicates(g, x)
  OBVIOUS
<1>2. T \subseteq Nat /\ T # {}
  BY <1>1, Rows DEF Duplicates
<1>3. \E i \in T : \A j \in T : i <= j
  BY <1>2, LeastNat
<1>4. First(T) \in T
  BY <1>3 DEF First
<1>5. QED
  BY <1>1, <1>4

\* k is g after an add: skipped, with its first row at x replaced, or with one row more.
IsAddedTo(g, k, x, v, gr, row) ==
    \/ v = Missing /\ k = g
    \/ /\ g.duplicates = "REPLACE" /\ Duplicates(g, x) # {}
       /\ \E i, w : /\ i = First(Duplicates(g, x))
                    /\ w = Replacement(row, g.rows[i], gr)
                    /\ k = [g EXCEPT !.rows = [g.rows EXCEPT ![i] = w]]
    \/ k = [g EXCEPT !.rows = Append(g.rows, row)]

\* That is what an accepted add does.
LEMMA AddOutcome ==
    ASSUME NEW g \in HistoryType, NEW x, NEW v, NEW o, NEW gr, NEW c,
           Add(g, x, v, o, gr, c).ok
    PROVE  IsAddedTo(g, Add(g, x, v, o, gr, c).h, x, v, gr, Row(x, v, o, gr, c))
<1> PICK r : r = Add(g, x, v, o, gr, c)
  OBVIOUS
<1> PICK row : row = Row(x, v, o, gr, c)
  OBVIOUS
<1> SUFFICES IsAddedTo(g, r.h, x, v, gr, row)
  OBVIOUS
<1> USE DEF IsAddedTo
<1> DEFINE i == First(Duplicates(g, x))
           w == Replacement(row, g.rows[i], gr)
<1>0. r = IF c = "BADWIDTH" \/ (v = Missing /\ g.missing = "REFUSE") THEN Refused(g)
          ELSE IF v = Missing /\ g.missing = "SKIP" THEN Accepted(g, g.rows)
          ELSE IF Duplicates(g, x) # {} /\ g.duplicates = "REJECT" THEN Refused(g)
          ELSE IF Duplicates(g, x) # {} /\ Replaces(g)
          THEN Accepted(g, [g.rows EXCEPT ![i] = w])
          ELSE Accepted(g, Append(g.rows, row))
  <2>1. Add(g, x, v, o, gr, c) =
          IF c = "BADWIDTH" \/ (v = Missing /\ g.missing = "REFUSE") THEN Refused(g)
          ELSE IF v = Missing /\ g.missing = "SKIP" THEN Accepted(g, g.rows)
          ELSE IF Duplicates(g, x) # {} /\ g.duplicates = "REJECT" THEN Refused(g)
          ELSE IF Duplicates(g, x) # {} /\ Replaces(g)
          THEN Accepted(g, [g.rows EXCEPT ![i] =
                               Replacement(Row(x, v, o, gr, c), g.rows[i], gr)])
          ELSE Accepted(g, Append(g.rows, Row(x, v, o, gr, c)))
    BY DEF Add
  <2>2. Row(x, v, o, gr, c) = row
    OBVIOUS
  <2>3. QED
    BY <2>1, <2>2, Zenon
<1>1. g = [g EXCEPT !.rows = g.rows]
  BY DEF HistoryType
<1>2. ~ (c = "BADWIDTH" \/ (v = Missing /\ g.missing = "REFUSE"))
  BY DEF Add, Refused
<1>3. CASE v = Missing /\ g.missing = "SKIP"
  <2>1. r = Accepted(g, g.rows)
    BY <1>0, <1>2, <1>3, Zenon
  <2>2. r.h = g
    BY <1>1, <2>1 DEF Accepted
  <2>3. QED
    BY <1>3, <2>2
<1>4. CASE ~ (v = Missing /\ g.missing = "SKIP")
  <2>1. ~ (Duplicates(g, x) # {} /\ g.duplicates = "REJECT")
    BY <1>2, <1>4 DEF Add, Refused
  <2>2. CASE Duplicates(g, x) # {} /\ Replaces(g)
    <3>1. r = Accepted(g, [g.rows EXCEPT ![i] = w])
      BY <1>0, <1>2, <1>4, <2>1, <2>2, Zenon
    <3>2. r.h = [g EXCEPT !.rows = [g.rows EXCEPT ![i] = w]]
      BY <3>1 DEF Accepted
    <3>3. g.duplicates = "REPLACE"
      BY <2>2 DEF Replaces
    <3>4. \E j, u : /\ j = First(Duplicates(g, x))
                    /\ u = Replacement(row, g.rows[j], gr)
                    /\ r.h = [g EXCEPT !.rows = [g.rows EXCEPT ![j] = u]]
      BY <3>2, Zenon
    <3>5. QED
      BY <2>2, <3>3, <3>4, Zenon
  <2>3. CASE ~ (Duplicates(g, x) # {} /\ Replaces(g))
    <3>1. r = Accepted(g, Append(g.rows, row))
      BY <1>0, <1>2, <1>4, <2>1, <2>3, Zenon
    <3>2. QED
      BY <3>1 DEF Accepted
  <2>4. QED
    BY <2>2, <2>3
<1>5. QED
  BY <1>3, <1>4

\* k is g with an answer in the waiting row i.
IsAnsweredAt(g, k, i, v, gr) ==
    /\ g.rows[i].outcome = "PENDING"
    /\ \E row \in HRow :
          /\ k = [g EXCEPT !.rows = [g.rows EXCEPT ![i] = row]]
          /\ row.outcome # "PENDING" /\ row.gradient = gr
          /\ row.input = g.rows[i].input
          /\ IsUsable(row) => v # Missing /\ row.objective = v

\* A call of complete that changes a history answers a row that waits.
LEMMA CompleteOutcome ==
    ASSUME NEW g \in HistoryType, NEW n \in Nat, RowsAreSound(g, n), NEW i \in DOMAIN g.rows,
           NEW v \in Objectives \cup {Missing}, NEW o \in Outcomes, NEW m \in Nat,
           NEW gr \in {NoGradient, m}, NEW c \in Constraints, NEW nc,
           Complete(g, i, v, o, gr, c, nc).h # g
    PROVE  /\ Complete(g, i, v, o, gr, c, nc).ok = TRUE
           /\ IsAnsweredAt(g, Complete(g, i, v, o, gr, c, nc).h, i, v, gr)
<1> PICK r : r = Complete(g, i, v, o, gr, c, nc)
  OBVIOUS
<1>1. Answerable(g, i)
  BY DEF Complete, Refused
<1>2. c # "BADWIDTH"
  BY CallersAssumption
<1>3. PICK old : old = g.rows[i]
  OBVIOUS
<1>4. old \in HRow /\ old.outcome = "PENDING" /\ IsSound(old, n)
  BY <1>1, <1>3, Rows DEF Answerable, RowsAreSound
<1>5. old.present = FALSE /\ old.imputed = FALSE /\ old.gradient = NoGradient
  BY <1>4, RowFields DEF IsSound
<1>6. PICK mid : mid = Answered(g, old, v, gr)
  OBVIOUS
<1>7. (IF gr = NoGradient THEN old.gradient ELSE gr) = gr
  BY <1>5
<1>8. v # Missing => v \in Int
  BY HistoryAssumption
<1>9. OutcomeOf(v) \in {"OK", "FAILED"}
  BY DEF OutcomeOf
<1>10. gr \in {NoGradient} \cup Nat
  OBVIOUS
<1>11. /\ mid \in HRow /\ mid.outcome # "PENDING" /\ mid.gradient = gr
       /\ mid.input = old.input /\ mid.constraint = old.constraint
       /\ IsUsable(mid) => v # Missing /\ mid.objective = v
  <2>1. CASE v # Missing
    <3>1. mid = [old EXCEPT !.gradient = gr, !.objective = v, !.present = TRUE,
                            !.outcome = OutcomeOf(v)]
      BY <1>6, <1>7, <2>1 DEF Answered
    <3>2. mid \in HRow
      BY <1>4, <1>8, <1>9, <1>10, <2>1, <3>1 DEF HRow
    <3>3. QED
      BY <1>4, <1>9, <2>1, <3>1, <3>2 DEF HRow
  <2>2. CASE v = Missing /\ g.missing = "IMPUTE"
    <3>1. mid = [old EXCEPT !.gradient = gr, !.objective = Worst, !.imputed = TRUE,
                            !.outcome = OutcomeOf(v)]
      BY <1>6, <1>7, <2>2 DEF Answered
    <3>2. mid \in HRow
      BY <1>4, <1>9, <1>10, <3>1, HistoryAssumption DEF HRow
    <3>3. mid.imputed = TRUE
      BY <1>4, <3>1 DEF HRow
    <3>4. QED
      BY <1>4, <1>9, <3>1, <3>2, <3>3 DEF HRow, IsUsable
  <2>3. CASE v = Missing /\ g.missing # "IMPUTE"
    <3>1. mid = [old EXCEPT !.gradient = gr, !.outcome = OutcomeOf(v)]
      BY <1>6, <1>7, <2>3 DEF Answered
    <3>2. mid \in HRow
      BY <1>4, <1>9, <1>10, <3>1 DEF HRow
    <3>3. mid.present = FALSE
      BY <1>4, <1>5, <3>1 DEF HRow
    <3>4. QED
      BY <1>4, <1>9, <3>1, <3>2, <3>3 DEF HRow, IsUsable
  <2>4. QED
    BY <2>1, <2>2, <2>3
<1>12. PICK k : k = IF c = "NONE" \/ nc = 0 THEN mid.constraint ELSE c
  OBVIOUS
<1>13. PICK oc : oc = IF o = "DEFAULT" THEN mid.outcome ELSE o
  OBVIOUS
<1>14. PICK row : row = [mid EXCEPT !.constraint = k, !.outcome = oc]
  OBVIOUS
<1>15. k \in Constraints \cup {"NONE"}
  BY <1>11, <1>12, RowFields
<1>16. oc \in {"OK", "FAILED"}
  BY <1>11, <1>13, RowFields, CallersAssumption
<1>17. r = Accepted(g, [g.rows EXCEPT ![i] = row])
  BY <1>1, <1>2, <1>3, <1>6, <1>12, <1>13, <1>14 DEF Complete
<1>18. row \in HRow
  BY <1>11, <1>14, <1>15, <1>16 DEF HRow
<1>19. /\ row.outcome = oc /\ row.gradient = mid.gradient /\ row.input = mid.input
       /\ row.present = mid.present /\ row.imputed = mid.imputed
       /\ row.objective = mid.objective
  BY <1>11, <1>14 DEF HRow
<1>20. IsUsable(row) => v # Missing /\ row.objective = v
  BY <1>11, <1>19 DEF IsUsable
<1>21. r.ok = TRUE /\ r.h = [g EXCEPT !.rows = [g.rows EXCEPT ![i] = row]]
  BY <1>17 DEF Accepted
<1>22. QED
  BY <1>3, <1>4, <1>11, <1>16, <1>18, <1>19, <1>20, <1>21 DEF IsAnsweredAt

-----------------------------------------------------------------------------
\* A replaced row is the new row, with the old gradient when the call brings none.
LEMMA ReplacementMade ==
    ASSUME NEW row \in HRow, NEW old \in HRow, NEW n \in Nat, IsSound(old, n), NEW gr,
           gr = NoGradient \/ gr = n + 1, row.gradient = gr, row.outcome # "PENDING"
    PROVE  /\ Replacement(row, old, gr) \in HRow
           /\ Replacement(row, old, gr).input = row.input
           /\ Replacement(row, old, gr).objective = row.objective
           /\ IsSound(Replacement(row, old, gr), n + 1)
           /\ IsUsable(Replacement(row, old, gr)) => IsUsable(row)
<1> PICK m : m = n + 1
  OBVIOUS
<1> PICK w : w = Replacement(row, old, gr)
  OBVIOUS
<1>1. 1..n \subseteq 1..m /\ m \in 1..m
  OBVIOUS
<1>2. CASE gr = NoGradient
  <2>1. PICK k : k = old.gradient
    OBVIOUS
  <2>2. k \in {NoGradient} \cup Nat
    BY <2>1, RowFields
  <2>3. w = [row EXCEPT !.gradient = k]
    BY <1>2, <2>1 DEF Replacement
  <2>4. w \in HRow
    BY <2>2, <2>3 DEF HRow
  <2>5. /\ w.outcome = row.outcome /\ w.input = row.input /\ w.objective = row.objective
        /\ w.present = row.present /\ w.imputed = row.imputed /\ w.gradient = k
    BY <2>3 DEF HRow
  <2>6. k # NoGradient => k \in 1..m
    BY <1>1, <2>1 DEF IsSound
  <2>7. QED
    BY <2>4, <2>5, <2>6 DEF IsSound, IsUsable
<1>3. CASE gr # NoGradient
  <2>1. w = row
    BY <1>3 DEF Replacement
  <2>2. QED
    BY <1>1, <1>3, <2>1 DEF IsSound
<1>4. QED
  BY <1>2, <1>3

\* More calls and more labels leave what holds of a history as it is.
LEMMA SoundLonger ==
    ASSUME NEW g \in HistoryType, NEW n \in Nat, NEW m \in Nat, n <= m, RowsAreSound(g, n)
    PROVE  RowsAreSound(g, m)
<1>1. Len(g.rows) <= m
  BY Rows DEF RowsAreSound
<1>2. 1..n \subseteq 1..m
  OBVIOUS
<1>3. ASSUME NEW i \in DOMAIN g.rows PROVE IsSound(g.rows[i], m)
  BY <1>2, Zenon DEF RowsAreSound, IsSound
<1>4. QED
  BY <1>1, <1>3 DEF RowsAreSound

\* A row stays measured when labels are added.
LEMMA MeasuredLonger ==
    ASSUME NEW g, NEW labels, NEW more, labels \subseteq more, IsMeasured(g, labels)
    PROVE  IsMeasured(g, more)
BY Zenon DEF IsMeasured, RowIsMeasured

\* A running history only grows, and a row changes only by being answered or replaced.
KeepsPlace(g, k) ==
    /\ Len(k.rows) >= Len(g.rows)
    /\ \A i \in DOMAIN g.rows :
          /\ k.rows[i].input = g.rows[i].input
          /\ \/ k.rows[i] = g.rows[i]
             \/ g.rows[i].outcome = "PENDING"
             \/ g.duplicates = "REPLACE"

\* A call that leaves one history and its accounts in order leaves all of them so.
LEMMA CallStep ==
    ASSUME HInv, ~Busy, up, calls < MaxCalls, calls' = calls + 1,
           file' = file, up' = up, written' = written,
           h' \in HistoryType, RowsAreSound(h', calls'), IsMeasured(h', measured'),
           owed' \subseteq DOMAIN h'.rows, h'.duplicates # "REPLACE" => owed' = Waiting(h')
    PROVE  HInv'
<1>1. /\ file \in [state : {"ABSENT", "WRITING", "COMPLETE", "TRUNCATED"}, h : HistoryType]
      /\ calls \in Nat /\ calls \in 0..MaxCalls /\ written.h \in HistoryType
      /\ up \in BOOLEAN /\ MaxCalls \in Nat
  BY HistoryAssumption DEF HInv, Typed
<1>2. calls' \in 0..MaxCalls /\ calls' \in Nat /\ calls <= calls'
  BY <1>1
<1>3. Typed'
  BY <1>1, <1>2 DEF Typed
<1>4. file.h \in HistoryType
  BY <1>1
<1>5. RowsAreSound(file.h, calls') /\ RowsAreSound(written.h, calls')
  BY <1>1, <1>2, <1>4, SoundLonger DEF HInv
<1>6. OwedAreRows'
  BY DEF OwedAreRows
<1>7. CheckpointIsKept'
  BY DEF HInv, CheckpointIsKept, Busy
<1>8. QED
  BY <1>3, <1>5, <1>6, <1>7 DEF HInv

\* What the invariant says of the history in memory.
LEMMA InMemory ==
    ASSUME HInv
    PROVE  /\ h \in HistoryType /\ calls \in Nat /\ RowsAreSound(h, calls)
           /\ IsMeasured(h, measured)
           /\ up => /\ owed \subseteq DOMAIN h.rows
                    /\ h.duplicates # "REPLACE" => owed = Waiting(h)
BY HistoryAssumption DEF HInv, Typed, OwedAreRows

\* add_pending appends a row that waits, and owes it.
LEMMA DispatchRowStep ==
    ASSUME HInv, ~Busy, DispatchRow PROVE HInv' /\ KeepsPlace(h, h')
<1>1. /\ up /\ calls < MaxCalls /\ calls' = calls + 1
      /\ file' = file /\ up' = up /\ measured' = measured /\ written' = written
      /\ owed' = owed \cup {Len(h'.rows)}
  BY DEF DispatchRow
<1>2. PICK x \in Inputs : h' = AddPending(h, x).h
  BY DEF DispatchRow
<1>3. PICK row : row = [input |-> x, objective |-> 0, present |-> FALSE, imputed |-> FALSE,
                        outcome |-> "PENDING", gradient |-> NoGradient,
                        constraint |-> "NONE"]
  OBVIOUS
<1>4. row \in HRow /\ row.outcome = "PENDING"
  BY <1>3 DEF HRow
<1>5. IsSound(row, calls + 1) /\ ~IsUsable(row)
  BY <1>3 DEF IsSound, IsUsable
<1>6. PICK k : k = h'
  OBVIOUS
<1>7. k \in HistoryType /\ k.rows = Append(h.rows, row) /\ k.duplicates = h.duplicates
  <2>1. PICK rows : rows = Append(h.rows, row)
    OBVIOUS
  <2>2. k = [h EXCEPT !.rows = rows]
    BY <1>2, <1>3, <1>6, <2>1 DEF AddPending, Accepted
  <2>3. rows \in Seq(HRow) /\ h \in HistoryType
    BY <1>4, <2>1, InMemory, Rows, Appended
  <2>4. QED
    BY <2>1, <2>2, <2>3, WithRows
<1>8. PICK m : m = calls + 1
  OBVIOUS
<1>9. m \in Nat /\ IsSound(row, m)
  BY <1>5, <1>8, InMemory
<1>10. /\ k \in HistoryType /\ RowsAreSound(k, m) /\ IsMeasured(k, measured)
       /\ k.duplicates = h.duplicates
       /\ Len(k.rows) = Len(h.rows) + 1 /\ DOMAIN k.rows = 1..(Len(h.rows) + 1)
       /\ \A j \in DOMAIN h.rows : k.rows[j] = h.rows[j]
       /\ Waiting(k) = Waiting(h) \cup {Len(h.rows) + 1}
  <2>1. /\ h \in HistoryType /\ calls \in Nat
        /\ RowsAreSound(h, calls) /\ IsMeasured(h, measured)
    BY InMemory
  <2>2. MayTake(h, Len(h.rows) + 1, row, calls, measured, measured)
    BY <1>4, <1>5, <2>1 DEF MayTake
  <2>3. RowsAreSound(k, calls + 1) /\ IsMeasured(k, measured) /\ HasOneMore(h, k, row)
    BY <1>7, <2>2, AppendStep
  <2>4. QED
    BY <1>4, <1>7, <1>8, <2>3 DEF HasOneMore
<1>11. /\ Len(h.rows) \in Nat /\ DOMAIN h.rows = 1..Len(h.rows)
  BY InMemory, Rows
<1>12. DOMAIN h.rows \subseteq DOMAIN k.rows /\ Len(h.rows) + 1 \in DOMAIN k.rows
  BY <1>10, <1>11
<1>13. owed' \subseteq DOMAIN k.rows
  BY <1>1, <1>6, <1>10, <1>12, InMemory
<1>14. k.duplicates # "REPLACE" => owed' = Waiting(k)
  BY <1>1, <1>6, <1>10, InMemory
<1>15. HInv'
  BY <1>1, <1>6, <1>8, <1>10, <1>13, <1>14, CallStep
<1>16. Len(k.rows) >= Len(h.rows)
  BY <1>10, <1>11
<1>17. KeepsPlace(h, k)
  BY <1>10, <1>16, Zenon DEF KeepsPlace
<1>18. QED
  BY <1>6, <1>15, <1>17

-----------------------------------------------------------------------------
\* A row is measured by the label it is written with.
LEMMA RowTakesLabel ==
    ASSUME NEW i, NEW row, NEW policy, NEW more, NEW v, NEW m, <<i, v, m>> \in more,
           row.objective = v, policy = "REPLACE" \/ row.gradient \in {NoGradient, m}
    PROVE  RowIsMeasured(i, row, policy, more)
BY DEF RowIsMeasured

\* complete answers a row that waits, and owes it no more.
LEMMA CompleteRowStep ==
    ASSUME HInv, ~Busy, CompleteRow PROVE HInv' /\ KeepsPlace(h, h')
<1>1. /\ up /\ calls < MaxCalls /\ calls' = calls + 1
      /\ file' = file /\ up' = up /\ written' = written
  BY DEF CompleteRow
<1>2. PICK i \in DOMAIN h.rows, v \in Objectives \cup {Missing}, o \in Outcomes,
           gr \in Gradients, c \in Constraints :
             LET r == Complete(h, i, v, o, gr, c, NConstraints)
             IN  /\ r.h # h
                 /\ h' = r.h
                 /\ owed' = IF r.ok THEN owed \ {i} ELSE owed
                 /\ measured' = IF v = Missing THEN measured
                                ELSE measured \cup {<<i, v, calls + 1>>}
  BY DEF CompleteRow
<1>3. PICK r : r = Complete(h, i, v, o, gr, c, NConstraints)
  OBVIOUS
<1>4. PICK m : m = calls + 1
  OBVIOUS
<1>5. /\ h \in HistoryType /\ calls \in Nat
      /\ RowsAreSound(h, calls) /\ IsMeasured(h, measured)
  BY InMemory
<1>6. m \in Nat /\ gr \in {NoGradient, m} /\ m \in 1..m
  BY <1>4, <1>5 DEF Gradients
<1>7. r.h # h /\ h' = r.h
  BY <1>2, <1>3
<1>8. r.ok = TRUE /\ IsAnsweredAt(h, h', i, v, gr)
  BY <1>3, <1>5, <1>6, <1>7, CompleteOutcome
<1>9. owed' = owed \ {i}
  BY <1>2, <1>3, <1>8
<1>10. /\ h.rows[i].outcome = "PENDING"
       /\ \E row \in HRow :
             /\ h' = [h EXCEPT !.rows = [h.rows EXCEPT ![i] = row]]
             /\ row.outcome # "PENDING" /\ row.gradient = gr
             /\ row.input = h.rows[i].input
             /\ IsUsable(row) => v # Missing /\ row.objective = v
  BY <1>8 DEF IsAnsweredAt
<1> PICK row \in HRow :
      /\ h' = [h EXCEPT !.rows = [h.rows EXCEPT ![i] = row]]
      /\ row.outcome # "PENDING" /\ row.gradient = gr
      /\ row.input = h.rows[i].input
      /\ IsUsable(row) => v # Missing /\ row.objective = v
  BY <1>10
<1>11. PICK k : k = h'
  OBVIOUS
<1>12. /\ k \in HistoryType /\ k.rows = [h.rows EXCEPT ![i] = row]
       /\ k.duplicates = h.duplicates
  <2>1. PICK rows : rows = [h.rows EXCEPT ![i] = row]
    OBVIOUS
  <2>2. k = [h EXCEPT !.rows = rows]
    BY <1>10, <1>11, <2>1
  <2>3. rows \in Seq(HRow)
    BY <1>5, <2>1, Rows, Changed
  <2>4. k \in HistoryType /\ k.rows = rows /\ k.duplicates = h.duplicates
    BY <1>5, <2>2, <2>3, WithRows
  <2>5. QED
    BY <2>1, <2>4
<1>13. measured \subseteq measured' /\ (v # Missing => <<i, v, m>> \in measured')
  BY <1>2, <1>4
<1>14. IsSound(row, m)
  BY <1>6, <1>10 DEF IsSound
<1>15. ASSUME IsUsable(row) PROVE RowIsMeasured(i, row, h.duplicates, measured')
  <2>1. <<i, v, m>> \in measured' /\ row.objective = v /\ row.gradient \in {NoGradient, m}
    BY <1>6, <1>10, <1>13, <1>15
  <2>2. QED
    BY <2>1, RowTakesLabel
<1>16. MayTake(h, i, row, calls, measured, measured')
  BY <1>4, <1>5, <1>13, <1>14, <1>15 DEF MayTake
<1>17. RowsAreSound(k, calls + 1) /\ IsMeasured(k, measured') /\ HasOneChanged(h, k, i, row)
  BY <1>12, <1>16, ChangeStep
<1>18. /\ DOMAIN k.rows = DOMAIN h.rows /\ Len(k.rows) = Len(h.rows) /\ k.rows[i] = row
       /\ \A j \in DOMAIN h.rows : j # i => k.rows[j] = h.rows[j]
       /\ Waiting(k) = Waiting(h) \ {i}
  BY <1>10, <1>17 DEF HasOneChanged
<1>19. owed' \subseteq DOMAIN k.rows
  BY <1>1, <1>9, <1>18, InMemory
<1>20. k.duplicates # "REPLACE" => owed' = Waiting(k)
  BY <1>1, <1>9, <1>12, <1>18, InMemory
<1>21. HInv'
  BY <1>1, <1>11, <1>12, <1>17, <1>19, <1>20, CallStep
<1>22. Len(k.rows) >= Len(h.rows)
  BY <1>5, <1>18, Rows
<1>23. KeepsPlace(h, k)
  <2>1. ASSUME NEW j \in DOMAIN h.rows
        PROVE  /\ k.rows[j].input = h.rows[j].input
               /\ k.rows[j] = h.rows[j] \/ h.rows[j].outcome = "PENDING"
    <3>1. CASE j = i
      BY <1>10, <1>18, <3>1
    <3>2. CASE j # i
      BY <1>18, <2>1, <3>2
    <3>3. QED
      BY <3>1, <3>2
  <2>2. QED
    BY <1>22, <2>1, Zenon DEF KeepsPlace
<1>24. QED
  BY <1>11, <1>21, <1>23

\* An accepted call that leaves the history as it is adds at most a label.
LEMMA AddNothingStep ==
    ASSUME HInv, ~Busy, up, calls < MaxCalls, calls' = calls + 1, file' = file, up' = up,
           written' = written, owed' = owed, h' = h, measured \subseteq measured'
    PROVE  HInv' /\ KeepsPlace(h, h')
<1>1. /\ h \in HistoryType /\ calls \in Nat
      /\ RowsAreSound(h, calls) /\ IsMeasured(h, measured)
  BY InMemory
<1>2. RowsAreSound(h, calls')
  BY <1>1, SoundLonger
<1>3. IsMeasured(h, measured')
  BY <1>1, MeasuredLonger
<1>4. /\ owed \subseteq DOMAIN h.rows
      /\ h.duplicates # "REPLACE" => owed = Waiting(h)
  BY InMemory
<1>5. HInv'
  BY <1>1, <1>2, <1>3, <1>4, CallStep
<1>6. Len(h.rows) >= Len(h.rows)
  BY <1>1, Rows
<1>7. KeepsPlace(h, h)
  BY <1>6, Zenon DEF KeepsPlace
<1>8. QED
  BY <1>5, <1>7

-----------------------------------------------------------------------------
\* An add that appends an answered row.
LEMMA AppendRowStep ==
    ASSUME HInv, ~Busy, up, calls < MaxCalls, calls' = calls + 1, file' = file, up' = up,
           written' = written, owed' = owed,
           NEW row \in HRow, row.outcome # "PENDING",
           h' = [h EXCEPT !.rows = Append(h.rows, row)],
           measured \subseteq measured', IsSound(row, calls + 1),
           IsUsable(row) => RowIsMeasured(Len(h.rows) + 1, row, h.duplicates, measured')
    PROVE  HInv' /\ KeepsPlace(h, h')
<1>1. PICK k : k = h'
  OBVIOUS
<1>2. /\ h \in HistoryType /\ calls \in Nat
      /\ RowsAreSound(h, calls) /\ IsMeasured(h, measured)
  BY InMemory
<1>3. k \in HistoryType /\ k.rows = Append(h.rows, row) /\ k.duplicates = h.duplicates
  <2>1. PICK rows : rows = Append(h.rows, row)
    OBVIOUS
  <2>2. k = [h EXCEPT !.rows = rows]
    BY <1>1, <2>1
  <2>3. rows \in Seq(HRow)
    BY <1>2, <2>1, Rows, Appended
  <2>4. k \in HistoryType /\ k.rows = rows /\ k.duplicates = h.duplicates
    BY <1>2, <2>2, <2>3, WithRows
  <2>5. QED
    BY <2>1, <2>4
<1>4. MayTake(h, Len(h.rows) + 1, row, calls, measured, measured')
  BY <1>2 DEF MayTake
<1>5. RowsAreSound(k, calls + 1) /\ IsMeasured(k, measured') /\ HasOneMore(h, k, row)
  BY <1>3, <1>4, AppendStep
<1>6. /\ Len(k.rows) = Len(h.rows) + 1 /\ DOMAIN k.rows = 1..(Len(h.rows) + 1)
      /\ \A j \in DOMAIN h.rows : k.rows[j] = h.rows[j]
      /\ Waiting(k) = Waiting(h)
  BY <1>5 DEF HasOneMore
<1>7. /\ Len(h.rows) \in Nat /\ DOMAIN h.rows = 1..Len(h.rows)
  BY <1>2, Rows
<1>8. owed' \subseteq DOMAIN k.rows
  BY <1>6, <1>7, InMemory
<1>9. k.duplicates # "REPLACE" => owed' = Waiting(k)
  BY <1>3, <1>6, InMemory
<1>10. HInv'
  BY <1>1, <1>3, <1>5, <1>8, <1>9, CallStep
<1>11. Len(k.rows) >= Len(h.rows)
  BY <1>6, <1>7
<1>12. KeepsPlace(h, k)
  BY <1>6, <1>11, Zenon DEF KeepsPlace
<1>13. QED
  BY <1>1, <1>10, <1>12

\* An add that replaces a row at its own input.
LEMMA ReplaceRowStep ==
    ASSUME HInv, ~Busy, up, calls < MaxCalls, calls' = calls + 1, file' = file, up' = up,
           written' = written, owed' = owed, h.duplicates = "REPLACE",
           NEW i \in DOMAIN h.rows, NEW row \in HRow, row.input = h.rows[i].input,
           NEW rows, rows = [h.rows EXCEPT ![i] = row], h' = [h EXCEPT !.rows = rows],
           measured \subseteq measured', IsSound(row, calls + 1),
           IsUsable(row) => RowIsMeasured(i, row, h.duplicates, measured')
    PROVE  HInv' /\ KeepsPlace(h, h')
<1>1. PICK k : k = h'
  OBVIOUS
<1>2. /\ h \in HistoryType /\ calls \in Nat
      /\ RowsAreSound(h, calls) /\ IsMeasured(h, measured)
  BY InMemory
<1>3. k \in HistoryType /\ k.rows = [h.rows EXCEPT ![i] = row] /\ k.duplicates = h.duplicates
  <2>1. rows \in Seq(HRow)
    BY <1>2, Rows, Changed
  <2>2. k = [h EXCEPT !.rows = rows]
    BY <1>1
  <2>3. k.rows = rows /\ k.duplicates = h.duplicates
    BY <1>2, <2>2 DEF HistoryType
  <2>4. k \in HistoryType
    BY <1>2, <2>1, <2>2 DEF HistoryType
  <2>5. QED
    BY <2>3, <2>4
<1>4. MayTake(h, i, row, calls, measured, measured')
  BY <1>2 DEF MayTake
<1>5. RowsAreSound(k, calls + 1) /\ IsMeasured(k, measured') /\ HasOneChanged(h, k, i, row)
  BY <1>3, <1>4, ChangeStep
<1>6. /\ DOMAIN k.rows = DOMAIN h.rows /\ Len(k.rows) = Len(h.rows) /\ k.rows[i] = row
      /\ \A j \in DOMAIN h.rows : j # i => k.rows[j] = h.rows[j]
  BY <1>5 DEF HasOneChanged
<1>7. owed' \subseteq DOMAIN k.rows
  BY <1>6, InMemory
<1>8. HInv'
  BY <1>1, <1>3, <1>5, <1>7, CallStep
<1>9. Len(k.rows) >= Len(h.rows)
  BY <1>2, <1>6, Rows
<1>10. KeepsPlace(h, k)
  <2>1. ASSUME NEW j \in DOMAIN h.rows PROVE k.rows[j].input = h.rows[j].input
    <3>1. CASE j = i
      BY <1>6, <3>1
    <3>2. CASE j # i
      BY <1>6, <2>1, <3>2
    <3>3. QED
      BY <3>1, <3>2
  <2>2. QED
    BY <1>9, <2>1, Zenon DEF KeepsPlace
<1>11. QED
  BY <1>1, <1>8, <1>10

\* add skips, appends or replaces.
LEMMA AddRowStep ==
    ASSUME HInv, ~Busy, AddRow PROVE HInv' /\ KeepsPlace(h, h')
<1>1. /\ up /\ calls < MaxCalls /\ calls' = calls + 1
      /\ file' = file /\ up' = up /\ owed' = owed /\ written' = written
  BY DEF AddRow
<1>2. PICK x \in Inputs, v \in Objectives \cup {Missing}, o \in Outcomes,
           gr \in Gradients, c \in Constraints :
             LET r == Add(h, x, v, o, gr, c)
             IN  /\ r.ok
                 /\ h' = r.h
                 /\ measured' = IF v = Missing THEN measured
                                ELSE measured \cup {<<WrittenRow(r, x), v, calls + 1>>}
  BY DEF AddRow
<1>3. PICK r : r = Add(h, x, v, o, gr, c)
  OBVIOUS
<1>4. PICK m : m = calls + 1
  OBVIOUS
<1>5. /\ h \in HistoryType /\ calls \in Nat
      /\ RowsAreSound(h, calls) /\ IsMeasured(h, measured)
  BY InMemory
<1>6. m \in Nat /\ gr \in {NoGradient, m} /\ m \in 1..m
  BY <1>4, <1>5 DEF Gradients
<1>7. r.ok /\ h' = r.h
  BY <1>2, <1>3
<1>8. /\ measured \subseteq measured'
      /\ v # Missing => <<WrittenRow(r, x), v, m>> \in measured'
  BY <1>2, <1>3, <1>4
<1>9. PICK row : row = Row(x, v, o, gr, c)
  OBVIOUS
<1>10. /\ row \in HRow /\ row.outcome # "PENDING" /\ row.input = x
       /\ IsUsable(row) => v # Missing /\ row.objective = v
       /\ row.gradient = gr
  BY <1>6, <1>9, RowMade
<1>11. CASE h' = h
  BY <1>1, <1>8, <1>11, AddNothingStep
<1>12. CASE h' # h /\ h.duplicates = "REPLACE" /\ Duplicates(h, x) # {}
            /\ \E i, w : /\ i = First(Duplicates(h, x))
                         /\ w = Replacement(row, h.rows[i], gr)
                         /\ r.h = [h EXCEPT !.rows = [h.rows EXCEPT ![i] = w]]
  <2>1. PICK i, w : /\ i = First(Duplicates(h, x))
                    /\ w = Replacement(row, h.rows[i], gr)
                    /\ r.h = [h EXCEPT !.rows = [h.rows EXCEPT ![i] = w]]
    BY <1>12
  <2>2. i \in DOMAIN h.rows /\ h.rows[i].input = x
    <3>1. i \in Duplicates(h, x)
      BY <1>5, <1>12, <2>1, FirstIsOne
    <3>2. QED
      BY <3>1 DEF Duplicates
  <2>3. h.rows[i] \in HRow /\ IsSound(h.rows[i], calls)
    BY <1>5, <2>2, Rows DEF RowsAreSound
  <2>4. /\ w \in HRow /\ w.input = x /\ w.objective = row.objective /\ IsSound(w, m)
        /\ IsUsable(w) => IsUsable(row)
    <3>1. gr = NoGradient \/ gr = calls + 1
      BY <1>4, <1>6
    <3>2. QED
      BY <1>4, <1>5, <1>10, <2>1, <2>3, <3>1, ReplacementMade
  <2>5. PICK rows : rows = [h.rows EXCEPT ![i] = w]
    OBVIOUS
  <2>6. h' = [h EXCEPT !.rows = rows]
    BY <1>7, <2>1, <2>5
  <2>7. rows \in Seq(HRow) /\ Len(rows) = Len(h.rows) /\ Len(h.rows) \in Nat
    BY <1>5, <2>2, <2>4, <2>5, Rows, Changed
  <2>8. h'.rows = rows
    BY <1>5, <2>6, <2>7, WithRows
  <2>9. WrittenRow(r, x) = i
    <3>1. ~ (Len(r.h.rows) > Len(h.rows))
      BY <1>7, <2>7, <2>8
    <3>2. QED
      BY <1>7, <1>12, <2>1, <3>1 DEF WrittenRow
  <2>10. ASSUME IsUsable(w) PROVE RowIsMeasured(i, w, h.duplicates, measured')
    <3>1. <<i, v, m>> \in measured' /\ w.objective = v
      BY <1>8, <1>10, <2>4, <2>9, <2>10
    <3>2. QED
      BY <1>12, <3>1, RowTakesLabel
  <2>11. IsSound(w, calls + 1)
    BY <1>4, <2>4
  <2>12. QED
    BY <1>1, <1>8, <1>12, <2>2, <2>4, <2>5, <2>6, <2>10, <2>11, ReplaceRowStep
<1>13. CASE h' # h /\ r.h = [h EXCEPT !.rows = Append(h.rows, row)]
  <2>1. PICK rows : rows = Append(h.rows, row)
    OBVIOUS
  <2>2. PICK L : L = Len(h.rows)
    OBVIOUS
  <2>3. h' = [h EXCEPT !.rows = rows]
    BY <1>7, <1>13, <2>1
  <2>4. rows \in Seq(HRow) /\ Len(rows) = L + 1 /\ L \in Nat
    BY <1>5, <1>10, <2>1, <2>2, Rows, Appended
  <2>5. h'.rows = rows
    BY <1>5, <2>3, <2>4, WithRows
  <2>6. WrittenRow(r, x) = L + 1
    <3>1. Len(r.h.rows) = L + 1
      BY <1>7, <2>4, <2>5
    <3>2. L + 1 > L
      BY <2>4
    <3>3. QED
      BY <1>7, <1>13, <2>2, <3>1, <3>2 DEF WrittenRow
  <2>7. ASSUME IsUsable(row)
        PROVE  RowIsMeasured(Len(h.rows) + 1, row, h.duplicates, measured')
    <3>1. /\ <<L + 1, v, m>> \in measured' /\ row.objective = v
          /\ row.gradient \in {NoGradient, m}
      BY <1>6, <1>8, <1>10, <2>6, <2>7
    <3>2. RowIsMeasured(L + 1, row, h.duplicates, measured')
      BY <3>1, RowTakesLabel
    <3>3. QED
      BY <2>2, <3>2
  <2>8. IsSound(row, calls + 1)
    BY <1>4, <1>6, <1>10 DEF IsSound
  <2>9. h' = [h EXCEPT !.rows = Append(h.rows, row)]
    BY <1>7, <1>13
  <2>10. QED
    BY <1>1, <1>8, <1>10, <2>7, <2>8, <2>9, AppendRowStep
<1>14. \/ v = Missing /\ r.h = h
       \/ /\ h.duplicates = "REPLACE" /\ Duplicates(h, x) # {}
          /\ \E i, w : /\ i = First(Duplicates(h, x))
                       /\ w = Replacement(row, h.rows[i], gr)
                       /\ r.h = [h EXCEPT !.rows = [h.rows EXCEPT ![i] = w]]
       \/ r.h = [h EXCEPT !.rows = Append(h.rows, row)]
  <2>1. IsAddedTo(h, r.h, x, v, gr, row)
    BY <1>3, <1>5, <1>7, <1>9, AddOutcome
  <2>2. QED
    BY <2>1, Zenon DEF IsAddedTo
<1>15. CASE h' # h
  <2>1. ~ (v = Missing /\ r.h = h)
    BY <1>7, <1>15
  <2>2. QED
    BY <1>12, <1>13, <1>14, <1>15, <2>1
<1>16. QED
  BY <1>11, <1>15

-----------------------------------------------------------------------------
\* A new history of any policies is in order.
LEMMA NewIsInOrder ==
    ASSUME NEW g, NEW n \in Nat, NEW labels, NEW a \in {"REFUSE", "SKIP", "IMPUTE"},
           NEW d \in {"ALLOW", "REJECT", "REPLACE"},
           g = [rows |-> <<>>, missing |-> a, duplicates |-> d]
    PROVE  /\ g \in HistoryType /\ RowsAreSound(g, n) /\ IsMeasured(g, labels)
           /\ Waiting(g) = {}
<1>1. g.rows = <<>> /\ DOMAIN g.rows = {} /\ Len(g.rows) = 0
  OBVIOUS
<1>2. g \in HistoryType
  BY DEF HistoryType
<1>3. QED
  BY <1>1, <1>2 DEF RowsAreSound, IsMeasured, UsableRows, Waiting

\* So is the history a program starts with.
LEMMA NewHistoryIsInOrder ==
    ASSUME NEW n \in Nat, NEW labels
    PROVE  NewHistory \in HistoryType /\ RowsAreSound(NewHistory, n)
           /\ IsMeasured(NewHistory, labels)
BY NewIsInOrder DEF NewHistory

\* The invariant holds initially.
LEMMA InitHInv == Init => HInv
<1> SUFFICES ASSUME Init PROVE HInv
  OBVIOUS
<1>1. PICK a \in MissingPolicies, d \in DuplicatePolicies :
         h = [NewHistory EXCEPT !.missing = a, !.duplicates = d]
  BY DEF Init
<1>2. /\ file = [state |-> "ABSENT", h |-> NewHistory] /\ up = TRUE
      /\ calls = 0 /\ measured = {} /\ owed = {}
      /\ written = [h |-> NewHistory, measured |-> {}]
  BY DEF Init, NoFile
<1>3. a \in {"REFUSE", "SKIP", "IMPUTE"} /\ d \in {"ALLOW", "REJECT", "REPLACE"}
  BY HistoryAssumption
<1>4. h = [rows |-> <<>>, missing |-> a, duplicates |-> d]
  BY <1>1 DEF NewHistory
<1>5. calls \in Nat /\ calls \in 0..MaxCalls
  BY <1>2, HistoryAssumption
<1>6. /\ h \in HistoryType /\ RowsAreSound(h, calls) /\ IsMeasured(h, measured)
      /\ Waiting(h) = {}
  BY <1>3, <1>4, <1>5, NewIsInOrder
<1>7. /\ NewHistory \in HistoryType /\ RowsAreSound(NewHistory, calls)
      /\ IsMeasured(NewHistory, {})
  BY <1>5, NewHistoryIsInOrder
<1>8. file.h = NewHistory /\ file.state = "ABSENT" /\ written.h = NewHistory
      /\ written.measured = {}
  BY <1>2
<1>9. Typed
  BY <1>2, <1>5, <1>6, <1>7, <1>8 DEF Typed
<1>10. OwedAreRows
  BY <1>2, <1>6 DEF OwedAreRows
<1>11. CheckpointIsKept
  BY <1>8 DEF CheckpointIsKept
<1>12. QED
  BY <1>6, <1>7, <1>8, <1>9, <1>10, <1>11 DEF HInv

\* A checkpoint is the history in memory from its first row to its last.
LEMMA CheckpointOpenStep ==
    ASSUME HInv, CheckpointOpen PROVE HInv'
<1>1. /\ up /\ file' = [state |-> "WRITING", h |-> h]
      /\ h' = h /\ up' = up /\ calls' = calls /\ measured' = measured /\ owed' = owed
      /\ written' = written
  BY DEF CheckpointOpen, ghosts
<1>2. file'.state = "WRITING" /\ file'.h = h
  BY <1>1
<1>3. h \in HistoryType
  BY InMemory
<1>4. file' \in [state : {"ABSENT", "WRITING", "COMPLETE", "TRUNCATED"}, h : HistoryType]
  BY <1>1, <1>3
<1>5. Typed'
  BY <1>1, <1>4 DEF HInv, Typed
<1>6. OwedAreRows'
  BY <1>1 DEF HInv, OwedAreRows, Waiting
<1>7. CheckpointIsKept'
  BY <1>1, <1>2 DEF CheckpointIsKept
<1>8. /\ RowsAreSound(h', calls') /\ RowsAreSound(file'.h, calls')
      /\ RowsAreSound(written'.h, calls')
      /\ IsMeasured(h', measured') /\ IsMeasured(written'.h, written'.measured)
  BY <1>1, <1>2 DEF HInv
<1>9. QED
  BY <1>5, <1>6, <1>7, <1>8 DEF HInv

\* A checkpoint that is closed is the last one written.
LEMMA CheckpointCloseStep ==
    ASSUME HInv, CheckpointClose PROVE HInv'
<1>1. /\ up /\ file.state = "WRITING" /\ file' = [file EXCEPT !.state = "COMPLETE"]
      /\ written' = [h |-> h, measured |-> measured]
      /\ h' = h /\ up' = up /\ calls' = calls /\ measured' = measured /\ owed' = owed
  BY DEF CheckpointClose, ghosts
<1>2. /\ h \in HistoryType
      /\ file \in [state : {"ABSENT", "WRITING", "COMPLETE", "TRUNCATED"}, h : HistoryType]
  BY DEF HInv, Typed
<1>3. file.h = h
  BY <1>1 DEF HInv, CheckpointIsKept
<1>4. /\ file'.state = "COMPLETE" /\ file'.h = h /\ written'.h = h
      /\ written'.measured = measured
      /\ file' \in [state : {"ABSENT", "WRITING", "COMPLETE", "TRUNCATED"}, h : HistoryType]
  BY <1>1, <1>2, <1>3
<1>5. Typed'
  BY <1>1, <1>2, <1>4 DEF HInv, Typed
<1>6. OwedAreRows'
  BY <1>1 DEF HInv, OwedAreRows, Waiting
<1>7. CheckpointIsKept'
  BY <1>1, <1>4 DEF CheckpointIsKept
<1>8. /\ RowsAreSound(h', calls') /\ RowsAreSound(file'.h, calls')
      /\ RowsAreSound(written'.h, calls')
      /\ IsMeasured(h', measured') /\ IsMeasured(written'.h, written'.measured)
  BY <1>1, <1>4 DEF HInv
<1>9. QED
  BY <1>5, <1>6, <1>7, <1>8 DEF HInv

\* A crash loses the memory, and truncates a checkpoint that was being written.
LEMMA CrashStep ==
    ASSUME HInv, Crash PROVE HInv'
<1>1. /\ up /\ up' = FALSE
      /\ file' = IF file.state = "WRITING" THEN [file EXCEPT !.state = "TRUNCATED"] ELSE file
      /\ h' = NewHistory
      /\ calls' = calls /\ measured' = measured /\ owed' = owed /\ written' = written
  BY DEF Crash, ghosts
<1>2. file \in [state : {"ABSENT", "WRITING", "COMPLETE", "TRUNCATED"}, h : HistoryType]
  BY DEF HInv, Typed
<1>3. /\ file' \in [state : {"ABSENT", "WRITING", "COMPLETE", "TRUNCATED"}, h : HistoryType]
      /\ file'.h = file.h /\ file'.state # "WRITING"
      /\ file'.state = "COMPLETE" => file.state = "COMPLETE"
  BY <1>1, <1>2
<1>4. calls \in Nat
  BY InMemory
<1>5. h' \in HistoryType /\ RowsAreSound(h', calls) /\ IsMeasured(h', measured)
  BY <1>1, <1>4, NewHistoryIsInOrder
<1>6. Typed'
  BY <1>1, <1>3, <1>5 DEF HInv, Typed
<1>7. OwedAreRows'
  BY <1>1 DEF OwedAreRows
<1>8. CheckpointIsKept'
  BY <1>1, <1>3 DEF HInv, CheckpointIsKept
<1>9. /\ RowsAreSound(h', calls') /\ RowsAreSound(file'.h, calls')
      /\ RowsAreSound(written'.h, calls')
      /\ IsMeasured(h', measured') /\ IsMeasured(written'.h, written'.measured)
  BY <1>1, <1>3, <1>5 DEF HInv
<1>10. QED
  BY <1>6, <1>7, <1>8, <1>9 DEF HInv

\* What is read back is the history that was written last.
LEMMA CheckpointReadStep ==
    ASSUME HInv, CheckpointRead PROVE HInv' /\ h' = written.h
<1>1. /\ file.state = "COMPLETE" /\ up' = TRUE /\ h' = Resumed(file)
      /\ owed' = {i \in DOMAIN h'.rows : h'.rows[i].outcome = "PENDING"}
      /\ measured' = written.measured
      /\ file' = file /\ calls' = calls /\ written' = written
  BY DEF CheckpointRead
<1>2. PICK g : g = file.h
  OBVIOUS
<1>3. g \in HistoryType /\ g = written.h
  BY <1>1, <1>2 DEF HInv, Typed, CheckpointIsKept
<1>4. h' = [rows |-> g.rows, missing |-> g.missing, duplicates |-> g.duplicates]
  BY <1>1, <1>2 DEF Resumed, NewHistory
<1>5. h' = g
  BY <1>3, <1>4 DEF HistoryType
<1>6. Typed'
  BY <1>1, <1>3, <1>5 DEF HInv, Typed
<1>7. OwedAreRows'
  <2>1. owed' = Waiting(h')
    BY <1>1 DEF Waiting
  <2>2. Waiting(h') \subseteq DOMAIN h'.rows
    BY DEF Waiting
  <2>3. QED
    BY <2>1, <2>2 DEF OwedAreRows
<1>8. CheckpointIsKept'
  BY <1>1 DEF HInv, CheckpointIsKept
<1>9. /\ RowsAreSound(h', calls') /\ RowsAreSound(file'.h, calls')
      /\ RowsAreSound(written'.h, calls')
      /\ IsMeasured(h', measured') /\ IsMeasured(written'.h, written'.measured)
  BY <1>1, <1>3, <1>5 DEF HInv
<1>10. QED
  BY <1>3, <1>5, <1>6, <1>7, <1>8, <1>9 DEF HInv

\* Nothing happens.
LEMMA StutterStep ==
    ASSUME HInv, UNCHANGED vars PROVE HInv'
<1>1. /\ h' = h /\ file' = file /\ up' = up /\ calls' = calls /\ measured' = measured
      /\ owed' = owed /\ written' = written
  BY DEF vars
<1>2. QED
  BY <1>1 DEF HInv, Typed, OwedAreRows, CheckpointIsKept, Waiting

\* Every step preserves the invariant.
LEMMA NextHInv == HInv /\ [Next]_vars => HInv'
<1> SUFFICES ASSUME HInv, [Next]_vars PROVE HInv'
  OBVIOUS
<1>1. CASE ~Busy /\ AddRow
  BY <1>1, AddRowStep
<1>2. CASE ~Busy /\ DispatchRow
  BY <1>2, DispatchRowStep
<1>3. CASE ~Busy /\ CompleteRow
  BY <1>3, CompleteRowStep
<1>4. CASE CheckpointOpen
  BY <1>4, CheckpointOpenStep
<1>5. CASE CheckpointClose
  BY <1>5, CheckpointCloseStep
<1>6. CASE Crash
  BY <1>6, CrashStep
<1>7. CASE CheckpointRead
  BY <1>7, CheckpointReadStep
<1>8. CASE UNCHANGED vars
  BY <1>8, StutterStep
<1>9. QED
  BY <1>1, <1>2, <1>3, <1>4, <1>5, <1>6, <1>7, <1>8 DEF Next

\* The invariant holds throughout.
LEMMA HInvariant == Spec => []HInv
BY InitHInv, NextHInv, PTL DEF Spec

-----------------------------------------------------------------------------
\* The value a surrogate trains on was measured at that row, whatever failures,
\* imputations, replacements and resumes happened on the way.
THEOREM SurrogatesTrainOnMeasurements == Spec => []TrainsOnMeasuredValues
<1>1. HInv => TrainsOnMeasuredValues
  BY Zenon DEF HInv, IsMeasured, RowIsMeasured, TrainsOnMeasuredValues
<1>2. QED
  BY <1>1, HInvariant, PTL

\* A dispatched evaluation stays answerable until it is answered.
THEOREM DispatchedRowsWait == Spec => []OwedRowsArePending
<1>1. HInv => OwedRowsArePending
  <2> SUFFICES ASSUME HInv PROVE OwedRowsArePending
    OBVIOUS
  <2>1. h \in HistoryType /\ RowsAreSound(h, calls)
    BY InMemory
  <2>2. ASSUME NEW i \in DOMAIN h.rows
        PROVE  /\ h.rows[i].input \in Inputs /\ h.rows[i].objective \in Int
               /\ h.rows[i].outcome \in {"PENDING", "OK", "FAILED"}
               /\ h.rows[i].gradient # NoGradient => h.rows[i].gradient \in 1..calls
    <3>1. PICK row : row = h.rows[i]
      OBVIOUS
    <3>2. row \in HRow /\ IsSound(row, calls)
      BY <2>1, <3>1, Rows DEF RowsAreSound
    <3>3. row.gradient # NoGradient => row.gradient \in 1..calls
      BY <3>2 DEF IsSound
    <3>4. QED
      BY <3>1, <3>2, <3>3, RowFields
  <2>3. /\ h.missing \in {"REFUSE", "SKIP", "IMPUTE"}
        /\ h.duplicates \in {"ALLOW", "REJECT", "REPLACE"}
    BY <2>1, Rows
  <2>4. /\ file.state \in {"ABSENT", "WRITING", "COMPLETE", "TRUNCATED"}
        /\ calls \in 0..MaxCalls /\ up \in BOOLEAN
    BY DEF HInv, Typed
  <2>5. Len(h.rows) <= calls
    BY <2>1 DEF RowsAreSound
  <2>6. owed \subseteq DOMAIN h.rows \/ ~up
    BY DEF HInv, OwedAreRows
  <2>7. TypeOK
    BY <2>2, <2>3, <2>4, <2>5, <2>6 DEF TypeOK
  <2>8. up /\ h.duplicates # "REPLACE" =>
           owed = {i \in DOMAIN h.rows : h.rows[i].outcome = "PENDING"}
    BY DEF HInv, OwedAreRows, Waiting
  <2>9. QED
    BY <2>7, <2>8 DEF OwedRowsArePending
<1>2. QED
  BY <1>1, HInvariant, PTL

\* The row best_index returns is the earliest of the best.
THEOREM BestIsEarliest == Spec => []BestIndexIsEarliestMinimum
<1>1. HInv => BestIndexIsEarliestMinimum
  <2> SUFFICES ASSUME HInv PROVE BestIndexIsEarliestMinimum
    OBVIOUS
  <2>1. h \in HistoryType
    BY InMemory
  <2>2. Len(h.rows) \in Nat /\ DOMAIN h.rows = 1..Len(h.rows)
    BY <2>1, Rows
  <2>3. \A j \in DOMAIN h.rows : h.rows[j].objective \in Int
    BY <2>1, Rows, RowFields
  <2>4. Worst \in Int
    BY HistoryAssumption
  <2>5. IF BestIndex(h, NConstraints) = 0
        THEN \A i \in DOMAIN h.rows : ~IsBest(h, i, NConstraints)
        ELSE IsBest(h, BestIndex(h, NConstraints), NConstraints)
    BY <2>2, <2>3, <2>4, BestIndexIsBest
  <2>6. QED
    BY <2>5 DEF BestIndexIsEarliestMinimum
<1>2. QED
  BY <1>1, HInvariant, PTL

\* A history read back is the one that was written, policies included.
THEOREM CheckpointsRestore == Spec => ResumesWhatWasWritten
<1>1. HInv /\ [Next]_vars => [~up /\ up' => h' = written.h]_vars
  <2> SUFFICES ASSUME HInv, Next, ~up, up' PROVE h' = written.h
    OBVIOUS
  <2>1. CheckpointRead
    BY DEF Next, AddRow, DispatchRow, CompleteRow, CheckpointOpen, CheckpointClose, Crash
  <2>2. QED
    BY <2>1, CheckpointReadStep
<1>2. QED
  BY <1>1, HInvariant, PTL DEF Spec, ResumesWhatWasWritten

\* A running history only grows, and a row changes only by being answered or replaced
\* at its own input.
THEOREM RowsStayInPlace == Spec => RowsKeepTheirPlace
<1> DEFINE Kept == up /\ up' => KeepsPlace(h, h')
<1>1. HInv /\ [Next]_vars => [Kept]_vars
  <2> SUFFICES ASSUME HInv, Next, up, up' PROVE KeepsPlace(h, h')
    OBVIOUS
  <2>1. CASE ~Busy /\ AddRow
    BY <2>1, AddRowStep
  <2>2. CASE ~Busy /\ DispatchRow
    BY <2>2, DispatchRowStep
  <2>3. CASE ~Busy /\ CompleteRow
    BY <2>3, CompleteRowStep
  <2>4. CASE CheckpointOpen \/ CheckpointClose
    <3>1. h' = h
      BY <2>4 DEF CheckpointOpen, CheckpointClose
    <3>2. Len(h.rows) >= Len(h.rows)
      BY InMemory, Rows
    <3>3. KeepsPlace(h, h)
      BY <3>2, Zenon DEF KeepsPlace
    <3>4. QED
      BY <3>1, <3>3
  <2>5. CASE Crash \/ CheckpointRead
    BY <2>5 DEF Crash, CheckpointRead
  <2> QED
    BY <2>1, <2>2, <2>3, <2>4, <2>5 DEF Next
<1>2. [Kept]_vars =>
        [up /\ up' => /\ Len(h'.rows) >= Len(h.rows)
                      /\ \A i \in DOMAIN h.rows :
                            /\ h'.rows[i].input = h.rows[i].input
                            /\ \/ h'.rows[i] = h.rows[i]
                               \/ h.rows[i].outcome = "PENDING"
                               \/ h.duplicates = "REPLACE"]_vars
  BY Zenon DEF KeepsPlace
<1>3. QED
  BY <1>1, <1>2, HInvariant, PTL DEF Spec, RowsKeepTheirPlace
===========================================================================
