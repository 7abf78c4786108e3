------------------------- MODULE WorkerPool_proofs -------------------------
(***************************************************************************)
(* For every number of workers, attempt limit and set of costs: the pool   *)
(* is type correct, loses no evaluation, counts every failure, and         *)
(* implements TaskLedger.                                                  *)
(***************************************************************************)
EXTENDS WorkerPool, FiniteSetTheorems, TLAPS

\* Every failure is a retry or an abandonment, and a task is abandoned only when
\* its last attempt has failed.
FailureAccounting ==
    /\ failures = retries + abandoned
    /\ \A w \in Workers : tasks[w].state = "FAILED" => tasks[w].attempts = MaxAttempts

\* Initialization establishes, and every call of the pool preserves, the types.
LEMMA TypeStep == TypeOK /\ [Next]_vars => TypeOK'
<1> SUFFICES ASSUME TypeOK, [Next]_vars PROVE TypeOK'
  OBVIOUS
<1> USE PoolAssumption DEF TypeOK
<1>0. ASSUME NEW w \in Workers, NEW t \in Task, t.attempts \in 0..MaxAttempts,
             tasks' = [tasks EXCEPT ![w] = t]
      PROVE  /\ tasks' \in [Workers -> Task]
             /\ \A u \in Workers : tasks'[u].attempts \in 0..MaxAttempts
  BY <1>0
<1>dispatch. ASSUME NEW w \in Workers, NEW p \in Points, Dispatch(w, p) PROVE TypeOK'
  <2> DEFINE t == [tasks[w] EXCEPT !.point = p, !.state = "PENDING", !.attempts = 1]
  <2>1. t \in Task /\ t.attempts = 1
    BY DEF Task, States
  <2>2. tasks' = [tasks EXCEPT ![w] = t]
    BY <1>dispatch DEF Dispatch, MayDispatch
  <2>3. QED
    BY <1>0, <1>dispatch, <2>1, <2>2 DEF Dispatch, MayDispatch
<1>complete. ASSUME NEW w \in Workers, NEW v \in Values, NEW c \in Costs,
                    Complete(w, v, c)
             PROVE  TypeOK'
  <2> DEFINE t == [tasks[w] EXCEPT !.value = v, !.cost = c, !.state = "DONE"]
  <2>1. v \in Int /\ c \in Int /\ c \in Nat
    OBVIOUS
  <2>2. t \in Task /\ t.attempts \in 0..MaxAttempts
    BY <2>1 DEF Task, States
  <2>3. tasks' = [tasks EXCEPT ![w] = t]
    BY <1>complete DEF Complete
  <2>4. QED
    BY <1>0, <1>complete, <2>1, <2>2, <2>3 DEF Complete
<1>retry. ASSUME NEW w \in Workers, NEW c \in Costs, FailRetry(w, c) PROVE TypeOK'
  <2> DEFINE t == [tasks[w] EXCEPT !.attempts = tasks[w].attempts + 1]
  <2>1. t \in Task /\ t.attempts \in 0..MaxAttempts
    BY <1>retry DEF Task, FailRetry, MayRetry, FailureCharge
  <2>2. tasks' = [tasks EXCEPT ![w] = t] /\ c \in Nat
    BY <1>retry DEF FailRetry, MayRetry, FailureCharge
  <2>3. QED
    BY <1>0, <1>retry, <2>1, <2>2 DEF FailRetry, MayRetry, FailureCharge
<1>abandon. ASSUME NEW w \in Workers, NEW c \in Costs, FailAbandon(w, c) PROVE TypeOK'
  <2> DEFINE t == [tasks[w] EXCEPT !.state = "FAILED"]
  <2>1. t \in Task /\ t.attempts \in 0..MaxAttempts
    BY DEF Task, States
  <2>2. tasks' = [tasks EXCEPT ![w] = t] /\ c \in Nat
    BY <1>abandon DEF FailAbandon, MayRetry, FailureCharge
  <2>3. QED
    BY <1>0, <1>abandon, <2>1, <2>2 DEF FailAbandon, MayRetry, FailureCharge
<1>idle. CASE UNCHANGED vars
  BY <1>idle DEF vars
<1> QED
  BY <1>dispatch, <1>complete, <1>retry, <1>abandon, <1>idle DEF Next, Answer

\* The pool is type correct: no slot ever passes its attempt limit.
THEOREM TypeCorrect == Spec => []TypeOK
<1>1. Init => TypeOK
  BY PoolAssumption DEF Init, TypeOK, IdleTask, Task, States
<1>2. QED
  BY <1>1, TypeStep, PTL DEF Spec

-----------------------------------------------------------------------------
\* The pending workers are finitely many, so counting them is sound.
LEMMA PendingFinite == /\ IsFiniteSet(Workers)
                       /\ IsFiniteSet(Pending)
                       /\ Cardinality(Pending) \in Nat
<1>1. IsFiniteSet(Workers)
  BY PoolAssumption, FS_Interval DEF Workers
<1>2. Pending \subseteq Workers
  BY DEF Pending
<1>3. IsFiniteSet(Pending)
  BY <1>1, <1>2, FS_Subset
<1>4. QED
  BY <1>1, <1>3, FS_CardinalityType

\* An accepted dispatch adds one pending worker.
LEMMA DispatchPending ==
    ASSUME TypeOK, NEW w \in Workers, NEW p \in Points, Dispatch(w, p)
    PROVE  Cardinality(Pending') = Cardinality(Pending) + 1
<1>1. w \notin Pending
  BY DEF Dispatch, MayDispatch, Pending
<1>2. Pending' = Pending \cup {w}
  BY DEF Dispatch, MayDispatch, Pending, IsPending, TypeOK
<1>3. Cardinality(Pending \cup {w}) = Cardinality(Pending) + 1
  BY <1>1, PendingFinite, FS_AddElement
<1>4. QED
  BY <1>2, <1>3

\* A settled task leaves one pending worker fewer.
LEMMA SettlePending ==
    ASSUME TypeOK, NEW w \in Workers, IsPending(w), NEW s \in {"DONE", "FAILED"},
           tasks'[w].state = s,
           \A u \in Workers \ {w} : tasks'[u] = tasks[u]
    PROVE  /\ Cardinality(Pending') = Cardinality(Pending) - 1
           /\ Cardinality(Pending) > 0
<1>1. w \in Pending
  BY DEF Pending
<1>2. Pending' = Pending \ {w}
  BY DEF Pending, IsPending
<1>3. Cardinality(Pending) # 0
  BY <1>1, PendingFinite, FS_EmptySet
<1>4. Cardinality(Pending \ {w}) = Cardinality(Pending) - 1
  BY <1>1, PendingFinite, FS_RemoveElement
<1>5. QED
  BY <1>2, <1>3, <1>4, PendingFinite

\* A retry leaves the set of pending workers as it was.
LEMMA RetryPending ==
    ASSUME TypeOK, NEW w \in Workers, NEW c \in Costs, FailRetry(w, c)
    PROVE  Pending' = Pending /\ Cardinality(Pending) > 0
<1>1. w \in Pending
  BY DEF FailRetry, MayRetry, FailureCharge, Pending
<1>2. Pending' = Pending
  BY DEF FailRetry, MayRetry, FailureCharge, Pending, IsPending, TypeOK, Task
<1>3. Cardinality(Pending) # 0
  BY <1>1, PendingFinite, FS_EmptySet
<1>4. QED
  BY <1>2, <1>3, PendingFinite

-----------------------------------------------------------------------------
\* No evaluation is lost or settled twice, whatever the order of the calls.
THEOREM PoolConserves == Spec => []Conservation
<1>1. Init => Conservation
  <2>1. Init => Pending = {}
    BY DEF Init, Pending, IsPending, IdleTask
  <2>2. QED
    BY <2>1, FS_EmptySet DEF Init, Conservation
<1>2. Conservation /\ UNCHANGED vars => Conservation'
  BY DEF vars, Conservation, Pending, IsPending
<1>3. TypeOK /\ Conservation /\ Next => Conservation'
  <2> SUFFICES ASSUME TypeOK, Conservation, Next PROVE Conservation'
    OBVIOUS
  <2> USE PendingFinite DEF TypeOK, Conservation
  <2>dispatch. ASSUME NEW w \in Workers, NEW p \in Points, Dispatch(w, p)
               PROVE  Conservation'
    <3>1. Cardinality(Pending') = Cardinality(Pending) + 1
      BY <2>dispatch, DispatchPending
    <3>2. QED
      BY <2>dispatch, <3>1 DEF Dispatch, MayDispatch
  <2>complete. ASSUME NEW w \in Workers, NEW v \in Values, NEW c \in Costs,
                      Complete(w, v, c)
               PROVE  Conservation'
    <3>1. Cardinality(Pending') = Cardinality(Pending) - 1
      BY <2>complete, SettlePending DEF Complete, Task
    <3>2. QED
      BY <2>complete, <3>1 DEF Complete
  <2>retry. ASSUME NEW w \in Workers, NEW c \in Costs, FailRetry(w, c)
            PROVE  Conservation'
    BY <2>retry, RetryPending DEF FailRetry, MayRetry, FailureCharge
  <2>abandon. ASSUME NEW w \in Workers, NEW c \in Costs, FailAbandon(w, c)
              PROVE  Conservation'
    <3>1. Cardinality(Pending') = Cardinality(Pending) - 1
      BY <2>abandon, SettlePending DEF FailAbandon, MayRetry, FailureCharge, Task
    <3>2. QED
      BY <2>abandon, <3>1 DEF FailAbandon, MayRetry, FailureCharge
  <2> QED
    BY <2>dispatch, <2>complete, <2>retry, <2>abandon DEF Next, Answer
<1>4. QED
  BY <1>1, <1>2, <1>3, TypeCorrect, PTL DEF Spec

\* Every failure is counted once, as a retry or as an abandonment of a task that
\* had no attempt left.
THEOREM PoolCountsFailures == Spec => []FailureAccounting
<1>1. Init => FailureAccounting
  BY DEF Init, FailureAccounting, IdleTask
<1>2. FailureAccounting /\ UNCHANGED vars => FailureAccounting'
  BY DEF vars, FailureAccounting
<1>3. TypeOK /\ FailureAccounting /\ Next => FailureAccounting'
  <2> SUFFICES ASSUME TypeOK, FailureAccounting, Next PROVE FailureAccounting'
    OBVIOUS
  <2> USE PoolAssumption DEF TypeOK, FailureAccounting, IsPending, Task
  <2>dispatch. ASSUME NEW w \in Workers, NEW p \in Points, Dispatch(w, p)
               PROVE  FailureAccounting'
    BY <2>dispatch DEF Dispatch, MayDispatch
  <2>complete. ASSUME NEW w \in Workers, NEW v \in Values, NEW c \in Costs,
                      Complete(w, v, c)
               PROVE  FailureAccounting'
    BY <2>complete DEF Complete
  <2>retry. ASSUME NEW w \in Workers, NEW c \in Costs, FailRetry(w, c)
            PROVE  FailureAccounting'
    BY <2>retry DEF FailRetry, MayRetry, FailureCharge
  <2>abandon. ASSUME NEW w \in Workers, NEW c \in Costs, FailAbandon(w, c)
              PROVE  FailureAccounting'
    BY <2>abandon DEF FailAbandon, MayRetry, FailureCharge
  <2> QED
    BY <2>dispatch, <2>complete, <2>retry, <2>abandon DEF Next, Answer
<1>4. QED
  BY <1>1, <1>2, <1>3, TypeCorrect, PTL DEF Spec

-----------------------------------------------------------------------------
\* The pool implements the ledger: each call is one ledger step, and a call that
\* is refused is none.
THEOREM PoolImplementsLedger == Spec => ImplementsLedger
<1> USE DEF ImplementsLedger, Ledger!LedgerSpec
<1>1. Init => Ledger!LInit
  <2>1. Init => Pending = {}
    BY DEF Init, Pending, IsPending, IdleTask
  <2>2. QED
    BY <2>1, FS_EmptySet DEF Init, Ledger!LInit
<1>2. UNCHANGED vars => UNCHANGED Ledger!ledger
  BY DEF vars, Ledger!ledger, Pending, IsPending
<1>3. TypeOK /\ Next => Ledger!LNext
  <2> SUFFICES ASSUME TypeOK, Next PROVE Ledger!LNext
    OBVIOUS
  <2> USE DEF Ledger!LNext, Ledger!Attempt, Ledger!Submit, Ledger!ledger
  <2>dispatch. ASSUME NEW w \in Workers, NEW p \in Points, Dispatch(w, p)
               PROVE  Ledger!LNext
    BY <2>dispatch, DispatchPending DEF Dispatch, MayDispatch
  <2>complete. ASSUME NEW w \in Workers, NEW v \in Values, NEW c \in Costs,
                      Complete(w, v, c)
               PROVE  Ledger!LNext
    <3>1. Cardinality(Pending') = Cardinality(Pending) - 1 /\ Cardinality(Pending) > 0
      BY <2>complete, SettlePending DEF Complete, Task, TypeOK
    <3>2. QED
      BY <2>complete, <3>1 DEF Complete
  <2>retry. ASSUME NEW w \in Workers, NEW c \in Costs, FailRetry(w, c)
            PROVE  Ledger!LNext
    BY <2>retry, RetryPending DEF FailRetry, MayRetry, FailureCharge
  <2>abandon. ASSUME NEW w \in Workers, NEW c \in Costs, FailAbandon(w, c)
              PROVE  Ledger!LNext
    <3>1. Cardinality(Pending') = Cardinality(Pending) - 1 /\ Cardinality(Pending) > 0
      BY <2>abandon, SettlePending DEF FailAbandon, MayRetry, FailureCharge, Task, TypeOK
    <3>2. QED
      BY <2>abandon, <3>1 DEF FailAbandon, MayRetry, FailureCharge
  <2> QED
    BY <2>dispatch, <2>complete, <2>retry, <2>abandon DEF Next, Answer
<1>4. QED
  BY <1>1, <1>2, <1>3, TypeCorrect, PTL DEF Spec

-----------------------------------------------------------------------------
\* The failed attempts of the tasks still pending: one pair for each retry that
\* no settled task accounts for yet.
OpenRetries == {r \in Workers \X (1..MaxAttempts) :
                    IsPending(r[1]) /\ r[2] < tasks[r[1]].attempts}

\* Every retry belongs to a task: an abandoned one had MaxAttempts - 1 of them,
\* a completed one had at most as many, and the others are of pending tasks.
\* RetryBounds alone is not inductive: it does not tell what a pending task that
\* settles next brings with it.
RetriesAccounted ==
    /\ retries >= (MaxAttempts - 1) * abandoned + Cardinality(OpenRetries)
    /\ retries <= (MaxAttempts - 1) * (completed + abandoned)
                    + Cardinality(OpenRetries)

\* The open retries are finitely many, at most MaxAttempts - 1 of each pending
\* worker.
LEMMA OpenRetriesFinite ==
    ASSUME TypeOK
    PROVE  /\ IsFiniteSet(OpenRetries)
           /\ Cardinality(OpenRetries) \in Nat
           /\ Cardinality(OpenRetries) <= (MaxAttempts - 1) * Cardinality(Pending)
<1> USE PoolAssumption
<1>1. MaxAttempts - 1 \in Nat /\ 1 \in Int /\ MaxAttempts - 1 \in Int
  OBVIOUS
<1>2. IsFiniteSet(1..(MaxAttempts - 1))
      /\ Cardinality(1..(MaxAttempts - 1)) = MaxAttempts - 1
  BY <1>1, FS_Interval
<1>3. IsFiniteSet(Pending \X (1..(MaxAttempts - 1)))
      /\ Cardinality(Pending \X (1..(MaxAttempts - 1)))
            = Cardinality(Pending) * (MaxAttempts - 1)
  BY <1>2, PendingFinite, FS_Product
<1>4. OpenRetries \subseteq Pending \X (1..(MaxAttempts - 1))
  <2> SUFFICES ASSUME NEW r \in OpenRetries
               PROVE  r \in Pending \X (1..(MaxAttempts - 1))
    OBVIOUS
  <2>1. PICK w \in Workers, k \in 1..MaxAttempts : r = <<w, k>>
    BY DEF OpenRetries
  <2>2. w \in Pending /\ k < tasks[w].attempts
    BY <2>1 DEF OpenRetries, Pending
  <2>3. tasks[w].attempts \in 0..MaxAttempts
    BY DEF TypeOK
  <2>4. k \in 1..(MaxAttempts - 1)
    BY <2>2, <2>3
  <2>5. QED
    BY <2>1, <2>2, <2>4
<1>5. IsFiniteSet(OpenRetries)
      /\ Cardinality(OpenRetries) <= Cardinality(Pending) * (MaxAttempts - 1)
  BY <1>3, <1>4, FS_Subset
<1>6. Cardinality(OpenRetries) \in Nat
  BY <1>5, FS_CardinalityType
<1>7. Cardinality(Pending) * (MaxAttempts - 1) = (MaxAttempts - 1) * Cardinality(Pending)
  BY <1>1, PendingFinite
<1>8. QED
  BY <1>5, <1>6, <1>7

\* A task that settles takes its own retries, attempts - 1 of them, away.
LEMMA SettleRetries ==
    ASSUME TypeOK, NEW w \in Workers, IsPending(w), tasks[w].attempts >= 1,
           NEW s \in {"DONE", "FAILED"}, tasks'[w].state = s,
           \A u \in Workers \ {w} : tasks'[u] = tasks[u]
    PROVE  /\ tasks[w].attempts - 1 \in 0..(MaxAttempts - 1)
           /\ Cardinality(OpenRetries')
                = Cardinality(OpenRetries) - (tasks[w].attempts - 1)
<1> USE PoolAssumption
<1> DEFINE a == tasks[w].attempts - 1
           own == {w} \X (1..a)
<1>1. a \in 0..(MaxAttempts - 1) /\ a \in Nat /\ a \in Int /\ 1 \in Int
  BY DEF TypeOK
<1>2. IsFiniteSet(1..a) /\ Cardinality(1..a) = a
  <2>1. IsFiniteSet(1..a) /\ Cardinality(1..a) = IF 1 > a THEN 0 ELSE a - 1 + 1
    BY <1>1, FS_Interval
  <2>2. QED
    BY <1>1, <2>1
<1>3. IsFiniteSet({w}) /\ Cardinality({w}) = 1
  BY FS_Singleton
<1>4. IsFiniteSet(own) /\ Cardinality(own) = a
  <2>1. IsFiniteSet(own) /\ Cardinality(own) = Cardinality({w}) * Cardinality(1..a)
    BY <1>2, <1>3, FS_Product
  <2>2. QED
    BY <1>1, <1>2, <1>3, <2>1
<1>5. OpenRetries' = OpenRetries \ own
  <2>1. ASSUME NEW r \in Workers \X (1..MaxAttempts)
        PROVE  r \in OpenRetries' <=> r \in OpenRetries /\ r \notin own
    <3>1. PICK u \in Workers, k \in 1..MaxAttempts : r = <<u, k>>
      OBVIOUS
    <3>2. CASE u = w
      <4>1. r \notin OpenRetries'
        BY <3>1, <3>2 DEF OpenRetries, IsPending
      <4>2. r \in OpenRetries => k < tasks[w].attempts
        BY <3>1, <3>2 DEF OpenRetries
      <4>3. r \in OpenRetries => k \in 1..a
        BY <1>1, <4>2 DEF TypeOK
      <4>4. QED
        BY <3>1, <3>2, <4>1, <4>3
    <3>3. CASE u # w
      <4>1. tasks'[u] = tasks[u]
        BY <3>3
      <4>2. r \in OpenRetries' <=> r \in OpenRetries
        BY <3>1, <4>1 DEF OpenRetries, IsPending
      <4>3. QED
        BY <3>1, <3>3, <4>2
    <3>4. QED
      BY <3>2, <3>3
  <2>2. OpenRetries \subseteq Workers \X (1..MaxAttempts)
        /\ OpenRetries' \subseteq Workers \X (1..MaxAttempts)
    BY DEF OpenRetries
  <2>3. QED
    BY <2>1, <2>2
<1>6. own \subseteq OpenRetries
  <2> SUFFICES ASSUME NEW k \in 1..a PROVE <<w, k>> \in OpenRetries
    OBVIOUS
  <2>1. k \in 1..MaxAttempts /\ k < tasks[w].attempts
    BY <1>1 DEF TypeOK
  <2>2. QED
    BY <2>1 DEF OpenRetries
<1>7. Cardinality(OpenRetries \ own)
        = Cardinality(OpenRetries) - Cardinality(OpenRetries \cap own)
  BY OpenRetriesFinite, FS_Difference
<1>8. OpenRetries \cap own = own
  BY <1>6
<1>9. QED
  BY <1>1, <1>4, <1>5, <1>7, <1>8

\* Retries stay bounded over the whole life of the pool: every abandoned task has
\* had all its attempts, and no task has had more.
THEOREM PoolBoundsRetries == Spec => []RetryBounds
<1> DEFINE Pend == \A w \in Workers : IsPending(w) => tasks[w].attempts >= 1
           M == MaxAttempts - 1
<1>0. M \in Nat
  BY PoolAssumption
<1>1. Init => RetriesAccounted /\ Pend
  <2> SUFFICES ASSUME Init PROVE RetriesAccounted /\ Pend
    OBVIOUS
  <2>1. \A w \in Workers : ~IsPending(w)
    BY DEF Init, IsPending, IdleTask
  <2>2. OpenRetries = {}
    BY <2>1 DEF OpenRetries
  <2>3. Cardinality(OpenRetries) = 0
    BY <2>2, FS_EmptySet
  <2>4. M * 0 = 0 /\ M * (0 + 0) = 0
    BY <1>0
  <2>5. QED
    BY <2>1, <2>3, <2>4 DEF Init, RetriesAccounted
<1>2. RetriesAccounted /\ Pend /\ UNCHANGED vars => (RetriesAccounted /\ Pend)'
  BY DEF vars, RetriesAccounted, OpenRetries, IsPending
<1>3. TypeOK /\ RetriesAccounted /\ Pend /\ Next => (RetriesAccounted /\ Pend)'
  <2> SUFFICES ASSUME TypeOK, RetriesAccounted, Pend, Next
               PROVE  (RetriesAccounted /\ Pend)'
    OBVIOUS
  <2> USE PoolAssumption
  <2>0. /\ Cardinality(OpenRetries) \in Nat /\ IsFiniteSet(OpenRetries)
        /\ completed \in Nat /\ abandoned \in Nat /\ retries \in Nat
        /\ M * abandoned \in Nat /\ M * (completed + abandoned) \in Nat
        /\ M * (abandoned + 1) = M * abandoned + M
        /\ M * (completed + 1 + abandoned) = M * (completed + abandoned) + M
        /\ M * (completed + (abandoned + 1)) = M * (completed + abandoned) + M
    BY <1>0, OpenRetriesFinite DEF TypeOK
  <2>dispatch. ASSUME NEW w \in Workers, NEW p \in Points, Dispatch(w, p)
               PROVE  (RetriesAccounted /\ Pend)'
    <3>1. \A u \in Workers \ {w} : tasks'[u] = tasks[u]
      BY <2>dispatch DEF Dispatch, TypeOK
    <3>2. tasks'[w].attempts = 1 /\ ~IsPending(w)
      BY <2>dispatch DEF Dispatch, MayDispatch, TypeOK, Task
    <3>3. \A r \in Workers \X (1..MaxAttempts) :
              r \in OpenRetries' <=> r \in OpenRetries
      <4> SUFFICES ASSUME NEW u \in Workers, NEW k \in 1..MaxAttempts
                   PROVE  <<u, k>> \in OpenRetries' <=> <<u, k>> \in OpenRetries
        OBVIOUS
      <4>1. CASE u = w
        BY <3>2, <4>1 DEF OpenRetries, IsPending
      <4>2. CASE u # w
        BY <3>1, <4>2 DEF OpenRetries, IsPending
      <4>3. QED
        BY <4>1, <4>2
    <3>4. OpenRetries' = OpenRetries
      BY <3>3 DEF OpenRetries
    <3>5. Pend'
      BY <3>1, <3>2 DEF IsPending
    <3>6. QED
      BY <2>dispatch, <3>4, <3>5 DEF RetriesAccounted, Dispatch
  <2>complete. ASSUME NEW w \in Workers, NEW v \in Values, NEW c \in Costs,
                      Complete(w, v, c)
               PROVE  (RetriesAccounted /\ Pend)'
    <3>1. tasks'[w].state = "DONE" /\ \A u \in Workers \ {w} : tasks'[u] = tasks[u]
      BY <2>complete DEF Complete, TypeOK, Task
    <3>2. IsPending(w) /\ completed' = completed + 1 /\ abandoned' = abandoned
          /\ retries' = retries
      BY <2>complete DEF Complete
    <3>3. tasks[w].attempts - 1 \in 0..M
          /\ Cardinality(OpenRetries')
                = Cardinality(OpenRetries) - (tasks[w].attempts - 1)
      BY <3>1, <3>2, SettleRetries
    <3>4. RetriesAccounted'
      BY <1>0, <2>0, <3>2, <3>3 DEF RetriesAccounted
    <3>5. Pend'
      BY <3>1 DEF IsPending
    <3>6. QED
      BY <3>4, <3>5
  <2>retry. ASSUME NEW w \in Workers, NEW c \in Costs, FailRetry(w, c)
            PROVE  (RetriesAccounted /\ Pend)'
    <3> DEFINE a == tasks[w].attempts
    <3>1. \A u \in Workers \ {w} : tasks'[u] = tasks[u]
      BY <2>retry DEF FailRetry, TypeOK
    <3>2. IsPending(w) /\ tasks'[w].state = "PENDING" /\ tasks'[w].attempts = a + 1
      BY <2>retry DEF FailRetry, TypeOK, Task, IsPending
    <3>3. a \in 1..MaxAttempts
      BY <3>2 DEF TypeOK
    <3>4. <<w, a>> \notin OpenRetries
      BY <3>3 DEF OpenRetries
    <3>5. \A r \in Workers \X (1..MaxAttempts) :
              r \in OpenRetries' <=> r \in OpenRetries \cup {<<w, a>>}
      <4> SUFFICES ASSUME NEW u \in Workers, NEW k \in 1..MaxAttempts
                   PROVE  <<u, k>> \in OpenRetries'
                            <=> <<u, k>> \in OpenRetries \/ <<u, k>> = <<w, a>>
        OBVIOUS
      <4>1. CASE u = w
        <5>1. <<u, k>> \in OpenRetries' <=> k < a + 1
          BY <3>2, <4>1 DEF OpenRetries, IsPending
        <5>2. <<u, k>> \in OpenRetries <=> k < a
          BY <3>2, <4>1 DEF OpenRetries
        <5>3. k < a + 1 <=> k < a \/ k = a
          BY <3>3
        <5>4. QED
          BY <4>1, <5>1, <5>2, <5>3
      <4>2. CASE u # w
        BY <3>1, <4>2 DEF OpenRetries, IsPending
      <4>3. QED
        BY <4>1, <4>2
    <3>6. OpenRetries' = OpenRetries \cup {<<w, a>>}
      BY <3>3, <3>5 DEF OpenRetries
    <3>7. Cardinality(OpenRetries') = Cardinality(OpenRetries) + 1
      BY <2>0, <3>4, <3>6, FS_AddElement
    <3>8. retries' = retries + 1 /\ completed' = completed /\ abandoned' = abandoned
      BY <2>retry DEF FailRetry
    <3>9. RetriesAccounted'
      BY <2>0, <3>7, <3>8 DEF RetriesAccounted
    <3>10. Pend'
      BY <3>1, <3>2, <3>3 DEF IsPending
    <3>11. QED
      BY <3>9, <3>10
  <2>abandon. ASSUME NEW w \in Workers, NEW c \in Costs, FailAbandon(w, c)
              PROVE  (RetriesAccounted /\ Pend)'
    <3>1. tasks'[w].state = "FAILED" /\ \A u \in Workers \ {w} : tasks'[u] = tasks[u]
      BY <2>abandon DEF FailAbandon, TypeOK, Task
    <3>2. IsPending(w) /\ completed' = completed /\ abandoned' = abandoned + 1
          /\ retries' = retries
      BY <2>abandon DEF FailAbandon
    <3>3. tasks[w].attempts = MaxAttempts
      BY <2>abandon DEF FailAbandon, MayRetry, TypeOK
    <3>4. Cardinality(OpenRetries') = Cardinality(OpenRetries) - M
      BY <3>1, <3>2, <3>3, SettleRetries
    <3>5. RetriesAccounted'
      BY <1>0, <2>0, <3>2, <3>4 DEF RetriesAccounted
    <3>6. Pend'
      BY <3>1 DEF IsPending
    <3>7. QED
      BY <3>5, <3>6
  <2> QED
    BY <2>dispatch, <2>complete, <2>retry, <2>abandon DEF Next, Answer
<1>4. TypeOK /\ Conservation /\ RetriesAccounted => RetryBounds
  <2> SUFFICES ASSUME TypeOK, Conservation, RetriesAccounted PROVE RetryBounds
    OBVIOUS
  <2> DEFINE n == Cardinality(Pending)
  <2>1. /\ Cardinality(OpenRetries) \in Nat /\ Cardinality(OpenRetries) <= M * n
        /\ n \in Nat /\ completed + abandoned \in Nat
        /\ M * (completed + abandoned) \in Nat /\ M * abandoned \in Nat
    BY <1>0, OpenRetriesFinite, PendingFinite DEF TypeOK
  <2>2. M * ((completed + abandoned) + n) = M * (completed + abandoned) + M * n
    BY <1>0, <2>1
  <2>3. dispatched = (completed + abandoned) + n
    BY DEF Conservation
  <2>4. QED
    BY <1>0, <2>1, <2>2, <2>3 DEF RetriesAccounted, RetryBounds, TypeOK
<1>5. QED
  BY <1>1, <1>2, <1>3, <1>4, TypeCorrect, PoolConserves, PTL DEF Spec
=============================================================================
