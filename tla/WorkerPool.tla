---------------------------- MODULE WorkerPool ----------------------------
(***************************************************************************)
(* The asynchronous worker pool, src/fortbo_workers.f90.                   *)
(*                                                                         *)
(* A task slot per worker moves IDLE -> PENDING -> DONE or FAILED, and a   *)
(* DONE or FAILED slot may be dispatched again (only PENDING is refused).  *)
(* A call the code refuses changes nothing, so a refused call is a         *)
(* stuttering step: bad worker index, wrong width, negative cost.  The     *)
(* pool stores timeout_seconds and never reads it: a timeout is a Fail the *)
(* caller reports.                                                         *)
(***************************************************************************)
EXTENDS Integers, FiniteSets

CONSTANTS
    NWorkers,           \* n_workers
    MaxAttempts,        \* max_attempts
    Points,             \* the inputs a caller may dispatch
    Origin,             \* the point every slot holds after initialize
    Values,             \* the objective values an evaluation may return
    Costs,              \* the costs an attempt may be charged
    MaxDispatches       \* bound of the model on accepted dispatches

ASSUME PoolAssumption ==
    /\ NWorkers \in Nat \ {0}
    /\ MaxAttempts \in Nat \ {0}
    /\ MaxDispatches \in Nat
    /\ Values \subseteq Int
    /\ Costs \subseteq Nat

VARIABLES
    tasks,              \* tasks(worker)%state, point, value, cost, attempts
    completed,
    abandoned,
    retries,
    totalCost,
    dispatched,         \* history variable: accepted dispatches
    failures            \* history variable: accepted failures

vars == <<tasks, completed, abandoned, retries, totalCost, dispatched, failures>>

Workers == 1..NWorkers
States == {"IDLE", "PENDING", "DONE", "FAILED"}
Task == [state : States, point : Points \cup {Origin}, value : Int, cost : Int,
         attempts : Nat]

IdleTask == [state |-> "IDLE", point |-> Origin, value |-> 0, cost |-> 0,
             attempts |-> 0]

Init ==
    /\ tasks = [w \in Workers |-> IdleTask]
    /\ completed = 0 /\ abandoned = 0 /\ retries = 0 /\ totalCost = 0
    /\ dispatched = 0 /\ failures = 0

IsPending(w) == tasks[w].state = "PENDING"
Pending == {w \in Workers : IsPending(w)}

\* mutant: a pending slot may be overwritten
MayOverwrite(w) == TRUE
MayDispatch(w) == ~IsPending(w)

\* mutant: no attempt but the first
MayNeverRetry(w) == FALSE
MayRetry(w) == tasks[w].attempts < MaxAttempts

\* mutant: "Cost is charged for failures too" forgotten
NoCharge(c) == 0
FailureCharge(c) == c

\* dispatch: value and cost of the slot keep what an earlier task left there.
Dispatch(w, p) ==
    /\ MayDispatch(w)
    /\ dispatched < MaxDispatches
    /\ tasks' = [tasks EXCEPT ![w] =
                    [@ EXCEPT !.point = p, !.state = "PENDING", !.attempts = 1]]
    /\ dispatched' = dispatched + 1
    /\ UNCHANGED <<completed, abandoned, retries, totalCost, failures>>

Complete(w, v, c) ==
    /\ IsPending(w)
    /\ tasks' = [tasks EXCEPT ![w] =
                    [@ EXCEPT !.value = v, !.cost = c, !.state = "DONE"]]
    /\ completed' = completed + 1
    /\ totalCost' = totalCost + c
    /\ UNCHANGED <<abandoned, retries, dispatched, failures>>

\* fail below the attempt limit: the point stays pending for another attempt.
FailRetry(w, c) ==
    /\ IsPending(w)
    /\ MayRetry(w)
    /\ tasks' = [tasks EXCEPT ![w] = [@ EXCEPT !.attempts = tasks[w].attempts + 1]]
    /\ retries' = retries + 1
    /\ totalCost' = totalCost + FailureCharge(c)
    /\ failures' = failures + 1
    /\ UNCHANGED <<completed, abandoned, dispatched>>

\* fail at the limit: the point is abandoned.
FailAbandon(w, c) ==
    /\ IsPending(w)
    /\ ~MayRetry(w)
    /\ tasks' = [tasks EXCEPT ![w] = [@ EXCEPT !.state = "FAILED"]]
    /\ abandoned' = abandoned + 1
    /\ totalCost' = totalCost + FailureCharge(c)
    /\ failures' = failures + 1
    /\ UNCHANGED <<completed, retries, dispatched>>

Answer(w) ==
    \E c \in Costs : \/ \E v \in Values : Complete(w, v, c)
                     \/ FailRetry(w, c)
                     \/ FailAbandon(w, c)

Next ==
    \E w \in Workers : (\E p \in Points : Dispatch(w, p)) \/ Answer(w)

Spec == Init /\ [][Next]_vars

-----------------------------------------------------------------------------
\* The type of the pool: slots, counters, and no slot past its attempts.
TypeOK ==
    /\ tasks \in [Workers -> Task]
    /\ \A w \in Workers : tasks[w].attempts \in 0..MaxAttempts
    /\ completed \in Nat /\ abandoned \in Nat /\ retries \in Nat
    /\ totalCost \in Nat /\ dispatched \in Nat /\ failures \in Nat

\* No evaluation is lost or settled twice: what was dispatched is completed,
\* abandoned or still pending, exactly one of them (dispatch refuses a pending
\* slot because overwriting it "would lose the evaluation silently").
Conservation == dispatched = completed + abandoned + Cardinality(Pending)

\* Retries are bounded across the life of the pool, slots reused included: an
\* abandoned task used all its retries and no task used more.
RetryBounds ==
    /\ retries >= (MaxAttempts - 1) * abandoned
    /\ retries <= (MaxAttempts - 1) * dispatched

\* The pool implements the ledger of evaluations and their cost.
Ledger == INSTANCE TaskLedger WITH outstanding <- Cardinality(Pending),
              done <- completed, dropped <- abandoned, spent <- totalCost
ImplementsLedger == Ledger!LedgerSpec
=============================================================================
