---------------------------- MODULE TaskLedger ----------------------------
(***************************************************************************)
(* What src/fortbo_workers.f90 promises its caller, without workers:       *)
(* every submitted evaluation is settled at most once, as done or as       *)
(* dropped, and every attempt at it is charged whatever its outcome        *)
(* ("A failure is not a value", "Cost is charged for failures too").       *)
(***************************************************************************)
EXTENDS Integers

CONSTANT Costs          \* the cost one attempt may be charged

VARIABLES
    outstanding,        \* submitted and not settled
    done,               \* settled with a value
    dropped,            \* settled without one
    spent               \* cost of every attempt so far

ledger == <<outstanding, done, dropped, spent>>

LInit == outstanding = 0 /\ done = 0 /\ dropped = 0 /\ spent = 0

Submit ==
    /\ outstanding' = outstanding + 1
    /\ UNCHANGED <<done, dropped, spent>>

\* One attempt ends: in a value, in a retry, or in giving the task up.
Attempt(c) ==
    /\ outstanding > 0
    /\ spent' = spent + c
    /\ \/ outstanding' = outstanding - 1 /\ done' = done + 1 /\ UNCHANGED dropped
       \/ UNCHANGED <<outstanding, done, dropped>>
       \/ outstanding' = outstanding - 1 /\ dropped' = dropped + 1 /\ UNCHANGED done

LNext == Submit \/ \E c \in Costs : Attempt(c)

LedgerSpec == LInit /\ [][LNext]_ledger
=============================================================================
