---------------------------- MODULE HistoryOps ----------------------------
(***************************************************************************)
(* The observation history, src/fortbo_history.f90, as operators on a      *)
(* record of rows and policies.  An operation returns the history it       *)
(* leaves behind and whether its status was FORTNUM_OK.                    *)
(*                                                                         *)
(* Rows keep their insertion order.  Two inputs within duplicate_tolerance *)
(* are one input here.  A gradient is the label of the measurement that    *)
(* produced it, whatever its mask left out; the constraint vector of a row *)
(* is summarised as unmeasured or satisfied.  Storage growth               *)
(* (grow_if_needed) is not visible.                                        *)
(***************************************************************************)
EXTENDS Integers, Sequences

CONSTANTS
    Missing,            \* an objective argument that is not present
    NoGradient,         \* a gradient argument that is not present
    Worst               \* huge(1.0_dp), the imputed objective

NewHistory == [rows |-> <<>>, missing |-> "REFUSE", duplicates |-> "ALLOW"]

Stored(objective) == IF objective = Missing THEN Worst ELSE objective

\* mutant: a failed evaluation stays pending
PendingIfMissing(objective) == IF objective = Missing THEN "PENDING" ELSE "OK"
OutcomeOf(objective) == IF objective = Missing THEN "FAILED" ELSE "OK"

Row(input, objective, outcome, gradient, constraint) ==
    [input |-> input,
     objective |-> Stored(objective),
     present |-> objective # Missing,
     imputed |-> objective = Missing,
     outcome |-> IF outcome = "DEFAULT" THEN OutcomeOf(objective) ELSE outcome,
     gradient |-> gradient,
     constraint |-> constraint]

Refused(h) == [ok |-> FALSE, h |-> h]
Accepted(h, rows) == [ok |-> TRUE, h |-> [h EXCEPT !.rows = rows]]

\* mutant: whatever has been answered
IsAnswered(row) == row.outcome # "PENDING"
IsUsable(row) == row.present /\ ~row.imputed

\* feasible: every declared constraint measured and satisfied
IsFeasible(row, nConstraints) == nConstraints > 0 => row.constraint = "SATISFIED"

UsableRows(h) == {i \in DOMAIN h.rows : IsUsable(h.rows[i])}

\* rows whose input is the same as this one; the code takes the first
Duplicates(h, input) == {i \in DOMAIN h.rows : h.rows[i].input = input}
First(S) == CHOOSE i \in S : \A j \in S : i <= j

\* mutant: a duplicate is replaced unless it is rejected
ReplacesUnlessRejected(h) == h.duplicates # "REJECT"
Replaces(h) == h.duplicates = "REPLACE"

\* a replaced row keeps its gradient when the call brings none
Replacement(row, old, gradient) ==
    IF gradient = NoGradient THEN [row EXCEPT !.gradient = old.gradient] ELSE row

\* add: the checks of the arguments, the missing policy, the duplicate policy,
\* then the row.
Add(h, input, objective, outcome, gradient, constraint) ==
    LET row == Row(input, objective, outcome, gradient, constraint)
        twins == Duplicates(h, input)
        i == First(twins)
    IN  IF \/ constraint = "BADWIDTH"
           \/ objective = Missing /\ h.missing = "REFUSE"
        THEN Refused(h)
        ELSE IF objective = Missing /\ h.missing = "SKIP" THEN Accepted(h, h.rows)
        ELSE IF twins # {} /\ h.duplicates = "REJECT" THEN Refused(h)
        ELSE IF twins # {} /\ Replaces(h)
        THEN Accepted(h, [h.rows EXCEPT ![i] = Replacement(row, h.rows[i], gradient)])
        ELSE Accepted(h, Append(h.rows, row))

\* add_pending: a dispatched query, no duplicate check
AddPending(h, input) ==
    Accepted(h, Append(h.rows,
        [input |-> input, objective |-> 0, present |-> FALSE, imputed |-> FALSE,
         outcome |-> "PENDING", gradient |-> NoGradient, constraint |-> "NONE"]))

Answerable(h, i) == i \in DOMAIN h.rows /\ h.rows[i].outcome = "PENDING"

\* the row that complete leaves before it looks at the constraints
Answered(h, row, objective, gradient) ==
    LET g == IF gradient = NoGradient THEN row.gradient ELSE gradient
    IN  IF objective # Missing
        THEN [row EXCEPT !.gradient = g, !.objective = objective,
                         !.present = TRUE, !.outcome = OutcomeOf(objective)]
        ELSE IF h.missing = "IMPUTE"
        THEN [row EXCEPT !.gradient = g, !.objective = Worst, !.imputed = TRUE,
                         !.outcome = OutcomeOf(objective)]
        ELSE [row EXCEPT !.gradient = g, !.outcome = OutcomeOf(objective)]

\* complete: only a pending row; a constraint vector of the wrong width is
\* refused after the row has been answered.
Complete(h, i, objective, outcome, gradient, constraint, nConstraints) ==
    IF ~Answerable(h, i) THEN Refused(h)
    ELSE LET row == Answered(h, h.rows[i], objective, gradient)
         IN  IF constraint = "BADWIDTH" /\ nConstraints > 0
             THEN [ok |-> FALSE, h |-> [h EXCEPT !.rows[i] = row]]
             ELSE Accepted(h, [h.rows EXCEPT ![i] =
                    [row EXCEPT
                       !.constraint = IF constraint = "NONE" \/ nConstraints = 0
                                      THEN row.constraint ELSE constraint,
                       !.outcome = IF outcome = "DEFAULT" THEN row.outcome
                                   ELSE outcome]])

\* real comparison against a running minimum that starts at huge
IsBest(h, i, nConstraints) ==
    LET candidate(j) == /\ IsUsable(h.rows[j]) /\ IsFeasible(h.rows[j], nConstraints)
                        /\ h.rows[j].objective < Worst
    IN  /\ i \in DOMAIN h.rows /\ candidate(i)
        /\ \A j \in DOMAIN h.rows : candidate(j) =>
              /\ h.rows[i].objective <= h.rows[j].objective
              /\ j < i => h.rows[i].objective < h.rows[j].objective

\* mutant: a later row of equal value displaces
NoWorseThan(row, value) == row.objective <= value
BetterThan(row, value) == row.objective < value

\* best_index as the code computes it: one pass, a strict improvement displaces
BestIndex(h, nConstraints) ==
    LET scan[n \in 0..Len(h.rows)] ==
          IF n = 0 THEN [best |-> 0, value |-> Worst]
          ELSE IF /\ IsUsable(h.rows[n])
                  /\ IsFeasible(h.rows[n], nConstraints)
                  /\ BetterThan(h.rows[n], scan[n - 1].value)
               THEN [best |-> n, value |-> h.rows[n].objective]
               ELSE scan[n - 1]
    IN  scan[Len(h.rows)].best
=============================================================================
