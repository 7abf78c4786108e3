------------------------------ MODULE History ------------------------------
(***************************************************************************)
(* The life of one observation history, src/fortbo_history.f90: rows       *)
(* added, dispatched and answered in any order under fixed policies, and   *)
(* checkpoints written, interrupted by a crash, and read back.             *)
(***************************************************************************)
EXTENDS HistoryOps, FiniteSets

CONSTANTS
    Inputs,             \* query points
    Objectives,         \* measured objective values
    Outcomes,           \* outcome arguments callers pass, DEFAULT for none
    Constraints,        \* constraint arguments callers pass, NONE for none
    NConstraints,       \* n_constraints
    MissingPolicies, DuplicatePolicies,
    MaxCalls            \* bound of the model on accepted calls

ASSUME HistoryAssumption ==
    /\ Objectives \subseteq Int /\ Missing \notin Int
    /\ Worst \in Int /\ \A v \in Objectives : v <= Worst
    /\ NConstraints \in Nat
    /\ MissingPolicies \subseteq {"REFUSE", "SKIP", "IMPUTE"}
    /\ DuplicatePolicies \subseteq {"ALLOW", "REJECT", "REPLACE"}
    /\ MaxCalls \in Nat

\* No caller declares the evaluation it reports to be pending, and none passes a
\* constraint vector of the wrong width.
ASSUME CallersAssumption ==
    /\ Outcomes \subseteq {"DEFAULT", "OK", "FAILED"} /\ "BADWIDTH" \notin Constraints

VARIABLES
    h,                  \* the history in memory
    file,               \* the checkpoint on disk
    up,                 \* is the program running
    calls,              \* history variable: accepted calls, labels measurements
    measured,           \* history variable: row, objective and label of each value
    owed,               \* history variable: dispatched rows not yet answered
    written             \* history variable: history and values of the last full checkpoint

vars == <<h, file, up, calls, measured, owed, written>>
ghosts == <<calls, measured, owed>>

NoFile == [state |-> "ABSENT", h |-> NewHistory]

Init ==
    /\ \E m \in MissingPolicies, d \in DuplicatePolicies :
          h = [NewHistory EXCEPT !.missing = m, !.duplicates = d]
    /\ file = NoFile /\ up = TRUE
    /\ calls = 0 /\ measured = {} /\ owed = {}
    /\ written = [h |-> NewHistory, measured |-> {}]

Gradients == {NoGradient, calls + 1}

\* the row an accepted add writes, 0 when the missing policy skipped it
WrittenRow(r, input) ==
    IF r.h = h THEN 0
    ELSE IF Len(r.h.rows) > Len(h.rows) THEN Len(r.h.rows)
    ELSE First(Duplicates(h, input))

AddRow ==
    /\ up /\ calls < MaxCalls
    /\ \E x \in Inputs, v \in Objectives \cup {Missing}, o \in Outcomes,
          g \in Gradients, c \in Constraints :
          LET r == Add(h, x, v, o, g, c)
          IN  /\ r.ok
              /\ h' = r.h
              /\ measured' = IF v = Missing THEN measured
                             ELSE measured \cup {<<WrittenRow(r, x), v, calls + 1>>}
    /\ calls' = calls + 1
    /\ UNCHANGED <<file, up, owed, written>>

DispatchRow ==
    /\ up /\ calls < MaxCalls
    /\ \E x \in Inputs : h' = AddPending(h, x).h
    /\ owed' = owed \cup {Len(h'.rows)}
    /\ calls' = calls + 1
    /\ UNCHANGED <<file, up, measured, written>>

CompleteRow ==
    /\ up /\ calls < MaxCalls
    /\ \E i \in DOMAIN h.rows, v \in Objectives \cup {Missing}, o \in Outcomes,
          g \in Gradients, c \in Constraints :
          LET r == Complete(h, i, v, o, g, c, NConstraints)
          IN  /\ r.h # h
              /\ h' = r.h
              /\ owed' = IF r.ok THEN owed \ {i} ELSE owed
              /\ measured' = IF v = Missing THEN measured
                             ELSE measured \cup {<<i, v, calls + 1>>}
    /\ calls' = calls + 1
    /\ UNCHANGED <<file, up, written>>

\* checkpoint_write replaces the file first and fills it row by row: a crash
\* before close leaves it truncated.
CheckpointOpen ==
    /\ up /\ file.state # "WRITING" /\ h.rows # <<>>
    /\ file' = [state |-> "WRITING", h |-> h]
    /\ UNCHANGED <<h, up, ghosts, written>>

CheckpointClose ==
    /\ up /\ file.state = "WRITING"
    /\ file' = [file EXCEPT !.state = "COMPLETE"]
    /\ written' = [h |-> h, measured |-> measured]
    /\ UNCHANGED <<h, up, ghosts>>

Crash ==
    /\ up
    /\ up' = FALSE
    /\ file' = IF file.state = "WRITING" THEN [file EXCEPT !.state = "TRUNCATED"]
               ELSE file
    /\ h' = NewHistory
    /\ UNCHANGED <<ghosts, written>>

\* mutant: the rows alone are read back
ResumedRows(f) == [NewHistory EXCEPT !.rows = f.h.rows]
Resumed(f) == [NewHistory EXCEPT !.rows = f.h.rows, !.missing = f.h.missing,
                                 !.duplicates = f.h.duplicates]

\* checkpoint_read of a complete file; a truncated one ends the program in the
\* run-time library, an absent one is refused.
CheckpointRead ==
    /\ ~up
    /\ file.state = "COMPLETE"
    /\ up' = TRUE
    /\ h' = Resumed(file)
    /\ owed' = {i \in DOMAIN h'.rows : h'.rows[i].outcome = "PENDING"}
    /\ measured' = written.measured
    /\ UNCHANGED <<file, calls, written>>

Busy == file.state = "WRITING"      \* write is one call: nothing runs beside it

Next ==
    \/ ~Busy /\ (AddRow \/ DispatchRow \/ CompleteRow)
    \/ CheckpointOpen \/ CheckpointClose \/ Crash \/ CheckpointRead

Spec == Init /\ [][Next]_vars

-----------------------------------------------------------------------------
\* The type of the history and of the checkpoint.
TypeOK ==
    /\ \A i \in DOMAIN h.rows :
          /\ h.rows[i].input \in Inputs /\ h.rows[i].objective \in Int
          /\ h.rows[i].outcome \in {"PENDING", "OK", "FAILED"}
          /\ h.rows[i].gradient # NoGradient => h.rows[i].gradient \in 1..calls
    /\ h.missing \in {"REFUSE", "SKIP", "IMPUTE"}
    /\ h.duplicates \in {"ALLOW", "REJECT", "REPLACE"}
    /\ file.state \in {"ABSENT", "WRITING", "COMPLETE", "TRUNCATED"}
    /\ owed \subseteq DOMAIN h.rows \/ ~up
    /\ Len(h.rows) <= calls /\ calls \in 0..MaxCalls

\* "it does not invent values for failed evaluations": the value a surrogate trains on
\* was measured at that row, whatever failures, imputations and resumes happened on the
\* way; and so was its gradient, in the same evaluation, unless rows are replaced.
TrainsOnMeasuredValues ==
    \A i \in UsableRows(h) : \E m \in measured :
        /\ m[1] = i /\ m[2] = h.rows[i].objective
        /\ h.duplicates # "REPLACE" /\ h.rows[i].gradient # NoGradient =>
              m[3] = h.rows[i].gradient

\* A dispatched evaluation stays answerable until it is answered, and only then
\* leaves the pending state ("Completing a row twice is an error"); a history
\* that replaces rows may replace a pending one.
OwedRowsArePending ==
    TypeOK /\ (up /\ h.duplicates # "REPLACE" =>
        owed = {i \in DOMAIN h.rows : h.rows[i].outcome = "PENDING"})

\* best_index is the earliest of the best usable feasible rows, or zero when
\* none is better than the huge initial bound ("Ties go to the earliest row so
\* replay is deterministic").
BestIndexIsEarliestMinimum ==
    LET b == BestIndex(h, NConstraints)
    IN  IF b = 0 THEN \A i \in DOMAIN h.rows : ~IsBest(h, i, NConstraints)
        ELSE IsBest(h, b, NConstraints)

\* "Everything needed to resume is written, including the policies": a history
\* read back is the history that was written, policies included.
ResumesWhatWasWritten == [][~up /\ up' => h' = written.h]_vars

\* "it does not reorder rows. Insertion order is the replay order": a running
\* history only grows, and a row changes only by being answered or replaced at
\* its own input.
RowsKeepTheirPlace ==
    [][up /\ up' => /\ Len(h'.rows) >= Len(h.rows)
                    /\ \A i \in DOMAIN h.rows :
                          /\ h'.rows[i].input = h.rows[i].input
                          /\ \/ h'.rows[i] = h.rows[i]
                             \/ h.rows[i].outcome = "PENDING"
                             \/ h.duplicates = "REPLACE"]_vars
=============================================================================
