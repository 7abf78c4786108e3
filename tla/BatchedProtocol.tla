-------------------------- MODULE BatchedProtocol --------------------------
(***************************************************************************)
(* The batched run of the B5 benchmark: the bridge of                      *)
(* app/fortbo_b5_protocol.f90 asks the driver for a whole batch, the       *)
(* runner (_run of scripts/run_fortbo_b5.py) evaluates it in threads and   *)
(* answers all of it at once.                                              *)
(*                                                                         *)
(* The header and the lines of a batch are one message on the pipe.  The   *)
(* driver is what TurboBatchDriver promises: a region for every slot, or a *)
(* refusal.  A point is the serial number of its slot; the value of an     *)
(* evaluation is the point it was made at.                                 *)
(***************************************************************************)
EXTENDS Integers, Sequences, FiniteSets

CONSTANTS
    Budget,             \* evaluations of the run
    Batch,              \* batch size and evaluator threads
    NRegions,
    MayAbort            \* may the driver refuse a call, may an evaluation raise

\* the runner and the bridge both refuse a budget that is not whole batches
ASSUME BatchedAssumption ==
    /\ Budget \in Nat \ {0} /\ Batch \in Nat \ {0} /\ Budget % Batch = 0
    /\ NRegions \in Nat \ {0} /\ MayAbort \in BOOLEAN

VARIABLES
    bridge,             \* at, used, regions of the asked batch, why it stopped
    runner,             \* at, candidate (candidate_id), why it raised
    regionIds,          \* the region ids the runner read for the batch
    futures,            \* the evaluator futures, by candidate id
    results,            \* candidate ids of the batch, in completion order
    records,            \* evaluations recorded by the runner
    toRunner, toBridge, \* the pipes
    stdinClosed,
    told                \* history variable: points and answers of the tells

vars == <<bridge, runner, regionIds, futures, results, records, toRunner, toBridge,
          stdinClosed, told>>

Ids == 0..(Budget - 1)
Slots == 1..Batch
NoFuture == "NONE"

Init ==
    /\ bridge = [at |-> "ASK", used |-> 0, regions |-> <<>>, why |-> ""]
    /\ runner = [at |-> "HEADER", candidate |-> 0, why |-> ""]
    /\ regionIds = <<>>
    /\ futures = [id \in Ids |-> NoFuture]
    /\ results = <<>> /\ records = <<>>
    /\ toRunner = <<>> /\ toBridge = <<>>
    /\ stdinClosed = FALSE
    /\ told = <<>>

BridgeGone == bridge.at \in {"EXITED", "ABORTED"}
-----------------------------------------------------------------------------
\* The bridge.
\* mutant: done when the last batch is still to be asked
LastBatchLeft == bridge.used + Batch >= Budget
AllUsed == bridge.used >= Budget

\* error stop
Stop(why) ==
    /\ bridge' = [bridge EXCEPT !.at = "ABORTED", !.why = why]
    /\ UNCHANGED <<runner, regionIds, futures, results, records, toRunner, toBridge,
                   stdinClosed, told>>

BridgeAsk ==
    /\ bridge.at = "ASK" /\ ~AllUsed
    /\ \E regions \in [Slots -> 1..NRegions] :
          /\ bridge' = [bridge EXCEPT !.at = "READ", !.regions = regions]
          /\ toRunner' = Append(toRunner, [line |-> "ASK", regions |-> regions])
    /\ UNCHANGED <<runner, regionIds, futures, results, records, toBridge, stdinClosed,
                   told>>

BridgeAskFails == bridge.at = "ASK" /\ ~AllUsed /\ MayAbort /\ Stop("ASK")

\* tell: the i-th result belongs to the i-th point of the batch
BridgeTell ==
    /\ bridge.at = "READ" /\ toBridge # <<>>
    /\ told' = told \o [i \in Slots |-> [point |-> bridge.used + i,
                                         answer |-> Head(toBridge)[i]]]
    /\ toBridge' = Tail(toBridge)
    /\ bridge' = [bridge EXCEPT !.at = "ASK", !.used = @ + Batch, !.regions = <<>>]
    /\ UNCHANGED <<runner, regionIds, futures, results, records, toRunner, stdinClosed>>

BridgeTellFails == bridge.at = "READ" /\ toBridge # <<>> /\ MayAbort /\ Stop("TELL")

BridgeEndOfInput ==
    /\ bridge.at = "READ" /\ toBridge = <<>> /\ stdinClosed
    /\ Stop("EOF")

BridgeDone ==
    /\ bridge.at = "ASK"
    /\ AllUsed
    /\ toRunner' = Append(toRunner, [line |-> "DONE"])
    /\ bridge' = [bridge EXCEPT !.at = "EXITED"]
    /\ UNCHANGED <<runner, regionIds, futures, results, records, toBridge, stdinClosed,
                   told>>

Bridge == \/ BridgeAsk \/ BridgeAskFails
          \/ BridgeTell \/ BridgeTellFails \/ BridgeEndOfInput \/ BridgeDone
-----------------------------------------------------------------------------
\* The runner.
First == runner.candidate - Batch       \* candidate id of the first slot
BatchIds == First..(runner.candidate - 1)
Running == {id \in Ids : futures[id] = "RUNNING"}

\* what the driver is told of slot i: the objective, or that there is none
Outcome(i) == IF futures[First + i - 1] = "VALUE" THEN First + i ELSE 0

\* external: minimized_objective of an evaluation, another number than the objective
MinimizedAt(point) == -point
NoValue == 0

\* what the ledger records as its value
RecordedValue(i) ==
    IF futures[First + i - 1] = "VALUE" THEN MinimizedAt(First + i) ELSE NoValue

\* mutant: candidates recorded in the order they came
RecordIdByCompletion(i) == results[i]
RecordId(i) == First + i - 1

Joined == Running = {}

AllCompleted == Len(results) = Batch

\* POINT lines carry the slot, the region and the coordinates; the runner keeps the
\* first of them as the region
ReadAsk ==
    /\ runner.at = "HEADER"
    /\ toRunner # <<>> /\ Head(toRunner).line = "ASK"
    /\ regionIds' = [i \in DOMAIN Head(toRunner).regions |-> i]
    /\ futures' = [id \in Ids |-> IF id \in runner.candidate..(runner.candidate + Batch - 1)
                                  THEN "RUNNING" ELSE futures[id]]
    /\ runner' = [runner EXCEPT !.at = "EVALUATE", !.candidate = @ + Batch]
    /\ results' = <<>>
    /\ toRunner' = Tail(toRunner)
    /\ UNCHANGED <<bridge, records, toBridge, stdinClosed, told>>

\* as_completed: the results in the order the evaluations finish
Collects(id) ==
    /\ runner.at = "EVALUATE"
    /\ id \in BatchIds \ {results[i] : i \in DOMAIN results}
    /\ futures[id] \in {"VALUE", "FAIL"}
    /\ results' = Append(results, id)
    /\ UNCHANGED <<bridge, runner, regionIds, futures, records, toRunner, toBridge,
                   stdinClosed, told>>

\* the exception of a future leaves the loop; the executor's exit waits for the
\* other evaluations
CollectRaises(id) ==
    /\ runner.at = "EVALUATE"
    /\ id \in BatchIds /\ futures[id] = "RAISED"
    /\ runner' = [runner EXCEPT !.at = "JOIN", !.why = "EVALUATION"]
    /\ UNCHANGED <<bridge, regionIds, futures, results, records, toRunner, toBridge,
                   stdinClosed, told>>

Answers ==
    /\ runner.at = "EVALUATE" /\ AllCompleted
    /\ toBridge' = Append(toBridge, [i \in Slots |-> Outcome(i)])
    /\ records' = records \o [i \in Slots |-> [id |-> RecordId(i), region |-> regionIds[i],
                                               answer |-> Outcome(i),
                                               value |-> RecordedValue(i)]]
    /\ runner' = [runner EXCEPT !.at = "HEADER"]
    /\ UNCHANGED <<bridge, regionIds, futures, results, toRunner, stdinClosed, told>>

ReadDone ==
    /\ runner.at = "HEADER"
    /\ toRunner # <<>> /\ Head(toRunner).line = "DONE"
    /\ runner' = [runner EXCEPT !.at = "JOIN"]
    /\ toRunner' = Tail(toRunner)
    /\ UNCHANGED <<bridge, regionIds, futures, results, records, toBridge, stdinClosed,
                   told>>

ReadEndOfOutput ==
    /\ runner.at = "HEADER" /\ toRunner = <<>> /\ BridgeGone
    /\ runner' = [runner EXCEPT !.at = "JOIN", !.why = "EOF"]
    /\ UNCHANGED <<bridge, regionIds, futures, results, records, toRunner, toBridge,
                   stdinClosed, told>>

\* finally: stdin is closed on every path; an exception goes on from there without
\* process.wait
\* mutant: stdin is closed on the good path only
ClosedIfDone == runner.why = ""
Closed == TRUE
ClosesInput ==
    /\ runner.at = "JOIN" /\ Joined
    /\ stdinClosed' = Closed
    /\ runner' = [runner EXCEPT !.at = IF runner.why = "" THEN "REAP" ELSE "RAISED"]
    /\ UNCHANGED <<bridge, regionIds, futures, results, records, toRunner, toBridge, told>>

\* process.wait, the return code and the number of candidates
Reaps ==
    /\ runner.at = "REAP" /\ BridgeGone
    /\ runner' = [runner EXCEPT !.at = IF bridge.at = "EXITED" /\ runner.candidate = Budget
                                       THEN "RETURNED" ELSE "RAISED"]
    /\ UNCHANGED <<bridge, regionIds, futures, results, records, toRunner, toBridge,
                   stdinClosed, told>>

Runner == \/ ReadAsk \/ Answers \/ ReadDone \/ ReadEndOfOutput \/ ClosesInput \/ Reaps
          \/ \E id \in Ids : Collects(id) \/ CollectRaises(id)

\* _evaluate in a thread: a value, an expected failure, or an exception
Evaluate(id) ==
    /\ futures[id] = "RUNNING"
    /\ \E s \in {"VALUE", "FAIL"} \cup (IF MayAbort THEN {"RAISED"} ELSE {}) :
          futures' = [futures EXCEPT ![id] = s]
    /\ UNCHANGED <<bridge, runner, regionIds, results, records, toRunner, toBridge,
                   stdinClosed, told>>

Ended == runner.at \in {"RETURNED", "RAISED"}

Next == Bridge \/ Runner \/ \E id \in Ids : Evaluate(id)

Spec == Init /\ [][Next]_vars

\* Both processes run, and an evaluation ends: that is assumed of the external
\* evaluator, for the runner sets no timeout of its own and would wait for ever.
FairSpec == Spec /\ WF_vars(Bridge) /\ WF_vars(Runner)
                 /\ \A id \in Ids : WF_vars(Evaluate(id))

-----------------------------------------------------------------------------
\* The type of the two processes.
TypeOK ==
    /\ bridge \in [at : {"ASK", "READ", "EXITED", "ABORTED"}, used : 0..Budget,
                   regions : {<<>>} \cup [Slots -> 1..NRegions],
                   why : {"", "ASK", "TELL", "EOF"}]
    /\ runner \in [at : {"HEADER", "EVALUATE", "JOIN", "REAP", "RETURNED", "RAISED"},
                   candidate : 0..Budget, why : {"", "EOF", "EVALUATION"}]
    /\ futures \in [Ids -> {NoFuture, "RUNNING", "VALUE", "FAIL", "RAISED"}]
    /\ results \in Seq(Ids) /\ Len(results) <= Batch
    /\ Len(records) <= Budget /\ Len(told) <= Budget
    /\ Len(toRunner) <= 1 /\ Len(toBridge) <= 1 /\ stdinClosed \in BOOLEAN

\* Whatever order the evaluations of a batch finish in, the driver is told every
\* point once, in the order asked, with the value measured at that point; and the
\* ledger of the runner is what the driver was told, candidate for candidate, with
\* contiguous ids, and the value it records is of the same evaluation.  It is ahead by one batch at most, the one the bridge has yet to
\* read or has refused.
LedgerMatchesDriver ==
    /\ TypeOK
    /\ \A i \in DOMAIN told : /\ told[i].point = i /\ told[i].answer \in {i, 0}
                             /\ records[i].answer = told[i].answer
                             /\ records[i].value = IF told[i].answer = 0 THEN NoValue
                                                   ELSE MinimizedAt(told[i].point)
    /\ \A i \in DOMAIN records : records[i].id = i - 1
    /\ Len(records) - Len(told) \in {0, Batch}

\* A run ends the way it deserves: it returns only when the driver has been told and
\* the ledger holds every candidate of the budget, and raises only when the driver
\* refused a call or an evaluation raised; and no evaluator thread outlives it, even
\* if another one raised.
EndsForACause ==
    /\ bridge.at = "EXITED" => Len(told) = Budget
    /\ runner.at = "RETURNED" => Len(told) = Budget /\ Len(records) = Budget
    /\ runner.at = "RAISED" =>
          bridge.why \in {"ASK", "TELL"} \/ \E id \in Ids : futures[id] = "RAISED"
    /\ Ended => Running = {}

\* Both processes end.  The runner does not wait for the bridge when it raises; the
\* bridge still ends, because its input has been closed.
BothEnd == <>(Ended /\ BridgeGone)

\* "invalid region id" (scripts/check_fortbo_b5.py:118-120): the region id of a
\* record is the number of a region.
RecordedRegionsAreValid == \A i \in DOMAIN records : records[i].region \in 1..NRegions
=============================================================================
