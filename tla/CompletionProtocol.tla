------------------------ MODULE CompletionProtocol ------------------------
(***************************************************************************)
(* The completion-driven run of the B5 benchmark: the bridge of            *)
(* CompletionBridge and its runner, main and _run_completion_driven of     *)
(* scripts/run_fortbo_b5.py, which owns a pool of evaluator threads and    *)
(* writes the ledger that scripts/check_fortbo_b5.py audits.               *)
(***************************************************************************)
EXTENDS CompletionBridge, SequencesExt

\* 40 or 160 initial points and eight workers in the code, any positive budget
ASSUME ProtocolAssumption == Workers <= Initial

VARIABLES
    runner,             \* at, dispatched, pending (ids), peak concurrency, why it raised
    futures,            \* the evaluator futures, by candidate id
    records             \* rows of the ledger in completion order

runnerVars == <<runner, futures, records>>
vars == <<bridgeVars, runnerVars>>

NoFuture == [state |-> "NONE", point |-> 0]

Init ==
    /\ BridgeInit
    /\ runner = [at |-> "LOOP", dispatched |-> 0, pending |-> {}, peak |-> 0, why |-> ""]
    /\ futures = [id \in Ids |-> NoFuture]
    /\ records = <<>>

-----------------------------------------------------------------------------
\* The runner.
WantsAsk == runner.dispatched < Budget /\ Cardinality(runner.pending) < Workers
Running == {id \in Ids : futures[id].state = "RUNNING"}

Joined == Running = {}

\* an exception leaves the loop; the executor's exit waits for the futures first
Raise(why) ==
    /\ runner' = [runner EXCEPT !.at = "JOIN", !.why = why]
    /\ UNCHANGED <<bridge, slots, futures, records, toBridge, stdinClosed, told>>

\* mutant: the peak is taken before the new future counts
PeakBefore == Max({runner.peak, Cardinality(runner.pending)})
Peak == Max({runner.peak, Cardinality(runner.pending) + 1})

ReadAsk ==
    /\ runner.at = "LOOP" /\ WantsAsk
    /\ NextLineIs("ASK") /\ Head(toRunner).id = runner.dispatched
    /\ LET id == Head(toRunner).id
       IN  /\ futures' = [futures EXCEPT ![id] = [state |-> "RUNNING",
                                                  point |-> Head(toRunner).point]]
           /\ runner' = [runner EXCEPT !.dispatched = @ + 1, !.pending = @ \cup {id},
                                       !.peak = Peak]
    /\ toRunner' = Tail(toRunner)
    /\ UNCHANGED <<bridge, slots, records, toBridge, stdinClosed, told>>

ReadWait ==
    /\ runner.at = "LOOP" /\ WantsAsk
    /\ NextLineIs("WAIT") /\ runner.pending # {}
    /\ runner' = [runner EXCEPT !.at = "COMPLETE"]
    /\ toRunner' = Tail(toRunner)
    /\ UNCHANGED <<bridge, slots, futures, records, toBridge, stdinClosed, told>>

\* the RuntimeError of a line the loop does not expect where it reads; LockStep
\* shows that there is never one, so it has no action
UnexpectedLine ==
    /\ runner.at = "LOOP"
    /\ IF WantsAsk
       THEN \/ NextLineIs("ASK") /\ Head(toRunner).id # runner.dispatched
            \/ NextLineIs("WAIT") /\ runner.pending = {}
            \/ NextLineIs("DONE")
       ELSE runner.pending = {} /\ (NextLineIs("ASK") \/ NextLineIs("WAIT"))

ReadEndOfOutput ==
    /\ runner.at = "LOOP" /\ (WantsAsk \/ runner.pending = {})
    /\ toRunner = <<>> /\ BridgeGone
    /\ Raise("EOF")
    /\ UNCHANGED toRunner

AwaitsFuture ==
    /\ runner.at = "LOOP" /\ ~WantsAsk /\ runner.pending # {}
    /\ runner' = [runner EXCEPT !.at = "COMPLETE"]
    /\ UNCHANGED <<bridgeVars, futures, records>>

Answer(id) == IF futures[id].state = "VALUE" THEN futures[id].point ELSE 0

\* external: minimized_objective of an evaluation, another number than the objective
\* the driver is told
MinimizedAt(point) == -point
NoValue == 0

\* _record: answer is its upstream_objective; a failure has neither number
Row(id) ==
    LET ok == futures[id].state = "VALUE"
    IN  [id |-> id, point |-> futures[id].point, answer |-> Answer(id),
         status |-> IF ok THEN "ok" ELSE "failed",
         value |-> IF ok THEN MinimizedAt(futures[id].point) ELSE NoValue]

\* complete_one: any future that is done; its candidate is no longer pending
\* even if its result cannot be sent
Completes(id) ==
    /\ runner.at = "COMPLETE" /\ id \in runner.pending
    /\ futures[id].state \in {"VALUE", "FAIL"}
    /\ ~BridgeGone
    /\ toBridge' = Append(toBridge, [id |-> id, answer |-> Answer(id)])
    /\ records' = Append(records, Row(id))
    /\ runner' = [runner EXCEPT !.at = "LOOP", !.pending = @ \ {id}]
    /\ UNCHANGED <<bridge, slots, futures, toRunner, stdinClosed, told>>

CompletionRaises(id) ==
    /\ runner.at = "COMPLETE" /\ id \in runner.pending
    /\ \/ futures[id].state = "RAISED"
       \/ futures[id].state \in {"VALUE", "FAIL"} /\ BridgeGone
    /\ runner' = [runner EXCEPT !.at = "JOIN", !.pending = @ \ {id},
                                !.why = IF futures[id].state = "RAISED" THEN "EVALUATION"
                                        ELSE "BROKEN_PIPE"]
    /\ UNCHANGED <<bridgeVars, futures, records>>

ReadDone ==
    /\ runner.at = "LOOP" /\ ~WantsAsk /\ runner.pending = {}
    /\ NextLineIs("DONE")
    /\ runner' = [runner EXCEPT !.at = "JOIN"]
    /\ toRunner' = Tail(toRunner)
    /\ UNCHANGED <<bridge, slots, futures, records, toBridge, stdinClosed, told>>

\* The executor has joined its threads, then stdin is closed.  What a broken pipe
\* left in the buffer makes the close fail as well, and process.wait is skipped.
ClosesInput ==
    /\ runner.at = "JOIN" /\ Joined
    /\ stdinClosed' = TRUE
    /\ runner' = [runner EXCEPT !.at = IF runner.why = "BROKEN_PIPE" THEN "RAISED"
                                       ELSE "REAP"]
    /\ UNCHANGED <<bridge, slots, futures, records, toRunner, toBridge, told>>

\* process.wait, the return code and the number of records
Reaps ==
    /\ runner.at = "REAP" /\ BridgeGone
    /\ runner' = [runner EXCEPT !.at =
                    IF /\ runner.why = "" /\ bridge.at = "EXITED"
                       /\ runner.dispatched = Budget /\ Len(records) = Budget
                    THEN "RETURNED" ELSE "RAISED"]
    /\ UNCHANGED <<bridgeVars, futures, records>>

\* Back in main, the ledger is written unless a source checkout has changed since
\* the run began.
Finishes ==
    /\ runner.at = "RETURNED"
    /\ \/ runner' = [runner EXCEPT !.at = "WRITTEN"]
       \/ MayAbort /\ runner' = [runner EXCEPT !.at = "RAISED", !.why = "CHECKOUT"]
    /\ UNCHANGED <<bridgeVars, futures, records>>

Runner == \/ ReadAsk \/ ReadWait \/ ReadEndOfOutput \/ AwaitsFuture
          \/ \E id \in Ids : Completes(id) \/ CompletionRaises(id)
          \/ ReadDone \/ ClosesInput \/ Reaps \/ Finishes

\* _evaluate in a thread: a value, an expected failure, or an exception
Evaluate(id) ==
    /\ futures[id].state = "RUNNING"
    /\ \E s \in {"VALUE", "FAIL"} \cup (IF MayAbort THEN {"RAISED"} ELSE {}) :
          futures' = [futures EXCEPT ![id].state = s]
    /\ UNCHANGED <<bridgeVars, runner, records>>

Ended == runner.at \in {"WRITTEN", "RAISED"}

BridgeStep == Bridge /\ UNCHANGED runnerVars

Next == BridgeStep \/ Runner \/ \E id \in Ids : Evaluate(id)

Spec == Init /\ [][Next]_vars

\* Both processes run, and an evaluation ends: that is assumed of the external
\* evaluator, for the runner sets no timeout of its own and would wait for ever.
FairSpec == Spec /\ WF_vars(BridgeStep) /\ WF_vars(Runner)
                 /\ \A id \in Ids : WF_vars(Evaluate(id))

\* the ledger that main writes; its failure count and its method are derived from
\* the same rows and arguments as the audit derives them
Document == [rows |-> records, peak |-> runner.peak]

\* check_row of the audit, for the budget of the run: every candidate once, a
\* completion order that is a permutation, eight evaluations at a time, a value
\* where there is no failure and none where there is one
AuditAccepts(document) ==
    /\ Len(document.rows) = Budget
    /\ {document.rows[i].id : i \in DOMAIN document.rows} = Ids
    /\ \A i \in DOMAIN document.rows :
          document.rows[i].status = "ok" <=> document.rows[i].value # NoValue
    /\ document.peak = Workers

-----------------------------------------------------------------------------
RowType == [id : Ids, point : 1..Budget, answer : 0..Budget,
            status : {"ok", "failed"}, value : Int]

RunnerType ==
    /\ runner \in [at : {"LOOP", "COMPLETE", "JOIN", "REAP", "RETURNED", "WRITTEN", "RAISED"},
                   dispatched : 0..Budget, pending : SUBSET Ids, peak : 0..Workers,
                   why : {"", "EOF", "EVALUATION", "BROKEN_PIPE", "CHECKOUT"}]
    /\ futures \in [Ids -> [state : {"NONE", "RUNNING", "VALUE", "FAIL", "RAISED"},
                            point : 0..Budget]]
    /\ \A i \in DOMAIN records : records[i] \in RowType

\* The two loops decide by their own counters what comes next on the pipes, and
\* never disagree: no line is met where another was expected and no result
\* bears an unknown id.
NeverSurprised == ~UnknownId /\ ~UnexpectedLine

\* While both run, every slot of the bridge is one candidate somewhere: asked and
\* not yet read, under evaluation, or answered and not yet told.
SlotsAreInFlight ==
    ~BridgeGone /\ runner.at \in {"LOOP", "COMPLETE"} =>
        /\ UsedIds = runner.pending \cup {toRunner[i].id : i \in AsksInPipe}
                     \cup {toBridge[i].id : i \in DOMAIN toBridge}
        /\ PendingCount = Cardinality(runner.pending) + Cardinality(AsksInPipe)
                          + Len(toBridge)
        /\ bridge.dispatched = runner.dispatched + Cardinality(AsksInPipe)

\* The bridge and the runner stay in step over the pipes: neither meets a line it
\* does not expect, and each slot of the bridge is one candidate in flight.
LockStep == BridgeType /\ RunnerType /\ NeverSurprised /\ SlotsAreInFlight

\* Whatever order the evaluations finish in, the driver is told each point at
\* most once and with the value measured at that very point.
ToldUnderItsOwnPoint ==
    /\ \A i \in DOMAIN told : told[i].answer \in {told[i].point, 0}
    /\ Cardinality({told[i].point : i \in DOMAIN told}) = Len(told)

\* A run ends the way it deserves.  It writes its ledger only when the driver has been
\* told every point of the budget; it raises only when the driver refused a call,
\* an evaluation raised or a source checkout changed, whatever order things happened
\* in; and no evaluator thread and no bridge process outlives it.
EndsAsItDeserves ==
    /\ bridge.at = "EXITED" => Len(told) = Budget
    /\ runner.at = "WRITTEN" => bridge.at = "EXITED" /\ toBridge = <<>>
    /\ runner.at = "RAISED" =>
          \/ bridge.why \in {"ASK", "TELL"} \/ runner.why = "CHECKOUT"
          \/ \E id \in Ids : futures[id].state = "RAISED"
    /\ Ended => Running = {} /\ BridgeGone

\* The ledger of a finished run passes the audit if and only if the budget keeps all
\* workers busy once; its rows in completion order are what the driver was told, in
\* the order it was told, and the value recorded in each is that of the same
\* evaluation.
LedgerIsAudited ==
    runner.at = "WRITTEN" =>
        /\ AuditAccepts(Document) <=> Workers <= Budget
        /\ told = [i \in DOMAIN records |-> [point |-> records[i].point,
                                           answer |-> records[i].answer]]
        /\ \A i \in DOMAIN records :
              records[i].value = IF told[i].answer = 0 THEN NoValue
                                 ELSE MinimizedAt(told[i].point)

\* The run ends, with a ledger or with an exception: the two processes never wait
\* for each other for ever.
RunEnds == <>Ended

\* The bridge implements the ledger of evaluations: each settled once, as a value
\* or as a failure, each charged once.
Ledger == INSTANCE TaskLedger WITH
    Costs <- {1},
    outstanding <- PendingCount,
    done <- Cardinality({i \in DOMAIN told : told[i].answer # 0}),
    dropped <- Cardinality({i \in DOMAIN told : told[i].answer = 0}),
    spent <- bridge.completed
RunImplementsLedger == Ledger!LedgerSpec
=============================================================================
