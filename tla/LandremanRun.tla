---------------------------- MODULE LandremanRun ----------------------------
(***************************************************************************)
(* The Landreman run, scripts/run_landreman_fortbo.py: rank zero (manager) *)
(* drives the bridge of CompletionBridge and hands its candidates to MPI   *)
(* worker ranks, each with an objective of its own; the ledger it writes   *)
(* is audited by scripts/check_landreman_fortbo.py.                        *)
(*                                                                         *)
(* Messages between two ranks arrive in order, and a send of a candidate   *)
(* or a result does not wait for its receiver.  Rank zero alone calls      *)
(* Barrier, which MPI leaves undefined: it returns, or blocks for ever.    *)
(***************************************************************************)
EXTENDS CompletionBridge, SequencesExt

ASSUME RunAssumption == Initial <= Budget

VARIABLES
    manager,    \* at, process started, dispatched, pending [id, point], idle, why, pinned
    rank,       \* the worker ranks: at, id and point in evaluation
    work,       \* messages to each worker
    results,    \* results sent to rank zero and not yet received
    ledger      \* rows of the ledger in completion order

rankVars == <<manager, rank, work, results, ledger>>
runVars == <<bridgeVars, rankVars>>

Ranks == 1..Workers
WORK(id, point) == [tag |-> "WORK", id |-> id, point |-> point]
STOP == [tag |-> "STOP"]

RunInit ==
    /\ BridgeInit
    /\ manager = [at |-> "BARRIER", process |-> FALSE, dispatched |-> 0, pending |-> {},
                  idle |-> Ranks, why |-> "", pinned |-> FALSE]
    /\ rank = [w \in Ranks |-> [at |-> "BUILDING", id |-> -1, point |-> 0]]
    /\ work = [w \in Ranks |-> <<>>]
    /\ results = {} /\ ledger = <<>>

\* mutant: the last rank is forgotten
StoppedButLast == [w \in Ranks |-> IF w = Workers /\ Workers > 1 THEN work[w]
                                   ELSE Append(work[w], STOP)]
\* _stop_workers
Stopped == [w \in Ranks |-> Append(work[w], STOP)]

Raised(why) == [manager EXCEPT !.at = "RAISED", !.why = why]
-----------------------------------------------------------------------------
\* Starting: barrier, scratch directory, the workers' objectives, the bridge.
Barrier ==
    /\ manager.at = "BARRIER"
    /\ \E at \in {"SCRATCH", "BLOCKED"} : manager' = [manager EXCEPT !.at = at]
    /\ UNCHANGED <<bridgeVars, rank, work, results, ledger>>

MakesScratch ==
    /\ manager.at = "SCRATCH"
    /\ \/ manager' = [manager EXCEPT !.at = "GATHER"]
       \/ MayAbort /\ manager' = Raised("SCRATCH")
    /\ UNCHANGED <<bridgeVars, rank, work, results, ledger>>

Builds(w) ==
    /\ rank[w].at = "BUILDING"
    /\ \E at \in {"BUILT"} \cup (IF MayAbort THEN {"UNBUILT"} ELSE {}) :
          rank' = [rank EXCEPT ![w].at = at]
    /\ UNCHANGED <<bridgeVars, manager, work, results, ledger>>

\* allgather of the initialization errors; one error sends every rank home
AllGather ==
    /\ manager.at = "GATHER"
    /\ \A w \in Ranks : rank[w].at \in {"BUILT", "UNBUILT"}
    /\ LET failed == \E w \in Ranks : rank[w].at = "UNBUILT"
       IN  /\ rank' = [w \in Ranks |-> [rank[w] EXCEPT !.at = IF failed THEN "ENDED"
                                                              ELSE "READY"]]
           /\ manager' = IF failed THEN Raised("INITIALIZATION")
                         ELSE [manager EXCEPT !.at = "START"]
    /\ UNCHANGED <<bridgeVars, work, results, ledger>>

StartsBridge ==
    /\ manager.at = "START"
    /\ manager' = [manager EXCEPT !.at = "LOOP", !.process = TRUE]
    /\ UNCHANGED <<bridgeVars, rank, work, results, ledger>>

\* the log cannot be opened: nobody stops the workers; Popen fails: they are stopped
StartFails ==
    /\ manager.at = "START" /\ MayAbort
    /\ \/ manager' = Raised("STDERR") /\ work' = work
       \/ manager' = Raised("POPEN") /\ work' = Stopped
    /\ UNCHANGED <<bridgeVars, rank, results, ledger>>
-----------------------------------------------------------------------------
\* The loop of rank zero.
PendingIds == {p.id : p \in manager.pending}
WantsCandidate == manager.dispatched < Budget /\ Cardinality(manager.pending) < Workers

\* mutant: the rank is not taken off the idle list
StillIdle(w) == manager.idle
Busied(w) == manager.idle \ {w}

TakesAsk ==
    /\ manager.at = "LOOP" /\ WantsCandidate
    /\ NextLineIs("ASK") /\ Head(toRunner).id = manager.dispatched /\ manager.idle # {}
    /\ LET ask == Head(toRunner)
           w == CHOOSE v \in manager.idle : \A u \in manager.idle : v <= u
       IN  /\ manager' = [manager EXCEPT !.dispatched = @ + 1, !.idle = Busied(w),
                            !.pending = @ \cup {[id |-> ask.id, point |-> ask.point]}]
           /\ work' = [work EXCEPT ![w] = Append(@, WORK(ask.id, ask.point))]
    /\ toRunner' = Tail(toRunner)
    /\ UNCHANGED <<bridge, slots, toBridge, stdinClosed, told, rank, results, ledger>>

TakesWait ==
    /\ manager.at = "LOOP" /\ WantsCandidate
    /\ NextLineIs("WAIT") /\ manager.pending # {}
    /\ manager' = [manager EXCEPT !.at = "COMPLETE"]
    /\ toRunner' = Tail(toRunner)
    /\ UNCHANGED <<bridge, slots, toBridge, stdinClosed, told, rank, work, results, ledger>>

AwaitsResult ==
    /\ manager.at = "LOOP" /\ ~WantsCandidate /\ manager.pending # {}
    /\ manager' = [manager EXCEPT !.at = "COMPLETE"]
    /\ UNCHANGED <<bridgeVars, rank, work, results, ledger>>

\* the errors of a line or a result the loop does not expect; RanksInStep shows that
\* there is never one, so they have no action
Surprised ==
    \/ /\ manager.at = "LOOP" /\ WantsCandidate
       /\ \/ NextLineIs("ASK") /\ (Head(toRunner).id # manager.dispatched \/ manager.idle = {})
          \/ NextLineIs("WAIT") /\ manager.pending = {}
          \/ NextLineIs("DONE")
    \/ /\ manager.at = "LOOP" /\ ~WantsCandidate /\ manager.pending = {}
       /\ NextLineIs("ASK") \/ NextLineIs("WAIT")
    \/ \E r \in results : r.id \notin PendingIds

PointOf(id) == (CHOOSE p \in manager.pending : p.id = id).point

\* mutant: the point of the oldest pending candidate
OldestPoint(id) == (CHOOSE p \in manager.pending : \A q \in manager.pending : p.id <= q.id).point
RowPoint(id) == PointOf(id)

\* _complete_one: any result that has arrived; its rank is idle again even if the
\* answer cannot be written
Received(r) == [manager EXCEPT !.pending = {p \in @ : p.id # r.id}, !.idle = @ \cup {r.rank}]

CompletesOne(r) ==
    /\ manager.at = "COMPLETE" /\ r.id \in PendingIds /\ ~BridgeGone
    /\ results' = results \ {r}
    /\ manager' = [Received(r) EXCEPT !.at = "LOOP"]
    /\ toBridge' = Append(toBridge, [id |-> r.id, answer |-> r.answer])
    /\ ledger' = Append(ledger, [id |-> r.id, point |-> RowPoint(r.id),
                                   answer |-> r.answer, rank |-> r.rank])
    /\ UNCHANGED <<bridge, slots, toRunner, stdinClosed, told, rank, work>>

\* The exceptions of the loop kill the bridge, which is gone already in each of them.
BrokenPipe(r) ==
    /\ manager.at = "COMPLETE" /\ r.id \in PendingIds /\ BridgeGone
    /\ results' = results \ {r}
    /\ manager' = [Received(r) EXCEPT !.at = "CLOSE", !.why = "BROKEN_PIPE"]
    /\ UNCHANGED <<bridgeVars, rank, work, ledger>>

EndOfOutput ==
    /\ manager.at = "LOOP" /\ (WantsCandidate \/ manager.pending = {})
    /\ toRunner = <<>> /\ BridgeGone
    /\ manager' = [manager EXCEPT !.at = "CLOSE", !.why = "EOF"]
    /\ UNCHANGED <<bridgeVars, rank, work, results, ledger>>

TakesDone ==
    /\ manager.at = "LOOP" /\ ~WantsCandidate /\ manager.pending = {} /\ NextLineIs("DONE")
    /\ manager' = [manager EXCEPT !.at = "CLOSE"]
    /\ toRunner' = Tail(toRunner)
    /\ UNCHANGED <<bridge, slots, toBridge, stdinClosed, told, rank, work, results, ledger>>
-----------------------------------------------------------------------------
\* The finally block and the document.
\* What a broken pipe left in the buffer makes the close raise again: the rest of the
\* block, which stops the workers, is skipped.
ClosesStdin ==
    /\ manager.at = "CLOSE"
    /\ stdinClosed' = TRUE
    /\ manager' = [manager EXCEPT !.at = IF manager.why = "BROKEN_PIPE" THEN "RAISED" ELSE "REAP"]
    /\ UNCHANGED <<bridge, slots, toRunner, toBridge, told, rank, work, results, ledger>>

ReapsAndStops ==
    /\ manager.at = "REAP" /\ BridgeGone
    /\ work' = Stopped
    /\ manager' = [manager EXCEPT !.at =
                     IF /\ manager.why = "" /\ bridge.at = "EXITED"
                        /\ manager.dispatched = Budget /\ Len(ledger) = Budget
                     THEN "DOCUMENT" ELSE "RAISED"]
    /\ UNCHANGED <<bridgeVars, rank, results, ledger>>

\* The document holds what revision of alpha_opt and digest of the archive are known: a
\* tree unpacked from the archive is no checkout, and the archive is an option.
Documents ==
    /\ manager.at = "DOCUMENT"
    /\ \E pinned \in BOOLEAN :
          manager' = [manager EXCEPT !.at = "WRITTEN", !.pinned = pinned]
    /\ UNCHANGED <<bridgeVars, rank, work, results, ledger>>

\* a dirty checkout or a document that has appeared since is found out only now
DocumentFails ==
    /\ manager.at = "DOCUMENT" /\ MayAbort
    /\ manager' = Raised("DOCUMENT")
    /\ UNCHANGED <<bridgeVars, rank, work, results, ledger>>

Manager ==
    \/ Barrier \/ MakesScratch \/ StartsBridge \/ StartFails
    \/ TakesAsk \/ TakesWait \/ AwaitsResult \/ EndOfOutput \/ TakesDone
    \/ \E r \in results : CompletesOne(r) \/ BrokenPipe(r)
    \/ ClosesStdin \/ ReapsAndStops \/ Documents \/ DocumentFails
-----------------------------------------------------------------------------
\* A worker rank.
TakesWork(w) ==
    /\ rank[w].at = "READY" /\ work[w] # <<>> /\ Head(work[w]).tag = "WORK"
    /\ rank' = [rank EXCEPT ![w] = [at |-> "BUSY", id |-> Head(work[w]).id,
                                    point |-> Head(work[w]).point]]
    /\ work' = [work EXCEPT ![w] = Tail(@)]
    /\ UNCHANGED <<bridgeVars, manager, results, ledger>>

\* the directory of an evaluation is made outside the try: the rank leaves its loop
Leaves(w) ==
    /\ rank[w].at = "BUSY" /\ MayAbort
    /\ rank' = [rank EXCEPT ![w].at = "LEFT"]
    /\ UNCHANGED <<bridgeVars, manager, work, results, ledger>>

\* a value, or any exception of the objective as a failure
Evaluates(w) ==
    /\ rank[w].at = "BUSY"
    /\ \E answer \in {rank[w].point, 0} :
          results' = results \cup {[rank |-> w, id |-> rank[w].id, answer |-> answer]}
    /\ rank' = [rank EXCEPT ![w].at = "READY"]
    /\ UNCHANGED <<bridgeVars, manager, work, ledger>>

TakesStop(w) ==
    /\ rank[w].at = "READY" /\ work[w] # <<>> /\ Head(work[w]).tag = "STOP"
    /\ rank' = [rank EXCEPT ![w].at = "ENDED"]
    /\ work' = [work EXCEPT ![w] = Tail(@)]
    /\ UNCHANGED <<bridgeVars, manager, results, ledger>>

Worker(w) == Builds(w) \/ TakesWork(w) \/ Leaves(w) \/ Evaluates(w) \/ TakesStop(w)

RunBridgeStep == manager.process /\ Bridge /\ UNCHANGED rankVars

RunNext == RunBridgeStep \/ Manager \/ AllGather \/ \E w \in Ranks : Worker(w)

RunSpec == RunInit /\ [][RunNext]_runVars

\* Every process runs, and an evaluation ends: the job has no timeout of its own.
FairRunSpec == RunSpec /\ WF_runVars(RunBridgeStep) /\ WF_runVars(Manager)
                       /\ WF_runVars(AllGather)
                       /\ \A w \in Ranks : WF_runVars(Worker(w))
-----------------------------------------------------------------------------
\* check of check_landreman_fortbo.py on the document of a written ledger
CheckAccepts(rows, pinned) ==
    /\ pinned
    /\ Len(rows) = Budget /\ {rows[i].id : i \in DOMAIN rows} = Ids
    /\ \A i \in DOMAIN rows : rows[i].rank \in Ranks

ManagerType ==
    manager \in [at : {"BARRIER", "BLOCKED", "SCRATCH", "GATHER", "START", "LOOP",
                      "COMPLETE", "CLOSE", "REAP", "DOCUMENT", "WRITTEN", "RAISED"},
                process : BOOLEAN, dispatched : 0..Budget,
                pending : SUBSET [id : Ids, point : 1..Budget], idle : SUBSET Ranks,
                why : {"", "SCRATCH", "INITIALIZATION", "STDERR", "POPEN", "EOF",
                       "BROKEN_PIPE", "DOCUMENT"}, pinned : BOOLEAN]

RunType ==
    /\ ManagerType
    /\ \A w \in Ranks : rank[w].at \in {"BUILDING", "BUILT", "UNBUILT", "READY", "BUSY",
                                       "ENDED", "LEFT"}

\* where a candidate given to rank w is: on its way, in evaluation, or answered
AtRank(w) ==
    {work[w][i].id : i \in {j \in DOMAIN work[w] : work[w][j].tag = "WORK"}}
        \cup (IF rank[w].at \in {"BUSY", "LEFT"} THEN {rank[w].id} ELSE {})
        \cup {r.id : r \in {s \in results : s.rank = w}}

\* While rank zero is in its loop, every rank is either on the idle list with nothing
\* in its hands or holds exactly one pending candidate, and neither the bridge nor
\* rank zero ever meets a line or a result it does not expect.
RanksInStep ==
    /\ RunType /\ BridgeType
    /\ ~Surprised /\ ~UnknownId
    /\ manager.at \in {"LOOP", "COMPLETE"} =>
          /\ \A w \in Ranks : Cardinality(AtRank(w)) = IF w \in manager.idle THEN 0 ELSE 1
          /\ UNION {AtRank(w) : w \in Ranks} = PendingIds
          /\ Cardinality(PendingIds) = Workers - Cardinality(manager.idle)

\* The driver is told what the ledger records, in the order it records it and never
\* more; every row has the value of its own point or none; and a ledger that is written
\* passes the audit if the two revisions are known, and only then.
LedgerIsWhatWasTold ==
    /\ IsPrefix(told, [i \in DOMAIN ledger |-> [point |-> ledger[i].point,
                                                answer |-> ledger[i].answer]])
    /\ \A i \in DOMAIN ledger : ledger[i].answer \in {0, ledger[i].point}
    /\ manager.at = "WRITTEN" =>
          /\ Len(told) = Budget
          /\ CheckAccepts(ledger, manager.pinned) <=> manager.pinned

\* the faults after which the code leaves some rank waiting for ever
Stranded ==
    \/ manager.at = "BLOCKED"
    \/ manager.why \in {"SCRATCH", "STDERR", "BROKEN_PIPE"}
    \/ \E w \in Ranks : rank[w].at = "LEFT"

\* Every rank ends, with a ledger or without: after a failed initialization, a bridge
\* that cannot be started or stops, failed evaluations and a document that cannot be
\* written, all but the faults named in Stranded.
EveryRankEnds ==
    <>(Stranded \/ /\ manager.at \in {"WRITTEN", "RAISED"}
                   /\ \A w \in Ranks : rank[w].at = "ENDED")
=============================================================================
