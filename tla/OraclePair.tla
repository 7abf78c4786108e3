----------------------------- MODULE OraclePair -----------------------------
(***************************************************************************)
(* One oracle pair of the B5 benchmark, scripts/run_b5_oracle_pair.py: the *)
(* original control and FortBO run side by side, each child watched by a   *)
(* thread; a failure of one is to stop the other.  The pair document is    *)
(* compared by scripts/check_oracle_pair.py.                               *)
(*                                                                         *)
(* A child may start one worker process outside its process group, may end *)
(* well or badly at any step, and may ignore SIGTERM; so may its worker.   *)
(* A child never ends on its own account unless it chooses to.             *)
(***************************************************************************)
EXTENDS FiniteSets

CONSTANTS
    SystemFails         \* may a file, a process or the process table be refused

ASSUME PairAssumption == SystemFails \in BOOLEAN

VARIABLES
    main,       \* at, errors by side, documents read, digests taken, why refused
    thread,     \* _run_process for each side: at, why it raised, worker seen
    child,      \* NONE, RUNNING, or how it ended
    worker,     \* the child's own worker process
    output,     \* the child's ledger on disk
    abort       \* the shared event

vars == <<main, thread, child, worker, output, abort>>

Sides == {"original", "fortbo"}
Nothing == [s \in Sides |-> "NONE"]

Init ==
    /\ main = [at |-> "PREFLIGHT", errors |-> {}, document |-> Nothing, digest |-> Nothing,
               why |-> ""]
    /\ thread = [s \in Sides |-> [at |-> "IDLE", why |-> "", seen |-> FALSE]]
    /\ child = Nothing /\ worker = Nothing /\ output = Nothing
    /\ abort = FALSE
-----------------------------------------------------------------------------
\* The children.
\* Path.write_text is not atomic: the file is there before it can be read.
WritesLedger(s) ==
    /\ child[s] = "RUNNING"
    /\ \/ output[s] = "NONE" /\ output' = [output EXCEPT ![s] = "PARTIAL"]
       \/ output[s] = "PARTIAL" /\ output' = [output EXCEPT ![s] = "PASSED"]
       \/ s = "original" /\ output[s] = "PARTIAL" /\ output' = [output EXCEPT ![s] = "UNPASSED"]
    /\ UNCHANGED <<main, thread, child, worker, abort>>

\* FortBO's runner returns only after its ledger is written
Exits(s) ==
    /\ child[s] = "RUNNING"
    /\ \/ child' = [child EXCEPT ![s] = "FAILED"]
       \/ /\ s = "fortbo" => output[s] = "PASSED"
          /\ output[s] # "PARTIAL"
          /\ child' = [child EXCEPT ![s] = "OK"]
    /\ UNCHANGED <<main, thread, worker, output, abort>>

Spawns(s) ==
    /\ child[s] = "RUNNING" /\ worker[s] = "NONE"
    /\ worker' = [worker EXCEPT ![s] = "RUNNING"]
    /\ UNCHANGED <<main, thread, child, output, abort>>

WorkerEnds(s) ==
    /\ worker[s] = "RUNNING"
    /\ worker' = [worker EXCEPT ![s] = "GONE"]
    /\ UNCHANGED <<main, thread, child, output, abort>>

Child(s) == WritesLedger(s) \/ Exits(s) \/ Spawns(s) \/ WorkerEnds(s)
-----------------------------------------------------------------------------
\* _run_process in the thread of each side.
Raises(s, why) == [thread EXCEPT ![s].at = "RAISED", ![s].why = why]

Starts(s) ==
    /\ thread[s].at = "START"
    /\ \/ /\ thread' = [thread EXCEPT ![s].at = "POLL"]
          /\ child' = [child EXCEPT ![s] = "RUNNING"]
       \/ /\ SystemFails
          /\ thread' = Raises(s, "START") /\ UNCHANGED child
    /\ UNCHANGED <<main, worker, output, abort>>

\* mutant: a child that failed does not abort the pair
NeverAborts(s) == abort
AbortsIfFailed(s) == abort \/ child[s] # "OK"

SeesExit(s) ==
    /\ thread[s].at = "POLL" /\ child[s] # "RUNNING"
    /\ abort' = AbortsIfFailed(s)
    /\ thread' = IF child[s] = "OK" THEN [thread EXCEPT ![s].at = "RETURNED"]
                 ELSE Raises(s, "EXIT")
    /\ UNCHANGED <<main, child, worker, output>>

Terminating(s, why) == [thread EXCEPT ![s].at = "TERMINATE", ![s].why = why]

SeesLowDisk(s) ==
    /\ thread[s].at = "POLL" /\ child[s] = "RUNNING"
    /\ abort' = TRUE
    /\ thread' = Terminating(s, "DISK")
    /\ UNCHANGED <<main, child, worker, output>>

SeesAbort(s) ==
    /\ thread[s].at = "POLL" /\ child[s] = "RUNNING" /\ abort
    /\ thread' = Terminating(s, "ABORT")
    /\ UNCHANGED <<main, child, worker, output, abort>>

\* disk_usage raises: nobody ends the child
PollFails(s) ==
    /\ thread[s].at = "POLL" /\ child[s] = "RUNNING" /\ SystemFails
    /\ thread' = Raises(s, "POLL")
    /\ UNCHANGED <<main, child, worker, output, abort>>

\* _descendant_pids: the worker processes that run now; none if ps cannot be run
TakesSnapshot(s) ==
    /\ thread[s].at = "TERMINATE"
    /\ \E seen \in {worker[s] = "RUNNING"} \cup (IF SystemFails THEN {FALSE} ELSE {}) :
          thread' = [thread EXCEPT ![s].at = "SIGNAL", ![s].seen = seen]
    /\ UNCHANGED <<main, child, worker, output, abort>>

\* SIGTERM to the workers seen and to the child's group; each may ignore it
Signals(s) ==
    /\ thread[s].at = "SIGNAL"
    /\ thread' = [thread EXCEPT ![s].at = "WAIT"]
    /\ child' \in {child} \cup (IF child[s] = "RUNNING"
                                THEN {[child EXCEPT ![s] = "TERMINATED"]} ELSE {})
    /\ worker' \in {worker} \cup (IF thread[s].seen /\ worker[s] = "RUNNING"
                                  THEN {[worker EXCEPT ![s] = "GONE"]} ELSE {})
    /\ UNCHANGED <<main, output, abort>>

\* mutant: the child is not killed when it has ignored SIGTERM
LeftAlone(s) == child
Killed(s) == [child EXCEPT ![s] = "KILLED"]

\* the child has ended within its time
StopsInTime(s) ==
    /\ thread[s].at = "WAIT" /\ child[s] # "RUNNING"
    /\ thread' = [thread EXCEPT ![s].at = "RAISED"]
    /\ UNCHANGED <<main, child, worker, output, abort>>

\* or SIGKILL, to it and to the workers seen
TimesOut(s) ==
    /\ thread[s].at = "WAIT" /\ child[s] = "RUNNING"
    /\ child' = Killed(s)
    /\ worker' = IF thread[s].seen THEN [worker EXCEPT ![s] = "GONE"] ELSE worker
    /\ thread' = [thread EXCEPT ![s].at = "RAISED"]
    /\ UNCHANGED <<main, output, abort>>

Watches(s) ==
    \/ Starts(s) \/ SeesExit(s) \/ SeesAbort(s)
    \/ TakesSnapshot(s) \/ Signals(s) \/ StopsInTime(s) \/ TimesOut(s)

RunProcess(s) == Watches(s) \/ SeesLowDisk(s) \/ PollFails(s)
-----------------------------------------------------------------------------
\* The main thread.
Refused(why) == [main EXCEPT !.at = "REFUSED", !.why = why]

\* outputs outside the checkouts and new, checkouts, interpreters and fo usable
Preflight ==
    /\ main.at = "PREFLIGHT"
    /\ \/ /\ main' = [main EXCEPT !.at = "ORIGINAL"]
          /\ thread' = [s \in Sides |-> [thread[s] EXCEPT !.at = "START"]]
       \/ main' = Refused("PREFLIGHT") /\ UNCHANGED thread
    /\ UNCHANGED <<child, worker, output, abort>>

\* mutant: the error of the side joined last replaces the other
OnlyLast(s) == {s}
Noted(s) == main.errors \cup {s}

\* future.result() of the original first, then of FortBO
Joins(s, at, next) ==
    /\ main.at = at /\ thread[s].at \in {"RETURNED", "RAISED"}
    /\ LET raised == thread[s].at = "RAISED"
       IN  /\ abort' = (abort \/ raised)
           /\ main' = [main EXCEPT !.at = next,
                         !.errors = IF raised THEN Noted(s) ELSE @]
    /\ UNCHANGED <<thread, child, worker, output>>

JoinsOriginal == Joins("original", "ORIGINAL", "FORTBO")
JoinsFortbo == Joins("fortbo", "FORTBO", "LOAD")

Unparsable == {s \in Sides : output[s] = "PARTIAL"}

\* _load_result of each side that left a file: it cannot be parsed, or it cannot be read
Loads ==
    /\ main.at = "LOAD"
    /\ \/ main' = IF Unparsable # {} THEN Refused("UNPARSED")
                  ELSE [main EXCEPT !.at = "RECORD", !.document = output]
       \/ /\ SystemFails /\ \E s \in Sides : output[s] # "NONE"
          /\ main' = Refused("UNREAD")
    /\ UNCHANGED <<thread, child, worker, output, abort>>

\* The digests are taken from the files again, not from the documents that were read.
Records ==
    /\ main.at = "RECORD"
    /\ \/ main' = [main EXCEPT !.at = "WRITTEN", !.digest = output]
       \/ SystemFails /\ main' = Refused("RECORD")
    /\ UNCHANGED <<thread, child, worker, output, abort>>

Main == Preflight \/ JoinsOriginal \/ JoinsFortbo \/ Loads \/ Records

Next == Main \/ \E s \in Sides : RunProcess(s) \/ Child(s)

Spec == Init /\ [][Next]_vars

\* The launcher's threads run.  Nothing is assumed of the children, whose evaluations
\* may take for ever, nor that the disk ever fills up or fails.
FairSpec == Spec /\ WF_vars(Main) /\ \A s \in Sides : WF_vars(Watches(s))
-----------------------------------------------------------------------------
Ended == main.at \in {"WRITTEN", "REFUSED"}

\* mutant: complete without a look at the ledgers
NoErrors == main.errors = {}
\* _ledgers_passed, return codes and errors
Complete == main.errors = {} /\ \A s \in Sides : main.document[s] = "PASSED"

\* check of check_oracle_pair.py, all but what it compares of the data of two passed
\* ledgers: complete, both files there, unchanged and passed
CheckAccepts ==
    /\ Complete
    /\ \A s \in Sides : output[s] = main.digest[s] /\ output[s] = "PASSED"

\* A pair that is recorded as complete is one: both children ended well, both ledgers
\* were passed, and the check accepts the document then and ever after, because
\* nothing is left that could still write.
CompletePairsAreComparable ==
    main.at = "WRITTEN" /\ Complete =>
        CheckAccepts /\ \A s \in Sides : child[s] = "OK"

\* "preserve both sides of an aborted pair": the document names every side that
\* failed; and a pair that ends without its document because a ledger cannot be parsed
\* has a side that failed and left one.
FailedPairsAreRecorded ==
    /\ main.at = "WRITTEN" =>
          \A s \in Sides : s \in main.errors <=> thread[s].at = "RAISED"
    /\ main.why = "UNPARSED" => \E s \in main.errors : output[s] # "NONE"

Threads == [at : {"IDLE", "START", "POLL", "TERMINATE", "SIGNAL", "WAIT", "RETURNED", "RAISED"},
            why : {"", "START", "POLL", "EXIT", "DISK", "ABORT"}, seen : BOOLEAN]
Ledgers == {"NONE", "PARTIAL", "PASSED", "UNPASSED"}

\* The threads, the children, their ledgers and the document.
TypeOK ==
    /\ main \in [at : {"PREFLIGHT", "ORIGINAL", "FORTBO", "LOAD", "RECORD", "WRITTEN",
                       "REFUSED"},
                 errors : SUBSET Sides, document : [Sides -> Ledgers],
                 digest : [Sides -> Ledgers],
                 why : {"", "PREFLIGHT", "UNPARSED", "UNREAD", "RECORD"}]
    /\ abort \in BOOLEAN
    /\ thread \in [Sides -> Threads]
    /\ child \in [Sides -> {"NONE", "RUNNING", "OK", "FAILED", "TERMINATED", "KILLED"}]
    /\ worker \in [Sides -> {"NONE", "RUNNING", "GONE"}]
    /\ output \in [Sides -> Ledgers]

\* No child outlives the pair, unless the launcher lost sight of it when the disk could
\* not be read; and a child that had to be killed takes every worker that the launcher
\* saw with it.
NothingOutlivesThePair ==
    TypeOK /\ (Ended => \A s \in Sides :
        /\ child[s] = "RUNNING" => thread[s].why = "POLL"
        /\ child[s] = "KILLED" /\ thread[s].seen => worker[s] # "RUNNING")

\* Once the pair is aborted, the original has failed or FortBO has exited badly, the run
\* ends with its document or a refusal however long the children would run: a side
\* that ignores SIGTERM is killed.
FailureEndsThePair ==
    (abort \/ thread["original"].at = "RAISED" \/ thread["fortbo"].why = "EXIT") ~> Ended
=============================================================================
