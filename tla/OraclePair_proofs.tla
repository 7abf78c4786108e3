------------------------- MODULE OraclePair_proofs -------------------------
(***************************************************************************)
(* A complete pair is comparable and stays so, a failed one names every    *)
(* side that failed, and no child outlives the launcher that still sees    *)
(* it: for every interleaving of the two threads with their children.      *)
(***************************************************************************)
EXTENDS OraclePair, TLAPS

\* What the thread of a side knows of its child, and the child of its ledger.
ThreadKnows(s) ==
    /\ thread[s].at \in {"IDLE", "START"} => child[s] = "NONE"
    /\ child[s] = "NONE" => output[s] = "NONE"
    /\ thread[s].at = "RETURNED" => child[s] = "OK"
    /\ child[s] = "OK" => output[s] # "PARTIAL"
    /\ thread[s].at = "RAISED" /\ child[s] = "RUNNING" => thread[s].why = "POLL"
    /\ child[s] = "KILLED" => /\ thread[s].at = "RAISED"
                              /\ thread[s].seen => worker[s] # "RUNNING"

Joined(s) == /\ thread[s].at \in {"RETURNED", "RAISED"}
             /\ s \in main.errors <=> thread[s].at = "RAISED"

\* What the main thread has joined so far, and what it has read from disk.
MainKnows ==
    /\ main.at = "PREFLIGHT" => \A s \in Sides : thread[s].at = "IDLE"
    /\ main.at \in {"PREFLIGHT", "ORIGINAL"} => main.errors = {}
    /\ main.at = "FORTBO" => Joined("original") /\ "fortbo" \notin main.errors
    /\ main.at \in {"LOAD", "RECORD", "WRITTEN"} => \A s \in Sides : Joined(s)
    /\ main.at = "REFUSED" =>
          (\A s \in Sides : thread[s].at = "IDLE") \/ (\A s \in Sides : Joined(s))
    /\ main.at \in {"RECORD", "WRITTEN"} /\ main.errors = {} => main.document = output
    /\ main.at = "WRITTEN" /\ main.errors = {} => main.digest = output
    /\ main.why = "UNPARSED" =>
          main.at = "REFUSED" /\ \E s \in main.errors : output[s] # "NONE"

IInv == TypeOK /\ (\A s \in Sides : ThreadKnows(s)) /\ MainKnows

\* A pair that has not begun satisfies the invariant.
LEMMA InitInv == Init => IInv
<1> SUFFICES ASSUME Init PROVE IInv
  OBVIOUS
<1>1. TypeOK
  <2>1. /\ Nothing \in [Sides -> Ledgers] /\ child = Nothing /\ worker = Nothing
        /\ output = Nothing
    BY DEF Init, Nothing, Ledgers
  <2>2. main \in [at : {"PREFLIGHT", "ORIGINAL", "FORTBO", "LOAD", "RECORD", "WRITTEN",
                       "REFUSED"},
                 errors : SUBSET Sides, document : [Sides -> Ledgers],
                 digest : [Sides -> Ledgers],
                 why : {"", "PREFLIGHT", "UNPARSED", "UNREAD", "RECORD"}]
    BY <2>1 DEF Init
  <2>3. thread \in [Sides -> Threads]
    BY DEF Init, Threads
  <2>4. /\ child \in [Sides -> {"NONE", "RUNNING", "OK", "FAILED", "TERMINATED", "KILLED"}]
        /\ worker \in [Sides -> {"NONE", "RUNNING", "GONE"}]
    BY <2>1 DEF Nothing
  <2>5. QED
    BY <2>1, <2>2, <2>3, <2>4 DEF Init, TypeOK
<1>2. \A s \in Sides : ThreadKnows(s)
  BY DEF Init, ThreadKnows, Nothing
<1>3. MainKnows
  BY DEF Init, MainKnows
<1>4. QED
  BY <1>1, <1>2, <1>3 DEF IInv

Ats == {"IDLE", "START", "POLL", "TERMINATE", "SIGNAL", "WAIT", "RETURNED", "RAISED"}
Whys == {"", "START", "POLL", "EXIT", "DISK", "ABORT"}

\* The record of a thread stays one when it moves.
LEMMA Moves ==
    ASSUME NEW th \in [Sides -> Threads], NEW s \in Sides, NEW at \in Ats
    PROVE  [th EXCEPT ![s].at = at] \in [Sides -> Threads]
<1> DEFINE r == [th[s] EXCEPT !.at = at]
<1>1. th[s] \in Threads
  OBVIOUS
<1>2. r \in Threads
  BY <1>1 DEF Threads, Ats
<1>3. [th EXCEPT ![s].at = at] = [th EXCEPT ![s] = r]
  OBVIOUS
<1> HIDE DEF r
<1>4. QED
  BY <1>2, <1>3

\* And when it notes why.
LEMMA MovesWhy ==
    ASSUME NEW th \in [Sides -> Threads], NEW s \in Sides, NEW at \in Ats,
           NEW why \in Whys
    PROVE  [th EXCEPT ![s].at = at, ![s].why = why] \in [Sides -> Threads]
<1> DEFINE r == [th[s] EXCEPT !.at = at, !.why = why]
<1>1. th[s] \in Threads
  OBVIOUS
<1>2. r \in Threads
  BY <1>1 DEF Threads, Ats, Whys
<1>3. [th EXCEPT ![s].at = at, ![s].why = why] = [th EXCEPT ![s] = r]
  OBVIOUS
<1> HIDE DEF r
<1>4. QED
  BY <1>2, <1>3

\* And when it notes whether a worker was seen.
LEMMA MovesSeen ==
    ASSUME NEW th \in [Sides -> Threads], NEW s \in Sides, NEW at \in Ats,
           NEW seen \in BOOLEAN
    PROVE  [th EXCEPT ![s].at = at, ![s].seen = seen] \in [Sides -> Threads]
<1> DEFINE r == [th[s] EXCEPT !.at = at, !.seen = seen]
<1>1. th[s] \in Threads
  OBVIOUS
<1>2. r \in Threads
  BY <1>1 DEF Threads, Ats
<1>3. [th EXCEPT ![s].at = at, ![s].seen = seen] = [th EXCEPT ![s] = r]
  OBVIOUS
<1> HIDE DEF r
<1>4. QED
  BY <1>2, <1>3

\* The children preserve the types.
LEMMA ChildType ==
    ASSUME TypeOK, NEW s \in Sides, Child(s)
    PROVE  TypeOK'
<1>1. CASE WritesLedger(s)
  BY <1>1 DEF TypeOK, WritesLedger, Ledgers
<1>2. CASE Exits(s)
  BY <1>2 DEF TypeOK, Exits
<1>3. CASE Spawns(s)
  BY <1>3 DEF TypeOK, Spawns
<1>4. CASE WorkerEnds(s)
  BY <1>4 DEF TypeOK, WorkerEnds
<1>5. QED
  BY <1>1, <1>2, <1>3, <1>4 DEF Child

\* The threads preserve the types.
LEMMA ThreadType ==
    ASSUME TypeOK, NEW s \in Sides, RunProcess(s)
    PROVE  TypeOK'
<1> USE DEF Ats, Whys
<1>0. thread \in [Sides -> Threads]
  BY DEF TypeOK
<1>1. CASE Starts(s)
  <2>1. CASE /\ thread' = [thread EXCEPT ![s].at = "POLL"]
             /\ child' = [child EXCEPT ![s] = "RUNNING"]
    <3>1. thread' \in [Sides -> Threads]
      BY <1>0, <2>1, Moves
    <3>2. UNCHANGED <<main, worker, output, abort>>
      BY <1>1 DEF Starts
    <3>3. QED
      BY <2>1, <3>1, <3>2 DEF TypeOK
  <2>2. CASE thread' = Raises(s, "START") /\ UNCHANGED child
    <3>1. thread' \in [Sides -> Threads]
      BY <1>0, <2>2, MovesWhy DEF Raises
    <3>2. QED
      BY <1>1, <2>2, <3>1 DEF TypeOK, Starts
  <2>3. QED
    BY <1>1, <2>1, <2>2 DEF Starts
<1>2. CASE SeesExit(s)
  <2>1. \/ thread' = [thread EXCEPT ![s].at = "RETURNED"]
        \/ thread' = [thread EXCEPT ![s].at = "RAISED", ![s].why = "EXIT"]
    BY <1>2 DEF SeesExit, Raises
  <2>2. thread' \in [Sides -> Threads]
    <3>1. CASE thread' = [thread EXCEPT ![s].at = "RETURNED"]
      BY <1>0, <3>1, Moves
    <3>2. CASE thread' = [thread EXCEPT ![s].at = "RAISED", ![s].why = "EXIT"]
      BY <1>0, <3>2, MovesWhy
    <3>3. QED
      BY <2>1, <3>1, <3>2
  <2>3. abort' \in BOOLEAN
    BY <1>2 DEF SeesExit, AbortsIfFailed, TypeOK
  <2>4. QED
    BY <1>2, <2>2, <2>3 DEF SeesExit, TypeOK
<1>3. CASE SeesAbort(s)
  <2>1. thread' = [thread EXCEPT ![s].at = "TERMINATE", ![s].why = "ABORT"]
    BY <1>3 DEF SeesAbort, Terminating
  <2>2. thread' \in [Sides -> Threads]
    BY <1>0, <2>1, MovesWhy
  <2>3. QED
    BY <1>3, <2>2 DEF SeesAbort, TypeOK
<1>4. CASE TakesSnapshot(s)
  <2>1. PICK seen \in BOOLEAN : thread' = [thread EXCEPT ![s].at = "SIGNAL", ![s].seen = seen]
    BY <1>4 DEF TakesSnapshot
  <2>2. thread' \in [Sides -> Threads]
    BY <1>0, <2>1, MovesSeen
  <2>3. QED
    BY <1>4, <2>2 DEF TakesSnapshot, TypeOK
<1>5. CASE Signals(s)
  <2>1. thread' \in [Sides -> Threads]
    <3>1. thread' = [thread EXCEPT ![s].at = "WAIT"]
      BY <1>5 DEF Signals
    <3>2. QED
      BY <1>0, <3>1, Moves
  <2>2. child' \in [Sides -> {"NONE", "RUNNING", "OK", "FAILED", "TERMINATED", "KILLED"}]
    <3>1. child' = child \/ child' = [child EXCEPT ![s] = "TERMINATED"]
      BY <1>5 DEF Signals
    <3>2. QED
      BY <3>1 DEF TypeOK
  <2>3. worker' \in [Sides -> {"NONE", "RUNNING", "GONE"}]
    <3>1. worker' = worker \/ worker' = [worker EXCEPT ![s] = "GONE"]
      BY <1>5 DEF Signals
    <3>2. QED
      BY <3>1 DEF TypeOK
  <2>4. QED
    BY <1>5, <2>1, <2>2, <2>3 DEF Signals, TypeOK
<1>6. CASE StopsInTime(s)
  <2>1. thread' \in [Sides -> Threads]
    <3>1. thread' = [thread EXCEPT ![s].at = "RAISED"]
      BY <1>6 DEF StopsInTime
    <3>2. QED
      BY <1>0, <3>1, Moves
  <2>2. QED
    BY <1>6, <2>1 DEF StopsInTime, TypeOK
<1>7. CASE TimesOut(s)
  <2>1. thread' \in [Sides -> Threads]
    <3>1. thread' = [thread EXCEPT ![s].at = "RAISED"]
      BY <1>7 DEF TimesOut
    <3>2. QED
      BY <1>0, <3>1, Moves
  <2>2. QED
    BY <1>7, <2>1 DEF TimesOut, Killed, TypeOK
<1>8. CASE SeesLowDisk(s)
  <2>1. thread' = [thread EXCEPT ![s].at = "TERMINATE", ![s].why = "DISK"]
    BY <1>8 DEF SeesLowDisk, Terminating
  <2>2. thread' \in [Sides -> Threads]
    BY <1>0, <2>1, MovesWhy
  <2>3. QED
    BY <1>8, <2>2 DEF SeesLowDisk, TypeOK
<1>9. CASE PollFails(s)
  <2>1. thread' = [thread EXCEPT ![s].at = "RAISED", ![s].why = "POLL"]
    BY <1>9 DEF PollFails, Raises
  <2>2. thread' \in [Sides -> Threads]
    BY <1>0, <2>1, MovesWhy
  <2>3. QED
    BY <1>9, <2>2 DEF PollFails, TypeOK
<1>10. QED
  BY <1>1, <1>2, <1>3, <1>4, <1>5, <1>6, <1>7, <1>8, <1>9 DEF RunProcess, Watches

\* The main thread preserves the types.
LEMMA MainType ==
    ASSUME TypeOK, Main
    PROVE  TypeOK'
<1>1. CASE Preflight
  <2>1. ASSUME NEW s \in Sides PROVE [thread[s] EXCEPT !.at = "START"] \in Threads
    <3>1. thread[s] \in Threads
      BY DEF TypeOK
    <3>2. QED
      BY <3>1 DEF Threads
  <2>2. thread' \in [Sides -> Threads]
    <3>1. CASE UNCHANGED thread
      BY <3>1 DEF TypeOK
    <3>2. CASE thread' = [s \in Sides |-> [thread[s] EXCEPT !.at = "START"]]
      BY <2>1, <3>2
    <3>3. QED
      BY <1>1, <3>1, <3>2 DEF Preflight
  <2>3. QED
    BY <1>1, <2>2 DEF Preflight, Refused, TypeOK
<1>2. CASE JoinsOriginal
  BY <1>2 DEF JoinsOriginal, Joins, Noted, Sides, TypeOK
<1>3. CASE JoinsFortbo
  BY <1>3 DEF JoinsFortbo, Joins, Noted, Sides, TypeOK
<1>4. CASE Loads
  BY <1>4 DEF Loads, Refused, TypeOK
<1>5. CASE Records
  <2>1. \/ main' = [main EXCEPT !.at = "WRITTEN", !.digest = output]
        \/ main' = [main EXCEPT !.at = "REFUSED", !.why = "RECORD"]
    BY <1>5 DEF Records, Refused
  <2>2. QED
    BY <1>5, <2>1 DEF Records, TypeOK
<1>6. QED
  BY <1>1, <1>2, <1>3, <1>4, <1>5 DEF Main

\* Every step of the launcher and of the children preserves the types.
LEMMA TypeStep == TypeOK /\ [Next]_vars => TypeOK'
<1>1. TypeOK /\ UNCHANGED vars => TypeOK'
  BY DEF vars, TypeOK
<1>2. QED
  BY <1>1, ChildType, ThreadType, MainType DEF Next
-----------------------------------------------------------------------------
\* A step that does not touch a side leaves what its thread knows true.
LEMMA Frame ==
    ASSUME NEW s \in Sides, ThreadKnows(s),
           thread'[s] = thread[s], child'[s] = child[s],
           worker'[s] = worker[s], output'[s] = output[s]
    PROVE  ThreadKnows(s)'
  BY DEF ThreadKnows

\* A step of one side leaves the other alone.
LEMMA OtherSide ==
    ASSUME TypeOK, NEW s \in Sides, RunProcess(s) \/ Child(s), NEW t \in Sides, t # s
    PROVE  /\ thread'[t] = thread[t] /\ child'[t] = child[t]
           /\ worker'[t] = worker[t] /\ output'[t] = output[t]
<1> USE DEF TypeOK
<1>1. CASE Child(s)
  BY <1>1 DEF Child, WritesLedger, Exits, Spawns, WorkerEnds
<1>2. CASE Starts(s)
  BY <1>2 DEF Starts, Raises
<1>3. CASE SeesExit(s)
  BY <1>3 DEF SeesExit, Raises
<1>4. CASE SeesAbort(s) \/ SeesLowDisk(s)
  BY <1>4 DEF SeesAbort, SeesLowDisk, Terminating
<1>5. CASE PollFails(s)
  BY <1>5 DEF PollFails, Raises
<1>6. CASE TakesSnapshot(s)
  <2>1. PICK seen \in BOOLEAN : thread' = [thread EXCEPT ![s].at = "SIGNAL", ![s].seen = seen]
    BY <1>6 DEF TakesSnapshot
  <2>2. QED
    BY <1>6, <2>1 DEF TakesSnapshot
<1>7. CASE Signals(s)
  <2>1. child' = child \/ child' = [child EXCEPT ![s] = "TERMINATED"]
    BY <1>7 DEF Signals
  <2>2. worker' = worker \/ worker' = [worker EXCEPT ![s] = "GONE"]
    BY <1>7 DEF Signals
  <2>3. thread' = [thread EXCEPT ![s].at = "WAIT"] /\ output' = output
    BY <1>7 DEF Signals
  <2>4. QED
    BY <2>1, <2>2, <2>3
<1>8. CASE StopsInTime(s) \/ TimesOut(s)
  BY <1>8 DEF StopsInTime, TimesOut, Killed
<1>9. QED
  BY <1>1, <1>2, <1>3, <1>4, <1>5, <1>6, <1>7, <1>8 DEF RunProcess, Watches

\* What the thread of a side knows stays true when its child takes a step.
LEMMA ChildKnows ==
    ASSUME TypeOK, NEW s \in Sides, ThreadKnows(s), Child(s)
    PROVE  ThreadKnows(s)'
<1> USE DEF TypeOK, ThreadKnows
<1>1. CASE WritesLedger(s)
  BY <1>1 DEF WritesLedger
<1>2. CASE Exits(s)
  <2>1. thread[s].at \notin {"IDLE", "START"} /\ child[s] = "RUNNING"
    BY <1>2 DEF Exits
  <2>2. UNCHANGED <<thread, worker, output>>
    BY <1>2 DEF Exits
  <2>3. child'[s] = "FAILED" \/ (child'[s] = "OK" /\ output[s] # "PARTIAL")
    BY <1>2 DEF Exits
  <2>4. thread[s].at # "RETURNED"
    BY <2>1
  <2>5. QED
    BY <2>1, <2>2, <2>3, <2>4
<1>3. CASE Spawns(s)
  BY <1>3 DEF Spawns
<1>4. CASE WorkerEnds(s)
  BY <1>4 DEF WorkerEnds
<1>5. QED
  BY <1>1, <1>2, <1>3, <1>4 DEF Child

\* What the thread of a side knows stays true when it takes a step itself.
LEMMA OwnStep ==
    ASSUME TypeOK, NEW s \in Sides, ThreadKnows(s), RunProcess(s)
    PROVE  ThreadKnows(s)'
<1> USE DEF ThreadKnows
<1>0. thread \in [Sides -> Threads] /\ thread[s] \in Threads
  BY DEF TypeOK
<1>00. s \in DOMAIN thread /\ s \in DOMAIN child /\ s \in DOMAIN worker
  BY DEF TypeOK
<1>1. CASE Starts(s)
  <2>1. child[s] = "NONE" /\ output[s] = "NONE" /\ UNCHANGED <<worker, output>>
    BY <1>1 DEF Starts
  <2>2. CASE /\ thread' = [thread EXCEPT ![s].at = "POLL"]
             /\ child' = [child EXCEPT ![s] = "RUNNING"]
    <3>1. thread'[s].at = "POLL" /\ child'[s] = "RUNNING"
      BY <1>0, <1>00, <2>2 DEF Threads
    <3>2. QED
      BY <2>1, <3>1
  <2>3. CASE thread' = Raises(s, "START") /\ UNCHANGED child
    <3>1. thread'[s].at = "RAISED"
      BY <1>0, <1>00, <2>3 DEF Raises, Threads
    <3>2. QED
      BY <2>1, <2>3, <3>1
  <2>4. QED
    BY <1>1, <2>2, <2>3 DEF Starts
<1>2. CASE SeesExit(s)
  <2>1. thread[s].at = "POLL" /\ child[s] # "RUNNING" /\ UNCHANGED <<child, worker, output>>
    BY <1>2 DEF SeesExit
  <2>2. CASE child[s] = "OK"
    <3>1. thread'[s].at = "RETURNED"
      BY <1>0, <1>00, <1>2, <2>2 DEF SeesExit, Threads
    <3>2. QED
      BY <2>1, <2>2, <3>1
  <2>3. CASE child[s] # "OK"
    <3>1. thread'[s].at = "RAISED"
      BY <1>0, <1>00, <1>2, <2>3 DEF SeesExit, Raises, Threads
    <3>2. QED
      BY <2>1, <2>3, <3>1
  <2>4. QED
    BY <2>2, <2>3
<1>3. CASE SeesAbort(s) \/ SeesLowDisk(s)
  <2>1. PICK why \in Whys : thread' = [thread EXCEPT ![s].at = "TERMINATE", ![s].why = why]
    BY <1>3 DEF SeesAbort, SeesLowDisk, Terminating, Whys
  <2>2. thread'[s].at = "TERMINATE" /\ UNCHANGED <<child, worker, output>>
    <3>1. thread'[s].at = "TERMINATE"
      BY <1>0, <1>00, <2>1 DEF Threads
    <3>2. UNCHANGED <<child, worker, output>>
      BY <1>3 DEF SeesAbort, SeesLowDisk
    <3>3. QED
      BY <3>1, <3>2
  <2>3. thread[s].at = "POLL" /\ child[s] = "RUNNING"
    BY <1>3 DEF SeesAbort, SeesLowDisk
  <2>4. QED
    BY <2>2, <2>3
<1>5. CASE PollFails(s)
  <2>1. /\ thread[s].at = "POLL" /\ child[s] = "RUNNING"
        /\ UNCHANGED <<child, worker, output>>
    BY <1>5 DEF PollFails
  <2>2. thread'[s].at = "RAISED" /\ thread'[s].why = "POLL"
    BY <1>0, <1>00, <1>5 DEF PollFails, Raises, Threads
  <2>3. QED
    BY <2>1, <2>2
<1>6. CASE TakesSnapshot(s)
  <2>1. PICK seen \in BOOLEAN : thread' = [thread EXCEPT ![s].at = "SIGNAL", ![s].seen = seen]
    BY <1>6 DEF TakesSnapshot
  <2>2. thread'[s].at = "SIGNAL"
    BY <1>0, <1>00, <2>1 DEF Threads
  <2>3. thread[s].at = "TERMINATE" /\ UNCHANGED <<child, worker, output>>
    BY <1>6 DEF TakesSnapshot
  <2>4. QED
    BY <2>2, <2>3
<1>7. CASE Signals(s)
  <2>1. child'[s] = child[s] \/ (child[s] = "RUNNING" /\ child'[s] = "TERMINATED")
    BY <1>00, <1>7 DEF Signals
  <2>2. thread'[s].at = "WAIT" /\ thread[s].at = "SIGNAL"
    BY <1>0, <1>00, <1>7 DEF Signals, Threads
  <2>3. output' = output
    BY <1>7 DEF Signals
  <2>4. QED
    BY <2>1, <2>2, <2>3
<1>8. CASE StopsInTime(s)
  <2>1. /\ thread[s].at = "WAIT" /\ child[s] # "RUNNING"
        /\ UNCHANGED <<child, worker, output>>
    BY <1>8 DEF StopsInTime
  <2>2. thread'[s].at = "RAISED"
    BY <1>0, <1>00, <1>8 DEF StopsInTime, Threads
  <2>3. QED
    BY <2>1, <2>2
<1>9. CASE TimesOut(s)
  <2>1. child[s] = "RUNNING" /\ child'[s] = "KILLED" /\ output' = output
    BY <1>00, <1>9 DEF TimesOut, Killed
  <2>2. thread'[s].at = "RAISED" /\ thread'[s].seen = thread[s].seen
    BY <1>0, <1>00, <1>9 DEF TimesOut, Threads
  <2>3. thread[s].seen => worker'[s] # "RUNNING"
    BY <1>00, <1>9 DEF TimesOut
  <2>4. QED
    BY <2>1, <2>2, <2>3
<1>10. QED
  BY <1>1, <1>2, <1>3, <1>5, <1>6, <1>7, <1>8, <1>9 DEF RunProcess, Watches

\* What the threads know stays true when the main thread takes a step.
LEMMA MainStepKnows ==
    ASSUME IInv, Main
    PROVE  \A s \in Sides : ThreadKnows(s)'
<1>1. CASE Preflight
  <2> SUFFICES ASSUME NEW s \in Sides PROVE ThreadKnows(s)'
    OBVIOUS
  <2>1. thread[s].at = "IDLE" /\ ThreadKnows(s)
    BY <1>1 DEF Preflight, IInv, MainKnows
  <2>2. thread[s] \in Threads
    BY DEF IInv, TypeOK
  <2>3. thread'[s].at \in {"IDLE", "START"}
    <3>1. CASE UNCHANGED thread
      BY <2>1, <3>1
    <3>2. CASE thread' = [u \in Sides |-> [thread[u] EXCEPT !.at = "START"]]
      <4>1. thread'[s] = [thread[s] EXCEPT !.at = "START"]
        BY <3>2
      <4>2. QED
        BY <2>2, <4>1 DEF Threads
    <3>3. QED
      BY <1>1, <3>1, <3>2 DEF Preflight
  <2>4. UNCHANGED <<child, worker, output>>
    BY <1>1 DEF Preflight
  <2>5. QED
    BY <2>1, <2>3, <2>4 DEF ThreadKnows
<1>2. CASE JoinsOriginal \/ JoinsFortbo \/ Loads \/ Records
  <2>1. UNCHANGED <<thread, child, worker, output>>
    BY <1>2 DEF JoinsOriginal, JoinsFortbo, Joins, Loads, Records
  <2>2. QED
    BY <2>1, Frame DEF IInv
<1>3. QED
  BY <1>1, <1>2 DEF Main

\* Every step leaves what the threads know true.
LEMMA KnowsStep == IInv /\ [Next]_vars => \A s \in Sides : ThreadKnows(s)'
<1> SUFFICES ASSUME IInv, [Next]_vars, NEW s \in Sides PROVE ThreadKnows(s)'
  OBVIOUS
<1>0. TypeOK /\ ThreadKnows(s)
  BY DEF IInv
<1>1. CASE UNCHANGED vars
  BY <1>0, <1>1, Frame DEF vars
<1>2. CASE Main
  BY <1>2, MainStepKnows
<1>3. CASE \E t \in Sides : RunProcess(t) \/ Child(t)
  <2>1. PICK t \in Sides : RunProcess(t) \/ Child(t)
    BY <1>3
  <2>2. CASE t = s
    <3>1. CASE RunProcess(s)
      BY <1>0, <3>1, OwnStep
    <3>2. CASE Child(s)
      BY <1>0, <3>2, ChildKnows
    <3>3. QED
      BY <2>1, <2>2, <3>1, <3>2
  <2>3. CASE t # s
    <3>1. /\ thread'[s] = thread[s] /\ child'[s] = child[s]
          /\ worker'[s] = worker[s] /\ output'[s] = output[s]
      BY <1>0, <2>1, <2>3, OtherSide
    <3>2. QED
      BY <1>0, <3>1, Frame
  <2>4. QED
    BY <2>2, <2>3
<1>4. QED
  BY <1>1, <1>2, <1>3 DEF Next
-----------------------------------------------------------------------------
\* A thread that has not begun or has ended stays where it is, a ledger does not vanish,
\* and only a running child writes one.
LEMMA SettledStays ==
    ASSUME TypeOK, NEW s \in Sides, RunProcess(s) \/ Child(s)
    PROVE  /\ main' = main
           /\ \A t \in Sides :
                 /\ thread[t].at \in {"IDLE", "RETURNED", "RAISED"} => thread'[t] = thread[t]
                 /\ output[t] # "NONE" => output'[t] # "NONE"
                 /\ child[t] # "RUNNING" => output'[t] = output[t]
<1> USE DEF TypeOK
<1>1. CASE Child(s)
  BY <1>1 DEF Child, WritesLedger, Exits, Spawns, WorkerEnds
<1>2. CASE RunProcess(s)
  <2>1. thread[s].at \notin {"IDLE", "RETURNED", "RAISED"}
    BY <1>2 DEF RunProcess, Watches, Starts, SeesExit, SeesAbort, SeesLowDisk, PollFails,
                TakesSnapshot, Signals, StopsInTime, TimesOut
  <2>2. main' = main /\ output' = output
    BY <1>2 DEF RunProcess, Watches, Starts, SeesExit, SeesAbort, SeesLowDisk, PollFails,
                TakesSnapshot, Signals, StopsInTime, TimesOut
  <2>3. \A t \in Sides : t # s => thread'[t] = thread[t]
    BY <1>2, OtherSide
  <2>4. QED
    BY <2>1, <2>2, <2>3
<1>3. QED
  BY <1>1, <1>2

\* The sides preserve what the main thread knows.
LEMMA SideStepMain ==
    ASSUME IInv, NEW s \in Sides, RunProcess(s) \/ Child(s)
    PROVE  MainKnows'
<1>0. TypeOK /\ MainKnows /\ \A t \in Sides : ThreadKnows(t)
  BY DEF IInv
<1>1. /\ main' = main
      /\ \A t \in Sides :
            /\ thread[t].at \in {"IDLE", "RETURNED", "RAISED"} => thread'[t] = thread[t]
            /\ output[t] # "NONE" => output'[t] # "NONE"
            /\ child[t] # "RUNNING" => output'[t] = output[t]
  BY <1>0, SettledStays
<1>2. TypeOK'
  BY <1>0, TypeStep DEF Next
<1>3. \A t \in Sides : Joined(t) => Joined(t)'
  BY <1>1 DEF Joined
<1>4. ASSUME main.at \in {"RECORD", "WRITTEN"}, main.errors = {} PROVE output' = output
  <2>1. \A t \in Sides : child[t] = "OK"
    BY <1>0, <1>4 DEF MainKnows, Joined, ThreadKnows
  <2>2. \A t \in Sides : output'[t] = output[t]
    BY <1>1, <2>1
  <2>3. output \in [Sides -> Ledgers] /\ output' \in [Sides -> Ledgers]
    BY <1>0, <1>2 DEF TypeOK
  <2>4. QED
    BY <2>2, <2>3
<1>5. main.at = "PREFLIGHT" => \A t \in Sides : thread'[t].at = "IDLE"
  BY <1>0, <1>1 DEF MainKnows
<1>6. main.at = "FORTBO" => Joined("original")'
  BY <1>0, <1>3 DEF MainKnows, Sides
<1>7. main.at \in {"LOAD", "RECORD", "WRITTEN"} => \A t \in Sides : Joined(t)'
  BY <1>0, <1>3 DEF MainKnows
<1>8. main.at = "REFUSED" =>
          (\A t \in Sides : thread'[t].at = "IDLE") \/ (\A t \in Sides : Joined(t)')
  BY <1>0, <1>1, <1>3 DEF MainKnows
<1>9. main.why = "UNPARSED" =>
          main.at = "REFUSED" /\ \E t \in main.errors : output'[t] # "NONE"
  BY <1>0, <1>1 DEF MainKnows, TypeOK
<1>10. QED
  BY <1>0, <1>1, <1>4, <1>5, <1>6, <1>7, <1>8, <1>9 DEF MainKnows

\* A future that is joined notes its side if it raised, and leaves the other noted or not.
LEMMA JoinNotes ==
    ASSUME TypeOK, NEW s \in Sides, NEW at, NEW next, Joins(s, at, next)
    PROVE  /\ main'.at = next /\ main'.why = main.why
           /\ main'.errors = main.errors \cup (IF thread[s].at = "RAISED" THEN {s} ELSE {})
           /\ thread[s].at \in {"RETURNED", "RAISED"} /\ main.at = at
           /\ UNCHANGED <<thread, child, worker, output>>
  BY DEF Joins, Noted, TypeOK

\* The main thread preserves what it knows.
LEMMA MainStepMain ==
    ASSUME IInv, Main
    PROVE  MainKnows'
<1>0. TypeOK /\ MainKnows /\ \A t \in Sides : ThreadKnows(t)
  BY DEF IInv
<1>1. CASE Preflight
  <2>1. \A t \in Sides : thread[t].at = "IDLE" /\ main.errors = {} /\ main.why # "UNPARSED"
    BY <1>0, <1>1 DEF MainKnows, Preflight
  <2>2. CASE main' = [main EXCEPT !.at = "ORIGINAL"]
    <3>1. main'.at = "ORIGINAL" /\ main'.errors = {} /\ main'.why # "UNPARSED"
      BY <1>0, <2>1, <2>2 DEF TypeOK, Sides
    <3>2. QED
      BY <3>1 DEF MainKnows
  <2>3. CASE main' = Refused("PREFLIGHT") /\ UNCHANGED thread
    <3>1. main'.at = "REFUSED" /\ main'.errors = {} /\ main'.why # "UNPARSED"
      BY <1>0, <2>1, <2>3 DEF TypeOK, Refused, Sides
    <3>2. QED
      BY <2>1, <2>3, <3>1 DEF MainKnows
  <2>4. QED
    BY <1>1, <2>2, <2>3 DEF Preflight
<1>2. CASE JoinsOriginal
  <2>1. /\ main'.at = "FORTBO" /\ main'.why = main.why /\ main.at = "ORIGINAL"
        /\ main'.errors = main.errors \cup
              (IF thread["original"].at = "RAISED" THEN {"original"} ELSE {})
        /\ thread["original"].at \in {"RETURNED", "RAISED"}
        /\ UNCHANGED thread
    BY <1>0, <1>2, JoinNotes DEF JoinsOriginal, Sides
  <2>2. main.errors = {} /\ main.why # "UNPARSED"
    BY <1>0, <2>1 DEF MainKnows
  <2>3. QED
    BY <2>1, <2>2 DEF MainKnows, Joined
<1>3. CASE JoinsFortbo
  <2>1. /\ main'.at = "LOAD" /\ main'.why = main.why /\ main.at = "FORTBO"
        /\ main'.errors = main.errors \cup
              (IF thread["fortbo"].at = "RAISED" THEN {"fortbo"} ELSE {})
        /\ thread["fortbo"].at \in {"RETURNED", "RAISED"}
        /\ UNCHANGED thread
    BY <1>0, <1>3, JoinNotes DEF JoinsFortbo, Sides
  <2>2. Joined("original") /\ "fortbo" \notin main.errors /\ main.why # "UNPARSED"
    BY <1>0, <2>1 DEF MainKnows
  <2>3. Joined("original")' /\ Joined("fortbo")'
    BY <2>1, <2>2 DEF Joined
  <2>4. QED
    BY <2>1, <2>2, <2>3 DEF MainKnows, Sides
<1>4. CASE Loads
  <2>1. \A t \in Sides : Joined(t)
    BY <1>0, <1>4 DEF MainKnows, Loads
  <2>2. main.why # "UNPARSED" /\ UNCHANGED <<thread, output>>
    BY <1>0, <1>4 DEF MainKnows, Loads
  <2>3. CASE main' = Refused("UNPARSED") /\ Unparsable # {}
    <3>1. PICK t \in Sides : output[t] = "PARTIAL"
      BY <2>3 DEF Unparsable
    <3>2. t \in main.errors
      BY <1>0, <2>1, <3>1 DEF ThreadKnows, Joined
    <3>3. main'.at = "REFUSED" /\ main'.errors = main.errors
      BY <1>0, <2>3 DEF Refused, TypeOK
    <3>4. \A u \in Sides : Joined(u)'
      BY <2>1, <2>2, <3>3 DEF Joined
    <3>5. QED
      BY <2>2, <3>1, <3>2, <3>3, <3>4 DEF MainKnows
  <2>4. CASE main' = [main EXCEPT !.at = "RECORD", !.document = output]
    <3>1. /\ main'.at = "RECORD" /\ main'.errors = main.errors
          /\ main'.why = main.why /\ main'.document = output
      BY <1>0, <2>4 DEF TypeOK
    <3>2. \A u \in Sides : Joined(u)'
      BY <2>1, <2>2, <3>1 DEF Joined
    <3>3. QED
      BY <2>2, <3>1, <3>2 DEF MainKnows
  <2>5. CASE main' = Refused("UNREAD")
    <3>1. main'.at = "REFUSED" /\ main'.errors = main.errors /\ main'.why = "UNREAD"
      BY <1>0, <2>5 DEF Refused, TypeOK
    <3>2. \A u \in Sides : Joined(u)'
      BY <2>1, <2>2, <3>1 DEF Joined
    <3>3. QED
      BY <3>1, <3>2 DEF MainKnows
  <2>6. QED
    BY <1>4, <2>3, <2>4, <2>5 DEF Loads
<1>5. CASE Records
  <2>1. \A t \in Sides : Joined(t)
    BY <1>0, <1>5 DEF MainKnows, Records
  <2>2. main.why # "UNPARSED" /\ main.at = "RECORD" /\ UNCHANGED <<thread, output>>
    BY <1>0, <1>5 DEF MainKnows, Records
  <2>3. main.errors = {} => main.document = output
    BY <1>0, <2>2 DEF MainKnows
  <2>4. CASE main' = [main EXCEPT !.at = "WRITTEN", !.digest = output]
    <3>1. /\ main'.at = "WRITTEN" /\ main'.errors = main.errors /\ main'.why = main.why
          /\ main'.document = main.document /\ main'.digest = output
      BY <1>0, <2>4 DEF TypeOK
    <3>2. \A u \in Sides : Joined(u)'
      BY <2>1, <2>2, <3>1 DEF Joined
    <3>3. QED
      BY <2>2, <2>3, <3>1, <3>2 DEF MainKnows
  <2>5. CASE main' = Refused("RECORD")
    <3>1. main'.at = "REFUSED" /\ main'.errors = main.errors /\ main'.why = "RECORD"
      BY <1>0, <2>5 DEF Refused, TypeOK
    <3>2. \A u \in Sides : Joined(u)'
      BY <2>1, <2>2, <3>1 DEF Joined
    <3>3. QED
      BY <3>1, <3>2 DEF MainKnows
  <2>6. QED
    BY <1>5, <2>4, <2>5 DEF Records
<1>6. QED
  BY <1>1, <1>2, <1>3, <1>4, <1>5 DEF Main

\* The invariant is inductive.
LEMMA InvStep == IInv /\ [Next]_vars => IInv'
<1> SUFFICES ASSUME IInv, [Next]_vars PROVE IInv'
  OBVIOUS
<1>1. TypeOK'
  BY TypeStep DEF IInv
<1>2. \A s \in Sides : ThreadKnows(s)'
  BY KnowsStep
<1>3. MainKnows'
  <2>1. CASE UNCHANGED vars
    BY <2>1 DEF vars, IInv, MainKnows, Joined
  <2>2. CASE Main
    BY <2>2, MainStepMain
  <2>3. CASE \E s \in Sides : RunProcess(s) \/ Child(s)
    BY <2>3, SideStepMain
  <2>4. QED
    BY <2>1, <2>2, <2>3 DEF Next
<1>4. QED
  BY <1>1, <1>2, <1>3 DEF IInv

\* The invariant holds throughout.
LEMMA Invariant == Spec => []IInv
  BY InitInv, InvStep, PTL DEF Spec

\* A pair recorded as complete is comparable, then and ever after
\* (_ledgers_passed and the digests of run_b5_oracle_pair.py, check_oracle_pair.py).
THEOREM CompleteIsComparable == Spec => []CompletePairsAreComparable
<1>1. IInv => CompletePairsAreComparable
  <2> SUFFICES ASSUME IInv, main.at = "WRITTEN", Complete
               PROVE  CheckAccepts /\ \A s \in Sides : child[s] = "OK"
    BY DEF CompletePairsAreComparable
  <2>1. main.errors = {} /\ \A s \in Sides : main.document[s] = "PASSED"
    BY DEF Complete
  <2>2. main.document = output /\ main.digest = output
    BY <2>1 DEF IInv, MainKnows
  <2>3. \A s \in Sides : child[s] = "OK"
    BY <2>1 DEF IInv, MainKnows, Joined, ThreadKnows
  <2>4. QED
    BY <2>1, <2>2, <2>3 DEF CheckAccepts
<1>2. QED
  BY Invariant, <1>1, PTL

\* The document of a failed pair names every side that failed (main of
\* run_b5_oracle_pair.py), and a ledger that cannot be parsed was left by such a side
\* (_load_result).
THEOREM FailuresAreRecorded == Spec => []FailedPairsAreRecorded
<1>1. IInv => FailedPairsAreRecorded
  BY DEF IInv, MainKnows, Joined, FailedPairsAreRecorded
<1>2. QED
  BY Invariant, <1>1, PTL

\* No child outlives the launcher that still sees it, and a killed child takes the
\* workers that were seen with it.
THEOREM NothingOutlives == Spec => []NothingOutlivesThePair
<1>1. IInv => NothingOutlivesThePair
  <2> SUFFICES ASSUME IInv, NEW s \in Sides, Ended
               PROVE  /\ child[s] = "RUNNING" => thread[s].why = "POLL"
                      /\ child[s] = "KILLED" /\ thread[s].seen => worker[s] # "RUNNING"
    BY DEF NothingOutlivesThePair, IInv
  <2>1. thread[s].at \in {"IDLE", "RETURNED", "RAISED"}
    BY DEF Ended, IInv, MainKnows, Joined
  <2>2. ThreadKnows(s)
    BY DEF IInv
  <2>3. QED
    BY <2>1, <2>2 DEF ThreadKnows
<1>2. QED
  BY Invariant, <1>1, PTL
=============================================================================
