------------------------ MODULE CompletionRuns_proofs ------------------------
(***************************************************************************)
(* Proofs about the two runs over the completion bridge.                   *)
(*                                                                         *)
(* First CompletionProtocol, for every budget, number of workers and       *)
(* initial design with Workers <= Initial.  CInv is                        *)
(* inductive: it says where each candidate is (in the pipe to the runner,  *)
(* pending there, in the pipe back, told), what the pipe holds while both  *)
(* loops run, whose turn it is, and why whoever stopped did.               *)
(*                                                                         *)
(* Then LandremanRun, for every budget, number of ranks and initial        *)
(* design, without that bound.  RInv is inductive in two layers:     *)
(* PInv says of rank zero and its bridge what CInv says of the other run,  *)
(* and HInv what every worker rank has in its hands.                       *)
(***************************************************************************)
EXTENDS CompletionProtocol, LandremanRun, SequenceTheorems, FunctionTheorems,
        FiniteSetTheorems, WellFoundedInduction, TLAPS

\* The runner still reads and answers.
Live == runner.at \in {"LOOP", "COMPLETE"}

Point(id) == id + 1
Asked == bridge.dispatched
Read == runner.dispatched

\* what has been answered, by the ledger of the runner
AnsweredIds == {records[i].id : i \in DOMAIN records}
ToldIds == {records[i].id : i \in 1..Len(told)}

AskLine(id) == [line |-> "ASK", id |-> id, point |-> Point(id)]
Line == [line : {"ASK"}, id : Ids, point : 1..Budget] \cup [line : {"WAIT", "DONE"}]

Typed ==
    /\ BridgeType /\ RunnerType
    /\ toRunner \in Seq(Line)
    /\ toBridge \in Seq([id : Ids, answer : 0..Budget])
    /\ told \in Seq([point : 1..Budget, answer : 0..Budget])
    /\ records \in Seq(RowType)

\* What a row records of its evaluation: both numbers, or neither.
WholeRow(row) ==
    /\ row.status = "ok" <=> row.answer # 0
    /\ row.value = IF row.answer = 0 THEN NoValue ELSE MinimizedAt(row.point)

\* A candidate is evaluated at its own point and recorded once.
RecordsAreSound ==
    /\ \A i, j \in DOMAIN records : records[i].id = records[j].id => i = j
    /\ \A i \in DOMAIN records : /\ records[i].point = Point(records[i].id)
                                 /\ records[i].answer \in {0, records[i].point}
                                 /\ records[i].id < Read /\ WholeRow(records[i])
    /\ Len(records) <= Read /\ Read <= Asked
    /\ \A id \in Ids : futures[id].state # "NONE" => /\ futures[id].point = Point(id)
                                                     /\ id < Read

\* The driver was told the first records; the others are on their way to the bridge.
TellsFollowRecords ==
    /\ Len(records) = Len(told) + Len(toBridge)
    /\ \A i \in DOMAIN told : told[i] = [point |-> records[i].point,
                                         answer |-> records[i].answer]
    /\ \A i \in DOMAIN toBridge : toBridge[i] = [id |-> records[Len(told) + i].id,
                                                 answer |-> records[Len(told) + i].answer]

\* A slot is in use for every candidate asked for and not told.
SlotsAreOwed ==
    /\ UsedIds = (0..(Asked - 1)) \ ToldIds
    /\ \A s, t \in InUse : slots[s].id = slots[t].id => s = t
    /\ \A s \in InUse : slots[s].point = Point(slots[s].id)
    /\ PendingCount = Asked - Len(told)
    /\ bridge.completed = Len(told)

\* The runner waits for every candidate that it has read and not recorded.
PendingIsOwed ==
    /\ runner.pending \cap AnsweredIds = {}
    /\ \A id \in runner.pending : id < Read /\ futures[id].state # "NONE"
    /\ Live => /\ runner.pending = (0..(Read - 1)) \ AnsweredIds
               /\ Cardinality(runner.pending) = Read - Len(records)

Waits == Len(toRunner) = Asked - Read + 1 /\ toRunner[Asked - Read + 1] = [line |-> "WAIT"]
Done == Len(toRunner) = Asked - Read + 1 /\ toRunner[Asked - Read + 1] = [line |-> "DONE"]

\* The pipe holds the asks not read yet, in order, and at most one last line.
PipeIsInStep ==
    Live =>
        /\ \A i \in 1..(Asked - Read) : i \in DOMAIN toRunner
                                        /\ toRunner[i] = AskLine(Read + i - 1)
        /\ Len(toRunner) = Asked - Read \/ Waits \/ Done
        /\ Done <=> bridge.at = "EXITED"
        /\ Waits => /\ MayAsk /\ PendingCount >= 1 /\ Asked >= Initial
                    /\ bridge.at \in {"READ", "ABORTED"} /\ toBridge = <<>>
                    /\ runner.at = "LOOP"

\* Whoever has answers to give or to take does not ask.
TurnsAreTaken ==
    Live =>
        /\ bridge.at = "LOOP" /\ MayAsk => toBridge = <<>> /\ runner.at = "LOOP"
        /\ runner.at = "COMPLETE" /\ toBridge # <<>> => Read = Budget
        /\ Len(toBridge) >= 2 => Read = Budget

\* all workers, or as many of them as the whole budget keeps busy
Full == IF Workers <= Budget THEN Workers ELSE Budget

\* The peak is that of the pending candidates until the first of them is answered,
\* which is after as many workers as there can be have been busy at once.
PeakIsReached ==
    Live => /\ runner.peak = IF records = <<>> THEN Cardinality(runner.pending) ELSE Full
            /\ runner.at = "COMPLETE" => runner.peak = Full

Completed ==
    /\ bridge.at = "EXITED" /\ Read = Budget /\ Len(records) = Budget
    /\ AnsweredIds = Ids /\ runner.peak = Full

\* How both ended, and why.
EndsAreEarned ==
    /\ bridge.at = "EXITED" => Len(told) = Budget /\ Asked = Budget
    /\ bridge.at = "ABORTED" <=> bridge.why # ""
    /\ bridge.why = "EOF" => stdinClosed
    /\ stdinClosed => runner.at \in {"REAP", "RETURNED", "WRITTEN", "RAISED"}
    /\ Live => runner.why = ""
    /\ runner.at \in {"RETURNED", "WRITTEN"} => runner.why = ""
    /\ runner.at = "RAISED" => runner.why # ""
    /\ runner.why = "" /\ ~Live => Completed
    /\ runner.why \in {"EOF", "BROKEN_PIPE"} => bridge.why \in {"ASK", "TELL"}
    /\ runner.why = "EVALUATION" => \E id \in Ids : futures[id].state = "RAISED"
    /\ runner.why = "CHECKOUT" => runner.at = "RAISED" /\ bridge.at = "EXITED"
    /\ runner.at \in {"REAP", "RETURNED", "WRITTEN", "RAISED"} => Running = {}
    /\ runner.at \in {"RETURNED", "WRITTEN", "RAISED"} => BridgeGone

CInv == /\ Typed /\ RecordsAreSound /\ TellsFollowRecords /\ SlotsAreOwed /\ PendingIsOwed
        /\ PipeIsInStep /\ TurnsAreTaken /\ PeakIsReached /\ EndsAreEarned
-----------------------------------------------------------------------------
\* The numbers of the run, and the fields of the two processes.
LEMMA Numbers ==
    ASSUME Typed
    PROVE  /\ Budget \in Nat \ {0} /\ Workers \in Nat \ {0} /\ Initial \in Nat \ {0}
           /\ Workers <= Initial
           /\ Full \in Nat /\ Full <= Workers /\ Full <= Budget
           /\ Full = Workers \/ Full = Budget
           /\ Asked \in 0..Budget /\ Read \in 0..Budget
           /\ Ids = 0..(Budget - 1) /\ Slots = 1..Workers
           /\ runner.pending \subseteq Ids
<1>1. /\ Budget \in Nat \ {0} /\ Workers \in Nat \ {0} /\ Initial \in Nat \ {0}
      /\ Workers <= Initial
  BY BridgeAssumption, ProtocolAssumption
<1>2. /\ Full \in Nat /\ Full <= Workers /\ Full <= Budget
      /\ Full = Workers \/ Full = Budget
  BY <1>1 DEF Full
<1>3. /\ Asked \in 0..Budget /\ Read \in 0..Budget
      /\ Ids = 0..(Budget - 1) /\ Slots = 1..Workers
      /\ runner.pending \subseteq Ids
  BY DEF Typed, BridgeType, RunnerType, Asked, Read, Ids, Slots
<1>4. QED
  BY <1>1, <1>2, <1>3

\* A step of the bridge that only moves it on.
LEMMA BridgeMoves ==
    ASSUME BridgeType, NEW a, bridge' = [bridge EXCEPT !.at = a]
    PROVE  /\ bridge'.at = a /\ Asked' = Asked /\ bridge'.completed = bridge.completed
           /\ bridge'.why = bridge.why
           /\ a \in {"LOOP", "READ", "EXITED", "ABORTED"} =>
                 bridge' \in [at : {"LOOP", "READ", "EXITED", "ABORTED"},
                              dispatched : 0..Budget, completed : 0..Budget,
                              why : {"", "ASK", "TELL", "EOF"}]
BY DEF BridgeType, Asked

\* A step of the runner that only moves it on.
LEMMA RunnerMoves ==
    ASSUME RunnerType, NEW a, runner' = [runner EXCEPT !.at = a]
    PROVE  /\ runner'.at = a /\ Read' = Read /\ runner'.pending = runner.pending
           /\ runner'.peak = runner.peak /\ runner'.why = runner.why
           /\ a \in {"LOOP", "COMPLETE", "JOIN", "REAP", "RETURNED", "WRITTEN", "RAISED"} =>
                 runner' \in [at : {"LOOP", "COMPLETE", "JOIN", "REAP", "RETURNED",
                                    "WRITTEN", "RAISED"},
                              dispatched : 0..Budget, pending : SUBSET Ids,
                              peak : 0..Workers,
                              why : {"", "EOF", "EVALUATION", "BROKEN_PIPE", "CHECKOUT"}]
BY DEF RunnerType, Read

\* A step that leaves the records alone keeps what is said of them.
LEMMA RecordsKept ==
    ASSUME RecordsAreSound, records' = records, futures' = futures,
           Asked' = Asked, Read' = Read
    PROVE  RecordsAreSound'
BY DEF RecordsAreSound

\* The same of what the driver was told.
LEMMA TellsKept ==
    ASSUME TellsFollowRecords, records' = records, told' = told, toBridge' = toBridge
    PROVE  TellsFollowRecords'
BY DEF TellsFollowRecords

\* The same of the slots.
LEMMA SlotsKept ==
    ASSUME SlotsAreOwed, slots' = slots, told' = told, records' = records,
           Asked' = Asked, bridge'.completed = bridge.completed
    PROVE  /\ SlotsAreOwed'
           /\ PendingCount' = PendingCount /\ UsedIds' = UsedIds
<1>1. InUse' = InUse /\ ToldIds' = ToldIds
  BY DEF InUse, ToldIds
<1>2. UsedIds' = UsedIds /\ PendingCount' = PendingCount
  BY <1>1 DEF UsedIds, PendingCount
<1>3. QED
  BY <1>1, <1>2 DEF SlotsAreOwed

\* The same of what the runner waits for.
LEMMA PendingKept ==
    ASSUME PendingIsOwed, runner'.pending = runner.pending, records' = records,
           futures' = futures, Read' = Read, Live' => Live
    PROVE  PendingIsOwed'
<1>1. AnsweredIds' = AnsweredIds
  BY DEF AnsweredIds
<1>2. QED
  BY <1>1 DEF PendingIsOwed

\* The same of the peak.
LEMMA PeakKept ==
    ASSUME PeakIsReached, runner'.peak = runner.peak, runner'.pending = runner.pending,
           records' = records, runner'.at = runner.at
    PROVE  PeakIsReached'
BY DEF PeakIsReached, Live

\* A step that leaves the runner alone.
LEMMA RunnerKept ==
    ASSUME runner' = runner, records' = records, futures' = futures
    PROVE  /\ Read' = Read /\ (Live' <=> Live) /\ runner'.at = runner.at
           /\ runner'.pending = runner.pending /\ runner'.peak = runner.peak
           /\ runner'.why = runner.why
           /\ AnsweredIds' = AnsweredIds /\ Running' = Running
BY DEF Read, Live, AnsweredIds, Running

-----------------------------------------------------------------------------
\* error stop of the bridge: the driver refused an ask or a tell.
LEMMA StopKeeps ==
    ASSUME CInv, NEW why \in {"ASK", "TELL", "EOF"}, Stop(why), UNCHANGED runnerVars,
           bridge.at \in {"LOOP", "READ"}, why = "EOF" => stdinClosed
    PROVE  CInv'
<1>1. /\ Typed /\ RecordsAreSound /\ TellsFollowRecords /\ SlotsAreOwed /\ PendingIsOwed
      /\ PipeIsInStep /\ TurnsAreTaken /\ PeakIsReached /\ EndsAreEarned
  BY DEF CInv
<1>2. /\ bridge' = [bridge EXCEPT !.at = "ABORTED", !.why = why]
      /\ slots' = slots /\ toRunner' = toRunner /\ toBridge' = toBridge
      /\ stdinClosed' = stdinClosed /\ told' = told
      /\ runner' = runner /\ futures' = futures /\ records' = records
  BY DEF Stop, runnerVars
<1>3. /\ bridge'.at = "ABORTED" /\ bridge'.why = why /\ Asked' = Asked
      /\ bridge'.completed = bridge.completed
      /\ bridge' \in [at : {"LOOP", "READ", "EXITED", "ABORTED"}, dispatched : 0..Budget,
                      completed : 0..Budget, why : {"", "ASK", "TELL", "EOF"}]
  BY <1>1, <1>2 DEF Typed, BridgeType, Asked
<1>4. /\ Read' = Read /\ (Live' <=> Live) /\ runner'.at = runner.at
      /\ runner'.pending = runner.pending /\ runner'.peak = runner.peak
      /\ runner'.why = runner.why /\ AnsweredIds' = AnsweredIds /\ Running' = Running
  BY <1>2, RunnerKept
<1>5. Typed'
  BY <1>1, <1>2, <1>3 DEF Typed, BridgeType, RunnerType
<1>6. /\ SlotsAreOwed' /\ PendingCount' = PendingCount
  BY <1>1, <1>2, <1>3, SlotsKept
<1>7. RecordsAreSound' /\ TellsFollowRecords' /\ PendingIsOwed' /\ PeakIsReached'
  BY <1>1, <1>2, <1>3, <1>4, RecordsKept, TellsKept, PendingKept, PeakKept
<1>8. /\ (Waits' <=> Waits) /\ (Done' <=> Done) /\ (MayAsk' <=> MayAsk)
  BY <1>2, <1>3, <1>4, <1>6 DEF Waits, Done, MayAsk, Asked
<1>9. PipeIsInStep'
  BY <1>1, <1>2, <1>3, <1>4, <1>6, <1>8 DEF PipeIsInStep
<1>10. TurnsAreTaken'
  BY <1>1, <1>2, <1>3, <1>4 DEF TurnsAreTaken
<1>11. EndsAreEarned'
  <2>1. bridge.why = "" /\ ~(bridge.at = "EXITED") /\ ~BridgeGone
    BY <1>1 DEF EndsAreEarned, BridgeGone
  <2>2. runner.why = "" => Live
    BY <1>1, <2>1 DEF EndsAreEarned, Completed
  <2>3. ~(runner.why \in {"EOF", "BROKEN_PIPE", "CHECKOUT"})
    BY <1>1, <2>1 DEF EndsAreEarned
  <2>4. ~(runner.at \in {"RETURNED", "WRITTEN", "RAISED"})
    BY <1>1, <2>1 DEF EndsAreEarned
  <2>5. QED
    BY <1>1, <1>2, <1>3, <1>4, <2>2, <2>3, <2>4 DEF EndsAreEarned
<1>12. QED
  BY <1>5, <1>6, <1>7, <1>9, <1>10, <1>11 DEF CInv

\* The bridge turns to its input once it may not ask.
LEMMA ListensKeeps == CInv /\ BridgeListens /\ UNCHANGED runnerVars => CInv'
<1> SUFFICES ASSUME CInv, BridgeListens, UNCHANGED runnerVars PROVE CInv'
  OBVIOUS
<1>1. /\ Typed /\ RecordsAreSound /\ TellsFollowRecords /\ SlotsAreOwed /\ PendingIsOwed
      /\ PipeIsInStep /\ TurnsAreTaken /\ PeakIsReached /\ EndsAreEarned
  BY DEF CInv
<1>2. /\ bridge' = [bridge EXCEPT !.at = "READ"] /\ bridge.at = "LOOP"
      /\ slots' = slots /\ toRunner' = toRunner /\ toBridge' = toBridge
      /\ stdinClosed' = stdinClosed /\ told' = told
      /\ runner' = runner /\ futures' = futures /\ records' = records
  BY DEF BridgeListens, runnerVars
<1>3. /\ bridge'.at = "READ" /\ bridge'.why = bridge.why /\ Asked' = Asked
      /\ bridge'.completed = bridge.completed
      /\ bridge' \in [at : {"LOOP", "READ", "EXITED", "ABORTED"}, dispatched : 0..Budget,
                      completed : 0..Budget, why : {"", "ASK", "TELL", "EOF"}]
  BY <1>1, <1>2, BridgeMoves DEF Typed
<1>4. /\ Read' = Read /\ (Live' <=> Live) /\ runner'.at = runner.at
      /\ runner'.pending = runner.pending /\ runner'.peak = runner.peak
      /\ runner'.why = runner.why /\ AnsweredIds' = AnsweredIds /\ Running' = Running
  BY <1>2, RunnerKept
<1>5. Typed'
  BY <1>1, <1>2, <1>3 DEF Typed, BridgeType, RunnerType
<1>6. /\ SlotsAreOwed' /\ PendingCount' = PendingCount
  BY <1>1, <1>2, <1>3, SlotsKept
<1>7. RecordsAreSound' /\ TellsFollowRecords' /\ PendingIsOwed' /\ PeakIsReached'
  BY <1>1, <1>2, <1>3, <1>4, RecordsKept, TellsKept, PendingKept, PeakKept
<1>8. /\ (Waits' <=> Waits) /\ (Done' <=> Done) /\ (MayAsk' <=> MayAsk)
  BY <1>2, <1>3, <1>4, <1>6 DEF Waits, Done, MayAsk, Asked
<1>9. PipeIsInStep'
  BY <1>1, <1>2, <1>3, <1>4, <1>6, <1>8 DEF PipeIsInStep
<1>10. TurnsAreTaken'
  BY <1>1, <1>2, <1>3, <1>4 DEF TurnsAreTaken
<1>11. EndsAreEarned'
  <2>1. bridge.why = "" /\ ~BridgeGone
    BY <1>1, <1>2 DEF EndsAreEarned, BridgeGone
  <2>2. runner.why = "" => Live
    BY <1>1, <1>2 DEF EndsAreEarned, Completed
  <2>3. ~(runner.at \in {"RETURNED", "WRITTEN", "RAISED"})
    BY <1>1, <2>1 DEF EndsAreEarned
  <2>4. QED
    BY <1>1, <1>2, <1>3, <1>4, <2>1, <2>2, <2>3 DEF EndsAreEarned
<1>12. QED
  BY <1>5, <1>6, <1>7, <1>9, <1>10, <1>11 DEF CInv

-----------------------------------------------------------------------------
\* Every nonempty set of natural numbers has a least one.
LEMMA LeastNat ==
    ASSUME NEW T, T \subseteq Nat, T # {}
    PROVE  \E m \in T : \A n \in T : m <= n
<1>1. PICK m \in T : \A n \in T : ~ (<<n, m>> \in OpToRel(<, Nat))
  BY NatLessThanWellFounded, WFMin, Zenon
<1>2. \A n \in T : ~ (n < m)
  BY <1>1 DEF OpToRel
<1>3. QED
  BY <1>2

\* While fewer candidates are in flight than there are workers, a slot is free.
LEMMA FreeSlotExists ==
    ASSUME PendingCount < Workers
    PROVE  /\ FirstFreeSlot \in Slots \ InUse
           /\ IsFiniteSet(InUse) /\ PendingCount \in Nat
<1>1. Workers \in Nat \ {0} /\ Slots = 1..Workers
  BY BridgeAssumption DEF Slots
<1>2. IsFiniteSet(Slots) /\ Cardinality(Slots) = Workers
  <2>1. 1 \in Int /\ Workers \in Int /\ ~(1 > Workers)
    BY <1>1
  <2>2. /\ IsFiniteSet(1..Workers)
        /\ Cardinality(1..Workers) = IF 1 > Workers THEN 0 ELSE Workers - 1 + 1
    BY <2>1, FS_Interval
  <2>3. QED
    BY <1>1, <2>1, <2>2
<1>3. InUse \subseteq Slots
  BY DEF InUse
<1>4. IsFiniteSet(InUse) /\ Cardinality(InUse) \in Nat
  BY <1>2, <1>3, FS_Subset, FS_CardinalityType
<1>5. InUse # Slots
  <2>1. Cardinality(InUse) < Workers
    BY DEF PendingCount
  <2>2. QED
    BY <1>1, <1>2, <1>4, <2>1
<1>6. \E s \in Slots \ InUse : \A t \in Slots \ InUse : s <= t
  <2>1. Slots \subseteq Nat
    BY <1>1
  <2>2. Slots \ InUse \subseteq Nat
    BY <2>1
  <2>3. Slots \ InUse # {}
    BY <1>3, <1>5
  <2>4. QED
    BY <2>2, <2>3, LeastNat
<1>7. FirstFreeSlot \in Slots \ InUse
  BY <1>6 DEF FirstFreeSlot
<1>8. QED
  BY <1>4, <1>7 DEF PendingCount

\* The slots after an ask: one more is in use, for the next id.
LEMMA SlotsAfterAsk ==
    ASSUME CInv, MayAsk, NEW f, f = FirstFreeSlot,
           slots' = [slots EXCEPT ![f] = [used |-> TRUE, id |-> Asked,
                                          point |-> Point(Asked)]],
           Asked' = Asked + 1, told' = told, records' = records,
           bridge'.completed = bridge.completed
    PROVE  /\ SlotsAreOwed' /\ PendingCount' = PendingCount + 1
           /\ slots' \in [Slots -> [used : BOOLEAN, id : Ids \cup {-1}, point : 0..Budget]]
<1>1. /\ Budget \in Nat \ {0} /\ Asked \in 0..Budget /\ Asked < Budget
      /\ Ids = 0..(Budget - 1)
  BY Numbers DEF CInv, MayAsk, Asked
<1>2. f \in Slots /\ f \notin InUse /\ IsFiniteSet(InUse) /\ PendingCount \in Nat
  BY FreeSlotExists DEF CInv, MayAsk
<1>3. PICK e : e = [used |-> TRUE, id |-> Asked, point |-> Point(Asked)]
  OBVIOUS
<1>4. /\ e.used = TRUE /\ e.id = Asked /\ e.point = Point(Asked)
      /\ e \in [used : BOOLEAN, id : Ids \cup {-1}, point : 0..Budget]
  BY <1>1, <1>3 DEF Point
<1>5. slots \in [Slots -> [used : BOOLEAN, id : Ids \cup {-1}, point : 0..Budget]]
  BY DEF CInv, Typed, BridgeType
<1>6. slots' = [slots EXCEPT ![f] = e]
  BY <1>3
<1>7. /\ slots' \in [Slots -> [used : BOOLEAN, id : Ids \cup {-1}, point : 0..Budget]]
      /\ slots'[f] = e /\ \A s \in Slots \ {f} : slots'[s] = slots[s]
  BY <1>2, <1>4, <1>5, <1>6
<1>8. InUse' = InUse \cup {f}
  BY <1>2, <1>4, <1>7 DEF InUse
<1>9. PendingCount' = PendingCount + 1
  <2>1. Cardinality(InUse \cup {f}) = Cardinality(InUse) + 1
    BY <1>2, FS_AddElement
  <2>2. QED
    BY <1>8, <2>1 DEF PendingCount
<1>10. \A s \in InUse : slots'[s] = slots[s] /\ s \in Slots
  BY <1>2, <1>7 DEF InUse
<1>11. UsedIds' = UsedIds \cup {Asked}
  <2>1. UsedIds' = {slots'[s].id : s \in InUse \cup {f}}
    BY <1>8 DEF UsedIds
  <2>2. UsedIds = {slots[s].id : s \in InUse}
    BY DEF UsedIds
  <2>3. QED
    BY <1>4, <1>7, <1>10, <2>1, <2>2
<1>12. /\ UsedIds = (0..(Asked - 1)) \ ToldIds
       /\ \A s, t \in InUse : slots[s].id = slots[t].id => s = t
       /\ \A s \in InUse : slots[s].point = Point(slots[s].id)
       /\ PendingCount = Asked - Len(told) /\ bridge.completed = Len(told)
  BY DEF CInv, SlotsAreOwed
<1>13. ToldIds' = ToldIds /\ Asked \notin ToldIds
  <2>1. ToldIds' = ToldIds
    BY DEF ToldIds
  <2>2. \A i \in DOMAIN records : records[i].id < Read
    BY DEF CInv, RecordsAreSound
  <2>3. Read <= Asked /\ Read \in 0..Budget
    BY Numbers DEF CInv, RecordsAreSound
  <2>4. \A i \in 1..Len(told) : i \in DOMAIN records
    <3>1. Len(records) = Len(told) + Len(toBridge)
      BY DEF CInv, TellsFollowRecords
    <3>2. records \in Seq(RowType)
      BY DEF CInv, Typed
    <3>3. DOMAIN records = 1..Len(records) /\ Len(records) \in Nat
      BY <3>2, LenProperties
    <3>4. Len(told) \in Nat /\ Len(toBridge) \in Nat
      BY LenProperties DEF CInv, Typed
    <3>5. QED
      BY <3>1, <3>3, <3>4
  <2>5. \A i \in DOMAIN records : records[i].id # Asked
    <3> SUFFICES ASSUME NEW i \in DOMAIN records, records[i].id = Asked PROVE FALSE
      OBVIOUS
    <3>1. Asked < Read
      BY <2>2
    <3>2. QED
      BY <1>1, <2>3, <3>1
  <2>6. QED
    BY <2>1, <2>4, <2>5 DEF ToldIds
<1>14. UsedIds' = (0..(Asked' - 1)) \ ToldIds'
  <2>1. 0..(Asked' - 1) = (0..(Asked - 1)) \cup {Asked}
    BY <1>1
  <2>2. QED
    BY <1>11, <1>12, <1>13, <2>1
<1>15. \A s \in InUse : slots[s].id # Asked
  <2>1. \A s \in InUse : slots[s].id \in UsedIds
    BY DEF UsedIds
  <2>2. Asked \notin UsedIds
    BY <1>1, <1>12
  <2>3. QED
    BY <2>1, <2>2
<1>16. \A s, t \in InUse' : slots'[s].id = slots'[t].id => s = t
  BY <1>4, <1>7, <1>8, <1>10, <1>12, <1>15
<1>17. \A s \in InUse' : slots'[s].point = Point(slots'[s].id)
  BY <1>4, <1>7, <1>8, <1>10, <1>12
<1>18. PendingCount' = Asked' - Len(told')
  <2>1. Len(told) \in Nat
    BY LenProperties DEF CInv, Typed
  <2>2. QED
    BY <1>1, <1>9, <1>12, <2>1
<1>19. QED
  BY <1>7, <1>9, <1>12, <1>14, <1>16, <1>17, <1>18 DEF SlotsAreOwed
-----------------------------------------------------------------------------
\* How long the four sequences are, and how the counts of the two processes agree.
LEMMA Tallies ==
    ASSUME CInv
    PROVE  /\ Len(told) \in Nat /\ Len(records) \in Nat
           /\ Len(toBridge) \in Nat /\ Len(toRunner) \in Nat
           /\ DOMAIN told = 1..Len(told) /\ DOMAIN records = 1..Len(records)
           /\ DOMAIN toBridge = 1..Len(toBridge) /\ DOMAIN toRunner = 1..Len(toRunner)
           /\ Len(records) = Len(told) + Len(toBridge)
           /\ Len(records) <= Read /\ Read <= Asked
           /\ PendingCount = Asked - Len(told)
           /\ PendingCount \in Nat /\ PendingCount <= Workers
           /\ IsFiniteSet(InUse)
           /\ IsFiniteSet(runner.pending) /\ Cardinality(runner.pending) \in Nat
<1>1. Typed
  BY DEF CInv
<1>2. /\ told \in Seq([point : 1..Budget, answer : 0..Budget])
      /\ records \in Seq(RowType)
      /\ toBridge \in Seq([id : Ids, answer : 0..Budget])
      /\ toRunner \in Seq(Line)
  BY <1>1 DEF Typed
<1>3. Len(told) \in Nat /\ DOMAIN told = 1..Len(told)
  BY <1>2, LenProperties
<1>4. Len(records) \in Nat /\ DOMAIN records = 1..Len(records)
  BY <1>2, LenProperties
<1>5. Len(toBridge) \in Nat /\ DOMAIN toBridge = 1..Len(toBridge)
  BY <1>2, LenProperties
<1>6. Len(toRunner) \in Nat /\ DOMAIN toRunner = 1..Len(toRunner)
  BY <1>2, LenProperties
<1>7. Workers \in Nat \ {0} /\ Budget \in Nat \ {0} /\ Slots = 1..Workers
      /\ Ids = 0..(Budget - 1) /\ runner.pending \subseteq Ids
  BY <1>1, Numbers
<1>8. IsFiniteSet(Slots) /\ Cardinality(Slots) = Workers
  <2>1. 1 \in Int /\ Workers \in Int /\ ~(1 > Workers)
    BY <1>7
  <2>2. /\ IsFiniteSet(1..Workers)
        /\ Cardinality(1..Workers) = IF 1 > Workers THEN 0 ELSE Workers - 1 + 1
    BY <2>1, FS_Interval
  <2>3. QED
    BY <1>7, <2>1, <2>2
<1>9. InUse \subseteq Slots
  BY DEF InUse
<1>10. /\ IsFiniteSet(InUse) /\ PendingCount \in Nat /\ PendingCount <= Workers
  <2>1. IsFiniteSet(InUse) /\ Cardinality(InUse) <= Cardinality(Slots)
    BY <1>8, <1>9, FS_Subset
  <2>2. Cardinality(InUse) \in Nat
    BY <2>1, FS_CardinalityType
  <2>3. QED
    BY <1>8, <2>1, <2>2 DEF PendingCount
<1>11. IsFiniteSet(runner.pending) /\ Cardinality(runner.pending) \in Nat
  <2>1. 0 \in Int /\ Budget - 1 \in Int
    BY <1>7
  <2>2. IsFiniteSet(0..(Budget - 1))
    BY <2>1, FS_Interval
  <2>3. IsFiniteSet(runner.pending)
    BY <1>7, <2>2, FS_Subset
  <2>4. QED
    BY <2>3, FS_CardinalityType
<1>12. /\ Len(records) = Len(told) + Len(toBridge)
       /\ Len(records) <= Read /\ Read <= Asked /\ PendingCount = Asked - Len(told)
  BY DEF CInv, TellsFollowRecords, RecordsAreSound, SlotsAreOwed
<1>13. QED
  BY <1>3, <1>4, <1>5, <1>6, <1>10, <1>11, <1>12

\* A step that leaves the bridge at work leaves the ends as they are.
LEMMA BridgeEndsKept ==
    ASSUME EndsAreEarned, bridge.at \in {"LOOP", "READ"}, bridge'.at \in {"LOOP", "READ"},
           bridge'.why = bridge.why, stdinClosed' = stdinClosed,
           runner' = runner, futures' = futures, records' = records
    PROVE  EndsAreEarned'
<1>1. bridge.why = "" /\ ~BridgeGone
  BY DEF EndsAreEarned, BridgeGone
<1>2. runner.why = "" => Live
  BY DEF EndsAreEarned, Completed
<1>3. ~(runner.why \in {"EOF", "BROKEN_PIPE", "CHECKOUT"})
  BY <1>1 DEF EndsAreEarned
<1>4. ~(runner.at \in {"RETURNED", "WRITTEN", "RAISED"})
  BY <1>1 DEF EndsAreEarned
<1>5. (Live' <=> Live) /\ runner'.at = runner.at /\ runner'.why = runner.why
      /\ Running' = Running
  BY RunnerKept
<1>6. QED
  BY <1>1, <1>2, <1>3, <1>4, <1>5 DEF EndsAreEarned

\* The last lines of the pipe are no asks.
LEMMA LastLines ==
    ASSUME NEW x, x \in [line : {"WAIT", "DONE"}]
    PROVE  x \in Line /\ x.line # "ASK"
BY DEF Line

\* An ask is a line of the pipe.
LEMMA AskIsLine ==
    ASSUME NEW id \in 0..(Budget - 1)
    PROVE  AskLine(id) \in Line /\ AskLine(id).line = "ASK" /\ AskLine(id).id = id
           /\ AskLine(id).point = Point(id) /\ Point(id) \in 1..Budget
<1>1. Budget \in Nat \ {0} /\ Ids = 0..(Budget - 1)
  BY BridgeAssumption DEF Ids
<1>2. Point(id) \in 1..Budget
  BY <1>1 DEF Point
<1>3. QED
  BY <1>1, <1>2 DEF AskLine, Line

\* While the bridge loops, the pipe holds nothing but asks.
LEMMA OnlyAsksInPipe ==
    ASSUME CInv, Live, bridge.at = "LOOP"
    PROVE  Len(toRunner) = Asked - Read
BY DEF CInv, PipeIsInStep

\* The bridge asks for the next point.
LEMMA AskKeeps ==
    ASSUME CInv, BridgeAsk, UNCHANGED runnerVars
    PROVE  CInv'
<1>1. /\ Typed /\ RecordsAreSound /\ TellsFollowRecords /\ SlotsAreOwed /\ PendingIsOwed
      /\ PipeIsInStep /\ TurnsAreTaken /\ PeakIsReached /\ EndsAreEarned
  BY DEF CInv
<1>2. /\ bridge' = [bridge EXCEPT !.dispatched = @ + 1] /\ bridge.at = "LOOP" /\ MayAsk
      /\ slots' = [slots EXCEPT ![FirstFreeSlot] =
                      [used |-> TRUE, id |-> Asked, point |-> Point(Asked)]]
      /\ toRunner' = Append(toRunner, AskLine(Asked)) /\ toBridge' = toBridge
      /\ stdinClosed' = stdinClosed /\ told' = told
      /\ runner' = runner /\ futures' = futures /\ records' = records
  BY DEF BridgeAsk, runnerVars, NextId, Point, AskLine, Asked
<1>3. Asked \in 0..(Budget - 1) /\ Budget \in Nat \ {0} /\ Read \in 0..Budget
  BY <1>1, <1>2, Numbers DEF MayAsk, Asked
<1>4. /\ bridge'.at = "LOOP" /\ bridge'.why = bridge.why /\ Asked' = Asked + 1
      /\ bridge'.completed = bridge.completed
      /\ bridge' \in [at : {"LOOP", "READ", "EXITED", "ABORTED"}, dispatched : 0..Budget,
                      completed : 0..Budget, why : {"", "ASK", "TELL", "EOF"}]
  <2>1. bridge \in [at : {"LOOP", "READ", "EXITED", "ABORTED"}, dispatched : 0..Budget,
                    completed : 0..Budget, why : {"", "ASK", "TELL", "EOF"}]
    BY <1>1 DEF Typed, BridgeType
  <2>2. PICK n : n = bridge.dispatched + 1
    OBVIOUS
  <2>3. n \in 0..Budget
    BY <1>3, <2>2 DEF Asked
  <2>4. bridge' = [bridge EXCEPT !.dispatched = n]
    BY <1>2, <2>2
  <2>5. QED
    BY <1>2, <2>1, <2>2, <2>3, <2>4 DEF Asked
<1>5. /\ Read' = Read /\ (Live' <=> Live) /\ runner'.at = runner.at
      /\ runner'.pending = runner.pending /\ runner'.peak = runner.peak
      /\ runner'.why = runner.why /\ AnsweredIds' = AnsweredIds /\ Running' = Running
  BY <1>2, RunnerKept
<1>6. PICK f : f = FirstFreeSlot
  OBVIOUS
<1>7. /\ SlotsAreOwed' /\ PendingCount' = PendingCount + 1
      /\ slots' \in [Slots -> [used : BOOLEAN, id : Ids \cup {-1}, point : 0..Budget]]
  BY <1>2, <1>4, <1>6, SlotsAfterAsk
<1>8. /\ toRunner' \in Seq(Line) /\ Len(toRunner') = Len(toRunner) + 1
      /\ \A i \in 1..Len(toRunner) : toRunner'[i] = toRunner[i]
      /\ toRunner'[Len(toRunner) + 1] = AskLine(Asked)
      /\ DOMAIN toRunner' = 1..Len(toRunner')
  <2>1. AskLine(Asked) \in Line /\ toRunner \in Seq(Line)
    BY <1>1, <1>3, AskIsLine DEF Typed
  <2>2. toRunner' \in Seq(Line)
    BY <1>2, <2>1, AppendProperties
  <2>3. QED
    BY <1>2, <2>1, <2>2, AppendProperties, LenProperties
<1>9. Typed'
  BY <1>1, <1>2, <1>4, <1>7, <1>8 DEF Typed, BridgeType, RunnerType
<1>10. RecordsAreSound'
  <2>1. Read <= Asked
    BY <1>1 DEF RecordsAreSound
  <2>2. Read' <= Asked'
    <3>1. PICK a, r, b : a = Asked' /\ r = Read' /\ b = Asked
      OBVIOUS
    <3>2. a = b + 1 /\ r = Read
      BY <1>4, <1>5, <3>1, Zenon
    <3>3. b \in Int /\ r \in Int /\ r <= b
      BY <1>3, <2>1, <3>1, <3>2
    <3>4. r <= a
      BY <3>2, <3>3
    <3>5. QED
      BY <3>1, <3>4
  <2>3. QED
    BY <1>1, <1>2, <1>5, <2>2 DEF RecordsAreSound
<1>11. TellsFollowRecords' /\ PendingIsOwed' /\ PeakIsReached'
  BY <1>1, <1>2, <1>4, <1>5, TellsKept, PendingKept, PeakKept
<1>12. PipeIsInStep'
  <2> SUFFICES ASSUME Live PROVE PipeIsInStep'
    BY <1>5 DEF PipeIsInStep
  <2>1. Len(toRunner) = Asked - Read /\ Read <= Asked /\ DOMAIN toRunner = 1..Len(toRunner)
    BY <1>2, OnlyAsksInPipe, Tallies
  <2>2. /\ Len(toRunner') = Asked' - Read' /\ Len(toRunner') # Asked' - Read' + 1
        /\ Asked' - Read' = Asked - Read + 1
    <3>1. PICK a, r, b : a = Asked' /\ r = Read' /\ b = Asked
      OBVIOUS
    <3>2. a = b + 1 /\ r = Read
      BY <1>4, <1>5, <3>1, Zenon
    <3>3. b \in Int /\ r \in Int /\ Len(toRunner) = b - r
      BY <1>3, <2>1, <3>1, <3>2
    <3>4. Len(toRunner') = a - r /\ Len(toRunner') # a - r + 1 /\ a - r = b - r + 1
      BY <1>8, <3>2, <3>3
    <3>5. QED
      BY <1>5, <3>1, <3>4
  <2>3. Len(toRunner') # Asked' - Read' + 1
    BY <2>2
  <2>4. ~Waits' /\ ~Done'
    BY <2>3 DEF Waits, Done
  <2>5. ASSUME NEW i \in 1..(Asked' - Read')
        PROVE  i \in DOMAIN toRunner' /\ toRunner'[i] = AskLine(Read' + i - 1)
    <3>1. CASE i \in 1..(Asked - Read)
      <4>1. i \in DOMAIN toRunner /\ toRunner[i] = AskLine(Read + i - 1)
        BY <1>1, <3>1 DEF PipeIsInStep
      <4>2. i \in DOMAIN toRunner'
        BY <1>8, <2>2
      <4>3. toRunner'[i] = toRunner[i]
        BY <1>8, <2>1, <4>1
      <4>4. QED
        BY <1>5, <4>1, <4>2, <4>3
    <3>2. CASE i \notin 1..(Asked - Read)
      <4>1. i = Len(toRunner) + 1 /\ Read + i - 1 = Asked
        <5>1. Asked \in Int /\ Read \in Int /\ i \in 1..(Asked - Read + 1)
          BY <1>3, <2>2
        <5>2. QED
          BY <2>1, <3>2, <5>1
      <4>2. i \in DOMAIN toRunner'
        BY <1>8, <2>2
      <4>3. QED
        BY <1>5, <1>8, <4>1, <4>2
    <3>3. QED
      BY <3>1, <3>2
  <2>6. QED
    BY <1>4, <2>2, <2>4, <2>5 DEF PipeIsInStep
<1>13. TurnsAreTaken'
  BY <1>1, <1>2, <1>5 DEF TurnsAreTaken
<1>14. EndsAreEarned'
  BY <1>1, <1>2, <1>4, BridgeEndsKept
<1>15. QED
  BY <1>7, <1>9, <1>10, <1>11, <1>12, <1>13, <1>14 DEF CInv

\* The bridge is told that no region has a surrogate yet.
LEMMA WaitKeeps ==
    ASSUME CInv, BridgeWait, UNCHANGED runnerVars
    PROVE  CInv'
<1>1. /\ Typed /\ RecordsAreSound /\ TellsFollowRecords /\ SlotsAreOwed /\ PendingIsOwed
      /\ PipeIsInStep /\ TurnsAreTaken /\ PeakIsReached /\ EndsAreEarned
  BY DEF CInv
<1>2. PICK w : w = [line |-> "WAIT"]
  OBVIOUS
<1>3. /\ bridge' = [bridge EXCEPT !.at = "READ"] /\ bridge.at = "LOOP" /\ MayAsk
      /\ PendingCount >= 1 /\ Asked >= Initial
      /\ slots' = slots /\ toRunner' = Append(toRunner, w) /\ toBridge' = toBridge
      /\ stdinClosed' = stdinClosed /\ told' = told
      /\ runner' = runner /\ futures' = futures /\ records' = records
  BY <1>2 DEF BridgeWait, runnerVars, Asked
<1>4. /\ bridge'.at = "READ" /\ bridge'.why = bridge.why /\ Asked' = Asked
      /\ bridge'.completed = bridge.completed
      /\ bridge' \in [at : {"LOOP", "READ", "EXITED", "ABORTED"}, dispatched : 0..Budget,
                      completed : 0..Budget, why : {"", "ASK", "TELL", "EOF"}]
  BY <1>1, <1>3, BridgeMoves DEF Typed
<1>5. /\ Read' = Read /\ (Live' <=> Live) /\ runner'.at = runner.at
      /\ runner'.pending = runner.pending /\ runner'.peak = runner.peak
      /\ runner'.why = runner.why /\ AnsweredIds' = AnsweredIds /\ Running' = Running
  BY <1>3, RunnerKept
<1>6. /\ SlotsAreOwed' /\ PendingCount' = PendingCount
  BY <1>1, <1>3, <1>4, SlotsKept
<1>7. /\ toRunner' \in Seq(Line) /\ Len(toRunner') = Len(toRunner) + 1
      /\ \A i \in 1..Len(toRunner) : toRunner'[i] = toRunner[i]
      /\ toRunner'[Len(toRunner) + 1] = w
      /\ DOMAIN toRunner' = 1..Len(toRunner')
  <2>1. w \in Line /\ toRunner \in Seq(Line)
    BY <1>1, <1>2 DEF Typed, Line
  <2>2. toRunner' \in Seq(Line)
    BY <1>3, <2>1, AppendProperties
  <2>3. QED
    BY <1>3, <2>1, <2>2, AppendProperties, LenProperties
<1>8. Typed'
  BY <1>1, <1>3, <1>4, <1>7 DEF Typed, BridgeType, RunnerType
<1>9. RecordsAreSound' /\ TellsFollowRecords' /\ PendingIsOwed' /\ PeakIsReached'
  BY <1>1, <1>3, <1>4, <1>5, RecordsKept, TellsKept, PendingKept, PeakKept
<1>10. PipeIsInStep'
  <2> SUFFICES ASSUME Live PROVE PipeIsInStep'
    BY <1>5 DEF PipeIsInStep
  <2>1. Len(toRunner) = Asked - Read /\ Len(toRunner) \in Nat
        /\ DOMAIN toRunner = 1..Len(toRunner)
    BY <1>3, OnlyAsksInPipe, Tallies
  <2>2. Asked \in Nat /\ Read \in Nat
    BY <1>1, Numbers
  <2>3. toRunner'[Asked' - Read' + 1] = w /\ Len(toRunner') = Asked' - Read' + 1
    BY <1>4, <1>5, <1>7, <2>1
  <2>4. Waits' /\ ~Done'
    BY <1>2, <2>3 DEF Waits, Done
  <2>5. ASSUME NEW i \in 1..(Asked' - Read')
        PROVE  i \in DOMAIN toRunner' /\ toRunner'[i] = AskLine(Read' + i - 1)
    <3>1. i \in DOMAIN toRunner /\ toRunner[i] = AskLine(Read + i - 1)
      BY <1>1, <1>4, <1>5 DEF PipeIsInStep
    <3>2. i \in DOMAIN toRunner'
      BY <1>7, <2>1, <3>1
    <3>3. toRunner'[i] = toRunner[i]
      BY <1>7, <2>1, <3>1
    <3>4. QED
      BY <1>5, <3>1, <3>2, <3>3
  <2>6. MayAsk' /\ PendingCount' >= 1 /\ Asked' >= Initial
    BY <1>3, <1>4, <1>6 DEF MayAsk, Asked
  <2>7. toBridge' = <<>> /\ runner'.at = "LOOP"
    BY <1>1, <1>3, <1>5 DEF TurnsAreTaken
  <2>8. QED
    BY <1>4, <2>4, <2>5, <2>6, <2>7 DEF PipeIsInStep
<1>11. TurnsAreTaken'
  BY <1>1, <1>3, <1>4, <1>5 DEF TurnsAreTaken
<1>12. EndsAreEarned'
  BY <1>1, <1>3, <1>4, BridgeEndsKept
<1>13. QED
  BY <1>6, <1>8, <1>9, <1>10, <1>11, <1>12 DEF CInv
\* The result at the head of the pipe is that of the first record not told yet.
LEMMA HeadOfResults ==
    ASSUME CInv, toBridge # <<>>
    PROVE  LET i == Len(told) + 1
           IN  /\ i \in DOMAIN records /\ i \in 1..Len(records)
               /\ Head(toBridge) = [id |-> records[i].id, answer |-> records[i].answer]
               /\ Tail(toBridge) \in Seq([id : Ids, answer : 0..Budget])
               /\ Len(Tail(toBridge)) = Len(toBridge) - 1 /\ Len(toBridge) >= 1
               /\ \A j \in 1..Len(Tail(toBridge)) : Tail(toBridge)[j] = toBridge[j + 1]
<1>1. toBridge \in Seq([id : Ids, answer : 0..Budget])
  BY DEF CInv, Typed
<1>2. /\ Len(toBridge) \in Nat /\ Len(told) \in Nat /\ Len(records) \in Nat
      /\ DOMAIN toBridge = 1..Len(toBridge) /\ DOMAIN records = 1..Len(records)
      /\ Len(records) = Len(told) + Len(toBridge)
  BY Tallies
<1>3. Len(toBridge) >= 1
  BY <1>1, <1>2, EmptySeq
<1>4. PICK i : i = Len(told) + 1
  OBVIOUS
<1>5. i \in 1..Len(records)
  BY <1>2, <1>3, <1>4
<1>6. Head(toBridge) = toBridge[1]
  BY <1>1, <1>3
<1>7. toBridge[1] = [id |-> records[Len(told) + 1].id,
                    answer |-> records[Len(told) + 1].answer]
  BY <1>2, <1>3 DEF CInv, TellsFollowRecords
<1>8. /\ Tail(toBridge) \in Seq([id : Ids, answer : 0..Budget])
      /\ Len(Tail(toBridge)) = Len(toBridge) - 1
      /\ \A j \in 1..Len(Tail(toBridge)) : Tail(toBridge)[j] = toBridge[j + 1]
  BY <1>1, HeadTailProperties
<1>9. QED
  BY <1>2, <1>3, <1>4, <1>5, <1>6, <1>7, <1>8

\* The id of that record is asked for and not told, so one slot bears it.
LEMMA HeadIsInSlot ==
    ASSUME CInv, NEW i, i = Len(told) + 1, i \in 1..Len(records)
    PROVE  /\ records[i].id \in UsedIds /\ records[i].id \notin ToldIds
           /\ records[i].id \in Ids
           /\ records[i].point = Point(records[i].id)
           /\ records[i].answer \in {0, records[i].point}
           /\ records[i].point \in 1..Budget /\ records[i].answer \in 0..Budget
<1>1. /\ Len(told) \in Nat /\ Len(records) \in Nat /\ DOMAIN records = 1..Len(records)
      /\ Len(records) <= Read /\ Read <= Asked /\ Len(records) >= Len(told)
  <2>1. Len(records) = Len(told) + Len(toBridge) /\ Len(toBridge) \in Nat
    BY Tallies
  <2>2. QED
    BY <2>1, Tallies
<1>2. /\ records[i].id \in Ids /\ records[i].point \in 1..Budget
      /\ records[i].answer \in 0..Budget
  <2>1. records[i] \in RowType
    BY ElementOfSeq DEF CInv, Typed
  <2>2. QED
    BY <2>1 DEF RowType
<1>3. /\ records[i].point = Point(records[i].id)
      /\ records[i].answer \in {0, records[i].point} /\ records[i].id < Read
  BY <1>1 DEF CInv, RecordsAreSound
<1>4. records[i].id \notin ToldIds
  <2> SUFFICES ASSUME records[i].id \in ToldIds PROVE FALSE
    OBVIOUS
  <2>1. PICK j \in 1..Len(told) : records[j].id = records[i].id
    BY DEF ToldIds
  <2>2. j \in DOMAIN records /\ i \in DOMAIN records /\ j # i
    BY <1>1
  <2>3. QED
    BY <2>1, <2>2 DEF CInv, RecordsAreSound
<1>5. records[i].id \in 0..(Asked - 1)
  <2>1. PICK n : n = records[i].id
    OBVIOUS
  <2>2. n \in 0..(Budget - 1) /\ n < Read /\ Asked \in 0..Budget /\ Read \in 0..Budget
    BY <1>2, <1>3, <2>1, Numbers DEF CInv
  <2>3. n \in 0..(Asked - 1)
    BY <1>1, <2>2, Numbers DEF CInv
  <2>4. QED
    BY <2>1, <2>3
<1>6. records[i].id \in UsedIds
  BY <1>4, <1>5 DEF CInv, SlotsAreOwed
<1>7. QED
  BY <1>2, <1>3, <1>4, <1>6

\* The slots after a tell: the one of the told candidate is free again.
LEMMA SlotsAfterTell ==
    ASSUME CInv, NEW i, i = Len(told) + 1, i \in 1..Len(records),
           NEW s \in InUse, slots[s].id = records[i].id,
           slots' = [slots EXCEPT ![s] = Freed(s)],
           Asked' = Asked, Len(told') = Len(told) + 1, records' = records,
           bridge'.completed = Len(told')
    PROVE  /\ SlotsAreOwed' /\ PendingCount' = PendingCount - 1
           /\ PendingCount \in Nat \ {0}
           /\ slots' \in [Slots -> [used : BOOLEAN, id : Ids \cup {-1}, point : 0..Budget]]
<1>1. slots \in [Slots -> [used : BOOLEAN, id : Ids \cup {-1}, point : 0..Budget]]
  BY DEF CInv, Typed, BridgeType
<1>2. s \in Slots
  BY DEF InUse
<1>3. PICK e : e = Freed(s)
  OBVIOUS
<1>4. e.used = FALSE /\ e \in [used : BOOLEAN, id : Ids \cup {-1}, point : 0..Budget]
  <2>1. slots[s].point \in 0..Budget
    BY <1>1, <1>2
  <2>2. QED
    BY <1>3, <2>1 DEF Freed
<1>5. slots' = [slots EXCEPT ![s] = e]
  BY <1>3
<1>6. /\ slots' \in [Slots -> [used : BOOLEAN, id : Ids \cup {-1}, point : 0..Budget]]
      /\ slots'[s] = e /\ \A t \in Slots \ {s} : slots'[t] = slots[t]
  BY <1>1, <1>2, <1>4, <1>5
<1>7. InUse' = InUse \ {s}
  BY <1>2, <1>4, <1>6 DEF InUse
<1>8. \A t \in InUse \ {s} : t \in Slots /\ slots'[t] = slots[t]
  BY <1>6 DEF InUse
<1>9. PendingCount' = PendingCount - 1 /\ PendingCount \in Nat \ {0}
  <2>1. IsFiniteSet(InUse) /\ PendingCount \in Nat
    BY Tallies
  <2>2. Cardinality(InUse \ {s}) = Cardinality(InUse) - 1
    BY <2>1, FS_RemoveElement
  <2>3. IsFiniteSet(InUse \ {s})
    BY <2>1, FS_RemoveElement
  <2>4. Cardinality(InUse \ {s}) \in Nat
    BY <2>3, FS_CardinalityType
  <2>5. QED
    BY <1>7, <2>1, <2>2, <2>4 DEF PendingCount
<1>10. /\ UsedIds = (0..(Asked - 1)) \ ToldIds
       /\ \A t, u \in InUse : slots[t].id = slots[u].id => t = u
       /\ \A t \in InUse : slots[t].point = Point(slots[t].id)
       /\ PendingCount = Asked - Len(told)
  BY DEF CInv, SlotsAreOwed
<1>11. UsedIds' = UsedIds \ {records[i].id}
  <2>1. UsedIds' = {slots'[t].id : t \in InUse \ {s}}
    BY <1>7 DEF UsedIds
  <2>2. UsedIds' = {slots[t].id : t \in InUse \ {s}}
    BY <1>8, <2>1
  <2>3. UsedIds = {slots[t].id : t \in InUse}
    BY DEF UsedIds
  <2>4. \A t \in InUse : slots[t].id = records[i].id => t = s
    BY <1>10
  <2>5. QED
    BY <2>2, <2>3, <2>4
<1>12. ToldIds' = ToldIds \cup {records[i].id}
  <2>1. Len(told) \in Nat
    BY Tallies
  <2>2. 1..Len(told') = 1..Len(told) \cup {i}
    BY <2>1
  <2>3. ToldIds' = {records[j].id : j \in 1..Len(told')}
    BY DEF ToldIds
  <2>4. QED
    BY <2>2, <2>3 DEF ToldIds
<1>13. UsedIds' = (0..(Asked' - 1)) \ ToldIds'
  BY <1>10, <1>11, <1>12
<1>14. \A t, u \in InUse' : slots'[t].id = slots'[u].id => t = u
  BY <1>7, <1>8, <1>10
<1>15. \A t \in InUse' : slots'[t].point = Point(slots'[t].id)
  BY <1>7, <1>8, <1>10
<1>16. PendingCount' = Asked' - Len(told')
  <2>1. PICK n : n = Asked
    OBVIOUS
  <2>2. n \in Int /\ Len(told) \in Nat
    BY <2>1, Tallies, Numbers DEF CInv
  <2>3. PendingCount' = n - (Len(told) + 1)
    BY <1>9, <1>10, <2>1, <2>2
  <2>4. QED
    BY <2>1, <2>3
<1>17. QED
  BY <1>6, <1>9, <1>13, <1>14, <1>15, <1>16 DEF SlotsAreOwed

\* What a tell appends is the point and the answer of the record it is about.
LEMMA TellTells ==
    ASSUME CInv, BridgeTell
    PROVE  LET i == Len(told) + 1
           IN  /\ i \in 1..Len(records) /\ toBridge # <<>>
               /\ told' = Append(told, [point |-> records[i].point,
                                        answer |-> records[i].answer])
               /\ \E s \in InUse : slots[s].id = records[i].id
                                   /\ slots' = [slots EXCEPT ![s] = Freed(s)]
               /\ records[i].point \in 1..Budget /\ records[i].answer \in 0..Budget
<1>1. toBridge # <<>>
  BY DEF BridgeTell
<1>2. PICK i : i = Len(told) + 1
  OBVIOUS
<1>3. /\ i \in 1..Len(records)
      /\ Head(toBridge) = [id |-> records[i].id, answer |-> records[i].answer]
  BY <1>1, <1>2, HeadOfResults
<1>4. Head(toBridge).id = records[i].id /\ Head(toBridge).answer = records[i].answer
  BY <1>3
<1>5. PICK s \in SlotOf(records[i].id) :
          /\ told' = Append(told, [point |-> slots[s].point,
                                   answer |-> records[i].answer])
          /\ slots' = [slots EXCEPT ![s] = Freed(s)]
  BY <1>4 DEF BridgeTell
<1>6. s \in InUse /\ slots[s].id = records[i].id
  BY <1>5 DEF SlotOf
<1>7. slots[s].point = Point(records[i].id)
  BY <1>6 DEF CInv, SlotsAreOwed
<1>8. /\ records[i].point = Point(records[i].id)
      /\ records[i].point \in 1..Budget /\ records[i].answer \in 0..Budget
  BY <1>2, <1>3, HeadIsInSlot
<1>9. QED
  BY <1>1, <1>2, <1>3, <1>5, <1>6, <1>7, <1>8

\* The bridge tells the driver the first result it has not told yet.
LEMMA TellKeeps ==
    ASSUME CInv, BridgeTell, UNCHANGED runnerVars
    PROVE  CInv'
<1>1. /\ Typed /\ RecordsAreSound /\ TellsFollowRecords /\ SlotsAreOwed /\ PendingIsOwed
      /\ PipeIsInStep /\ TurnsAreTaken /\ PeakIsReached /\ EndsAreEarned
  BY DEF CInv
<1>2. PICK i : i = Len(told) + 1
  OBVIOUS
<1>3. PICK e : e = [point |-> records[i].point, answer |-> records[i].answer]
  OBVIOUS
<1>4. /\ i \in 1..Len(records) /\ toBridge # <<>> /\ told' = Append(told, e)
      /\ e \in [point : 1..Budget, answer : 0..Budget]
      /\ \E s \in InUse : slots[s].id = records[i].id
                          /\ slots' = [slots EXCEPT ![s] = Freed(s)]
  BY <1>2, <1>3, TellTells
<1>5. /\ bridge.at = "READ" /\ bridge' = [bridge EXCEPT !.at = "LOOP", !.completed = @ + 1]
      /\ toBridge' = Tail(toBridge) /\ toRunner' = toRunner /\ stdinClosed' = stdinClosed
      /\ runner' = runner /\ futures' = futures /\ records' = records
  BY DEF BridgeTell, runnerVars
<1>6. /\ told' \in Seq([point : 1..Budget, answer : 0..Budget])
      /\ Len(told') = Len(told) + 1 /\ told'[i] = e
      /\ \A j \in 1..Len(told) : told'[j] = told[j]
      /\ DOMAIN told' = 1..Len(told')
  <2>1. told \in Seq([point : 1..Budget, answer : 0..Budget])
    BY <1>1 DEF Typed
  <2>2. told' \in Seq([point : 1..Budget, answer : 0..Budget])
    BY <1>4, <2>1, AppendProperties
  <2>3. QED
    BY <1>2, <1>4, <2>1, <2>2, AppendProperties, LenProperties
<1>7. /\ Len(told) \in Nat /\ Len(records) \in Nat /\ Len(toBridge) \in Nat
      /\ DOMAIN told = 1..Len(told) /\ DOMAIN toBridge = 1..Len(toBridge)
      /\ Len(records) = Len(told) + Len(toBridge)
      /\ Len(records) <= Read /\ Read <= Asked
  BY Tallies
<1>8. Asked \in 0..Budget /\ Read \in 0..Budget /\ Budget \in Nat \ {0}
  BY <1>1, Numbers
<1>9. /\ bridge'.at = "LOOP" /\ bridge'.why = bridge.why /\ Asked' = Asked
      /\ bridge'.completed = Len(told')
      /\ bridge' \in [at : {"LOOP", "READ", "EXITED", "ABORTED"}, dispatched : 0..Budget,
                      completed : 0..Budget, why : {"", "ASK", "TELL", "EOF"}]
  <2>1. bridge \in [at : {"LOOP", "READ", "EXITED", "ABORTED"}, dispatched : 0..Budget,
                    completed : 0..Budget, why : {"", "ASK", "TELL", "EOF"}]
    BY <1>1 DEF Typed, BridgeType
  <2>2. PICK n : n = bridge.completed + 1
    OBVIOUS
  <2>3. n = Len(told) + 1
    BY <1>1, <2>2 DEF SlotsAreOwed
  <2>4. n \in 0..Budget
    <3>1. Len(told) < Len(records)
      BY <1>2, <1>4, <1>7
    <3>2. QED
      BY <1>7, <1>8, <2>3, <3>1
  <2>5. bridge' = [bridge EXCEPT !.at = "LOOP", !.completed = n]
    BY <1>5, <2>2
  <2>6. QED
    BY <1>6, <2>1, <2>3, <2>4, <2>5 DEF Asked
<1>10. /\ Read' = Read /\ (Live' <=> Live) /\ runner'.at = runner.at
       /\ runner'.pending = runner.pending /\ runner'.peak = runner.peak
       /\ runner'.why = runner.why /\ AnsweredIds' = AnsweredIds /\ Running' = Running
  BY <1>5, RunnerKept
<1>11. /\ SlotsAreOwed'
       /\ slots' \in [Slots -> [used : BOOLEAN, id : Ids \cup {-1}, point : 0..Budget]]
  BY <1>2, <1>4, <1>5, <1>6, <1>9, SlotsAfterTell
<1>12. /\ toBridge' \in Seq([id : Ids, answer : 0..Budget])
       /\ Len(toBridge') = Len(toBridge) - 1 /\ Len(toBridge) >= 1
       /\ \A j \in 1..Len(toBridge') : toBridge'[j] = toBridge[j + 1]
       /\ DOMAIN toBridge' = 1..Len(toBridge')
  <2>1. /\ toBridge' \in Seq([id : Ids, answer : 0..Budget])
        /\ Len(toBridge') = Len(toBridge) - 1 /\ Len(toBridge) >= 1
        /\ \A j \in 1..Len(toBridge') : toBridge'[j] = toBridge[j + 1]
    BY <1>4, <1>5, HeadOfResults
  <2>2. DOMAIN toBridge' = 1..Len(toBridge')
    BY <2>1, LenProperties
  <2>3. QED
    BY <2>1, <2>2
<1>13. Typed'
  BY <1>1, <1>5, <1>6, <1>9, <1>11, <1>12 DEF Typed, BridgeType, RunnerType
<1>14. RecordsAreSound' /\ PendingIsOwed' /\ PeakIsReached'
  BY <1>1, <1>5, <1>9, <1>10, RecordsKept, PendingKept, PeakKept
<1>15. TellsFollowRecords'
  <2>1. Len(records') = Len(told') + Len(toBridge')
    BY <1>5, <1>6, <1>7, <1>12
  <2>2. ASSUME NEW j \in DOMAIN told'
        PROVE  told'[j] = [point |-> records'[j].point, answer |-> records'[j].answer]
    <3>1. CASE j = i
      BY <1>3, <1>5, <1>6, <3>1
    <3>2. CASE j # i
      <4>1. j \in DOMAIN told /\ j \in 1..Len(told)
        BY <1>2, <1>6, <1>7, <3>2
      <4>2. told'[j] = told[j]
        BY <1>6, <4>1
      <4>3. told[j] = [point |-> records[j].point, answer |-> records[j].answer]
        BY <1>1, <4>1 DEF TellsFollowRecords
      <4>4. QED
        BY <1>5, <4>2, <4>3
    <3>3. QED
      BY <3>1, <3>2
  <2>3. ASSUME NEW j \in DOMAIN toBridge'
        PROVE  toBridge'[j] = [id |-> records'[Len(told') + j].id,
                               answer |-> records'[Len(told') + j].answer]
    <3>1. /\ j + 1 \in DOMAIN toBridge /\ toBridge'[j] = toBridge[j + 1]
          /\ Len(told') + j = Len(told) + (j + 1)
      BY <1>6, <1>7, <1>12
    <3>2. toBridge[j + 1] = [id |-> records[Len(told) + (j + 1)].id,
                             answer |-> records[Len(told) + (j + 1)].answer]
      BY <1>1, <3>1 DEF TellsFollowRecords
    <3>3. QED
      BY <1>5, <3>1, <3>2
  <2>4. QED
    BY <2>1, <2>2, <2>3 DEF TellsFollowRecords
<1>16. PipeIsInStep'
  <2> SUFFICES ASSUME Live PROVE PipeIsInStep'
    BY <1>10 DEF PipeIsInStep
  <2>1. ~Waits /\ ~Done
    BY <1>1, <1>4, <1>5 DEF PipeIsInStep
  <2>2. (Waits' <=> Waits) /\ (Done' <=> Done)
    BY <1>5, <1>9, <1>10 DEF Waits, Done
  <2>3. QED
    BY <1>1, <1>5, <1>9, <1>10, <2>1, <2>2 DEF PipeIsInStep
<1>17. TurnsAreTaken'
  <2> SUFFICES ASSUME Live PROVE TurnsAreTaken'
    BY <1>10 DEF TurnsAreTaken
  <2>1. ASSUME MayAsk'
        PROVE  toBridge' = <<>> /\ runner'.at = "LOOP"
    <3>1. Asked < Budget
      BY <1>9, <2>1 DEF MayAsk, Asked
    <3>2. Read # Budget
      BY <1>7, <1>8, <3>1
    <3>3. ~(Len(toBridge) >= 2) /\ runner.at # "COMPLETE"
      BY <1>1, <1>4, <3>2 DEF TurnsAreTaken
    <3>4. Len(toBridge') = 0
      BY <1>7, <1>12, <3>3
    <3>5. toBridge' = <<>>
      BY <1>12, <3>4, EmptySeq
    <3>6. QED
      BY <1>10, <3>3, <3>5 DEF Live
  <2>2. runner'.at = "COMPLETE" => Read' = Budget
    BY <1>1, <1>4, <1>10 DEF TurnsAreTaken
  <2>3. Len(toBridge') >= 2 => Len(toBridge) >= 2
    BY <1>7, <1>12
  <2>4. Len(toBridge') >= 2 => Read' = Budget
    BY <1>1, <1>10, <2>3 DEF TurnsAreTaken
  <2>5. QED
    BY <2>1, <2>2, <2>4 DEF TurnsAreTaken
<1>18. EndsAreEarned'
  BY <1>1, <1>5, <1>9, BridgeEndsKept
<1>19. QED
  BY <1>11, <1>13, <1>14, <1>15, <1>16, <1>17, <1>18 DEF CInv

\* The bridge has told the whole budget and says so.
LEMMA DoneKeeps ==
    ASSUME CInv, BridgeDone, UNCHANGED runnerVars
    PROVE  CInv'
<1>1. /\ Typed /\ RecordsAreSound /\ TellsFollowRecords /\ SlotsAreOwed /\ PendingIsOwed
      /\ PipeIsInStep /\ TurnsAreTaken /\ PeakIsReached /\ EndsAreEarned
  BY DEF CInv
<1>2. PICK w : w = [line |-> "DONE"]
  OBVIOUS
<1>3. /\ bridge' = [bridge EXCEPT !.at = "EXITED"] /\ bridge.at = "LOOP" /\ AllTold
      /\ slots' = slots /\ toRunner' = Append(toRunner, w) /\ toBridge' = toBridge
      /\ stdinClosed' = stdinClosed /\ told' = told
      /\ runner' = runner /\ futures' = futures /\ records' = records
  BY <1>2 DEF BridgeDone, runnerVars
<1>4. /\ bridge'.at = "EXITED" /\ bridge'.why = bridge.why /\ Asked' = Asked
      /\ bridge'.completed = bridge.completed
      /\ bridge' \in [at : {"LOOP", "READ", "EXITED", "ABORTED"}, dispatched : 0..Budget,
                      completed : 0..Budget, why : {"", "ASK", "TELL", "EOF"}]
  BY <1>1, <1>3, BridgeMoves DEF Typed
<1>5. /\ Read' = Read /\ (Live' <=> Live) /\ runner'.at = runner.at
      /\ runner'.pending = runner.pending /\ runner'.peak = runner.peak
      /\ runner'.why = runner.why /\ AnsweredIds' = AnsweredIds /\ Running' = Running
  BY <1>3, RunnerKept
<1>6. /\ SlotsAreOwed' /\ PendingCount' = PendingCount
  BY <1>1, <1>3, <1>4, SlotsKept
<1>7. /\ toRunner' \in Seq(Line) /\ Len(toRunner') = Len(toRunner) + 1
      /\ \A i \in 1..Len(toRunner) : toRunner'[i] = toRunner[i]
      /\ toRunner'[Len(toRunner) + 1] = w
      /\ DOMAIN toRunner' = 1..Len(toRunner')
  <2>1. w \in Line /\ toRunner \in Seq(Line)
    BY <1>1, <1>2 DEF Typed, Line
  <2>2. toRunner' \in Seq(Line)
    BY <1>3, <2>1, AppendProperties
  <2>3. QED
    BY <1>3, <2>1, <2>2, AppendProperties, LenProperties
<1>8. Typed'
  BY <1>1, <1>3, <1>4, <1>7 DEF Typed, BridgeType, RunnerType
<1>9. RecordsAreSound' /\ TellsFollowRecords' /\ PendingIsOwed' /\ PeakIsReached'
  BY <1>1, <1>3, <1>4, <1>5, RecordsKept, TellsKept, PendingKept, PeakKept
<1>10. Len(told) = Budget /\ Asked = Budget
  <2>1. bridge.completed >= Budget /\ PendingCount = 0 /\ bridge.completed = Len(told)
    BY <1>1, <1>3 DEF AllTold, SlotsAreOwed
  <2>2. bridge.completed \in 0..Budget /\ Budget \in Nat \ {0} /\ Asked \in 0..Budget
    BY <1>1, Numbers DEF Typed, BridgeType
  <2>3. PendingCount = Asked - Len(told)
    BY Tallies
  <2>4. QED
    BY <2>1, <2>2, <2>3
<1>11. PipeIsInStep'
  <2> SUFFICES ASSUME Live PROVE PipeIsInStep'
    BY <1>5 DEF PipeIsInStep
  <2>1. Len(toRunner) = Asked - Read /\ Len(toRunner) \in Nat
        /\ DOMAIN toRunner = 1..Len(toRunner)
    BY <1>3, OnlyAsksInPipe, Tallies
  <2>2. Asked \in Nat /\ Read \in Nat
    BY <1>1, Numbers
  <2>3. toRunner'[Asked' - Read' + 1] = w /\ Len(toRunner') = Asked' - Read' + 1
    BY <1>4, <1>5, <1>7, <2>1
  <2>4. ~Waits' /\ Done'
    BY <1>2, <2>3 DEF Waits, Done
  <2>5. ASSUME NEW i \in 1..(Asked' - Read')
        PROVE  i \in DOMAIN toRunner' /\ toRunner'[i] = AskLine(Read' + i - 1)
    <3>1. i \in DOMAIN toRunner /\ toRunner[i] = AskLine(Read + i - 1)
      BY <1>1, <1>4, <1>5 DEF PipeIsInStep
    <3>2. i \in DOMAIN toRunner'
      BY <1>7, <2>1, <3>1
    <3>3. toRunner'[i] = toRunner[i]
      BY <1>7, <2>1, <3>1
    <3>4. QED
      BY <1>5, <3>1, <3>2, <3>3
  <2>6. QED
    BY <1>4, <2>4, <2>5 DEF PipeIsInStep
<1>12. TurnsAreTaken'
  BY <1>1, <1>3, <1>4, <1>5 DEF TurnsAreTaken
<1>13. EndsAreEarned'
  <2>1. bridge.why = "" /\ ~BridgeGone
    BY <1>1, <1>3 DEF EndsAreEarned, BridgeGone
  <2>2. runner.why = "" => Live
    BY <1>1, <1>3 DEF EndsAreEarned, Completed
  <2>3. ~(runner.at \in {"RETURNED", "WRITTEN", "RAISED"})
    BY <1>1, <2>1 DEF EndsAreEarned
  <2>4. ~(runner.why \in {"EOF", "BROKEN_PIPE", "CHECKOUT"})
    BY <1>1, <1>3, <2>1 DEF EndsAreEarned
  <2>5. Len(told') = Budget /\ Asked' = Budget
    BY <1>3, <1>4, <1>10
  <2>6. QED
    BY <1>1, <1>3, <1>4, <1>5, <2>1, <2>2, <2>3, <2>4, <2>5 DEF EndsAreEarned
<1>14. QED
  BY <1>6, <1>8, <1>9, <1>11, <1>12, <1>13 DEF CInv
-----------------------------------------------------------------------------
\* The larger of two numbers.
LEMMA MaxOfTwo ==
    ASSUME NEW a \in Int, NEW b \in Int
    PROVE  Max({a, b}) = IF a >= b THEN a ELSE b
<1>1. PICK m : m = IF a >= b THEN a ELSE b
  OBVIOUS
<1>2. m \in {a, b} /\ \A y \in {a, b} : m >= y
  BY <1>1
<1>3. \A x \in {a, b} : (\A y \in {a, b} : x >= y) => x = m
  BY <1>1
<1>4. Max({a, b}) \in {a, b} /\ \A y \in {a, b} : Max({a, b}) >= y
  BY <1>2 DEF Max
<1>5. QED
  BY <1>1, <1>3, <1>4

\* A step of the runner leaves what the bridge knows.
LEMMA BridgeKept ==
    ASSUME bridge' = bridge, slots' = slots
    PROVE  /\ Asked' = Asked /\ (MayAsk' <=> MayAsk) /\ (BridgeGone' <=> BridgeGone)
           /\ PendingCount' = PendingCount
BY DEF Asked, MayAsk, BridgeGone, PendingCount, InUse

\* Once the runner is out of its loop, only the records and the ends are left.
LEMMA OutOfLoop ==
    ASSUME CInv, ~Live', Read' = Read, runner'.pending \subseteq runner.pending,
           bridge' = bridge, slots' = slots, told' = told, toBridge' = toBridge,
           futures' = futures, records' = records
    PROVE  /\ RecordsAreSound' /\ TellsFollowRecords' /\ SlotsAreOwed' /\ PendingIsOwed'
           /\ PipeIsInStep' /\ TurnsAreTaken' /\ PeakIsReached'
<1>1. /\ RecordsAreSound /\ TellsFollowRecords /\ SlotsAreOwed /\ PendingIsOwed
  BY DEF CInv
<1>2. Asked' = Asked /\ AnsweredIds' = AnsweredIds
  BY BridgeKept DEF AnsweredIds
<1>3. RecordsAreSound' /\ TellsFollowRecords' /\ SlotsAreOwed'
  BY <1>1, <1>2, RecordsKept, TellsKept, SlotsKept
<1>4. PendingIsOwed'
  <2>1. runner'.pending \cap AnsweredIds' = {}
    BY <1>1, <1>2 DEF PendingIsOwed
  <2>2. \A id \in runner'.pending : id < Read' /\ futures'[id].state # "NONE"
    BY <1>1 DEF PendingIsOwed
  <2>3. QED
    BY <2>1, <2>2 DEF PendingIsOwed
<1>5. QED
  BY <1>3, <1>4 DEF PipeIsInStep, TurnsAreTaken, PeakIsReached

\* What the runner finds at the head of the pipe, and what is left behind it.
LEMMA HeadOfLines ==
    ASSUME CInv, Live, toRunner # <<>>
    PROVE  /\ Tail(toRunner) \in Seq(Line) /\ Len(Tail(toRunner)) = Len(toRunner) - 1
           /\ \A i \in 1..Len(Tail(toRunner)) : Tail(toRunner)[i] = toRunner[i + 1]
           /\ DOMAIN Tail(toRunner) = 1..Len(Tail(toRunner))
           /\ Read < Asked => Head(toRunner) = AskLine(Read)
           /\ Read = Asked => /\ Waits \/ Done
                              /\ Waits => Head(toRunner) = [line |-> "WAIT"]
                              /\ Done => Head(toRunner) = [line |-> "DONE"]
<1>1. toRunner \in Seq(Line)
  BY DEF CInv, Typed
<1>2. /\ Len(toRunner) \in Nat /\ DOMAIN toRunner = 1..Len(toRunner)
      /\ Read <= Asked
  BY Tallies
<1>3. Asked \in Nat /\ Read \in Nat
  BY Numbers DEF CInv
<1>4. Len(toRunner) >= 1
  BY <1>1, <1>2, EmptySeq
<1>5. Head(toRunner) = toRunner[1]
  BY <1>1, <1>4
<1>6. /\ Tail(toRunner) \in Seq(Line) /\ Len(Tail(toRunner)) = Len(toRunner) - 1
      /\ \A i \in 1..Len(Tail(toRunner)) : Tail(toRunner)[i] = toRunner[i + 1]
  BY <1>1, HeadTailProperties
<1>7. DOMAIN Tail(toRunner) = 1..Len(Tail(toRunner))
  BY <1>6, LenProperties
<1>8. ASSUME Read < Asked PROVE Head(toRunner) = AskLine(Read)
  <2>1. 1 \in 1..(Asked - Read)
    BY <1>3, <1>8
  <2>2. toRunner[1] = AskLine(Read + 1 - 1)
    BY <2>1 DEF CInv, PipeIsInStep
  <2>3. Read + 1 - 1 = Read
    BY <1>3
  <2>4. QED
    BY <1>5, <2>2, <2>3
<1>9. ASSUME Read = Asked
      PROVE  /\ Waits \/ Done
             /\ Waits => Head(toRunner) = [line |-> "WAIT"]
             /\ Done => Head(toRunner) = [line |-> "DONE"]
  <2>1. Asked - Read = 0 /\ Asked - Read + 1 = 1
    BY <1>3, <1>9
  <2>2. Waits \/ Done
    <3>1. Len(toRunner) # Asked - Read
      BY <1>4, <2>1
    <3>2. QED
      BY <3>1 DEF CInv, PipeIsInStep
  <2>3. QED
    BY <1>5, <2>1, <2>2 DEF Waits, Done
<1>10. QED
  BY <1>6, <1>7, <1>8, <1>9

\* The lines tell the runner apart what comes next.
LEMMA HeadTells ==
    ASSUME CInv, Live
    PROVE  /\ NextLineIs("ASK") => Read < Asked
           /\ NextLineIs("WAIT") => Read = Asked /\ Waits
           /\ NextLineIs("DONE") => Read = Asked /\ Done
<1> SUFFICES ASSUME toRunner # <<>>
             PROVE  /\ Head(toRunner).line = "ASK" => Read < Asked
                    /\ Head(toRunner).line = "WAIT" => Read = Asked /\ Waits
                    /\ Head(toRunner).line = "DONE" => Read = Asked /\ Done
  BY DEF NextLineIs
<1>1. Read <= Asked /\ Asked \in Nat /\ Read \in Nat
  BY Tallies, Numbers DEF CInv
<1>2. CASE Read < Asked
  <2>1. Head(toRunner) = AskLine(Read)
    BY <1>2, HeadOfLines
  <2>2. QED
    BY <1>2, <2>1 DEF AskLine
<1>3. CASE Read = Asked
  <2>1. /\ Waits \/ Done
        /\ Waits => Head(toRunner) = [line |-> "WAIT"]
        /\ Done => Head(toRunner) = [line |-> "DONE"]
    BY <1>3, HeadOfLines
  <2>2. QED
    BY <1>3, <2>1
<1>4. QED
  BY <1>1, <1>2, <1>3

\* While the runner is in its loop, it waits for what is in no pipe.
LEMMA PendingTally ==
    ASSUME CInv, Live
    PROVE  /\ PendingCount = Cardinality(runner.pending) + (Asked - Read) + Len(toBridge)
           /\ Cardinality(runner.pending) = Read - Len(records)
           /\ Cardinality(runner.pending) <= PendingCount
<1>1. PICK c : c = Cardinality(runner.pending)
  OBVIOUS
<1>2. c = Read - Len(records)
  BY <1>1 DEF CInv, PendingIsOwed
<1>3. /\ PendingCount = Asked - Len(told) /\ Len(records) = Len(told) + Len(toBridge)
      /\ Len(told) \in Nat /\ Len(toBridge) \in Nat /\ Len(records) \in Nat /\ Read <= Asked
  BY Tallies
<1>4. Asked \in Nat /\ Read \in Nat
  BY Numbers DEF CInv
<1>5. PendingCount = c + (Asked - Read) + Len(toBridge) /\ c <= PendingCount
  BY <1>2, <1>3, <1>4
<1>6. QED
  BY <1>1, <1>2, <1>5

\* The runner reads an ask and hands it to a thread.
LEMMA ReadAskKeeps ==
    ASSUME CInv, ReadAsk
    PROVE  CInv'
<1>1. /\ Typed /\ RecordsAreSound /\ TellsFollowRecords /\ SlotsAreOwed /\ PendingIsOwed
      /\ PipeIsInStep /\ TurnsAreTaken /\ PeakIsReached /\ EndsAreEarned
  BY DEF CInv
<1>2. runner.at = "LOOP" /\ WantsAsk /\ NextLineIs("ASK") /\ Live
  BY DEF ReadAsk, Live
<1>3. /\ Read < Asked /\ Asked \in 0..Budget /\ Read \in 0..(Budget - 1)
      /\ Ids = 0..(Budget - 1)
      /\ Budget \in Nat \ {0} /\ Workers \in Nat \ {0} /\ runner.pending \subseteq Ids
  <2>1. Read < Asked
    BY <1>2, HeadTells
  <2>2. QED
    BY <1>1, <2>1, Numbers
<1>4. Head(toRunner) = AskLine(Read) /\ toRunner # <<>>
  BY <1>2, <1>3, HeadOfLines DEF NextLineIs
<1>5. /\ Head(toRunner).id = Read /\ Head(toRunner).point = Point(Read)
      /\ Point(Read) \in 1..Budget
  BY <1>1, <1>3, <1>4, AskIsLine
<1>6. PICK fu, pk : fu = [state |-> "RUNNING", point |-> Point(Read)] /\ pk = Peak
  OBVIOUS
<1>7. /\ futures' = [futures EXCEPT ![Read] = fu]
      /\ runner' = [runner EXCEPT !.dispatched = @ + 1, !.pending = @ \cup {Read},
                                  !.peak = pk]
      /\ toRunner' = Tail(toRunner) /\ bridge' = bridge /\ slots' = slots
      /\ records' = records /\ toBridge' = toBridge /\ stdinClosed' = stdinClosed
      /\ told' = told
  BY <1>5, <1>6 DEF ReadAsk
<1>8. PICK c : c = Cardinality(runner.pending)
  OBVIOUS
<1>9. c \in Nat /\ c < Workers /\ IsFiniteSet(runner.pending)
  BY <1>2, <1>8, Tallies DEF WantsAsk
<1>10. runner.peak \in 0..Workers
  BY <1>1 DEF Typed, RunnerType
<1>11. pk = (IF records = <<>> THEN c + 1 ELSE Full) /\ pk \in 0..Workers
  <2>1. runner.peak = IF records = <<>> THEN c ELSE Full
    BY <1>1, <1>2, <1>8 DEF PeakIsReached
  <2>2. pk = Max({runner.peak, c + 1})
    BY <1>6, <1>8 DEF Peak
  <2>3. pk = IF runner.peak >= c + 1 THEN runner.peak ELSE c + 1
    <3>1. runner.peak \in Int /\ c + 1 \in Int
      BY <1>9, <1>10
    <3>2. QED
      BY <2>2, <3>1, MaxOfTwo
  <2>4. c + 1 <= Full /\ Full \in Nat /\ Full <= Workers
    <3>1. c = Read - Len(records) /\ Len(records) \in Nat
      BY <1>1, <1>2, <1>8, Tallies DEF PendingIsOwed
    <3>2. c + 1 <= Budget /\ c + 1 <= Workers
      BY <1>3, <1>9, <3>1
    <3>3. Full \in Nat /\ Full <= Workers /\ (Full = Workers \/ Full = Budget)
      BY <1>1, Numbers
    <3>4. QED
      BY <1>9, <3>2, <3>3
  <2>5. QED
    BY <1>3, <1>9, <2>1, <2>3, <2>4
<1>12. PICK n : n = Read + 1
  OBVIOUS
<1>13. /\ runner'.at = "LOOP" /\ Read' = n /\ runner'.pending = runner.pending \cup {Read}
       /\ runner'.peak = pk /\ runner'.why = runner.why
       /\ runner' \in [at : {"LOOP", "COMPLETE", "JOIN", "REAP", "RETURNED",
                             "WRITTEN", "RAISED"},
                       dispatched : 0..Budget, pending : SUBSET Ids, peak : 0..Workers,
                       why : {"", "EOF", "EVALUATION", "BROKEN_PIPE", "CHECKOUT"}]
  <2>1. runner \in [at : {"LOOP", "COMPLETE", "JOIN", "REAP", "RETURNED",
                          "WRITTEN", "RAISED"},
                    dispatched : 0..Budget, pending : SUBSET Ids, peak : 0..Workers,
                    why : {"", "EOF", "EVALUATION", "BROKEN_PIPE", "CHECKOUT"}]
    BY <1>1 DEF Typed, RunnerType
  <2>2. n \in 0..Budget
    BY <1>3, <1>12
  <2>3. PICK q : q = runner.pending \cup {Read}
    OBVIOUS
  <2>4. q \in SUBSET Ids
    BY <1>3, <2>3
  <2>5. runner' = [runner EXCEPT !.dispatched = n, !.pending = q, !.peak = pk]
    BY <1>7, <1>12, <2>3 DEF Read
  <2>6. QED
    BY <1>2, <1>11, <2>1, <2>2, <2>3, <2>4, <2>5 DEF Read
<1>14. Live' /\ AnsweredIds' = AnsweredIds
  BY <1>7, <1>13 DEF Live, AnsweredIds
<1>15. /\ Asked' = Asked /\ (MayAsk' <=> MayAsk) /\ PendingCount' = PendingCount
  BY <1>7, BridgeKept
<1>16. /\ futures' \in [Ids -> [state : {"NONE", "RUNNING", "VALUE", "FAIL", "RAISED"},
                                point : 0..Budget]]
       /\ futures'[Read] = fu /\ fu.state = "RUNNING" /\ fu.point = Point(Read)
       /\ \A id \in Ids \ {Read} : futures'[id] = futures[id]
  <2>1. futures \in [Ids -> [state : {"NONE", "RUNNING", "VALUE", "FAIL", "RAISED"},
                             point : 0..Budget]]
    BY <1>1 DEF Typed, RunnerType
  <2>2. /\ fu \in [state : {"NONE", "RUNNING", "VALUE", "FAIL", "RAISED"}, point : 0..Budget]
        /\ fu.state = "RUNNING" /\ fu.point = Point(Read)
    BY <1>5, <1>6
  <2>3. Read \in Ids
    BY <1>3
  <2>4. QED
    BY <1>7, <2>1, <2>2, <2>3
<1>17. /\ toRunner' \in Seq(Line) /\ Len(toRunner') = Len(toRunner) - 1
       /\ \A i \in 1..Len(toRunner') : toRunner'[i] = toRunner[i + 1]
       /\ DOMAIN toRunner' = 1..Len(toRunner')
  BY <1>2, <1>4, <1>7, HeadOfLines
<1>18. Typed'
  BY <1>1, <1>7, <1>13, <1>16, <1>17 DEF Typed, BridgeType, RunnerType
<1>19. RecordsAreSound'
  <2>1. \A i \in DOMAIN records : records[i].id < Read /\ records[i].id \in Nat
    <3>1. \A i \in DOMAIN records : records[i].id \in Ids
      BY <1>1 DEF Typed, RunnerType, RowType
    <3>2. QED
      BY <1>1, <1>3, <3>1 DEF RecordsAreSound
  <2>2. \A i \in DOMAIN records : records[i].id < n
    BY <1>3, <1>12, <2>1
  <2>3. Len(records) <= n /\ n <= Asked
    BY <1>3, <1>12, Tallies
  <2>4. \A id \in Ids :
           futures'[id].state # "NONE" => futures'[id].point = Point(id) /\ id < n
    <3> SUFFICES ASSUME NEW id \in Ids, futures'[id].state # "NONE"
                 PROVE  futures'[id].point = Point(id) /\ id < n
      OBVIOUS
    <3>1. CASE id = Read
      BY <1>3, <1>12, <1>16, <3>1
    <3>2. CASE id # Read
      <4>1. futures[id].point = Point(id) /\ id < Read
        BY <1>1, <1>16, <3>2 DEF RecordsAreSound
      <4>2. futures'[id] = futures[id]
        BY <1>16, <3>2
      <4>3. QED
        BY <1>3, <1>12, <4>1, <4>2
    <3>3. QED
      BY <3>1, <3>2
  <2>5. QED
    BY <1>1, <1>7, <1>13, <1>15, <2>2, <2>3, <2>4 DEF RecordsAreSound
<1>20. TellsFollowRecords' /\ SlotsAreOwed'
  BY <1>1, <1>7, <1>15, TellsKept, SlotsKept
<1>21. PendingIsOwed'
  <2>1. Read \notin AnsweredIds
    <3>1. \A i \in DOMAIN records : records[i].id < Read
      BY <1>1 DEF RecordsAreSound
    <3>2. \A i \in DOMAIN records : records[i].id # Read
      BY <1>3, <3>1
    <3>3. QED
      BY <3>2 DEF AnsweredIds
  <2>2. runner.pending = (0..(Read - 1)) \ AnsweredIds
    BY <1>1, <1>2 DEF PendingIsOwed
  <2>3. 0..(n - 1) = (0..(Read - 1)) \cup {Read}
    BY <1>3, <1>12
  <2>4. runner'.pending = (0..(n - 1)) \ AnsweredIds
    BY <1>13, <2>1, <2>2, <2>3
  <2>5. Cardinality(runner'.pending) = n - Len(records)
    <3>1. Read \notin runner.pending
      BY <1>3, <2>2
    <3>2. Cardinality(runner.pending \cup {Read}) = c + 1
      BY <1>8, <1>9, <3>1, FS_AddElement
    <3>3. c = Read - Len(records) /\ Len(records) \in Nat
      BY <1>2, <1>8, PendingTally, Tallies
    <3>4. c + 1 = n - Len(records)
      BY <1>3, <1>9, <1>12, <3>3
    <3>5. QED
      BY <1>13, <3>2, <3>4, Zenon
  <2>6. \A id \in runner'.pending : id < n /\ futures'[id].state # "NONE"
    <3> SUFFICES ASSUME NEW id \in runner'.pending
                 PROVE  id < n /\ futures'[id].state # "NONE"
      OBVIOUS
    <3>1. CASE id = Read
      BY <1>3, <1>12, <1>16, <3>1
    <3>2. CASE id # Read
      <4>1. id \in runner.pending /\ id \in Ids
        BY <1>3, <1>13, <3>2
      <4>2. id < Read /\ futures[id].state # "NONE"
        BY <1>1, <4>1 DEF PendingIsOwed
      <4>3. futures'[id] = futures[id]
        BY <1>16, <3>2, <4>1
      <4>4. QED
        BY <1>3, <1>12, <4>1, <4>2, <4>3
    <3>3. QED
      BY <3>1, <3>2
  <2>7. runner'.pending \cap AnsweredIds = {}
    BY <2>4
  <2>8. QED
    BY <1>7, <1>13, <1>14, <2>4, <2>5, <2>6, <2>7 DEF PendingIsOwed
<1>22. PipeIsInStep'
  <2>1. PICK a, r : a = Asked /\ r = Read
    OBVIOUS
  <2>2. a \in Nat /\ r \in Nat /\ r < a /\ Len(toRunner) \in Nat /\ Len(toRunner) >= 1
        /\ DOMAIN toRunner = 1..Len(toRunner)
    <3>1. toRunner \in Seq(Line)
      BY <1>1 DEF Typed
    <3>2. QED
      BY <1>3, <1>4, <2>1, <3>1, EmptySeq, Tallies
  <2>3. Asked' = a /\ Read' = r + 1
    BY <1>12, <1>13, <1>15, <2>1
  <2>4. \A i \in 1..(a - r) : i \in DOMAIN toRunner /\ toRunner[i] = AskLine(r + i - 1)
    BY <1>1, <1>2, <2>1 DEF PipeIsInStep
  <2>5. ASSUME NEW i \in 1..(a - (r + 1))
        PROVE  i \in DOMAIN toRunner' /\ toRunner'[i] = AskLine((r + 1) + i - 1)
    <3>1. i + 1 \in 1..(a - r) /\ r + (i + 1) - 1 = (r + 1) + i - 1 /\ i \in Nat
      BY <2>2
    <3>2. i + 1 \in DOMAIN toRunner /\ toRunner[i + 1] = AskLine((r + 1) + i - 1)
      BY <2>4, <3>1, Zenon
    <3>3. i \in 1..Len(toRunner')
      BY <1>17, <2>2, <3>1, <3>2
    <3>4. QED
      BY <1>17, <3>2, <3>3
  <2>6. /\ Len(toRunner') = a - (r + 1) <=> Len(toRunner) = a - r
        /\ Len(toRunner') = a - (r + 1) + 1 <=> Len(toRunner) = a - r + 1
    BY <1>17, <2>2
  <2>7. Len(toRunner) = a - r + 1 => toRunner'[a - (r + 1) + 1] = toRunner[a - r + 1]
    <3> SUFFICES ASSUME Len(toRunner) = a - r + 1
                 PROVE  toRunner'[a - (r + 1) + 1] = toRunner[a - r + 1]
      OBVIOUS
    <3>1. PICK k : k = a - (r + 1) + 1
      OBVIOUS
    <3>2. k \in 1..Len(toRunner') /\ k + 1 = a - r + 1
      BY <1>17, <2>2, <3>1
    <3>3. toRunner'[k] = toRunner[k + 1]
      BY <1>17, <3>2
    <3>4. QED
      BY <3>1, <3>2, <3>3, Zenon
  <2>8. (Waits' <=> Waits) /\ (Done' <=> Done)
    <3>1. Waits <=> Len(toRunner) = a - r + 1 /\ toRunner[a - r + 1] = [line |-> "WAIT"]
      BY <2>1 DEF Waits
    <3>2. Done <=> Len(toRunner) = a - r + 1 /\ toRunner[a - r + 1] = [line |-> "DONE"]
      BY <2>1 DEF Done
    <3>3. Waits' <=> /\ Len(toRunner') = a - (r + 1) + 1
                     /\ toRunner'[a - (r + 1) + 1] = [line |-> "WAIT"]
      BY <2>3 DEF Waits
    <3>4. Done' <=> /\ Len(toRunner') = a - (r + 1) + 1
                    /\ toRunner'[a - (r + 1) + 1] = [line |-> "DONE"]
      BY <2>3 DEF Done
    <3>5. QED
      BY <2>6, <2>7, <3>1, <3>2, <3>3, <3>4, Zenon
  <2>9. Len(toRunner') = Asked' - Read' \/ Waits' \/ Done'
    BY <1>1, <1>2, <2>1, <2>3, <2>6, <2>8 DEF PipeIsInStep
  <2>10. \A i \in 1..(Asked' - Read') :
            i \in DOMAIN toRunner' /\ toRunner'[i] = AskLine(Read' + i - 1)
    BY <2>3, <2>5
  <2>11. Done' <=> bridge'.at = "EXITED"
    BY <1>1, <1>2, <1>7, <2>8 DEF PipeIsInStep
  <2>12. Waits' => /\ MayAsk' /\ PendingCount' >= 1 /\ Asked' >= Initial
                   /\ bridge'.at \in {"READ", "ABORTED"} /\ toBridge' = <<>>
                   /\ runner'.at = "LOOP"
    BY <1>1, <1>2, <1>7, <1>13, <1>15, <2>8 DEF PipeIsInStep
  <2>13. QED
    BY <2>9, <2>10, <2>11, <2>12 DEF PipeIsInStep
<1>23. TurnsAreTaken'
  <2>1. ~(Len(toBridge) >= 2)
    BY <1>1, <1>2, <1>3 DEF TurnsAreTaken
  <2>2. QED
    BY <1>1, <1>2, <1>7, <1>13, <1>15, <2>1 DEF TurnsAreTaken
<1>24. PeakIsReached'
  <2>1. records # <<>> => runner'.peak = Full
    BY <1>11, <1>13
  <2>2. records = <<>> => runner'.peak = Cardinality(runner'.pending)
    <3>1. Read \notin runner.pending
      BY <1>1, <1>2, <1>3 DEF PendingIsOwed
    <3>2. Cardinality(runner.pending \cup {Read}) = c + 1
      BY <1>8, <1>9, <3>1, FS_AddElement
    <3>3. QED
      BY <1>11, <1>13, <3>2
  <2>3. QED
    BY <1>7, <1>13, <2>1, <2>2 DEF PeakIsReached
<1>25. EndsAreEarned'
  <2>1. runner.why = "" /\ ~stdinClosed
    BY <1>1, <1>2 DEF EndsAreEarned
  <2>2. bridge'.at = "EXITED" => Len(told') = Budget /\ Asked' = Budget
    BY <1>1, <1>7, <1>15 DEF EndsAreEarned
  <2>3. QED
    BY <1>1, <1>7, <1>13, <1>14, <2>1, <2>2 DEF EndsAreEarned
<1>26. QED
  BY <1>18, <1>19, <1>20, <1>21, <1>22, <1>23, <1>24, <1>25 DEF CInv
\* The runner turns to its futures, on a WAIT or because it has read enough.
LEMMA TurnsToFutures ==
    ASSUME CInv, Live, ~WantsAsk \/ NextLineIs("WAIT"), runner.at = "LOOP"
    PROVE  /\ runner.peak = Full
           /\ ~(bridge.at = "LOOP" /\ MayAsk)
           /\ toBridge # <<>> => Read = Budget
           /\ Waits => NextLineIs("WAIT")
<1>1. PICK c : c = Cardinality(runner.pending)
  OBVIOUS
<1>2. PICK a, r : a = Asked /\ r = Read
  OBVIOUS
<1>3. /\ c \in Nat /\ PendingCount \in Nat /\ PendingCount <= Workers
      /\ Len(told) \in Nat /\ Len(toBridge) \in Nat /\ Len(records) \in Nat
      /\ Len(records) = Len(told) + Len(toBridge)
      /\ PendingCount = a - Len(told)
  BY <1>1, <1>2, Tallies
<1>4. /\ PendingCount = c + (a - r) + Len(toBridge) /\ c = r - Len(records)
  BY <1>1, <1>2, PendingTally
<1>5. /\ a \in 0..Budget /\ r \in 0..Budget /\ Budget \in Nat \ {0} /\ Workers \in Nat \ {0}
      /\ Workers <= Initial /\ Initial \in Nat \ {0} /\ r <= a
      /\ Full \in Nat /\ Full <= Workers /\ Full <= Budget
      /\ Full = Workers \/ Full = Budget
  BY <1>2, Numbers, Tallies DEF CInv
<1>6. runner.peak = IF records = <<>> THEN c ELSE Full
  BY <1>1 DEF CInv, PeakIsReached
<1>7. records = <<>> => Len(records) = 0
  BY EmptySeq
<1>8. MayAsk => a < Budget /\ PendingCount < Workers
  BY <1>2 DEF MayAsk, Asked
<1>9. toBridge # <<>> => Len(toBridge) >= 1
  <2>1. toBridge \in Seq([id : Ids, answer : 0..Budget])
    BY DEF CInv, Typed
  <2>2. QED
    BY <1>3, <2>1, EmptySeq
<1>10. CASE NextLineIs("WAIT")
  <2>1. Waits /\ r = a
    BY <1>2, <1>10, HeadTells
  <2>2. MayAsk /\ a >= Initial /\ bridge.at \in {"READ", "ABORTED"} /\ toBridge = <<>>
    BY <1>2, <2>1 DEF CInv, PipeIsInStep
  <2>3. ~(Len(records) = 0)
    BY <1>3, <1>5, <1>8, <2>2
  <2>4. QED
    BY <1>6, <1>7, <1>10, <2>2, <2>3
<1>11. CASE ~WantsAsk
  <2>1. r >= Budget \/ c >= Workers
    BY <1>1, <1>2, <1>3, <1>5, <1>11 DEF WantsAsk, Read
  <2>2. ~MayAsk
    BY <1>3, <1>4, <1>5, <1>8, <2>1
  <2>3. ~Waits
    BY <2>2 DEF CInv, PipeIsInStep
  <2>4. Len(toBridge) >= 1 => r = Budget
    BY <1>3, <1>4, <1>5, <2>1
  <2>5. Len(records) = 0 => c = Full
    <3> SUFFICES ASSUME Len(records) = 0 PROVE c = Full
      OBVIOUS
    <3>1. c <= Workers
      BY <1>3, <1>4, <1>5
    <3>2. c = r
      BY <1>4, <1>5
    <3>3. c <= Budget
      BY <1>5, <3>2
    <3>4. c >= Workers \/ c >= Budget
      BY <2>1, <3>2
    <3>5. c \in Int /\ Workers \in Int /\ Budget \in Int /\ Full \in Int
      BY <1>3, <1>5
    <3>6. QED
      BY <1>5, <3>1, <3>3, <3>4, <3>5
  <2>6. QED
    BY <1>2, <1>6, <1>7, <1>9, <2>2, <2>3, <2>4, <2>5
<1>12. QED
  BY <1>10, <1>11

\* Turning to its futures keeps the runner in step.
LEMMA TurnKeeps ==
    ASSUME CInv, ReadWait \/ AwaitsFuture
    PROVE  CInv'
<1>1. /\ Typed /\ RecordsAreSound /\ TellsFollowRecords /\ SlotsAreOwed /\ PendingIsOwed
      /\ PipeIsInStep /\ TurnsAreTaken /\ PeakIsReached /\ EndsAreEarned
  BY DEF CInv
<1>2. /\ runner.at = "LOOP" /\ runner' = [runner EXCEPT !.at = "COMPLETE"]
      /\ \/ WantsAsk /\ NextLineIs("WAIT") /\ toRunner' = Tail(toRunner)
         \/ ~WantsAsk /\ toRunner' = toRunner
      /\ bridge' = bridge /\ slots' = slots /\ toBridge' = toBridge
      /\ stdinClosed' = stdinClosed /\ told' = told
      /\ futures' = futures /\ records' = records
  BY DEF ReadWait, AwaitsFuture, bridgeVars
<1>3. Live
  BY <1>2 DEF Live
<1>4. /\ runner.peak = Full /\ ~(bridge.at = "LOOP" /\ MayAsk)
      /\ toBridge # <<>> => Read = Budget
      /\ Waits => NextLineIs("WAIT")
  BY <1>2, <1>3, TurnsToFutures
<1>5. /\ runner'.at = "COMPLETE" /\ Read' = Read /\ runner'.pending = runner.pending
      /\ runner'.peak = runner.peak /\ runner'.why = runner.why
      /\ runner' \in [at : {"LOOP", "COMPLETE", "JOIN", "REAP", "RETURNED",
                            "WRITTEN", "RAISED"},
                      dispatched : 0..Budget, pending : SUBSET Ids, peak : 0..Workers,
                      why : {"", "EOF", "EVALUATION", "BROKEN_PIPE", "CHECKOUT"}]
  BY <1>1, <1>2, RunnerMoves DEF Typed
<1>6. Live'
  BY <1>5 DEF Live
<1>7. /\ Asked' = Asked /\ (MayAsk' <=> MayAsk) /\ PendingCount' = PendingCount
  BY <1>2, BridgeKept
<1>8. RecordsAreSound' /\ TellsFollowRecords' /\ SlotsAreOwed' /\ PendingIsOwed'
  BY <1>1, <1>2, <1>3, <1>5, <1>7, RecordsKept, TellsKept, SlotsKept, PendingKept
<1>9. toRunner' \in Seq(Line) /\ PipeIsInStep'
  <2>1. CASE ~WantsAsk /\ toRunner' = toRunner
    <3>1. ~NextLineIs("WAIT")
      <4> SUFFICES ASSUME NextLineIs("WAIT") PROVE FALSE
        OBVIOUS
      <4>1. Waits
        BY <1>3, HeadTells
      <4>2. MayAsk
        BY <1>1, <1>3, <4>1 DEF PipeIsInStep
      <4>3. /\ Asked < Budget /\ PendingCount < Workers
        BY <4>2 DEF MayAsk, Asked
      <4>4. PICK c, r, a : c = Cardinality(runner.pending) /\ r = Read /\ a = Asked
        OBVIOUS
      <4>5. r <= a /\ c <= PendingCount /\ c \in Nat /\ PendingCount \in Nat
            /\ a \in 0..Budget /\ r \in 0..Budget /\ Budget \in Nat /\ Workers \in Nat
        BY <1>1, <1>3, <4>4, Tallies, PendingTally, Numbers
      <4>6. r < Budget /\ c < Workers
        BY <4>3, <4>4, <4>5
      <4>7. WantsAsk
        BY <4>4, <4>6 DEF WantsAsk, Read
      <4>8. QED
        BY <2>1, <4>7
    <3>2. ~Waits
      BY <1>4, <3>1
    <3>3. (Waits' <=> Waits) /\ (Done' <=> Done)
      BY <1>5, <1>7, <2>1 DEF Waits, Done
    <3>4. QED
      BY <1>1, <1>2, <1>3, <1>5, <1>7, <2>1, <3>2, <3>3 DEF PipeIsInStep, Typed
  <2>2. CASE NextLineIs("WAIT") /\ toRunner' = Tail(toRunner)
    <3>1. Waits /\ Read = Asked
      BY <1>3, <2>2, HeadTells
    <3>2. Asked \in Nat
      BY <1>1, Numbers
    <3>3. Asked' - Read' = 0 /\ Asked' - Read' + 1 = 1
      <4>1. PICK a : a = Asked
        OBVIOUS
      <4>2. a - a = 0 /\ a - a + 1 = 1
        BY <3>2, <4>1
      <4>3. Asked' = a /\ Read' = a
        BY <1>5, <1>7, <3>1, <4>1
      <4>4. QED
        BY <4>2, <4>3, Zenon
    <3>4. toRunner' \in Seq(Line) /\ Len(toRunner') = Len(toRunner) - 1
      BY <1>3, <2>2, HeadOfLines DEF NextLineIs
    <3>5. Len(toRunner) = 1
      <4>1. Len(toRunner) = Asked - Read + 1
        BY <3>1 DEF Waits
      <4>2. QED
        BY <3>1, <3>2, <4>1
    <3>6. Len(toRunner') = 0
      BY <3>4, <3>5
    <3>7. ~Waits' /\ ~Done'
      BY <3>3, <3>6 DEF Waits, Done
    <3>8. Len(toRunner') = Asked' - Read'
      BY <3>3, <3>6, Zenon
    <3>9. bridge'.at # "EXITED"
      BY <1>1, <1>2, <1>3, <3>1 DEF PipeIsInStep
    <3>10. \A i \in 1..(Asked' - Read') : FALSE
      BY <3>3
    <3>11. QED
      BY <3>4, <3>7, <3>8, <3>9, <3>10 DEF PipeIsInStep
  <2>3. QED
    BY <1>2, <2>1, <2>2
<1>10. Typed'
  BY <1>1, <1>2, <1>5, <1>9 DEF Typed, BridgeType, RunnerType
<1>11. TurnsAreTaken'
  BY <1>1, <1>2, <1>3, <1>4, <1>5, <1>7 DEF TurnsAreTaken
<1>12. PeakIsReached'
  BY <1>1, <1>2, <1>3, <1>4, <1>5 DEF PeakIsReached
<1>13. EndsAreEarned'
  <2>1. runner.why = "" /\ ~stdinClosed
    BY <1>1, <1>2, <1>3 DEF EndsAreEarned
  <2>2. bridge'.at = "EXITED" => Len(told') = Budget /\ Asked' = Budget
    BY <1>1, <1>2, <1>7 DEF EndsAreEarned
  <2>3. QED
    BY <1>1, <1>2, <1>5, <1>6, <2>1, <2>2 DEF EndsAreEarned
<1>14. QED
  BY <1>8, <1>9, <1>10, <1>11, <1>12, <1>13 DEF CInv

\* The runner meets the end of the output of a bridge that stopped.
LEMMA EndOfOutputKeeps ==
    ASSUME CInv, ReadEndOfOutput
    PROVE  CInv'
<1>1. /\ Typed /\ RecordsAreSound /\ TellsFollowRecords /\ SlotsAreOwed /\ PendingIsOwed
      /\ PipeIsInStep /\ TurnsAreTaken /\ PeakIsReached /\ EndsAreEarned
  BY DEF CInv
<1>2. /\ runner.at = "LOOP" /\ toRunner = <<>> /\ BridgeGone
      /\ runner' = [runner EXCEPT !.at = "JOIN", !.why = "EOF"]
      /\ bridge' = bridge /\ slots' = slots /\ toBridge' = toBridge /\ toRunner' = toRunner
      /\ stdinClosed' = stdinClosed /\ told' = told
      /\ futures' = futures /\ records' = records
  BY DEF ReadEndOfOutput, Raise
<1>3. Live
  BY <1>2 DEF Live
<1>4. /\ runner'.at = "JOIN" /\ Read' = Read /\ runner'.pending = runner.pending
      /\ runner'.why = "EOF"
      /\ runner' \in [at : {"LOOP", "COMPLETE", "JOIN", "REAP", "RETURNED",
                            "WRITTEN", "RAISED"},
                      dispatched : 0..Budget, pending : SUBSET Ids, peak : 0..Workers,
                      why : {"", "EOF", "EVALUATION", "BROKEN_PIPE", "CHECKOUT"}]
  BY <1>1, <1>2 DEF Typed, RunnerType, Read
<1>5. ~Live'
  BY <1>4 DEF Live
<1>6. /\ RecordsAreSound' /\ TellsFollowRecords' /\ SlotsAreOwed' /\ PendingIsOwed'
      /\ PipeIsInStep' /\ TurnsAreTaken' /\ PeakIsReached'
  BY <1>2, <1>4, <1>5, OutOfLoop
<1>7. Typed'
  BY <1>1, <1>2, <1>4 DEF Typed, BridgeType, RunnerType
<1>8. ~Done
  <2>1. Len(toRunner) = 0
    BY <1>2, EmptySeq
  <2>2. Asked - Read + 1 # 0
    BY <1>1, Numbers, Tallies
  <2>3. QED
    BY <2>1, <2>2 DEF Done
<1>9. bridge.at = "ABORTED"
  BY <1>1, <1>2, <1>3, <1>8 DEF PipeIsInStep, BridgeGone
<1>10. bridge.why \in {"ASK", "TELL"}
  <2>1. bridge.why \in {"", "ASK", "TELL", "EOF"}
    BY <1>1 DEF Typed, BridgeType
  <2>2. ~stdinClosed
    BY <1>1, <1>2 DEF EndsAreEarned
  <2>3. QED
    BY <1>1, <1>9, <2>1, <2>2 DEF EndsAreEarned
<1>11. EndsAreEarned'
  <2>1. ~stdinClosed
    BY <1>1, <1>2 DEF EndsAreEarned
  <2>2. QED
    BY <1>1, <1>2, <1>4, <1>5, <1>9, <1>10, <2>1 DEF EndsAreEarned
<1>12. QED
  BY <1>6, <1>7, <1>11 DEF CInv

\* What a candidate that is pending tells of its future, and of the records.
LEMMA PendingFuture ==
    ASSUME CInv, NEW id \in runner.pending
    PROVE  /\ id \in Ids /\ id < Read /\ id \notin AnsweredIds
           /\ futures[id].point = Point(id) /\ Point(id) \in 1..Budget
<1>1. id \in Ids /\ Ids = 0..(Budget - 1) /\ Budget \in Nat \ {0}
  BY Numbers DEF CInv
<1>2. id < Read /\ futures[id].state # "NONE" /\ id \notin AnsweredIds
  BY DEF CInv, PendingIsOwed
<1>3. futures[id].point = Point(id)
  BY <1>1, <1>2 DEF CInv, RecordsAreSound
<1>4. Point(id) \in 1..Budget
  BY <1>1 DEF Point
<1>5. QED
  BY <1>1, <1>2, <1>3, <1>4

\* The runner answers a candidate whose evaluation is over.
LEMMA CompletesKeeps ==
    ASSUME CInv, NEW id \in Ids, Completes(id)
    PROVE  CInv'
<1>1. /\ Typed /\ RecordsAreSound /\ TellsFollowRecords /\ SlotsAreOwed /\ PendingIsOwed
      /\ PipeIsInStep /\ TurnsAreTaken /\ PeakIsReached /\ EndsAreEarned
  BY DEF CInv
<1>2. PICK an, row, ans :
          an = Answer(id) /\ row = Row(id) /\ ans = [id |-> id, answer |-> an]
  OBVIOUS
<1>3. /\ runner.at = "COMPLETE" /\ id \in runner.pending /\ ~BridgeGone
      /\ toBridge' = Append(toBridge, ans) /\ records' = Append(records, row)
      /\ runner' = [runner EXCEPT !.at = "LOOP", !.pending = @ \ {id}]
      /\ bridge' = bridge /\ slots' = slots /\ toRunner' = toRunner
      /\ stdinClosed' = stdinClosed /\ told' = told /\ futures' = futures
  BY <1>2 DEF Completes
<1>4. Live
  BY <1>3 DEF Live
<1>5. /\ id < Read /\ id \notin AnsweredIds /\ futures[id].point = Point(id)
      /\ Point(id) \in 1..Budget
  BY <1>3, PendingFuture
<1>6. Budget \in Nat \ {0} /\ Ids = 0..(Budget - 1) /\ Read \in 0..Budget
      /\ Asked \in 0..Budget /\ runner.pending \subseteq Ids
  BY <1>1, Numbers
<1>7. /\ an \in {0, Point(id)} /\ an \in 0..Budget
      /\ row.id = id /\ row.point = Point(id) /\ row.answer = an
      /\ row \in RowType /\ WholeRow(row)
      /\ ans.id = id /\ ans.answer = an
      /\ ans \in [id : Ids, answer : 0..Budget]
  <2>1. an \in {0, Point(id)}
    BY <1>2, <1>5 DEF Answer
  <2>2. an \in 0..Budget
    BY <1>5, <1>6, <2>1
  <2>3. PICK p, ok : p = Point(id) /\ ok = (futures[id].state = "VALUE")
    OBVIOUS
  <2>4. /\ row = [id |-> id, point |-> p, answer |-> an,
                  status |-> IF ok THEN "ok" ELSE "failed",
                  value |-> IF ok THEN MinimizedAt(p) ELSE NoValue]
        /\ an = IF ok THEN p ELSE 0
    BY <1>2, <1>5, <2>3 DEF Row, Answer
  <2>5. p \in 1..Budget /\ MinimizedAt(p) \in Int /\ NoValue \in Int
    BY <1>5, <2>3 DEF MinimizedAt, NoValue
  <2>6. row \in RowType
    BY <2>2, <2>4, <2>5 DEF RowType
  <2>7. WholeRow(row)
    BY <2>4, <2>5 DEF WholeRow
  <2>8. QED
    BY <1>2, <2>1, <2>2, <2>3, <2>4, <2>6, <2>7
<1>8. /\ Len(told) \in Nat /\ Len(records) \in Nat /\ Len(toBridge) \in Nat
      /\ DOMAIN told = 1..Len(told) /\ DOMAIN records = 1..Len(records)
      /\ DOMAIN toBridge = 1..Len(toBridge)
      /\ Len(records) = Len(told) + Len(toBridge) /\ Len(records) <= Read /\ Read <= Asked
      /\ IsFiniteSet(runner.pending)
  BY Tallies
<1>9. /\ records' \in Seq(RowType)
      /\ Len(records') = Len(records) + 1 /\ records'[Len(records) + 1] = row
      /\ \A i \in 1..Len(records) : records'[i] = records[i]
      /\ DOMAIN records' = 1..Len(records') /\ records' # <<>>
  <2>1. records \in Seq(RowType)
    BY <1>1 DEF Typed
  <2>2. /\ records' \in Seq(RowType)
        /\ Len(records') = Len(records) + 1 /\ records'[Len(records) + 1] = row
        /\ \A i \in 1..Len(records) : records'[i] = records[i] /\ records' # <<>>
    BY <1>3, <1>7, <2>1, AppendProperties
  <2>3. DOMAIN records' = 1..Len(records') /\ records' # <<>>
    BY <1>3, <1>7, <2>1, <2>2, AppendProperties, LenProperties
  <2>4. QED
    BY <2>2, <2>3
<1>10. /\ toBridge' \in Seq([id : Ids, answer : 0..Budget])
       /\ Len(toBridge') = Len(toBridge) + 1 /\ toBridge'[Len(toBridge) + 1] = ans
       /\ \A i \in 1..Len(toBridge) : toBridge'[i] = toBridge[i]
       /\ DOMAIN toBridge' = 1..Len(toBridge')
  <2>1. toBridge \in Seq([id : Ids, answer : 0..Budget])
    BY <1>1 DEF Typed
  <2>2. toBridge' \in Seq([id : Ids, answer : 0..Budget])
    BY <1>3, <1>7, <2>1, AppendProperties
  <2>3. QED
    BY <1>3, <1>7, <2>1, <2>2, AppendProperties, LenProperties
<1>11. /\ runner'.at = "LOOP" /\ Read' = Read /\ runner'.pending = runner.pending \ {id}
       /\ runner'.peak = runner.peak /\ runner'.why = runner.why
       /\ runner' \in [at : {"LOOP", "COMPLETE", "JOIN", "REAP", "RETURNED",
                             "WRITTEN", "RAISED"},
                       dispatched : 0..Budget, pending : SUBSET Ids, peak : 0..Workers,
                       why : {"", "EOF", "EVALUATION", "BROKEN_PIPE", "CHECKOUT"}]
  <2>1. PICK q : q = runner.pending \ {id}
    OBVIOUS
  <2>2. q \in SUBSET Ids
    BY <1>6, <2>1
  <2>3. runner' = [runner EXCEPT !.at = "LOOP", !.pending = q]
    BY <1>3, <2>1
  <2>4. QED
    BY <1>1, <2>1, <2>2, <2>3 DEF Typed, RunnerType, Read
<1>12. Live'
  BY <1>11 DEF Live
<1>13. /\ Asked' = Asked /\ (MayAsk' <=> MayAsk) /\ PendingCount' = PendingCount
  BY <1>3, BridgeKept
<1>14. AnsweredIds' = AnsweredIds \cup {id}
  <2>1. AnsweredIds' = {records'[i].id : i \in 1..Len(records')}
    BY <1>9 DEF AnsweredIds
  <2>2. AnsweredIds = {records[i].id : i \in 1..Len(records)}
    BY <1>8 DEF AnsweredIds
  <2>3. 1..Len(records') = 1..Len(records) \cup {Len(records) + 1}
    BY <1>8, <1>9
  <2>4. \A i \in 1..Len(records) : records'[i].id = records[i].id
    BY <1>9
  <2>5. records'[Len(records) + 1].id = id
    BY <1>7, <1>9
  <2> QED
    BY <2>1, <2>2, <2>3, <2>4, <2>5
<1>15. ToldIds' = ToldIds
  <2>1. \A i \in 1..Len(told) : i \in 1..Len(records)
    BY <1>8
  <2>2. \A i \in 1..Len(told) : records'[i].id = records[i].id
    BY <1>9, <2>1
  <2>3. QED
    BY <1>3, <2>2 DEF ToldIds
<1>16. Cardinality(runner'.pending) = Cardinality(runner.pending) - 1
  <2>1. Cardinality(runner.pending \ {id}) = Cardinality(runner.pending) - 1
    BY <1>3, <1>8, FS_RemoveElement
  <2>2. QED
    BY <1>11, <2>1, Zenon
<1>17. Cardinality(runner'.pending) = Read - Len(records') /\ Len(records') <= Read
  <2>1. PICK c, d : c = Cardinality(runner.pending) /\ d = Cardinality(runner'.pending)
    OBVIOUS
  <2>2. c = Read - Len(records)
    BY <1>4, <2>1, PendingTally
  <2>3. d = c - 1 /\ d \in Nat
    <3>1. IsFiniteSet(runner.pending \ {id})
      BY <1>8, FS_RemoveElement
    <3>2. d \in Nat
      BY <1>11, <2>1, <3>1, FS_CardinalityType
    <3>3. QED
      BY <1>16, <2>1, <3>2
  <2>4. d = Read - Len(records') /\ Len(records') <= Read
    BY <1>6, <1>8, <1>9, <2>2, <2>3
  <2>5. QED
    BY <2>1, <2>4
<1>18. Typed'
  <2>1. \A i \in DOMAIN records' :
           records'[i] \in RowType
    BY <1>9, ElementOfSeq
  <2>2. QED
    BY <1>1, <1>3, <1>9, <1>10, <1>11, <2>1 DEF Typed, BridgeType, RunnerType
<1>19. \A i \in DOMAIN records' :
          \/ i \in DOMAIN records /\ records'[i] = records[i]
          \/ i = Len(records) + 1 /\ records'[i] = row
  <2>1. \A i \in 1..(Len(records) + 1) : i \in 1..Len(records) \/ i = Len(records) + 1
    BY <1>8
  <2>2. QED
    BY <1>8, <1>9, <2>1
<1>20. RecordsAreSound'
  <2>1. \A i \in DOMAIN records : records[i].id # id
    BY <1>5 DEF AnsweredIds
  <2>2. ASSUME NEW i \in DOMAIN records', NEW j \in DOMAIN records',
               records'[i].id = records'[j].id
        PROVE  i = j
    <3>1. /\ \A k \in DOMAIN records : records[k].id # row.id
          /\ \A k, l \in DOMAIN records : records[k].id = records[l].id => k = l
      BY <1>1, <1>7, <2>1 DEF RecordsAreSound
    <3>2. CASE i \in DOMAIN records /\ records'[i] = records[i]
      <4>1. ~(j = Len(records) + 1 /\ records'[j] = row)
        BY <2>2, <3>1, <3>2
      <4>2. QED
        BY <1>19, <2>2, <3>1, <3>2, <4>1
    <3>3. CASE i = Len(records) + 1 /\ records'[i] = row
      <4>1. ~(j \in DOMAIN records /\ records'[j] = records[j])
        BY <2>2, <3>1, <3>3
      <4>2. QED
        BY <1>19, <2>2, <3>3, <4>1
    <3>4. QED
      BY <1>19, <3>2, <3>3
  <2>3. ASSUME NEW i \in DOMAIN records'
        PROVE  /\ records'[i].point = Point(records'[i].id)
               /\ records'[i].answer \in {0, records'[i].point} /\ records'[i].id < Read
               /\ WholeRow(records'[i])
    BY <1>1, <1>5, <1>7, <1>19 DEF RecordsAreSound
  <2>4. QED
    BY <1>1, <1>3, <1>8, <1>11, <1>13, <1>17, <2>2, <2>3 DEF RecordsAreSound
<1>21. TellsFollowRecords'
  <2>1. Len(records') = Len(told') + Len(toBridge')
    BY <1>3, <1>8, <1>9, <1>10
  <2>2. ASSUME NEW i \in DOMAIN told
        PROVE  told[i] = [point |-> records'[i].point, answer |-> records'[i].answer]
    <3>1. i \in 1..Len(records)
      BY <1>8
    <3>2. QED
      BY <1>1, <1>9, <3>1 DEF TellsFollowRecords
  <2>3. ASSUME NEW i \in DOMAIN toBridge'
        PROVE  toBridge'[i] = [id |-> records'[Len(told) + i].id,
                               answer |-> records'[Len(told) + i].answer]
    <3>1. i \in 1..(Len(toBridge) + 1)
      BY <1>10
    <3>2. CASE i = Len(toBridge) + 1
      <4>1. Len(told) + i = Len(records) + 1
        BY <1>8, <3>2
      <4>2. toBridge'[i] = ans /\ records'[Len(told) + i] = row
        BY <1>9, <1>10, <3>2, <4>1
      <4>3. QED
        BY <1>2, <1>7, <4>2
    <3>3. CASE i # Len(toBridge) + 1
      <4>1. i \in 1..Len(toBridge) /\ Len(told) + i \in 1..Len(records)
        BY <1>8, <3>1, <3>3
      <4>2. toBridge'[i] = toBridge[i] /\ records'[Len(told) + i] = records[Len(told) + i]
        BY <1>9, <1>10, <4>1
      <4>3. i \in DOMAIN toBridge
        BY <1>8, <4>1
      <4>4. toBridge[i] = [id |-> records[Len(told) + i].id,
                           answer |-> records[Len(told) + i].answer]
        BY <1>1, <4>3 DEF TellsFollowRecords
      <4>5. QED
        BY <4>2, <4>4
    <3>4. QED
      BY <3>2, <3>3
  <2>4. QED
    BY <1>3, <2>1, <2>2, <2>3 DEF TellsFollowRecords
<1>22. SlotsAreOwed'
  <2>1. UsedIds' = UsedIds /\ InUse' = InUse
    BY <1>3 DEF UsedIds, InUse
  <2>2. QED
    BY <1>1, <1>3, <1>13, <1>15, <2>1 DEF SlotsAreOwed
<1>23. PendingIsOwed'
  <2>1. runner'.pending = (0..(Read - 1)) \ AnsweredIds'
    BY <1>1, <1>4, <1>11, <1>14 DEF PendingIsOwed
  <2>2. \A i \in runner'.pending : i < Read /\ futures[i].state # "NONE"
    BY <1>1, <1>11 DEF PendingIsOwed
  <2>3. QED
    BY <1>3, <1>11, <1>17, <2>1, <2>2 DEF PendingIsOwed
<1>24. PipeIsInStep'
  <2>1. ~Waits
    BY <1>1, <1>3, <1>4 DEF PipeIsInStep
  <2>2. (Waits' <=> Waits) /\ (Done' <=> Done)
    BY <1>3, <1>11, <1>13 DEF Waits, Done
  <2>3. QED
    BY <1>1, <1>3, <1>4, <1>11, <1>13, <2>1, <2>2 DEF PipeIsInStep
<1>25. TurnsAreTaken'
  <2>1. ~(bridge.at = "LOOP" /\ MayAsk)
    BY <1>1, <1>3, <1>4 DEF TurnsAreTaken
  <2>2. ASSUME Len(toBridge') >= 2 PROVE Read = Budget
    <3>1. Len(toBridge) # 0
      BY <1>8, <1>10, <2>2
    <3>2. toBridge # <<>>
      BY <3>1, EmptySeq
    <3>3. QED
      BY <1>1, <1>3, <1>4, <3>2 DEF TurnsAreTaken
  <2>3. QED
    BY <1>3, <1>11, <1>13, <2>1, <2>2 DEF TurnsAreTaken
<1>26. PeakIsReached'
  BY <1>1, <1>3, <1>4, <1>9, <1>11 DEF PeakIsReached
<1>27. EndsAreEarned'
  <2>1. runner.why = "" /\ ~stdinClosed
    BY <1>1, <1>3, <1>4 DEF EndsAreEarned
  <2>2. bridge'.at = "EXITED" => Len(told') = Budget /\ Asked' = Budget
    BY <1>1, <1>3, <1>13 DEF EndsAreEarned
  <2>3. QED
    BY <1>1, <1>3, <1>11, <1>12, <2>1, <2>2 DEF EndsAreEarned
<1>28. QED
  BY <1>18, <1>20, <1>21, <1>22, <1>23, <1>24, <1>25, <1>26, <1>27 DEF CInv
\* The result of an evaluation is an exception, or cannot be sent any more.
LEMMA CompletionRaisesKeeps ==
    ASSUME CInv, NEW id \in Ids, CompletionRaises(id)
    PROVE  CInv'
<1>1. /\ Typed /\ PendingIsOwed /\ EndsAreEarned
  BY DEF CInv
<1>2. PICK y : y = IF futures[id].state = "RAISED" THEN "EVALUATION" ELSE "BROKEN_PIPE"
  OBVIOUS
<1>3. /\ runner.at = "COMPLETE" /\ id \in runner.pending
      /\ \/ futures[id].state = "RAISED" /\ y = "EVALUATION"
         \/ BridgeGone /\ y = "BROKEN_PIPE"
      /\ runner' = [runner EXCEPT !.at = "JOIN", !.pending = @ \ {id}, !.why = y]
      /\ bridge' = bridge /\ slots' = slots /\ toBridge' = toBridge /\ toRunner' = toRunner
      /\ stdinClosed' = stdinClosed /\ told' = told
      /\ futures' = futures /\ records' = records
  BY <1>2 DEF CompletionRaises, bridgeVars
<1>4. Live
  BY <1>3 DEF Live
<1>5. /\ runner'.at = "JOIN" /\ Read' = Read /\ runner'.pending = runner.pending \ {id}
      /\ runner'.why = y
      /\ runner' \in [at : {"LOOP", "COMPLETE", "JOIN", "REAP", "RETURNED",
                            "WRITTEN", "RAISED"},
                      dispatched : 0..Budget, pending : SUBSET Ids, peak : 0..Workers,
                      why : {"", "EOF", "EVALUATION", "BROKEN_PIPE", "CHECKOUT"}]
  <2>1. PICK q : q = runner.pending \ {id}
    OBVIOUS
  <2>2. q \in SUBSET Ids
    BY <1>1, <2>1, Numbers
  <2>3. runner' = [runner EXCEPT !.at = "JOIN", !.pending = q, !.why = y]
    BY <1>3, <2>1
  <2>4. y \in {"", "EOF", "EVALUATION", "BROKEN_PIPE", "CHECKOUT"}
    BY <1>3
  <2>5. QED
    BY <1>1, <2>1, <2>2, <2>3, <2>4 DEF Typed, RunnerType, Read
<1>6. ~Live'
  BY <1>5 DEF Live
<1>7. /\ RecordsAreSound' /\ TellsFollowRecords' /\ SlotsAreOwed' /\ PendingIsOwed'
      /\ PipeIsInStep' /\ TurnsAreTaken' /\ PeakIsReached'
  BY <1>3, <1>5, <1>6, OutOfLoop
<1>8. Typed'
  BY <1>1, <1>3, <1>5 DEF Typed, BridgeType, RunnerType
<1>9. bridge.at # "EXITED"
  <2> SUFFICES ASSUME bridge.at = "EXITED" PROVE FALSE
    OBVIOUS
  <2>1. Len(told) = Budget /\ Asked = Budget
    BY <1>1 DEF EndsAreEarned
  <2>2. PICK c, r : c = Cardinality(runner.pending) /\ r = Read
    OBVIOUS
  <2>3. c = r - Len(records) /\ r <= Budget /\ Len(records) >= Len(told) /\ c \in Nat
        /\ Len(records) \in Nat /\ r \in Nat /\ Budget \in Nat
    <3>1. /\ Len(records) = Len(told) + Len(toBridge) /\ Len(toBridge) \in Nat
          /\ Len(told) \in Nat
      BY Tallies
    <3>2. Len(records) >= Len(told)
      BY <3>1
    <3>3. QED
      BY <1>1, <1>4, <2>2, <3>2, Numbers, Tallies, PendingTally
  <2>4. c = 0
    BY <2>1, <2>3
  <2>5. runner.pending = {}
    BY <2>2, <2>4, FS_EmptySet, Tallies
  <2>6. QED
    BY <1>3, <2>5
<1>10. /\ runner.why = "" /\ ~stdinClosed
  BY <1>1, <1>3, <1>4 DEF EndsAreEarned
<1>11. y = "BROKEN_PIPE" => bridge.why \in {"ASK", "TELL"}
  <2>1. bridge.why \in {"", "ASK", "TELL", "EOF"}
    BY <1>1 DEF Typed, BridgeType
  <2>2. y = "BROKEN_PIPE" => bridge.at = "ABORTED"
    BY <1>3, <1>9 DEF BridgeGone
  <2>3. QED
    BY <1>1, <1>10, <2>1, <2>2 DEF EndsAreEarned
<1>12. y = "EVALUATION" => \E i \in Ids : futures'[i].state = "RAISED"
  BY <1>3
<1>13. y \in {"EVALUATION", "BROKEN_PIPE"}
  BY <1>3
<1>14. EndsAreEarned'
  BY <1>1, <1>3, <1>5, <1>6, <1>9, <1>10, <1>11, <1>12, <1>13 DEF EndsAreEarned
<1>15. QED
  BY <1>7, <1>8, <1>14 DEF CInv

\* The runner reads that the bridge is done.
LEMMA ReadDoneKeeps ==
    ASSUME CInv, ReadDone
    PROVE  CInv'
<1>1. /\ Typed /\ RecordsAreSound /\ PendingIsOwed /\ PipeIsInStep /\ PeakIsReached
      /\ EndsAreEarned
  BY DEF CInv
<1>2. /\ runner.at = "LOOP" /\ runner.pending = {} /\ NextLineIs("DONE")
      /\ runner' = [runner EXCEPT !.at = "JOIN"] /\ toRunner' = Tail(toRunner)
      /\ bridge' = bridge /\ slots' = slots /\ toBridge' = toBridge
      /\ stdinClosed' = stdinClosed /\ told' = told
      /\ futures' = futures /\ records' = records
  BY DEF ReadDone
<1>3. Live
  BY <1>2 DEF Live
<1>4. Read = Asked /\ Done /\ toRunner # <<>>
  BY <1>2, <1>3, HeadTells DEF NextLineIs
<1>5. bridge.at = "EXITED" /\ Len(told) = Budget /\ Asked = Budget
  BY <1>1, <1>3, <1>4 DEF PipeIsInStep, EndsAreEarned
<1>6. /\ runner'.at = "JOIN" /\ Read' = Read /\ runner'.pending = runner.pending
      /\ runner'.peak = runner.peak /\ runner'.why = runner.why
      /\ runner' \in [at : {"LOOP", "COMPLETE", "JOIN", "REAP", "RETURNED",
                            "WRITTEN", "RAISED"},
                      dispatched : 0..Budget, pending : SUBSET Ids, peak : 0..Workers,
                      why : {"", "EOF", "EVALUATION", "BROKEN_PIPE", "CHECKOUT"}]
  BY <1>1, <1>2, RunnerMoves DEF Typed
<1>7. ~Live'
  BY <1>6 DEF Live
<1>8. /\ RecordsAreSound' /\ TellsFollowRecords' /\ SlotsAreOwed' /\ PendingIsOwed'
      /\ PipeIsInStep' /\ TurnsAreTaken' /\ PeakIsReached'
  BY <1>2, <1>6, <1>7, OutOfLoop
<1>9. toRunner' \in Seq(Line)
  BY <1>2, <1>3, <1>4, HeadOfLines
<1>10. Typed'
  BY <1>1, <1>2, <1>6, <1>9 DEF Typed, BridgeType, RunnerType
<1>11. Len(records) = Budget /\ Budget \in Nat \ {0}
  <2>1. Cardinality(runner.pending) = 0
    BY <1>2, FS_EmptySet
  <2>2. Cardinality(runner.pending) = Read - Len(records)
    BY <1>3, PendingTally
  <2>3. Len(records) \in Nat /\ Read \in Nat /\ Budget \in Nat \ {0}
    BY <1>1, Numbers, Tallies
  <2>4. QED
    BY <1>4, <1>5, <2>1, <2>2, <2>3
<1>12. AnsweredIds = Ids
  <2>1. {} = (0..(Read - 1)) \ AnsweredIds
    BY <1>1, <1>2, <1>3 DEF PendingIsOwed
  <2>2. Ids \subseteq AnsweredIds
    BY <1>4, <1>5, <2>1 DEF Ids
  <2>3. AnsweredIds \subseteq Ids
    BY <1>1 DEF Typed, RunnerType, AnsweredIds, RowType
  <2>4. QED
    BY <2>2, <2>3
<1>13. runner.peak = Full
  <2>1. records # <<>>
    BY <1>11, EmptySeq
  <2>2. QED
    BY <1>1, <1>3, <2>1 DEF PeakIsReached
<1>14. Completed'
  <2>1. AnsweredIds' = AnsweredIds
    BY <1>2 DEF AnsweredIds
  <2>2. QED
    BY <1>2, <1>4, <1>5, <1>6, <1>11, <1>12, <1>13, <2>1 DEF Completed
<1>15. EndsAreEarned'
  <2>1. /\ runner.why = "" /\ ~stdinClosed
    BY <1>1, <1>2, <1>3 DEF EndsAreEarned
  <2>2. bridge'.at = "EXITED" => Len(told') = Budget /\ Asked' = Budget
    BY <1>2, <1>5, BridgeKept
  <2>3. QED
    BY <1>1, <1>2, <1>6, <1>7, <1>14, <2>1, <2>2 DEF EndsAreEarned
<1>16. QED
  BY <1>8, <1>10, <1>15 DEF CInv

\* What a finished run has to show stays as it is.
LEMMA CompletedKept ==
    ASSUME Completed, bridge' = bridge, records' = records, Read' = Read,
           runner'.peak = runner.peak
    PROVE  Completed'
BY DEF Completed, AnsweredIds

\* The threads are joined and the input of the bridge is closed.
LEMMA ClosesInputKeeps ==
    ASSUME CInv, ClosesInput
    PROVE  CInv'
<1>1. Typed /\ EndsAreEarned
  BY DEF CInv
<1>2. PICK a : a = IF runner.why = "BROKEN_PIPE" THEN "RAISED" ELSE "REAP"
  OBVIOUS
<1>3. /\ runner.at = "JOIN" /\ Running = {} /\ runner' = [runner EXCEPT !.at = a]
      /\ stdinClosed' = TRUE /\ toRunner' = toRunner
      /\ bridge' = bridge /\ slots' = slots /\ toBridge' = toBridge /\ told' = told
      /\ futures' = futures /\ records' = records
  BY <1>2 DEF ClosesInput, Joined
<1>4. /\ runner'.at = a /\ Read' = Read /\ runner'.pending = runner.pending
      /\ runner'.peak = runner.peak /\ runner'.why = runner.why
      /\ runner' \in [at : {"LOOP", "COMPLETE", "JOIN", "REAP", "RETURNED",
                            "WRITTEN", "RAISED"},
                      dispatched : 0..Budget, pending : SUBSET Ids, peak : 0..Workers,
                      why : {"", "EOF", "EVALUATION", "BROKEN_PIPE", "CHECKOUT"}]
  BY <1>1, <1>2, <1>3, RunnerMoves DEF Typed
<1>5. ~Live' /\ ~Live
  BY <1>2, <1>3, <1>4 DEF Live
<1>6. /\ RecordsAreSound' /\ TellsFollowRecords' /\ SlotsAreOwed' /\ PendingIsOwed'
      /\ PipeIsInStep' /\ TurnsAreTaken' /\ PeakIsReached'
  BY <1>3, <1>4, <1>5, OutOfLoop
<1>7. Typed'
  BY <1>1, <1>3, <1>4 DEF Typed, BridgeType, RunnerType
<1>8. EndsAreEarned'
  <2>1. runner.why = "" => Completed'
    BY <1>1, <1>3, <1>4, <1>5, CompletedKept DEF EndsAreEarned
  <2>2. Running' = {}
    BY <1>3 DEF Running
  <2>3. a = "RAISED" => BridgeGone
    BY <1>1, <1>2 DEF EndsAreEarned, BridgeGone
  <2>4. bridge'.at = "EXITED" => Len(told') = Budget /\ Asked' = Budget
    BY <1>1, <1>3, BridgeKept DEF EndsAreEarned
  <2>5. (BridgeGone' <=> BridgeGone) /\ runner.why # "CHECKOUT"
    BY <1>1, <1>3, BridgeKept DEF EndsAreEarned
  <2>6. QED
    BY <1>1, <1>2, <1>3, <1>4, <1>5, <2>1, <2>2, <2>3, <2>4, <2>5 DEF EndsAreEarned
<1>9. QED
  BY <1>6, <1>7, <1>8 DEF CInv

\* The bridge is reaped and the run has returned or raised.
LEMMA ReapsKeeps ==
    ASSUME CInv, Reaps
    PROVE  CInv'
<1>1. Typed /\ EndsAreEarned
  BY DEF CInv
<1>2. PICK a : a = IF /\ runner.why = "" /\ bridge.at = "EXITED"
                      /\ runner.dispatched = Budget /\ Len(records) = Budget
                   THEN "RETURNED" ELSE "RAISED"
  OBVIOUS
<1>3. /\ runner.at = "REAP" /\ BridgeGone /\ runner' = [runner EXCEPT !.at = a]
      /\ stdinClosed' = stdinClosed /\ toRunner' = toRunner
      /\ bridge' = bridge /\ slots' = slots /\ toBridge' = toBridge /\ told' = told
      /\ futures' = futures /\ records' = records
  BY <1>2 DEF Reaps, bridgeVars
<1>4. /\ runner'.at = a /\ Read' = Read /\ runner'.pending = runner.pending
      /\ runner'.peak = runner.peak /\ runner'.why = runner.why
      /\ runner' \in [at : {"LOOP", "COMPLETE", "JOIN", "REAP", "RETURNED",
                            "WRITTEN", "RAISED"},
                      dispatched : 0..Budget, pending : SUBSET Ids, peak : 0..Workers,
                      why : {"", "EOF", "EVALUATION", "BROKEN_PIPE", "CHECKOUT"}]
  BY <1>1, <1>2, <1>3, RunnerMoves DEF Typed
<1>5. ~Live' /\ ~Live
  BY <1>2, <1>3, <1>4 DEF Live
<1>6. /\ RecordsAreSound' /\ TellsFollowRecords' /\ SlotsAreOwed' /\ PendingIsOwed'
      /\ PipeIsInStep' /\ TurnsAreTaken' /\ PeakIsReached'
  BY <1>3, <1>4, <1>5, OutOfLoop
<1>7. Typed'
  BY <1>1, <1>3, <1>4 DEF Typed, BridgeType, RunnerType
<1>8. EndsAreEarned'
  <2>1. runner.why = "" => Completed /\ Completed'
    BY <1>1, <1>3, <1>4, <1>5, CompletedKept DEF EndsAreEarned
  <2>2. runner.why = "" <=> a = "RETURNED"
    BY <1>2, <2>1 DEF Completed, Read
  <2>3. Running' = {}
    BY <1>1, <1>3 DEF Running, EndsAreEarned
  <2>4. bridge'.at = "EXITED" => Len(told') = Budget /\ Asked' = Budget
    BY <1>1, <1>3, BridgeKept DEF EndsAreEarned
  <2>5. (BridgeGone' <=> BridgeGone) /\ runner.why # "CHECKOUT"
    BY <1>1, <1>3, BridgeKept DEF EndsAreEarned
  <2>6. a \in {"RETURNED", "RAISED"}
    BY <1>2
  <2>7. QED
    BY <1>1, <1>3, <1>4, <1>5, <2>1, <2>2, <2>3, <2>4, <2>5, <2>6 DEF EndsAreEarned
<1>9. QED
  BY <1>6, <1>7, <1>8 DEF CInv

\* main writes the ledger, or finds a checkout changed.
LEMMA FinishesKeeps ==
    ASSUME CInv, Finishes
    PROVE  CInv'
<1>1. Typed /\ EndsAreEarned
  BY DEF CInv
<1>2. PICK a, y : /\ runner' = [runner EXCEPT !.at = a, !.why = y]
                  /\ \/ a = "WRITTEN" /\ y = runner.why
                     \/ a = "RAISED" /\ y = "CHECKOUT"
  <2>1. CASE runner' = [runner EXCEPT !.at = "WRITTEN"]
    <3>1. runner' = [runner EXCEPT !.at = "WRITTEN", !.why = runner.why]
      BY <1>1, <2>1 DEF Typed, RunnerType
    <3>2. QED
      BY <3>1
  <2>2. CASE runner' = [runner EXCEPT !.at = "RAISED", !.why = "CHECKOUT"]
    BY <2>2
  <2>3. QED
    BY <2>1, <2>2 DEF Finishes
<1>3. /\ runner.at = "RETURNED"
      /\ stdinClosed' = stdinClosed /\ toRunner' = toRunner
      /\ bridge' = bridge /\ slots' = slots /\ toBridge' = toBridge /\ told' = told
      /\ futures' = futures /\ records' = records
  BY DEF Finishes, bridgeVars
<1>4. /\ runner'.at = a /\ Read' = Read /\ runner'.pending = runner.pending
      /\ runner'.peak = runner.peak /\ runner'.why = y
      /\ runner' \in [at : {"LOOP", "COMPLETE", "JOIN", "REAP", "RETURNED",
                            "WRITTEN", "RAISED"},
                      dispatched : 0..Budget, pending : SUBSET Ids, peak : 0..Workers,
                      why : {"", "EOF", "EVALUATION", "BROKEN_PIPE", "CHECKOUT"}]
  BY <1>1, <1>2 DEF Typed, RunnerType, Read
<1>5. ~Live' /\ ~Live
  BY <1>2, <1>3, <1>4 DEF Live
<1>6. /\ RecordsAreSound' /\ TellsFollowRecords' /\ SlotsAreOwed' /\ PendingIsOwed'
      /\ PipeIsInStep' /\ TurnsAreTaken' /\ PeakIsReached'
  BY <1>3, <1>4, <1>5, OutOfLoop
<1>7. Typed'
  BY <1>1, <1>3, <1>4 DEF Typed, BridgeType, RunnerType
<1>8. EndsAreEarned'
  <2>1. runner.why = ""
    BY <1>1, <1>3 DEF EndsAreEarned
  <2>2. Completed /\ Completed'
    BY <1>1, <1>3, <1>4, <1>5, <2>1, CompletedKept DEF EndsAreEarned
  <2>3. Running' = {} /\ BridgeGone /\ BridgeGone'
    BY <1>1, <1>3 DEF Running, BridgeGone, EndsAreEarned
  <2>4. bridge'.at = "EXITED" => Len(told') = Budget /\ Asked' = Budget
    BY <1>1, <1>3, BridgeKept DEF EndsAreEarned
  <2>5. bridge'.at = "EXITED"
    BY <1>3, <2>2 DEF Completed
  <2>6. QED
    BY <1>1, <1>2, <1>3, <1>4, <1>5, <2>1, <2>2, <2>3, <2>4, <2>5 DEF EndsAreEarned
<1>9. QED
  BY <1>6, <1>7, <1>8 DEF CInv

\* A thread ends its evaluation.
LEMMA EvaluateKeeps ==
    ASSUME CInv, NEW id \in Ids, Evaluate(id)
    PROVE  CInv'
<1>1. /\ Typed /\ RecordsAreSound /\ TellsFollowRecords /\ SlotsAreOwed /\ PendingIsOwed
      /\ PipeIsInStep /\ TurnsAreTaken /\ PeakIsReached /\ EndsAreEarned
  BY DEF CInv
<1>2. PICK s \in {"VALUE", "FAIL", "RAISED"} : futures' = [futures EXCEPT ![id].state = s]
  <2>1. PICK s \in {"VALUE", "FAIL"} \cup (IF MayAbort THEN {"RAISED"} ELSE {}) :
            futures' = [futures EXCEPT ![id].state = s]
    BY DEF Evaluate
  <2>2. s \in {"VALUE", "FAIL", "RAISED"}
    OBVIOUS
  <2>3. QED
    BY <2>1, <2>2
<1>3. /\ futures[id].state = "RUNNING"
      /\ stdinClosed' = stdinClosed /\ toRunner' = toRunner /\ runner' = runner
      /\ bridge' = bridge /\ slots' = slots /\ toBridge' = toBridge /\ told' = told
      /\ records' = records
  BY DEF Evaluate, bridgeVars
<1>4. futures \in [Ids -> [state : {"NONE", "RUNNING", "VALUE", "FAIL", "RAISED"},
                           point : 0..Budget]]
  BY <1>1 DEF Typed, RunnerType
<1>5. /\ futures' \in [Ids -> [state : {"NONE", "RUNNING", "VALUE", "FAIL", "RAISED"},
                               point : 0..Budget]]
      /\ futures'[id].state = s /\ futures'[id].point = futures[id].point
      /\ \A i \in Ids \ {id} : futures'[i] = futures[i]
  <2>1. PICK e : e = [futures[id] EXCEPT !.state = s]
    OBVIOUS
  <2>2. /\ e \in [state : {"NONE", "RUNNING", "VALUE", "FAIL", "RAISED"}, point : 0..Budget]
        /\ e.state = s /\ e.point = futures[id].point
    BY <1>4, <2>1
  <2>3. futures' = [futures EXCEPT ![id] = e]
    BY <1>2, <2>1
  <2>4. QED
    BY <1>4, <2>2, <2>3
<1>6. \A i \in Ids : /\ futures'[i].point = futures[i].point
                     /\ futures'[i].state # "NONE" <=> futures[i].state # "NONE"
                     /\ futures[i].state = "RAISED" => futures'[i].state = "RAISED"
  BY <1>2, <1>3, <1>5
<1>7. /\ Read' = Read /\ (Live' <=> Live) /\ runner'.at = runner.at
      /\ runner'.pending = runner.pending /\ runner'.peak = runner.peak
      /\ runner'.why = runner.why /\ AnsweredIds' = AnsweredIds
  BY <1>3 DEF Read, Live, AnsweredIds
<1>8. /\ Asked' = Asked /\ (MayAsk' <=> MayAsk) /\ (BridgeGone' <=> BridgeGone)
      /\ PendingCount' = PendingCount
  BY <1>3, BridgeKept
<1>9. Typed'
  BY <1>1, <1>3, <1>5 DEF Typed, BridgeType, RunnerType
<1>10. RecordsAreSound'
  BY <1>1, <1>3, <1>6, <1>7, <1>8 DEF RecordsAreSound
<1>11. TellsFollowRecords' /\ SlotsAreOwed' /\ PeakIsReached'
  BY <1>1, <1>3, <1>7, <1>8, TellsKept, SlotsKept, PeakKept
<1>12. PendingIsOwed'
  <2>1. \A i \in runner.pending : futures'[i].state # "NONE"
    <3>1. runner.pending \subseteq Ids
      BY <1>1, Numbers
    <3>2. QED
      BY <1>1, <1>6, <3>1 DEF PendingIsOwed
  <2>2. QED
    BY <1>1, <1>3, <1>7, <2>1 DEF PendingIsOwed
<1>13. PipeIsInStep'
  <2>1. (Waits' <=> Waits) /\ (Done' <=> Done)
    BY <1>3, <1>7, <1>8 DEF Waits, Done
  <2>2. QED
    BY <1>1, <1>3, <1>7, <1>8, <2>1 DEF PipeIsInStep
<1>14. TurnsAreTaken'
  BY <1>1, <1>3, <1>7, <1>8 DEF TurnsAreTaken
<1>15. EndsAreEarned'
  <2>1. id \in Running
    BY <1>3 DEF Running
  <2>2. runner.at \notin {"REAP", "RETURNED", "WRITTEN", "RAISED"}
    BY <1>1, <2>1 DEF EndsAreEarned
  <2>3. Completed => Completed'
    BY <1>3, <1>7, CompletedKept
  <2>4. runner.why = "EVALUATION" => \E i \in Ids : futures'[i].state = "RAISED"
    BY <1>1, <1>6 DEF EndsAreEarned
  <2>5. QED
    BY <1>1, <1>3, <1>7, <1>8, <2>2, <2>3, <2>4 DEF EndsAreEarned
<1>16. QED
  BY <1>9, <1>10, <1>11, <1>12, <1>13, <1>14, <1>15 DEF CInv

-----------------------------------------------------------------------------
\* The run starts in step.
LEMMA CInvInit == Init => CInv
<1> SUFFICES ASSUME Init PROVE CInv
  OBVIOUS
<1>1. /\ bridge = [at |-> "LOOP", dispatched |-> 0, completed |-> 0, why |-> ""]
      /\ slots = [s \in Slots |-> Free] /\ toRunner = <<>> /\ toBridge = <<>>
      /\ stdinClosed = FALSE /\ told = <<>> /\ records = <<>>
      /\ runner = [at |-> "LOOP", dispatched |-> 0, pending |-> {}, peak |-> 0, why |-> ""]
      /\ futures = [id \in Ids |-> NoFuture]
  BY DEF Init, BridgeInit
<1>2. Budget \in Nat \ {0} /\ Workers \in Nat \ {0} /\ Ids = 0..(Budget - 1)
  BY BridgeAssumption DEF Ids
<1>3. Asked = 0 /\ Read = 0 /\ Live /\ runner.pending = {} /\ runner.peak = 0
  BY <1>1 DEF Asked, Read, Live
<1>4. /\ Len(told) = 0 /\ Len(records) = 0 /\ Len(toBridge) = 0 /\ Len(toRunner) = 0
      /\ DOMAIN told = {} /\ DOMAIN records = {} /\ DOMAIN toBridge = {}
      /\ told \in Seq([point : 1..Budget, answer : 0..Budget])
      /\ records \in Seq(RowType)
      /\ toBridge \in Seq([id : Ids, answer : 0..Budget]) /\ toRunner \in Seq(Line)
  <2>1. \A S : <<>> \in Seq(S) /\ Len(<<>>) = 0
    BY EmptySeq
  <2>2. DOMAIN <<>> = {}
    OBVIOUS
  <2>3. QED
    BY <1>1, <2>1, <2>2, Zenon
<1>5. InUse = {} /\ PendingCount = 0 /\ Cardinality(runner.pending) = 0
  <2>1. InUse = {}
    BY <1>1 DEF InUse, Free
  <2>2. QED
    BY <1>3, <2>1, FS_EmptySet DEF PendingCount
<1>6. AnsweredIds = {} /\ ToldIds = {} /\ UsedIds = {}
  <2>1. 1..Len(told) = {}
    BY <1>4
  <2>2. QED
    BY <1>4, <1>5, <2>1 DEF AnsweredIds, ToldIds, UsedIds
<1>7. Typed
  <2>1. BridgeType
    <3>1. /\ bridge \in [at : {"LOOP", "READ", "EXITED", "ABORTED"}, dispatched : 0..Budget,
                         completed : 0..Budget, why : {"", "ASK", "TELL", "EOF"}]
          /\ stdinClosed \in BOOLEAN
      <4>1. /\ bridge = [at |-> "LOOP", dispatched |-> 0, completed |-> 0, why |-> ""]
            /\ stdinClosed = FALSE
        BY <1>1
      <4>2. 0 \in 0..Budget
        BY <1>2
      <4>3. QED
        BY <4>1, <4>2
    <3>2. Free \in [used : BOOLEAN, id : Ids \cup {-1}, point : 0..Budget]
      BY <1>2 DEF Free
    <3>3. slots \in [Slots -> [used : BOOLEAN, id : Ids \cup {-1}, point : 0..Budget]]
      BY <1>1, <3>2
    <3>4. QED
      BY <3>1, <3>3 DEF BridgeType
  <2>2. RunnerType
    <3>1. runner \in [at : {"LOOP", "COMPLETE", "JOIN", "REAP", "RETURNED",
                            "WRITTEN", "RAISED"},
                      dispatched : 0..Budget, pending : SUBSET Ids, peak : 0..Workers,
                      why : {"", "EOF", "EVALUATION", "BROKEN_PIPE", "CHECKOUT"}]
      <4>1. runner = [at |-> "LOOP", dispatched |-> 0, pending |-> {}, peak |-> 0,
                      why |-> ""]
        BY <1>1
      <4>2. 0 \in 0..Budget /\ 0 \in 0..Workers
        BY <1>2
      <4>3. QED
        BY <4>1, <4>2
    <3>2. NoFuture \in [state : {"NONE", "RUNNING", "VALUE", "FAIL", "RAISED"},
                        point : 0..Budget]
      BY <1>2 DEF NoFuture
    <3>3. futures \in [Ids -> [state : {"NONE", "RUNNING", "VALUE", "FAIL", "RAISED"},
                               point : 0..Budget]]
      BY <1>1, <3>2
    <3>4. QED
      BY <1>4, <3>1, <3>3 DEF RunnerType
  <2>3. QED
    BY <1>4, <2>1, <2>2 DEF Typed
<1>8. RecordsAreSound
  <2>1. \A id \in Ids : futures[id].state = "NONE"
    BY <1>1 DEF NoFuture
  <2>2. QED
    BY <1>3, <1>4, <2>1 DEF RecordsAreSound
<1>9. TellsFollowRecords
  BY <1>4 DEF TellsFollowRecords
<1>10. SlotsAreOwed
  <2>1. 0..(Asked - 1) = {}
    BY <1>3
  <2>2. PendingCount = Asked - Len(told) /\ bridge.completed = Len(told)
    <3>1. bridge.completed = 0
      BY <1>1
    <3>2. 0 - 0 = 0
      OBVIOUS
    <3>3. QED
      BY <1>3, <1>4, <1>5, <3>1, <3>2, Zenon
  <2>3. QED
    BY <1>5, <1>6, <2>1, <2>2 DEF SlotsAreOwed
<1>11. PendingIsOwed
  <2>1. 0..(Read - 1) = {}
    BY <1>3
  <2>2. Cardinality(runner.pending) = Read - Len(records)
    BY <1>3, <1>4, <1>5
  <2>3. QED
    BY <1>3, <2>1, <2>2 DEF PendingIsOwed
<1>12. PipeIsInStep
  <2>1. Asked - Read = 0 /\ Asked - Read + 1 = 1
    BY <1>3
  <2>2. ~Waits /\ ~Done
    BY <1>4, <2>1 DEF Waits, Done
  <2>3. Len(toRunner) = Asked - Read /\ \A i \in 1..(Asked - Read) : FALSE
    BY <1>4, <2>1
  <2>4. bridge.at # "EXITED"
    BY <1>1
  <2>5. QED
    BY <2>2, <2>3, <2>4 DEF PipeIsInStep
<1>13. TurnsAreTaken
  <2>1. toBridge = <<>> /\ runner.at = "LOOP" /\ runner.at # "COMPLETE"
    BY <1>1
  <2>2. ~(Len(toBridge) >= 2)
    <3>1. ~(0 >= 2)
      OBVIOUS
    <3>2. QED
      BY <1>4, <3>1, Zenon
  <2>3. QED
    BY <2>1, <2>2 DEF TurnsAreTaken
<1>14. PeakIsReached
  BY <1>1, <1>3, <1>5 DEF PeakIsReached
<1>15. EndsAreEarned
  <2>1. bridge.at = "LOOP" /\ bridge.why = "" /\ stdinClosed = FALSE
        /\ runner.at = "LOOP" /\ runner.why = ""
    BY <1>1
  <2>2. QED
    BY <1>3, <2>1 DEF EndsAreEarned
<1>16. QED
  BY <1>7, <1>8, <1>9, <1>10, <1>11, <1>12, <1>13, <1>14, <1>15 DEF CInv

\* Every step keeps the two processes in step.
LEMMA CInvNext == CInv /\ [Next]_vars => CInv'
<1> SUFFICES ASSUME CInv, [Next]_vars PROVE CInv'
  OBVIOUS
<1>1. CASE BridgeAsk /\ UNCHANGED runnerVars
  BY <1>1, AskKeeps
<1>2. CASE BridgeWait /\ UNCHANGED runnerVars
  BY <1>2, WaitKeeps
<1>3. CASE BridgeAskFails /\ UNCHANGED runnerVars
  BY <1>3, StopKeeps DEF BridgeAskFails
<1>4. CASE BridgeListens /\ UNCHANGED runnerVars
  BY <1>4, ListensKeeps
<1>5. CASE BridgeTell /\ UNCHANGED runnerVars
  BY <1>5, TellKeeps
<1>6. CASE BridgeTellFails /\ UNCHANGED runnerVars
  BY <1>6, StopKeeps DEF BridgeTellFails
<1>7. CASE BridgeEndOfInput /\ UNCHANGED runnerVars
  BY <1>7, StopKeeps DEF BridgeEndOfInput
<1>8. CASE BridgeDone /\ UNCHANGED runnerVars
  BY <1>8, DoneKeeps
<1>9. CASE ReadAsk
  BY <1>9, ReadAskKeeps
<1>10. CASE ReadWait \/ AwaitsFuture
  BY <1>10, TurnKeeps
<1>11. CASE ReadEndOfOutput
  BY <1>11, EndOfOutputKeeps
<1>12. CASE \E id \in Ids : Completes(id) \/ CompletionRaises(id)
  BY <1>12, CompletesKeeps, CompletionRaisesKeeps
<1>13. CASE ReadDone
  BY <1>13, ReadDoneKeeps
<1>14. CASE ClosesInput
  BY <1>14, ClosesInputKeeps
<1>15. CASE Reaps
  BY <1>15, ReapsKeeps
<1>16. CASE Finishes
  BY <1>16, FinishesKeeps
<1>17. CASE \E id \in Ids : Evaluate(id)
  BY <1>17, EvaluateKeeps
<1>18. CASE UNCHANGED vars
  <2>1. /\ bridge' = bridge /\ slots' = slots /\ toRunner' = toRunner
        /\ toBridge' = toBridge /\ stdinClosed' = stdinClosed /\ told' = told
        /\ runner' = runner /\ futures' = futures /\ records' = records
    BY <1>18 DEF vars, bridgeVars, runnerVars
  <2>2. /\ Typed /\ RecordsAreSound /\ TellsFollowRecords /\ SlotsAreOwed /\ PendingIsOwed
        /\ PipeIsInStep /\ TurnsAreTaken /\ PeakIsReached /\ EndsAreEarned
    BY DEF CInv
  <2>3. /\ Read' = Read /\ (Live' <=> Live) /\ AnsweredIds' = AnsweredIds
        /\ Running' = Running
    BY <2>1, RunnerKept
  <2>4. /\ Asked' = Asked /\ (MayAsk' <=> MayAsk) /\ (BridgeGone' <=> BridgeGone)
        /\ PendingCount' = PendingCount
    BY <2>1, BridgeKept
  <2>5. Typed'
    BY <2>1, <2>2 DEF Typed, BridgeType, RunnerType
  <2>6. RecordsAreSound' /\ TellsFollowRecords' /\ SlotsAreOwed' /\ PendingIsOwed'
        /\ PeakIsReached'
    BY <2>1, <2>2, <2>3, <2>4, RecordsKept, TellsKept, SlotsKept, PendingKept, PeakKept
  <2>7. (Waits' <=> Waits) /\ (Done' <=> Done)
    BY <2>1, <2>3, <2>4 DEF Waits, Done
  <2>8. PipeIsInStep' /\ TurnsAreTaken'
    BY <2>1, <2>2, <2>3, <2>4, <2>7 DEF PipeIsInStep, TurnsAreTaken
  <2>9. EndsAreEarned'
    <3>1. Completed' <=> Completed
      BY <2>1, <2>3 DEF Completed
    <3>2. QED
      BY <2>1, <2>2, <2>3, <2>4, <3>1 DEF EndsAreEarned
  <2>10. QED
    BY <2>5, <2>6, <2>8, <2>9 DEF CInv
<1>19. QED
  BY <1>1, <1>2, <1>3, <1>4, <1>5, <1>6, <1>7, <1>8, <1>9, <1>10, <1>11, <1>12, <1>13,
     <1>14, <1>15, <1>16, <1>17, <1>18 DEF Next, BridgeStep, Bridge, Runner

\* The invariant holds of every run.
LEMMA CInvariant == Spec => []CInv
BY CInvInit, CInvNext, PTL DEF Spec
-----------------------------------------------------------------------------
\* No result bears an id that is in no slot.
LEMMA NoUnknownId == CInv => ~UnknownId
<1> SUFFICES ASSUME CInv, toBridge # <<>>, SlotOf(Head(toBridge).id) = {} PROVE FALSE
  BY DEF UnknownId
<1>1. PICK i : i = Len(told) + 1
  OBVIOUS
<1>2. i \in 1..Len(records) /\ Head(toBridge).id = records[i].id
  <2>1. /\ i \in 1..Len(records)
        /\ Head(toBridge) = [id |-> records[i].id, answer |-> records[i].answer]
    BY <1>1, HeadOfResults
  <2>2. QED
    BY <2>1
<1>3. records[i].id \in UsedIds
  BY <1>1, <1>2, HeadIsInSlot
<1>4. PICK s \in InUse : slots[s].id = records[i].id
  BY <1>3 DEF UsedIds
<1>5. s \in SlotOf(Head(toBridge).id)
  BY <1>2, <1>4 DEF SlotOf
<1>6. QED
  BY <1>5

\* No line is read where another was expected.
LEMMA NoUnexpectedLine == CInv => ~UnexpectedLine
<1> SUFFICES ASSUME CInv, UnexpectedLine PROVE FALSE
  OBVIOUS
<1>1. runner.at = "LOOP" /\ Live
  BY DEF UnexpectedLine, Live
<1>2. PICK c, a, r : c = Cardinality(runner.pending) /\ a = Asked /\ r = Read
  OBVIOUS
<1>3. /\ a \in 0..Budget /\ r \in 0..Budget /\ r <= a /\ Budget \in Nat \ {0}
      /\ Workers \in Nat \ {0} /\ c \in Nat
      /\ PendingCount = c + (a - r) + Len(toBridge)
  BY <1>1, <1>2, Numbers, Tallies, PendingTally DEF CInv
<1>4. (runner.pending = {} => c = 0) /\ (WantsAsk <=> r < Budget /\ c < Workers)
  BY <1>2, FS_EmptySet DEF WantsAsk, Read
<1>5. NextLineIs("ASK") => r < a /\ Head(toRunner).id = runner.dispatched
  <2> SUFFICES ASSUME NextLineIs("ASK")
               PROVE  r < a /\ Head(toRunner).id = runner.dispatched
    OBVIOUS
  <2>1. Read < Asked /\ toRunner # <<>>
    BY <1>1, HeadTells DEF NextLineIs
  <2>2. Head(toRunner) = AskLine(Read)
    BY <1>1, <2>1, HeadOfLines
  <2>3. QED
    BY <1>2, <2>1, <2>2 DEF AskLine, Read
<1>6. NextLineIs("WAIT") => r = a /\ a < Budget /\ c >= 1
  <2> SUFFICES ASSUME NextLineIs("WAIT") PROVE r = a /\ a < Budget /\ c >= 1
    OBVIOUS
  <2>1. Read = Asked /\ Waits
    BY <1>1, HeadTells
  <2>2. MayAsk /\ PendingCount >= 1 /\ toBridge = <<>>
    BY <1>1, <2>1 DEF CInv, PipeIsInStep
  <2>3. Len(toBridge) = 0 /\ a < Budget
    BY <1>2, <2>2, EmptySeq DEF MayAsk, Asked
  <2>4. QED
    BY <1>2, <1>3, <2>1, <2>2, <2>3
<1>7. NextLineIs("DONE") => r = Budget
  <2> SUFFICES ASSUME NextLineIs("DONE") PROVE r = Budget
    OBVIOUS
  <2>1. Read = Asked /\ Done
    BY <1>1, HeadTells
  <2>2. Asked = Budget
    BY <1>1, <2>1 DEF CInv, PipeIsInStep, EndsAreEarned
  <2>3. QED
    BY <1>2, <2>1, <2>2
<1>8. CASE WantsAsk
  <2>1. r < Budget
    BY <1>4, <1>8
  <2>2. \/ NextLineIs("ASK") /\ Head(toRunner).id # runner.dispatched
        \/ NextLineIs("WAIT") /\ runner.pending = {}
        \/ NextLineIs("DONE")
    BY <1>8 DEF UnexpectedLine
  <2>3. QED
    BY <1>3, <1>4, <1>5, <1>6, <1>7, <2>1, <2>2
<1>9. CASE ~WantsAsk
  <2>1. runner.pending = {} /\ (NextLineIs("ASK") \/ NextLineIs("WAIT"))
    BY <1>9 DEF UnexpectedLine
  <2>2. ~(r < Budget)
    BY <1>3, <1>4, <1>9, <2>1
  <2>3. QED
    BY <1>3, <1>5, <1>6, <2>1, <2>2
<1>10. QED
  BY <1>8, <1>9

\* An ask line is about its id.
LEMMA AskFields == \A id : AskLine(id).line = "ASK" /\ AskLine(id).id = id
BY DEF AskLine

\* The asks in the pipe are the lines up to the last ask.
LEMMA AsksOfPipe ==
    ASSUME CInv, Live
    PROVE  AsksInPipe = 1..(Asked - Read)
<1>1. PICK a, r : a = Asked /\ r = Read
  OBVIOUS
<1>2. /\ Len(toRunner) \in Nat /\ DOMAIN toRunner = 1..Len(toRunner)
      /\ a \in Nat /\ r \in Nat /\ r <= a
  BY <1>1, Numbers, Tallies DEF CInv
<1>3. \A i \in 1..(a - r) : i \in DOMAIN toRunner /\ toRunner[i] = AskLine(r + i - 1)
  BY <1>1 DEF CInv, PipeIsInStep
<1>4. 1..(a - r) \subseteq AsksInPipe
  <2>1. \A i \in 1..(a - r) : toRunner[i].line = "ASK"
    BY <1>3, AskFields, Zenon
  <2>2. QED
    BY <1>3, <2>1 DEF AsksInPipe
<1>5. \/ Len(toRunner) = a - r
      \/ Len(toRunner) = a - r + 1 /\ toRunner[a - r + 1] \in [line : {"WAIT", "DONE"}]
  BY <1>1 DEF CInv, PipeIsInStep, Waits, Done
<1>6. ASSUME NEW i \in AsksInPipe PROVE i \in 1..(a - r)
  <2>1. i \in 1..Len(toRunner) /\ toRunner[i].line = "ASK"
    BY <1>2 DEF AsksInPipe
  <2>2. CASE Len(toRunner) = a - r
    BY <2>1, <2>2
  <2>3. CASE Len(toRunner) = a - r + 1 /\ toRunner[a - r + 1] \in [line : {"WAIT", "DONE"}]
    <3>1. toRunner[a - r + 1].line # "ASK"
      BY <2>3, LastLines
    <3>2. i # a - r + 1
      BY <2>1, <3>1
    <3>3. QED
      BY <1>2, <2>1, <2>3, <3>2
  <2>4. QED
    BY <1>5, <2>2, <2>3
<1>7. QED
  BY <1>1, <1>4, <1>6

\* Each slot of the bridge is one candidate in flight.
LEMMA SlotsInFlight == CInv => SlotsAreInFlight
<1> SUFFICES ASSUME CInv, Live
             PROVE  /\ UsedIds = runner.pending \cup {toRunner[i].id : i \in AsksInPipe}
                                 \cup {toBridge[i].id : i \in DOMAIN toBridge}
                    /\ PendingCount = Cardinality(runner.pending)
                                      + Cardinality(AsksInPipe) + Len(toBridge)
                    /\ bridge.dispatched = runner.dispatched + Cardinality(AsksInPipe)
  BY DEF SlotsAreInFlight, Live
<1>1. PICK a, r, n : a = Asked /\ r = Read /\ n = Cardinality(AsksInPipe)
  OBVIOUS
<1>2. /\ a \in 0..Budget /\ r \in 0..Budget /\ r <= a /\ Budget \in Nat \ {0}
      /\ Ids = 0..(Budget - 1)
      /\ Len(told) \in Nat /\ Len(toBridge) \in Nat /\ Len(records) \in Nat
      /\ DOMAIN records = 1..Len(records) /\ DOMAIN toBridge = 1..Len(toBridge)
      /\ Len(records) = Len(told) + Len(toBridge)
  BY <1>1, Numbers, Tallies DEF CInv
<1>3. AsksInPipe = 1..(a - r)
  BY <1>1, AsksOfPipe
<1>4. n = a - r
  <2>1. 1 \in Int /\ a - r \in Int
    BY <1>2
  <2>2. Cardinality(1..(a - r)) = IF 1 > a - r THEN 0 ELSE a - r - 1 + 1
    BY <2>1, FS_Interval
  <2>3. Cardinality(1..(a - r)) = a - r
    BY <1>2, <2>2
  <2>4. QED
    BY <1>1, <1>3, <2>3
<1>5. {toRunner[i].id : i \in AsksInPipe} = r..(a - 1)
  <2>1. \A i \in 1..(a - r) : toRunner[i].id = r + i - 1
    <3>1. \A i \in 1..(a - r) : toRunner[i] = AskLine(r + i - 1)
      BY <1>1 DEF CInv, PipeIsInStep
    <3>2. QED
      BY <3>1, AskFields, Zenon
  <2>2. \A i \in 1..(a - r) : r + i - 1 \in r..(a - 1)
    BY <1>2
  <2>3. \A k \in r..(a - 1) : k - r + 1 \in 1..(a - r) /\ r + (k - r + 1) - 1 = k
    BY <1>2
  <2>4. {toRunner[i].id : i \in 1..(a - r)} \subseteq r..(a - 1)
    BY <2>1, <2>2
  <2>5. ASSUME NEW k \in r..(a - 1) PROVE k \in {toRunner[i].id : i \in 1..(a - r)}
    <3>1. PICK j : j = k - r + 1
      OBVIOUS
    <3>2. j \in 1..(a - r) /\ r + j - 1 = k
      BY <2>3, <3>1
    <3>3. toRunner[j].id = k
      BY <2>1, <3>2
    <3>4. QED
      BY <3>2, <3>3
  <2>6. QED
    BY <1>3, <2>4, <2>5
<1>6. {toBridge[i].id : i \in DOMAIN toBridge} = AnsweredIds \ ToldIds
  <2>1. \A i \in 1..Len(toBridge) : toBridge[i].id = records[Len(told) + i].id
    BY <1>2 DEF CInv, TellsFollowRecords
  <2>2. \A i, j \in 1..Len(records) : records[i].id = records[j].id => i = j
    BY <1>2 DEF CInv, RecordsAreSound
  <2>3. ASSUME NEW i \in 1..Len(toBridge)
        PROVE  toBridge[i].id \in AnsweredIds /\ toBridge[i].id \notin ToldIds
    <3>1. PICK j : j = Len(told) + i
      OBVIOUS
    <3>2. j \in 1..Len(records) /\ j \notin 1..Len(told) /\ toBridge[i].id = records[j].id
      BY <1>2, <2>1, <3>1
    <3>3. \A k \in 1..Len(told) : k \in 1..Len(records) /\ records[k].id # records[j].id
      BY <1>2, <2>2, <3>2
    <3>4. QED
      BY <1>2, <3>2, <3>3 DEF AnsweredIds, ToldIds
  <2>4. ASSUME NEW id \in AnsweredIds, id \notin ToldIds
        PROVE  id \in {toBridge[i].id : i \in DOMAIN toBridge}
    <3>1. PICK j \in 1..Len(records) : records[j].id = id
      BY <1>2 DEF AnsweredIds
    <3>2. j \notin 1..Len(told)
      BY <2>4, <3>1 DEF ToldIds
    <3>3. PICK i : i = j - Len(told)
      OBVIOUS
    <3>4. i \in 1..Len(toBridge) /\ Len(told) + i = j
      BY <1>2, <3>2, <3>3
    <3>5. toBridge[i].id = id
      BY <2>1, <3>1, <3>4
    <3>6. QED
      BY <1>2, <3>4, <3>5
  <2>5. QED
    BY <1>2, <2>3, <2>4
<1>7. /\ UsedIds = (0..(a - 1)) \ ToldIds
      /\ runner.pending = (0..(r - 1)) \ AnsweredIds
  BY <1>1 DEF CInv, SlotsAreOwed, PendingIsOwed
<1>8. AnsweredIds \subseteq 0..(r - 1) /\ ToldIds \subseteq AnsweredIds
  <2>1. \A i \in DOMAIN records : records[i].id \in 0..(Budget - 1) /\ records[i].id < r
    BY <1>1, <1>2 DEF CInv, RecordsAreSound, Typed, RunnerType, RowType
  <2>2. \A k \in 0..(Budget - 1) : k < r => k \in 0..(r - 1)
    BY <1>2
  <2>3. \A i \in 1..Len(told) : i \in DOMAIN records
    BY <1>2
  <2>4. QED
    BY <2>1, <2>2, <2>3 DEF AnsweredIds, ToldIds
<1>9. /\ 0..(a - 1) = (0..(r - 1)) \cup (r..(a - 1))
      /\ (0..(r - 1)) \cap (r..(a - 1)) = {}
  BY <1>2
<1>10. UsedIds = runner.pending \cup (r..(a - 1)) \cup (AnsweredIds \ ToldIds)
  BY <1>7, <1>8, <1>9
<1>11. PendingCount = Cardinality(runner.pending) + n + Len(toBridge)
  <2>1. PendingCount = Cardinality(runner.pending) + (a - r) + Len(toBridge)
    BY <1>1, PendingTally
  <2>2. QED
    BY <1>4, <2>1
<1>12. bridge.dispatched = runner.dispatched + n
  <2>1. a = r + n
    BY <1>2, <1>4
  <2>2. QED
    BY <1>1, <2>1 DEF Asked, Read
<1>13. QED
  BY <1>1, <1>5, <1>6, <1>10, <1>11, <1>12

\* The bridge and the runner stay in step whatever the budget and however many
\* the workers.
THEOREM ProcessesStayInStep == Spec => []LockStep
<1>1. CInv => LockStep
  BY NoUnknownId, NoUnexpectedLine, SlotsInFlight
     DEF CInv, Typed, LockStep, NeverSurprised
<1>2. QED
  BY <1>1, CInvariant, PTL

\* Every point is told once, with its own value.
THEOREM PointsAreToldOnce == Spec => []ToldUnderItsOwnPoint
<1>1. CInv => ToldUnderItsOwnPoint
  <2> SUFFICES ASSUME CInv PROVE ToldUnderItsOwnPoint
    OBVIOUS
  <2>1. /\ Len(told) \in Nat /\ DOMAIN told = 1..Len(told)
        /\ DOMAIN records = 1..Len(records) /\ Len(records) \in Nat
        /\ Len(records) = Len(told) + Len(toBridge) /\ Len(toBridge) \in Nat
    BY Tallies
  <2>2. \A i \in DOMAIN told : i \in DOMAIN records
    BY <2>1
  <2>3. \A i \in DOMAIN told : /\ told[i].point = records[i].point
                               /\ told[i].answer = records[i].answer
    BY DEF CInv, TellsFollowRecords
  <2>4. \A i \in DOMAIN told : told[i].answer \in {told[i].point, 0}
    BY <2>2, <2>3 DEF CInv, RecordsAreSound
  <2>5. ASSUME NEW i \in DOMAIN told, NEW j \in DOMAIN told, told[i].point = told[j].point
        PROVE  i = j
    <3>1. records[i].point = Point(records[i].id) /\ records[j].point = Point(records[j].id)
      BY <2>2 DEF CInv, RecordsAreSound
    <3>2. records[i].id \in Ids /\ records[j].id \in Ids
      BY <2>2 DEF CInv, Typed, RunnerType, RowType
    <3>3. PICK k, l : k = records[i].id /\ l = records[j].id
      OBVIOUS
    <3>4. k + 1 = l + 1
      BY <2>2, <2>3, <2>5, <3>1, <3>3 DEF Point
    <3>5. k \in Int /\ l \in Int
      <4>1. Ids = 0..(Budget - 1) /\ Budget \in Nat \ {0}
        BY Numbers DEF CInv
      <4>2. QED
        BY <3>2, <3>3, <4>1
    <3>6. records[i].id = records[j].id
      BY <3>3, <3>4, <3>5
    <3>7. QED
      BY <2>2, <3>6 DEF CInv, RecordsAreSound
  <2>6. PICK T : T = {told[i].point : i \in DOMAIN told}
    OBVIOUS
  <2>7. PICK f : f = [i \in 1..Len(told) |-> told[i].point]
    OBVIOUS
  <2>8. f \in Bijection(1..Len(told), T)
    <3>1. f \in [1..Len(told) -> T]
      BY <2>1, <2>6, <2>7
    <3>2. \A i, j \in 1..Len(told) : f[i] = f[j] => i = j
      BY <2>1, <2>5, <2>7
    <3>3. \A t \in T : \E i \in 1..Len(told) : f[i] = t
      BY <2>1, <2>6, <2>7
    <3>4. QED
      BY <3>1, <3>2, <3>3, Fun_IsBij
  <2>9. Cardinality(T) = Len(told)
    <3>1. ExistsBijection(1..Len(told), T)
      BY <2>8 DEF ExistsBijection
    <3>2. QED
      BY <2>1, <3>1, FS_CountingElements
  <2>10. QED
    BY <2>4, <2>6, <2>9 DEF ToldUnderItsOwnPoint
<1>2. QED
  BY <1>1, CInvariant, PTL

\* Every run ends the way it deserves.
THEOREM RunsEndAsTheyDeserve == Spec => []EndsAsItDeserves
<1>1. CInv => EndsAsItDeserves
  <2> SUFFICES ASSUME CInv PROVE EndsAsItDeserves
    OBVIOUS
  <2>1. EndsAreEarned
    BY DEF CInv
  <2>2. ASSUME runner.at = "WRITTEN"
        PROVE  bridge.at = "EXITED" /\ toBridge = <<>>
    <3>1. Completed
      BY <2>1, <2>2 DEF EndsAreEarned, Live
    <3>2. Len(told) = Budget /\ Len(records) = Budget /\ bridge.at = "EXITED"
      BY <2>1, <3>1 DEF EndsAreEarned, Completed
    <3>3. Len(toBridge) = 0
      BY <3>2, Tallies
    <3>4. toBridge \in Seq([id : Ids, answer : 0..Budget])
      BY DEF CInv, Typed
    <3>5. QED
      BY <3>2, <3>3, <3>4, EmptySeq
  <2>3. ASSUME runner.at = "RAISED"
        PROVE  \/ bridge.why \in {"ASK", "TELL"} \/ runner.why = "CHECKOUT"
               \/ \E id \in Ids : futures[id].state = "RAISED"
    <3>1. runner.why \in {"", "EOF", "EVALUATION", "BROKEN_PIPE", "CHECKOUT"}
      BY DEF CInv, Typed, RunnerType
    <3>2. QED
      BY <2>1, <2>3, <3>1 DEF EndsAreEarned
  <2>4. Ended => Running = {} /\ BridgeGone
    BY <2>1 DEF EndsAreEarned, Ended
  <2>5. bridge.at = "EXITED" => Len(told) = Budget
    BY <2>1 DEF EndsAreEarned
  <2>6. QED
    BY <2>2, <2>3, <2>4, <2>5 DEF EndsAsItDeserves
<1>2. QED
  BY <1>1, CInvariant, PTL

\* The ledger of a finished run passes the audit if and only if the budget is not below
\* the workers; it is what the driver was told, in that order, and the value of a row
\* is of the evaluation the driver was told of.
THEOREM LedgersPassTheAudit == Spec => []LedgerIsAudited
<1>1. CInv => LedgerIsAudited
  <2> SUFFICES ASSUME CInv, runner.at = "WRITTEN"
               PROVE  /\ AuditAccepts(Document) <=> Workers <= Budget
                      /\ told = [i \in DOMAIN records |-> [point |-> records[i].point,
                                                           answer |-> records[i].answer]]
                      /\ \A i \in DOMAIN records :
                            records[i].value = IF told[i].answer = 0 THEN NoValue
                                               ELSE MinimizedAt(told[i].point)
    BY DEF LedgerIsAudited
  <2>1. Completed
    BY DEF CInv, EndsAreEarned, Live
  <2>2. /\ Len(told) = Budget /\ Len(records) = Budget /\ AnsweredIds = Ids
        /\ runner.peak = Full
    BY <2>1 DEF CInv, EndsAreEarned, Completed
  <2>3. Document.rows = records /\ Document.peak = runner.peak
    BY DEF Document
  <2>4. \A i \in DOMAIN records : records[i].status = "ok" <=> records[i].value # NoValue
    <3> SUFFICES ASSUME NEW i \in DOMAIN records
                 PROVE  records[i].status = "ok" <=> records[i].value # NoValue
      OBVIOUS
    <3>1. WholeRow(records[i])
      BY DEF CInv, RecordsAreSound
    <3>2. records[i] \in RowType
      BY DEF CInv, Typed, RunnerType
    <3>3. MinimizedAt(records[i].point) # NoValue
      BY <3>2 DEF RowType, MinimizedAt, NoValue
    <3>4. QED
      BY <3>1, <3>3 DEF WholeRow
  <2>5. AuditAccepts(Document) <=> Workers <= Budget
    <3>1. AuditAccepts(Document) <=> Full = Workers
      BY <2>2, <2>3, <2>4 DEF AuditAccepts, AnsweredIds
    <3>2. Full = Workers <=> Workers <= Budget
      BY BridgeAssumption DEF Full
    <3>3. QED
      BY <3>1, <3>2
  <2>6. DOMAIN told = DOMAIN records
    BY <2>2, Tallies
  <2>7. \A i \in DOMAIN told : told[i] = [point |-> records[i].point,
                                          answer |-> records[i].answer]
    BY DEF CInv, TellsFollowRecords
  <2>8. told = [i \in DOMAIN told |-> told[i]]
    BY LenProperties DEF CInv, Typed
  <2>9. told = [i \in DOMAIN records |-> [point |-> records[i].point,
                                          answer |-> records[i].answer]]
    BY <2>6, <2>7, <2>8
  <2>10. ASSUME NEW i \in DOMAIN records
         PROVE  records[i].value = IF told[i].answer = 0 THEN NoValue
                                   ELSE MinimizedAt(told[i].point)
    <3>1. told[i].answer = records[i].answer /\ told[i].point = records[i].point
      BY <2>6, <2>7
    <3>2. WholeRow(records[i])
      BY DEF CInv, RecordsAreSound
    <3>3. QED
      BY <3>1, <3>2 DEF WholeRow
  <2>11. QED
    BY <2>5, <2>9, <2>10
<1>2. QED
  BY <1>1, CInvariant, PTL

-----------------------------------------------------------------------------
\* the tells of values and those of failures
ToldValues(s) == {i \in DOMAIN s : s[i].answer # 0}
ToldFailures(s) == {i \in DOMAIN s : s[i].answer = 0}

\* One more tell is one more value or one more failure.
LEMMA TellCounts ==
    ASSUME NEW S, NEW s \in Seq(S), NEW e \in S, NEW t, t = Append(s, e)
    PROVE  \/ /\ Cardinality(ToldValues(t)) = Cardinality(ToldValues(s)) + 1
              /\ Cardinality(ToldFailures(t)) = Cardinality(ToldFailures(s))
           \/ /\ Cardinality(ToldValues(t)) = Cardinality(ToldValues(s))
              /\ Cardinality(ToldFailures(t)) = Cardinality(ToldFailures(s)) + 1
<1>1. PICK n : n = Len(s) + 1
  OBVIOUS
<1>2. /\ Len(s) \in Nat /\ DOMAIN s = 1..Len(s) /\ DOMAIN t = 1..n
      /\ t[n] = e /\ \A i \in 1..Len(s) : t[i] = s[i]
  <2>1. t \in Seq(S) /\ Len(t) = n
    BY <1>1, AppendProperties
  <2>2. DOMAIN t = 1..n
    BY <2>1, LenProperties
  <2>3. QED
    BY <1>1, <2>2, AppendProperties, LenProperties
<1>3. 1..n = 1..Len(s) \cup {n} /\ n \notin 1..Len(s)
  BY <1>1, <1>2
<1>4. IsFiniteSet(ToldValues(s)) /\ IsFiniteSet(ToldFailures(s))
  <2>1. 1 \in Int /\ Len(s) \in Int
    BY <1>2
  <2>2. IsFiniteSet(1..Len(s))
    BY <2>1, FS_Interval
  <2>3. ToldValues(s) \subseteq 1..Len(s) /\ ToldFailures(s) \subseteq 1..Len(s)
    BY <1>2 DEF ToldValues, ToldFailures
  <2>4. QED
    BY <2>2, <2>3, FS_Subset
<1>5. n \notin ToldValues(s) /\ n \notin ToldFailures(s)
  BY <1>2, <1>3 DEF ToldValues, ToldFailures
<1>6. CASE e.answer # 0
  <2>1. ToldValues(t) = ToldValues(s) \cup {n} /\ ToldFailures(t) = ToldFailures(s)
    BY <1>2, <1>3, <1>6 DEF ToldValues, ToldFailures
  <2>2. QED
    BY <1>4, <1>5, <2>1, FS_AddElement
<1>7. CASE e.answer = 0
  <2>1. ToldValues(t) = ToldValues(s) /\ ToldFailures(t) = ToldFailures(s) \cup {n}
    BY <1>2, <1>3, <1>7 DEF ToldValues, ToldFailures
  <2>2. QED
    BY <1>4, <1>5, <2>1, FS_AddElement
<1>8. QED
  BY <1>6, <1>7

\* The bridge implements the ledger of evaluations: an ask is a submission, a tell the
\* one attempt that settles it, and every other step none.
THEOREM BridgeImplementsLedger == Spec => RunImplementsLedger
<1> USE DEF RunImplementsLedger, Ledger!LedgerSpec
<1>1. Init => Ledger!LInit
  <2> SUFFICES ASSUME Init PROVE Ledger!LInit
    OBVIOUS
  <2>1. PendingCount = 0
    <3>1. InUse = {}
      BY DEF Init, BridgeInit, InUse, Free
    <3>2. QED
      BY <3>1, FS_EmptySet DEF PendingCount
  <2>2. {i \in DOMAIN told : told[i].answer # 0} = {}
        /\ {i \in DOMAIN told : told[i].answer = 0} = {}
    <3>1. told = <<>>
      BY DEF Init, BridgeInit
    <3>2. DOMAIN told = {}
      BY <3>1
    <3>3. QED
      BY <3>2
  <2>3. bridge.completed = 0
    BY DEF Init, BridgeInit
  <2>4. QED
    BY <2>1, <2>2, <2>3, FS_EmptySet DEF Ledger!LInit
<1>2. CInv /\ [Next]_vars => [Ledger!LNext]_Ledger!ledger
  <2> SUFFICES ASSUME CInv, [Next]_vars PROVE [Ledger!LNext]_Ledger!ledger
    OBVIOUS
  <2> USE DEF Ledger!LNext, Ledger!Attempt, Ledger!Submit, Ledger!ledger
  <2>1. CASE BridgeAsk /\ UNCHANGED runnerVars
    <3>1. PICK f : f = FirstFreeSlot
      OBVIOUS
    <3>2. /\ slots' = [slots EXCEPT ![f] = [used |-> TRUE, id |-> Asked,
                                            point |-> Point(Asked)]]
          /\ bridge' = [bridge EXCEPT !.dispatched = @ + 1]
          /\ told' = told /\ MayAsk
      BY <2>1, <3>1 DEF BridgeAsk, NextId, Point, Asked
    <3>3. bridge'.completed = bridge.completed /\ Asked' = Asked + 1
      <4>1. PICK n : n = bridge.dispatched + 1
        OBVIOUS
      <4>2. bridge' = [bridge EXCEPT !.dispatched = n]
        BY <3>2, <4>1
      <4>3. QED
        BY <4>1, <4>2 DEF CInv, Typed, BridgeType, Asked
    <3>4. PendingCount' = PendingCount + 1
      BY <2>1, <3>1, <3>2, <3>3, SlotsAfterAsk DEF runnerVars
    <3>5. Ledger!Submit
      BY <3>2, <3>3, <3>4
    <3>6. QED
      BY <3>5
  <2>2. CASE BridgeTell /\ UNCHANGED runnerVars
    <3>1. PICK i, e : i = Len(told) + 1
                      /\ e = [point |-> records[i].point, answer |-> records[i].answer]
      OBVIOUS
    <3>2. /\ i \in 1..Len(records) /\ told' = Append(told, e)
          /\ e \in [point : 1..Budget, answer : 0..Budget]
          /\ \E s \in InUse : slots[s].id = records[i].id
                              /\ slots' = [slots EXCEPT ![s] = Freed(s)]
      BY <2>2, <3>1, TellTells
    <3>3. bridge'.completed = bridge.completed + 1 /\ Asked' = Asked
      BY <2>2 DEF BridgeTell, CInv, Typed, BridgeType, Asked
    <3>4. PendingCount' = PendingCount - 1 /\ PendingCount > 0
      <4>1. PICK s \in InUse : slots[s].id = records[i].id
                               /\ slots' = [slots EXCEPT ![s] = Freed(s)]
        BY <3>2
      <4>2. Len(told') = Len(told) + 1
        <5>1. told \in Seq([point : 1..Budget, answer : 0..Budget])
          BY DEF CInv, Typed
        <5>2. QED
          BY <3>2, <5>1, AppendProperties
      <4>3. bridge'.completed = Len(told')
        <5>1. bridge.completed = Len(told)
          BY DEF CInv, SlotsAreOwed
        <5>2. QED
          BY <3>3, <4>2, <5>1
      <4>4. /\ PendingCount' = PendingCount - 1 /\ PendingCount \in Nat \ {0}
        BY <2>2, <3>1, <3>2, <3>3, <4>1, <4>2, <4>3, SlotsAfterTell DEF runnerVars
      <4>5. QED
        BY <4>4
    <3>5. \/ /\ Cardinality(ToldValues(told')) = Cardinality(ToldValues(told)) + 1
             /\ Cardinality(ToldFailures(told')) = Cardinality(ToldFailures(told))
          \/ /\ Cardinality(ToldValues(told')) = Cardinality(ToldValues(told))
             /\ Cardinality(ToldFailures(told')) = Cardinality(ToldFailures(told)) + 1
      <4>1. PICK S : S = [point : 1..Budget, answer : 0..Budget]
        OBVIOUS
      <4>2. told \in Seq(S) /\ e \in S
        BY <3>2, <4>1 DEF CInv, Typed
      <4>3. PICK t : t = told'
        OBVIOUS
      <4>4. t = Append(told, e)
        BY <3>2, <4>3
      <4>5. QED
        BY <4>2, <4>3, <4>4, TellCounts
    <3>6. Ledger!Attempt(1)
      BY <3>3, <3>4, <3>5 DEF ToldValues, ToldFailures
    <3>7. QED
      BY <3>6
  <2>3. ASSUME slots' = slots, told' = told, bridge'.completed = bridge.completed
        PROVE  UNCHANGED Ledger!ledger
    BY <2>3 DEF PendingCount, InUse
  <2>4. CASE BridgeWait \/ BridgeAskFails \/ BridgeListens \/ BridgeTellFails
             \/ BridgeEndOfInput \/ BridgeDone
    <3>1. slots' = slots /\ told' = told
      BY <2>4 DEF BridgeWait, BridgeAskFails, BridgeListens, BridgeTellFails,
                  BridgeEndOfInput, BridgeDone, Stop
    <3>2. bridge'.completed = bridge.completed
      BY <2>4 DEF BridgeWait, BridgeAskFails, BridgeListens, BridgeTellFails,
                  BridgeEndOfInput, BridgeDone, Stop, CInv, Typed, BridgeType
    <3>3. QED
      BY <2>3, <3>1, <3>2
  <2>5. CASE Runner \/ (\E id \in Ids : Evaluate(id)) \/ UNCHANGED vars
    <3>1. bridge' = bridge /\ slots' = slots /\ told' = told
      BY <2>5 DEF Runner, ReadAsk, ReadWait, ReadEndOfOutput, Raise, AwaitsFuture,
                  Completes, CompletionRaises, ReadDone, ClosesInput, Reaps, Finishes,
                  Evaluate, vars, bridgeVars
    <3>2. QED
      BY <2>3, <3>1
  <2>6. QED
    BY <2>1, <2>2, <2>4, <2>5 DEF Next, BridgeStep, Bridge
<1>3. QED
  BY <1>1, <1>2, CInvariant, PTL DEF Spec

-----------------------------------------------------------------------------
\* The Landreman run.
-----------------------------------------------------------------------------
\* Rank zero reads and answers.
Looping == manager.at \in {"LOOP", "COMPLETE"}

Taken == manager.dispatched
LedgerIds == {ledger[i].id : i \in DOMAIN ledger}
ToldRowIds == {ledger[i].id : i \in 1..Len(told)}

Entry == [id : Ids, point : 1..Budget, answer : 0..Budget, rank : Ranks]

\* Where rank zero may be.
Places == {"BARRIER", "BLOCKED", "SCRATCH", "GATHER", "START", "LOOP", "COMPLETE",
           "CLOSE", "REAP", "DOCUMENT", "WRITTEN", "RAISED"}

PipesTyped ==
    /\ BridgeType /\ ManagerType
    /\ toRunner \in Seq(Line)
    /\ toBridge \in Seq([id : Ids, answer : 0..Budget])
    /\ told \in Seq([point : 1..Budget, answer : 0..Budget])
    /\ ledger \in Seq(Entry)

\* A candidate is recorded once, under its own point.
RowsAreSound ==
    /\ \A i, j \in DOMAIN ledger : ledger[i].id = ledger[j].id => i = j
    /\ \A i \in DOMAIN ledger : /\ ledger[i].point = Point(ledger[i].id)
                                /\ ledger[i].answer \in {0, ledger[i].point}
                                /\ ledger[i].id < Taken
    /\ Len(ledger) <= Taken /\ Taken <= Asked

\* The driver was told the first rows; the others are on their way to the bridge.
TellsFollowRows ==
    /\ Len(ledger) = Len(told) + Len(toBridge)
    /\ \A i \in DOMAIN told : told[i] = [point |-> ledger[i].point,
                                         answer |-> ledger[i].answer]
    /\ \A i \in DOMAIN toBridge : toBridge[i] = [id |-> ledger[Len(told) + i].id,
                                                 answer |-> ledger[Len(told) + i].answer]

\* A slot is in use for every candidate asked for and not told.
SlotsAreDue ==
    /\ UsedIds = (0..(Asked - 1)) \ ToldRowIds
    /\ \A s, t \in InUse : slots[s].id = slots[t].id => s = t
    /\ \A s \in InUse : slots[s].point = Point(slots[s].id)
    /\ PendingCount = Asked - Len(told)
    /\ bridge.completed = Len(told)

\* Rank zero waits for every candidate that it has taken and not recorded.
CandidatesAreDue ==
    /\ PendingIds \cap LedgerIds = {}
    /\ \A p \in manager.pending : p.id < Taken /\ p.point = Point(p.id)
    /\ Looping => /\ PendingIds = (0..(Taken - 1)) \ LedgerIds
                  /\ Cardinality(manager.pending) = Taken - Len(ledger)

LastIsWait == Len(toRunner) = Asked - Taken + 1
              /\ toRunner[Asked - Taken + 1] = [line |-> "WAIT"]
LastIsDone == Len(toRunner) = Asked - Taken + 1
              /\ toRunner[Asked - Taken + 1] = [line |-> "DONE"]

\* The pipe holds the asks not taken yet, in order, and at most one last line.
LinesAreInStep ==
    Looping =>
        /\ \A i \in 1..(Asked - Taken) : i \in DOMAIN toRunner
                                         /\ toRunner[i] = AskLine(Taken + i - 1)
        /\ Len(toRunner) = Asked - Taken \/ LastIsWait \/ LastIsDone
        /\ LastIsDone <=> bridge.at = "EXITED"
        /\ LastIsWait => /\ MayAsk /\ PendingCount >= 1
                         /\ bridge.at \in {"READ", "ABORTED"} /\ toBridge = <<>>
                         /\ manager.at = "LOOP"

\* Whoever has answers to give or to take does not ask.
AsksTakeTurns ==
    Looping =>
        /\ bridge.at = "LOOP" /\ MayAsk => toBridge = <<>> /\ manager.at = "LOOP"
        /\ manager.at = "COMPLETE" /\ toBridge # <<>> => Taken = Budget
        /\ Len(toBridge) >= 2 => Taken = Budget

\* What rank zero and the bridge have done by the place rank zero is at.
PlacesAreEarned ==
    /\ bridge.at = "EXITED" => Len(told) = Budget /\ Asked = Budget
    /\ manager.at \in {"BARRIER", "BLOCKED", "SCRATCH", "GATHER", "START"} =>
          ~manager.process /\ manager.why = ""
    /\ Looping => manager.process /\ manager.why = ""
    /\ manager.at \in {"CLOSE", "REAP"} => manager.process
    /\ ~manager.process => /\ BridgeInit /\ ledger = <<>> /\ Taken = 0
                           /\ manager.pending = {}
    /\ manager.process /\ ~Looping /\ manager.why = "" => LedgerIds = Ids
    /\ manager.at \in {"DOCUMENT", "WRITTEN"} =>
          /\ manager.process /\ manager.why = "" /\ bridge.at = "EXITED"
          /\ Taken = Budget /\ Len(ledger) = Budget

PInv == /\ PipesTyped /\ RowsAreSound /\ TellsFollowRows /\ SlotsAreDue
        /\ CandidatesAreDue /\ LinesAreInStep /\ AsksTakeTurns /\ PlacesAreEarned
-----------------------------------------------------------------------------
\* The numbers of the run.
LEMMA RunNumbers ==
    ASSUME PipesTyped
    PROVE  /\ Budget \in Nat \ {0} /\ Workers \in Nat \ {0} /\ Initial \in Nat \ {0}
           /\ Asked \in 0..Budget /\ Taken \in 0..Budget
           /\ Ids = 0..(Budget - 1) /\ Slots = 1..Workers
           /\ PendingIds \subseteq Ids
<1>1. /\ Asked \in 0..Budget /\ Taken \in 0..Budget
      /\ manager.pending \subseteq [id : Ids, point : 1..Budget]
  BY DEF PipesTyped, BridgeType, ManagerType, Asked, Taken
<1>2. PendingIds \subseteq Ids
  BY <1>1, Zenon DEF PendingIds
<1> QED
  BY <1>1, <1>2, BridgeAssumption DEF Ids, Slots

\* A step of the manager that only moves it on.
LEMMA ManagerMoves ==
    ASSUME ManagerType, NEW a, manager' = [manager EXCEPT !.at = a]
    PROVE  /\ manager'.at = a /\ Taken' = Taken /\ manager'.pending = manager.pending
           /\ manager'.why = manager.why
           /\ manager'.process = manager.process /\ PendingIds' = PendingIds
           /\ a \in Places => ManagerType'
<1>1. /\ manager'.at = a /\ Taken' = Taken /\ manager'.pending = manager.pending
      /\ manager'.why = manager.why /\ manager'.process = manager.process
  BY DEF ManagerType, Taken
<1>2. a \in Places => ManagerType'
  BY DEF ManagerType, Places, Ranks, Ids
<1> QED
  BY <1>1, <1>2, Zenon DEF PendingIds

\* A step that leaves the ledger alone keeps what is said of them.
LEMMA RowsKept ==
    ASSUME RowsAreSound, ledger' = ledger,
           Asked' = Asked, Taken' = Taken
    PROVE  RowsAreSound'
BY DEF RowsAreSound

\* The same of what the driver was told.
LEMMA RunTellsKept ==
    ASSUME TellsFollowRows, ledger' = ledger, told' = told, toBridge' = toBridge
    PROVE  TellsFollowRows'
BY DEF TellsFollowRows

\* The same of the slots.
LEMMA RunSlotsKept ==
    ASSUME SlotsAreDue, slots' = slots, told' = told, ledger' = ledger,
           Asked' = Asked, bridge'.completed = bridge.completed
    PROVE  /\ SlotsAreDue'
           /\ PendingCount' = PendingCount /\ UsedIds' = UsedIds
<1>1. InUse' = InUse /\ ToldRowIds' = ToldRowIds
  BY DEF InUse, ToldRowIds
<1>2. UsedIds' = UsedIds /\ PendingCount' = PendingCount
  BY <1>1 DEF UsedIds, PendingCount
<1>3. QED
  BY <1>1, <1>2 DEF SlotsAreDue

\* The same of what the manager waits for.
LEMMA CandidatesKept ==
    ASSUME CandidatesAreDue, manager'.pending = manager.pending, ledger' = ledger,
           Taken' = Taken, Looping' => Looping
    PROVE  CandidatesAreDue'
<1>1. LedgerIds' = LedgerIds /\ PendingIds' = PendingIds
  BY DEF LedgerIds, PendingIds
<1>2. QED
  BY <1>1 DEF CandidatesAreDue

\* A step that leaves the manager alone.
LEMMA ManagerKept ==
    ASSUME manager' = manager, ledger' = ledger
    PROVE  /\ Taken' = Taken /\ (Looping' <=> Looping) /\ manager'.at = manager.at
           /\ manager'.pending = manager.pending
           /\ manager'.why = manager.why /\ manager'.process = manager.process
           /\ LedgerIds' = LedgerIds
BY DEF Taken, Looping, LedgerIds

-----------------------------------------------------------------------------
\* error stop of the bridge: the driver refused an ask or a tell.
LEMMA RunStopKeeps ==
    ASSUME PInv, NEW why \in {"ASK", "TELL", "EOF"}, Stop(why), UNCHANGED rankVars,
           bridge.at \in {"LOOP", "READ"}, manager.process
    PROVE  PInv'
<1>1. /\ PipesTyped /\ RowsAreSound /\ TellsFollowRows /\ SlotsAreDue /\ CandidatesAreDue
      /\ LinesAreInStep /\ AsksTakeTurns /\ PlacesAreEarned
  BY DEF PInv
<1>2. /\ bridge' = [bridge EXCEPT !.at = "ABORTED", !.why = why]
      /\ slots' = slots /\ toRunner' = toRunner /\ toBridge' = toBridge
      /\ stdinClosed' = stdinClosed /\ told' = told
      /\ manager' = manager /\ ledger' = ledger
  BY DEF Stop, rankVars
<1>3. /\ bridge'.at = "ABORTED" /\ bridge'.why = why /\ Asked' = Asked
      /\ bridge'.completed = bridge.completed
      /\ bridge' \in [at : {"LOOP", "READ", "EXITED", "ABORTED"}, dispatched : 0..Budget,
                      completed : 0..Budget, why : {"", "ASK", "TELL", "EOF"}]
  BY <1>1, <1>2 DEF PipesTyped, BridgeType, Asked
<1>4. /\ Taken' = Taken /\ (Looping' <=> Looping) /\ manager'.at = manager.at
      /\ manager'.pending = manager.pending
      /\ manager'.why = manager.why /\ manager'.process = manager.process
      /\ LedgerIds' = LedgerIds
  BY <1>2, ManagerKept
<1>5. PipesTyped'
  BY <1>1, <1>2, <1>3 DEF PipesTyped, BridgeType, ManagerType, Ranks
<1>6. /\ SlotsAreDue' /\ PendingCount' = PendingCount
  BY <1>1, <1>2, <1>3, RunSlotsKept
<1>7. RowsAreSound' /\ TellsFollowRows' /\ CandidatesAreDue'
  BY <1>1, <1>2, <1>3, <1>4, RowsKept, RunTellsKept, CandidatesKept
<1>8. /\ (LastIsWait' <=> LastIsWait) /\ (LastIsDone' <=> LastIsDone) /\ (MayAsk' <=> MayAsk)
  BY <1>2, <1>3, <1>4, <1>6 DEF LastIsWait, LastIsDone, MayAsk, Asked
<1>9. LinesAreInStep'
  BY <1>1, <1>2, <1>3, <1>4, <1>6, <1>8 DEF LinesAreInStep
<1>10. AsksTakeTurns'
  BY <1>1, <1>2, <1>3, <1>4 DEF AsksTakeTurns
<1>11. PlacesAreEarned'
  <2>1. manager.at \notin {"DOCUMENT", "WRITTEN"}
    BY <1>1, <1>2 DEF PlacesAreEarned
  <2>2. QED
    BY <1>1, <1>2, <1>3, <1>4, <2>1 DEF PlacesAreEarned
<1>12. QED
  BY <1>5, <1>6, <1>7, <1>9, <1>10, <1>11 DEF PInv

\* The bridge turns to its input once it may not ask.
LEMMA RunListensKeeps ==
    ASSUME PInv, BridgeListens, UNCHANGED rankVars, manager.process
    PROVE  PInv'
<1>1. /\ PipesTyped /\ RowsAreSound /\ TellsFollowRows /\ SlotsAreDue /\ CandidatesAreDue
      /\ LinesAreInStep /\ AsksTakeTurns /\ PlacesAreEarned
  BY DEF PInv
<1>2. /\ bridge' = [bridge EXCEPT !.at = "READ"] /\ bridge.at = "LOOP"
      /\ slots' = slots /\ toRunner' = toRunner /\ toBridge' = toBridge
      /\ stdinClosed' = stdinClosed /\ told' = told
      /\ manager' = manager /\ ledger' = ledger
  BY DEF BridgeListens, rankVars
<1>3. /\ bridge'.at = "READ" /\ bridge'.why = bridge.why /\ Asked' = Asked
      /\ bridge'.completed = bridge.completed
      /\ bridge' \in [at : {"LOOP", "READ", "EXITED", "ABORTED"}, dispatched : 0..Budget,
                      completed : 0..Budget, why : {"", "ASK", "TELL", "EOF"}]
  BY <1>1, <1>2, BridgeMoves DEF PipesTyped
<1>4. /\ Taken' = Taken /\ (Looping' <=> Looping) /\ manager'.at = manager.at
      /\ manager'.pending = manager.pending
      /\ manager'.why = manager.why /\ manager'.process = manager.process
      /\ LedgerIds' = LedgerIds
  BY <1>2, ManagerKept
<1>5. PipesTyped'
  BY <1>1, <1>2, <1>3 DEF PipesTyped, BridgeType, ManagerType, Ranks
<1>6. /\ SlotsAreDue' /\ PendingCount' = PendingCount
  BY <1>1, <1>2, <1>3, RunSlotsKept
<1>7. RowsAreSound' /\ TellsFollowRows' /\ CandidatesAreDue'
  BY <1>1, <1>2, <1>3, <1>4, RowsKept, RunTellsKept, CandidatesKept
<1>8. /\ (LastIsWait' <=> LastIsWait) /\ (LastIsDone' <=> LastIsDone) /\ (MayAsk' <=> MayAsk)
  BY <1>2, <1>3, <1>4, <1>6 DEF LastIsWait, LastIsDone, MayAsk, Asked
<1>9. LinesAreInStep'
  BY <1>1, <1>2, <1>3, <1>4, <1>6, <1>8 DEF LinesAreInStep
<1>10. AsksTakeTurns'
  BY <1>1, <1>2, <1>3, <1>4 DEF AsksTakeTurns
<1>11. PlacesAreEarned'
  <2>1. manager.at \notin {"DOCUMENT", "WRITTEN"}
    BY <1>1, <1>2 DEF PlacesAreEarned
  <2>2. QED
    BY <1>1, <1>2, <1>3, <1>4, <2>1 DEF PlacesAreEarned
<1>12. QED
  BY <1>5, <1>6, <1>7, <1>9, <1>10, <1>11 DEF PInv

\* A pending candidate is known by its id.
LEMMA PendingById ==
    ASSUME PipesTyped, CandidatesAreDue
    PROVE  /\ IsFiniteSet(PendingIds) /\ IsFiniteSet(manager.pending)
           /\ Cardinality(PendingIds) = Cardinality(manager.pending)
           /\ \A p, q \in manager.pending : p.id = q.id => p = q
<1>1. /\ manager.pending \subseteq [id : Ids, point : 1..Budget]
      /\ \A p \in manager.pending : p.point = Point(p.id)
  BY DEF PipesTyped, ManagerType, CandidatesAreDue
<1>2. IsFiniteSet(PendingIds)
  <2>1. Budget \in Nat /\ PendingIds \subseteq 0..(Budget - 1)
    BY RunNumbers
  <2>2. IsFiniteSet(0..(Budget - 1))
    BY <2>1, FS_Interval
  <2> QED
    BY <2>1, <2>2, FS_Subset
<1>3. \A p, q \in manager.pending : p.id = q.id => p = q
  <2> SUFFICES ASSUME NEW p \in manager.pending, NEW q \in manager.pending, p.id = q.id
               PROVE  p = q
    OBVIOUS
  <2>1. p.point = q.point
    BY <1>1
  <2> QED
    BY <1>1, <2>1
<1> DEFINE f == [p \in manager.pending |-> p.id]
<1>4. f \in [manager.pending -> PendingIds]
  BY DEF PendingIds
<1>5. \A p, q \in manager.pending : f[p] = f[q] => p = q
  BY <1>3
<1>6. \A id \in PendingIds : \E p \in manager.pending : f[p] = id
  BY DEF PendingIds
<1>7. f \in Bijection(manager.pending, PendingIds)
  BY <1>4, <1>5, <1>6, Fun_IsBij
<1>8. /\ f \in Injection(manager.pending, PendingIds)
      /\ f \in Surjection(manager.pending, PendingIds)
  BY <1>7, Fun_BijectionProperties
<1>9. /\ IsFiniteSet(manager.pending)
      /\ Cardinality(manager.pending) = Cardinality(PendingIds)
  BY <1>2, <1>8, FS_Injection
<1> QED
  BY <1>2, <1>3, <1>9

\* The slots after an ask: one more is in use, for the next id.
LEMMA RunSlotsAfterAsk ==
    ASSUME PInv, MayAsk, NEW f, f = FirstFreeSlot,
           slots' = [slots EXCEPT ![f] = [used |-> TRUE, id |-> Asked,
                                          point |-> Point(Asked)]],
           Asked' = Asked + 1, told' = told, ledger' = ledger,
           bridge'.completed = bridge.completed
    PROVE  /\ SlotsAreDue' /\ PendingCount' = PendingCount + 1
           /\ slots' \in [Slots -> [used : BOOLEAN, id : Ids \cup {-1}, point : 0..Budget]]
<1>1. /\ Budget \in Nat \ {0} /\ Asked \in 0..Budget /\ Asked < Budget
      /\ Ids = 0..(Budget - 1)
  BY RunNumbers DEF PInv, MayAsk, Asked
<1>2. f \in Slots /\ f \notin InUse /\ IsFiniteSet(InUse) /\ PendingCount \in Nat
  BY FreeSlotExists DEF PInv, MayAsk
<1>3. PICK e : e = [used |-> TRUE, id |-> Asked, point |-> Point(Asked)]
  OBVIOUS
<1>4. /\ e.used = TRUE /\ e.id = Asked /\ e.point = Point(Asked)
      /\ e \in [used : BOOLEAN, id : Ids \cup {-1}, point : 0..Budget]
  BY <1>1, <1>3 DEF Point
<1>5. slots \in [Slots -> [used : BOOLEAN, id : Ids \cup {-1}, point : 0..Budget]]
  BY DEF PInv, PipesTyped, BridgeType
<1>6. slots' = [slots EXCEPT ![f] = e]
  BY <1>3
<1>7. /\ slots' \in [Slots -> [used : BOOLEAN, id : Ids \cup {-1}, point : 0..Budget]]
      /\ slots'[f] = e /\ \A s \in Slots \ {f} : slots'[s] = slots[s]
  BY <1>2, <1>4, <1>5, <1>6
<1>8. InUse' = InUse \cup {f}
  BY <1>2, <1>4, <1>7 DEF InUse
<1>9. PendingCount' = PendingCount + 1
  <2>1. Cardinality(InUse \cup {f}) = Cardinality(InUse) + 1
    BY <1>2, FS_AddElement
  <2>2. QED
    BY <1>8, <2>1 DEF PendingCount
<1>10. \A s \in InUse : slots'[s] = slots[s] /\ s \in Slots
  BY <1>2, <1>7 DEF InUse
<1>11. UsedIds' = UsedIds \cup {Asked}
  <2>1. UsedIds' = {slots'[s].id : s \in InUse \cup {f}}
    BY <1>8 DEF UsedIds
  <2>2. UsedIds = {slots[s].id : s \in InUse}
    BY DEF UsedIds
  <2>3. QED
    BY <1>4, <1>7, <1>10, <2>1, <2>2
<1>12. /\ UsedIds = (0..(Asked - 1)) \ ToldRowIds
       /\ \A s, t \in InUse : slots[s].id = slots[t].id => s = t
       /\ \A s \in InUse : slots[s].point = Point(slots[s].id)
       /\ PendingCount = Asked - Len(told) /\ bridge.completed = Len(told)
  BY DEF PInv, SlotsAreDue
<1>13. ToldRowIds' = ToldRowIds /\ Asked \notin ToldRowIds
  <2>1. ToldRowIds' = ToldRowIds
    BY DEF ToldRowIds
  <2>2. \A i \in DOMAIN ledger : ledger[i].id < Taken
    BY DEF PInv, RowsAreSound
  <2>3. Taken <= Asked /\ Taken \in 0..Budget
    BY RunNumbers DEF PInv, RowsAreSound
  <2>4. \A i \in 1..Len(told) : i \in DOMAIN ledger
    <3>1. Len(ledger) = Len(told) + Len(toBridge)
      BY DEF PInv, TellsFollowRows
    <3>2. ledger \in Seq(Entry)
      BY DEF PInv, PipesTyped
    <3>3. DOMAIN ledger = 1..Len(ledger) /\ Len(ledger) \in Nat
      BY <3>2, LenProperties
    <3>4. Len(told) \in Nat /\ Len(toBridge) \in Nat
      BY LenProperties DEF PInv, PipesTyped
    <3>5. QED
      BY <3>1, <3>3, <3>4
  <2>5. \A i \in DOMAIN ledger : ledger[i].id # Asked
    <3> SUFFICES ASSUME NEW i \in DOMAIN ledger, ledger[i].id = Asked PROVE FALSE
      OBVIOUS
    <3>1. Asked < Taken
      BY <2>2
    <3>2. QED
      BY <1>1, <2>3, <3>1
  <2>6. QED
    BY <2>1, <2>4, <2>5 DEF ToldRowIds
<1>14. UsedIds' = (0..(Asked' - 1)) \ ToldRowIds'
  <2>1. 0..(Asked' - 1) = (0..(Asked - 1)) \cup {Asked}
    BY <1>1
  <2>2. QED
    BY <1>11, <1>12, <1>13, <2>1
<1>15. \A s \in InUse : slots[s].id # Asked
  <2>1. \A s \in InUse : slots[s].id \in UsedIds
    BY DEF UsedIds
  <2>2. Asked \notin UsedIds
    BY <1>1, <1>12
  <2>3. QED
    BY <2>1, <2>2
<1>16. \A s, t \in InUse' : slots'[s].id = slots'[t].id => s = t
  BY <1>4, <1>7, <1>8, <1>10, <1>12, <1>15
<1>17. \A s \in InUse' : slots'[s].point = Point(slots'[s].id)
  BY <1>4, <1>7, <1>8, <1>10, <1>12
<1>18. PendingCount' = Asked' - Len(told')
  <2>1. Len(told) \in Nat
    BY LenProperties DEF PInv, PipesTyped
  <2>2. QED
    BY <1>1, <1>9, <1>12, <2>1
<1>19. QED
  BY <1>7, <1>9, <1>12, <1>14, <1>16, <1>17, <1>18 DEF SlotsAreDue
-----------------------------------------------------------------------------
\* How long the four sequences are, and how the counts of the two processes agree.
LEMMA RunTallies ==
    ASSUME PInv
    PROVE  /\ Len(told) \in Nat /\ Len(ledger) \in Nat
           /\ Len(toBridge) \in Nat /\ Len(toRunner) \in Nat
           /\ DOMAIN told = 1..Len(told) /\ DOMAIN ledger = 1..Len(ledger)
           /\ DOMAIN toBridge = 1..Len(toBridge) /\ DOMAIN toRunner = 1..Len(toRunner)
           /\ Len(ledger) = Len(told) + Len(toBridge)
           /\ Len(ledger) <= Taken /\ Taken <= Asked
           /\ PendingCount = Asked - Len(told)
           /\ PendingCount \in Nat /\ PendingCount <= Workers
           /\ IsFiniteSet(InUse)
           /\ IsFiniteSet(PendingIds) /\ IsFiniteSet(manager.pending)
           /\ Cardinality(manager.pending) \in Nat
           /\ Cardinality(PendingIds) = Cardinality(manager.pending)
<1>1. PipesTyped
  BY DEF PInv
<1>2. /\ told \in Seq([point : 1..Budget, answer : 0..Budget])
      /\ ledger \in Seq(Entry)
      /\ toBridge \in Seq([id : Ids, answer : 0..Budget])
      /\ toRunner \in Seq(Line)
  BY <1>1 DEF PipesTyped
<1>3. Len(told) \in Nat /\ DOMAIN told = 1..Len(told)
  BY <1>2, LenProperties
<1>4. Len(ledger) \in Nat /\ DOMAIN ledger = 1..Len(ledger)
  BY <1>2, LenProperties
<1>5. Len(toBridge) \in Nat /\ DOMAIN toBridge = 1..Len(toBridge)
  BY <1>2, LenProperties
<1>6. Len(toRunner) \in Nat /\ DOMAIN toRunner = 1..Len(toRunner)
  BY <1>2, LenProperties
<1>7. Workers \in Nat \ {0} /\ Budget \in Nat \ {0} /\ Slots = 1..Workers
  BY <1>1, RunNumbers
<1>8. IsFiniteSet(Slots) /\ Cardinality(Slots) = Workers
  <2>1. 1 \in Int /\ Workers \in Int /\ ~(1 > Workers)
    BY <1>7
  <2>2. /\ IsFiniteSet(1..Workers)
        /\ Cardinality(1..Workers) = IF 1 > Workers THEN 0 ELSE Workers - 1 + 1
    BY <2>1, FS_Interval
  <2>3. QED
    BY <1>7, <2>1, <2>2
<1>9. InUse \subseteq Slots
  BY DEF InUse
<1>10. /\ IsFiniteSet(InUse) /\ PendingCount \in Nat /\ PendingCount <= Workers
  <2>1. IsFiniteSet(InUse) /\ Cardinality(InUse) <= Cardinality(Slots)
    BY <1>8, <1>9, FS_Subset
  <2>2. Cardinality(InUse) \in Nat
    BY <2>1, FS_CardinalityType
  <2>3. QED
    BY <1>8, <2>1, <2>2 DEF PendingCount
<1>11. /\ IsFiniteSet(PendingIds)
       /\ IsFiniteSet(manager.pending) /\ Cardinality(manager.pending) \in Nat
       /\ Cardinality(PendingIds) = Cardinality(manager.pending)
  BY <1>1, PendingById, FS_CardinalityType DEF PInv
<1>12. /\ Len(ledger) = Len(told) + Len(toBridge)
       /\ Len(ledger) <= Taken /\ Taken <= Asked /\ PendingCount = Asked - Len(told)
  BY DEF PInv, TellsFollowRows, RowsAreSound, SlotsAreDue
<1>13. QED
  BY <1>3, <1>4, <1>5, <1>6, <1>10, <1>11, <1>12

\* A step that leaves the bridge at work leaves the places as they are.
LEMMA PlacesKept ==
    ASSUME PlacesAreEarned, bridge.at \in {"LOOP", "READ"}, bridge'.at \in {"LOOP", "READ"},
           manager' = manager, ledger' = ledger, manager.process
    PROVE  PlacesAreEarned'
<1>1. manager.at \notin {"DOCUMENT", "WRITTEN"}
  BY DEF PlacesAreEarned
<1>2. /\ (Looping' <=> Looping) /\ manager'.at = manager.at /\ manager'.why = manager.why
      /\ manager'.process = manager.process /\ LedgerIds' = LedgerIds
  BY ManagerKept
<1> QED
  BY <1>1, <1>2 DEF PlacesAreEarned

\* While the bridge loops, the pipe holds nothing but asks.
LEMMA OnlyAsksInLine ==
    ASSUME PInv, Looping, bridge.at = "LOOP"
    PROVE  Len(toRunner) = Asked - Taken
BY DEF PInv, LinesAreInStep

\* The bridge asks for the next point.
LEMMA RunAskKeeps ==
    ASSUME PInv, BridgeAsk, UNCHANGED rankVars, manager.process
    PROVE  PInv'
<1>1. /\ PipesTyped /\ RowsAreSound /\ TellsFollowRows /\ SlotsAreDue /\ CandidatesAreDue
      /\ LinesAreInStep /\ AsksTakeTurns /\ PlacesAreEarned
  BY DEF PInv
<1>2. /\ bridge' = [bridge EXCEPT !.dispatched = @ + 1] /\ bridge.at = "LOOP" /\ MayAsk
      /\ slots' = [slots EXCEPT ![FirstFreeSlot] =
                      [used |-> TRUE, id |-> Asked, point |-> Point(Asked)]]
      /\ toRunner' = Append(toRunner, AskLine(Asked)) /\ toBridge' = toBridge
      /\ stdinClosed' = stdinClosed /\ told' = told
      /\ manager' = manager /\ ledger' = ledger
  BY DEF BridgeAsk, rankVars, NextId, Point, AskLine, Asked
<1>3. Asked \in 0..(Budget - 1) /\ Budget \in Nat \ {0} /\ Taken \in 0..Budget
  BY <1>1, <1>2, RunNumbers DEF MayAsk, Asked
<1>4. /\ bridge'.at = "LOOP" /\ bridge'.why = bridge.why /\ Asked' = Asked + 1
      /\ bridge'.completed = bridge.completed
      /\ bridge' \in [at : {"LOOP", "READ", "EXITED", "ABORTED"}, dispatched : 0..Budget,
                      completed : 0..Budget, why : {"", "ASK", "TELL", "EOF"}]
  <2>1. bridge \in [at : {"LOOP", "READ", "EXITED", "ABORTED"}, dispatched : 0..Budget,
                    completed : 0..Budget, why : {"", "ASK", "TELL", "EOF"}]
    BY <1>1 DEF PipesTyped, BridgeType
  <2>2. PICK n : n = bridge.dispatched + 1
    OBVIOUS
  <2>3. n \in 0..Budget
    BY <1>3, <2>2 DEF Asked
  <2>4. bridge' = [bridge EXCEPT !.dispatched = n]
    BY <1>2, <2>2
  <2>5. QED
    BY <1>2, <2>1, <2>2, <2>3, <2>4 DEF Asked
<1>5. /\ Taken' = Taken /\ (Looping' <=> Looping) /\ manager'.at = manager.at
      /\ manager'.pending = manager.pending
      /\ manager'.why = manager.why /\ LedgerIds' = LedgerIds
  BY <1>2, ManagerKept
<1>6. PICK f : f = FirstFreeSlot
  OBVIOUS
<1>7. /\ SlotsAreDue' /\ PendingCount' = PendingCount + 1
      /\ slots' \in [Slots -> [used : BOOLEAN, id : Ids \cup {-1}, point : 0..Budget]]
  BY <1>2, <1>4, <1>6, RunSlotsAfterAsk
<1>8. /\ toRunner' \in Seq(Line) /\ Len(toRunner') = Len(toRunner) + 1
      /\ \A i \in 1..Len(toRunner) : toRunner'[i] = toRunner[i]
      /\ toRunner'[Len(toRunner) + 1] = AskLine(Asked)
      /\ DOMAIN toRunner' = 1..Len(toRunner')
  <2>1. AskLine(Asked) \in Line /\ toRunner \in Seq(Line)
    BY <1>1, <1>3, AskIsLine DEF PipesTyped
  <2>2. toRunner' \in Seq(Line)
    BY <1>2, <2>1, AppendProperties
  <2>3. QED
    BY <1>2, <2>1, <2>2, AppendProperties, LenProperties
<1>9. PipesTyped'
  BY <1>1, <1>2, <1>4, <1>7, <1>8 DEF PipesTyped, BridgeType, ManagerType, Ranks
<1>10. RowsAreSound'
  <2>1. Taken <= Asked
    BY <1>1 DEF RowsAreSound
  <2>2. Taken' <= Asked'
    <3>1. PICK a, r, b : a = Asked' /\ r = Taken' /\ b = Asked
      OBVIOUS
    <3>2. a = b + 1 /\ r = Taken
      BY <1>4, <1>5, <3>1, Zenon
    <3>3. b \in Int /\ r \in Int /\ r <= b
      BY <1>3, <2>1, <3>1, <3>2
    <3>4. r <= a
      BY <3>2, <3>3
    <3>5. QED
      BY <3>1, <3>4
  <2>3. QED
    BY <1>1, <1>2, <1>5, <2>2 DEF RowsAreSound
<1>11. TellsFollowRows' /\ CandidatesAreDue'
  BY <1>1, <1>2, <1>4, <1>5, RunTellsKept, CandidatesKept
<1>12. LinesAreInStep'
  <2> SUFFICES ASSUME Looping PROVE LinesAreInStep'
    BY <1>5 DEF LinesAreInStep
  <2>1. Len(toRunner) = Asked - Taken /\ Taken <= Asked /\ DOMAIN toRunner = 1..Len(toRunner)
    BY <1>2, OnlyAsksInLine, RunTallies
  <2>2. /\ Len(toRunner') = Asked' - Taken' /\ Len(toRunner') # Asked' - Taken' + 1
        /\ Asked' - Taken' = Asked - Taken + 1
    <3>1. PICK a, r, b : a = Asked' /\ r = Taken' /\ b = Asked
      OBVIOUS
    <3>2. a = b + 1 /\ r = Taken
      BY <1>4, <1>5, <3>1, Zenon
    <3>3. b \in Int /\ r \in Int /\ Len(toRunner) = b - r
      BY <1>3, <2>1, <3>1, <3>2
    <3>4. Len(toRunner') = a - r /\ Len(toRunner') # a - r + 1 /\ a - r = b - r + 1
      BY <1>8, <3>2, <3>3
    <3>5. QED
      BY <1>5, <3>1, <3>4
  <2>3. Len(toRunner') # Asked' - Taken' + 1
    BY <2>2
  <2>4. ~LastIsWait' /\ ~LastIsDone'
    BY <2>3 DEF LastIsWait, LastIsDone
  <2>5. ASSUME NEW i \in 1..(Asked' - Taken')
        PROVE  i \in DOMAIN toRunner' /\ toRunner'[i] = AskLine(Taken' + i - 1)
    <3>1. CASE i \in 1..(Asked - Taken)
      <4>1. i \in DOMAIN toRunner /\ toRunner[i] = AskLine(Taken + i - 1)
        BY <1>1, <3>1 DEF LinesAreInStep
      <4>2. i \in DOMAIN toRunner'
        BY <1>8, <2>2
      <4>3. toRunner'[i] = toRunner[i]
        BY <1>8, <2>1, <4>1
      <4>4. QED
        BY <1>5, <4>1, <4>2, <4>3
    <3>2. CASE i \notin 1..(Asked - Taken)
      <4>1. i = Len(toRunner) + 1 /\ Taken + i - 1 = Asked
        <5>1. Asked \in Int /\ Taken \in Int /\ i \in 1..(Asked - Taken + 1)
          BY <1>3, <2>2
        <5>2. QED
          BY <2>1, <3>2, <5>1
      <4>2. i \in DOMAIN toRunner'
        BY <1>8, <2>2
      <4>3. QED
        BY <1>5, <1>8, <4>1, <4>2
    <3>3. QED
      BY <3>1, <3>2
  <2>6. QED
    BY <1>4, <2>2, <2>4, <2>5 DEF LinesAreInStep
<1>13. AsksTakeTurns'
  BY <1>1, <1>2, <1>5 DEF AsksTakeTurns
<1>14. PlacesAreEarned'
  BY <1>1, <1>2, <1>4, PlacesKept
<1>15. QED
  BY <1>7, <1>9, <1>10, <1>11, <1>12, <1>13, <1>14 DEF PInv

\* The bridge is told that no region has a surrogate yet.
LEMMA RunWaitKeeps ==
    ASSUME PInv, BridgeWait, UNCHANGED rankVars, manager.process
    PROVE  PInv'
<1>1. /\ PipesTyped /\ RowsAreSound /\ TellsFollowRows /\ SlotsAreDue /\ CandidatesAreDue
      /\ LinesAreInStep /\ AsksTakeTurns /\ PlacesAreEarned
  BY DEF PInv
<1>2. PICK w : w = [line |-> "WAIT"]
  OBVIOUS
<1>3. /\ bridge' = [bridge EXCEPT !.at = "READ"] /\ bridge.at = "LOOP" /\ MayAsk
      /\ PendingCount >= 1
      /\ slots' = slots /\ toRunner' = Append(toRunner, w) /\ toBridge' = toBridge
      /\ stdinClosed' = stdinClosed /\ told' = told
      /\ manager' = manager /\ ledger' = ledger
  BY <1>2 DEF BridgeWait, rankVars, Asked
<1>4. /\ bridge'.at = "READ" /\ bridge'.why = bridge.why /\ Asked' = Asked
      /\ bridge'.completed = bridge.completed
      /\ bridge' \in [at : {"LOOP", "READ", "EXITED", "ABORTED"}, dispatched : 0..Budget,
                      completed : 0..Budget, why : {"", "ASK", "TELL", "EOF"}]
  BY <1>1, <1>3, BridgeMoves DEF PipesTyped
<1>5. /\ Taken' = Taken /\ (Looping' <=> Looping) /\ manager'.at = manager.at
      /\ manager'.pending = manager.pending
      /\ manager'.why = manager.why /\ LedgerIds' = LedgerIds
  BY <1>3, ManagerKept
<1>6. /\ SlotsAreDue' /\ PendingCount' = PendingCount
  BY <1>1, <1>3, <1>4, RunSlotsKept
<1>7. /\ toRunner' \in Seq(Line) /\ Len(toRunner') = Len(toRunner) + 1
      /\ \A i \in 1..Len(toRunner) : toRunner'[i] = toRunner[i]
      /\ toRunner'[Len(toRunner) + 1] = w
      /\ DOMAIN toRunner' = 1..Len(toRunner')
  <2>1. w \in Line /\ toRunner \in Seq(Line)
    BY <1>1, <1>2 DEF PipesTyped, Line
  <2>2. toRunner' \in Seq(Line)
    BY <1>3, <2>1, AppendProperties
  <2>3. QED
    BY <1>3, <2>1, <2>2, AppendProperties, LenProperties
<1>8. PipesTyped'
  BY <1>1, <1>3, <1>4, <1>7 DEF PipesTyped, BridgeType, ManagerType, Ranks
<1>9. RowsAreSound' /\ TellsFollowRows' /\ CandidatesAreDue'
  BY <1>1, <1>3, <1>4, <1>5, RowsKept, RunTellsKept, CandidatesKept
<1>10. LinesAreInStep'
  <2> SUFFICES ASSUME Looping PROVE LinesAreInStep'
    BY <1>5 DEF LinesAreInStep
  <2>1. Len(toRunner) = Asked - Taken /\ Len(toRunner) \in Nat
        /\ DOMAIN toRunner = 1..Len(toRunner)
    BY <1>3, OnlyAsksInLine, RunTallies
  <2>2. Asked \in Nat /\ Taken \in Nat
    BY <1>1, RunNumbers
  <2>3. toRunner'[Asked' - Taken' + 1] = w /\ Len(toRunner') = Asked' - Taken' + 1
    BY <1>4, <1>5, <1>7, <2>1
  <2>4. LastIsWait' /\ ~LastIsDone'
    BY <1>2, <2>3 DEF LastIsWait, LastIsDone
  <2>5. ASSUME NEW i \in 1..(Asked' - Taken')
        PROVE  i \in DOMAIN toRunner' /\ toRunner'[i] = AskLine(Taken' + i - 1)
    <3>1. i \in DOMAIN toRunner /\ toRunner[i] = AskLine(Taken + i - 1)
      BY <1>1, <1>4, <1>5 DEF LinesAreInStep
    <3>2. i \in DOMAIN toRunner'
      BY <1>7, <2>1, <3>1
    <3>3. toRunner'[i] = toRunner[i]
      BY <1>7, <2>1, <3>1
    <3>4. QED
      BY <1>5, <3>1, <3>2, <3>3
  <2>6. MayAsk' /\ PendingCount' >= 1
    BY <1>3, <1>4, <1>6 DEF MayAsk, Asked
  <2>7. toBridge' = <<>> /\ manager'.at = "LOOP"
    BY <1>1, <1>3, <1>5 DEF AsksTakeTurns
  <2>8. QED
    BY <1>4, <2>4, <2>5, <2>6, <2>7 DEF LinesAreInStep
<1>11. AsksTakeTurns'
  BY <1>1, <1>3, <1>4, <1>5 DEF AsksTakeTurns
<1>12. PlacesAreEarned'
  BY <1>1, <1>3, <1>4, PlacesKept
<1>13. QED
  BY <1>6, <1>8, <1>9, <1>10, <1>11, <1>12 DEF PInv

\* The result at the head of the pipe is that of the first row not told yet.
LEMMA RunHeadOfResults ==
    ASSUME PInv, toBridge # <<>>
    PROVE  LET i == Len(told) + 1
           IN  /\ i \in DOMAIN ledger /\ i \in 1..Len(ledger)
               /\ Head(toBridge) = [id |-> ledger[i].id, answer |-> ledger[i].answer]
               /\ Tail(toBridge) \in Seq([id : Ids, answer : 0..Budget])
               /\ Len(Tail(toBridge)) = Len(toBridge) - 1 /\ Len(toBridge) >= 1
               /\ \A j \in 1..Len(Tail(toBridge)) : Tail(toBridge)[j] = toBridge[j + 1]
<1>1. toBridge \in Seq([id : Ids, answer : 0..Budget])
  BY DEF PInv, PipesTyped
<1>2. /\ Len(toBridge) \in Nat /\ Len(told) \in Nat /\ Len(ledger) \in Nat
      /\ DOMAIN toBridge = 1..Len(toBridge) /\ DOMAIN ledger = 1..Len(ledger)
      /\ Len(ledger) = Len(told) + Len(toBridge)
  BY RunTallies
<1>3. Len(toBridge) >= 1
  BY <1>1, <1>2, EmptySeq
<1>4. PICK i : i = Len(told) + 1
  OBVIOUS
<1>5. i \in 1..Len(ledger)
  BY <1>2, <1>3, <1>4
<1>6. Head(toBridge) = toBridge[1]
  BY <1>1, <1>3
<1>7. toBridge[1] = [id |-> ledger[Len(told) + 1].id,
                    answer |-> ledger[Len(told) + 1].answer]
  BY <1>2, <1>3 DEF PInv, TellsFollowRows
<1>8. /\ Tail(toBridge) \in Seq([id : Ids, answer : 0..Budget])
      /\ Len(Tail(toBridge)) = Len(toBridge) - 1
      /\ \A j \in 1..Len(Tail(toBridge)) : Tail(toBridge)[j] = toBridge[j + 1]
  BY <1>1, HeadTailProperties
<1>9. QED
  BY <1>2, <1>3, <1>4, <1>5, <1>6, <1>7, <1>8

\* The id of that row is asked for and not told, so one slot bears it.
LEMMA RunHeadIsInSlot ==
    ASSUME PInv, NEW i, i = Len(told) + 1, i \in 1..Len(ledger)
    PROVE  /\ ledger[i].id \in UsedIds /\ ledger[i].id \notin ToldRowIds
           /\ ledger[i].id \in Ids
           /\ ledger[i].point = Point(ledger[i].id)
           /\ ledger[i].answer \in {0, ledger[i].point}
           /\ ledger[i].point \in 1..Budget /\ ledger[i].answer \in 0..Budget
<1>1. /\ Len(told) \in Nat /\ Len(ledger) \in Nat /\ DOMAIN ledger = 1..Len(ledger)
      /\ Len(ledger) <= Taken /\ Taken <= Asked /\ Len(ledger) >= Len(told)
  <2>1. Len(ledger) = Len(told) + Len(toBridge) /\ Len(toBridge) \in Nat
    BY RunTallies
  <2>2. QED
    BY <2>1, RunTallies
<1>2. ledger[i] \in Entry
  BY ElementOfSeq DEF PInv, PipesTyped
<1>3. /\ ledger[i].point = Point(ledger[i].id)
      /\ ledger[i].answer \in {0, ledger[i].point} /\ ledger[i].id < Taken
  BY <1>1 DEF PInv, RowsAreSound
<1>4. ledger[i].id \notin ToldRowIds
  <2> SUFFICES ASSUME ledger[i].id \in ToldRowIds PROVE FALSE
    OBVIOUS
  <2>1. PICK j \in 1..Len(told) : ledger[j].id = ledger[i].id
    BY DEF ToldRowIds
  <2>2. j \in DOMAIN ledger /\ i \in DOMAIN ledger /\ j # i
    BY <1>1
  <2>3. QED
    BY <2>1, <2>2 DEF PInv, RowsAreSound
<1>5. ledger[i].id \in 0..(Asked - 1)
  <2>1. PICK n : n = ledger[i].id
    OBVIOUS
  <2>2. n \in 0..(Budget - 1) /\ n < Taken /\ Asked \in 0..Budget /\ Taken \in 0..Budget
    BY <1>2, <1>3, <2>1, RunNumbers DEF PInv, Entry
  <2>3. n \in 0..(Asked - 1)
    BY <1>1, <2>2, RunNumbers DEF PInv
  <2>4. QED
    BY <2>1, <2>3
<1>6. ledger[i].id \in UsedIds
  BY <1>4, <1>5 DEF PInv, SlotsAreDue
<1>7. QED
  BY <1>2, <1>3, <1>4, <1>6 DEF Entry

\* The slots after a tell: the one of the told candidate is free again.
LEMMA RunSlotsAfterTell ==
    ASSUME PInv, NEW i, i = Len(told) + 1, i \in 1..Len(ledger),
           NEW s \in InUse, slots[s].id = ledger[i].id,
           slots' = [slots EXCEPT ![s] = Freed(s)],
           Asked' = Asked, Len(told') = Len(told) + 1, ledger' = ledger,
           bridge'.completed = Len(told')
    PROVE  /\ SlotsAreDue' /\ PendingCount' = PendingCount - 1
           /\ PendingCount \in Nat \ {0}
           /\ slots' \in [Slots -> [used : BOOLEAN, id : Ids \cup {-1}, point : 0..Budget]]
<1>1. slots \in [Slots -> [used : BOOLEAN, id : Ids \cup {-1}, point : 0..Budget]]
  BY DEF PInv, PipesTyped, BridgeType
<1>2. s \in Slots
  BY DEF InUse
<1>3. PICK e : e = Freed(s)
  OBVIOUS
<1>4. e.used = FALSE /\ e \in [used : BOOLEAN, id : Ids \cup {-1}, point : 0..Budget]
  <2>1. slots[s].point \in 0..Budget
    BY <1>1, <1>2
  <2>2. QED
    BY <1>3, <2>1 DEF Freed
<1>5. slots' = [slots EXCEPT ![s] = e]
  BY <1>3
<1>6. /\ slots' \in [Slots -> [used : BOOLEAN, id : Ids \cup {-1}, point : 0..Budget]]
      /\ slots'[s] = e /\ \A t \in Slots \ {s} : slots'[t] = slots[t]
  BY <1>1, <1>2, <1>4, <1>5
<1>7. InUse' = InUse \ {s}
  BY <1>2, <1>4, <1>6 DEF InUse
<1>8. \A t \in InUse \ {s} : t \in Slots /\ slots'[t] = slots[t]
  BY <1>6 DEF InUse
<1>9. PendingCount' = PendingCount - 1 /\ PendingCount \in Nat \ {0}
  <2>1. IsFiniteSet(InUse) /\ PendingCount \in Nat
    BY RunTallies
  <2>2. Cardinality(InUse \ {s}) = Cardinality(InUse) - 1
    BY <2>1, FS_RemoveElement
  <2>3. IsFiniteSet(InUse \ {s})
    BY <2>1, FS_RemoveElement
  <2>4. Cardinality(InUse \ {s}) \in Nat
    BY <2>3, FS_CardinalityType
  <2>5. QED
    BY <1>7, <2>1, <2>2, <2>4 DEF PendingCount
<1>10. /\ UsedIds = (0..(Asked - 1)) \ ToldRowIds
       /\ \A t, u \in InUse : slots[t].id = slots[u].id => t = u
       /\ \A t \in InUse : slots[t].point = Point(slots[t].id)
       /\ PendingCount = Asked - Len(told)
  BY DEF PInv, SlotsAreDue
<1>11. UsedIds' = UsedIds \ {ledger[i].id}
  <2>1. UsedIds' = {slots'[t].id : t \in InUse \ {s}}
    BY <1>7 DEF UsedIds
  <2>2. UsedIds' = {slots[t].id : t \in InUse \ {s}}
    BY <1>8, <2>1
  <2>3. UsedIds = {slots[t].id : t \in InUse}
    BY DEF UsedIds
  <2>4. \A t \in InUse : slots[t].id = ledger[i].id => t = s
    BY <1>10
  <2>5. QED
    BY <2>2, <2>3, <2>4
<1>12. ToldRowIds' = ToldRowIds \cup {ledger[i].id}
  <2>1. Len(told) \in Nat
    BY RunTallies
  <2>2. 1..Len(told') = 1..Len(told) \cup {i}
    BY <2>1
  <2>3. ToldRowIds' = {ledger[j].id : j \in 1..Len(told')}
    BY DEF ToldRowIds
  <2>4. QED
    BY <2>2, <2>3 DEF ToldRowIds
<1>13. UsedIds' = (0..(Asked' - 1)) \ ToldRowIds'
  BY <1>10, <1>11, <1>12
<1>14. \A t, u \in InUse' : slots'[t].id = slots'[u].id => t = u
  BY <1>7, <1>8, <1>10
<1>15. \A t \in InUse' : slots'[t].point = Point(slots'[t].id)
  BY <1>7, <1>8, <1>10
<1>16. PendingCount' = Asked' - Len(told')
  <2>1. PICK n : n = Asked
    OBVIOUS
  <2>2. n \in Int /\ Len(told) \in Nat
    BY <2>1, RunTallies, RunNumbers DEF PInv
  <2>3. PendingCount' = n - (Len(told) + 1)
    BY <1>9, <1>10, <2>1, <2>2
  <2>4. QED
    BY <2>1, <2>3
<1>17. QED
  BY <1>6, <1>9, <1>13, <1>14, <1>15, <1>16 DEF SlotsAreDue

\* What a tell appends is the point and the answer of the row it is about.
LEMMA RunTellTells ==
    ASSUME PInv, BridgeTell
    PROVE  LET i == Len(told) + 1
           IN  /\ i \in 1..Len(ledger) /\ toBridge # <<>>
               /\ told' = Append(told, [point |-> ledger[i].point,
                                        answer |-> ledger[i].answer])
               /\ \E s \in InUse : slots[s].id = ledger[i].id
                                   /\ slots' = [slots EXCEPT ![s] = Freed(s)]
               /\ ledger[i].point \in 1..Budget /\ ledger[i].answer \in 0..Budget
<1>1. toBridge # <<>>
  BY DEF BridgeTell
<1>2. PICK i : i = Len(told) + 1
  OBVIOUS
<1>3. /\ i \in 1..Len(ledger)
      /\ Head(toBridge) = [id |-> ledger[i].id, answer |-> ledger[i].answer]
  BY <1>1, <1>2, RunHeadOfResults
<1>4. Head(toBridge).id = ledger[i].id /\ Head(toBridge).answer = ledger[i].answer
  BY <1>3
<1>5. PICK s \in SlotOf(ledger[i].id) :
          /\ told' = Append(told, [point |-> slots[s].point,
                                   answer |-> ledger[i].answer])
          /\ slots' = [slots EXCEPT ![s] = Freed(s)]
  BY <1>4 DEF BridgeTell
<1>6. s \in InUse /\ slots[s].id = ledger[i].id
  BY <1>5 DEF SlotOf
<1>7. slots[s].point = Point(ledger[i].id)
  BY <1>6 DEF PInv, SlotsAreDue
<1>8. /\ ledger[i].point = Point(ledger[i].id)
      /\ ledger[i].point \in 1..Budget /\ ledger[i].answer \in 0..Budget
  BY <1>2, <1>3, RunHeadIsInSlot
<1>9. QED
  BY <1>1, <1>2, <1>3, <1>5, <1>6, <1>7, <1>8

\* The bridge tells the driver the first result it has not told yet.
LEMMA RunTellKeeps ==
    ASSUME PInv, BridgeTell, UNCHANGED rankVars, manager.process
    PROVE  PInv'
<1>1. /\ PipesTyped /\ RowsAreSound /\ TellsFollowRows /\ SlotsAreDue /\ CandidatesAreDue
      /\ LinesAreInStep /\ AsksTakeTurns /\ PlacesAreEarned
  BY DEF PInv
<1>2. PICK i : i = Len(told) + 1
  OBVIOUS
<1>3. PICK e : e = [point |-> ledger[i].point, answer |-> ledger[i].answer]
  OBVIOUS
<1>4. /\ i \in 1..Len(ledger) /\ toBridge # <<>> /\ told' = Append(told, e)
      /\ e \in [point : 1..Budget, answer : 0..Budget]
      /\ \E s \in InUse : slots[s].id = ledger[i].id
                          /\ slots' = [slots EXCEPT ![s] = Freed(s)]
  BY <1>2, <1>3, RunTellTells
<1>5. /\ bridge.at = "READ" /\ bridge' = [bridge EXCEPT !.at = "LOOP", !.completed = @ + 1]
      /\ toBridge' = Tail(toBridge) /\ toRunner' = toRunner /\ stdinClosed' = stdinClosed
      /\ manager' = manager /\ ledger' = ledger
  BY DEF BridgeTell, rankVars
<1>6. /\ told' \in Seq([point : 1..Budget, answer : 0..Budget])
      /\ Len(told') = Len(told) + 1 /\ told'[i] = e
      /\ \A j \in 1..Len(told) : told'[j] = told[j]
      /\ DOMAIN told' = 1..Len(told')
  <2>1. told \in Seq([point : 1..Budget, answer : 0..Budget])
    BY <1>1 DEF PipesTyped
  <2>2. told' \in Seq([point : 1..Budget, answer : 0..Budget])
    BY <1>4, <2>1, AppendProperties
  <2>3. QED
    BY <1>2, <1>4, <2>1, <2>2, AppendProperties, LenProperties
<1>7. /\ Len(told) \in Nat /\ Len(ledger) \in Nat /\ Len(toBridge) \in Nat
      /\ DOMAIN told = 1..Len(told) /\ DOMAIN toBridge = 1..Len(toBridge)
      /\ Len(ledger) = Len(told) + Len(toBridge)
      /\ Len(ledger) <= Taken /\ Taken <= Asked
  BY RunTallies
<1>8. Asked \in 0..Budget /\ Taken \in 0..Budget /\ Budget \in Nat \ {0}
  BY <1>1, RunNumbers
<1>9. /\ bridge'.at = "LOOP" /\ bridge'.why = bridge.why /\ Asked' = Asked
      /\ bridge'.completed = Len(told')
      /\ bridge' \in [at : {"LOOP", "READ", "EXITED", "ABORTED"}, dispatched : 0..Budget,
                      completed : 0..Budget, why : {"", "ASK", "TELL", "EOF"}]
  <2>1. bridge \in [at : {"LOOP", "READ", "EXITED", "ABORTED"}, dispatched : 0..Budget,
                    completed : 0..Budget, why : {"", "ASK", "TELL", "EOF"}]
    BY <1>1 DEF PipesTyped, BridgeType
  <2>2. PICK n : n = bridge.completed + 1
    OBVIOUS
  <2>3. n = Len(told) + 1
    BY <1>1, <2>2 DEF SlotsAreDue
  <2>4. n \in 0..Budget
    <3>1. Len(told) < Len(ledger)
      BY <1>2, <1>4, <1>7
    <3>2. QED
      BY <1>7, <1>8, <2>3, <3>1
  <2>5. bridge' = [bridge EXCEPT !.at = "LOOP", !.completed = n]
    BY <1>5, <2>2
  <2>6. QED
    BY <1>6, <2>1, <2>3, <2>4, <2>5 DEF Asked
<1>10. /\ Taken' = Taken /\ (Looping' <=> Looping) /\ manager'.at = manager.at
       /\ manager'.pending = manager.pending
       /\ manager'.why = manager.why /\ LedgerIds' = LedgerIds
  BY <1>5, ManagerKept
<1>11. /\ SlotsAreDue'
       /\ slots' \in [Slots -> [used : BOOLEAN, id : Ids \cup {-1}, point : 0..Budget]]
  BY <1>2, <1>4, <1>5, <1>6, <1>9, RunSlotsAfterTell
<1>12. /\ toBridge' \in Seq([id : Ids, answer : 0..Budget])
       /\ Len(toBridge') = Len(toBridge) - 1 /\ Len(toBridge) >= 1
       /\ \A j \in 1..Len(toBridge') : toBridge'[j] = toBridge[j + 1]
       /\ DOMAIN toBridge' = 1..Len(toBridge')
  <2>1. /\ toBridge' \in Seq([id : Ids, answer : 0..Budget])
        /\ Len(toBridge') = Len(toBridge) - 1 /\ Len(toBridge) >= 1
        /\ \A j \in 1..Len(toBridge') : toBridge'[j] = toBridge[j + 1]
    BY <1>4, <1>5, RunHeadOfResults
  <2>2. DOMAIN toBridge' = 1..Len(toBridge')
    BY <2>1, LenProperties
  <2>3. QED
    BY <2>1, <2>2
<1>13. PipesTyped'
  BY <1>1, <1>5, <1>6, <1>9, <1>11, <1>12 DEF PipesTyped, BridgeType, ManagerType, Ranks
<1>14. RowsAreSound' /\ CandidatesAreDue'
  BY <1>1, <1>5, <1>9, <1>10, RowsKept, CandidatesKept
<1>15. TellsFollowRows'
  <2>1. Len(ledger') = Len(told') + Len(toBridge')
    BY <1>5, <1>6, <1>7, <1>12
  <2>2. ASSUME NEW j \in DOMAIN told'
        PROVE  told'[j] = [point |-> ledger'[j].point, answer |-> ledger'[j].answer]
    <3>1. CASE j = i
      BY <1>3, <1>5, <1>6, <3>1
    <3>2. CASE j # i
      <4>1. j \in DOMAIN told /\ j \in 1..Len(told)
        BY <1>2, <1>6, <1>7, <3>2
      <4>2. told'[j] = told[j]
        BY <1>6, <4>1
      <4>3. told[j] = [point |-> ledger[j].point, answer |-> ledger[j].answer]
        BY <1>1, <4>1 DEF TellsFollowRows
      <4>4. QED
        BY <1>5, <4>2, <4>3
    <3>3. QED
      BY <3>1, <3>2
  <2>3. ASSUME NEW j \in DOMAIN toBridge'
        PROVE  toBridge'[j] = [id |-> ledger'[Len(told') + j].id,
                               answer |-> ledger'[Len(told') + j].answer]
    <3>1. /\ j + 1 \in DOMAIN toBridge /\ toBridge'[j] = toBridge[j + 1]
          /\ Len(told') + j = Len(told) + (j + 1)
      <4>1. j \in 1..Len(toBridge')
        BY <1>12
      <4>2. j \in Nat /\ j + 1 \in 1..Len(toBridge)
        BY <1>7, <1>12, <4>1
      <4>3. Len(told') + j = Len(told) + (j + 1)
        BY <1>6, <1>7, <4>2
      <4> QED
        BY <1>7, <1>12, <4>1, <4>2, <4>3
    <3>2. toBridge[j + 1] = [id |-> ledger[Len(told) + (j + 1)].id,
                             answer |-> ledger[Len(told) + (j + 1)].answer]
      BY <1>1, <3>1 DEF TellsFollowRows
    <3>3. QED
      BY <1>5, <3>1, <3>2
  <2>4. QED
    BY <2>1, <2>2, <2>3 DEF TellsFollowRows
<1>16. LinesAreInStep'
  <2> SUFFICES ASSUME Looping PROVE LinesAreInStep'
    BY <1>10 DEF LinesAreInStep
  <2>1. ~LastIsWait /\ ~LastIsDone
    BY <1>1, <1>4, <1>5 DEF LinesAreInStep
  <2>2. (LastIsWait' <=> LastIsWait) /\ (LastIsDone' <=> LastIsDone)
    BY <1>5, <1>9, <1>10 DEF LastIsWait, LastIsDone
  <2>3. QED
    BY <1>1, <1>5, <1>9, <1>10, <2>1, <2>2 DEF LinesAreInStep
<1>17. AsksTakeTurns'
  <2> SUFFICES ASSUME Looping PROVE AsksTakeTurns'
    BY <1>10 DEF AsksTakeTurns
  <2>1. ASSUME MayAsk'
        PROVE  toBridge' = <<>> /\ manager'.at = "LOOP"
    <3>1. Asked < Budget
      BY <1>9, <2>1 DEF MayAsk, Asked
    <3>2. Taken # Budget
      BY <1>7, <1>8, <3>1
    <3>3. ~(Len(toBridge) >= 2) /\ manager.at # "COMPLETE"
      BY <1>1, <1>4, <3>2 DEF AsksTakeTurns
    <3>4. Len(toBridge') = 0
      BY <1>7, <1>12, <3>3
    <3>5. toBridge' = <<>>
      BY <1>12, <3>4, EmptySeq
    <3>6. QED
      BY <1>10, <3>3, <3>5 DEF Looping
  <2>2. manager'.at = "COMPLETE" => Taken' = Budget
    BY <1>1, <1>4, <1>10 DEF AsksTakeTurns
  <2>3. Len(toBridge') >= 2 => Len(toBridge) >= 2
    BY <1>7, <1>12
  <2>4. Len(toBridge') >= 2 => Taken' = Budget
    BY <1>1, <1>10, <2>3 DEF AsksTakeTurns
  <2>5. QED
    BY <2>1, <2>2, <2>4 DEF AsksTakeTurns
<1>18. PlacesAreEarned'
  BY <1>1, <1>5, <1>9, PlacesKept
<1>19. QED
  BY <1>11, <1>13, <1>14, <1>15, <1>16, <1>17, <1>18 DEF PInv

\* The bridge has told the whole budget and says so.
LEMMA RunDoneKeeps ==
    ASSUME PInv, BridgeDone, UNCHANGED rankVars, manager.process
    PROVE  PInv'
<1>1. /\ PipesTyped /\ RowsAreSound /\ TellsFollowRows /\ SlotsAreDue /\ CandidatesAreDue
      /\ LinesAreInStep /\ AsksTakeTurns /\ PlacesAreEarned
  BY DEF PInv
<1>2. PICK w : w = [line |-> "DONE"]
  OBVIOUS
<1>3. /\ bridge' = [bridge EXCEPT !.at = "EXITED"] /\ bridge.at = "LOOP" /\ AllTold
      /\ slots' = slots /\ toRunner' = Append(toRunner, w) /\ toBridge' = toBridge
      /\ stdinClosed' = stdinClosed /\ told' = told
      /\ manager' = manager /\ ledger' = ledger
  BY <1>2 DEF BridgeDone, rankVars
<1>4. /\ bridge'.at = "EXITED" /\ bridge'.why = bridge.why /\ Asked' = Asked
      /\ bridge'.completed = bridge.completed
      /\ bridge' \in [at : {"LOOP", "READ", "EXITED", "ABORTED"}, dispatched : 0..Budget,
                      completed : 0..Budget, why : {"", "ASK", "TELL", "EOF"}]
  BY <1>1, <1>3, BridgeMoves DEF PipesTyped
<1>5. /\ Taken' = Taken /\ (Looping' <=> Looping) /\ manager'.at = manager.at
      /\ manager'.pending = manager.pending
      /\ manager'.why = manager.why /\ LedgerIds' = LedgerIds
  BY <1>3, ManagerKept
<1>6. /\ SlotsAreDue' /\ PendingCount' = PendingCount
  BY <1>1, <1>3, <1>4, RunSlotsKept
<1>7. /\ toRunner' \in Seq(Line) /\ Len(toRunner') = Len(toRunner) + 1
      /\ \A i \in 1..Len(toRunner) : toRunner'[i] = toRunner[i]
      /\ toRunner'[Len(toRunner) + 1] = w
      /\ DOMAIN toRunner' = 1..Len(toRunner')
  <2>1. w \in Line /\ toRunner \in Seq(Line)
    BY <1>1, <1>2 DEF PipesTyped, Line
  <2>2. toRunner' \in Seq(Line)
    BY <1>3, <2>1, AppendProperties
  <2>3. QED
    BY <1>3, <2>1, <2>2, AppendProperties, LenProperties
<1>8. PipesTyped'
  BY <1>1, <1>3, <1>4, <1>7 DEF PipesTyped, BridgeType, ManagerType, Ranks
<1>9. RowsAreSound' /\ TellsFollowRows' /\ CandidatesAreDue'
  BY <1>1, <1>3, <1>4, <1>5, RowsKept, RunTellsKept, CandidatesKept
<1>10. Len(told) = Budget /\ Asked = Budget
  <2>1. bridge.completed >= Budget /\ PendingCount = 0 /\ bridge.completed = Len(told)
    BY <1>1, <1>3 DEF AllTold, SlotsAreDue
  <2>2. bridge.completed \in 0..Budget /\ Budget \in Nat \ {0} /\ Asked \in 0..Budget
    BY <1>1, RunNumbers DEF PipesTyped, BridgeType
  <2>3. PendingCount = Asked - Len(told)
    BY RunTallies
  <2>4. QED
    BY <2>1, <2>2, <2>3
<1>11. LinesAreInStep'
  <2> SUFFICES ASSUME Looping PROVE LinesAreInStep'
    BY <1>5 DEF LinesAreInStep
  <2>1. Len(toRunner) = Asked - Taken /\ Len(toRunner) \in Nat
        /\ DOMAIN toRunner = 1..Len(toRunner)
    BY <1>3, OnlyAsksInLine, RunTallies
  <2>2. Asked \in Nat /\ Taken \in Nat
    BY <1>1, RunNumbers
  <2>3. toRunner'[Asked' - Taken' + 1] = w /\ Len(toRunner') = Asked' - Taken' + 1
    BY <1>4, <1>5, <1>7, <2>1
  <2>4. ~LastIsWait' /\ LastIsDone'
    BY <1>2, <2>3 DEF LastIsWait, LastIsDone
  <2>5. ASSUME NEW i \in 1..(Asked' - Taken')
        PROVE  i \in DOMAIN toRunner' /\ toRunner'[i] = AskLine(Taken' + i - 1)
    <3>1. i \in DOMAIN toRunner /\ toRunner[i] = AskLine(Taken + i - 1)
      BY <1>1, <1>4, <1>5 DEF LinesAreInStep
    <3>2. i \in DOMAIN toRunner'
      BY <1>7, <2>1, <3>1
    <3>3. toRunner'[i] = toRunner[i]
      BY <1>7, <2>1, <3>1
    <3>4. QED
      BY <1>5, <3>1, <3>2, <3>3
  <2>6. QED
    BY <1>4, <2>4, <2>5 DEF LinesAreInStep
<1>12. AsksTakeTurns'
  BY <1>1, <1>3, <1>4, <1>5 DEF AsksTakeTurns
<1>13. PlacesAreEarned'
  <2>1. manager.at \notin {"DOCUMENT", "WRITTEN"}
    BY <1>1, <1>3 DEF PlacesAreEarned
  <2>2. Len(told') = Budget /\ Asked' = Budget
    BY <1>3, <1>4, <1>10
  <2>3. manager'.process = manager.process
    BY <1>3
  <2> QED
    BY <1>1, <1>3, <1>4, <1>5, <2>1, <2>2, <2>3 DEF PlacesAreEarned
<1>14. QED
  BY <1>6, <1>8, <1>9, <1>11, <1>12, <1>13 DEF PInv

\* No step of the bridge disturbs the invariant of the pipes.
LEMMA RunBridgeKeeps ==
    ASSUME PInv, RunBridgeStep
    PROVE  PInv'
<1>1. manager.process /\ Bridge /\ UNCHANGED rankVars
  BY DEF RunBridgeStep
<1>2. CASE BridgeAsk
  BY <1>1, <1>2, RunAskKeeps
<1>3. CASE BridgeWait
  BY <1>1, <1>3, RunWaitKeeps
<1>4. CASE BridgeAskFails
  <2>1. Stop("ASK") /\ bridge.at = "LOOP"
    BY <1>4 DEF BridgeAskFails
  <2> QED
    BY <1>1, <2>1, RunStopKeeps
<1>5. CASE BridgeListens
  BY <1>1, <1>5, RunListensKeeps
<1>6. CASE BridgeTell
  BY <1>1, <1>6, RunTellKeeps
<1>7. CASE BridgeTellFails
  <2>1. Stop("TELL") /\ bridge.at = "READ"
    BY <1>7 DEF BridgeTellFails
  <2> QED
    BY <1>1, <2>1, RunStopKeeps
<1>8. CASE BridgeEndOfInput
  <2>1. Stop("EOF") /\ bridge.at = "READ"
    BY <1>8 DEF BridgeEndOfInput
  <2> QED
    BY <1>1, <2>1, RunStopKeeps
<1>9. CASE BridgeDone
  BY <1>1, <1>9, RunDoneKeeps
<1> QED
  BY <1>1, <1>2, <1>3, <1>4, <1>5, <1>6, <1>7, <1>8, <1>9 DEF Bridge

\* Once rank zero is out of its loop, only the ledger and the ends are left.
LEMMA OutOfTheLoop ==
    ASSUME PInv, ~Looping', Taken' = Taken, manager'.pending \subseteq manager.pending,
           bridge' = bridge, slots' = slots, told' = told, toBridge' = toBridge,
           ledger' = ledger
    PROVE  /\ RowsAreSound' /\ TellsFollowRows' /\ SlotsAreDue' /\ CandidatesAreDue'
           /\ LinesAreInStep' /\ AsksTakeTurns'
<1>1. /\ RowsAreSound /\ TellsFollowRows /\ SlotsAreDue /\ CandidatesAreDue
  BY DEF PInv
<1>2. Asked' = Asked /\ LedgerIds' = LedgerIds
  BY BridgeKept DEF LedgerIds
<1>3. RowsAreSound' /\ TellsFollowRows' /\ SlotsAreDue'
  BY <1>1, <1>2, RowsKept, RunTellsKept, RunSlotsKept
<1>4. CandidatesAreDue'
  <2>1. PendingIds' \subseteq PendingIds
    BY DEF PendingIds
  <2>2. /\ PendingIds' \cap LedgerIds' = {}
        /\ \A p \in manager'.pending : p.id < Taken' /\ p.point = Point(p.id)
    BY <1>1, <1>2, <2>1 DEF CandidatesAreDue
  <2>3. QED
    BY <2>2 DEF CandidatesAreDue
<1>5. QED
  BY <1>3, <1>4 DEF LinesAreInStep, AsksTakeTurns

\* What rank zero finds at the head of the pipe, and what is left behind it.
LEMMA RunHeadOfLines ==
    ASSUME PInv, Looping, toRunner # <<>>
    PROVE  /\ Tail(toRunner) \in Seq(Line) /\ Len(Tail(toRunner)) = Len(toRunner) - 1
           /\ \A i \in 1..Len(Tail(toRunner)) : Tail(toRunner)[i] = toRunner[i + 1]
           /\ DOMAIN Tail(toRunner) = 1..Len(Tail(toRunner))
           /\ Taken < Asked => Head(toRunner) = AskLine(Taken)
           /\ Taken = Asked => /\ LastIsWait \/ LastIsDone
                               /\ LastIsWait => Head(toRunner) = [line |-> "WAIT"]
                               /\ LastIsDone => Head(toRunner) = [line |-> "DONE"]
<1>1. toRunner \in Seq(Line)
  BY DEF PInv, PipesTyped
<1>2. /\ Len(toRunner) \in Nat /\ DOMAIN toRunner = 1..Len(toRunner)
      /\ Taken <= Asked
  BY RunTallies
<1>3. Asked \in Nat /\ Taken \in Nat
  BY RunNumbers DEF PInv
<1>4. Len(toRunner) >= 1
  BY <1>1, <1>2, EmptySeq
<1>5. Head(toRunner) = toRunner[1]
  BY <1>1, <1>4
<1>6. /\ Tail(toRunner) \in Seq(Line) /\ Len(Tail(toRunner)) = Len(toRunner) - 1
      /\ \A i \in 1..Len(Tail(toRunner)) : Tail(toRunner)[i] = toRunner[i + 1]
  BY <1>1, HeadTailProperties
<1>7. DOMAIN Tail(toRunner) = 1..Len(Tail(toRunner))
  BY <1>6, LenProperties
<1>8. ASSUME Taken < Asked PROVE Head(toRunner) = AskLine(Taken)
  <2>1. 1 \in 1..(Asked - Taken)
    BY <1>3, <1>8
  <2>2. toRunner[1] = AskLine(Taken + 1 - 1)
    BY <2>1 DEF PInv, LinesAreInStep
  <2>3. Taken + 1 - 1 = Taken
    BY <1>3
  <2>4. QED
    BY <1>5, <2>2, <2>3
<1>9. ASSUME Taken = Asked
      PROVE  /\ LastIsWait \/ LastIsDone
             /\ LastIsWait => Head(toRunner) = [line |-> "WAIT"]
             /\ LastIsDone => Head(toRunner) = [line |-> "DONE"]
  <2>1. Asked - Taken = 0 /\ Asked - Taken + 1 = 1
    BY <1>3, <1>9
  <2>2. LastIsWait \/ LastIsDone
    <3>1. Len(toRunner) # Asked - Taken
      BY <1>4, <2>1
    <3>2. QED
      BY <3>1 DEF PInv, LinesAreInStep
  <2>3. toRunner[Asked - Taken + 1] = Head(toRunner)
    BY <1>5, <2>1, Zenon
  <2>4. QED
    BY <2>2, <2>3, Zenon DEF LastIsWait, LastIsDone
<1>10. QED
  BY <1>6, <1>7, <1>8, <1>9

\* The lines tell rank zero apart what comes next.
LEMMA RunHeadTells ==
    ASSUME PInv, Looping
    PROVE  /\ NextLineIs("ASK") => Taken < Asked
           /\ NextLineIs("WAIT") => Taken = Asked /\ LastIsWait
           /\ NextLineIs("DONE") => Taken = Asked /\ LastIsDone
<1> SUFFICES ASSUME toRunner # <<>>
             PROVE  /\ Head(toRunner).line = "ASK" => Taken < Asked
                    /\ Head(toRunner).line = "WAIT" => Taken = Asked /\ LastIsWait
                    /\ Head(toRunner).line = "DONE" => Taken = Asked /\ LastIsDone
  BY DEF NextLineIs
<1>1. Taken <= Asked /\ Asked \in Nat /\ Taken \in Nat
  BY RunTallies, RunNumbers DEF PInv
<1>2. CASE Taken < Asked
  <2>1. Head(toRunner) = AskLine(Taken)
    BY <1>2, RunHeadOfLines
  <2>2. QED
    BY <1>2, <2>1 DEF AskLine
<1>3. CASE Taken = Asked
  <2>1. /\ LastIsWait \/ LastIsDone
        /\ LastIsWait => Head(toRunner) = [line |-> "WAIT"]
        /\ LastIsDone => Head(toRunner) = [line |-> "DONE"]
    <3>1. Taken = Asked => /\ LastIsWait \/ LastIsDone
                           /\ LastIsWait => Head(toRunner) = [line |-> "WAIT"]
                           /\ LastIsDone => Head(toRunner) = [line |-> "DONE"]
      BY RunHeadOfLines, Zenon
    <3> QED
      BY <1>3, <3>1, Zenon
  <2>2. QED
    BY <1>3, <2>1
<1>4. QED
  BY <1>1, <1>2, <1>3

\* While rank zero is in its loop, it waits for what is in no pipe.
LEMMA CandidateTally ==
    ASSUME PInv, Looping
    PROVE  /\ PendingCount = Cardinality(manager.pending) + (Asked - Taken) + Len(toBridge)
           /\ Cardinality(manager.pending) = Taken - Len(ledger)
           /\ Cardinality(manager.pending) <= PendingCount
<1>1. PICK c : c = Cardinality(manager.pending)
  OBVIOUS
<1>2. c = Taken - Len(ledger)
  BY <1>1 DEF PInv, CandidatesAreDue
<1>3. /\ PendingCount = Asked - Len(told) /\ Len(ledger) = Len(told) + Len(toBridge)
      /\ Len(told) \in Nat /\ Len(toBridge) \in Nat /\ Len(ledger) \in Nat /\ Taken <= Asked
  BY RunTallies
<1>4. Asked \in Nat /\ Taken \in Nat
  BY RunNumbers DEF PInv
<1>5. PendingCount = c + (Asked - Taken) + Len(toBridge) /\ c <= PendingCount
  BY <1>2, <1>3, <1>4
<1>6. QED
  BY <1>1, <1>2, <1>5

\* Rank zero takes an ask and has its candidate pending.
LEMMA TakesAskKeeps ==
    ASSUME PInv, TakesAsk
    PROVE  PInv'
<1>1. /\ PipesTyped /\ RowsAreSound /\ TellsFollowRows /\ SlotsAreDue /\ CandidatesAreDue
      /\ LinesAreInStep /\ AsksTakeTurns /\ PlacesAreEarned
  BY DEF PInv
<1>2. manager.at = "LOOP" /\ WantsCandidate /\ NextLineIs("ASK") /\ Looping
  BY DEF TakesAsk, Looping
<1>3. /\ Taken < Asked /\ Asked \in 0..Budget /\ Taken \in 0..(Budget - 1)
      /\ Ids = 0..(Budget - 1)
      /\ Budget \in Nat \ {0} /\ Workers \in Nat \ {0}
      /\ PendingIds \subseteq Ids
  <2>1. Taken < Asked
    BY <1>2, RunHeadTells
  <2>2. QED
    BY <1>1, <2>1, RunNumbers
<1>4. Head(toRunner) = AskLine(Taken) /\ toRunner # <<>>
  BY <1>2, <1>3, RunHeadOfLines DEF NextLineIs
<1>5. /\ Head(toRunner).id = Taken /\ Head(toRunner).point = Point(Taken)
      /\ Point(Taken) \in 1..Budget
  BY <1>1, <1>3, <1>4, AskIsLine
<1>6. PICK q : q = [id |-> Taken, point |-> Point(Taken)]
  OBVIOUS
<1>7. /\ toRunner' = Tail(toRunner) /\ bridge' = bridge /\ slots' = slots
      /\ ledger' = ledger /\ toBridge' = toBridge /\ stdinClosed' = stdinClosed
      /\ told' = told
  BY DEF TakesAsk
<1>8. PICK c : c = Cardinality(manager.pending)
  OBVIOUS
<1>9. c \in Nat /\ IsFiniteSet(manager.pending)
  BY <1>8, RunTallies
<1>10. PICK free, ps : free \subseteq Ranks /\ ps = manager.pending \cup {q}
                      /\ manager' = [manager EXCEPT !.dispatched = @ + 1, !.idle = free,
                                                    !.pending = ps]
  <2>1. [id |-> Head(toRunner).id, point |-> Head(toRunner).point] = q
    BY <1>5, <1>6
  <2>2. PICK w : manager' = [manager EXCEPT !.dispatched = @ + 1, !.idle = Busied(w),
                  !.pending = @ \cup {[id |-> Head(toRunner).id,
                                      point |-> Head(toRunner).point]}]
    BY DEF TakesAsk
  <2>3. Busied(w) \subseteq Ranks
    BY <1>1 DEF Busied, PipesTyped, ManagerType
  <2>4. PICK free : free = Busied(w)
    OBVIOUS
  <2>5. PICK ps : ps = manager.pending \cup {q}
    OBVIOUS
  <2>6. manager' = [manager EXCEPT !.dispatched = @ + 1, !.idle = free, !.pending = ps]
    BY <2>1, <2>2, <2>4, <2>5
  <2> QED
    BY <2>3, <2>4, <2>5, <2>6
<1>11. PendingIds \cup {Taken} = {p.id : p \in ps}
  BY <1>6, <1>10 DEF PendingIds
<1>12. PICK n : n = Taken + 1
  OBVIOUS
<1>13. /\ manager'.at = "LOOP" /\ Taken' = n /\ manager'.pending = ps
       /\ PendingIds' = PendingIds \cup {Taken}
       /\ manager'.process = manager.process /\ manager'.why = manager.why /\ ManagerType'
  <2>1. n \in 0..Budget
    BY <1>3, <1>12
  <2>2. q \in [id : Ids, point : 1..Budget]
    BY <1>3, <1>5, <1>6
  <2>3. ps \in SUBSET [id : Ids, point : 1..Budget]
    BY <1>1, <1>10, <2>2 DEF PipesTyped, ManagerType
  <2>4. manager' = [manager EXCEPT !.dispatched = n, !.idle = free, !.pending = ps]
    BY <1>10, <1>12 DEF Taken
  <2>5. /\ manager'.at = "LOOP" /\ Taken' = n /\ manager'.pending = ps
        /\ manager'.process = manager.process /\ manager'.why = manager.why
    BY <1>1, <1>2, <2>4 DEF Taken, PipesTyped, ManagerType
  <2>6. ManagerType'
    BY <1>1, <1>10, <2>1, <2>3, <2>4 DEF PipesTyped, ManagerType, Ids, Ranks
  <2> QED
    BY <1>11, <2>5, <2>6 DEF PendingIds
<1>14. Looping' /\ LedgerIds' = LedgerIds
  BY <1>7, <1>13 DEF Looping, LedgerIds
<1>15. /\ Asked' = Asked /\ (MayAsk' <=> MayAsk) /\ PendingCount' = PendingCount
  BY <1>7, BridgeKept
<1>17. /\ toRunner' \in Seq(Line) /\ Len(toRunner') = Len(toRunner) - 1
       /\ \A i \in 1..Len(toRunner') : toRunner'[i] = toRunner[i + 1]
       /\ DOMAIN toRunner' = 1..Len(toRunner')
  BY <1>2, <1>4, <1>7, RunHeadOfLines
<1>18. PipesTyped'
  BY <1>1, <1>7, <1>13, <1>17 DEF PipesTyped, BridgeType, Entry, Ids, Slots, Line, Ranks
<1>19. RowsAreSound'
  <2>1. \A i \in DOMAIN ledger : ledger[i].id < Taken /\ ledger[i].id \in Nat
    <3>1. \A i \in DOMAIN ledger : ledger[i].id \in Ids
      <4>1. ledger \in Seq(Entry)
        BY <1>1 DEF PipesTyped
      <4>2. \A i \in DOMAIN ledger : ledger[i] \in Entry
        BY <4>1, LenProperties, ElementOfSeq
      <4> QED
        BY <4>2 DEF Entry
    <3>2. QED
      BY <1>1, <1>3, <3>1 DEF RowsAreSound
  <2>2. \A i \in DOMAIN ledger : ledger[i].id < n
    BY <1>3, <1>12, <2>1
  <2>3. Len(ledger) <= n /\ n <= Asked
    BY <1>3, <1>12, RunTallies
  <2>4. QED
    BY <1>1, <1>7, <1>13, <1>15, <2>2, <2>3 DEF RowsAreSound
<1>20. TellsFollowRows' /\ SlotsAreDue'
  BY <1>1, <1>7, <1>15, RunTellsKept, RunSlotsKept
<1>21. CandidatesAreDue'
  <2>1. Taken \notin LedgerIds
    <3>1. \A i \in DOMAIN ledger : ledger[i].id < Taken
      BY <1>1 DEF RowsAreSound
    <3>2. \A i \in DOMAIN ledger : ledger[i].id # Taken
      BY <1>3, <3>1
    <3>3. QED
      BY <3>2 DEF LedgerIds
  <2>2. PendingIds = (0..(Taken - 1)) \ LedgerIds
    BY <1>1, <1>2 DEF CandidatesAreDue
  <2>3. 0..(n - 1) = (0..(Taken - 1)) \cup {Taken}
    BY <1>3, <1>12
  <2>4. PendingIds' = (0..(n - 1)) \ LedgerIds
    BY <1>13, <2>1, <2>2, <2>3
  <2>5. Cardinality(manager'.pending) = n - Len(ledger)
    <3>1. q \notin manager.pending
      <4>1. Taken \notin PendingIds /\ q.id = Taken
        BY <1>3, <1>6, <2>2
      <4> QED
        BY <4>1 DEF PendingIds
    <3>2. Cardinality(manager.pending \cup {q}) = c + 1
      BY <1>8, <1>9, <3>1, FS_AddElement
    <3>3. c = Taken - Len(ledger) /\ Len(ledger) \in Nat
      BY <1>2, <1>8, CandidateTally, RunTallies
    <3>4. c + 1 = n - Len(ledger)
      BY <1>3, <1>9, <1>12, <3>3
    <3>5. QED
      BY <1>10, <1>13, <3>2, <3>4, Zenon
  <2>6. ASSUME NEW p \in manager'.pending
        PROVE  p.id < n /\ p.point = Point(p.id)
    <3>1. CASE p = q
      BY <1>3, <1>6, <1>12, <3>1
    <3>2. CASE p # q
      <4>1. p \in manager.pending /\ p.id \in Ids
        BY <1>1, <1>10, <1>13, <3>2 DEF PipesTyped, ManagerType
      <4>2. p.id < Taken /\ p.point = Point(p.id)
        BY <1>1, <4>1 DEF CandidatesAreDue
      <4> QED
        BY <1>3, <1>12, <4>1, <4>2
    <3> QED
      BY <3>1, <3>2
  <2>7. PendingIds' \cap LedgerIds = {}
    BY <2>4
  <2>8. QED
    BY <1>7, <1>13, <1>14, <2>4, <2>5, <2>6, <2>7 DEF CandidatesAreDue
<1>22. LinesAreInStep'
  <2>1. PICK a, r : a = Asked /\ r = Taken
    OBVIOUS
  <2>2. a \in Nat /\ r \in Nat /\ r < a /\ Len(toRunner) \in Nat /\ Len(toRunner) >= 1
        /\ DOMAIN toRunner = 1..Len(toRunner)
    <3>1. toRunner \in Seq(Line)
      BY <1>1 DEF PipesTyped
    <3>2. QED
      BY <1>3, <1>4, <2>1, <3>1, EmptySeq, RunTallies
  <2>3. Asked' = a /\ Taken' = r + 1
    BY <1>12, <1>13, <1>15, <2>1
  <2>4. \A i \in 1..(a - r) : i \in DOMAIN toRunner /\ toRunner[i] = AskLine(r + i - 1)
    BY <1>1, <1>2, <2>1 DEF LinesAreInStep
  <2>5. ASSUME NEW i \in 1..(a - (r + 1))
        PROVE  i \in DOMAIN toRunner' /\ toRunner'[i] = AskLine((r + 1) + i - 1)
    <3>1. i + 1 \in 1..(a - r) /\ r + (i + 1) - 1 = (r + 1) + i - 1 /\ i \in Nat
      BY <2>2
    <3>2. i + 1 \in DOMAIN toRunner /\ toRunner[i + 1] = AskLine((r + 1) + i - 1)
      BY <2>4, <3>1, Zenon
    <3>3. i \in 1..Len(toRunner')
      BY <1>17, <2>2, <3>1, <3>2
    <3>4. QED
      BY <1>17, <3>2, <3>3
  <2>6. /\ Len(toRunner') = a - (r + 1) <=> Len(toRunner) = a - r
        /\ Len(toRunner') = a - (r + 1) + 1 <=> Len(toRunner) = a - r + 1
    BY <1>17, <2>2
  <2>7. Len(toRunner) = a - r + 1 => toRunner'[a - (r + 1) + 1] = toRunner[a - r + 1]
    <3> SUFFICES ASSUME Len(toRunner) = a - r + 1
                 PROVE  toRunner'[a - (r + 1) + 1] = toRunner[a - r + 1]
      OBVIOUS
    <3>1. PICK k : k = a - (r + 1) + 1
      OBVIOUS
    <3>2. k \in 1..Len(toRunner') /\ k + 1 = a - r + 1
      BY <1>17, <2>2, <3>1
    <3>3. toRunner'[k] = toRunner[k + 1]
      BY <1>17, <3>2
    <3>4. QED
      BY <3>1, <3>2, <3>3, Zenon
  <2>8. (LastIsWait' <=> LastIsWait) /\ (LastIsDone' <=> LastIsDone)
    <3>1. LastIsWait <=> Len(toRunner) = a - r + 1 /\ toRunner[a - r + 1] = [line |-> "WAIT"]
      BY <2>1 DEF LastIsWait
    <3>2. LastIsDone <=> Len(toRunner) = a - r + 1 /\ toRunner[a - r + 1] = [line |-> "DONE"]
      BY <2>1 DEF LastIsDone
    <3>3. LastIsWait' <=> /\ Len(toRunner') = a - (r + 1) + 1
                          /\ toRunner'[a - (r + 1) + 1] = [line |-> "WAIT"]
      BY <2>3 DEF LastIsWait
    <3>4. LastIsDone' <=> /\ Len(toRunner') = a - (r + 1) + 1
                          /\ toRunner'[a - (r + 1) + 1] = [line |-> "DONE"]
      BY <2>3 DEF LastIsDone
    <3>5. QED
      BY <2>6, <2>7, <3>1, <3>2, <3>3, <3>4, Zenon
  <2>9. Len(toRunner') = Asked' - Taken' \/ LastIsWait' \/ LastIsDone'
    BY <1>1, <1>2, <2>1, <2>3, <2>6, <2>8 DEF LinesAreInStep
  <2>10. \A i \in 1..(Asked' - Taken') :
            i \in DOMAIN toRunner' /\ toRunner'[i] = AskLine(Taken' + i - 1)
    BY <2>3, <2>5
  <2>11. LastIsDone' <=> bridge'.at = "EXITED"
    BY <1>1, <1>2, <1>7, <2>8 DEF LinesAreInStep
  <2>12. LastIsWait' => /\ MayAsk' /\ PendingCount' >= 1
                        /\ bridge'.at \in {"READ", "ABORTED"} /\ toBridge' = <<>>
                        /\ manager'.at = "LOOP"
    BY <1>1, <1>2, <1>7, <1>13, <1>15, <2>8 DEF LinesAreInStep
  <2>13. QED
    BY <2>9, <2>10, <2>11, <2>12 DEF LinesAreInStep
<1>23. AsksTakeTurns'
  <2>1. ~(Len(toBridge) >= 2)
    BY <1>1, <1>2, <1>3 DEF AsksTakeTurns
  <2>2. QED
    BY <1>1, <1>2, <1>7, <1>13, <1>15, <2>1 DEF AsksTakeTurns
<1>25. PlacesAreEarned'
  <2>1. manager.why = "" /\ manager.process
    BY <1>1, <1>2 DEF PlacesAreEarned
  <2>2. bridge'.at = "EXITED" => Len(told') = Budget /\ Asked' = Budget
    BY <1>1, <1>7, <1>15 DEF PlacesAreEarned
  <2>3. QED
    BY <1>1, <1>7, <1>13, <1>14, <2>1, <2>2 DEF PlacesAreEarned
<1>26. QED
  BY <1>18, <1>19, <1>20, <1>21, <1>22, <1>23, <1>25 DEF PInv

\* Rank zero turns to its results, on a WAIT or because it has taken enough.
LEMMA TurnsToResults ==
    ASSUME PInv, Looping, ~WantsCandidate \/ NextLineIs("WAIT"), manager.at = "LOOP"
    PROVE  /\ ~(bridge.at = "LOOP" /\ MayAsk)
           /\ toBridge # <<>> => Taken = Budget
           /\ LastIsWait => NextLineIs("WAIT")
<1>1. PICK c : c = Cardinality(manager.pending)
  OBVIOUS
<1>2. PICK a, r : a = Asked /\ r = Taken
  OBVIOUS
<1>3. /\ c \in Nat /\ PendingCount \in Nat /\ PendingCount <= Workers
      /\ Len(told) \in Nat /\ Len(toBridge) \in Nat /\ Len(ledger) \in Nat
      /\ Len(ledger) = Len(told) + Len(toBridge)
      /\ PendingCount = a - Len(told)
  BY <1>1, <1>2, RunTallies
<1>4. /\ PendingCount = c + (a - r) + Len(toBridge) /\ c = r - Len(ledger)
  BY <1>1, <1>2, CandidateTally
<1>5. /\ a \in 0..Budget /\ r \in 0..Budget /\ Budget \in Nat \ {0} /\ Workers \in Nat \ {0}
      /\ r <= a
  BY <1>2, RunNumbers, RunTallies DEF PInv
<1>8. MayAsk => a < Budget /\ PendingCount < Workers
  BY <1>2 DEF MayAsk, Asked
<1>9. toBridge # <<>> => Len(toBridge) >= 1
  <2>1. toBridge \in Seq([id : Ids, answer : 0..Budget])
    BY DEF PInv, PipesTyped
  <2>2. QED
    BY <1>3, <2>1, EmptySeq
<1>10. CASE NextLineIs("WAIT")
  <2>1. LastIsWait /\ r = a
    BY <1>2, <1>10, RunHeadTells
  <2>2. MayAsk /\ bridge.at \in {"READ", "ABORTED"} /\ toBridge = <<>>
    BY <1>2, <2>1 DEF PInv, LinesAreInStep
  <2>3. QED
    BY <1>10, <2>2
<1>11. CASE ~WantsCandidate
  <2>1. r >= Budget \/ c >= Workers
    BY <1>1, <1>2, <1>3, <1>5, <1>11 DEF WantsCandidate, Taken
  <2>2. ~MayAsk
    BY <1>3, <1>4, <1>5, <1>8, <2>1
  <2>3. ~LastIsWait
    BY <2>2 DEF PInv, LinesAreInStep
  <2>4. Len(toBridge) >= 1 => r = Budget
    BY <1>3, <1>4, <1>5, <2>1
  <2>5. QED
    BY <1>2, <1>9, <2>2, <2>3, <2>4
<1>12. QED
  BY <1>10, <1>11

\* Turning to its results keeps rank zero in step.
LEMMA TurnsKeep ==
    ASSUME PInv, TakesWait \/ AwaitsResult
    PROVE  PInv'
<1>1. /\ PipesTyped /\ RowsAreSound /\ TellsFollowRows /\ SlotsAreDue /\ CandidatesAreDue
      /\ LinesAreInStep /\ AsksTakeTurns /\ PlacesAreEarned
  BY DEF PInv
<1>2. /\ manager.at = "LOOP" /\ manager' = [manager EXCEPT !.at = "COMPLETE"]
      /\ \/ WantsCandidate /\ NextLineIs("WAIT") /\ toRunner' = Tail(toRunner)
         \/ ~WantsCandidate /\ toRunner' = toRunner
      /\ bridge' = bridge /\ slots' = slots /\ toBridge' = toBridge
      /\ stdinClosed' = stdinClosed /\ told' = told
      /\ ledger' = ledger
  BY DEF TakesWait, AwaitsResult, bridgeVars
<1>3. Looping
  BY <1>2 DEF Looping
<1>4. /\ ~(bridge.at = "LOOP" /\ MayAsk)
      /\ toBridge # <<>> => Taken = Budget
      /\ LastIsWait => NextLineIs("WAIT")
  BY <1>2, <1>3, TurnsToResults
<1>5. /\ manager'.at = "COMPLETE" /\ Taken' = Taken /\ manager'.pending = manager.pending
      /\ manager'.why = manager.why /\ manager'.process = manager.process
      /\ ManagerType'
  BY <1>1, <1>2, ManagerMoves DEF PipesTyped, Places
<1>6. Looping'
  BY <1>5 DEF Looping
<1>7. /\ Asked' = Asked /\ (MayAsk' <=> MayAsk) /\ PendingCount' = PendingCount
  BY <1>2, BridgeKept
<1>8. RowsAreSound' /\ TellsFollowRows' /\ SlotsAreDue' /\ CandidatesAreDue'
  BY <1>1, <1>2, <1>3, <1>5, <1>7, RowsKept, RunTellsKept, RunSlotsKept, CandidatesKept
<1>9. toRunner' \in Seq(Line) /\ LinesAreInStep'
  <2>1. CASE ~WantsCandidate /\ toRunner' = toRunner
    <3>1. ~NextLineIs("WAIT")
      <4> SUFFICES ASSUME NextLineIs("WAIT") PROVE FALSE
        OBVIOUS
      <4>1. LastIsWait
        BY <1>3, RunHeadTells
      <4>2. MayAsk
        BY <1>1, <1>3, <4>1 DEF LinesAreInStep
      <4>3. /\ Asked < Budget /\ PendingCount < Workers
        BY <4>2 DEF MayAsk, Asked
      <4>4. PICK c, r, a : c = Cardinality(manager.pending) /\ r = Taken /\ a = Asked
        OBVIOUS
      <4>5. r <= a /\ c <= PendingCount /\ c \in Nat /\ PendingCount \in Nat
            /\ a \in 0..Budget /\ r \in 0..Budget /\ Budget \in Nat /\ Workers \in Nat
        BY <1>1, <1>3, <4>4, RunTallies, CandidateTally, RunNumbers
      <4>6. r < Budget /\ c < Workers
        BY <4>3, <4>4, <4>5
      <4>7. WantsCandidate
        BY <4>4, <4>6 DEF WantsCandidate, Taken
      <4>8. QED
        BY <2>1, <4>7
    <3>2. ~LastIsWait
      BY <1>4, <3>1
    <3>3. (LastIsWait' <=> LastIsWait) /\ (LastIsDone' <=> LastIsDone)
      BY <1>5, <1>7, <2>1 DEF LastIsWait, LastIsDone
    <3>4. QED
      BY <1>1, <1>2, <1>3, <1>5, <1>7, <2>1, <3>2, <3>3 DEF LinesAreInStep, PipesTyped
  <2>2. CASE NextLineIs("WAIT") /\ toRunner' = Tail(toRunner)
    <3>1. LastIsWait /\ Taken = Asked
      BY <1>3, <2>2, RunHeadTells
    <3>2. Asked \in Nat
      BY <1>1, RunNumbers
    <3>3. Asked' - Taken' = 0 /\ Asked' - Taken' + 1 = 1
      <4>1. PICK a : a = Asked
        OBVIOUS
      <4>2. a - a = 0 /\ a - a + 1 = 1
        BY <3>2, <4>1
      <4>3. Asked' = a /\ Taken' = a
        BY <1>5, <1>7, <3>1, <4>1
      <4>4. QED
        BY <4>2, <4>3, Zenon
    <3>4. toRunner' \in Seq(Line) /\ Len(toRunner') = Len(toRunner) - 1
      BY <1>3, <2>2, RunHeadOfLines DEF NextLineIs
    <3>5. Len(toRunner) = 1
      <4>1. Len(toRunner) = Asked - Taken + 1
        BY <3>1 DEF LastIsWait
      <4>2. QED
        BY <3>1, <3>2, <4>1
    <3>6. Len(toRunner') = 0
      BY <3>4, <3>5
    <3>7. ~LastIsWait' /\ ~LastIsDone'
      BY <3>3, <3>6 DEF LastIsWait, LastIsDone
    <3>8. Len(toRunner') = Asked' - Taken'
      BY <3>3, <3>6, Zenon
    <3>9. bridge'.at # "EXITED"
      BY <1>1, <1>2, <1>3, <3>1 DEF LinesAreInStep
    <3>10. \A i \in 1..(Asked' - Taken') : FALSE
      BY <3>3
    <3>11. QED
      BY <3>4, <3>7, <3>8, <3>9, <3>10 DEF LinesAreInStep
  <2>3. QED
    BY <1>2, <2>1, <2>2
<1>10. PipesTyped'
  BY <1>1, <1>2, <1>5, <1>9 DEF PipesTyped, BridgeType, Entry, Ids, Slots, Line, Ranks
<1>11. AsksTakeTurns'
  BY <1>1, <1>2, <1>3, <1>4, <1>5, <1>7 DEF AsksTakeTurns
<1>13. PlacesAreEarned'
  <2>1. manager.why = "" /\ manager.process
    BY <1>1, <1>2, <1>3 DEF PlacesAreEarned
  <2>2. bridge'.at = "EXITED" => Len(told') = Budget /\ Asked' = Budget
    BY <1>1, <1>2, <1>7 DEF PlacesAreEarned
  <2>3. QED
    BY <1>1, <1>2, <1>5, <1>6, <2>1, <2>2 DEF PlacesAreEarned
<1>14. QED
  BY <1>8, <1>9, <1>10, <1>11, <1>13 DEF PInv

\* What rank zero knows of a candidate that is pending.
LEMMA PendingCandidate ==
    ASSUME PInv, NEW id \in PendingIds
    PROVE  /\ id \in Ids /\ id < Taken /\ id \notin LedgerIds
           /\ Point(id) \in 1..Budget /\ PointOf(id) = Point(id)
           /\ \E p \in manager.pending : p.id = id /\ p.point = Point(id)
<1>1. id \in Ids /\ Ids = 0..(Budget - 1) /\ Budget \in Nat \ {0}
  BY RunNumbers DEF PInv
<1>2. PICK p \in manager.pending : p.id = id
  BY DEF PendingIds
<1>3. id < Taken /\ p.point = Point(id) /\ id \notin LedgerIds
  BY <1>2 DEF PInv, CandidatesAreDue
<1>4. \A q \in manager.pending : q.id = id => q.point = Point(id)
  BY DEF PInv, CandidatesAreDue
<1>5. PointOf(id) = Point(id)
  BY <1>2, <1>4 DEF PointOf
<1>6. Point(id) \in 1..Budget
  BY <1>1 DEF Point
<1> QED
  BY <1>1, <1>2, <1>3, <1>5, <1>6

\* What is left of the candidates when one is received.
LEMMA PendingWithout ==
    ASSUME PipesTyped, CandidatesAreDue, NEW p \in manager.pending,
           manager'.pending = {q \in manager.pending : q.id # p.id}
    PROVE  /\ manager'.pending = manager.pending \ {p}
           /\ PendingIds' = PendingIds \ {p.id}
<1>1. \A q \in manager.pending : q.id = p.id => q = p
  BY PendingById
<1>2. manager'.pending = manager.pending \ {p}
  BY <1>1
<1>3. PendingIds' = {q.id : q \in {u \in manager.pending : u.id # p.id}}
  BY DEF PendingIds
<1> QED
  BY <1>2, <1>3 DEF PendingIds

\* Rank zero records a result that has arrived and passes it to the bridge.
LEMMA CompletesOneKeeps ==
    ASSUME PInv, NEW res, CompletesOne(res), res.rank \in Ranks,
           res.answer \in {0, Point(res.id)}
    PROVE  PInv'
<1>1. /\ PipesTyped /\ RowsAreSound /\ TellsFollowRows /\ SlotsAreDue /\ CandidatesAreDue
      /\ LinesAreInStep /\ AsksTakeTurns /\ PlacesAreEarned
  BY DEF PInv
<1>2. PICK id, an, row, ans :
          /\ id = res.id /\ an = res.answer /\ ans = [id |-> id, answer |-> an]
          /\ row = [id |-> id, point |-> RowPoint(id), answer |-> an, rank |-> res.rank]
  OBVIOUS
<1>3. /\ manager.at = "COMPLETE" /\ id \in PendingIds /\ ~BridgeGone
      /\ toBridge' = Append(toBridge, ans) /\ ledger' = Append(ledger, row)
      /\ manager' = [Received(res) EXCEPT !.at = "LOOP"]
      /\ bridge' = bridge /\ slots' = slots /\ toRunner' = toRunner
      /\ stdinClosed' = stdinClosed /\ told' = told
  BY <1>2 DEF CompletesOne
<1>4. Looping
  BY <1>3 DEF Looping
<1>5. /\ id \in Ids /\ id < Taken /\ id \notin LedgerIds /\ RowPoint(id) = Point(id)
      /\ Point(id) \in 1..Budget
  BY <1>3, PendingCandidate DEF RowPoint
<1>6. Budget \in Nat \ {0} /\ Ids = 0..(Budget - 1) /\ Taken \in 0..Budget
      /\ Asked \in 0..Budget
  BY <1>1, RunNumbers
<1>7. /\ an \in {0, Point(id)} /\ an \in 0..Budget
      /\ row.id = id /\ row.point = Point(id) /\ row.answer = an
      /\ row \in Entry
      /\ ans.id = id /\ ans.answer = an
      /\ ans \in [id : Ids, answer : 0..Budget]
  <2>1. an \in {0, Point(id)}
    BY <1>2
  <2>2. an \in 0..Budget
    BY <1>5, <1>6, <2>1
  <2>3. row = [id |-> id, point |-> Point(id), answer |-> an, rank |-> res.rank]
    BY <1>2, <1>5
  <2>4. row \in Entry
    BY <1>5, <2>2, <2>3 DEF Entry
  <2>5. QED
    BY <1>2, <1>5, <2>1, <2>2, <2>3, <2>4
<1>8. /\ Len(told) \in Nat /\ Len(ledger) \in Nat /\ Len(toBridge) \in Nat
      /\ DOMAIN told = 1..Len(told) /\ DOMAIN ledger = 1..Len(ledger)
      /\ DOMAIN toBridge = 1..Len(toBridge)
      /\ Len(ledger) = Len(told) + Len(toBridge) /\ Len(ledger) <= Taken /\ Taken <= Asked
      /\ IsFiniteSet(manager.pending)
  BY RunTallies
<1>9. /\ ledger' \in Seq(Entry)
      /\ Len(ledger') = Len(ledger) + 1 /\ ledger'[Len(ledger) + 1] = row
      /\ \A i \in 1..Len(ledger) : ledger'[i] = ledger[i]
      /\ DOMAIN ledger' = 1..Len(ledger') /\ ledger' # <<>>
  <2>1. ledger \in Seq(Entry)
    BY <1>1 DEF PipesTyped
  <2>2. /\ ledger' \in Seq(Entry)
        /\ Len(ledger') = Len(ledger) + 1 /\ ledger'[Len(ledger) + 1] = row
        /\ \A i \in 1..Len(ledger) : ledger'[i] = ledger[i] /\ ledger' # <<>>
    BY <1>3, <1>7, <2>1, AppendProperties
  <2>3. DOMAIN ledger' = 1..Len(ledger') /\ ledger' # <<>>
    BY <1>3, <1>7, <2>1, <2>2, AppendProperties, LenProperties
  <2>4. QED
    BY <2>2, <2>3
<1>10. /\ toBridge' \in Seq([id : Ids, answer : 0..Budget])
       /\ Len(toBridge') = Len(toBridge) + 1 /\ toBridge'[Len(toBridge) + 1] = ans
       /\ \A i \in 1..Len(toBridge) : toBridge'[i] = toBridge[i]
       /\ DOMAIN toBridge' = 1..Len(toBridge')
  <2>1. toBridge \in Seq([id : Ids, answer : 0..Budget])
    BY <1>1 DEF PipesTyped
  <2>2. toBridge' \in Seq([id : Ids, answer : 0..Budget])
    BY <1>3, <1>7, <2>1, AppendProperties
  <2>3. QED
    BY <1>3, <1>7, <2>1, <2>2, AppendProperties, LenProperties
<1>11. PICK p \in manager.pending : p.id = id /\ p.point = Point(id)
  BY <1>3, PendingCandidate
<1>29. /\ manager'.at = "LOOP" /\ Taken' = Taken
       /\ manager'.pending = {q \in manager.pending : q.id # p.id}
       /\ manager'.why = manager.why /\ manager'.process = manager.process /\ ManagerType'
  <2>1. PICK ps, free : /\ ps = {q \in manager.pending : q.id # res.id}
                        /\ free = manager.idle \cup {res.rank}
    OBVIOUS
  <2>2. manager' = [manager EXCEPT !.at = "LOOP", !.pending = ps, !.idle = free]
    BY <1>1, <1>3, <2>1 DEF Received, PipesTyped, ManagerType
  <2>3. ps \in SUBSET [id : Ids, point : 1..Budget] /\ free \in SUBSET Ranks
    BY <1>1, <2>1 DEF PipesTyped, ManagerType
  <2>4. /\ manager'.at = "LOOP" /\ Taken' = Taken /\ manager'.pending = ps
        /\ manager'.why = manager.why /\ manager'.process = manager.process
    BY <1>1, <2>2 DEF PipesTyped, ManagerType, Taken
  <2>5. ManagerType'
    BY <1>1, <2>2, <2>3 DEF PipesTyped, ManagerType, Ranks, Ids
  <2> QED
    BY <1>2, <1>11, <2>1, <2>4, <2>5
<1>30. manager'.pending = manager.pending \ {p} /\ PendingIds' = PendingIds \ {id}
  BY <1>1, <1>11, <1>29, PendingWithout
<1>12. Looping'
  BY <1>29 DEF Looping
<1>13. /\ Asked' = Asked /\ (MayAsk' <=> MayAsk) /\ PendingCount' = PendingCount
  BY <1>3, BridgeKept
<1>14. LedgerIds' = LedgerIds \cup {id}
  <2>1. LedgerIds' = {ledger'[i].id : i \in 1..Len(ledger')}
    BY <1>9 DEF LedgerIds
  <2>2. LedgerIds = {ledger[i].id : i \in 1..Len(ledger)}
    BY <1>8 DEF LedgerIds
  <2>3. 1..Len(ledger') = 1..Len(ledger) \cup {Len(ledger) + 1}
    BY <1>8, <1>9
  <2>4. \A i \in 1..Len(ledger) : ledger'[i].id = ledger[i].id
    BY <1>9
  <2>5. ledger'[Len(ledger) + 1].id = id
    BY <1>7, <1>9
  <2> QED
    BY <2>1, <2>2, <2>3, <2>4, <2>5
<1>15. ToldRowIds' = ToldRowIds
  <2>1. \A i \in 1..Len(told) : i \in 1..Len(ledger)
    BY <1>8
  <2>2. \A i \in 1..Len(told) : ledger'[i].id = ledger[i].id
    BY <1>9, <2>1
  <2>3. QED
    BY <1>3, <2>2 DEF ToldRowIds
<1>16. Cardinality(manager'.pending) = Cardinality(manager.pending) - 1
  <2>1. Cardinality(manager.pending \ {p}) = Cardinality(manager.pending) - 1
    BY <1>8, <1>11, FS_RemoveElement
  <2>2. QED
    BY <1>30, <2>1, Zenon
<1>17. Cardinality(manager'.pending) = Taken - Len(ledger') /\ Len(ledger') <= Taken
  <2>1. PICK c, d : c = Cardinality(manager.pending) /\ d = Cardinality(manager'.pending)
    OBVIOUS
  <2>2. c = Taken - Len(ledger)
    BY <1>4, <2>1, CandidateTally
  <2>3. d = c - 1 /\ d \in Nat
    <3>1. IsFiniteSet(manager.pending \ {p})
      BY <1>8, FS_RemoveElement
    <3>2. d \in Nat
      BY <1>30, <2>1, <3>1, FS_CardinalityType
    <3>3. QED
      BY <1>16, <2>1, <3>2
  <2>4. d = Taken - Len(ledger') /\ Len(ledger') <= Taken
    BY <1>6, <1>8, <1>9, <2>2, <2>3
  <2>5. QED
    BY <2>1, <2>4
<1>18. PipesTyped'
  BY <1>1, <1>3, <1>9, <1>10, <1>29
     DEF PipesTyped, BridgeType, Entry, Ids, Slots, Line, Ranks
<1>19. \A i \in DOMAIN ledger' :
          \/ i \in DOMAIN ledger /\ ledger'[i] = ledger[i]
          \/ i = Len(ledger) + 1 /\ ledger'[i] = row
  <2>1. \A i \in 1..(Len(ledger) + 1) : i \in 1..Len(ledger) \/ i = Len(ledger) + 1
    BY <1>8
  <2>2. QED
    BY <1>8, <1>9, <2>1
<1>20. RowsAreSound'
  <2>1. \A i \in DOMAIN ledger : ledger[i].id # id
    BY <1>5 DEF LedgerIds
  <2>2. ASSUME NEW i \in DOMAIN ledger', NEW j \in DOMAIN ledger',
               ledger'[i].id = ledger'[j].id
        PROVE  i = j
    <3>1. /\ \A k \in DOMAIN ledger : ledger[k].id # row.id
          /\ \A k, l \in DOMAIN ledger : ledger[k].id = ledger[l].id => k = l
      BY <1>1, <1>7, <2>1 DEF RowsAreSound
    <3>2. CASE i \in DOMAIN ledger /\ ledger'[i] = ledger[i]
      <4>1. ~(j = Len(ledger) + 1 /\ ledger'[j] = row)
        BY <2>2, <3>1, <3>2
      <4>2. QED
        BY <1>19, <2>2, <3>1, <3>2, <4>1
    <3>3. CASE i = Len(ledger) + 1 /\ ledger'[i] = row
      <4>1. ~(j \in DOMAIN ledger /\ ledger'[j] = ledger[j])
        BY <2>2, <3>1, <3>3
      <4>2. QED
        BY <1>19, <2>2, <3>3, <4>1
    <3>4. QED
      BY <1>19, <3>2, <3>3
  <2>3. ASSUME NEW i \in DOMAIN ledger'
        PROVE  /\ ledger'[i].point = Point(ledger'[i].id)
               /\ ledger'[i].answer \in {0, ledger'[i].point} /\ ledger'[i].id < Taken
    BY <1>1, <1>5, <1>7, <1>19 DEF RowsAreSound
  <2>4. QED
    BY <1>1, <1>3, <1>8, <1>29, <1>13, <1>17, <2>2, <2>3 DEF RowsAreSound
<1>21. TellsFollowRows'
  <2>1. Len(ledger') = Len(told') + Len(toBridge')
    BY <1>3, <1>8, <1>9, <1>10
  <2>2. ASSUME NEW i \in DOMAIN told
        PROVE  told[i] = [point |-> ledger'[i].point, answer |-> ledger'[i].answer]
    <3>1. i \in 1..Len(ledger)
      BY <1>8
    <3>2. QED
      BY <1>1, <1>9, <3>1 DEF TellsFollowRows
  <2>3. ASSUME NEW i \in DOMAIN toBridge'
        PROVE  toBridge'[i] = [id |-> ledger'[Len(told) + i].id,
                               answer |-> ledger'[Len(told) + i].answer]
    <3>1. i \in 1..(Len(toBridge) + 1)
      BY <1>10
    <3>2. CASE i = Len(toBridge) + 1
      <4>1. Len(told) + i = Len(ledger) + 1
        BY <1>8, <3>2
      <4>2. toBridge'[i] = ans /\ ledger'[Len(told) + i] = row
        BY <1>9, <1>10, <3>2, <4>1
      <4>3. QED
        BY <1>2, <1>7, <4>2
    <3>3. CASE i # Len(toBridge) + 1
      <4>1. i \in 1..Len(toBridge) /\ Len(told) + i \in 1..Len(ledger)
        BY <1>8, <3>1, <3>3
      <4>2. toBridge'[i] = toBridge[i] /\ ledger'[Len(told) + i] = ledger[Len(told) + i]
        BY <1>9, <1>10, <4>1
      <4>3. i \in DOMAIN toBridge
        BY <1>8, <4>1
      <4>4. toBridge[i] = [id |-> ledger[Len(told) + i].id,
                           answer |-> ledger[Len(told) + i].answer]
        BY <1>1, <4>3 DEF TellsFollowRows
      <4>5. QED
        BY <4>2, <4>4
    <3>4. QED
      BY <3>2, <3>3
  <2>4. QED
    BY <1>3, <2>1, <2>2, <2>3 DEF TellsFollowRows
<1>22. SlotsAreDue'
  <2>1. UsedIds' = UsedIds /\ InUse' = InUse
    BY <1>3 DEF UsedIds, InUse
  <2>2. QED
    BY <1>1, <1>3, <1>13, <1>15, <2>1 DEF SlotsAreDue
<1>23. CandidatesAreDue'
  <2>1. PendingIds' = (0..(Taken - 1)) \ LedgerIds'
    BY <1>1, <1>4, <1>14, <1>30 DEF CandidatesAreDue
  <2>2. \A q \in manager'.pending : q.id < Taken /\ q.point = Point(q.id)
    BY <1>1, <1>30 DEF CandidatesAreDue
  <2>3. PendingIds' \cap LedgerIds' = {}
    BY <2>1
  <2> QED
    BY <1>3, <1>17, <1>29, <2>1, <2>2, <2>3 DEF CandidatesAreDue
<1>24. LinesAreInStep'
  <2>1. ~LastIsWait
    BY <1>1, <1>3, <1>4 DEF LinesAreInStep
  <2>2. (LastIsWait' <=> LastIsWait) /\ (LastIsDone' <=> LastIsDone)
    BY <1>3, <1>29, <1>13 DEF LastIsWait, LastIsDone
  <2>3. QED
    BY <1>1, <1>3, <1>4, <1>29, <1>13, <2>1, <2>2 DEF LinesAreInStep
<1>25. AsksTakeTurns'
  <2>1. ~(bridge.at = "LOOP" /\ MayAsk)
    BY <1>1, <1>3, <1>4 DEF AsksTakeTurns
  <2>2. ASSUME Len(toBridge') >= 2 PROVE Taken = Budget
    <3>1. Len(toBridge) # 0
      BY <1>8, <1>10, <2>2
    <3>2. toBridge # <<>>
      BY <3>1, EmptySeq
    <3>3. QED
      BY <1>1, <1>3, <1>4, <3>2 DEF AsksTakeTurns
  <2>3. QED
    BY <1>3, <1>29, <1>13, <2>1, <2>2 DEF AsksTakeTurns
<1>27. PlacesAreEarned'
  <2>1. manager.why = "" /\ manager.process
    BY <1>1, <1>3, <1>4 DEF PlacesAreEarned
  <2>2. bridge'.at = "EXITED" => Len(told') = Budget /\ Asked' = Budget
    BY <1>1, <1>3, <1>13 DEF PlacesAreEarned
  <2>3. QED
    BY <1>1, <1>3, <1>29, <1>12, <2>1, <2>2 DEF PlacesAreEarned
<1>28. QED
  BY <1>18, <1>20, <1>21, <1>22, <1>23, <1>24, <1>25, <1>27 DEF PInv

\* Out of the loop, what is left to show is where rank zero is.
LEMMA OutKeeps ==
    ASSUME PInv, ManagerType', ~Looping', Taken' = Taken, PlacesAreEarned',
           manager'.pending \subseteq manager.pending,
           bridge' = bridge, slots' = slots, told' = told, toBridge' = toBridge,
           toRunner' \in Seq(Line), stdinClosed' \in BOOLEAN, ledger' = ledger
    PROVE  PInv'
<1>1. PipesTyped
  BY DEF PInv
<1>2. /\ RowsAreSound' /\ TellsFollowRows' /\ SlotsAreDue' /\ CandidatesAreDue'
      /\ LinesAreInStep' /\ AsksTakeTurns'
  BY OutOfTheLoop
<1>3. PipesTyped'
  BY <1>1 DEF PipesTyped, BridgeType, Entry, Ids, Slots, Line, Ranks
<1> QED
  BY <1>2, <1>3 DEF PInv

\* A step of the worker ranks alone.
LEMMA PipesKept ==
    ASSUME PInv, manager' = manager, bridge' = bridge, slots' = slots, told' = told,
           toBridge' = toBridge, toRunner' = toRunner, stdinClosed' = stdinClosed,
           ledger' = ledger
    PROVE  PInv'
<1>1. /\ PipesTyped /\ RowsAreSound /\ TellsFollowRows /\ SlotsAreDue /\ CandidatesAreDue
      /\ LinesAreInStep /\ AsksTakeTurns /\ PlacesAreEarned
  BY DEF PInv
<1>2. /\ Taken' = Taken /\ (Looping' <=> Looping) /\ manager'.at = manager.at
      /\ manager'.why = manager.why /\ manager'.process = manager.process
      /\ manager'.pending = manager.pending /\ LedgerIds' = LedgerIds
  BY ManagerKept
<1>3. Asked' = Asked /\ (MayAsk' <=> MayAsk) /\ PendingCount' = PendingCount
  BY BridgeKept
<1>4. PipesTyped'
  <2>1. BridgeType'
    BY <1>1 DEF PipesTyped, BridgeType, Ids, Slots
  <2>2. ManagerType'
    BY <1>1, Zenon DEF PipesTyped, ManagerType, Ids, Ranks
  <2> QED
    BY <1>1, <2>1, <2>2, Zenon DEF PipesTyped, Entry, Ids, Line, Ranks
<1>5. RowsAreSound' /\ TellsFollowRows' /\ SlotsAreDue' /\ CandidatesAreDue'
  BY <1>1, <1>2, <1>3, RowsKept, RunTellsKept, RunSlotsKept, CandidatesKept
<1>6. (LastIsWait' <=> LastIsWait) /\ (LastIsDone' <=> LastIsDone)
  BY <1>2, <1>3 DEF LastIsWait, LastIsDone
<1>7. LinesAreInStep' /\ AsksTakeTurns'
  BY <1>1, <1>2, <1>3, <1>6 DEF LinesAreInStep, AsksTakeTurns
<1>8. PlacesAreEarned'
  <2>1. BridgeInit' <=> BridgeInit
    BY DEF BridgeInit, Slots, Free
  <2> QED
    BY <1>1, <1>2, <1>3, <2>1 DEF PlacesAreEarned
<1> QED
  BY <1>4, <1>5, <1>7, <1>8 DEF PInv

\* Rank zero raises, for whatever reason.
LEMMA ManagerRaises ==
    ASSUME ManagerType, NEW a \in {"CLOSE", "RAISED"},
           NEW y \in {"SCRATCH", "INITIALIZATION", "STDERR", "POPEN", "EOF", "BROKEN_PIPE",
                      "DOCUMENT"},
           manager' = [manager EXCEPT !.at = a, !.why = y]
    PROVE  /\ ManagerType' /\ manager'.at = a /\ manager'.why = y /\ Taken' = Taken
           /\ manager'.process = manager.process /\ manager'.pending = manager.pending
           /\ ~Looping'
<1>1. /\ manager'.at = a /\ manager'.why = y /\ Taken' = Taken
      /\ manager'.process = manager.process /\ manager'.pending = manager.pending
  BY DEF ManagerType, Taken
<1>2. ManagerType'
  BY DEF ManagerType, Ranks, Ids
<1> QED
  BY <1>1, <1>2 DEF Looping

\* What raises before the bridge is started or after it has ended.
LEMMA RaisesKeep ==
    ASSUME PInv, manager.at \in {"SCRATCH", "GATHER", "START", "DOCUMENT"},
           NEW y \in {"SCRATCH", "INITIALIZATION", "STDERR", "POPEN", "DOCUMENT"},
           manager' = Raised(y), bridge' = bridge, slots' = slots, told' = told,
           toBridge' = toBridge, toRunner' = toRunner, stdinClosed' = stdinClosed,
           ledger' = ledger
    PROVE  PInv'
<1>1. PipesTyped /\ PlacesAreEarned
  BY DEF PInv
<1>2. manager' = [manager EXCEPT !.at = "RAISED", !.why = y]
  BY DEF Raised
<1>3. /\ ManagerType' /\ manager'.at = "RAISED" /\ manager'.why = y /\ Taken' = Taken
      /\ manager'.process = manager.process /\ manager'.pending = manager.pending
      /\ ~Looping'
  BY <1>1, <1>2, ManagerRaises DEF PipesTyped
<1>4. /\ Asked' = Asked /\ (BridgeInit' <=> BridgeInit)
  BY DEF BridgeInit, Slots, Free, Asked
<1>5. PlacesAreEarned'
  BY <1>1, <1>3, <1>4 DEF PlacesAreEarned
<1> QED
  BY <1>1, <1>3, <1>5, OutKeeps DEF PipesTyped, BridgeType

\* What moves rank zero on before the bridge is started.
LEMMA StartsKeep ==
    ASSUME PInv, manager.at \in {"BARRIER", "SCRATCH", "GATHER"},
           NEW a \in {"SCRATCH", "BLOCKED", "GATHER", "START"},
           manager' = [manager EXCEPT !.at = a], bridge' = bridge, slots' = slots,
           told' = told, toBridge' = toBridge, toRunner' = toRunner,
           stdinClosed' = stdinClosed, ledger' = ledger
    PROVE  PInv'
<1>1. PipesTyped /\ PlacesAreEarned
  BY DEF PInv
<1>2. /\ manager'.at = a /\ Taken' = Taken /\ manager'.pending = manager.pending
      /\ manager'.why = manager.why /\ manager'.process = manager.process /\ ManagerType'
  BY <1>1, ManagerMoves DEF PipesTyped, Places
<1>3. /\ Asked' = Asked /\ (BridgeInit' <=> BridgeInit)
  BY DEF BridgeInit, Slots, Free, Asked
<1>4. ~Looping'
  BY <1>2 DEF Looping
<1>5. PlacesAreEarned'
  BY <1>1, <1>2, <1>3, <1>4 DEF PlacesAreEarned
<1> QED
  BY <1>1, <1>2, <1>4, <1>5, OutKeeps DEF PipesTyped, BridgeType

\* The bridge is started: it and rank zero have nothing to tell each other yet.
LEMMA StartsBridgeKeeps ==
    ASSUME PInv, StartsBridge
    PROVE  PInv'
<1>1. PipesTyped /\ PlacesAreEarned
  BY DEF PInv
<1>2. /\ manager.at = "START" /\ manager' = [manager EXCEPT !.at = "LOOP", !.process = TRUE]
      /\ bridge' = bridge /\ slots' = slots /\ told' = told /\ toBridge' = toBridge
      /\ toRunner' = toRunner /\ stdinClosed' = stdinClosed /\ ledger' = ledger
  BY DEF StartsBridge, bridgeVars
<1>3. BridgeInit /\ ledger = <<>> /\ Taken = 0 /\ manager.pending = {} /\ manager.why = ""
  BY <1>1, <1>2 DEF PlacesAreEarned
<1>4. /\ manager'.at = "LOOP" /\ Taken' = 0 /\ manager'.pending = {}
      /\ manager'.why = "" /\ manager'.process = TRUE /\ ManagerType'
  <2>1. /\ manager'.at = "LOOP" /\ Taken' = Taken /\ manager'.pending = manager.pending
        /\ manager'.why = manager.why /\ manager'.process = TRUE
    BY <1>1, <1>2 DEF PipesTyped, ManagerType, Taken
  <2>2. ManagerType'
    BY <1>1, <1>2 DEF PipesTyped, ManagerType, Ids, Ranks
  <2> QED
    BY <1>3, <2>1, <2>2
<1>5. PipesTyped'
  BY <1>1, <1>2, <1>4 DEF PipesTyped, BridgeType, Entry, Ids, Slots, Line, Ranks
<1>6. /\ Asked' = 0 /\ Asked = 0 /\ bridge.at = "LOOP" /\ toBridge = <<>>
      /\ toRunner = <<>> /\ told = <<>>
  BY <1>2, <1>3 DEF BridgeInit, Asked
<1>7. Len(<<>>) = 0
  OBVIOUS
<1>8. Len(toRunner) = 0 /\ Len(toBridge) = 0 /\ Len(ledger) = 0
  BY <1>3, <1>6, <1>7, Zenon
<1>9. Looping' /\ LedgerIds' = LedgerIds
  BY <1>2, <1>4 DEF Looping, LedgerIds
<1>10. RowsAreSound' /\ TellsFollowRows' /\ SlotsAreDue'
  <2>1. Asked' = Asked /\ Taken' = Taken
    BY <1>3, <1>4, <1>6
  <2> QED
    BY <1>2, <2>1, RowsKept, RunTellsKept, RunSlotsKept DEF PInv
<1>11. CandidatesAreDue'
  <2>1. PendingIds' = {}
    BY <1>4 DEF PendingIds
  <2>2. Cardinality(manager'.pending) = 0
    BY <1>4, FS_EmptySet
  <2>3. \A i \in 0..(0 - 1) : FALSE
    OBVIOUS
  <2>4. Cardinality(manager'.pending) = Taken' - Len(ledger')
    <3>1. Taken' - Len(ledger') = 0 - 0
      BY <1>2, <1>4, <1>8, Zenon
    <3> QED
      BY <2>2, <3>1
  <2>5. PendingIds' = (0..(Taken' - 1)) \ LedgerIds'
    BY <1>4, <2>1, <2>3
  <2> QED
    BY <1>4, <2>1, <2>4, <2>5 DEF CandidatesAreDue
<1>12. LinesAreInStep'
  <2>1. Asked' - Taken' = 0 /\ Asked' - Taken' + 1 = 1
    <3>1. Asked' - Taken' = 0 - 0 /\ Asked' - Taken' + 1 = 0 - 0 + 1
      BY <1>4, <1>6, Zenon
    <3>2. 0 - 0 = 0 /\ 0 - 0 + 1 = 1
      OBVIOUS
    <3> QED
      BY <3>1, <3>2, Zenon
  <2>2. Len(toRunner') = 0
    BY <1>2, <1>8
  <2>3. ~LastIsWait' /\ ~LastIsDone'
    <3>1. Len(toRunner') # Asked' - Taken' + 1
      BY <2>1, <2>2
    <3> QED
      BY <3>1 DEF LastIsWait, LastIsDone
  <2>4. \A i \in 1..(Asked' - Taken') : FALSE
    <3>1. \A i \in 1..0 : FALSE
      OBVIOUS
    <3> QED
      BY <2>1, <3>1, Zenon
  <2> QED
    BY <1>2, <1>6, <2>1, <2>2, <2>3, <2>4 DEF LinesAreInStep
<1>13. AsksTakeTurns'
  <2>1. toBridge' = <<>> /\ manager'.at = "LOOP" /\ Len(toBridge') = 0
    BY <1>2, <1>4, <1>6, <1>8
  <2>2. ~(Len(toBridge') >= 2)
    BY <2>1
  <2> QED
    BY <2>1, <2>2 DEF AsksTakeTurns
<1>14. PlacesAreEarned'
  BY <1>2, <1>4, <1>6, <1>9 DEF PlacesAreEarned
<1> QED
  BY <1>5, <1>10, <1>11, <1>12, <1>13, <1>14 DEF PInv

\* The loop is left because the bridge has ended its output, or cannot be written to.
LEMMA EndOfOutputKeepsPipes ==
    ASSUME PInv, EndOfOutput
    PROVE  PInv'
<1>1. PipesTyped /\ PlacesAreEarned
  BY DEF PInv
<1>2. /\ manager.at = "LOOP" /\ manager' = [manager EXCEPT !.at = "CLOSE", !.why = "EOF"]
      /\ bridge' = bridge /\ slots' = slots /\ told' = told /\ toBridge' = toBridge
      /\ toRunner' = toRunner /\ stdinClosed' = stdinClosed /\ ledger' = ledger
  BY DEF EndOfOutput, bridgeVars
<1>3. /\ ManagerType' /\ manager'.at = "CLOSE" /\ manager'.why = "EOF" /\ Taken' = Taken
      /\ manager'.process = manager.process /\ manager'.pending = manager.pending
      /\ ~Looping'
  BY <1>1, <1>2, ManagerRaises DEF PipesTyped
<1>4. manager.process /\ Asked' = Asked
  BY <1>1, <1>2 DEF PlacesAreEarned, Looping, Asked
<1>5. PlacesAreEarned'
  BY <1>1, <1>2, <1>3, <1>4 DEF PlacesAreEarned
<1> QED
  BY <1>1, <1>2, <1>3, <1>5, OutKeeps DEF PipesTyped, BridgeType

\* The same of a result that is received and cannot be passed on.
LEMMA BrokenPipeKeepsPipes ==
    ASSUME PInv, NEW res, BrokenPipe(res), res.rank \in Ranks
    PROVE  PInv'
<1>1. PipesTyped /\ PlacesAreEarned
  BY DEF PInv
<1>2. /\ manager.at = "COMPLETE"
      /\ manager' = [Received(res) EXCEPT !.at = "CLOSE", !.why = "BROKEN_PIPE"]
      /\ bridge' = bridge /\ slots' = slots /\ told' = told /\ toBridge' = toBridge
      /\ toRunner' = toRunner /\ stdinClosed' = stdinClosed /\ ledger' = ledger
  BY DEF BrokenPipe, bridgeVars
<1>3. PICK ps, free : /\ ps = {q \in manager.pending : q.id # res.id}
                      /\ free = manager.idle \cup {res.rank}
  OBVIOUS
<1>4. manager' = [manager EXCEPT !.at = "CLOSE", !.pending = ps, !.idle = free,
                                 !.why = "BROKEN_PIPE"]
  BY <1>1, <1>2, <1>3 DEF Received, PipesTyped, ManagerType
<1>5. /\ ps \in SUBSET [id : Ids, point : 1..Budget] /\ free \in SUBSET Ranks
      /\ ps \subseteq manager.pending
  BY <1>1, <1>3 DEF PipesTyped, ManagerType
<1>6. /\ manager'.at = "CLOSE" /\ Taken' = Taken /\ manager'.pending = ps
      /\ manager'.why = "BROKEN_PIPE" /\ manager'.process = manager.process
  BY <1>1, <1>4 DEF PipesTyped, ManagerType, Taken
<1>7. ManagerType'
  BY <1>1, <1>4, <1>5 DEF PipesTyped, ManagerType, Ranks, Ids
<1>8. manager.process /\ Asked' = Asked /\ ~Looping'
  BY <1>1, <1>2, <1>6 DEF PlacesAreEarned, Looping, Asked
<1>9. PlacesAreEarned'
  BY <1>1, <1>2, <1>6, <1>8 DEF PlacesAreEarned
<1> QED
  BY <1>1, <1>2, <1>5, <1>6, <1>7, <1>8, <1>9, OutKeeps DEF PipesTyped, BridgeType

\* The bridge says that it is done, and then the ledger has every candidate.
LEMMA TakesDoneKeepsPipes ==
    ASSUME PInv, TakesDone
    PROVE  PInv'
<1>1. PipesTyped /\ RowsAreSound /\ CandidatesAreDue /\ LinesAreInStep /\ PlacesAreEarned
  BY DEF PInv
<1>2. /\ manager.at = "LOOP" /\ manager.pending = {} /\ NextLineIs("DONE")
      /\ manager' = [manager EXCEPT !.at = "CLOSE"] /\ toRunner' = Tail(toRunner)
      /\ bridge' = bridge /\ slots' = slots /\ told' = told /\ toBridge' = toBridge
      /\ stdinClosed' = stdinClosed /\ ledger' = ledger
  BY DEF TakesDone
<1>3. Looping /\ manager.process /\ manager.why = ""
  BY <1>1, <1>2 DEF Looping, PlacesAreEarned
<1>4. Taken = Asked /\ LastIsDone /\ toRunner # <<>>
  BY <1>2, <1>3, RunHeadTells DEF NextLineIs
<1>5. bridge.at = "EXITED" /\ Len(told) = Budget /\ Asked = Budget
  BY <1>1, <1>3, <1>4 DEF LinesAreInStep, PlacesAreEarned
<1>6. /\ manager'.at = "CLOSE" /\ Taken' = Taken /\ manager'.pending = manager.pending
      /\ manager'.why = manager.why /\ manager'.process = manager.process /\ ManagerType'
  BY <1>1, <1>2, ManagerMoves DEF PipesTyped, Places
<1>7. ~Looping' /\ Asked' = Asked
  BY <1>2, <1>6 DEF Looping, Asked
<1>8. toRunner' \in Seq(Line)
  BY <1>2, <1>3, <1>4, RunHeadOfLines
<1>9. LedgerIds = Ids
  <2>1. PendingIds = {}
    BY <1>2 DEF PendingIds
  <2>2. {} = (0..(Taken - 1)) \ LedgerIds
    BY <1>1, <1>3, <2>1 DEF CandidatesAreDue
  <2>3. Ids \subseteq LedgerIds
    BY <1>4, <1>5, <2>2 DEF Ids
  <2>4. LedgerIds \subseteq Ids
    <3>1. ledger \in Seq(Entry)
      BY <1>1 DEF PipesTyped
    <3>2. \A i \in DOMAIN ledger : ledger[i] \in Entry
      BY <3>1, LenProperties, ElementOfSeq
    <3> QED
      BY <3>2 DEF Entry, LedgerIds
  <2> QED
    BY <2>3, <2>4
<1>10. LedgerIds' = Ids
  BY <1>2, <1>9 DEF LedgerIds
<1>11. PlacesAreEarned'
  BY <1>1, <1>2, <1>3, <1>5, <1>6, <1>7, <1>10 DEF PlacesAreEarned
<1> QED
  BY <1>1, <1>2, <1>6, <1>7, <1>8, <1>11, OutKeeps DEF PipesTyped, BridgeType

\* The input of the bridge is closed.
LEMMA ClosesStdinKeepsPipes ==
    ASSUME PInv, ClosesStdin
    PROVE  PInv'
<1>1. PipesTyped /\ PlacesAreEarned
  BY DEF PInv
<1>2. PICK a : a = IF manager.why = "BROKEN_PIPE" THEN "RAISED" ELSE "REAP"
  OBVIOUS
<1>3. /\ manager.at = "CLOSE" /\ manager' = [manager EXCEPT !.at = a]
      /\ bridge' = bridge /\ slots' = slots /\ told' = told /\ toBridge' = toBridge
      /\ toRunner' = toRunner /\ stdinClosed' = TRUE /\ ledger' = ledger
  BY <1>2 DEF ClosesStdin
<1>4. a \in {"RAISED", "REAP"}
  BY <1>2
<1>5. /\ manager'.at = a /\ Taken' = Taken /\ manager'.pending = manager.pending
      /\ manager'.why = manager.why /\ manager'.process = manager.process /\ ManagerType'
  BY <1>1, <1>3, <1>4, ManagerMoves DEF PipesTyped, Places
<1>6. /\ ~Looping' /\ ~Looping /\ Asked' = Asked /\ LedgerIds' = LedgerIds
      /\ manager.process
  BY <1>1, <1>3, <1>4, <1>5 DEF Looping, Asked, LedgerIds, PlacesAreEarned
<1>7. PlacesAreEarned'
  BY <1>1, <1>3, <1>4, <1>5, <1>6 DEF PlacesAreEarned
<1> QED
  BY <1>1, <1>3, <1>5, <1>6, <1>7, OutKeeps DEF PipesTyped, BridgeType

\* The bridge has ended and rank zero judges its run.
LEMMA ReapsKeepsPipes ==
    ASSUME PInv, ReapsAndStops
    PROVE  PInv'
<1>1. PipesTyped /\ PlacesAreEarned
  BY DEF PInv
<1>2. PICK a : a = IF /\ manager.why = "" /\ bridge.at = "EXITED"
                      /\ manager.dispatched = Budget /\ Len(ledger) = Budget
                   THEN "DOCUMENT" ELSE "RAISED"
  OBVIOUS
<1>3. /\ manager.at = "REAP" /\ manager' = [manager EXCEPT !.at = a]
      /\ bridge' = bridge /\ slots' = slots /\ told' = told /\ toBridge' = toBridge
      /\ toRunner' = toRunner /\ stdinClosed' = stdinClosed /\ ledger' = ledger
  BY <1>2 DEF ReapsAndStops, bridgeVars
<1>4. /\ a \in {"RAISED", "DOCUMENT"}
      /\ a = "DOCUMENT" => /\ manager.why = "" /\ bridge.at = "EXITED"
                           /\ Taken = Budget /\ Len(ledger) = Budget
  BY <1>2 DEF Taken
<1>5. /\ manager'.at = a /\ Taken' = Taken /\ manager'.pending = manager.pending
      /\ manager'.why = manager.why /\ manager'.process = manager.process /\ ManagerType'
  BY <1>1, <1>3, <1>4, ManagerMoves DEF PipesTyped, Places
<1>6. /\ ~Looping' /\ ~Looping /\ Asked' = Asked /\ LedgerIds' = LedgerIds
      /\ manager.process
  BY <1>1, <1>3, <1>4, <1>5 DEF Looping, Asked, LedgerIds, PlacesAreEarned
<1>7. PlacesAreEarned'
  BY <1>1, <1>3, <1>4, <1>5, <1>6 DEF PlacesAreEarned
<1> QED
  BY <1>1, <1>3, <1>5, <1>6, <1>7, OutKeeps DEF PipesTyped, BridgeType

\* The document is written.
LEMMA DocumentsKeepsPipes ==
    ASSUME PInv, Documents
    PROVE  PInv'
<1>1. PipesTyped /\ PlacesAreEarned
  BY DEF PInv
<1>2. PICK pin \in BOOLEAN :
      /\ manager.at = "DOCUMENT" /\ manager' = [manager EXCEPT !.at = "WRITTEN", !.pinned = pin]
      /\ bridge' = bridge /\ slots' = slots /\ told' = told /\ toBridge' = toBridge
      /\ toRunner' = toRunner /\ stdinClosed' = stdinClosed /\ ledger' = ledger
  BY DEF Documents, bridgeVars
<1>3. /\ manager'.at = "WRITTEN" /\ Taken' = Taken /\ manager'.pending = manager.pending
      /\ manager'.why = manager.why /\ manager'.process = manager.process
  BY <1>1, <1>2 DEF PipesTyped, ManagerType, Taken
<1>4. ManagerType'
  BY <1>1, <1>2 DEF PipesTyped, ManagerType, Ranks, Ids
<1>5. ~Looping' /\ ~Looping /\ Asked' = Asked /\ LedgerIds' = LedgerIds
  BY <1>2, <1>3 DEF Looping, Asked, LedgerIds
<1>6. PlacesAreEarned'
  BY <1>1, <1>2, <1>3, <1>5 DEF PlacesAreEarned
<1> QED
  BY <1>1, <1>2, <1>3, <1>4, <1>5, <1>6, OutKeeps DEF PipesTyped, BridgeType

\* No step of rank zero disturbs the invariant of the pipes, if the results it receives
\* are values of their points or failures.
LEMMA ManagerKeepsPipes ==
    ASSUME PInv, Manager,
           \A r \in results : r.rank \in Ranks /\ r.answer \in {0, Point(r.id)}
    PROVE  PInv'
<1>1. CASE Barrier
  <2>1. /\ manager.at = "BARRIER"
        /\ \E at \in {"SCRATCH", "BLOCKED"} : manager' = [manager EXCEPT !.at = at]
        /\ bridge' = bridge /\ slots' = slots /\ told' = told /\ toBridge' = toBridge
        /\ toRunner' = toRunner /\ stdinClosed' = stdinClosed /\ ledger' = ledger
    BY <1>1 DEF Barrier, bridgeVars
  <2> QED
    BY <2>1, StartsKeep
<1>2. CASE MakesScratch
  <2>1. /\ manager.at = "SCRATCH"
        /\ manager' = [manager EXCEPT !.at = "GATHER"] \/ manager' = Raised("SCRATCH")
        /\ bridge' = bridge /\ slots' = slots /\ told' = told /\ toBridge' = toBridge
        /\ toRunner' = toRunner /\ stdinClosed' = stdinClosed /\ ledger' = ledger
    BY <1>2 DEF MakesScratch, bridgeVars
  <2> QED
    BY <2>1, StartsKeep, RaisesKeep
<1>3. CASE StartsBridge
  BY <1>3, StartsBridgeKeeps
<1>4. CASE StartFails
  <2>1. /\ manager.at = "START"
        /\ manager' = Raised("STDERR") \/ manager' = Raised("POPEN")
        /\ bridge' = bridge /\ slots' = slots /\ told' = told /\ toBridge' = toBridge
        /\ toRunner' = toRunner /\ stdinClosed' = stdinClosed /\ ledger' = ledger
    BY <1>4 DEF StartFails, bridgeVars
  <2> QED
    BY <2>1, RaisesKeep
<1>5. CASE TakesAsk
  BY <1>5, TakesAskKeeps
<1>6. CASE TakesWait \/ AwaitsResult
  BY <1>6, TurnsKeep
<1>7. CASE EndOfOutput
  BY <1>7, EndOfOutputKeepsPipes
<1>8. CASE TakesDone
  BY <1>8, TakesDoneKeepsPipes
<1>9. ASSUME NEW r \in results, CompletesOne(r) PROVE PInv'
  BY <1>9, CompletesOneKeeps
<1>10. ASSUME NEW r \in results, BrokenPipe(r) PROVE PInv'
  BY <1>10, BrokenPipeKeepsPipes
<1>11. CASE ClosesStdin
  BY <1>11, ClosesStdinKeepsPipes
<1>12. CASE ReapsAndStops
  BY <1>12, ReapsKeepsPipes
<1>13. CASE Documents
  BY <1>13, DocumentsKeepsPipes
<1>14. CASE DocumentFails
  <2>1. /\ manager.at = "DOCUMENT" /\ manager' = Raised("DOCUMENT")
        /\ bridge' = bridge /\ slots' = slots /\ told' = told /\ toBridge' = toBridge
        /\ toRunner' = toRunner /\ stdinClosed' = stdinClosed /\ ledger' = ledger
    BY <1>14 DEF DocumentFails, bridgeVars
  <2> QED
    BY <2>1, RaisesKeep
<1> QED
  BY <1>1, <1>2, <1>3, <1>4, <1>5, <1>6, <1>7, <1>8, <1>9, <1>10, <1>11, <1>12, <1>13,
     <1>14 DEF Manager

\* Nor does a step of the other ranks, or the gathering of all.
LEMMA RanksKeepPipes ==
    ASSUME PInv, AllGather \/ \E w \in Ranks : Worker(w)
    PROVE  PInv'
<1>1. CASE AllGather
  <2>1. /\ manager.at = "GATHER"
        /\ manager' = [manager EXCEPT !.at = "START"] \/ manager' = Raised("INITIALIZATION")
        /\ bridge' = bridge /\ slots' = slots /\ told' = told /\ toBridge' = toBridge
        /\ toRunner' = toRunner /\ stdinClosed' = stdinClosed /\ ledger' = ledger
    BY <1>1 DEF AllGather, bridgeVars
  <2> QED
    BY <2>1, StartsKeep, RaisesKeep
<1>2. CASE \E w \in Ranks : Worker(w)
  <2>1. PICK w \in Ranks : Worker(w)
    BY <1>2
  <2>2. /\ manager' = manager /\ bridge' = bridge /\ slots' = slots /\ told' = told
        /\ toBridge' = toBridge /\ toRunner' = toRunner /\ stdinClosed' = stdinClosed
        /\ ledger' = ledger
    BY <2>1, Zenon DEF Worker, Builds, TakesWork, Leaves, Evaluates, TakesStop, bridgeVars
  <2> QED
    BY <2>2, PipesKept
<1> QED
  BY <1>1, <1>2

\* At first there is nothing in any pipe.
LEMMA InitiallyPipes == RunInit => PInv
<1> SUFFICES ASSUME RunInit PROVE PInv
  OBVIOUS
<1>1. /\ BridgeInit /\ ledger = <<>>
      /\ manager = [at |-> "BARRIER", process |-> FALSE, dispatched |-> 0, pending |-> {},
                    idle |-> Ranks, why |-> "", pinned |-> FALSE]
  BY DEF RunInit
<1>2. /\ bridge = [at |-> "LOOP", dispatched |-> 0, completed |-> 0, why |-> ""]
      /\ slots = [s \in Slots |-> Free]
      /\ toRunner = <<>> /\ toBridge = <<>> /\ stdinClosed = FALSE /\ told = <<>>
  BY <1>1 DEF BridgeInit
<1>3. Budget \in Nat \ {0} /\ Workers \in Nat \ {0} /\ 0 \in 0..Budget
  BY BridgeAssumption
<1>4. /\ manager.at = "BARRIER" /\ manager.process = FALSE /\ Taken = 0
      /\ manager.pending = {} /\ manager.why = "" /\ bridge.at = "LOOP"
  BY <1>1, <1>2 DEF Taken
<1>5. BridgeType
  <2>1. /\ bridge \in [at : {"LOOP", "READ", "EXITED", "ABORTED"}, dispatched : 0..Budget,
                       completed : 0..Budget, why : {"", "ASK", "TELL", "EOF"}]
        /\ stdinClosed \in BOOLEAN
    BY <1>2, <1>3
  <2>2. Free \in [used : BOOLEAN, id : Ids \cup {-1}, point : 0..Budget]
    BY <1>3 DEF Free
  <2>3. slots \in [Slots -> [used : BOOLEAN, id : Ids \cup {-1}, point : 0..Budget]]
    BY <1>2, <2>2
  <2> QED
    BY <2>1, <2>3 DEF BridgeType
<1>6. ManagerType
  BY <1>1, <1>3, Zenon DEF ManagerType
<1>8. /\ Len(ledger) = 0 /\ Len(told) = 0 /\ Len(toBridge) = 0
      /\ DOMAIN ledger = {} /\ DOMAIN told = {} /\ DOMAIN toBridge = {}
      /\ told \in Seq([point : 1..Budget, answer : 0..Budget]) /\ ledger \in Seq(Entry)
      /\ toBridge \in Seq([id : Ids, answer : 0..Budget]) /\ toRunner \in Seq(Line)
  <2>1. \A S : <<>> \in Seq(S) /\ Len(<<>>) = 0
    BY EmptySeq
  <2>2. DOMAIN <<>> = {}
    OBVIOUS
  <2> QED
    BY <1>1, <1>2, <2>1, <2>2, Zenon
<1>7. PipesTyped
  BY <1>5, <1>6, <1>8, Zenon DEF PipesTyped
<1>9. RowsAreSound
  <2>1. Asked = 0 /\ Taken = 0
    BY <1>2, <1>4, Zenon DEF Asked
  <2>2. 0 <= 0
    OBVIOUS
  <2> QED
    BY <1>8, <2>1, <2>2, Zenon DEF RowsAreSound
<1>10. TellsFollowRows
  BY <1>8 DEF TellsFollowRows
<1>11. InUse = {}
  BY <1>2 DEF InUse, Free
<1>12. UsedIds = {} /\ PendingCount = 0
  BY <1>11, FS_EmptySet DEF UsedIds, PendingCount
<1>13. SlotsAreDue
  <2>1. Asked = 0 /\ bridge.completed = 0
    BY <1>2, Zenon DEF Asked
  <2>2. 0..(0 - 1) = {} /\ 1..0 = {} /\ 0 - 0 = 0
    OBVIOUS
  <2>3. ToldRowIds = {}
    BY <1>8, <2>2, Zenon DEF ToldRowIds
  <2> QED
    BY <1>8, <1>11, <1>12, <2>1, <2>2, <2>3, Zenon DEF SlotsAreDue
<1>14. PendingIds = {} /\ ~Looping
  BY <1>4, Zenon DEF PendingIds, Looping
<1>15. CandidatesAreDue
  BY <1>4, <1>14, Zenon DEF CandidatesAreDue
<1>16. PlacesAreEarned
  BY <1>1, <1>4, <1>14, Zenon DEF PlacesAreEarned
<1> QED
  BY <1>7, <1>9, <1>10, <1>13, <1>14, <1>15, <1>16, Zenon
     DEF PInv, LinesAreInStep, AsksTakeTurns

-----------------------------------------------------------------------------
\* The messages to a worker rank.
Order == [tag : {"WORK"}, id : Ids, point : 1..Budget] \cup {STOP}

HandsTyped ==
    /\ rank \in [Ranks -> [at : {"BUILDING", "BUILT", "UNBUILT", "READY", "BUSY", "ENDED",
                                "LEFT"}, id : Ids \cup {-1}, point : 0..Budget]]
    /\ work \in [Ranks -> Seq(Order)]
    /\ results \subseteq [rank : Ranks, id : Ids, answer : 0..Budget]

ResultsOf(w) == {r \in results : r.rank = w}
NoWork(queue) == \A i \in DOMAIN queue : queue[i] = STOP

\* A rank that holds no candidate, and one that holds candidate id: as work on its way,
\* in evaluation, or as a result.
Unoccupied(at, queue, sent) == NoWork(queue) /\ sent = {} /\ at \notin {"BUSY", "LEFT"}
Holding(state, queue, sent, id) ==
    \/ /\ 1 \in DOMAIN queue /\ queue[1] = WORK(id, Point(id)) /\ sent = {}
       /\ state.at = "READY" /\ \A i \in DOMAIN queue : i # 1 => queue[i] = STOP
    \/ /\ NoWork(queue) /\ sent = {} /\ state.at \in {"BUSY", "LEFT"}
       /\ state.id = id /\ state.point = Point(id)
    \/ /\ NoWork(queue) /\ state.at \in {"READY", "ENDED"}
       /\ \E r \in sent : sent = {r} /\ r.id = id /\ r.answer \in {0, Point(id)}
Rests(w) == Unoccupied(rank[w].at, work[w], ResultsOf(w))
Holds(w, id) == Holding(rank[w], work[w], ResultsOf(w), id)

\* The idle ranks hold nothing, every other rank one pending candidate, and every pending
\* candidate is held by one rank.
HandsAreFull ==
    /\ \A w \in manager.idle : Rests(w)
    /\ \A w \in Ranks \ manager.idle : \E id \in PendingIds : Holds(w, id)
    /\ \A id \in PendingIds : \E w \in Ranks \ manager.idle : Holds(w, id)
    /\ \A w, v \in Ranks \ manager.idle : \A id \in PendingIds :
          Holds(w, id) /\ Holds(v, id) => w = v

\* Until the loop is left no rank is told to stop, and before it none has work.
RanksAreReady ==
    /\ manager.at \in {"START", "LOOP", "COMPLETE"} =>
          \A w \in Ranks : /\ rank[w].at \in {"READY", "BUSY", "LEFT"}
                           /\ \A i \in DOMAIN work[w] : work[w][i] # STOP
    /\ ~manager.process => manager.idle = Ranks
    /\ manager.at \in {"BARRIER", "BLOCKED", "SCRATCH", "GATHER"} =>
          \A w \in Ranks : rank[w].at \in {"BUILDING", "BUILT", "UNBUILT"} /\ work[w] = <<>>

HInv == HandsTyped /\ HandsAreFull /\ RanksAreReady
-----------------------------------------------------------------------------
\* Work is no stop.
LEMMA WorkIsNoStop ==
    ASSUME NEW i, NEW p
    PROVE  /\ WORK(i, p) # STOP /\ WORK(i, p).tag = "WORK" /\ STOP.tag = "STOP"
           /\ WORK(i, p).id = i /\ WORK(i, p).point = p
<1>1. WORK(i, p).tag = "WORK" /\ WORK(i, p).id = i /\ WORK(i, p).point = p
  BY DEF WORK
<1>2. STOP.tag = "STOP"
  BY DEF STOP
<1> QED
  BY <1>1, <1>2

\* A rank holds one candidate at most, and none when it rests.
LEMMA HeldOne ==
    ASSUME NEW s, NEW q, NEW sent, NEW i, Holding(s, q, sent, i)
    PROVE  /\ ~Unoccupied(s.at, q, sent)
           /\ \A j : Holding(s, q, sent, j) => j = i
<1>1. ~Unoccupied(s.at, q, sent)
  BY WorkIsNoStop DEF Holding, Unoccupied, NoWork
<1>2. ASSUME NEW j, Holding(s, q, sent, j) PROVE j = i
  <2>1. CASE 1 \in DOMAIN q /\ q[1] = WORK(i, Point(i)) /\ sent = {} /\ s.at = "READY"
    <3>1. ~NoWork(q)
      BY <2>1, WorkIsNoStop DEF NoWork
    <3>2. q[1] = WORK(j, Point(j))
      BY <1>2, <3>1 DEF Holding
    <3>3. WORK(i, Point(i)).id = i /\ WORK(j, Point(j)).id = j
      BY WorkIsNoStop
    <3>4. WORK(i, Point(i)) = WORK(j, Point(j))
      BY <2>1, <3>2, Zenon
    <3> QED
      BY <3>3, <3>4, Zenon
  <2>2. CASE NoWork(q) /\ sent = {} /\ s.at \in {"BUSY", "LEFT"} /\ s.id = i
    <3>1. 1 \in DOMAIN q => q[1] # WORK(j, Point(j))
      BY <2>2, WorkIsNoStop DEF NoWork
    <3>2. \A r \in sent : FALSE
      BY <2>2
    <3>3. s.id = j
      BY <1>2, <3>1, <3>2, Zenon DEF Holding
    <3> QED
      BY <2>2, <3>3
  <2>3. CASE NoWork(q) /\ \E r \in sent : sent = {r} /\ r.id = i
    <3>1. sent # {}
      BY <2>3
    <3>2. \E r \in sent : sent = {r} /\ r.id = j
      BY <1>2, <3>1 DEF Holding
    <3> QED
      BY <2>3, <3>2
  <2> QED
    BY <2>1, <2>2, <2>3 DEF Holding
<1> QED
  BY <1>1, <1>2

\* A stop at the end of the queue changes nothing of it.
LEMMA StopAppended ==
    ASSUME NEW q \in Seq(Order)
    PROVE  /\ Append(q, STOP) \in Seq(Order)
           /\ \A at, sent : Unoccupied(at, q, sent) => Unoccupied(at, Append(q, STOP), sent)
           /\ \A s, sent, id : Holding(s, q, sent, id) => Holding(s, Append(q, STOP), sent, id)
<1>1. STOP \in Order
  BY DEF Order
<1>2. PICK S : S = Order
  OBVIOUS
<1>3. /\ Append(q, STOP) \in Seq(Order)
      /\ DOMAIN q = 1..Len(q) /\ Len(q) \in Nat
      /\ DOMAIN Append(q, STOP) = 1..(Len(q) + 1)
      /\ \A i \in 1..Len(q) : Append(q, STOP)[i] = q[i]
      /\ Append(q, STOP)[Len(q) + 1] = STOP
  <2>1. q \in Seq(S) /\ STOP \in S
    BY <1>1, <1>2
  <2> QED
    BY <1>2, <2>1, AppendProperties, LenProperties
<1>4. PICK t : t = Append(q, STOP)
  OBVIOUS
<1>5. /\ \A i \in DOMAIN t : (i \in DOMAIN q /\ t[i] = q[i]) \/ t[i] = STOP
      /\ \A i \in DOMAIN q : i \in DOMAIN t /\ t[i] = q[i]
  <2>1. /\ DOMAIN q = 1..Len(q) /\ Len(q) \in Nat /\ DOMAIN t = 1..(Len(q) + 1)
        /\ \A i \in 1..Len(q) : t[i] = q[i]
        /\ t[Len(q) + 1] = STOP
    BY <1>3, <1>4
  <2> QED
    BY <2>1
<1>6. NoWork(q) => NoWork(t)
  BY <1>5 DEF NoWork
<1>7. \A at, sent : Unoccupied(at, q, sent) => Unoccupied(at, t, sent)
  BY <1>6 DEF Unoccupied
<1>8. ASSUME NEW s, NEW sent, NEW id, Holding(s, q, sent, id)
      PROVE  Holding(s, t, sent, id)
  <2>1. /\ 1 \in DOMAIN q /\ q[1] = WORK(id, Point(id))
        /\ \A i \in DOMAIN q : i # 1 => q[i] = STOP
        => /\ 1 \in DOMAIN t /\ t[1] = WORK(id, Point(id))
           /\ \A i \in DOMAIN t : i # 1 => t[i] = STOP
    BY <1>5, Zenon
  <2> QED
    BY <1>6, <1>8, <2>1, Zenon DEF Holding
<1> QED
  BY <1>3, <1>4, <1>7, <1>8, Zenon

\* What is left of a queue whose first message was taken.
LEMMA QueueTaken ==
    ASSUME NEW q \in Seq(Order), q # <<>>
    PROVE  /\ Tail(q) \in Seq(Order) /\ 1 \in DOMAIN q /\ Head(q) = q[1] /\ q[1] \in Order
           /\ \A i \in DOMAIN Tail(q) : /\ i + 1 \in DOMAIN q /\ i + 1 # 1
                                        /\ Tail(q)[i] = q[i + 1]
           /\ (\A i \in DOMAIN q : i # 1 => q[i] = STOP) => NoWork(Tail(q))
<1>1. PICK S : S = Order
  OBVIOUS
<1>2. /\ Tail(q) \in Seq(Order) /\ Head(q) = q[1]
      /\ Len(Tail(q)) = Len(q) - 1 /\ Len(q) \in Nat /\ Len(q) # 0
      /\ \A i \in 1..Len(Tail(q)) : Tail(q)[i] = q[i + 1]
      /\ DOMAIN q = 1..Len(q) /\ DOMAIN Tail(q) = 1..Len(Tail(q))
  <2>1. q \in Seq(S)
    BY <1>1
  <2>2. Tail(q) \in Seq(S) /\ Len(q) \in Nat /\ Len(q) # 0
    BY <2>1, HeadTailProperties, EmptySeq, LenProperties
  <2> QED
    BY <1>1, <2>1, <2>2, HeadTailProperties, LenProperties
<1>3. 1 \in DOMAIN q /\ \A i \in DOMAIN Tail(q) : i + 1 \in DOMAIN q /\ i + 1 # 1
  BY <1>2
<1>4. q[1] \in Order
  BY <1>1, <1>3, ElementOfSeq, LenProperties
<1>5. (\A i \in DOMAIN q : i # 1 => q[i] = STOP) => NoWork(Tail(q))
  BY <1>2, <1>3 DEF NoWork
<1> QED
  BY <1>2, <1>3, <1>4, <1>5

\* A step that leaves the manager's lists alone and lets every rank keep what it holds.
LEMMA HandsKept ==
    ASSUME HandsAreFull, manager'.idle = manager.idle, PendingIds' = PendingIds,
           \A w \in manager.idle : Rests(w) => Rests(w)',
           \A w \in Ranks \ manager.idle, id \in PendingIds : Holds(w, id) => Holds(w, id)'
    PROVE  HandsAreFull'
<1>1. Ranks' = Ranks
  BY DEF Ranks
<1>2. \A w \in manager'.idle : Rests(w)'
  BY DEF HandsAreFull
<1>3. /\ \A w \in Ranks \ manager.idle : \E id \in PendingIds : Holds(w, id)'
      /\ \A id \in PendingIds : \E w \in Ranks \ manager.idle : Holds(w, id)'
  BY DEF HandsAreFull
<1>4. ASSUME NEW w \in Ranks \ manager.idle, NEW v \in Ranks \ manager.idle,
             NEW id \in PendingIds, Holds(w, id)', Holds(v, id)'
      PROVE  w = v
  <2>1. PICK i, j \in PendingIds : Holds(w, i) /\ Holds(v, j)
    BY DEF HandsAreFull
  <2>2. Holds(w, i)' /\ Holds(v, j)'
    BY <2>1
  <2>3. i = id /\ j = id
    BY <1>4, <2>2, HeldOne DEF Holds
  <2> QED
    BY <2>1, <2>3 DEF HandsAreFull
<1> QED
  BY <1>1, <1>2, <1>3, <1>4 DEF HandsAreFull

\* A step of one worker rank leaves the hands of the others alone.
LEMMA OneRankMoves ==
    ASSUME HandsAreFull, manager' = manager, manager.idle \subseteq Ranks, NEW w \in Ranks,
           \A v \in Ranks \ {w} : /\ rank'[v] = rank[v] /\ work'[v] = work[v]
                                  /\ ResultsOf(v)' = ResultsOf(v),
           Rests(w) => Rests(w)',
           \A id \in PendingIds : Holds(w, id) => Holds(w, id)'
    PROVE  HandsAreFull'
<1>1. PendingIds' = PendingIds /\ manager'.idle = manager.idle
  BY DEF PendingIds
<1>2. ASSUME NEW v \in manager.idle, Rests(v) PROVE Rests(v)'
  <2>1. CASE v = w
    BY <1>2, <2>1
  <2>2. CASE v # w
    BY <1>2, <2>2 DEF Rests
  <2> QED
    BY <2>1, <2>2
<1>3. ASSUME NEW v \in Ranks \ manager.idle, NEW id \in PendingIds, Holds(v, id)
      PROVE  Holds(v, id)'
  <2>1. CASE v = w
    BY <1>3, <2>1
  <2>2. CASE v # w
    <3>1. /\ rank'[v] = rank[v] /\ work'[v] = work[v] /\ ResultsOf(v)' = ResultsOf(v)
      BY <2>2
    <3> QED
      BY <1>3, <3>1, Zenon DEF Holds
  <2> QED
    BY <2>1, <2>2
<1> QED
  BY <1>1, <1>2, <1>3, HandsKept

\* The same of what the ranks are ready for.
LEMMA OneRankReady ==
    ASSUME RanksAreReady, manager' = manager, NEW w \in Ranks,
           \A v \in Ranks \ {w} : rank'[v] = rank[v] /\ work'[v] = work[v],
           manager.at \in {"START", "LOOP", "COMPLETE"} =>
              /\ rank'[w].at \in {"READY", "BUSY", "LEFT"}
              /\ \A i \in DOMAIN work'[w] : work'[w][i] # STOP,
           manager.at \in {"BARRIER", "BLOCKED", "SCRATCH", "GATHER"} =>
              rank'[w].at \in {"BUILDING", "BUILT", "UNBUILT"} /\ work'[w] = <<>>
    PROVE  RanksAreReady'
<1>1. Ranks' = Ranks
  BY DEF Ranks
<1>2. ASSUME NEW v \in Ranks
      PROVE  /\ manager.at \in {"START", "LOOP", "COMPLETE"} =>
                   /\ rank'[v].at \in {"READY", "BUSY", "LEFT"}
                   /\ \A i \in DOMAIN work'[v] : work'[v][i] # STOP
             /\ manager.at \in {"BARRIER", "BLOCKED", "SCRATCH", "GATHER"} =>
                   rank'[v].at \in {"BUILDING", "BUILT", "UNBUILT"} /\ work'[v] = <<>>
  <2>1. CASE v = w
    BY <2>1
  <2>2. CASE v # w
    <3>1. rank'[v] = rank[v] /\ work'[v] = work[v]
      BY <2>2
    <3> QED
      BY <3>1 DEF RanksAreReady
  <2> QED
    BY <2>1, <2>2
<1> QED
  BY <1>1, <1>2, Zenon DEF RanksAreReady, STOP

\* A rank has built its objective, or not.
LEMMA BuildsKeeps ==
    ASSUME PInv, HInv, NEW w \in Ranks, Builds(w)
    PROVE  HInv'
<1>1. /\ HandsTyped /\ HandsAreFull /\ RanksAreReady /\ manager.idle \subseteq Ranks
  BY DEF HInv, PInv, PipesTyped, ManagerType
<1>2. PICK a \in {"BUILT", "UNBUILT"} : rank' = [rank EXCEPT ![w].at = a]
  BY DEF Builds
<1>3. /\ rank[w].at = "BUILDING" /\ manager' = manager /\ work' = work /\ results' = results
  BY DEF Builds
<1>4. /\ rank'[w].at = a /\ rank'[w].id = rank[w].id /\ rank'[w].point = rank[w].point
      /\ \A v \in Ranks \ {w} : rank'[v] = rank[v]
      /\ DOMAIN rank' = Ranks
  BY <1>1, <1>2 DEF HandsTyped
<1>5. HandsTyped'
  BY <1>1, <1>2, <1>3 DEF HandsTyped, Ranks, Order, Ids, STOP
<1>6. \A v \in Ranks : ResultsOf(v)' = ResultsOf(v)
  BY <1>3 DEF ResultsOf
<1>7. Rests(w) => Rests(w)'
  BY <1>3, <1>4, <1>6 DEF Rests, Unoccupied
<1>8. \A id \in PendingIds : Holds(w, id) => Holds(w, id)'
  BY <1>3 DEF Holds, Holding
<1>9. HandsAreFull'
  BY <1>1, <1>3, <1>4, <1>6, <1>7, <1>8, OneRankMoves
<1>10. RanksAreReady'
  <2>1. manager.at \notin {"START", "LOOP", "COMPLETE"}
    BY <1>1, <1>3 DEF RanksAreReady
  <2>2. manager.at \in {"BARRIER", "BLOCKED", "SCRATCH", "GATHER"} => work[w] = <<>>
    BY <1>1 DEF RanksAreReady
  <2> QED
    BY <1>1, <1>2, <1>3, <1>4, <2>1, <2>2, OneRankReady
<1> QED
  BY <1>5, <1>9, <1>10 DEF HInv

\* A rank whose directory cannot be made leaves with the candidate in its hands.
LEMMA LeavesKeeps ==
    ASSUME PInv, HInv, NEW w \in Ranks, Leaves(w)
    PROVE  HInv'
<1>1. /\ HandsTyped /\ HandsAreFull /\ RanksAreReady /\ manager.idle \subseteq Ranks
  BY DEF HInv, PInv, PipesTyped, ManagerType
<1>2. /\ rank' = [rank EXCEPT ![w].at = "LEFT"]
      /\ rank[w].at = "BUSY" /\ manager' = manager /\ work' = work /\ results' = results
  BY DEF Leaves
<1>3. /\ rank'[w].at = "LEFT" /\ rank'[w].id = rank[w].id /\ rank'[w].point = rank[w].point
      /\ \A v \in Ranks \ {w} : rank'[v] = rank[v]
  BY <1>1, <1>2 DEF HandsTyped
<1>4. HandsTyped'
  BY <1>1, <1>2 DEF HandsTyped, Ranks, Order, Ids, STOP
<1>5. \A v \in Ranks : ResultsOf(v)' = ResultsOf(v)
  BY <1>2 DEF ResultsOf
<1>6. Rests(w) => Rests(w)'
  BY <1>2 DEF Rests, Unoccupied
<1>7. \A id \in PendingIds : Holds(w, id) => Holds(w, id)'
  BY <1>2, <1>3, <1>5 DEF Holds, Holding, NoWork, STOP
<1>8. HandsAreFull'
  BY <1>1, <1>2, <1>3, <1>5, <1>6, <1>7, OneRankMoves
<1>9. RanksAreReady'
  <2>1. manager.at \notin {"BARRIER", "BLOCKED", "SCRATCH", "GATHER"}
    BY <1>1, <1>2 DEF RanksAreReady
  <2>2. manager.at \in {"START", "LOOP", "COMPLETE"} =>
           \A i \in DOMAIN work[w] : work[w][i] # STOP
    BY <1>1 DEF RanksAreReady
  <2> QED
    BY <1>1, <1>2, <1>3, <2>1, <2>2, OneRankReady
<1> QED
  BY <1>4, <1>8, <1>9 DEF HInv

\* A rank has evaluated its candidate, or failed to: it holds the result now.
LEMMA EvaluatesKeeps ==
    ASSUME PInv, HInv, NEW w \in Ranks, Evaluates(w)
    PROVE  HInv'
<1>1. /\ HandsTyped /\ HandsAreFull /\ RanksAreReady /\ manager.idle \subseteq Ranks
      /\ PendingIds \subseteq Ids
  BY RunNumbers DEF HInv, PInv, PipesTyped, ManagerType
<1>0. PICK a \in {rank[w].point, 0} :
         results' = results \cup {[rank |-> w, id |-> rank[w].id, answer |-> a]}
  BY DEF Evaluates
<1>2. PICK r : /\ r = [rank |-> w, id |-> rank[w].id, answer |-> a]
               /\ results' = results \cup {r}
  BY <1>0
<1>3. /\ rank' = [rank EXCEPT ![w].at = "READY"]
      /\ rank[w].at = "BUSY" /\ manager' = manager /\ work' = work
  BY DEF Evaluates
<1>4. /\ rank'[w].at = "READY" /\ rank'[w].id = rank[w].id /\ rank'[w].point = rank[w].point
      /\ \A v \in Ranks \ {w} : rank'[v] = rank[v]
  BY <1>1, <1>3 DEF HandsTyped
<1>5. PICK id \in PendingIds : Holds(w, id)
  <2>1. ~Rests(w)
    BY <1>3 DEF Rests, Unoccupied
  <2> QED
    BY <1>1, <2>1 DEF HandsAreFull
<1>6. /\ NoWork(work[w]) /\ ResultsOf(w) = {} /\ rank[w].id = id /\ rank[w].point = Point(id)
  BY <1>3, <1>5 DEF Holds, Holding
<1>7. HandsTyped'
  <2>1. rank' \in [Ranks -> [at : {"BUILDING", "BUILT", "UNBUILT", "READY", "BUSY", "ENDED",
                                   "LEFT"}, id : Ids \cup {-1}, point : 0..Budget]]
    BY <1>1, <1>3 DEF HandsTyped
  <2>2. /\ rank[w].id \in Ids /\ rank[w].point \in 0..Budget /\ 0 \in 0..Budget
    BY <1>1, <1>6, BridgeAssumption DEF HandsTyped
  <2>3. r \in [rank : Ranks, id : Ids, answer : 0..Budget]
    BY <1>2, <2>2
  <2>4. results' \subseteq [rank : Ranks, id : Ids, answer : 0..Budget]
    BY <1>1, <1>2, <2>3 DEF HandsTyped
  <2> QED
    BY <1>1, <1>3, <2>1, <2>4, Zenon DEF HandsTyped, Ranks, Order, Ids, STOP
<1>8. /\ ResultsOf(w)' = {r} /\ r.id = id /\ r.answer \in {0, Point(id)}
      /\ \A v \in Ranks \ {w} : ResultsOf(v)' = ResultsOf(v)
  <2>1. r.rank = w /\ r.id = id /\ r.answer \in {0, Point(id)}
    BY <1>2, <1>6
  <2>2. ResultsOf(w)' = {r}
    BY <1>2, <1>6, <2>1 DEF ResultsOf
  <2>3. \A v \in Ranks \ {w} : ResultsOf(v)' = ResultsOf(v)
    BY <1>2, <2>1 DEF ResultsOf
  <2> QED
    BY <2>1, <2>2, <2>3
<1>9. Rests(w) => Rests(w)'
  BY <1>3 DEF Rests, Unoccupied
<1>10. ASSUME NEW i \in PendingIds, Holds(w, i) PROVE Holds(w, i)'
  <2>1. i = id
    BY <1>5, <1>10, HeldOne DEF Holds
  <2>2. NoWork(work'[w]) /\ rank'[w].at = "READY"
    BY <1>3, <1>4, <1>6
  <2>3. /\ NoWork(work'[w]) /\ rank'[w].at \in {"READY", "ENDED"}
        /\ \E x \in ResultsOf(w)' : /\ ResultsOf(w)' = {x} /\ x.id = i
                                    /\ x.answer \in {0, Point(i)}
    BY <1>8, <2>1, <2>2
  <2> QED
    BY <2>3, Zenon DEF Holds, Holding, NoWork, STOP
<1>11. HandsAreFull'
  BY <1>1, <1>3, <1>4, <1>8, <1>9, <1>10, OneRankMoves
<1>12. RanksAreReady'
  <2>1. manager.at \notin {"BARRIER", "BLOCKED", "SCRATCH", "GATHER"}
    BY <1>1, <1>3 DEF RanksAreReady
  <2>2. manager.at \in {"START", "LOOP", "COMPLETE"} =>
           \A i \in DOMAIN work[w] : work[w][i] # STOP
    BY <1>1 DEF RanksAreReady
  <2> QED
    BY <1>1, <1>3, <1>4, <2>1, <2>2, OneRankReady
<1> QED
  BY <1>7, <1>11, <1>12 DEF HInv

\* A rank takes the candidate on its way to it.
LEMMA TakesWorkKeeps ==
    ASSUME PInv, HInv, NEW w \in Ranks, TakesWork(w)
    PROVE  HInv'
<1>1. /\ HandsTyped /\ HandsAreFull /\ RanksAreReady /\ manager.idle \subseteq Ranks
      /\ PendingIds \subseteq Ids /\ work[w] \in Seq(Order)
  BY RunNumbers DEF HInv, PInv, PipesTyped, ManagerType, HandsTyped
<1>2. PICK q \in Seq(Order) : q = work[w]
  BY <1>1
<1>3. /\ rank[w].at = "READY" /\ q # <<>> /\ Head(q).tag = "WORK"
      /\ rank' = [rank EXCEPT ![w] = [at |-> "BUSY", id |-> Head(q).id,
                                      point |-> Head(q).point]]
      /\ work' = [work EXCEPT ![w] = Tail(q)]
      /\ manager' = manager /\ results' = results
  BY <1>2 DEF TakesWork
<1>4. /\ Tail(q) \in Seq(Order) /\ 1 \in DOMAIN q /\ Head(q) = q[1] /\ q[1] # STOP
      /\ (\A i \in DOMAIN q : i # 1 => q[i] = STOP) => NoWork(Tail(q))
      /\ \A i \in DOMAIN Tail(q) : \E j \in DOMAIN q : Tail(q)[i] = q[j]
  <2>1. /\ Tail(q) \in Seq(Order) /\ 1 \in DOMAIN q /\ Head(q) = q[1]
        /\ \A i \in DOMAIN Tail(q) : /\ i + 1 \in DOMAIN q /\ i + 1 # 1
                                     /\ Tail(q)[i] = q[i + 1]
        /\ (\A i \in DOMAIN q : i # 1 => q[i] = STOP) => NoWork(Tail(q))
    BY <1>3, QueueTaken
  <2>2. \A i \in DOMAIN Tail(q) : \E j \in DOMAIN q : Tail(q)[i] = q[j]
    BY <2>1, Zenon
  <2>3. STOP.tag = "STOP"
    BY DEF STOP
  <2>4. q[1] # STOP
    BY <1>3, <2>1, <2>3
  <2> QED
    BY <2>1, <2>2, <2>4, Zenon
<1>5. PICK id \in PendingIds : Holds(w, id)
  <2>1. ~Rests(w)
    BY <1>2, <1>4 DEF Rests, Unoccupied, NoWork
  <2> QED
    BY <1>1, <2>1 DEF HandsAreFull
<1>6. /\ q[1] = WORK(id, Point(id)) /\ ResultsOf(w) = {} /\ NoWork(Tail(q))
  <2>1. ~NoWork(q)
    BY <1>4 DEF NoWork
  <2> QED
    BY <1>2, <1>4, <1>5, <2>1 DEF Holds, Holding
<1>7. /\ rank'[w] = [at |-> "BUSY", id |-> id, point |-> Point(id)] /\ work'[w] = Tail(q)
      /\ \A v \in Ranks \ {w} : rank'[v] = rank[v] /\ work'[v] = work[v]
  BY <1>1, <1>3, <1>4, <1>6, WorkIsNoStop DEF HandsTyped
<1>8. /\ rank'[w].at = "BUSY" /\ rank'[w].id = id /\ rank'[w].point = Point(id)
  BY <1>7
<1>9. HandsTyped'
  <2>1. id \in Ids /\ Point(id) \in 0..Budget
    BY <1>1, BridgeAssumption DEF Ids, Point
  <2>2. PICK held : /\ held = [at |-> "BUSY", id |-> id, point |-> Point(id)]
                    /\ rank' = [rank EXCEPT ![w] = held]
    <3>1. Head(q).id = id /\ Head(q).point = Point(id)
      BY <1>4, <1>6, WorkIsNoStop
    <3>2. PICK held : held = [at |-> "BUSY", id |-> Head(q).id, point |-> Head(q).point]
      OBVIOUS
    <3>3. rank' = [rank EXCEPT ![w] = held]
      BY <1>3, <3>2
    <3> QED
      BY <3>1, <3>2, <3>3, Zenon
  <2>5. held \in [at : {"BUILDING", "BUILT", "UNBUILT", "READY", "BUSY", "ENDED",
                        "LEFT"}, id : Ids \cup {-1}, point : 0..Budget]
    BY <2>1, <2>2
  <2>3. rank' \in [Ranks -> [at : {"BUILDING", "BUILT", "UNBUILT", "READY", "BUSY", "ENDED",
                                   "LEFT"}, id : Ids \cup {-1}, point : 0..Budget]]
    BY <1>1, <2>2, <2>5 DEF HandsTyped
  <2>4. work' \in [Ranks -> Seq(Order)]
    BY <1>1, <1>3, <1>4 DEF HandsTyped
  <2> QED
    BY <1>1, <1>3, <2>3, <2>4, Zenon DEF HandsTyped, Ranks, Order, Ids, STOP
<1>10. \A v \in Ranks : ResultsOf(v)' = ResultsOf(v)
  BY <1>3 DEF ResultsOf
<1>11. Rests(w) => Rests(w)'
  BY <1>2, <1>4 DEF Rests, Unoccupied, NoWork
<1>12. ASSUME NEW i \in PendingIds, Holds(w, i) PROVE Holds(w, i)'
  <2>1. i = id
    BY <1>5, <1>12, HeldOne DEF Holds
  <2>2. /\ NoWork(work'[w]) /\ ResultsOf(w)' = {} /\ rank'[w].at \in {"BUSY", "LEFT"}
        /\ rank'[w].id = i /\ rank'[w].point = Point(i)
    BY <1>6, <1>7, <1>8, <1>10, <2>1
  <2> QED
    BY <2>2, Zenon DEF Holds, Holding, NoWork, STOP
<1>13. HandsAreFull'
  BY <1>1, <1>3, <1>7, <1>10, <1>11, <1>12, OneRankMoves
<1>14. RanksAreReady'
  <2>1. manager.at \notin {"BARRIER", "BLOCKED", "SCRATCH", "GATHER"}
    BY <1>1, <1>3 DEF RanksAreReady
  <2>2. manager.at \in {"START", "LOOP", "COMPLETE"} =>
           \A i \in DOMAIN work'[w] : work'[w][i] # STOP
    BY <1>1, <1>2, <1>4, <1>7 DEF RanksAreReady
  <2> QED
    BY <1>1, <1>3, <1>7, <1>8, <2>1, <2>2, OneRankReady
<1> QED
  BY <1>9, <1>13, <1>14 DEF HInv

\* A rank is told to stop.
LEMMA TakesStopKeeps ==
    ASSUME PInv, HInv, NEW w \in Ranks, TakesStop(w)
    PROVE  HInv'
<1>1. /\ HandsTyped /\ HandsAreFull /\ RanksAreReady /\ manager.idle \subseteq Ranks
      /\ work[w] \in Seq(Order)
  BY DEF HInv, PInv, PipesTyped, ManagerType, HandsTyped
<1>2. PICK q \in Seq(Order) : q = work[w]
  BY <1>1
<1>3. /\ rank[w].at = "READY" /\ q # <<>> /\ Head(q).tag = "STOP"
      /\ rank' = [rank EXCEPT ![w].at = "ENDED"]
      /\ work' = [work EXCEPT ![w] = Tail(q)]
      /\ manager' = manager /\ results' = results
  BY <1>2 DEF TakesStop
<1>4. /\ Tail(q) \in Seq(Order) /\ 1 \in DOMAIN q /\ q[1] = STOP
      /\ NoWork(q) => NoWork(Tail(q))
  <2>1. q[1].tag # "WORK"
    BY <1>3, QueueTaken
  <2>2. q[1] = STOP
    BY <1>3, <2>1, QueueTaken DEF Order
  <2> QED
    BY <1>3, <2>2, QueueTaken DEF NoWork
<1>5. /\ rank'[w].at = "ENDED" /\ work'[w] = Tail(q)
      /\ \A v \in Ranks \ {w} : rank'[v] = rank[v] /\ work'[v] = work[v]
  BY <1>1, <1>3 DEF HandsTyped
<1>6. HandsTyped'
  <2>1. rank' \in [Ranks -> [at : {"BUILDING", "BUILT", "UNBUILT", "READY", "BUSY", "ENDED",
                                   "LEFT"}, id : Ids \cup {-1}, point : 0..Budget]]
    BY <1>1, <1>3 DEF HandsTyped
  <2>2. work' \in [Ranks -> Seq(Order)]
    BY <1>1, <1>3, <1>4 DEF HandsTyped
  <2> QED
    BY <1>1, <1>3, <2>1, <2>2, Zenon DEF HandsTyped, Ranks, Order, Ids, STOP
<1>7. \A v \in Ranks : ResultsOf(v)' = ResultsOf(v)
  BY <1>3 DEF ResultsOf
<1>8. Rests(w) => Rests(w)'
  BY <1>2, <1>4, <1>5, <1>7 DEF Rests, Unoccupied, NoWork, STOP
<1>9. ASSUME NEW id \in PendingIds, Holds(w, id) PROVE Holds(w, id)'
  <2>1. /\ NoWork(q) /\ \E r \in ResultsOf(w) : /\ ResultsOf(w) = {r} /\ r.id = id
                                                /\ r.answer \in {0, Point(id)}
    <3>1. q[1] # WORK(id, Point(id))
      BY <1>4, WorkIsNoStop
    <3>2. rank[w].at \notin {"BUSY", "LEFT"}
      BY <1>3
    <3> QED
      BY <1>2, <1>9, <3>1, <3>2, Zenon DEF Holds, Holding
  <2>2. /\ NoWork(work'[w]) /\ rank'[w].at \in {"READY", "ENDED"}
        /\ \E r \in ResultsOf(w)' : /\ ResultsOf(w)' = {r} /\ r.id = id
                                    /\ r.answer \in {0, Point(id)}
    BY <1>4, <1>5, <1>7, <2>1
  <2> QED
    BY <2>2, Zenon DEF Holds, Holding, NoWork, STOP
<1>10. HandsAreFull'
  BY <1>1, <1>3, <1>5, <1>7, <1>8, <1>9, OneRankMoves
<1>11. RanksAreReady'
  <2>1. manager.at \notin {"BARRIER", "BLOCKED", "SCRATCH", "GATHER"}
    BY <1>1, <1>3 DEF RanksAreReady
  <2>2. manager.at \notin {"START", "LOOP", "COMPLETE"}
    BY <1>1, <1>2, <1>4 DEF RanksAreReady
  <2> QED
    BY <1>1, <1>3, <1>5, <2>1, <2>2, OneRankReady
<1> QED
  BY <1>6, <1>10, <1>11 DEF HInv

\* No step of a worker rank disturbs the hands.
LEMMA WorkerKeepsHands ==
    ASSUME PInv, HInv, NEW w \in Ranks, Worker(w)
    PROVE  HInv'
BY BuildsKeeps, TakesWorkKeeps, LeavesKeeps, EvaluatesKeeps, TakesStopKeeps DEF Worker

\* A step that leaves the ranks, the messages and the lists of the manager alone.
LEMMA ManagerMovesOn ==
    ASSUME HInv, rank' = rank, work' = work, results' = results, PendingIds' = PendingIds,
           manager'.idle = manager.idle, RanksAreReady'
    PROVE  HInv'
<1>1. HandsTyped'
  BY Zenon DEF HInv, HandsTyped, Ranks, Order, Ids, STOP
<1>2. \A w : ResultsOf(w)' = ResultsOf(w)
  BY DEF ResultsOf
<1>3. \A w : (Rests(w)' <=> Rests(w)) /\ \A id : (Holds(w, id)' <=> Holds(w, id))
  <2>1. TAKE w
  <2>2. ResultsOf(w)' = ResultsOf(w)
    BY <1>2
  <2>3. Rests(w)' <=> Rests(w)
    BY <2>2, Zenon DEF Rests
  <2>4. \A id : Holds(w, id)' <=> Holds(w, id)
    BY <2>2, Zenon DEF Holds
  <2> QED
    BY <2>3, <2>4
<1>4. HandsAreFull'
  BY <1>3, HandsKept DEF HInv
<1> QED
  BY <1>1, <1>4 DEF HInv

\* The manager moves on, and leaves no earlier place for one that asks less of the ranks.
LEMMA MovesOn ==
    ASSUME HInv, rank' = rank, work' = work, results' = results,
           manager'.pending = manager.pending, manager'.idle = manager.idle,
           manager.process => manager'.process,
           manager'.at \in {"START", "LOOP", "COMPLETE"} =>
              manager.at \in {"START", "LOOP", "COMPLETE"},
           manager'.at \in {"BARRIER", "BLOCKED", "SCRATCH", "GATHER"} =>
              manager.at \in {"BARRIER", "BLOCKED", "SCRATCH", "GATHER"}
    PROVE  HInv'
<1>1. PendingIds' = PendingIds
  BY DEF PendingIds
<1>2. RanksAreReady'
  <2>1. /\ manager'.at \in {"START", "LOOP", "COMPLETE"} =>
              \A w \in Ranks : /\ rank[w].at \in {"READY", "BUSY", "LEFT"}
                               /\ \A i \in DOMAIN work[w] : work[w][i] # STOP
        /\ ~manager'.process => manager.idle = Ranks
        /\ manager'.at \in {"BARRIER", "BLOCKED", "SCRATCH", "GATHER"} =>
              \A w \in Ranks : /\ rank[w].at \in {"BUILDING", "BUILT", "UNBUILT"}
                               /\ work[w] = <<>>
    BY Zenon DEF HInv, RanksAreReady
  <2> QED
    BY <2>1, Zenon DEF RanksAreReady, Ranks, STOP
<1> QED
  BY <1>1, <1>2, ManagerMovesOn

\* Every rank is told to stop, whatever it holds.
LEMMA StoppedKeeps ==
    ASSUME HInv, rank' = rank, work' = Stopped, results' = results,
           manager'.pending = manager.pending, manager'.idle = manager.idle,
           manager'.process = manager.process, manager'.at \in {"RAISED", "DOCUMENT"},
           manager.idle \subseteq Ranks
    PROVE  HInv'
<1>1. HandsTyped /\ HandsAreFull /\ RanksAreReady
  BY DEF HInv
<1>2. \A w \in Ranks : work[w] \in Seq(Order) /\ work'[w] = Append(work[w], STOP)
  BY <1>1 DEF HandsTyped, Stopped
<1>3. HandsTyped'
  <2>1. work' = [w \in Ranks |-> Append(work[w], STOP)]
    BY DEF Stopped
  <2>2. \A w \in Ranks : Append(work[w], STOP) \in Seq(Order)
    BY <1>2, StopAppended
  <2>3. work' \in [Ranks -> Seq(Order)]
    BY <2>1, <2>2, Zenon
  <2> QED
    BY <1>1, <2>3, Zenon DEF HandsTyped, Ranks, Order, Ids, STOP
<1>4. PendingIds' = PendingIds
  BY DEF PendingIds
<1>5. \A w : ResultsOf(w)' = ResultsOf(w)
  BY DEF ResultsOf
<1>6. ASSUME NEW w \in Ranks
      PROVE  (Rests(w) => Rests(w)') /\ \A id : Holds(w, id) => Holds(w, id)'
  <2>1. PICK q \in Seq(Order) : q = work[w]
    BY <1>2
  <2>2. rank'[w] = rank[w] /\ work'[w] = Append(q, STOP) /\ ResultsOf(w)' = ResultsOf(w)
    BY <1>2, <1>5, <2>1
  <2>3. /\ \A at, sent : Unoccupied(at, q, sent) => Unoccupied(at, Append(q, STOP), sent)
        /\ \A s, sent, id : Holding(s, q, sent, id) => Holding(s, Append(q, STOP), sent, id)
    BY StopAppended
  <2>4. Rests(w) => Rests(w)'
    BY <2>1, <2>2, <2>3, Zenon DEF Rests
  <2>5. \A id : Holds(w, id) => Holds(w, id)'
    BY <2>1, <2>2, <2>3, Zenon DEF Holds
  <2> QED
    BY <2>4, <2>5
<1>7. HandsAreFull'
  BY <1>1, <1>4, <1>6, HandsKept
<1>8. RanksAreReady'
  BY <1>1, Zenon DEF RanksAreReady, Ranks
<1> QED
  BY <1>3, <1>7, <1>8 DEF HInv

\* All ranks are gathered: none of them has anything in its hands yet.
LEMMA AllGatherKeeps ==
    ASSUME PInv, HInv, AllGather
    PROVE  HInv'
<1>1. HandsTyped /\ HandsAreFull /\ RanksAreReady /\ ManagerType /\ PlacesAreEarned
  BY DEF HInv, PInv, PipesTyped
<1>2. PICK a : a = IF \E w \in Ranks : rank[w].at = "UNBUILT" THEN "ENDED" ELSE "READY"
  OBVIOUS
<1>3. /\ manager.at = "GATHER" /\ rank' = [w \in Ranks |-> [rank[w] EXCEPT !.at = a]]
      /\ \/ manager' = Raised("INITIALIZATION")
         \/ a = "READY" /\ manager' = [manager EXCEPT !.at = "START"]
      /\ work' = work /\ results' = results
  <2>1. CASE \E w \in Ranks : rank[w].at = "UNBUILT"
    BY <1>2, <2>1, Zenon DEF AllGather
  <2>2. CASE ~\E w \in Ranks : rank[w].at = "UNBUILT"
    BY <1>2, <2>2, Zenon DEF AllGather
  <2> QED
    BY <2>1, <2>2
<1>4. a \in {"READY", "ENDED"}
  BY <1>2
<1>5. /\ \A w \in Ranks : rank'[w].at = a
      /\ manager'.pending = manager.pending /\ manager'.idle = manager.idle
      /\ manager'.process = manager.process
      /\ \/ manager'.at = "RAISED"
         \/ a = "READY" /\ manager'.at = "START"
  <2>1. \A w \in Ranks : rank'[w].at = a
    BY <1>1, <1>3 DEF HandsTyped
  <2>2. CASE manager' = Raised("INITIALIZATION")
    <3>1. manager' = [manager EXCEPT !.at = "RAISED", !.why = "INITIALIZATION"]
      BY <2>2 DEF Raised
    <3>2. /\ manager'.pending = manager.pending /\ manager'.idle = manager.idle
          /\ manager'.process = manager.process /\ manager'.at = "RAISED"
      BY <1>1, <3>1 DEF ManagerType
    <3> QED
      BY <2>1, <3>2
  <2>3. CASE a = "READY" /\ manager' = [manager EXCEPT !.at = "START"]
    BY <1>1, <2>1, <2>3 DEF ManagerType
  <2> QED
    BY <1>3, <2>2, <2>3
<1>6. /\ ~manager.process /\ manager.idle = Ranks
      /\ \A w \in Ranks : work[w] = <<>> /\ rank[w].at \in {"BUILDING", "BUILT", "UNBUILT"}
  BY <1>1, <1>3 DEF PlacesAreEarned, RanksAreReady
<1>7. HandsTyped'
  <2>1. rank' \in [Ranks -> [at : {"BUILDING", "BUILT", "UNBUILT", "READY", "BUSY", "ENDED",
                                   "LEFT"}, id : Ids \cup {-1}, point : 0..Budget]]
    BY <1>1, <1>3, <1>4 DEF HandsTyped
  <2> QED
    BY <1>1, <1>3, <2>1, Zenon DEF HandsTyped, Ranks, Order, Ids, STOP
<1>8. HandsAreFull'
  <2>1. \A w : ResultsOf(w)' = ResultsOf(w)
    BY <1>3 DEF ResultsOf
  <2>2. ASSUME NEW w \in Ranks, Rests(w) PROVE Rests(w)'
    <3>1. rank'[w].at \notin {"BUSY", "LEFT"} /\ work'[w] = work[w] /\ ResultsOf(w)' = {}
      BY <1>3, <1>4, <1>5, <2>1, <2>2 DEF Rests, Unoccupied
    <3>2. NoWork(work[w])
      BY <2>2 DEF Rests, Unoccupied
    <3> QED
      BY <3>1, <3>2, Zenon DEF Rests, Unoccupied, NoWork, STOP
  <2>3. PendingIds' = PendingIds
    BY <1>5 DEF PendingIds
  <2> QED
    BY <1>1, <1>5, <1>6, <2>2, <2>3, HandsKept
<1>9. RanksAreReady'
  <2>1. \A w \in Ranks : \A i \in DOMAIN work'[w] : work'[w][i] # STOP
    <3>1. DOMAIN <<>> = {}
      OBVIOUS
    <3> QED
      BY <1>3, <1>6, <3>1
  <2> QED
    BY <1>5, <1>6, <2>1 DEF RanksAreReady, Ranks, STOP
<1> QED
  BY <1>7, <1>8, <1>9 DEF HInv

\* A result is received: its rank rests again, and its candidate is pending no more.
LEMMA ReceivedKeeps ==
    ASSUME PInv, HInv, NEW res \in results, res.id \in PendingIds,
           rank' = rank, work' = work, results' = results \ {res},
           manager'.pending = {p \in manager.pending : p.id # res.id},
           manager'.idle = manager.idle \cup {res.rank},
           manager.at = "COMPLETE", manager'.at \in {"LOOP", "CLOSE"}, manager'.process
    PROVE  HInv'
<1>1. HandsTyped /\ HandsAreFull /\ RanksAreReady /\ manager.idle \subseteq Ranks
  BY DEF HInv, PInv, PipesTyped, ManagerType
<1>2. res.rank \in Ranks
  BY <1>1 DEF HandsTyped
<1>3. PICK w \in Ranks : w = res.rank
  BY <1>2
<1>4. PendingIds' = PendingIds \ {res.id}
  BY DEF PendingIds
<1>5. w \notin manager.idle
  <2>1. ResultsOf(w) # {}
    BY <1>3 DEF ResultsOf
  <2> QED
    BY <1>1, <2>1, Zenon DEF HandsAreFull, Rests, Unoccupied
<1>6. PICK id \in PendingIds : Holds(w, id)
  BY <1>1, <1>5 DEF HandsAreFull
<1>7. /\ NoWork(work[w]) /\ rank[w].at \in {"READY", "ENDED"}
      /\ ResultsOf(w) = {res} /\ id = res.id
  <2>1. res \in ResultsOf(w)
    BY <1>3 DEF ResultsOf
  <2>2. ResultsOf(w) # {}
    BY <2>1
  <2>3. /\ NoWork(work[w]) /\ rank[w].at \in {"READY", "ENDED"}
        /\ \E r \in ResultsOf(w) : ResultsOf(w) = {r} /\ r.id = id
    BY <1>6, <2>2, Zenon DEF Holds, Holding
  <2> QED
    BY <2>1, <2>3
<1>8. /\ ResultsOf(w)' = {}
      /\ \A v \in Ranks \ {w} : ResultsOf(v)' = ResultsOf(v)
  <2>1. ResultsOf(w)' = {}
    BY <1>7 DEF ResultsOf
  <2>2. \A v \in Ranks \ {w} : ResultsOf(v)' = ResultsOf(v)
    BY <1>3 DEF ResultsOf
  <2> QED
    BY <2>1, <2>2
<1>9. Rests(w)'
  <2>1. rank'[w].at \notin {"BUSY", "LEFT"} /\ NoWork(work[w]) /\ work'[w] = work[w]
    BY <1>7
  <2> QED
    BY <1>8, <2>1, Zenon DEF Rests, Unoccupied, NoWork, STOP
<1>10. ASSUME NEW v \in Ranks \ {w}
       PROVE  (Rests(v)' <=> Rests(v)) /\ \A i : Holds(v, i)' <=> Holds(v, i)
  <2>1. rank'[v] = rank[v] /\ work'[v] = work[v] /\ ResultsOf(v)' = ResultsOf(v)
    BY <1>8
  <2> QED
    BY <2>1, Zenon DEF Rests, Holds
<1>11. HandsTyped'
  <2>1. results' \subseteq [rank : Ranks, id : Ids, answer : 0..Budget]
    BY <1>1 DEF HandsTyped
  <2> QED
    BY <1>1, <2>1, Zenon DEF HandsTyped, Ranks, Order, Ids, STOP
<1>12. HandsAreFull'
  <2>1. PICK free : free = manager.idle \cup {w}
    OBVIOUS
  <2>2. manager'.idle = free /\ Ranks' = Ranks
    BY <1>3, <2>1 DEF Ranks
  <2>3. \A v \in free : Rests(v)'
    BY <1>1, <1>9, <1>10, <2>1 DEF HandsAreFull
  <2>4. ASSUME NEW v \in Ranks \ free PROVE \E i \in PendingIds' : Holds(v, i)'
    <3>1. v \in Ranks \ manager.idle /\ v # w
      BY <2>1
    <3>2. PICK i \in PendingIds : Holds(v, i)
      BY <1>1, <3>1 DEF HandsAreFull
    <3>3. i # res.id
      BY <1>1, <1>5, <1>6, <1>7, <3>1, <3>2 DEF HandsAreFull
    <3> QED
      BY <1>4, <1>10, <3>1, <3>2, <3>3
  <2>5. ASSUME NEW i \in PendingIds' PROVE \E v \in Ranks \ free : Holds(v, i)'
    <3>1. i \in PendingIds /\ i # res.id
      BY <1>4
    <3>2. PICK v \in Ranks \ manager.idle : Holds(v, i)
      BY <1>1, <3>1 DEF HandsAreFull
    <3>3. v # w
      BY <1>6, <1>7, <3>1, <3>2, HeldOne DEF Holds
    <3> QED
      BY <1>10, <2>1, <3>2, <3>3
  <2>6. ASSUME NEW v \in Ranks \ free, NEW u \in Ranks \ free, NEW i \in PendingIds',
               Holds(v, i)', Holds(u, i)'
        PROVE  v = u
    <3>1. v \in Ranks \ manager.idle /\ u \in Ranks \ manager.idle /\ v # w /\ u # w
      BY <2>1
    <3>2. Holds(v, i) /\ Holds(u, i) /\ i \in PendingIds
      BY <1>4, <1>10, <2>6, <3>1
    <3> QED
      BY <1>1, <3>1, <3>2 DEF HandsAreFull
  <2> QED
    BY <2>2, <2>3, <2>4, <2>5, <2>6 DEF HandsAreFull
<1>13. RanksAreReady'
  <2>1. \A v \in Ranks : /\ rank[v].at \in {"READY", "BUSY", "LEFT"}
                         /\ \A i \in DOMAIN work[v] : work[v][i] # STOP
    BY <1>1 DEF RanksAreReady
  <2> QED
    BY <2>1, Zenon DEF RanksAreReady, Ranks, STOP
<1> QED
  BY <1>11, <1>12, <1>13 DEF HInv

\* A candidate is handed to an idle rank.
LEMMA TakesAskKeepsHands ==
    ASSUME PInv, HInv, TakesAsk
    PROVE  HInv'
<1>1. /\ HandsTyped /\ HandsAreFull /\ RanksAreReady /\ manager.idle \subseteq Ranks
      /\ ManagerType /\ CandidatesAreDue
  BY DEF HInv, PInv, PipesTyped, ManagerType
<1>2. manager.at = "LOOP" /\ manager.idle # {} /\ NextLineIs("ASK") /\ Looping
  BY DEF TakesAsk, Looping
<1>3. /\ Taken < Asked /\ toRunner # <<>> /\ Taken \in 0..Budget /\ Asked \in 0..Budget
      /\ PendingIds \subseteq Ids
  BY <1>2, RunHeadTells, RunNumbers DEF NextLineIs, PInv
<1>4. Head(toRunner) = AskLine(Taken)
  BY <1>2, <1>3, RunHeadOfLines
<1>5. PICK id, p : /\ id = Taken /\ p = Point(Taken)
                   /\ Head(toRunner).id = id /\ Head(toRunner).point = p
  BY <1>4 DEF AskLine
<1>6. id \in Ids /\ p \in 1..Budget /\ id \notin PendingIds
  <2>1. id \in Ids /\ p \in 1..Budget
    BY <1>3, <1>5, BridgeAssumption DEF Ids, Point
  <2>2. \A x \in manager.pending : x.id < Taken
    BY <1>1 DEF CandidatesAreDue
  <2>3. id \notin PendingIds
    BY <1>3, <1>5, <2>2 DEF PendingIds
  <2> QED
    BY <2>1, <2>3
<1>7. PICK w \in manager.idle :
         /\ manager' = [manager EXCEPT !.dispatched = @ + 1, !.idle = manager.idle \ {w},
                          !.pending = @ \cup {[id |-> id, point |-> p]}]
         /\ work' = [work EXCEPT ![w] = Append(@, WORK(id, p))]
         /\ rank' = rank /\ results' = results
  <2>1. PICK w : w = CHOOSE v \in manager.idle : \A u \in manager.idle : v <= u
    OBVIOUS
  <2>2. w \in manager.idle
    <3>1. PICK v \in manager.idle : \A u \in manager.idle : v <= u
      <4>1. manager.idle \subseteq Nat /\ manager.idle # {}
        BY <1>1, <1>2, BridgeAssumption DEF Ranks
      <4>2. PICK I : I = manager.idle
        OBVIOUS
      <4>3. PICK v \in I : \A u \in I : v <= u
        BY <4>1, <4>2, LeastNat
      <4> QED
        BY <4>2, <4>3
    <3> QED
      BY <2>1, <3>1
  <2>3. /\ manager' = [manager EXCEPT !.dispatched = @ + 1, !.idle = manager.idle \ {w},
                         !.pending = @ \cup {[id |-> id, point |-> p]}]
        /\ work' = [work EXCEPT ![w] = Append(@, WORK(id, p))]
        /\ rank' = rank /\ results' = results
    BY <1>5, <2>1, Zenon DEF TakesAsk, Busied
  <2> QED
    BY <2>2, <2>3
<1>8. /\ manager'.idle = manager.idle \ {w} /\ manager'.at = "LOOP"
      /\ manager'.process = manager.process
      /\ manager'.pending = manager.pending \cup {[id |-> id, point |-> p]}
  BY <1>1, <1>2, <1>7 DEF ManagerType
<1>9. PendingIds' = PendingIds \cup {id}
  <2>1. PICK new : new = [id |-> id, point |-> p]
    OBVIOUS
  <2>2. new.id = id /\ manager'.pending = manager.pending \cup {new}
    BY <1>8, <2>1
  <2> QED
    BY <2>2 DEF PendingIds
<1>10. w \in Ranks /\ Rests(w) /\ w \in Ranks \ manager'.idle
  BY <1>1, <1>7, <1>8 DEF HandsAreFull
<1>11. work[w] = <<>> /\ rank[w].at = "READY" /\ ResultsOf(w) = {}
  <2>1. /\ rank[w].at \in {"READY", "BUSY", "LEFT"}
        /\ \A i \in DOMAIN work[w] : work[w][i] # STOP
    BY <1>1, <1>2, <1>10 DEF RanksAreReady
  <2>2. /\ \A i \in DOMAIN work[w] : work[w][i] = STOP
        /\ ResultsOf(w) = {} /\ rank[w].at \notin {"BUSY", "LEFT"}
    BY <1>10 DEF Rests, Unoccupied, NoWork
  <2>3. DOMAIN work[w] = {}
    BY <2>1, <2>2
  <2>4. work[w] \in Seq(Order)
    BY <1>1, <1>10 DEF HandsTyped
  <2>5. work[w] = <<>>
    <3>1. PICK q, S : q = work[w] /\ S = Order
      OBVIOUS
    <3>2. q \in Seq(S) /\ DOMAIN q = {}
      BY <2>3, <2>4, <3>1
    <3>3. Len(q) = 0
      BY <3>2, LenProperties
    <3> QED
      BY <3>1, <3>2, <3>3, EmptySeq
  <2> QED
    BY <2>1, <2>2, <2>5
<1>12. /\ work'[w] = <<WORK(id, p)>>
       /\ \A v \in Ranks \ {w} : work'[v] = work[v]
  <2>1. work'[w] = Append(work[w], WORK(id, p))
    BY <1>1, <1>7, <1>10 DEF HandsTyped
  <2>2. Append(<<>>, WORK(id, p)) = <<WORK(id, p)>>
    OBVIOUS
  <2>3. \A v \in Ranks \ {w} : work'[v] = work[v]
    BY <1>1, <1>7 DEF HandsTyped
  <2> QED
    BY <1>11, <2>1, <2>2, <2>3
<1>13. /\ DOMAIN work'[w] = {1} /\ work'[w][1] = WORK(id, p)
       /\ work'[w] \in Seq(Order)
  <2>1. WORK(id, p) \in Order
    BY <1>6 DEF Order, WORK
  <2>2. PICK x, S : x = WORK(id, p) /\ S = Order
    OBVIOUS
  <2>3. DOMAIN <<x>> = {1} /\ <<x>>[1] = x
    OBVIOUS
  <2>4. <<x>> \in Seq(S)
    BY <2>1, <2>2
  <2> QED
    BY <1>12, <2>2, <2>3, <2>4, Zenon
<1>14. \A v : ResultsOf(v)' = ResultsOf(v)
  BY <1>7 DEF ResultsOf
<1>15. Holds(w, id)'
  <2>1. p = Point(id)
    BY <1>5
  <2>2. /\ 1 \in DOMAIN work'[w] /\ work'[w][1] = WORK(id, Point(id)) /\ ResultsOf(w)' = {}
        /\ rank'[w].at = "READY" /\ \A i \in DOMAIN work'[w] : i # 1 => work'[w][i] = STOP
    BY <1>7, <1>11, <1>13, <1>14, <2>1
  <2> QED
    BY <2>2, Zenon DEF Holds, Holding, NoWork, STOP, WORK, Point
<1>16. ASSUME NEW v \in Ranks \ {w}
       PROVE  (Rests(v)' <=> Rests(v)) /\ \A i : Holds(v, i)' <=> Holds(v, i)
  <2>1. rank'[v] = rank[v] /\ work'[v] = work[v] /\ ResultsOf(v)' = ResultsOf(v)
    BY <1>7, <1>12, <1>14
  <2> QED
    BY <2>1, Zenon DEF Rests, Holds
<1>17. HandsTyped'
  <2>1. work' \in [Ranks -> Seq(Order)]
    <3>1. PICK q : q = Append(work[w], WORK(id, p))
      OBVIOUS
    <3>2. work' = [work EXCEPT ![w] = q] /\ work'[w] = q
      BY <1>1, <1>7, <1>10, <3>1 DEF HandsTyped
    <3> QED
      BY <1>1, <1>13, <3>2, Zenon DEF HandsTyped
  <2> QED
    BY <1>1, <1>7, <2>1, Zenon DEF HandsTyped, Ranks, Order, Ids, STOP
<1>18. HandsAreFull'
  <2>1. PICK free : free = manager.idle \ {w}
    OBVIOUS
  <2>2. manager'.idle = free /\ Ranks' = Ranks
    BY <1>8, <2>1 DEF Ranks
  <2>3. \A v \in free : Rests(v)'
    BY <1>1, <1>16, <2>1 DEF HandsAreFull
  <2>4. ASSUME NEW v \in Ranks \ free PROVE \E i \in PendingIds' : Holds(v, i)'
    <3>1. CASE v = w
      BY <1>9, <1>15, <3>1
    <3>2. CASE v # w
      <4>1. PICK i \in PendingIds : Holds(v, i)
        BY <1>1, <2>1, <3>2 DEF HandsAreFull
      <4> QED
        BY <1>9, <1>16, <3>2, <4>1
    <3> QED
      BY <3>1, <3>2
  <2>5. ASSUME NEW i \in PendingIds' PROVE \E v \in Ranks \ free : Holds(v, i)'
    <3>1. CASE i = id
      BY <1>10, <1>15, <2>1, <3>1
    <3>2. CASE i # id
      <4>1. i \in PendingIds
        BY <1>9, <3>2
      <4>2. PICK v \in Ranks \ manager.idle : Holds(v, i)
        BY <1>1, <4>1 DEF HandsAreFull
      <4> QED
        BY <1>7, <1>16, <2>1, <4>2
    <3> QED
      BY <3>1, <3>2
  <2>6. ASSUME NEW v \in Ranks \ free, NEW i \in PendingIds', Holds(v, i)'
        PROVE  \/ v = w /\ i = id
               \/ v # w /\ i # id /\ v \notin manager.idle /\ i \in PendingIds /\ Holds(v, i)
    <3>1. CASE v = w
      BY <1>15, <2>6, <3>1, HeldOne DEF Holds
    <3>2. CASE v # w
      <4>1. Holds(v, i) /\ v \notin manager.idle
        BY <1>16, <2>1, <2>6, <3>2
      <4>2. PICK j \in PendingIds : Holds(v, j)
        BY <1>1, <4>1 DEF HandsAreFull
      <4>3. j = i
        BY <4>1, <4>2, HeldOne DEF Holds
      <4> QED
        BY <1>6, <3>2, <4>1, <4>2, <4>3
    <3> QED
      BY <3>1, <3>2
  <2>7. \A v, u \in Ranks \ free : \A i \in PendingIds' :
           Holds(v, i)' /\ Holds(u, i)' => v = u
    BY <1>1, <2>6 DEF HandsAreFull
  <2> QED
    BY <2>2, <2>3, <2>4, <2>5, <2>7 DEF HandsAreFull
<1>19. RanksAreReady'
  <2>1. manager.process /\ Ranks' = Ranks
    BY <1>2 DEF PInv, PlacesAreEarned, Ranks
  <2>2. ASSUME NEW v \in Ranks
        PROVE  /\ rank'[v].at \in {"READY", "BUSY", "LEFT"}
               /\ \A i \in DOMAIN work'[v] : work'[v][i] # STOP
    <3>1. /\ rank[v].at \in {"READY", "BUSY", "LEFT"}
          /\ \A i \in DOMAIN work[v] : work[v][i] # STOP
      BY <1>1, <1>2 DEF RanksAreReady
    <3>2. CASE v = w
      BY <1>7, <1>13, <3>1, <3>2, WorkIsNoStop
    <3>3. CASE v # w
      BY <1>7, <1>12, <3>1, <3>3
    <3> QED
      BY <3>2, <3>3
  <2> QED
    BY <1>8, <2>1, <2>2 DEF RanksAreReady, STOP
<1> QED
  BY <1>17, <1>18, <1>19 DEF HInv

\* A result that has arrived is the value of its point or a failure, of a pending candidate.
LEMMA ResultsAreSound ==
    ASSUME HInv, NEW res \in results
    PROVE  /\ res.rank \in Ranks /\ res.id \in PendingIds
           /\ res.answer \in {0, Point(res.id)}
<1>1. HandsTyped /\ HandsAreFull
  BY DEF HInv
<1>2. res.rank \in Ranks
  BY <1>1 DEF HandsTyped
<1>3. PICK w \in Ranks : w = res.rank
  BY <1>2
<1>4. res \in ResultsOf(w)
  BY <1>3 DEF ResultsOf
<1>5. ResultsOf(w) # {}
  BY <1>4
<1>6. ~Rests(w)
  BY <1>5, Zenon DEF Rests, Unoccupied
<1>7. PICK id \in PendingIds : Holds(w, id)
  BY <1>1, <1>6 DEF HandsAreFull
<1>8. \E r \in ResultsOf(w) : /\ ResultsOf(w) = {r} /\ r.id = id
                              /\ r.answer \in {0, Point(id)}
  BY <1>5, <1>7, Zenon DEF Holds, Holding
<1> QED
  BY <1>2, <1>4, <1>8

\* No step of rank zero disturbs the hands.
LEMMA ManagerKeepsHands ==
    ASSUME PInv, HInv, Manager
    PROVE  HInv'
<1>1. ManagerType /\ PlacesAreEarned /\ manager.idle \subseteq Ranks
  BY DEF PInv, PipesTyped, ManagerType
<1>2. ASSUME NEW a, manager' = [manager EXCEPT !.at = a]
      PROVE  /\ manager'.at = a /\ manager'.pending = manager.pending
             /\ manager'.idle = manager.idle /\ manager'.process = manager.process
  BY <1>1, <1>2 DEF ManagerType
<1>3. ASSUME NEW y, manager' = Raised(y)
      PROVE  /\ manager'.at = "RAISED" /\ manager'.pending = manager.pending
             /\ manager'.idle = manager.idle /\ manager'.process = manager.process
  BY <1>1, <1>3 DEF ManagerType, Raised
<1>4. CASE Barrier
  <2>1. PICK a \in {"SCRATCH", "BLOCKED"} : manager' = [manager EXCEPT !.at = a]
    BY <1>4 DEF Barrier
  <2>2. manager.at = "BARRIER" /\ rank' = rank /\ work' = work /\ results' = results
    BY <1>4 DEF Barrier
  <2> QED
    BY <1>2, <2>1, <2>2, MovesOn
<1>5. CASE MakesScratch
  <2>1. /\ manager.at = "SCRATCH" /\ rank' = rank /\ work' = work /\ results' = results
        /\ manager' = [manager EXCEPT !.at = "GATHER"] \/ manager' = Raised("SCRATCH")
    BY <1>5 DEF MakesScratch
  <2>2. CASE manager' = [manager EXCEPT !.at = "GATHER"]
    BY <1>2, <2>1, <2>2, MovesOn
  <2>3. CASE manager' = Raised("SCRATCH")
    BY <1>3, <2>1, <2>3, MovesOn
  <2> QED
    BY <2>1, <2>2, <2>3
<1>6. CASE StartsBridge
  <2>1. /\ manager.at = "START" /\ rank' = rank /\ work' = work /\ results' = results
        /\ manager' = [manager EXCEPT !.at = "LOOP", !.process = TRUE]
    BY <1>6 DEF StartsBridge
  <2>2. /\ manager'.at = "LOOP" /\ manager'.pending = manager.pending
        /\ manager'.idle = manager.idle /\ manager'.process = TRUE
    BY <1>1, <2>1 DEF ManagerType
  <2> QED
    BY <2>1, <2>2, MovesOn
<1>7. CASE StartFails
  <2>1. /\ manager.at = "START" /\ rank' = rank /\ results' = results
        /\ \/ manager' = Raised("STDERR") /\ work' = work
           \/ manager' = Raised("POPEN") /\ work' = Stopped
    BY <1>7 DEF StartFails
  <2>2. CASE manager' = Raised("STDERR") /\ work' = work
    BY <1>3, <2>1, <2>2, MovesOn
  <2>3. CASE manager' = Raised("POPEN") /\ work' = Stopped
    BY <1>1, <1>3, <2>1, <2>3, StoppedKeeps
  <2> QED
    BY <2>1, <2>2, <2>3
<1>8. CASE TakesAsk
  BY <1>8, TakesAskKeepsHands
<1>9. CASE TakesWait \/ AwaitsResult
  <2>1. /\ manager.at = "LOOP" /\ rank' = rank /\ work' = work /\ results' = results
        /\ manager' = [manager EXCEPT !.at = "COMPLETE"]
    BY <1>9 DEF TakesWait, AwaitsResult
  <2> QED
    BY <1>2, <2>1, MovesOn
<1>10. CASE EndOfOutput
  <2>1. /\ manager.at = "LOOP" /\ rank' = rank /\ work' = work /\ results' = results
        /\ manager' = [manager EXCEPT !.at = "CLOSE", !.why = "EOF"]
    BY <1>10 DEF EndOfOutput
  <2>2. /\ manager'.at = "CLOSE" /\ manager'.pending = manager.pending
        /\ manager'.idle = manager.idle /\ manager'.process = manager.process
    BY <1>1, <2>1 DEF ManagerType
  <2> QED
    BY <2>1, <2>2, MovesOn
<1>11. CASE TakesDone
  <2>1. /\ manager.at = "LOOP" /\ rank' = rank /\ work' = work /\ results' = results
        /\ manager' = [manager EXCEPT !.at = "CLOSE"]
    BY <1>11 DEF TakesDone
  <2> QED
    BY <1>2, <2>1, MovesOn
<1>12. ASSUME NEW res \in results, CompletesOne(res) PROVE HInv'
  <2>1. /\ manager.at = "COMPLETE" /\ rank' = rank /\ work' = work
        /\ results' = results \ {res} /\ res.id \in PendingIds
        /\ manager' = [Received(res) EXCEPT !.at = "LOOP"]
    BY <1>12 DEF CompletesOne
  <2>2. /\ manager'.at = "LOOP" /\ manager'.process = manager.process
        /\ manager'.pending = {q \in manager.pending : q.id # res.id}
        /\ manager'.idle = manager.idle \cup {res.rank}
    BY <1>1, <2>1 DEF Received, ManagerType
  <2>3. manager.process
    BY <1>1, <2>1 DEF PlacesAreEarned, Looping
  <2> QED
    BY <2>1, <2>2, <2>3, ReceivedKeeps
<1>13. ASSUME NEW res \in results, BrokenPipe(res) PROVE HInv'
  <2>1. /\ manager.at = "COMPLETE" /\ rank' = rank /\ work' = work
        /\ results' = results \ {res} /\ res.id \in PendingIds
        /\ manager' = [Received(res) EXCEPT !.at = "CLOSE", !.why = "BROKEN_PIPE"]
    BY <1>13 DEF BrokenPipe
  <2>2. /\ manager'.at = "CLOSE" /\ manager'.process = manager.process
        /\ manager'.pending = {q \in manager.pending : q.id # res.id}
        /\ manager'.idle = manager.idle \cup {res.rank}
    BY <1>1, <2>1 DEF Received, ManagerType
  <2>3. manager.process
    BY <1>1, <2>1 DEF PlacesAreEarned, Looping
  <2> QED
    BY <2>1, <2>2, <2>3, ReceivedKeeps
<1>14. CASE ClosesStdin
  <2>1. PICK a : a = IF manager.why = "BROKEN_PIPE" THEN "RAISED" ELSE "REAP"
    OBVIOUS
  <2>2. /\ manager.at = "CLOSE" /\ rank' = rank /\ work' = work /\ results' = results
        /\ manager' = [manager EXCEPT !.at = a]
    BY <1>14, <2>1 DEF ClosesStdin
  <2>3. a \in {"RAISED", "REAP"}
    BY <2>1
  <2> QED
    BY <1>2, <2>2, <2>3, MovesOn
<1>15. CASE ReapsAndStops
  <2>1. PICK a : a = IF /\ manager.why = "" /\ bridge.at = "EXITED"
                        /\ manager.dispatched = Budget /\ Len(ledger) = Budget
                     THEN "DOCUMENT" ELSE "RAISED"
    OBVIOUS
  <2>2. /\ manager.at = "REAP" /\ rank' = rank /\ work' = Stopped /\ results' = results
        /\ manager' = [manager EXCEPT !.at = a]
    BY <1>15, <2>1 DEF ReapsAndStops
  <2>3. a \in {"RAISED", "DOCUMENT"}
    BY <2>1
  <2> QED
    BY <1>1, <1>2, <2>2, <2>3, StoppedKeeps
<1>16. CASE Documents
  <2>1. PICK pin \in BOOLEAN : manager' = [manager EXCEPT !.at = "WRITTEN", !.pinned = pin]
    BY <1>16 DEF Documents
  <2>2. manager.at = "DOCUMENT" /\ rank' = rank /\ work' = work /\ results' = results
    BY <1>16 DEF Documents
  <2>3. /\ manager'.at = "WRITTEN" /\ manager'.pending = manager.pending
        /\ manager'.idle = manager.idle /\ manager'.process = manager.process
    BY <1>1, <2>1 DEF ManagerType
  <2> QED
    BY <2>2, <2>3, MovesOn
<1>17. CASE DocumentFails
  <2>1. /\ manager.at = "DOCUMENT" /\ rank' = rank /\ work' = work /\ results' = results
        /\ manager' = Raised("DOCUMENT")
    BY <1>17 DEF DocumentFails
  <2> QED
    BY <1>3, <2>1, MovesOn
<1> QED
  BY <1>4, <1>5, <1>6, <1>7, <1>8, <1>9, <1>10, <1>11, <1>12, <1>13, <1>14, <1>15, <1>16,
     <1>17 DEF Manager

\* At first no rank has anything in its hands.
LEMMA InitiallyHands == RunInit => HInv
<1> SUFFICES ASSUME RunInit PROVE HInv
  OBVIOUS
<1>1. /\ rank = [w \in Ranks |-> [at |-> "BUILDING", id |-> -1, point |-> 0]]
      /\ work = [w \in Ranks |-> <<>>] /\ results = {}
  BY DEF RunInit
<1>2. /\ manager.idle = Ranks /\ manager.pending = {} /\ manager.at = "BARRIER"
  BY DEF RunInit
<1>3. PICK built : /\ built = [at |-> "BUILDING", id |-> -1, point |-> 0]
                   /\ rank = [w \in Ranks |-> built]
  BY <1>1
<1>4. DOMAIN <<>> = {} /\ \A S : <<>> \in Seq(S)
  BY EmptySeq
<1>5. \A w \in Ranks : /\ rank[w].at = "BUILDING" /\ work[w] = <<>> /\ ResultsOf(w) = {}
                       /\ DOMAIN work[w] = {}
  BY <1>1, <1>3, <1>4 DEF ResultsOf
<1>6. HandsTyped
  <2>1. built \in [at : {"BUILDING", "BUILT", "UNBUILT", "READY", "BUSY", "ENDED",
                         "LEFT"}, id : Ids \cup {-1}, point : 0..Budget]
    BY <1>3, BridgeAssumption
  <2>2. work \in [Ranks -> Seq(Order)]
    BY <1>1, <1>4, Zenon
  <2> QED
    BY <1>1, <1>3, <2>1, <2>2 DEF HandsTyped
<1>7. HandsAreFull
  <2>1. \A w \in Ranks : Rests(w)
    BY <1>5 DEF Rests, Unoccupied, NoWork
  <2>2. PendingIds = {}
    BY <1>2 DEF PendingIds
  <2> QED
    BY <1>2, <2>1, <2>2 DEF HandsAreFull
<1>8. RanksAreReady
  BY <1>2, <1>5 DEF RanksAreReady
<1> QED
  BY <1>6, <1>7, <1>8 DEF HInv

-----------------------------------------------------------------------------
\* What is true of every state of the run.
RInv == PInv /\ HInv

\* Every step keeps the run in step.
LEMMA RInvNext == RInv /\ [RunNext]_runVars => RInv'
<1> SUFFICES ASSUME PInv, HInv, [RunNext]_runVars PROVE PInv' /\ HInv'
  BY DEF RInv
<1>1. CASE RunBridgeStep
  <2>1. /\ rank' = rank /\ work' = work /\ results' = results /\ manager' = manager
    BY <1>1 DEF RunBridgeStep, rankVars
  <2>2. HInv'
    BY <2>1, MovesOn
  <2> QED
    BY <1>1, <2>2, RunBridgeKeeps
<1>2. CASE Manager
  <2>1. \A r \in results : r.rank \in Ranks /\ r.answer \in {0, Point(r.id)}
    BY ResultsAreSound
  <2> QED
    BY <1>2, <2>1, ManagerKeepsPipes, ManagerKeepsHands
<1>3. CASE AllGather
  BY <1>3, RanksKeepPipes, AllGatherKeeps
<1>4. CASE \E w \in Ranks : Worker(w)
  BY <1>4, RanksKeepPipes, WorkerKeepsHands
<1>5. CASE UNCHANGED runVars
  <2>1. /\ bridge' = bridge /\ slots' = slots /\ toRunner' = toRunner
        /\ toBridge' = toBridge /\ stdinClosed' = stdinClosed /\ told' = told
        /\ manager' = manager /\ rank' = rank /\ work' = work /\ results' = results
        /\ ledger' = ledger
    BY <1>5 DEF runVars, bridgeVars, rankVars
  <2> QED
    BY <2>1, MovesOn, PipesKept
<1> QED
  BY <1>1, <1>2, <1>3, <1>4, <1>5 DEF RunNext

\* The invariant holds of every run.
LEMMA RInvariant == RunSpec => []RInv
<1>1. RunInit => RInv
  BY InitiallyPipes, InitiallyHands DEF RInv
<1> QED
  BY <1>1, RInvNext, PTL DEF RunSpec
-----------------------------------------------------------------------------
\* What a rank holds: nothing if it is idle, else one pending candidate.
LEMMA HandOfRank ==
    ASSUME HInv, NEW w \in Ranks
    PROVE  /\ Rests(w) => AtRank(w) = {}
           /\ \A id : Holds(w, id) => AtRank(w) = {id}
<1>1. PICK q : q = work[w]
  OBVIOUS
<1>2. PICK sent, busy : /\ sent = {work[w][i].id : i \in {j \in DOMAIN work[w] :
                                                             work[w][j].tag = "WORK"}}
                        /\ busy = IF rank[w].at \in {"BUSY", "LEFT"} THEN {rank[w].id} ELSE {}
  OBVIOUS
<1>3. AtRank(w) = sent \cup busy \cup {r.id : r \in ResultsOf(w)}
  BY <1>2, Zenon DEF AtRank, ResultsOf
<1>4. NoWork(q) => sent = {}
  <2>1. STOP.tag # "WORK"
    BY DEF STOP
  <2> QED
    BY <1>1, <1>2, <2>1 DEF NoWork
<1>5. rank[w].at \notin {"BUSY", "LEFT"} => busy = {}
  BY <1>2
<1>6. Rests(w) => AtRank(w) = {}
  BY <1>1, <1>3, <1>4, <1>5 DEF Rests, Unoccupied
<1>7. ASSUME NEW id, Holds(w, id) PROVE AtRank(w) = {id}
  <2>1. CASE /\ 1 \in DOMAIN q /\ q[1] = WORK(id, Point(id)) /\ ResultsOf(w) = {}
             /\ rank[w].at = "READY" /\ \A i \in DOMAIN q : i # 1 => q[i] = STOP
    <3>1. WORK(id, Point(id)).tag = "WORK" /\ WORK(id, Point(id)).id = id
      BY WorkIsNoStop
    <3>2. STOP.tag # "WORK"
      BY DEF STOP
    <3>3. {j \in DOMAIN q : q[j].tag = "WORK"} = {1}
      BY <2>1, <3>1, <3>2
    <3>4. sent = {id}
      BY <1>1, <1>2, <2>1, <3>1, <3>3
    <3> QED
      BY <1>3, <1>5, <2>1, <3>4
  <2>2. CASE /\ NoWork(q) /\ ResultsOf(w) = {} /\ rank[w].at \in {"BUSY", "LEFT"}
             /\ rank[w].id = id
    <3>1. busy = {id}
      BY <1>2, <2>2
    <3> QED
      BY <1>3, <1>4, <2>2, <3>1
  <2>3. CASE /\ NoWork(q) /\ rank[w].at \in {"READY", "ENDED"}
             /\ \E r \in ResultsOf(w) : ResultsOf(w) = {r} /\ r.id = id
    <3>1. {r.id : r \in ResultsOf(w)} = {id}
      BY <2>3
    <3> QED
      BY <1>3, <1>4, <1>5, <2>3, <3>1
  <2> QED
    BY <1>1, <1>7, <2>1, <2>2, <2>3, Zenon DEF Holds, Holding
<1> QED
  BY <1>6, <1>7

\* There are as many ranks at work as candidates pending.
LEMMA HandsTally ==
    ASSUME PInv, HInv
    PROVE  /\ IsFiniteSet(manager.idle) /\ Cardinality(manager.idle) \in Nat
           /\ Cardinality(PendingIds) = Workers - Cardinality(manager.idle)
<1>1. HandsAreFull /\ manager.idle \subseteq Ranks /\ IsFiniteSet(PendingIds)
  BY RunTallies DEF HInv, PInv, PipesTyped, ManagerType
<1>2. Workers \in Nat \ {0} /\ Ranks = 1..Workers
  BY BridgeAssumption DEF Ranks
<1>3. IsFiniteSet(Ranks) /\ Cardinality(Ranks) = Workers
  <2>1. 1 \in Int /\ Workers \in Int /\ ~(1 > Workers)
    BY <1>2
  <2>2. /\ IsFiniteSet(1..Workers)
        /\ Cardinality(1..Workers) = IF 1 > Workers THEN 0 ELSE Workers - 1 + 1
    BY <2>1, FS_Interval
  <2> QED
    BY <1>2, <2>1, <2>2
<1>4. PICK busy : busy = Ranks \ manager.idle
  OBVIOUS
<1>5. IsFiniteSet(busy) /\ IsFiniteSet(manager.idle)
  BY <1>1, <1>3, <1>4, FS_Subset
<1>6. \A w \in busy : \E id \in PendingIds : AtRank(w) = {id} /\ Holds(w, id)
  BY <1>1, <1>4, HandOfRank DEF HandsAreFull
<1>7. PICK f : f = [w \in busy |-> CHOOSE id \in PendingIds : AtRank(w) = {id}]
  OBVIOUS
<1>8. \A w \in busy : f[w] \in PendingIds /\ AtRank(w) = {f[w]} /\ Holds(w, f[w])
  <2> SUFFICES ASSUME NEW w \in busy
               PROVE  f[w] \in PendingIds /\ AtRank(w) = {f[w]} /\ Holds(w, f[w])
    OBVIOUS
  <2>1. PICK id \in PendingIds : AtRank(w) = {id} /\ Holds(w, id)
    BY <1>6
  <2>2. f[w] = CHOOSE i \in PendingIds : AtRank(w) = {i}
    BY <1>7
  <2>3. f[w] = id
    BY <2>1, <2>2
  <2> QED
    BY <2>1, <2>3
<1>9. f \in Bijection(busy, PendingIds)
  <2>1. f \in [busy -> PendingIds]
    BY <1>7, <1>8
  <2>2. \A w, v \in busy : f[w] = f[v] => w = v
    <3> SUFFICES ASSUME NEW w \in busy, NEW v \in busy, f[w] = f[v] PROVE w = v
      OBVIOUS
    <3>1. PICK id \in PendingIds : Holds(w, id) /\ Holds(v, id)
      <4>1. f[w] \in PendingIds /\ Holds(w, f[w]) /\ Holds(v, f[v])
        BY <1>8
      <4>2. PICK i : i = f[w]
        OBVIOUS
      <4>3. f[v] = i
        BY <4>2
      <4>4. Holds(v, i)
        BY <4>1, <4>3
      <4>5. Holds(w, i)
        BY <4>1, <4>2
      <4> QED
        BY <4>1, <4>2, <4>4, <4>5
    <3> QED
      BY <1>1, <1>4, <3>1 DEF HandsAreFull
  <2>3. \A id \in PendingIds : \E w \in busy : f[w] = id
    <3> SUFFICES ASSUME NEW id \in PendingIds PROVE \E w \in busy : f[w] = id
      OBVIOUS
    <3>1. PICK w \in busy : Holds(w, id)
      BY <1>1, <1>4 DEF HandsAreFull
    <3>2. AtRank(w) = {id}
      BY <1>4, <3>1, HandOfRank
    <3> QED
      BY <1>8, <3>2
  <2> QED
    BY <2>1, <2>2, <2>3, Fun_IsBij
<1>10. Cardinality(busy) = Cardinality(PendingIds)
  <2>1. f \in Injection(busy, PendingIds) /\ f \in Surjection(busy, PendingIds)
    BY <1>9, Fun_BijectionProperties
  <2> QED
    BY <1>1, <2>1, FS_Injection
<1>11. Cardinality(busy) = Workers - Cardinality(manager.idle)
  <2>1. Ranks \cap manager.idle = manager.idle
    BY <1>1
  <2>2. Cardinality(Ranks \ manager.idle)
           = Cardinality(Ranks) - Cardinality(Ranks \cap manager.idle)
    BY <1>3, FS_Difference
  <2> QED
    BY <1>3, <1>4, <2>1, <2>2
<1> QED
  BY <1>5, <1>10, <1>11, FS_CardinalityType

-----------------------------------------------------------------------------
\* The bridge never reads a result whose id is in no slot.
LEMMA RunHasNoUnknownId == PInv => ~UnknownId
<1> SUFFICES ASSUME PInv, toBridge # <<>>, SlotOf(Head(toBridge).id) = {} PROVE FALSE
  BY DEF UnknownId
<1>1. PICK i : i = Len(told) + 1
  OBVIOUS
<1>2. i \in 1..Len(ledger) /\ Head(toBridge).id = ledger[i].id
  <2>1. /\ i \in 1..Len(ledger)
        /\ Head(toBridge) = [id |-> ledger[i].id, answer |-> ledger[i].answer]
    BY <1>1, RunHeadOfResults
  <2> QED
    BY <2>1
<1>3. ledger[i].id \in UsedIds
  BY <1>1, <1>2, RunHeadIsInSlot
<1>4. PICK s \in InUse : slots[s].id = ledger[i].id
  BY <1>3 DEF UsedIds
<1>5. s \in SlotOf(Head(toBridge).id)
  BY <1>2, <1>4 DEF SlotOf
<1> QED
  BY <1>5

\* Rank zero never meets a line or a result that it does not expect.
LEMMA RunIsNotSurprised == PInv /\ HInv => ~Surprised
<1> SUFFICES ASSUME PInv, HInv, Surprised PROVE FALSE
  OBVIOUS
<1>1. \A r \in results : r.id \in PendingIds
  BY ResultsAreSound
<1>2. manager.at = "LOOP" /\ Looping
  BY <1>1 DEF Surprised, Looping
<1>3. PICK c, a, r, n : /\ c = Cardinality(manager.pending) /\ a = Asked /\ r = Taken
                        /\ n = Cardinality(manager.idle)
  OBVIOUS
<1>4. /\ a \in 0..Budget /\ r \in 0..Budget /\ r <= a /\ Budget \in Nat \ {0}
      /\ Workers \in Nat \ {0} /\ c \in Nat /\ n \in Nat /\ c = Workers - n
      /\ PendingCount = c + (a - r) + Len(toBridge)
  BY <1>2, <1>3, RunNumbers, RunTallies, CandidateTally, HandsTally DEF PInv
<1>5. /\ manager.pending = {} => c = 0
      /\ manager.idle = {} => n = 0
      /\ WantsCandidate <=> r < Budget /\ c < Workers
  BY <1>3, FS_EmptySet DEF WantsCandidate, Taken
<1>6. NextLineIs("ASK") => r < a /\ Head(toRunner).id = manager.dispatched
  <2> SUFFICES ASSUME NextLineIs("ASK")
               PROVE  r < a /\ Head(toRunner).id = manager.dispatched
    OBVIOUS
  <2>1. Taken < Asked /\ toRunner # <<>>
    BY <1>2, RunHeadTells DEF NextLineIs
  <2>2. Head(toRunner) = AskLine(Taken)
    BY <1>2, <2>1, RunHeadOfLines
  <2> QED
    BY <1>3, <2>1, <2>2 DEF AskLine, Taken
<1>7. NextLineIs("WAIT") => r = a /\ a < Budget /\ c >= 1
  <2> SUFFICES ASSUME NextLineIs("WAIT") PROVE r = a /\ a < Budget /\ c >= 1
    OBVIOUS
  <2>1. Taken = Asked /\ LastIsWait
    BY <1>2, RunHeadTells
  <2>2. MayAsk /\ PendingCount >= 1 /\ toBridge = <<>>
    BY <1>2, <2>1 DEF PInv, LinesAreInStep
  <2>3. Len(toBridge) = 0 /\ a < Budget
    BY <1>3, <2>2, EmptySeq DEF MayAsk, Asked
  <2> QED
    BY <1>3, <1>4, <2>1, <2>2, <2>3
<1>8. NextLineIs("DONE") => r = Budget
  <2> SUFFICES ASSUME NextLineIs("DONE") PROVE r = Budget
    OBVIOUS
  <2>1. Taken = Asked /\ LastIsDone
    BY <1>2, RunHeadTells
  <2>2. Asked = Budget
    BY <1>2, <2>1 DEF PInv, LinesAreInStep, PlacesAreEarned
  <2> QED
    BY <1>3, <2>1, <2>2
<1>9. CASE WantsCandidate
  <2>1. r < Budget /\ n # 0
    BY <1>4, <1>5, <1>9
  <2>2. manager.idle # {}
    BY <1>5, <2>1
  <2>3. \/ NextLineIs("ASK") /\ Head(toRunner).id # manager.dispatched
        \/ NextLineIs("WAIT") /\ manager.pending = {}
        \/ NextLineIs("DONE")
    BY <1>1, <1>9, <2>2 DEF Surprised
  <2> QED
    BY <1>4, <1>5, <1>6, <1>7, <1>8, <2>1, <2>3
<1>10. CASE ~WantsCandidate
  <2>1. manager.pending = {} /\ (NextLineIs("ASK") \/ NextLineIs("WAIT"))
    BY <1>1, <1>10 DEF Surprised
  <2>2. ~(r < Budget)
    BY <1>4, <1>5, <1>10, <2>1
  <2> QED
    BY <1>4, <1>6, <1>7, <2>1, <2>2
<1> QED
  BY <1>9, <1>10

\* Every rank is idle or holds exactly one pending candidate, and nobody is surprised.
THEOREM RanksStayInStep == RunSpec => []RanksInStep
<1>1. RInv => RanksInStep
  <2> SUFFICES ASSUME PInv, HInv PROVE RanksInStep
    BY DEF RInv
  <2>1. HandsAreFull /\ manager.idle \subseteq Ranks
    BY DEF HInv, PInv, PipesTyped, ManagerType
  <2>2. RunType /\ BridgeType
    <3>1. \A w \in Ranks : rank[w].at \in {"BUILDING", "BUILT", "UNBUILT", "READY", "BUSY",
                                           "ENDED", "LEFT"}
      BY DEF HInv, HandsTyped
    <3> QED
      BY <3>1 DEF PInv, PipesTyped, RunType
  <2>3. ~Surprised /\ ~UnknownId
    BY RunHasNoUnknownId, RunIsNotSurprised
  <2>4. Cardinality({}) = 0 /\ \A x : Cardinality({x}) = 1
    BY FS_EmptySet, FS_Singleton
  <2>5. ASSUME NEW w \in Ranks
        PROVE  Cardinality(AtRank(w)) = IF w \in manager.idle THEN 0 ELSE 1
    <3>1. CASE w \in manager.idle
      <4>1. AtRank(w) = {}
        BY <2>1, <3>1, HandOfRank DEF HandsAreFull
      <4> QED
        BY <2>4, <3>1, <4>1
    <3>2. CASE w \notin manager.idle
      <4>1. PICK id \in PendingIds : AtRank(w) = {id}
        BY <2>1, <3>2, HandOfRank DEF HandsAreFull
      <4>2. Cardinality(AtRank(w)) = 1
        BY <2>4, <4>1
      <4> QED
        BY <3>2, <4>2
    <3> QED
      BY <3>1, <3>2
  <2>6. UNION {AtRank(w) : w \in Ranks} = PendingIds
    <3>1. ASSUME NEW w \in Ranks, NEW i \in AtRank(w) PROVE i \in PendingIds
      <4>1. CASE w \in manager.idle
        BY <2>1, <3>1, <4>1, HandOfRank DEF HandsAreFull
      <4>2. CASE w \notin manager.idle
        <5>1. PICK id \in PendingIds : AtRank(w) = {id}
          BY <2>1, <4>2, HandOfRank DEF HandsAreFull
        <5> QED
          BY <3>1, <5>1
      <4> QED
        BY <4>1, <4>2
    <3>2. ASSUME NEW i \in PendingIds PROVE \E w \in Ranks : i \in AtRank(w)
      <4>1. PICK w \in Ranks : Holds(w, i)
        BY <2>1 DEF HandsAreFull
      <4>2. AtRank(w) = {i}
        BY <4>1, HandOfRank
      <4> QED
        BY <4>2
    <3> QED
      BY <3>1, <3>2
  <2>7. Cardinality(PendingIds) = Workers - Cardinality(manager.idle)
    BY HandsTally
  <2> QED
    BY <2>2, <2>3, <2>5, <2>6, <2>7 DEF RanksInStep
<1> QED
  BY <1>1, RInvariant, PTL

\* The driver is told what the ledger records, and a written ledger passes its audit as
\* soon as the two revisions are known.
THEOREM LedgersOfRunsAreWhatWasTold == RunSpec => []LedgerIsWhatWasTold
<1>1. RInv => LedgerIsWhatWasTold
  <2> SUFFICES ASSUME PInv PROVE LedgerIsWhatWasTold
    BY DEF RInv
  <2>1. PICK m, n : m = Len(told) /\ n = Len(ledger)
    OBVIOUS
  <2>2. /\ m \in Nat /\ n \in Nat /\ m <= n /\ DOMAIN told = 1..m /\ DOMAIN ledger = 1..n
        /\ ledger \in Seq(Entry) /\ told \in Seq([point : 1..Budget, answer : 0..Budget])
    BY <2>1, RunTallies DEF PInv, PipesTyped
  <2>3. \A i \in DOMAIN ledger : ledger[i].answer \in {0, ledger[i].point}
    BY DEF PInv, RowsAreSound
  <2>4. IsPrefix(told, [i \in DOMAIN ledger |-> [point |-> ledger[i].point,
                                                 answer |-> ledger[i].answer]])
    <3>1. PICK rows : rows = [i \in 1..n |-> [point |-> ledger[i].point,
                                              answer |-> ledger[i].answer]]
      OBVIOUS
    <3>2. PICK R : R = {rows[i] : i \in 1..n}
      OBVIOUS
    <3>3. rows \in [1..n -> R] /\ rows \in Seq(R) /\ Len(rows) = n
      <4>1. rows \in [1..n -> R]
        BY <3>1, <3>2
      <4>2. rows \in Seq(R)
        BY <2>2, <4>1, SeqDef
      <4>3. DOMAIN rows = 1..n /\ DOMAIN rows = 1..Len(rows) /\ Len(rows) \in Nat
        BY <3>1, <4>2, LenProperties
      <4> QED
        BY <2>2, <4>1, <4>2, <4>3
    <3>4. \A i \in 1..m : told[i] = rows[i]
      <4>1. \A i \in 1..m : told[i] = [point |-> ledger[i].point,
                                       answer |-> ledger[i].answer]
        BY <2>2 DEF PInv, TellsFollowRows
      <4>2. \A i \in 1..n : rows[i] = [point |-> ledger[i].point,
                                       answer |-> ledger[i].answer]
        BY <3>1
      <4>3. \A i \in 1..m : i \in 1..n
        BY <2>2
      <4> QED
        BY <4>1, <4>2, <4>3, Zenon
    <3>5. SubSeq(told, 1, m) = SubSeq(rows, 1, m)
      <4>1. SubSeq(told, 1, m) = [i \in 1..m |-> told[i]]
        BY <2>1, <2>2
      <4>2. SubSeq(rows, 1, m) = [i \in 1..m |-> rows[i]]
        BY <2>2, <3>3
      <4> QED
        BY <3>4, <4>1, <4>2
    <3> QED
      BY <2>1, <2>2, <3>1, <3>3, <3>5 DEF IsPrefix
  <2>5. ASSUME manager.at = "WRITTEN"
        PROVE  /\ Len(told) = Budget
               /\ CheckAccepts(ledger, manager.pinned) <=> manager.pinned
    <3>1. /\ bridge.at = "EXITED" /\ Len(ledger) = Budget /\ manager.process
          /\ manager.why = "" /\ ~Looping
      BY <2>5 DEF PInv, PlacesAreEarned, Looping
    <3>2. Len(told) = Budget /\ LedgerIds = Ids
      BY <3>1 DEF PInv, PlacesAreEarned
    <3>3. \A i \in DOMAIN ledger : ledger[i].rank \in Ranks
      <4>1. \A i \in DOMAIN ledger : ledger[i] \in Entry
        BY <2>2, LenProperties, ElementOfSeq
      <4> QED
        BY <4>1 DEF Entry
    <3> QED
      BY <3>1, <3>2, <3>3, Zenon DEF CheckAccepts, LedgerIds
  <2> QED
    BY <2>3, <2>4, <2>5 DEF LedgerIsWhatWasTold
<1> QED
  BY <1>1, RInvariant, PTL
=============================================================================
