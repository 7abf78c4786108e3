------------------------ MODULE BatchedProtocol_proofs ------------------------
(***************************************************************************)
(* Proofs about BatchedProtocol, for every budget of whole batches, every  *)
(* batch size and number of regions, and whether or not calls may fail.    *)
(*                                                                         *)
(* BInv is inductive: it says whose turn it is, by how much the counters   *)
(* and the lists of the two processes differ while a batch is on its way   *)
(* (one batch, once the runner has read it), that every slot keeps its     *)
(* number through the batch, and why whoever stopped did.                  *)
(***************************************************************************)
EXTENDS BatchedProtocol, SequenceTheorems, FunctionTheorems, FiniteSetTheorems, TLAPS

\* A whole number of batches.
IsWhole(n) == \E q \in Nat : n = q * Batch

Asked(regions) == [line |-> "ASK", regions |-> regions]
Line == {Asked(regions) : regions \in [Slots -> 1..NRegions]} \cup {[line |-> "DONE"]}
Row == [id : Ids, region : Slots, answer : 0..Budget, value : Int]
Told == [point : 1..Budget, answer : 0..Budget]

Typed ==
    /\ TypeOK
    /\ toRunner \in Seq(Line) /\ toBridge \in Seq([Slots -> 0..Budget])
    /\ records \in Seq(Row) /\ told \in Seq(Told)
    /\ IsWhole(bridge.used)

\* The runner has candidates of a batch that the bridge has not been told.
Owes == runner.at = "EVALUATE" \/ runner.why = "EVALUATION" \/ toBridge # <<>>

\* The counters of the two processes and their lists differ by the batch on its way.
CountersAgree ==
    /\ Len(told) = bridge.used
    /\ runner.candidate = bridge.used + (IF Owes THEN Batch ELSE 0)
    /\ Len(records) = bridge.used + (IF toBridge = <<>> THEN 0 ELSE Batch)

\* What a row records of the evaluation at point i: both numbers, or neither.
IsValued(row, i) == row.value = IF row.answer = 0 THEN NoValue ELSE MinimizedAt(i)

\* What the driver has been told is what was recorded, and what is on the way too.
RowsAreTold ==
    /\ \A i \in DOMAIN records : records[i].id = i - 1 /\ records[i].answer \in {0, i}
    /\ \A i \in DOMAIN records : IsValued(records[i], i)
    /\ \A i \in DOMAIN told : told[i] = [point |-> i, answer |-> records[i].answer]
    /\ toBridge # <<>> =>
          \A i \in Slots : toBridge[1][i] = records[bridge.used + i].answer

\* One line at most is on its way, and it says whose turn it is.
TurnsAreTaken ==
    /\ toRunner # <<>> => runner.at = "HEADER" /\ bridge.at \in {"READ", "EXITED"}
    /\ toRunner # <<>> /\ bridge.at = "READ" => Head(toRunner).line = "ASK"
    /\ toRunner # <<>> /\ bridge.at = "EXITED" => Head(toRunner).line = "DONE"
    /\ bridge.at = "ASK" => toRunner = <<>> /\ ~Owes /\ runner.at = "HEADER"
    /\ bridge.at = "READ" => Owes # (toRunner # <<>>) /\ bridge.used < Budget
    /\ bridge.at = "EXITED" => ~Owes /\ bridge.used = Budget
    /\ bridge.at = "EXITED" /\ runner.at = "HEADER" => toRunner # <<>>
    /\ runner.at = "EVALUATE" => bridge.at = "READ" /\ toBridge = <<>>
    /\ runner.why = "EVALUATION" => bridge.at \in {"READ", "ABORTED"} /\ toBridge = <<>>

\* The results collected are candidates of the batch, each once.
BatchIsCollected ==
    runner.at = "EVALUATE" =>
        /\ regionIds \in [Slots -> Slots]
        /\ \A i \in DOMAIN results : results[i] \in BatchIds
        /\ \A i, j \in DOMAIN results : results[i] = results[j] => i = j

\* How both ended, and why.
EndsAreEarned ==
    /\ bridge.at = "ABORTED" <=> bridge.why # ""
    /\ bridge.why = "EOF" => runner.why = "EVALUATION"
    /\ stdinClosed => runner.at \in {"REAP", "RETURNED", "RAISED"}
    /\ stdinClosed /\ bridge.at = "READ" => runner.why = "EVALUATION"
    /\ runner.at \in {"HEADER", "EVALUATE"} => runner.why = ""
    /\ runner.why = "" /\ runner.at \notin {"HEADER", "EVALUATE"} => bridge.at = "EXITED"
    /\ runner.at = "RAISED" => runner.why # ""
    /\ runner.at \in {"REAP", "RETURNED"} => runner.why = ""
    /\ runner.why = "EOF" => bridge.why \in {"ASK", "TELL"}
    /\ runner.why = "EVALUATION" => \E id \in Ids : futures[id] = "RAISED"
    /\ runner.at \in {"REAP", "RETURNED", "RAISED"} => Running = {}

BInv == /\ Typed /\ CountersAgree /\ RowsAreTold /\ TurnsAreTaken /\ BatchIsCollected
        /\ EndsAreEarned
-----------------------------------------------------------------------------
\* Candidates come in whole batches: what is left of the budget holds the next one.
LEMMA WholeBatches ==
    ASSUME NEW u \in Nat, IsWhole(u), u < Budget
    PROVE  u + Batch <= Budget /\ IsWhole(u + Batch) /\ u + Batch \in Nat
<1>1. PICK q \in Nat : u = q * Batch
  BY DEF IsWhole
<1>2. Budget \in Nat /\ Batch \in Nat /\ Batch > 0 /\ Budget % Batch = 0
  BY BatchedAssumption
<1>3. PICK n \in Nat : Budget = n * Batch
  <2>1. Budget \div Batch \in Nat /\ Budget = Batch * (Budget \div Batch) + (Budget % Batch)
    BY <1>2
  <2> QED
    BY <1>2, <2>1
<1>4. q + 1 <= n
  BY <1>1, <1>2, <1>3
<1>5. (q + 1) * Batch <= n * Batch
  BY <1>2, <1>4
<1>6. (q + 1) * Batch = u + Batch
  BY <1>1, <1>2
<1> QED
  BY <1>2, <1>3, <1>5, <1>6 DEF IsWhole

\* Candidate ids collected once each are at most a batch.
LEMMA CollectedFit ==
    ASSUME NEW n \in Nat, NEW m \in Nat, NEW f \in [1..n -> m..(m + Batch - 1)],
           \A i, j \in 1..n : f[i] = f[j] => i = j
    PROVE  n <= Batch
<1>1. Batch \in Nat
  BY BatchedAssumption
<1> DEFINE S == 1..n
           T == m..(m + Batch - 1)
<1>2. IsFiniteSet(S) /\ IsFiniteSet(T)
  BY <1>1, FS_Interval
<1>3. Cardinality(S) = n
  BY FS_Interval
<1>4. Cardinality(T) = Batch
  BY <1>1, FS_Interval
<1>5. f \in Injection(S, T)
  BY DEF Injection, IsInjective
<1> HIDE DEF S, T
<1>6. Cardinality(S) <= Cardinality(T)
  BY <1>2, <1>5, FS_Injection
<1> QED
  BY <1>3, <1>4, <1>6

\* The invariant holds before either process has run.
LEMMA InitiallyBInv == Init => BInv
<1> SUFFICES ASSUME Init PROVE BInv
  OBVIOUS
<1>0. Budget \in Nat /\ Batch \in Nat /\ Batch > 0 /\ Budget > 0
  BY BatchedAssumption
<1>1. Typed
  <2>1. /\ bridge = [at |-> "ASK", used |-> 0, regions |-> <<>>, why |-> ""]
        /\ runner = [at |-> "HEADER", candidate |-> 0, why |-> ""]
        /\ futures = [id \in Ids |-> NoFuture]
        /\ results = <<>> /\ records = <<>> /\ toRunner = <<>> /\ toBridge = <<>>
        /\ stdinClosed = FALSE /\ told = <<>>
    BY DEF Init
  <2>2. \A S : <<>> \in Seq(S)
    OBVIOUS
  <2>3. /\ Len(results) = 0 /\ Len(records) = 0 /\ Len(told) = 0
        /\ Len(toRunner) = 0 /\ Len(toBridge) = 0 /\ 0 \in 0..Budget
    <3>1. Len(<<>>) = 0
      OBVIOUS
    <3>2. results = <<>> /\ records = <<>> /\ told = <<>> /\ toRunner = <<>> /\ toBridge = <<>>
      BY <2>1
    <3>3. /\ Len(results) = 0 /\ Len(records) = 0 /\ Len(told) = 0
          /\ Len(toRunner) = 0 /\ Len(toBridge) = 0
      BY <3>1, <3>2, Zenon
    <3> QED
      BY <1>0, <3>3
  <2>4. TypeOK
    <3>1. bridge \in [at : {"ASK", "READ", "EXITED", "ABORTED"}, used : 0..Budget,
                      regions : {<<>>} \cup [Slots -> 1..NRegions],
                      why : {"", "ASK", "TELL", "EOF"}]
      BY <2>1, <2>3
    <3>2. runner \in [at : {"HEADER", "EVALUATE", "JOIN", "REAP", "RETURNED", "RAISED"},
                      candidate : 0..Budget, why : {"", "EOF", "EVALUATION"}]
      BY <2>1, <2>3
    <3>3. futures \in [Ids -> {NoFuture, "RUNNING", "VALUE", "FAIL", "RAISED"}]
      BY <2>1
    <3> QED
      <4>1. results \in Seq(Ids) /\ stdinClosed \in BOOLEAN
        BY <2>1, <2>2
      <4>2. /\ Len(results) <= Batch /\ Len(records) <= Budget /\ Len(told) <= Budget
            /\ Len(toRunner) <= 1 /\ Len(toBridge) <= 1
        BY <1>0, <2>3
      <4> QED
        BY <3>1, <3>2, <3>3, <4>1, <4>2 DEF TypeOK
  <2>5. IsWhole(bridge.used)
    <3>1. 0 = 0 * Batch /\ 0 \in Nat
      BY <1>0
    <3> QED
      BY <2>1, <3>1 DEF IsWhole
  <2> QED
    BY <2>1, <2>2, <2>4, <2>5 DEF Typed
<1>2. CountersAgree /\ RowsAreTold
  <2>1. /\ records = <<>> /\ told = <<>> /\ toBridge = <<>> /\ bridge.used = 0
        /\ runner.at = "HEADER" /\ runner.candidate = 0 /\ runner.why = ""
    BY DEF Init
  <2>2. Len(records) = 0 /\ Len(told) = 0
    <3>1. Len(<<>>) = 0
      OBVIOUS
    <3> QED
      BY <2>1, <3>1, Zenon
  <2>3. ~Owes
    BY <2>1 DEF Owes
  <2>4. CountersAgree
    <3>1. (IF Owes THEN Batch ELSE 0) = 0 /\ (IF toBridge = <<>> THEN 0 ELSE Batch) = 0
      BY <2>1, <2>3, Zenon
    <3>2. 0 + 0 = 0
      OBVIOUS
    <3> QED
      BY <2>1, <2>2, <3>1, <3>2, Zenon DEF CountersAgree
  <2> QED
    <3>1. DOMAIN records = {} /\ DOMAIN told = {}
      <4>1. DOMAIN <<>> = {}
        OBVIOUS
      <4> QED
        BY <2>1, <4>1, Zenon
    <3>2. RowsAreTold
      BY <2>1, <3>1, Zenon DEF RowsAreTold
    <3> QED
      BY <2>4, <3>2
<1>3. TurnsAreTaken /\ BatchIsCollected /\ EndsAreEarned
  BY <1>0 DEF Init, TurnsAreTaken, BatchIsCollected, EndsAreEarned, Owes
<1> QED
  BY <1>1, <1>2, <1>3 DEF BInv

\* A refusal of the driver, or the end of its input, stops the bridge: nothing else
\* changes.
LEMMA StopsKeep ==
    ASSUME BInv, BridgeAskFails \/ BridgeTellFails \/ BridgeEndOfInput
    PROVE  BInv'
<1>1. PICK why \in {"ASK", "TELL", "EOF"} :
          /\ Stop(why)
          /\ why = "ASK" => bridge.at = "ASK"
          /\ why = "TELL" => bridge.at = "READ" /\ toBridge # <<>>
          /\ why = "EOF" => bridge.at = "READ" /\ toBridge = <<>> /\ stdinClosed
  BY DEF BridgeAskFails, BridgeTellFails, BridgeEndOfInput
<1>2. /\ Typed /\ CountersAgree /\ RowsAreTold /\ TurnsAreTaken /\ BatchIsCollected
      /\ EndsAreEarned
  BY DEF BInv
<1>3. /\ runner' = runner /\ regionIds' = regionIds /\ futures' = futures
      /\ results' = results /\ records' = records /\ toRunner' = toRunner
      /\ toBridge' = toBridge /\ stdinClosed' = stdinClosed /\ told' = told
  BY <1>1 DEF Stop
<1>4. bridge \in [at : {"ASK", "READ", "EXITED", "ABORTED"}, used : 0..Budget,
                  regions : {<<>>} \cup [Slots -> 1..NRegions],
                  why : {"", "ASK", "TELL", "EOF"}]
  BY <1>2 DEF Typed, TypeOK
<1>5. /\ bridge'.at = "ABORTED" /\ bridge'.used = bridge.used /\ bridge'.why = why
      /\ bridge' \in [at : {"ASK", "READ", "EXITED", "ABORTED"}, used : 0..Budget,
                      regions : {<<>>} \cup [Slots -> 1..NRegions],
                      why : {"", "ASK", "TELL", "EOF"}]
  BY <1>1, <1>4 DEF Stop
<1>6. Owes' <=> Owes
  BY <1>3 DEF Owes
<1>7. Running' = Running
  BY <1>3 DEF Running
<1>8. Typed'
  BY <1>2, <1>3, <1>5 DEF Typed, TypeOK, IsWhole
<1>9. CountersAgree' /\ RowsAreTold'
  BY <1>2, <1>3, <1>5, <1>6 DEF CountersAgree, RowsAreTold
<1>10. TurnsAreTaken'
  <2>1. toRunner = <<>>
    <3>1. CASE why = "EOF"
      BY <1>1, <1>2, <3>1 DEF TurnsAreTaken, EndsAreEarned, Owes
    <3>2. CASE why = "ASK"
      BY <1>1, <1>2, <3>2 DEF TurnsAreTaken
    <3>3. CASE why = "TELL"
      BY <1>1, <1>2, <3>3 DEF TurnsAreTaken, Owes
    <3> QED
      BY <3>1, <3>2, <3>3
  <2>2. runner.at # "EVALUATE"
    BY <1>1, <1>2 DEF TurnsAreTaken, EndsAreEarned
  <2>3. runner.why = "EVALUATION" => toBridge = <<>>
    BY <1>2 DEF TurnsAreTaken
  <2> QED
    BY <1>3, <1>5, <2>1, <2>2, <2>3 DEF TurnsAreTaken
<1>11. BatchIsCollected'
  BY <1>2, <1>3 DEF BatchIsCollected, BatchIds, First
<1>12. EndsAreEarned'
  BY <1>1, <1>2, <1>3, <1>5, <1>7 DEF EndsAreEarned
<1> QED
  BY <1>8, <1>9, <1>10, <1>11, <1>12 DEF BInv

\* A line put into an empty pipe is all there is in it.
LEMMA OneLine ==
    ASSUME NEW S, NEW e \in S, NEW s, s = <<>>
    PROVE  /\ Append(s, e) \in Seq(S) /\ Append(s, e) # <<>>
           /\ Len(Append(s, e)) = 1 /\ Head(Append(s, e)) = e /\ Append(s, e)[1] = e
           /\ Tail(Append(s, e)) = <<>>
<1>1. s \in Seq(S) /\ Len(s) = 0
  <2>1. Len(<<>>) = 0 /\ <<>> \in Seq(S)
    OBVIOUS
  <2> QED
    BY <2>1, Zenon
<1>2. /\ Append(s, e) \in Seq(S) /\ Append(s, e) # <<>> /\ Len(Append(s, e)) = 1
      /\ Append(s, e)[1] = e
  BY <1>1, AppendProperties
<1>3. Head(Append(s, e)) = e /\ Tail(Append(s, e)) = <<>>
  BY <1>1, HeadTailAppend
<1> QED
  BY <1>2, <1>3

\* The bridge asks the driver for a batch and announces it.
LEMMA BridgeAskKeeps ==
    ASSUME BInv, BridgeAsk
    PROVE  BInv'
<1>1. PICK regions \in [Slots -> 1..NRegions] :
          /\ bridge' = [bridge EXCEPT !.at = "READ", !.regions = regions]
          /\ toRunner' = Append(toRunner, Asked(regions))
  BY DEF BridgeAsk, Asked
<1>2. /\ Typed /\ CountersAgree /\ RowsAreTold /\ TurnsAreTaken /\ BatchIsCollected
      /\ EndsAreEarned
  BY DEF BInv
<1>3. /\ runner' = runner /\ regionIds' = regionIds /\ futures' = futures
      /\ results' = results /\ records' = records
      /\ toBridge' = toBridge /\ stdinClosed' = stdinClosed /\ told' = told
  BY DEF BridgeAsk
<1>4. /\ bridge \in [at : {"ASK", "READ", "EXITED", "ABORTED"}, used : 0..Budget,
                     regions : {<<>>} \cup [Slots -> 1..NRegions],
                     why : {"", "ASK", "TELL", "EOF"}]
      /\ Budget \in Nat
  BY <1>2, BatchedAssumption DEF Typed, TypeOK
<1>5. /\ bridge'.at = "READ" /\ bridge'.used = bridge.used /\ bridge'.why = bridge.why
      /\ bridge' \in [at : {"ASK", "READ", "EXITED", "ABORTED"}, used : 0..Budget,
                      regions : {<<>>} \cup [Slots -> 1..NRegions],
                      why : {"", "ASK", "TELL", "EOF"}]
  BY <1>1, <1>4
<1>6. bridge.at = "ASK" /\ bridge.used < Budget
  <2>1. bridge.used \in 0..Budget
    BY <1>4, Zenon
  <2>2. bridge.at = "ASK" /\ ~(bridge.used >= Budget)
    BY DEF BridgeAsk, AllUsed
  <2> QED
    BY <2>1, <2>2, BatchedAssumption
<1>7. toRunner = <<>> /\ ~Owes /\ runner.at = "HEADER"
  BY <1>2, <1>6 DEF TurnsAreTaken
<1>8. Asked(regions) \in Line
  BY DEF Line
<1>9. /\ toRunner' \in Seq(Line) /\ toRunner' # <<>> /\ Len(toRunner') = 1
      /\ Head(toRunner') = Asked(regions)
  BY <1>1, <1>7, <1>8, OneLine
<1>10. Head(toRunner').line = "ASK"
  BY <1>9 DEF Asked
<1>11. ~Owes'
  BY <1>3, <1>7 DEF Owes
<1>12. Running' = Running
  BY <1>3 DEF Running
<1>13. Typed'
  <2>1. TypeOK'
    <3>1. /\ TypeOK /\ Len(toRunner') <= 1
      BY <1>2, <1>9 DEF Typed
    <3> QED
      BY <1>3, <1>5, <3>1, Zenon DEF TypeOK, Ids, Slots
  <2> QED
    BY <1>2, <1>3, <1>5, <1>9, <2>1, Zenon DEF Typed, IsWhole, Line, Asked, Row, Told, Slots
<1>14. CountersAgree' /\ RowsAreTold'
  BY <1>2, <1>3, <1>5, <1>7, <1>11 DEF CountersAgree, RowsAreTold
<1>15. TurnsAreTaken'
  BY <1>2, <1>3, <1>5, <1>6, <1>7, <1>9, <1>10, <1>11 DEF TurnsAreTaken, EndsAreEarned
<1>16. BatchIsCollected'
  BY <1>3, <1>7 DEF BatchIsCollected
<1>17. EndsAreEarned'
  BY <1>2, <1>3, <1>5, <1>6, <1>7, <1>12 DEF EndsAreEarned
<1> QED
  BY <1>13, <1>14, <1>15, <1>16, <1>17 DEF BInv

\* The bridge announces the end when the budget is used.
LEMMA BridgeDoneKeeps ==
    ASSUME BInv, BridgeDone
    PROVE  BInv'
<1>1. /\ bridge.at = "ASK" /\ bridge.used >= Budget
      /\ bridge' = [bridge EXCEPT !.at = "EXITED"]
      /\ toRunner' = Append(toRunner, [line |-> "DONE"])
  BY DEF BridgeDone, AllUsed
<1>2. /\ Typed /\ CountersAgree /\ RowsAreTold /\ TurnsAreTaken /\ BatchIsCollected
      /\ EndsAreEarned
  BY DEF BInv
<1>3. /\ runner' = runner /\ regionIds' = regionIds /\ futures' = futures
      /\ results' = results /\ records' = records
      /\ toBridge' = toBridge /\ stdinClosed' = stdinClosed /\ told' = told
  BY DEF BridgeDone
<1>4. /\ bridge \in [at : {"ASK", "READ", "EXITED", "ABORTED"}, used : 0..Budget,
                     regions : {<<>>} \cup [Slots -> 1..NRegions],
                     why : {"", "ASK", "TELL", "EOF"}]
      /\ Budget \in Nat
  BY <1>2, BatchedAssumption DEF Typed, TypeOK
<1>5. /\ bridge'.at = "EXITED" /\ bridge'.used = bridge.used /\ bridge'.why = bridge.why
      /\ bridge' \in [at : {"ASK", "READ", "EXITED", "ABORTED"}, used : 0..Budget,
                      regions : {<<>>} \cup [Slots -> 1..NRegions],
                      why : {"", "ASK", "TELL", "EOF"}]
  BY <1>1, <1>4
<1>6. bridge.used = Budget
  <2>1. bridge.used \in 0..Budget
    BY <1>4, Zenon
  <2> QED
    BY <1>1, <2>1, BatchedAssumption
<1>7. toRunner = <<>> /\ ~Owes /\ runner.at = "HEADER"
  BY <1>1, <1>2 DEF TurnsAreTaken
<1>8. [line |-> "DONE"] \in Line
  BY DEF Line
<1>9. /\ toRunner' \in Seq(Line) /\ toRunner' # <<>> /\ Len(toRunner') = 1
      /\ Head(toRunner') = [line |-> "DONE"]
  BY <1>1, <1>7, <1>8, OneLine
<1>10. Head(toRunner').line = "DONE"
  BY <1>9
<1>11. ~Owes'
  BY <1>3, <1>7 DEF Owes
<1>12. Running' = Running
  BY <1>3 DEF Running
<1>13. Typed'
  <2>1. TypeOK'
    <3>1. /\ TypeOK /\ Len(toRunner') <= 1
      BY <1>2, <1>9 DEF Typed
    <3> QED
      BY <1>3, <1>5, <3>1, Zenon DEF TypeOK, Ids, Slots
  <2> QED
    BY <1>2, <1>3, <1>5, <1>9, <2>1, Zenon DEF Typed, IsWhole, Line, Asked, Row, Told, Slots
<1>14. CountersAgree' /\ RowsAreTold'
  BY <1>2, <1>3, <1>5, <1>7, <1>11 DEF CountersAgree, RowsAreTold
<1>15. TurnsAreTaken'
  BY <1>2, <1>3, <1>5, <1>6, <1>7, <1>9, <1>10, <1>11 DEF TurnsAreTaken, EndsAreEarned
<1>16. BatchIsCollected'
  BY <1>3, <1>7 DEF BatchIsCollected
<1>17. EndsAreEarned'
  BY <1>1, <1>2, <1>3, <1>5, <1>7, <1>12 DEF EndsAreEarned
<1> QED
  BY <1>13, <1>14, <1>15, <1>16, <1>17 DEF BInv

\* What the type of the invariant says of the counters and the lists.
LEMMA Shapes ==
    ASSUME BInv
    PROVE  /\ Budget \in Nat /\ Batch \in Nat /\ Batch > 0 /\ NRegions \in Nat
           /\ bridge.used \in 0..Budget /\ bridge.used \in Nat
           /\ runner.candidate \in 0..Budget /\ runner.candidate \in Nat
           /\ told \in Seq(Told) /\ records \in Seq(Row) /\ Len(told) = bridge.used
           /\ DOMAIN told = 1..Len(told) /\ DOMAIN records = 1..Len(records)
           /\ results \in Seq(Ids) /\ Len(results) <= Batch
           /\ DOMAIN results = 1..Len(results)
           /\ toBridge \in Seq([Slots -> 0..Budget]) /\ toRunner \in Seq(Line)
           /\ Len(toBridge) <= 1 /\ Len(toRunner) <= 1
           /\ Len(records) \in Nat /\ Len(told) \in Nat /\ Len(results) \in Nat
<1>1. Budget \in Nat /\ Batch \in Nat /\ Batch > 0 /\ NRegions \in Nat
  BY BatchedAssumption
<1>2. TypeOK
  BY DEF BInv, Typed
<1>3. bridge.used \in 0..Budget /\ runner.candidate \in 0..Budget
  BY <1>2, Zenon DEF TypeOK
<1>4. /\ told \in Seq(Told) /\ records \in Seq(Row) /\ Len(told) = bridge.used
      /\ toBridge \in Seq([Slots -> 0..Budget]) /\ toRunner \in Seq(Line)
  BY DEF BInv, Typed, CountersAgree
<1>5. /\ results \in Seq(Ids) /\ Len(results) <= Batch
      /\ Len(toBridge) <= 1 /\ Len(toRunner) <= 1
  BY <1>2 DEF TypeOK
<1>6. \A S : \A s \in Seq(S) : Len(s) \in Nat /\ DOMAIN s = 1..Len(s)
  BY LenProperties
<1> QED
  BY <1>1, <1>3, <1>4, <1>5, <1>6

\* A line that was alone in a pipe leaves it empty.
LEMMA LastLine ==
    ASSUME NEW S, NEW s \in Seq(S), s # <<>>, Len(s) <= 1
    PROVE  /\ Head(s) \in S /\ s[1] = Head(s) /\ Tail(s) = <<>> /\ Tail(s) \in Seq(S)
           /\ Len(Tail(s)) = 0
<1>1. /\ Head(s) \in S /\ Tail(s) \in Seq(S) /\ Len(Tail(s)) = Len(s) - 1
  BY HeadTailProperties
<1>2. Len(s) \in Nat /\ Len(Tail(s)) \in Nat
  BY <1>1, LenProperties
<1>3. Len(Tail(s)) = 0
  BY <1>1, <1>2
<1>4. Tail(s) = <<>>
  BY <1>1, <1>3, EmptySeq
<1>5. Head(s) = s[1]
  OBVIOUS
<1> QED
  BY <1>1, <1>3, <1>4, <1>5

\* What the bridge tells the driver of a batch continues what it told before.
LEMMA TellsAreRows ==
    ASSUME BInv, bridge.at = "READ", toBridge # <<>>,
           told' = told \o [i \in Slots |-> [point |-> bridge.used + i,
                                             answer |-> Head(toBridge)[i]]]
    PROVE  /\ told' \in Seq(Told) /\ Len(told') = bridge.used + Batch
           /\ \A i \in DOMAIN told' : told'[i] = [point |-> i, answer |-> records[i].answer]
           /\ bridge.used + Batch <= Budget /\ IsWhole(bridge.used + Batch)
           /\ bridge.used + Batch \in Nat /\ Len(records) = bridge.used + Batch
<1>1. /\ Budget \in Nat /\ Batch \in Nat /\ Batch > 0 /\ bridge.used \in Nat
      /\ told \in Seq(Told) /\ Len(told) = bridge.used /\ DOMAIN told = 1..Len(told)
      /\ toBridge \in Seq([Slots -> 0..Budget]) /\ Len(toBridge) <= 1
  BY Shapes
<1>2. Typed /\ CountersAgree /\ RowsAreTold /\ TurnsAreTaken
  BY DEF BInv
<1>3. bridge.used < Budget /\ IsWhole(bridge.used)
  BY <1>2 DEF Typed, TurnsAreTaken
<1>4. /\ bridge.used + Batch <= Budget /\ IsWhole(bridge.used + Batch)
      /\ bridge.used + Batch \in Nat
  BY <1>1, <1>3, WholeBatches
<1>5. Len(records) = bridge.used + Batch
  BY <1>2 DEF CountersAgree
<1>6. Head(toBridge) \in [Slots -> 0..Budget] /\ toBridge[1] = Head(toBridge)
  BY <1>1, LastLine
<1> DEFINE more == [i \in Slots |-> [point |-> bridge.used + i, answer |-> Head(toBridge)[i]]]
<1>7. more \in Seq(Told) /\ Len(more) = Batch
  <2>1. \A i \in Slots : [point |-> bridge.used + i, answer |-> Head(toBridge)[i]] \in Told
    BY <1>1, <1>4, <1>6 DEF Slots, Told
  <2>2. more \in [1..Batch -> Told]
    BY <2>1 DEF Slots
  <2> HIDE DEF more
  <2>3. more \in Seq(Told)
    BY <1>1, <2>2
  <2> QED
    BY <1>1, <2>2, <2>3, LenProperties
<1>8. \A i \in 1..Batch : more[i] = [point |-> bridge.used + i,
                                     answer |-> records[bridge.used + i].answer]
  BY <1>2, <1>6 DEF Slots, RowsAreTold
<1> HIDE DEF more
<1>9. told' = told \o more
  BY DEF more
<1>10. PICK S : S = Told
  OBVIOUS
<1>11. /\ told' \in Seq(S) /\ Len(told') = bridge.used + Batch
       /\ \A i \in 1..(bridge.used + Batch) :
             told'[i] = IF i <= bridge.used THEN told[i] ELSE more[i - bridge.used]
  <2>1. told \in Seq(S) /\ more \in Seq(S)
    BY <1>1, <1>7, <1>10
  <2>2. /\ told \o more \in Seq(S) /\ Len(told \o more) = Len(told) + Len(more)
        /\ \A i \in 1..Len(told) + Len(more) :
              (told \o more)[i] = IF i <= Len(told) THEN told[i] ELSE more[i - Len(told)]
    BY <2>1, ConcatProperties
  <2>3. Len(told) = bridge.used /\ Len(more) = Batch
    BY <1>1, <1>7
  <2> QED
    BY <1>9, <2>2, <2>3
<1>12. DOMAIN told' = 1..(bridge.used + Batch)
  BY <1>11, LenProperties
<1>13. ASSUME NEW i \in DOMAIN told'
       PROVE  told'[i] = [point |-> i, answer |-> records[i].answer]
  <2>1. CASE i <= bridge.used
    <3>1. i \in DOMAIN told
      BY <1>1, <1>12, <1>13, <2>1
    <3> QED
      BY <1>2, <1>11, <1>12, <1>13, <2>1, <3>1 DEF RowsAreTold
  <2>2. CASE ~(i <= bridge.used)
    <3>1. i - bridge.used \in 1..Batch /\ bridge.used + (i - bridge.used) = i
      BY <1>1, <1>12, <1>13, <2>2
    <3>2. told'[i] = more[i - bridge.used]
      BY <1>11, <1>12, <1>13, <2>2
    <3> QED
      BY <1>8, <3>1, <3>2
  <2> QED
    BY <2>1, <2>2
<1> QED
  BY <1>4, <1>5, <1>10, <1>11, <1>13

\* The bridge tells the driver the answers of a batch.
LEMMA BridgeTellKeeps ==
    ASSUME BInv, BridgeTell
    PROVE  BInv'
<1>1. /\ bridge.at = "READ" /\ toBridge # <<>>
      /\ told' = told \o [i \in Slots |-> [point |-> bridge.used + i,
                                           answer |-> Head(toBridge)[i]]]
      /\ toBridge' = Tail(toBridge)
      /\ bridge' = [bridge EXCEPT !.at = "ASK", !.used = @ + Batch, !.regions = <<>>]
  BY DEF BridgeTell
<1>2. /\ Typed /\ CountersAgree /\ RowsAreTold /\ TurnsAreTaken /\ BatchIsCollected
      /\ EndsAreEarned
  BY DEF BInv
<1>3. /\ runner' = runner /\ regionIds' = regionIds /\ futures' = futures
      /\ results' = results /\ records' = records
      /\ toRunner' = toRunner /\ stdinClosed' = stdinClosed
  BY DEF BridgeTell
<1>4. /\ bridge \in [at : {"ASK", "READ", "EXITED", "ABORTED"}, used : 0..Budget,
                     regions : {<<>>} \cup [Slots -> 1..NRegions],
                     why : {"", "ASK", "TELL", "EOF"}]
      /\ runner.at \in {"HEADER", "EVALUATE", "JOIN", "REAP", "RETURNED", "RAISED"}
      /\ runner.why \in {"", "EOF", "EVALUATION"}
  BY <1>2, Zenon DEF Typed, TypeOK
<1>5. /\ told' \in Seq(Told) /\ Len(told') = bridge.used + Batch
      /\ \A i \in DOMAIN told' : told'[i] = [point |-> i, answer |-> records[i].answer]
      /\ bridge.used + Batch <= Budget /\ IsWhole(bridge.used + Batch)
      /\ bridge.used + Batch \in Nat /\ Len(records) = bridge.used + Batch
  BY <1>1, TellsAreRows
<1>6. /\ Budget \in Nat /\ bridge.used \in Nat
      /\ toBridge \in Seq([Slots -> 0..Budget]) /\ Len(toBridge) <= 1
  BY Shapes
<1>7. toBridge' = <<>> /\ toBridge' \in Seq([Slots -> 0..Budget]) /\ Len(toBridge') = 0
  BY <1>1, <1>6, LastLine
<1>8. bridge.used + Batch \in 0..Budget
  BY <1>5, <1>6
<1>9. /\ bridge'.at = "ASK" /\ bridge'.used = bridge.used + Batch /\ bridge'.why = bridge.why
      /\ bridge' \in [at : {"ASK", "READ", "EXITED", "ABORTED"}, used : 0..Budget,
                      regions : {<<>>} \cup [Slots -> 1..NRegions],
                      why : {"", "ASK", "TELL", "EOF"}]
  BY <1>1, <1>4, <1>8
<1>10. Owes /\ toRunner = <<>> /\ runner.at # "EVALUATE" /\ runner.why # "EVALUATION"
  BY <1>1, <1>2 DEF TurnsAreTaken, Owes
<1>11. ~Owes'
  BY <1>3, <1>7, <1>10 DEF Owes
<1>12. Running' = Running
  BY <1>3 DEF Running
<1>13. bridge.why = "" /\ runner.at = "HEADER"
  BY <1>1, <1>2, <1>4, <1>10 DEF EndsAreEarned
<1>14. Typed'
  <2>1. TypeOK'
    <3>1. TypeOK /\ Len(told') <= Budget /\ Len(toBridge') <= 1
      BY <1>2, <1>5, <1>7 DEF Typed
    <3> QED
      BY <1>3, <1>9, <3>1, Zenon DEF TypeOK, Ids, Slots
  <2>2. IsWhole(bridge'.used)
    BY <1>5, <1>9
  <2>3. toRunner \in Seq(Line) /\ records \in Seq(Row)
    BY <1>2 DEF Typed
  <2> QED
    BY <1>3, <1>5, <1>7, <2>1, <2>2, <2>3, Zenon
       DEF Typed, IsWhole, Line, Asked, Row, Told, Slots, Ids
<1>15. CountersAgree'
  <2>1. runner.candidate = bridge.used + Batch
    BY <1>2, <1>10, Zenon DEF CountersAgree
  <2>2. /\ (IF Owes THEN Batch ELSE 0)' = 0
        /\ (IF toBridge = <<>> THEN 0 ELSE Batch)' = 0
    BY <1>7, <1>11
  <2>3. (bridge.used + Batch) + 0 = bridge.used + Batch
    BY <1>5
  <2> QED
    BY <1>3, <1>5, <1>9, <2>1, <2>2, <2>3 DEF CountersAgree
<1>16. RowsAreTold'
  BY <1>2, <1>3, <1>5, <1>7 DEF RowsAreTold
<1>17. TurnsAreTaken'
  BY <1>3, <1>7, <1>9, <1>10, <1>11, <1>13 DEF TurnsAreTaken
<1>18. BatchIsCollected'
  BY <1>3, <1>10 DEF BatchIsCollected
<1>19. EndsAreEarned'
  BY <1>2, <1>3, <1>9, <1>12, <1>13 DEF EndsAreEarned
<1> QED
  BY <1>14, <1>15, <1>16, <1>17, <1>18, <1>19 DEF BInv

\* The runner reads a batch and starts its evaluations.
LEMMA ReadAskKeeps ==
    ASSUME BInv, ReadAsk
    PROVE  BInv'
<1>1. /\ runner.at = "HEADER" /\ toRunner # <<>> /\ Head(toRunner).line = "ASK"
      /\ regionIds' = [i \in DOMAIN Head(toRunner).regions |-> i]
      /\ futures' = [id \in Ids |-> IF id \in runner.candidate..(runner.candidate + Batch - 1)
                                    THEN "RUNNING" ELSE futures[id]]
      /\ runner' = [runner EXCEPT !.at = "EVALUATE", !.candidate = @ + Batch]
      /\ results' = <<>> /\ toRunner' = Tail(toRunner)
  BY DEF ReadAsk
<1>2. /\ Typed /\ CountersAgree /\ RowsAreTold /\ TurnsAreTaken /\ BatchIsCollected
      /\ EndsAreEarned
  BY DEF BInv
<1>3. /\ bridge' = bridge /\ records' = records
      /\ toBridge' = toBridge /\ stdinClosed' = stdinClosed /\ told' = told
  BY DEF ReadAsk
<1>4. /\ runner \in [at : {"HEADER", "EVALUATE", "JOIN", "REAP", "RETURNED", "RAISED"},
                     candidate : 0..Budget, why : {"", "EOF", "EVALUATION"}]
      /\ futures \in [Ids -> {NoFuture, "RUNNING", "VALUE", "FAIL", "RAISED"}]
  BY <1>2, Zenon DEF Typed, TypeOK
<1>5. /\ Budget \in Nat /\ Batch \in Nat /\ bridge.used \in Nat /\ runner.candidate \in Nat
      /\ toRunner \in Seq(Line) /\ Len(toRunner) <= 1
  BY Shapes
<1>6. bridge.at = "READ"
  BY <1>1, <1>2 DEF TurnsAreTaken
<1>7. ~Owes /\ bridge.used < Budget /\ IsWhole(bridge.used)
  BY <1>1, <1>2, <1>6 DEF TurnsAreTaken, Typed
<1>8. runner.candidate = bridge.used
  BY <1>2, <1>5, <1>7 DEF CountersAgree
<1>9. bridge.used + Batch <= Budget /\ bridge.used + Batch \in Nat
  BY <1>5, <1>7, WholeBatches
<1>10. /\ toRunner' = <<>> /\ toRunner' \in Seq(Line) /\ Len(toRunner') = 0
       /\ Head(toRunner) \in Line
  BY <1>1, <1>5, LastLine
<1>11. regionIds' \in [Slots -> Slots]
  <2>1. PICK regions \in [Slots -> 1..NRegions] : Head(toRunner) = Asked(regions)
    BY <1>1, <1>10 DEF Line
  <2>2. DOMAIN Head(toRunner).regions = Slots
    BY <2>1 DEF Asked
  <2> QED
    BY <1>1, <2>2
<1>12. bridge.used + Batch \in 0..Budget
  BY <1>5, <1>9
<1>13. /\ runner'.at = "EVALUATE" /\ runner'.candidate = bridge.used + Batch
       /\ runner'.why = runner.why
       /\ runner' \in [at : {"HEADER", "EVALUATE", "JOIN", "REAP", "RETURNED", "RAISED"},
                       candidate : 0..Budget, why : {"", "EOF", "EVALUATION"}]
  BY <1>1, <1>4, <1>8, <1>12
<1>14. futures' \in [Ids -> {NoFuture, "RUNNING", "VALUE", "FAIL", "RAISED"}]
  BY <1>1, <1>4
<1>15. Owes' /\ runner.why = "" /\ toBridge = <<>>
  BY <1>1, <1>2, <1>7, <1>13 DEF Owes, EndsAreEarned
<1>16. results' \in Seq(Ids) /\ Len(results') = 0 /\ DOMAIN results' = {}
  <2>1. Len(<<>>) = 0 /\ <<>> \in Seq(Ids) /\ DOMAIN <<>> = {}
    OBVIOUS
  <2> QED
    BY <1>1, <2>1, Zenon
<1>17. Typed'
  <2>1. TypeOK'
    <3>1. TypeOK /\ Len(toRunner') <= 1 /\ Len(results') <= Batch
      BY <1>2, <1>5, <1>10, <1>16 DEF Typed
    <3> QED
      BY <1>3, <1>13, <1>14, <1>16, <3>1, Zenon DEF TypeOK, Ids, Slots, NoFuture
  <2> QED
    BY <1>2, <1>3, <1>10, <2>1, Zenon DEF Typed, IsWhole, Line, Asked, Row, Told, Slots, Ids
<1>18. CountersAgree'
  <2>1. (IF Owes THEN Batch ELSE 0)' = Batch
    BY <1>15
  <2>2. /\ Len(told) = bridge.used
        /\ Len(records) = bridge.used + (IF toBridge = <<>> THEN 0 ELSE Batch)
    BY <1>2 DEF CountersAgree
  <2>3. (IF toBridge = <<>> THEN 0 ELSE Batch)' = (IF toBridge = <<>> THEN 0 ELSE Batch)
    BY <1>3, Zenon
  <2> QED
    BY <1>3, <1>13, <2>1, <2>2, <2>3, Zenon DEF CountersAgree
<1>19. RowsAreTold'
  BY <1>2, <1>3, <1>15 DEF RowsAreTold
<1>20. TurnsAreTaken'
  BY <1>3, <1>6, <1>7, <1>10, <1>13, <1>15 DEF TurnsAreTaken
<1>21. BatchIsCollected'
  BY <1>11, <1>16 DEF BatchIsCollected, Slots
<1>22. EndsAreEarned'
  BY <1>1, <1>2, <1>3, <1>6, <1>13, <1>15 DEF EndsAreEarned
<1> QED
  BY <1>17, <1>18, <1>19, <1>20, <1>21, <1>22 DEF BInv

\* A result is one of the batch that was not collected yet.
LEMMA CollectsKeep ==
    ASSUME BInv, NEW id \in Ids, Collects(id)
    PROVE  BInv'
<1>1. /\ runner.at = "EVALUATE" /\ id \in BatchIds
      /\ id \notin {results[i] : i \in DOMAIN results}
      /\ results' = Append(results, id)
  BY DEF Collects
<1>2. /\ Typed /\ CountersAgree /\ RowsAreTold /\ TurnsAreTaken /\ BatchIsCollected
      /\ EndsAreEarned
  BY DEF BInv
<1>3. /\ bridge' = bridge /\ runner' = runner /\ regionIds' = regionIds /\ futures' = futures
      /\ records' = records /\ toRunner' = toRunner
      /\ toBridge' = toBridge /\ stdinClosed' = stdinClosed /\ told' = told
  BY DEF Collects
<1>4. /\ Batch \in Nat /\ runner.candidate \in Nat /\ results \in Seq(Ids)
      /\ DOMAIN results = 1..Len(results) /\ Len(results) \in Nat /\ bridge.used \in Nat
  BY Shapes
<1>5. /\ results' \in Seq(Ids) /\ Len(results') = Len(results) + 1
      /\ \A i \in 1..Len(results) : results'[i] = results[i]
      /\ results'[Len(results) + 1] = id
  BY <1>1, <1>4, AppendProperties
<1>6. DOMAIN results' = 1..(Len(results) + 1)
  BY <1>5, LenProperties
<1>7. BatchIds' = BatchIds
  BY <1>3 DEF BatchIds, First
<1>8. First \in Nat /\ BatchIds = First..(First + Batch - 1)
  <2>1. Owes
    BY <1>1 DEF Owes
  <2>2. runner.candidate = bridge.used + Batch
    BY <1>2, <2>1, Zenon DEF CountersAgree
  <2> QED
    BY <1>4, <2>2 DEF BatchIds, First
<1>9. \A i \in DOMAIN results' : results'[i] \in BatchIds
  <2> SUFFICES ASSUME NEW i \in DOMAIN results' PROVE results'[i] \in BatchIds
    OBVIOUS
  <2>1. CASE i = Len(results) + 1
    BY <1>1, <1>5, <2>1
  <2>2. CASE i # Len(results) + 1
    <3>1. i \in 1..Len(results)
      BY <1>4, <1>6, <2>2
    <3> QED
      BY <1>1, <1>2, <1>4, <1>5, <3>1 DEF BatchIsCollected
  <2> QED
    BY <2>1, <2>2
<1>10. \A i, j \in DOMAIN results' : results'[i] = results'[j] => i = j
  <2> SUFFICES ASSUME NEW i \in DOMAIN results', NEW j \in DOMAIN results',
                      results'[i] = results'[j]
               PROVE  i = j
    OBVIOUS
  <2>1. \A k \in DOMAIN results' : k \in 1..Len(results) \/ k = Len(results) + 1
    BY <1>4, <1>6
  <2>2. \A k \in 1..Len(results) : results'[k] # id
    BY <1>1, <1>4, <1>5
  <2>3. CASE i \in 1..Len(results) /\ j \in 1..Len(results)
    BY <1>1, <1>2, <1>4, <1>5, <2>3 DEF BatchIsCollected
  <2>4. CASE i = Len(results) + 1 /\ j \in 1..Len(results)
    BY <1>5, <2>2, <2>4
  <2>5. CASE i \in 1..Len(results) /\ j = Len(results) + 1
    BY <1>5, <2>2, <2>5
  <2> QED
    BY <2>1, <2>3, <2>4, <2>5
<1>11. Len(results') <= Batch
  <2>1. results' \in [1..(Len(results) + 1) -> First..(First + Batch - 1)]
    <3>1. results' = [i \in 1..(Len(results) + 1) |-> results'[i]]
      BY <1>5, <1>6
    <3> QED
      BY <1>6, <1>8, <1>9, <3>1
  <2>2. Len(results) + 1 \in Nat
    BY <1>4
  <2>3. \A i, j \in 1..(Len(results) + 1) : results'[i] = results'[j] => i = j
    BY <1>6, <1>10
  <2> QED
    BY <1>5, <1>8, <2>1, <2>2, <2>3, CollectedFit
<1>12. Typed'
  <2>1. TypeOK'
    <3>1. TypeOK
      BY <1>2 DEF Typed
    <3> QED
      BY <1>3, <1>5, <1>11, <3>1, Zenon DEF TypeOK, Ids, Slots, NoFuture
  <2> QED
    BY <1>2, <1>3, <2>1, Zenon DEF Typed, IsWhole, Line, Asked, Row, Told, Slots, Ids
<1>13. Owes' <=> Owes
  BY <1>3 DEF Owes
<1>14. CountersAgree' /\ RowsAreTold'
  BY <1>2, <1>3, <1>13, Zenon DEF CountersAgree, RowsAreTold, Slots
<1>15. TurnsAreTaken' /\ EndsAreEarned'
  BY <1>2, <1>3, <1>13, Zenon DEF TurnsAreTaken, EndsAreEarned, Running, Ids
<1>16. BatchIsCollected'
  BY <1>1, <1>2, <1>3, <1>7, <1>9, <1>10 DEF BatchIsCollected, Slots
<1> QED
  BY <1>12, <1>14, <1>15, <1>16 DEF BInv

\* An exception of a future ends the reading of the batch.
LEMMA CollectRaisesKeeps ==
    ASSUME BInv, NEW id \in Ids, CollectRaises(id)
    PROVE  BInv'
<1>1. /\ runner.at = "EVALUATE" /\ futures[id] = "RAISED"
      /\ runner' = [runner EXCEPT !.at = "JOIN", !.why = "EVALUATION"]
  BY DEF CollectRaises
<1>2. /\ Typed /\ CountersAgree /\ RowsAreTold /\ TurnsAreTaken /\ BatchIsCollected
      /\ EndsAreEarned
  BY DEF BInv
<1>3. /\ bridge' = bridge /\ regionIds' = regionIds /\ futures' = futures
      /\ results' = results /\ records' = records /\ toRunner' = toRunner
      /\ toBridge' = toBridge /\ stdinClosed' = stdinClosed /\ told' = told
  BY DEF CollectRaises
<1>4. runner \in [at : {"HEADER", "EVALUATE", "JOIN", "REAP", "RETURNED", "RAISED"},
                     candidate : 0..Budget, why : {"", "EOF", "EVALUATION"}]
  BY <1>2, Zenon DEF Typed, TypeOK
<1>5. /\ runner'.at = "JOIN" /\ runner'.candidate = runner.candidate
      /\ runner'.why = "EVALUATION"
      /\ runner' \in [at : {"HEADER", "EVALUATE", "JOIN", "REAP", "RETURNED", "RAISED"},
                     candidate : 0..Budget, why : {"", "EOF", "EVALUATION"}]
  BY <1>1, <1>4
<1>6. Owes /\ Owes'
  BY <1>1, <1>5 DEF Owes
<1>7. bridge.at = "READ" /\ toBridge = <<>> /\ toRunner = <<>> /\ ~stdinClosed
  BY <1>1, <1>2, <1>6 DEF TurnsAreTaken, EndsAreEarned
<1>8. Typed'
  <2>1. TypeOK'
    <3>1. TypeOK
      BY <1>2 DEF Typed
    <3> QED
      BY <1>3, <1>5, <3>1, Zenon DEF TypeOK, Ids, Slots, NoFuture
  <2> QED
    BY <1>2, <1>3, <2>1, Zenon DEF Typed, IsWhole, Line, Asked, Row, Told, Slots, Ids
<1>9. CountersAgree' /\ RowsAreTold'
  BY <1>2, <1>3, <1>5, <1>6, Zenon DEF CountersAgree, RowsAreTold, Slots
<1>10. TurnsAreTaken'
  BY <1>2, <1>3, <1>5, <1>6, <1>7 DEF TurnsAreTaken
<1>11. BatchIsCollected'
  BY <1>5 DEF BatchIsCollected
<1>12. EndsAreEarned'
  BY <1>1, <1>2, <1>3, <1>5, <1>7 DEF EndsAreEarned
<1> QED
  BY <1>8, <1>9, <1>10, <1>11, <1>12 DEF BInv

\* An evaluation that ends leaves one thread less.
LEMMA EvaluateKeeps ==
    ASSUME BInv, NEW id \in Ids, Evaluate(id)
    PROVE  BInv'
<1>1. PICK s \in {"VALUE", "FAIL", "RAISED"} :
          futures[id] = "RUNNING" /\ futures' = [futures EXCEPT ![id] = s]
  BY DEF Evaluate
<1>2. /\ Typed /\ CountersAgree /\ RowsAreTold /\ TurnsAreTaken /\ BatchIsCollected
      /\ EndsAreEarned
  BY DEF BInv
<1>3. /\ bridge' = bridge /\ runner' = runner /\ regionIds' = regionIds
      /\ results' = results /\ records' = records /\ toRunner' = toRunner
      /\ toBridge' = toBridge /\ stdinClosed' = stdinClosed /\ told' = told
  BY DEF Evaluate
<1>4. futures \in [Ids -> {NoFuture, "RUNNING", "VALUE", "FAIL", "RAISED"}]
  BY <1>2, Zenon DEF Typed, TypeOK
<1>5. futures' \in [Ids -> {NoFuture, "RUNNING", "VALUE", "FAIL", "RAISED"}]
  BY <1>1, <1>4
<1>6. Owes' <=> Owes
  BY <1>3 DEF Owes
<1>7. Running = {} => Running' = {}
  BY <1>1, <1>4 DEF Running
<1>8. (\E c \in Ids : futures[c] = "RAISED") => \E c \in Ids : futures'[c] = "RAISED"
  BY <1>1, <1>4
<1>9. Typed'
  <2>1. TypeOK'
    <3>1. TypeOK
      BY <1>2 DEF Typed
    <3> QED
      BY <1>3, <1>5, <3>1, Zenon DEF TypeOK, Ids, Slots, NoFuture
  <2> QED
    BY <1>2, <1>3, <2>1, Zenon DEF Typed, IsWhole, Line, Asked, Row, Told, Slots, Ids
<1>10. CountersAgree' /\ RowsAreTold'
  BY <1>2, <1>3, <1>6, Zenon DEF CountersAgree, RowsAreTold, Slots
<1>11. TurnsAreTaken'
  BY <1>2, <1>3, <1>6, Zenon DEF TurnsAreTaken
<1>12. BatchIsCollected'
  BY <1>2, <1>3, Zenon DEF BatchIsCollected, BatchIds, First, Slots
<1>13. EndsAreEarned'
  BY <1>2, <1>3, <1>7, <1>8 DEF EndsAreEarned
<1> QED
  BY <1>9, <1>10, <1>11, <1>12, <1>13 DEF BInv

\* The runner reads that the bridge is done.
LEMMA ReadDoneKeeps ==
    ASSUME BInv, ReadDone
    PROVE  BInv'
<1>1. /\ runner.at = "HEADER" /\ toRunner # <<>> /\ Head(toRunner).line = "DONE"
      /\ runner' = [runner EXCEPT !.at = "JOIN"] /\ toRunner' = Tail(toRunner)
  BY DEF ReadDone
<1>2. /\ Typed /\ CountersAgree /\ RowsAreTold /\ TurnsAreTaken /\ BatchIsCollected
      /\ EndsAreEarned
  BY DEF BInv
<1>3. /\ bridge' = bridge /\ regionIds' = regionIds /\ futures' = futures
      /\ results' = results /\ records' = records
      /\ toBridge' = toBridge /\ stdinClosed' = stdinClosed /\ told' = told
  BY DEF ReadDone
<1>4. runner \in [at : {"HEADER", "EVALUATE", "JOIN", "REAP", "RETURNED", "RAISED"},
                     candidate : 0..Budget, why : {"", "EOF", "EVALUATION"}]
  BY <1>2, Zenon DEF Typed, TypeOK
<1>5. /\ runner'.at = "JOIN" /\ runner'.candidate = runner.candidate
      /\ runner'.why = runner.why
      /\ runner' \in [at : {"HEADER", "EVALUATE", "JOIN", "REAP", "RETURNED", "RAISED"},
                     candidate : 0..Budget, why : {"", "EOF", "EVALUATION"}]
  BY <1>1, <1>4
<1>6. toRunner \in Seq(Line) /\ Len(toRunner) <= 1
  BY Shapes
<1>7. toRunner' = <<>> /\ toRunner' \in Seq(Line) /\ Len(toRunner') = 0
  BY <1>1, <1>6, LastLine
<1>8. bridge.at = "EXITED" /\ runner.why = "" /\ ~stdinClosed
  BY <1>1, <1>2 DEF TurnsAreTaken, EndsAreEarned
<1>9. Owes' <=> Owes
  BY <1>1, <1>3, <1>5 DEF Owes
<1>10. Running' = Running
  BY <1>3 DEF Running
<1>11. Typed'
  <2>1. TypeOK'
    <3>1. TypeOK /\ Len(toRunner') <= 1
      BY <1>2, <1>7 DEF Typed
    <3> QED
      BY <1>3, <1>5, <3>1, Zenon DEF TypeOK, Ids, Slots, NoFuture
  <2> QED
    BY <1>2, <1>3, <1>7, <2>1, Zenon DEF Typed, IsWhole, Line, Asked, Row, Told, Slots, Ids
<1>12. CountersAgree' /\ RowsAreTold'
  BY <1>2, <1>3, <1>5, <1>9, Zenon DEF CountersAgree, RowsAreTold, Slots
<1>13. TurnsAreTaken'
  BY <1>2, <1>3, <1>5, <1>7, <1>8, <1>9 DEF TurnsAreTaken
<1>14. BatchIsCollected'
  BY <1>5 DEF BatchIsCollected
<1>15. EndsAreEarned'
  BY <1>1, <1>2, <1>3, <1>5, <1>8, <1>10 DEF EndsAreEarned
<1> QED
  BY <1>11, <1>12, <1>13, <1>14, <1>15 DEF BInv

\* The runner reads the end of the output of a bridge that aborted.
LEMMA ReadEndOfOutputKeeps ==
    ASSUME BInv, ReadEndOfOutput
    PROVE  BInv'
<1>1. /\ runner.at = "HEADER" /\ toRunner = <<>> /\ BridgeGone
      /\ runner' = [runner EXCEPT !.at = "JOIN", !.why = "EOF"]
  BY DEF ReadEndOfOutput
<1>2. /\ Typed /\ CountersAgree /\ RowsAreTold /\ TurnsAreTaken /\ BatchIsCollected
      /\ EndsAreEarned
  BY DEF BInv
<1>3. /\ bridge' = bridge /\ regionIds' = regionIds /\ futures' = futures
      /\ results' = results /\ records' = records /\ toRunner' = toRunner
      /\ toBridge' = toBridge /\ stdinClosed' = stdinClosed /\ told' = told
  BY DEF ReadEndOfOutput
<1>4. /\ runner \in [at : {"HEADER", "EVALUATE", "JOIN", "REAP", "RETURNED", "RAISED"},
                     candidate : 0..Budget, why : {"", "EOF", "EVALUATION"}]
      /\ bridge.why \in {"", "ASK", "TELL", "EOF"}
  BY <1>2, Zenon DEF Typed, TypeOK
<1>5. /\ runner'.at = "JOIN" /\ runner'.candidate = runner.candidate
      /\ runner'.why = "EOF"
      /\ runner' \in [at : {"HEADER", "EVALUATE", "JOIN", "REAP", "RETURNED", "RAISED"},
                     candidate : 0..Budget, why : {"", "EOF", "EVALUATION"}]
  BY <1>1, <1>4
<1>6. bridge.at = "ABORTED" /\ runner.why = "" /\ ~stdinClosed
  BY <1>1, <1>2 DEF TurnsAreTaken, EndsAreEarned, BridgeGone
<1>7. bridge.why \in {"ASK", "TELL"}
  BY <1>2, <1>4, <1>6 DEF EndsAreEarned
<1>8. Owes' <=> Owes
  BY <1>1, <1>3, <1>5, <1>6 DEF Owes
<1>9. Running' = Running
  BY <1>3 DEF Running
<1>10. Typed'
  <2>1. TypeOK'
    <3>1. TypeOK
      BY <1>2 DEF Typed
    <3> QED
      BY <1>3, <1>5, <3>1, Zenon DEF TypeOK, Ids, Slots, NoFuture
  <2> QED
    BY <1>2, <1>3, <2>1, Zenon DEF Typed, IsWhole, Line, Asked, Row, Told, Slots, Ids
<1>11. CountersAgree' /\ RowsAreTold'
  BY <1>2, <1>3, <1>5, <1>8, Zenon DEF CountersAgree, RowsAreTold, Slots
<1>12. TurnsAreTaken'
  BY <1>1, <1>2, <1>3, <1>5, <1>6, <1>8 DEF TurnsAreTaken
<1>13. BatchIsCollected'
  BY <1>5 DEF BatchIsCollected
<1>14. EndsAreEarned'
  BY <1>1, <1>2, <1>3, <1>5, <1>6, <1>7, <1>9 DEF EndsAreEarned
<1> QED
  BY <1>10, <1>11, <1>12, <1>13, <1>14 DEF BInv

\* The runner closes the input of the bridge once its evaluations have ended.
LEMMA ClosesInputKeeps ==
    ASSUME BInv, ClosesInput
    PROVE  BInv'
<1>1. /\ runner.at = "JOIN" /\ Running = {} /\ stdinClosed' = TRUE
      /\ runner' = [runner EXCEPT !.at = IF runner.why = "" THEN "REAP" ELSE "RAISED"]
  BY DEF ClosesInput, Joined, Closed
<1>2. /\ Typed /\ CountersAgree /\ RowsAreTold /\ TurnsAreTaken /\ BatchIsCollected
      /\ EndsAreEarned
  BY DEF BInv
<1>3. /\ bridge' = bridge /\ regionIds' = regionIds /\ futures' = futures
      /\ results' = results /\ records' = records /\ toRunner' = toRunner
      /\ toBridge' = toBridge /\ told' = told
  BY DEF ClosesInput
<1>4. runner \in [at : {"HEADER", "EVALUATE", "JOIN", "REAP", "RETURNED", "RAISED"},
                     candidate : 0..Budget, why : {"", "EOF", "EVALUATION"}]
  BY <1>2, Zenon DEF Typed, TypeOK
<1>5. /\ runner'.at = IF runner.why = "" THEN "REAP" ELSE "RAISED"
      /\ runner'.candidate = runner.candidate /\ runner'.why = runner.why
      /\ runner' \in [at : {"HEADER", "EVALUATE", "JOIN", "REAP", "RETURNED", "RAISED"},
                     candidate : 0..Budget, why : {"", "EOF", "EVALUATION"}]
  BY <1>1, <1>4
<1>6. runner'.at \in {"REAP", "RAISED"}
  BY <1>5
<1>7. Owes' <=> Owes
  BY <1>1, <1>3, <1>5, <1>6 DEF Owes
<1>8. Running' = Running
  BY <1>3 DEF Running
<1>9. runner.why = "" => bridge.at = "EXITED"
  BY <1>1, <1>2 DEF EndsAreEarned
<1>10. runner.why = "EOF" => bridge.at = "ABORTED"
  BY <1>2 DEF EndsAreEarned
<1>11. Typed'
  <2>1. TypeOK'
    <3>1. TypeOK
      BY <1>2 DEF Typed
    <3>2. stdinClosed' \in BOOLEAN
      BY <1>1
    <3> QED
      BY <1>3, <1>5, <3>1, <3>2, Zenon DEF TypeOK, Ids, Slots, NoFuture
  <2> QED
    BY <1>2, <1>3, <2>1, Zenon DEF Typed, IsWhole, Line, Asked, Row, Told, Slots, Ids
<1>12. CountersAgree' /\ RowsAreTold'
  BY <1>2, <1>3, <1>5, <1>7, Zenon DEF CountersAgree, RowsAreTold, Slots
<1>13. TurnsAreTaken'
  BY <1>1, <1>2, <1>3, <1>5, <1>6, <1>7 DEF TurnsAreTaken
<1>14. BatchIsCollected'
  BY <1>6 DEF BatchIsCollected
<1>15. EndsAreEarned'
  <2>1. stdinClosed' /\ bridge.at = "READ" => runner.why = "EVALUATION"
    BY <1>4, <1>9, <1>10
  <2> QED
    BY <1>1, <1>2, <1>3, <1>5, <1>6, <1>8, <1>9, <2>1 DEF EndsAreEarned
<1> QED
  BY <1>11, <1>12, <1>13, <1>14, <1>15 DEF BInv

\* The runner reaps a bridge that exited with every candidate told, and returns.
LEMMA ReapsKeeps ==
    ASSUME BInv, Reaps
    PROVE  BInv'
<1>1. /\ runner.at = "REAP"
      /\ runner' = [runner EXCEPT !.at = IF bridge.at = "EXITED" /\ runner.candidate = Budget
                                         THEN "RETURNED" ELSE "RAISED"]
  BY DEF Reaps
<1>2. /\ Typed /\ CountersAgree /\ RowsAreTold /\ TurnsAreTaken /\ BatchIsCollected
      /\ EndsAreEarned
  BY DEF BInv
<1>3. /\ bridge' = bridge /\ regionIds' = regionIds /\ futures' = futures
      /\ results' = results /\ records' = records /\ toRunner' = toRunner
      /\ toBridge' = toBridge /\ stdinClosed' = stdinClosed /\ told' = told
  BY DEF Reaps
<1>4. runner \in [at : {"HEADER", "EVALUATE", "JOIN", "REAP", "RETURNED", "RAISED"},
                     candidate : 0..Budget, why : {"", "EOF", "EVALUATION"}]
  BY <1>2, Zenon DEF Typed, TypeOK
<1>5. runner.why = "" /\ bridge.at = "EXITED"
  BY <1>1, <1>2 DEF EndsAreEarned
<1>6. runner.candidate = Budget
  <2>1. ~Owes /\ bridge.used = Budget
    BY <1>2, <1>5 DEF TurnsAreTaken
  <2>2. runner.candidate = Budget + 0
    BY <1>2, <2>1, Zenon DEF CountersAgree
  <2> QED
    BY <2>2, BatchedAssumption
<1>7. /\ runner'.at = "RETURNED" /\ runner'.candidate = runner.candidate
      /\ runner'.why = runner.why
      /\ runner' \in [at : {"HEADER", "EVALUATE", "JOIN", "REAP", "RETURNED", "RAISED"},
                     candidate : 0..Budget, why : {"", "EOF", "EVALUATION"}]
  BY <1>1, <1>4, <1>5, <1>6
<1>8. Owes' <=> Owes
  BY <1>1, <1>3, <1>7 DEF Owes
<1>9. Running' = Running
  BY <1>3 DEF Running
<1>10. Typed'
  <2>1. TypeOK'
    <3>1. TypeOK
      BY <1>2 DEF Typed
    <3> QED
      BY <1>3, <1>7, <3>1, Zenon DEF TypeOK, Ids, Slots, NoFuture
  <2> QED
    BY <1>2, <1>3, <2>1, Zenon DEF Typed, IsWhole, Line, Asked, Row, Told, Slots, Ids
<1>11. CountersAgree' /\ RowsAreTold'
  BY <1>2, <1>3, <1>7, <1>8, Zenon DEF CountersAgree, RowsAreTold, Slots
<1>12. TurnsAreTaken'
  BY <1>1, <1>2, <1>3, <1>7, <1>8 DEF TurnsAreTaken
<1>13. BatchIsCollected'
  BY <1>7 DEF BatchIsCollected
<1>14. EndsAreEarned'
  BY <1>1, <1>2, <1>3, <1>5, <1>7, <1>9 DEF EndsAreEarned
<1> QED
  BY <1>10, <1>11, <1>12, <1>13, <1>14 DEF BInv

\* What the runner records of a batch continues its ledger, slot for slot.
LEMMA AnswersAreRows ==
    ASSUME BInv, Answers
    PROVE  /\ records' \in Seq(Row) /\ Len(records') = bridge.used + Batch
           /\ \A i \in DOMAIN records' : /\ records'[i].id = i - 1
                                         /\ records'[i].answer \in {0, i}
                                         /\ IsValued(records'[i], i)
           /\ \A i \in 1..bridge.used : records'[i] = records[i]
           /\ \A i \in Slots : records'[bridge.used + i].answer = Outcome(i)
           /\ [i \in Slots |-> Outcome(i)] \in [Slots -> 0..Budget]
           /\ bridge.used + Batch <= Budget
<1>1. /\ runner.at = "EVALUATE"
      /\ records' = records \o [i \in Slots |-> [id |-> RecordId(i), region |-> regionIds[i],
                                                 answer |-> Outcome(i),
                                                 value |-> RecordedValue(i)]]
  BY DEF Answers
<1>2. /\ Typed /\ CountersAgree /\ RowsAreTold /\ TurnsAreTaken /\ BatchIsCollected
  BY DEF BInv
<1>3. /\ Budget \in Nat /\ Batch \in Nat /\ Batch > 0 /\ bridge.used \in Nat
      /\ runner.candidate \in Nat /\ records \in Seq(Row) /\ DOMAIN records = 1..Len(records)
  BY Shapes
<1>4. bridge.at = "READ" /\ toBridge = <<>> /\ Owes
  BY <1>1, <1>2 DEF TurnsAreTaken, Owes
<1>5. bridge.used < Budget /\ IsWhole(bridge.used)
  BY <1>2, <1>4 DEF Typed, TurnsAreTaken
<1>6. bridge.used + Batch <= Budget /\ bridge.used + Batch \in Nat
  BY <1>3, <1>5, WholeBatches
<1>7. runner.candidate = bridge.used + Batch /\ Len(records) = bridge.used
  <2>1. /\ runner.candidate = bridge.used + Batch
        /\ Len(records) = bridge.used + 0
    BY <1>2, <1>4, Zenon DEF CountersAgree
  <2> QED
    BY <1>3, <2>1
<1>8. First = bridge.used
  BY <1>3, <1>7 DEF First
<1>9. \A i \in Slots : /\ RecordId(i) = bridge.used + i - 1 /\ RecordId(i) \in Ids
                       /\ Outcome(i) \in {0, bridge.used + i} /\ Outcome(i) \in 0..Budget
                       /\ RecordedValue(i) = IF Outcome(i) = 0 THEN NoValue
                                             ELSE MinimizedAt(bridge.used + i)
                       /\ RecordedValue(i) \in Int
  <2> SUFFICES ASSUME NEW i \in Slots
               PROVE  /\ RecordId(i) = bridge.used + i - 1 /\ RecordId(i) \in Ids
                      /\ Outcome(i) \in {0, bridge.used + i} /\ Outcome(i) \in 0..Budget
                      /\ RecordedValue(i) = IF Outcome(i) = 0 THEN NoValue
                                            ELSE MinimizedAt(bridge.used + i)
                      /\ RecordedValue(i) \in Int
    OBVIOUS
  <2>1. i \in 1..Batch
    BY DEF Slots
  <2>2. bridge.used + i \in 1..Budget /\ bridge.used + i - 1 \in 0..(Budget - 1)
    BY <1>3, <1>6, <2>1
  <2>3. RecordId(i) = bridge.used + i - 1
    BY <1>8, Zenon DEF RecordId
  <2>4. Outcome(i) \in {0, bridge.used + i}
    BY <1>8, Zenon DEF Outcome
  <2>5. Outcome(i) \in 0..Budget
    BY <1>3, <2>2, <2>4
  <2>6. PICK ok, n : ok = (futures[First + i - 1] = "VALUE") /\ n = bridge.used + i
    OBVIOUS
  <2>7. /\ Outcome(i) = IF ok THEN n ELSE 0
        /\ RecordedValue(i) = IF ok THEN MinimizedAt(n) ELSE NoValue
    BY <1>8, <2>6, Zenon DEF Outcome, RecordedValue
  <2>8. n # 0 /\ MinimizedAt(n) \in Int /\ NoValue \in Int
    BY <2>2, <2>6 DEF MinimizedAt, NoValue
  <2>9. /\ RecordedValue(i) = IF Outcome(i) = 0 THEN NoValue ELSE MinimizedAt(n)
        /\ RecordedValue(i) \in Int
    BY <2>7, <2>8
  <2> QED
    BY <2>2, <2>3, <2>4, <2>5, <2>6, <2>9 DEF Ids
<1>10. regionIds \in [Slots -> Slots]
  BY <1>1, <1>2 DEF BatchIsCollected
<1> DEFINE more == [i \in Slots |-> [id |-> RecordId(i), region |-> regionIds[i],
                                     answer |-> Outcome(i), value |-> RecordedValue(i)]]
<1>11. more \in Seq(Row) /\ Len(more) = Batch
  <2>1. \A i \in Slots : [id |-> RecordId(i), region |-> regionIds[i],
                          answer |-> Outcome(i), value |-> RecordedValue(i)] \in Row
    BY <1>9, <1>10 DEF Row
  <2>2. more \in [1..Batch -> Row]
    BY <2>1 DEF Slots
  <2> HIDE DEF more
  <2>3. more \in Seq(Row)
    BY <1>3, <2>2
  <2> QED
    BY <1>3, <2>2, <2>3, LenProperties
<1>12. \A i \in Slots : /\ more[i].id = bridge.used + i - 1 /\ more[i].answer = Outcome(i)
                        /\ IsValued(more[i], bridge.used + i)
  BY <1>9 DEF IsValued
<1> HIDE DEF more
<1>13. records' = records \o more
  BY <1>1 DEF more
<1>14. PICK S : S = Row
  OBVIOUS
<1>15. /\ records' \in Seq(S) /\ Len(records') = bridge.used + Batch
       /\ \A i \in 1..(bridge.used + Batch) :
             records'[i] = IF i <= bridge.used THEN records[i] ELSE more[i - bridge.used]
  <2>1. records \in Seq(S) /\ more \in Seq(S)
    BY <1>3, <1>11, <1>14
  <2>2. /\ records \o more \in Seq(S) /\ Len(records \o more) = Len(records) + Len(more)
        /\ \A i \in 1..Len(records) + Len(more) :
              (records \o more)[i] = IF i <= Len(records) THEN records[i]
                                                          ELSE more[i - Len(records)]
    BY <2>1, ConcatProperties
  <2> QED
    BY <1>7, <1>11, <1>13, <2>2
<1>16. DOMAIN records' = 1..(bridge.used + Batch)
  BY <1>15, LenProperties
<1>17. \A i \in 1..bridge.used : records'[i] = records[i]
  BY <1>3, <1>15
<1>18. \A i \in Slots : records'[bridge.used + i] = more[i]
  <2> SUFFICES ASSUME NEW i \in Slots PROVE records'[bridge.used + i] = more[i]
    OBVIOUS
  <2>1. /\ bridge.used + i \in 1..(bridge.used + Batch) /\ ~(bridge.used + i <= bridge.used)
        /\ (bridge.used + i) - bridge.used = i
    BY <1>3 DEF Slots
  <2> QED
    BY <1>15, <2>1
<1>19. ASSUME NEW i \in DOMAIN records'
       PROVE  /\ records'[i].id = i - 1 /\ records'[i].answer \in {0, i}
              /\ IsValued(records'[i], i)
  <2>1. CASE i <= bridge.used
    <3>1. i \in 1..bridge.used /\ i \in DOMAIN records
      BY <1>3, <1>7, <1>16, <1>19, <2>1
    <3> QED
      BY <1>2, <1>17, <3>1 DEF RowsAreTold
  <2>2. CASE ~(i <= bridge.used)
    <3>1. i - bridge.used \in Slots /\ bridge.used + (i - bridge.used) = i
      BY <1>3, <1>16, <1>19, <2>2 DEF Slots
    <3>2. records'[i] = more[i - bridge.used]
      BY <1>18, <3>1
    <3>3. more[i - bridge.used].id = i - 1
      <4>1. more[i - bridge.used].id = bridge.used + (i - bridge.used) - 1
        BY <1>12, <3>1, Zenon
      <4>2. i \in Nat
        BY <1>3, <1>16, <1>19
      <4> QED
        BY <1>3, <4>1, <4>2
    <3>4. more[i - bridge.used].answer \in {0, i} /\ IsValued(more[i - bridge.used], i)
      BY <1>9, <1>12, <3>1
    <3> QED
      BY <3>2, <3>3, <3>4
  <2> QED
    BY <2>1, <2>2
<1>20. \A i \in Slots : records'[bridge.used + i].answer = Outcome(i)
  BY <1>12, <1>18
<1>21. [i \in Slots |-> Outcome(i)] \in [Slots -> 0..Budget]
  BY <1>9
<1> QED
  BY <1>6, <1>14, <1>15, <1>17, <1>19, <1>20, <1>21

\* The runner answers a batch of which every result has been collected.
LEMMA AnswersKeep ==
    ASSUME BInv, Answers
    PROVE  BInv'
<1>1. /\ runner.at = "EVALUATE"
      /\ toBridge' = Append(toBridge, [i \in Slots |-> Outcome(i)])
      /\ runner' = [runner EXCEPT !.at = "HEADER"]
  BY DEF Answers
<1>2. /\ Typed /\ CountersAgree /\ RowsAreTold /\ TurnsAreTaken /\ BatchIsCollected
      /\ EndsAreEarned
  BY DEF BInv
<1>3. /\ bridge' = bridge /\ regionIds' = regionIds /\ futures' = futures
      /\ results' = results /\ toRunner' = toRunner
      /\ stdinClosed' = stdinClosed /\ told' = told
  BY DEF Answers
<1>4. runner \in [at : {"HEADER", "EVALUATE", "JOIN", "REAP", "RETURNED", "RAISED"},
                  candidate : 0..Budget, why : {"", "EOF", "EVALUATION"}]
  BY <1>2, Zenon DEF Typed, TypeOK
<1>5. /\ runner'.at = "HEADER" /\ runner'.candidate = runner.candidate
      /\ runner'.why = runner.why
      /\ runner' \in [at : {"HEADER", "EVALUATE", "JOIN", "REAP", "RETURNED", "RAISED"},
                      candidate : 0..Budget, why : {"", "EOF", "EVALUATION"}]
  BY <1>1, <1>4
<1>6. /\ Budget \in Nat /\ Batch \in Nat /\ bridge.used \in Nat /\ told \in Seq(Told)
      /\ DOMAIN told = 1..bridge.used
  BY Shapes
<1>7. /\ records' \in Seq(Row) /\ Len(records') = bridge.used + Batch
      /\ \A i \in DOMAIN records' : /\ records'[i].id = i - 1
                                    /\ records'[i].answer \in {0, i}
                                    /\ IsValued(records'[i], i)
      /\ \A i \in 1..bridge.used : records'[i] = records[i]
      /\ \A i \in Slots : records'[bridge.used + i].answer = Outcome(i)
      /\ [i \in Slots |-> Outcome(i)] \in [Slots -> 0..Budget]
      /\ bridge.used + Batch <= Budget
  BY AnswersAreRows
<1>8. Owes /\ bridge.at = "READ" /\ toBridge = <<>> /\ toRunner = <<>> /\ runner.why = ""
  BY <1>1, <1>2 DEF TurnsAreTaken, EndsAreEarned, Owes
<1>9. /\ toBridge' \in Seq([Slots -> 0..Budget]) /\ toBridge' # <<>> /\ Len(toBridge') = 1
      /\ toBridge'[1] = [i \in Slots |-> Outcome(i)]
  <2> DEFINE answers == [i \in Slots |-> Outcome(i)]
  <2>1. answers \in [Slots -> 0..Budget] /\ toBridge' = Append(toBridge, answers)
    BY <1>1, <1>7
  <2> HIDE DEF answers
  <2>2. /\ toBridge' \in Seq([Slots -> 0..Budget]) /\ toBridge' # <<>> /\ Len(toBridge') = 1
        /\ toBridge'[1] = answers
    BY <1>8, <2>1, OneLine
  <2> QED
    BY <2>2 DEF answers
<1>10. Owes'
  BY <1>9 DEF Owes
<1>11. Running' = Running
  BY <1>3 DEF Running
<1>12. Typed'
  <2>1. TypeOK'
    <3>1. TypeOK /\ Len(toBridge') <= 1 /\ Len(records') <= Budget
      BY <1>2, <1>6, <1>7, <1>9 DEF Typed
    <3> QED
      BY <1>3, <1>5, <3>1, Zenon DEF TypeOK, Ids, Slots, NoFuture
  <2> QED
    BY <1>2, <1>3, <1>7, <1>9, <2>1, Zenon
       DEF Typed, IsWhole, Line, Asked, Row, Told, Slots, Ids
<1>13. CountersAgree'
  <2>1. /\ Len(told) = bridge.used
        /\ runner.candidate = bridge.used + (IF Owes THEN Batch ELSE 0)
    BY <1>2 DEF CountersAgree
  <2>2. /\ (IF Owes THEN Batch ELSE 0)' = (IF Owes THEN Batch ELSE 0)
        /\ (IF toBridge = <<>> THEN 0 ELSE Batch)' = Batch
    BY <1>8, <1>9, <1>10, Zenon
  <2> QED
    BY <1>3, <1>5, <1>7, <2>1, <2>2, Zenon DEF CountersAgree
<1>14. RowsAreTold'
  <2>1. \A i \in DOMAIN told : told[i] = [point |-> i, answer |-> records[i].answer]
    BY <1>2 DEF RowsAreTold
  <2>2. \A i \in DOMAIN told' : told'[i] = [point |-> i, answer |-> records'[i].answer]
    BY <1>3, <1>6, <1>7, <2>1
  <2>3. \A i \in Slots : toBridge'[1][i] = records'[bridge'.used + i].answer
    BY <1>3, <1>7, <1>9
  <2> QED
    BY <1>7, <2>2, <2>3 DEF RowsAreTold, Slots
<1>15. TurnsAreTaken'
  BY <1>2, <1>3, <1>5, <1>8, <1>10 DEF TurnsAreTaken
<1>16. BatchIsCollected'
  BY <1>5 DEF BatchIsCollected
<1>17. EndsAreEarned'
  BY <1>1, <1>2, <1>3, <1>5, <1>8, <1>11 DEF EndsAreEarned
<1> QED
  BY <1>12, <1>13, <1>14, <1>15, <1>16, <1>17 DEF BInv

\* BInv is inductive.
LEMMA BInvIsInductive == BInv /\ [Next]_vars => BInv'
<1> SUFFICES ASSUME BInv, [Next]_vars PROVE BInv'
  OBVIOUS
<1>1. CASE Bridge
  BY <1>1, BridgeAskKeeps, StopsKeep, BridgeTellKeeps, BridgeDoneKeeps DEF Bridge
<1>2. CASE Runner
  BY <1>2, ReadAskKeeps, AnswersKeep, ReadDoneKeeps, ReadEndOfOutputKeeps, ClosesInputKeeps,
     ReapsKeeps, CollectsKeep, CollectRaisesKeeps DEF Runner
<1>3. CASE \E id \in Ids : Evaluate(id)
  BY <1>3, EvaluateKeeps
<1>4. CASE UNCHANGED vars
  <2>1. /\ bridge' = bridge /\ runner' = runner /\ regionIds' = regionIds
        /\ futures' = futures /\ results' = results /\ records' = records
        /\ toRunner' = toRunner /\ toBridge' = toBridge /\ stdinClosed' = stdinClosed
        /\ told' = told
    BY <1>4 DEF vars
  <2>2. Typed' /\ CountersAgree' /\ RowsAreTold'
    <3>1. TypeOK'
      BY <2>1, Zenon DEF BInv, Typed, TypeOK, Slots, Ids, NoFuture
    <3>2. Typed'
      BY <2>1, <3>1, Zenon DEF BInv, Typed, IsWhole, Line, Asked, Row, Told, Slots, Ids
    <3>3. Owes' <=> Owes
      BY <2>1 DEF Owes
    <3>4. CountersAgree'
      BY <2>1, <3>3, Zenon DEF BInv, CountersAgree
    <3>5. RowsAreTold'
      BY <2>1, Zenon DEF BInv, RowsAreTold, Slots
    <3> QED
      BY <3>2, <3>4, <3>5
  <2>3. TurnsAreTaken' /\ BatchIsCollected' /\ EndsAreEarned'
    BY <2>1, Zenon DEF BInv, TurnsAreTaken, BatchIsCollected, EndsAreEarned, Owes, BatchIds,
                       First, Running, Slots, Ids
  <2> QED
    BY <2>2, <2>3 DEF BInv
<1> QED
  BY <1>1, <1>2, <1>3, <1>4 DEF Next

\* BInv holds in every state a run of the two processes reaches.
THEOREM BatchedInvariant == Spec => []BInv
  BY InitiallyBInv, BInvIsInductive, PTL DEF Spec

\* BInv says what the ledger and the driver must agree on.
LEMMA BInvMatches == BInv => LedgerMatchesDriver
<1> SUFFICES ASSUME BInv PROVE LedgerMatchesDriver
  OBVIOUS
<1>1. /\ Typed /\ CountersAgree /\ RowsAreTold
  BY DEF BInv
<1>2. /\ Budget \in Nat /\ Batch \in Nat /\ bridge.used \in Nat
      /\ DOMAIN told = 1..bridge.used /\ DOMAIN records = 1..Len(records)
  BY Shapes
<1>3. Len(told) = bridge.used
  BY <1>1 DEF CountersAgree
<1>4. Len(records) - Len(told) \in {0, Batch} /\ bridge.used <= Len(records)
  <2>1. CASE toBridge = <<>>
    <3>1. Len(records) = bridge.used + 0
      BY <1>1, <2>1, Zenon DEF CountersAgree
    <3> QED
      BY <1>2, <1>3, <3>1
  <2>2. CASE toBridge # <<>>
    <3>1. Len(records) = bridge.used + Batch
      BY <1>1, <2>2, Zenon DEF CountersAgree
    <3> QED
      BY <1>2, <1>3, <3>1
  <2> QED
    BY <2>1, <2>2
<1>5. DOMAIN told \subseteq DOMAIN records
  <2>1. Len(records) \in Nat
    BY Shapes
  <2>2. 1..bridge.used \subseteq 1..Len(records)
    <3>1. \A m, n \in Nat : m <= n => 1..m \subseteq 1..n
      OBVIOUS
    <3>2. bridge.used \in Nat /\ bridge.used <= Len(records)
      BY <1>2, <1>4, Zenon
    <3> QED
      BY <2>1, <3>1, <3>2, Zenon
  <2> QED
    BY <1>2, <2>2, Zenon
<1>6. ASSUME NEW i \in DOMAIN told
      PROVE  /\ told[i].point = i /\ told[i].answer \in {i, 0}
             /\ records[i].answer = told[i].answer
             /\ records[i].value = IF told[i].answer = 0 THEN NoValue
                                   ELSE MinimizedAt(told[i].point)
  <2>1. told[i] = [point |-> i, answer |-> records[i].answer]
    BY <1>1 DEF RowsAreTold
  <2>2. records[i].answer \in {0, i} /\ IsValued(records[i], i)
    BY <1>1, <1>5 DEF RowsAreTold
  <2> QED
    BY <2>1, <2>2 DEF IsValued
<1>7. \A i \in DOMAIN records : records[i].id = i - 1
  BY <1>1 DEF RowsAreTold
<1>8. TypeOK
  BY <1>1 DEF Typed
<1> QED
  BY <1>4, <1>6, <1>7, <1>8 DEF LedgerMatchesDriver

\* BInv says that both processes end the way they deserve.
LEMMA BInvEnds == BInv => EndsForACause
<1> SUFFICES ASSUME BInv PROVE EndsForACause
  OBVIOUS
<1>1. CountersAgree /\ TurnsAreTaken /\ EndsAreEarned /\ Typed
  BY DEF BInv
<1>2. /\ Budget \in Nat /\ bridge.used \in Nat /\ Len(told) = bridge.used
  BY Shapes
<1>3. runner.why \in {"", "EOF", "EVALUATION"}
  BY <1>1, Zenon DEF Typed, TypeOK
<1>4. bridge.at = "EXITED" => Len(told) = Budget /\ Len(records) = Budget
  <2> SUFFICES ASSUME bridge.at = "EXITED" PROVE Len(told) = Budget /\ Len(records) = Budget
    OBVIOUS
  <2>1. ~Owes /\ bridge.used = Budget /\ toBridge = <<>>
    BY <1>1 DEF TurnsAreTaken, Owes
  <2>2. Len(records) = Budget + 0
    BY <1>1, <2>1, Zenon DEF CountersAgree
  <2> QED
    BY <1>2, <2>1, <2>2
<1>5. runner.at = "RETURNED" => bridge.at = "EXITED"
  BY <1>1 DEF EndsAreEarned
<1>6. runner.at = "RAISED" =>
          bridge.why \in {"ASK", "TELL"} \/ \E id \in Ids : futures[id] = "RAISED"
  BY <1>1, <1>3 DEF EndsAreEarned
<1>7. Ended => Running = {}
  BY <1>1 DEF Ended, EndsAreEarned
<1> QED
  BY <1>4, <1>5, <1>6, <1>7 DEF EndsForACause

\* The ledger of the runner is what the driver was told, candidate for candidate and
\* whatever order the threads finish in, for every budget, batch size and number of
\* regions.
THEOREM LedgerMatches == Spec => []LedgerMatchesDriver
  BY BatchedInvariant, BInvMatches, PTL

\* A run returns only with the whole budget told and recorded, raises only for a
\* refusal or an exception, and leaves no thread behind.
THEOREM RunsEndAsTheyDeserve == Spec => []EndsForACause
  BY BatchedInvariant, BInvEnds, PTL
===============================================================================
