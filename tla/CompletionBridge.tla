-------------------------- MODULE CompletionBridge --------------------------
(***************************************************************************)
(* The bridge process of the completion-driven runs,                       *)
(* app/fortbo_b5_completion_protocol.f90, with the two pipes that join it  *)
(* to its runner.  The runners are in CompletionProtocol and LandremanRun. *)
(*                                                                         *)
(* Lines written together and flushed once are one message.  The driver is *)
(* what TurboDriver promises: a point, a refusal, or "no region has a      *)
(* surrogate" while points are in flight (WaitsOnlyForPending) and once    *)
(* the initial design has been asked for.  A point is the serial number of *)
(* its ask; the value of an evaluation is the point it was made at.        *)
(***************************************************************************)
EXTENDS Integers, Sequences, FiniteSets

CONSTANTS
    Budget,             \* evaluations of the run
    Workers,            \* evaluations in flight at most
    Initial,            \* points of the initial design
    MayAbort            \* may the driver refuse a call, may an evaluation or a system call fail

ASSUME BridgeAssumption ==
    /\ Budget \in Nat \ {0} /\ Workers \in Nat \ {0} /\ MayAbort \in BOOLEAN
    /\ Initial \in Nat \ {0}

VARIABLES
    bridge,             \* at, dispatched, completed, why it stopped
    slots,              \* pending_used, pending_id, pending_points
    toRunner, toBridge, \* the pipes
    stdinClosed,
    told                \* history variable: point and answer of every accepted tell

bridgeVars == <<bridge, slots, toRunner, toBridge, stdinClosed, told>>

Ids == 0..(Budget - 1)
Slots == 1..Workers
Free == [used |-> FALSE, id |-> -1, point |-> 0]

BridgeInit ==
    /\ bridge = [at |-> "LOOP", dispatched |-> 0, completed |-> 0, why |-> ""]
    /\ slots = [s \in Slots |-> Free]
    /\ toRunner = <<>> /\ toBridge = <<>>
    /\ stdinClosed = FALSE
    /\ told = <<>>

-----------------------------------------------------------------------------
InUse == {s \in Slots : slots[s].used}
PendingCount == Cardinality(InUse)
BridgeGone == bridge.at \in {"EXITED", "ABORTED"}

\* mutant: the first slot, free or not
FirstSlot == CHOOSE s \in Slots : \A t \in Slots : s <= t
FirstFreeSlot == CHOOSE s \in Slots \ InUse : \A t \in Slots \ InUse : s <= t
\* mutant: a slot in use, whatever its id
AnyUsedSlot(id) == InUse
SlotOf(id) == {s \in InUse : slots[s].id = id}

\* mutant: the slot of a told candidate stays in use
NotFreed(s) == slots[s]
Freed(s) == [used |-> FALSE, id |-> -1, point |-> slots[s].point]

NextId == bridge.dispatched

\* mutant: one ask past the budget
MayAskPastBudget == bridge.dispatched <= Budget /\ PendingCount < Workers
MayAsk == bridge.dispatched < Budget /\ PendingCount < Workers

\* mutant: done once everything is dispatched
AllDispatched == bridge.dispatched >= Budget
AllTold == bridge.completed >= Budget /\ PendingCount = 0

\* error stop
Stop(why) ==
    /\ bridge' = [bridge EXCEPT !.at = "ABORTED", !.why = why]
    /\ UNCHANGED <<slots, toRunner, toBridge, stdinClosed, told>>

BridgeAsk ==
    /\ bridge.at = "LOOP" /\ MayAsk
    /\ LET id == NextId
           point == id + 1
       IN  /\ slots' = [slots EXCEPT ![FirstFreeSlot] =
                           [used |-> TRUE, id |-> id, point |-> point]]
           /\ toRunner' = Append(toRunner, [line |-> "ASK", id |-> id, point |-> point])
    /\ bridge' = [bridge EXCEPT !.dispatched = @ + 1]
    /\ UNCHANGED <<toBridge, stdinClosed, told>>

\* no region has a surrogate yet: answered only while points are in flight, and
\* never to an ask that the initial design still serves
BridgeWait ==
    /\ bridge.at = "LOOP" /\ MayAsk
    /\ PendingCount >= 1 /\ bridge.dispatched >= Initial
    /\ toRunner' = Append(toRunner, [line |-> "WAIT"])
    /\ bridge' = [bridge EXCEPT !.at = "READ"]
    /\ UNCHANGED <<slots, toBridge, stdinClosed, told>>

BridgeAskFails == bridge.at = "LOOP" /\ MayAsk /\ MayAbort /\ Stop("ASK")

BridgeListens ==
    /\ bridge.at = "LOOP" /\ ~MayAsk
    /\ ~AllTold
    /\ bridge' = [bridge EXCEPT !.at = "READ"]
    /\ UNCHANGED <<slots, toRunner, toBridge, stdinClosed, told>>

\* the error stop of a result whose id is in no slot; LockStep shows that there
\* is never one, so it has no action
UnknownId == bridge.at = "READ" /\ toBridge # <<>> /\ SlotOf(Head(toBridge).id) = {}

\* A result is told under the point that was stored with its id.
BridgeTell ==
    /\ bridge.at = "READ" /\ toBridge # <<>>
    /\ \E s \in SlotOf(Head(toBridge).id) :
          /\ told' = Append(told, [point |-> slots[s].point,
                                   answer |-> Head(toBridge).answer])
          /\ slots' = [slots EXCEPT ![s] = Freed(s)]
    /\ toBridge' = Tail(toBridge)
    /\ bridge' = [bridge EXCEPT !.at = "LOOP", !.completed = @ + 1]
    /\ UNCHANGED <<toRunner, stdinClosed>>

BridgeTellFails == bridge.at = "READ" /\ toBridge # <<>> /\ MayAbort /\ Stop("TELL")

BridgeEndOfInput ==
    /\ bridge.at = "READ" /\ toBridge = <<>> /\ stdinClosed
    /\ Stop("EOF")

BridgeDone ==
    /\ bridge.at = "LOOP"
    /\ AllTold
    /\ toRunner' = Append(toRunner, [line |-> "DONE"])
    /\ bridge' = [bridge EXCEPT !.at = "EXITED"]
    /\ UNCHANGED <<slots, toBridge, stdinClosed, told>>

Bridge == \/ BridgeAsk \/ BridgeWait \/ BridgeAskFails \/ BridgeListens
          \/ BridgeTell \/ BridgeTellFails \/ BridgeEndOfInput \/ BridgeDone
-----------------------------------------------------------------------------
AsksInPipe == {i \in DOMAIN toRunner : toRunner[i].line = "ASK"}
UsedIds == {slots[s].id : s \in InUse}
NextLineIs(line) == toRunner # <<>> /\ Head(toRunner).line = line

BridgeType ==
    /\ bridge \in [at : {"LOOP", "READ", "EXITED", "ABORTED"}, dispatched : 0..Budget,
                   completed : 0..Budget, why : {"", "ASK", "TELL", "EOF"}]
    /\ slots \in [Slots -> [used : BOOLEAN, id : Ids \cup {-1}, point : 0..Budget]]
    /\ stdinClosed \in BOOLEAN
=============================================================================
