---------------------------- MODULE SessionTypes ----------------------------
(***************************************************************************)
(* The vocabulary every component of a session shares: turns, tool calls,  *)
(* operations and their statuses, inbox inputs and history items.          *)
(*                                                                         *)
(* Identifiers the code draws at random (uuid) are counters or positions   *)
(* here: turn n is the n-th turn of the session, and the operations of a   *)
(* tool call are the slots of its key.                                     *)
(***************************************************************************)
EXTENDS Integers, Sequences, FiniteSets

CONSTANTS
    External,   \* IDs of the external (user) inputs
    Call,       \* call IDs a model response may use
    Slot,       \* the operations one tool call may submit
    MaxTurn     \* bound on the number of turns of the session

ASSUME MaxTurnAssumption == MaxTurn \in Nat

Turn == 1 .. MaxTurn

\* A tool call is identified by its turn and its call ID (toolCallKey).
Key == Turn \X Call

\* The statuses of operation.Status.  Where a snapshot says "none" the call has no such
\* operation, and where it says "inherited" the call waits for one that belongs to the
\* session this one was forked from: its status names it, no operation comes with it.
Unfinished == {"ready", "awaiting", "canceling"}
Finished   == {"completed", "failed", "canceled"}
OpStatus   == Unfinished \cup Finished
Snapshot   == [Slot -> OpStatus \cup {"none", "inherited"}]
NoSnapshot == [slot \in Slot |-> "none"]

\* The operations that a snapshot mentions, and whether none of them still runs.
Mentioned(snapshot)   == {slot \in Slot : snapshot[slot] # "none"}
AllFinished(snapshot) == \A slot \in Mentioned(snapshot) : snapshot[slot] \in Finished
AreInherited(snapshot) == \E slot \in Slot : snapshot[slot] = "inherited"

\* Inputs: an external message, or a control message with its mode.
Mode    == {"hard", "when_idle", "heartbeat", "settings"}
Message == [kind : {"external"}, id : External]
Control == [kind : {"control"}, mode : Mode]
Input   == Message \cup Control

HeartbeatInput == [kind |-> "control", mode |-> "heartbeat"]

\* The items of a session's history.  The coordinator appends all but the fork item, with
\* which the store ends what a session has from the one it was forked from.
InputItem    == [kind : {"input"}, input : Input]
TurnItem     == [kind : {"turn"}, turn : Turn]
ResponseItem == [kind : {"response"}, turn : Turn, calls : SUBSET Call]
StatusItem   == [kind : {"status"}, key : Key, ops : Snapshot]
ForkItem     == [kind : {"fork"}, turn : Turn]
Item         == InputItem \cup TurnItem \cup ResponseItem \cup StatusItem \cup ForkItem

-----------------------------------------------------------------------------
(* Forks: a session that goes on from a turn of another one.               *)

\* A fork copies a status without the operations that come with it.
InheritedOps(snapshot) ==
    [slot \in Slot |-> IF snapshot[slot] = "none" THEN "none" ELSE "inherited"]

Inherited(item) ==
    IF item.kind = "status" THEN [item EXCEPT !.ops = InheritedOps(@)] ELSE item

\* forkStoredState: the items up to the last one about the turn before the next
\* turn begins.
IsAbout(item, turn) ==
    \/ item.kind \in {"turn", "response"} /\ item.turn = turn
    \/ item.kind = "status" /\ item.key[1] = turn

Boundary(items, turn) ==
    {i \in 1 .. Len(items) :
        /\ IsAbout(items[i], turn)
        /\ \A j \in 1 .. i : items[j].kind = "turn" =>
              ~ \E k \in 1 .. (j - 1) : IsAbout(items[k], turn)
        /\ \A j \in DOMAIN items :
              j > i /\ IsAbout(items[j], turn) =>
                 \E k \in (i + 1) .. j : items[k].kind = "turn"}

Kept(items, turn) ==
    LET boundary == CHOOSE i \in Boundary(items, turn) : TRUE
    IN  [i \in 1 .. boundary |-> Inherited(items[i])]

\* The items of the session forked at the turn.
ForkedItems(items, turn) == Append(Kept(items, turn), [kind |-> "fork", turn |-> turn])
=============================================================================
