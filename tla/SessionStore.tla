---------------------------- MODULE SessionStore ----------------------------
(***************************************************************************)
(* What the coordinator is promised by a session store: an append-only     *)
(* history of items and the latest state of every operation.  Everything   *)
(* here survives a crash.  The appends state, besides their effect, what   *)
(* the store accepts (AcceptsItem, AcceptsOperation); a refused append is  *)
(* an error that ends Run.                                                 *)
(***************************************************************************)
EXTENDS SessionTypes

VARIABLES
    log,    \* the items of the session, in sequence order
    saved   \* the latest stored status of every operation

storeVars == <<log, saved>>

StoreTypeOK ==
    /\ log \in Seq(Item)
    /\ saved \in [Key -> Snapshot]

EmptyStore ==
    /\ log = <<>>
    /\ saved = [key \in Key |-> NoSnapshot]

\* Positions of the items of one kind.
ItemsOf(kind) == {i \in DOMAIN log : log[i].kind = kind}

StatusesOf(key) == {i \in ItemsOf("status") : log[i].key = key}

\* The turn of the last turn item, 0 when there is none.
LatestTurn(items) ==
    LET turns == {i \in DOMAIN items : items[i].kind = "turn"}
    IN  IF turns = {} THEN 0
        ELSE items[CHOOSE i \in turns : \A j \in turns : j <= i].turn

\* The item is one of the session's own, not one it has from the session that it was
\* forked from.
IsOwn(items, i) == \A fork \in DOMAIN items : items[fork].kind = "fork" => fork < i

\* The session has recorded the turn itself: ownedTurns.
OwnsTurn(items, turn) ==
    \E i \in DOMAIN items : items[i].kind = "turn" /\ items[i].turn = turn /\ IsOwn(items, i)

\* What sessionHead's appendInput, appendTurn, appendModelResponse and
\* appendToolCallStatus accept after the given items.  A tool call's first
\* status initialises operations that nothing initialised before, all of them
\* new; an error status initialises none.
AcceptsItem(items, item) ==
    \/ item.kind = "input"
    \/ /\ item.kind = "turn"
       /\ item.turn = LatestTurn(items) + 1
    \/ /\ item.kind = "response"
       /\ OwnsTurn(items, item.turn)
       /\ \A i \in DOMAIN items : items[i].kind = "response" => items[i].turn # item.turn
    \/ /\ item.kind = "status"
       /\ OwnsTurn(items, item.key[1])

\* sessionHead.saveOperation accepts only an operation a status initialised.
AcceptsOperation(key, slot) == saved[key][slot] # "none"

\* The first status of a call also initialises the operations it waits for;
\* later statuses of the call only extend the history.
AppendItem(item) ==
    /\ log' = Append(log, item)
    /\ saved' = IF item.kind = "status" /\ StatusesOf(item.key) = {}
                THEN [saved EXCEPT ![item.key] = item.ops]
                ELSE saved

\* Store.Fork: what is open is a new session, with the history up to the turn and none of
\* its operations.
ForkSession(turn) ==
    /\ Boundary(log, turn) # {}
    /\ log' = ForkedItems(log, turn)
    /\ saved' = [key \in Key |-> NoSnapshot]

\* SaveOperation: the latest state of an operation wins.
SaveOperation(key, slot, status) ==
    /\ saved' = [saved EXCEPT ![key][slot] = status]
    /\ UNCHANGED log

\* The last status of the call that mentions the operation shows it unfinished:
\* resume()'s "pending" set.
Unrecorded(key, slot) ==
    \E i \in StatusesOf(key) :
        /\ log[i].ops[slot] \in Unfinished
        /\ \A j \in StatusesOf(key) : j > i => log[j].ops[slot] \notin Finished

\* Mutant: only unfinished operations are resumed.
MutResumeUnfinished(key, slot) == saved[key][slot] \in Unfinished

\* ResumeState.Operations: unfinished operations, and finished ones whose
\* final status the history does not hold yet.
IsResumed(key, slot) ==
    \/ saved[key][slot] \in Unfinished
    \/ saved[key][slot] \in Finished /\ Unrecorded(key, slot)

\* Mutant: a resumed session forgets the inputs it has recorded.
MutRestoreNoIDs == {}

\* ResumeState.ExternalInputIDs.
RestoredIDs ==
    {log[i].input.id : i \in {j \in ItemsOf("input") : log[j].input.kind = "external"}}
=============================================================================
