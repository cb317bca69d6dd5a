---------------------------- MODULE Coordinator -----------------------------
(***************************************************************************)
(* The coordinator: the event loop that owns a session.  It records every  *)
(* input, turn, model response and tool-call status in the session store,  *)
(* asks the model for a response when there is something undelivered,      *)
(* turns the tool calls of a response into operations, and follows those   *)
(* operations until their results can be delivered in turn.                *)
(*                                                                         *)
(* Every step of this module is one handler: its change of the loop state  *)
(* and the append that makes it durable.  A crash between the two loses    *)
(* the loop state anyway, so it is the crash before the step; an append    *)
(* that fails ends Run and is a Crash before or after the step.            *)
(***************************************************************************)
EXTENDS Inbox, SessionStore, OperationManager

CONSTANTS
    MaxSubmit,      \* bound on the inputs the clients submit
    MaxHeartbeat,   \* bound on heartbeats; 0 is a zero heartbeat interval
    MaxRestart,     \* bound on the times the session is resumed
    ToolTurns,      \* the turns whose response may call tools
    ForkTurns,      \* the turns a session may be forked at
    Submittable     \* the inputs clients submit

ASSUME BoundsAssumption ==
    /\ MaxSubmit \in Nat
    /\ MaxHeartbeat \in Nat
    /\ MaxRestart \in Nat
    /\ ToolTurns \subseteq Turn
    /\ ForkTurns \subseteq Turn
    /\ Submittable \subseteq Input

VARIABLES
    pc,         \* where Run is
    cursor,     \* restore: number of history items replayed
    state,      \* loopState
    model,      \* whether cancelModel is set: a request of this turn is in flight
    stop,       \* the mode of the accepted stop request, or "none"
    cancellationRequested,
    beat,       \* the heartbeat timer of Run: "nil", "armed" or "spent"
    batch,      \* calls given a status by the current scheduleToolCalls
    inflight,   \* turns whose Respond goroutine has not handed over its result
    submits,    \* counters for the bounds
    heartbeats,
    restarts

runVars == <<pc, cursor, state, model, stop, cancellationRequested, beat, batch, inflight>>
boundVars == <<submits, heartbeats, restarts>>
vars == <<inboxVars, storeVars, managerVars, runVars, boundVars>>

-----------------------------------------------------------------------------
(* loopState and addItemToLocalState.                                      *)

\* A tool call is absent ("none"), added by a response and without a status
\* ("new"), or waiting for the operations of its status ("waiting").
LoopState ==
    [turn : 0 .. MaxTurn,
     calls : [Key -> {"none", "new", "waiting"}],
     ops : [Key -> Snapshot],
     available : Nat,
     delivered : Nat,
     turnInputs : Nat,
     callModel : BOOLEAN,
     grace : {"nil", "armed"},
     graceCalls : SUBSET Key]

NewLoopState ==
    [turn |-> 0,
     calls |-> [key \in Key |-> "none"],
     ops |-> [key \in Key |-> NoSnapshot],
     available |-> 0,
     delivered |-> 0,
     turnInputs |-> 0,
     callModel |-> FALSE,
     grace |-> "nil",
     graceCalls |-> {}]

OpenCalls(s)       == {key \in Key : s.calls[key] # "none"}
NewCalls(s)        == {key \in Key : s.calls[key] = "new"}
PendingInputs(s)   == s.available - s.delivered
UnfinishedOps(s)   == {op \in Op : s.ops[op[1]][op[2]] \in Unfinished}

ClearToolGrace(s) == [s EXCEPT !.grace = "nil", !.graceCalls = {}]

\* An external input and a heartbeat are inputs the model has to see.
IsDeliverable(input) == input.kind = "external" \/ input = HeartbeatInput

AddInput(s, input) ==
    IF IsDeliverable(input) THEN [s EXCEPT !.available = @ + 1] ELSE s

AddTurn(s, turn) ==
    [s EXCEPT !.turn = turn, !.turnInputs = s.available]

\* Mutant: a response delivers what is available when it arrives, not what its
\* request could show.
MutDeliverAvailable(s, turn, calls) ==
    [s EXCEPT
        !.delivered = s.available,
        !.calls = [key \in Key |->
            IF key[1] = turn /\ key[2] \in calls THEN "new" ELSE s.calls[key]]]

AddModelResponse(s, turn, calls) ==
    [s EXCEPT
        !.delivered = IF turn = s.turn THEN s.turnInputs ELSE @,
        !.calls = [key \in Key |->
            IF key[1] = turn /\ key[2] \in calls THEN "new" ELSE s.calls[key]]]

\* Mutant: a finished call stays in toolCalls.
MutFinishKeepsCall(s, key) ==
    LET left == s.graceCalls \ {key}
    IN  [s EXCEPT
            !.graceCalls = left,
            !.grace = IF left = {} THEN "nil" ELSE @,
            !.available = @ + 1]

FinishToolCall(s, key) ==
    LET left == s.graceCalls \ {key}
    IN  [s EXCEPT
            !.calls[key] = "none",
            !.graceCalls = left,
            !.grace = IF left = {} THEN "nil" ELSE @,
            !.available = @ + 1]

\* addOperationToLocalState, for the operations a status mentions.
AddOperations(s, key, ops) ==
    [s EXCEPT !.ops[key] =
        [slot \in Slot |-> IF ops[slot] = "none" THEN s.ops[key][slot] ELSE ops[slot]]]

\* The call's operations are those of its status; it is finished when they are.
AddToolCallStatus(s, key, ops) ==
    LET added   == AddOperations(s, key, ops)
        waiting == [added EXCEPT !.calls[key] = "waiting"]
    IN  IF s.calls[key] = "none" THEN added
        ELSE IF AllFinished(added.ops[key]) THEN FinishToolCall(waiting, key)
        ELSE waiting

\* A session that was forked takes over none of the calls of its parent; its inputs
\* count as they did there.
AddFork(s) ==
    [ClearToolGrace(s) EXCEPT
        !.calls = [key \in Key |-> "none"],
        !.ops = [key \in Key |-> NoSnapshot]]

AddItem(s, item) ==
    CASE item.kind = "input"    -> AddInput(s, item.input)
      [] item.kind = "turn"     -> AddTurn(s, item.turn)
      [] item.kind = "response" -> AddModelResponse(s, item.turn, item.calls)
      [] item.kind = "status"   -> AddToolCallStatus(s, item.key, item.ops)
      [] OTHER                  -> AddFork(s)

\* addItemToLocalState followed by storeItemInSessionStore.
Record(item) ==
    /\ state' = AddItem(state, item)
    /\ AppendItem(item)

-----------------------------------------------------------------------------
(* Starting and dying.                                                     *)

Up == pc \notin {"down", "stopped"}

\* Everything a process holds in memory, as a new process finds it.
NewProcess ==
    /\ cursor' = 0
    /\ state' = NewLoopState
    /\ model' = FALSE
    /\ stop' = "none"
    /\ cancellationRequested' = FALSE
    /\ beat' = "nil"
    /\ batch' = {}
    /\ inflight' = {}
    /\ NewManager

Init ==
    /\ queue = <<>>
    /\ seen = {}
    /\ EmptyStore
    /\ accepted = {}
    /\ running = {}
    /\ reported = {}
    /\ canceled = {}
    /\ updates = <<>>
    /\ pc = "load"
    /\ cursor = 0
    /\ state = NewLoopState
    /\ model = FALSE
    /\ stop = "none"
    /\ cancellationRequested = FALSE
    /\ beat = "nil"
    /\ batch = {}
    /\ inflight = {}
    /\ submits = 0
    /\ heartbeats = 0
    /\ restarts = 0

\* The process dies, its context is canceled, the model call of the current
\* turn fails or a store append fails: Run ends wherever it is.
Crash ==
    /\ Up
    /\ restarts < MaxRestart
    /\ pc' = "down"
    /\ NewProcess
    /\ NewInbox({})
    /\ UNCHANGED <<storeVars, boundVars>>

\* openSession and the start of Run: a new inbox, manager and coordinator.
Restart ==
    /\ ~Up
    /\ restarts < MaxRestart
    /\ restarts' = restarts + 1
    /\ pc' = "load"
    /\ NewProcess
    /\ NewInbox(RestoredIDs)
    /\ UNCHANGED <<storeVars, submits, heartbeats>>

\* The history goes on in a fork: a client has forked the session at a turn and opens
\* the new one.
OpenFork ==
    /\ ~Up
    /\ restarts < MaxRestart
    /\ restarts' = restarts + 1
    /\ \E turn \in ForkTurns : ForkSession(turn)
    /\ pc' = "load"
    /\ NewProcess
    /\ NewInbox(RestoredIDs')
    /\ UNCHANGED <<submits, heartbeats>>

\* loadHistory: replay the next item.
RestoreItem ==
    /\ pc = "load"
    /\ cursor < Len(log)
    /\ cursor' = cursor + 1
    /\ state' = AddItem(state, log[cursor + 1])
    /\ UNCHANGED <<inboxVars, storeVars, managerVars, boundVars, pc, model, stop,
                   cancellationRequested, beat, batch, inflight>>

\* The end of restore: the operations of ResumeState replace the replayed ones.
RestoreOperations(s) ==
    [s EXCEPT !.ops =
        [key \in Key |-> [slot \in Slot |->
            IF IsResumed(key, slot) THEN saved[key][slot] ELSE s.ops[key][slot]]]]

Restored ==
    /\ pc = "load"
    /\ cursor = Len(log)
    /\ pc' = "startSchedule"
    /\ state' = RestoreOperations(state)
    /\ UNCHANGED <<inboxVars, storeVars, managerVars, boundVars, cursor, model, stop,
                   cancellationRequested, beat, batch, inflight>>

-----------------------------------------------------------------------------
(* Tool calls.                                                             *)

\* What a translator makes of a call: an error, which submits no operation, or
\* operations that are ready to run.
Translation ==
    {[slot \in Slot |-> IF slot \in used THEN "ready" ELSE "none"] : used \in SUBSET Slot}

\* scheduleToolCall: translate one call that has no status and record its status.
ScheduleToolCall(key) ==
    /\ pc \in {"startSchedule", "schedule"}
    /\ key \in NewCalls(state)
    /\ \E ops \in Translation :
          Record([kind |-> "status", key |-> key, ops |-> ops])
    /\ batch' = batch \cup {key}
    /\ UNCHANGED <<inboxVars, managerVars, boundVars, pc, cursor, model, stop,
                   cancellationRequested, beat, inflight>>

\* toolCallStatusesRequireModelResponse: some status waits for no operation, as
\* every error status does.
BatchRequiresModel == \E key \in batch : Mentioned(state.ops[key]) = {}

\* reconcileToolCalls, for one call whose operations have all finished: record
\* a status with their final snapshots.
ReconcileToolCall(key) ==
    /\ pc \in {"startReconcile", "reconcile"}
    /\ state.calls[key] = "waiting"
    /\ AllFinished(state.ops[key])
    /\ Record([kind |-> "status", key |-> key, ops |-> state.ops[key]])
    /\ UNCHANGED <<inboxVars, managerVars, boundVars, pc, cursor, model, stop,
                   cancellationRequested, beat, batch, inflight>>

Reconciled == \A key \in Key : state.calls[key] = "waiting" => ~AllFinished(state.ops[key])

\* requestModelResponse: interrupt the request in flight, record a new turn and
\* start its request.  The result is the state after the turn.
RequestModelResponse(s) ==
    /\ s.turn < MaxTurn
    /\ LET turn == [kind |-> "turn", turn |-> s.turn + 1]
       IN  /\ state' = [ClearToolGrace(AddItem(s, turn)) EXCEPT !.callModel = FALSE]
           /\ AppendItem(turn)
    /\ model' = TRUE
    /\ inflight' = inflight \cup {s.turn + 1}

-----------------------------------------------------------------------------
(* Run, before its loop.                                                   *)

StartScheduled ==
    /\ pc = "startSchedule"
    /\ NewCalls(state) = {}
    /\ pc' = "startReconcile"
    /\ UNCHANGED <<inboxVars, storeVars, managerVars, boundVars, cursor, state, model, stop,
                   cancellationRequested, beat, batch, inflight>>

\* Mutant: the restored operations are not dispatched again.
MutStartUndispatched ==
    /\ pc = "startReconcile"
    /\ Reconciled
    /\ pc' = "top"
    /\ IF BatchRequiresModel \/ PendingInputs(state) > 0
       THEN RequestModelResponse(state)
       ELSE UNCHANGED <<storeVars, state, model, inflight>>
    /\ batch' = {}
    /\ UNCHANGED <<inboxVars, managerVars, boundVars, cursor, stop, cancellationRequested,
                   beat>>

\* dispatchOperationsToManager, then a model request if anything is undelivered.
\* An error status of the batch counts as undelivered by itself.
StartLoop ==
    /\ pc = "startReconcile"
    /\ Reconciled
    /\ pc' = "top"
    /\ Add(UnfinishedOps(state))
    /\ IF BatchRequiresModel \/ PendingInputs(state) > 0
       THEN RequestModelResponse(state)
       ELSE UNCHANGED <<storeVars, state, model, inflight>>
    /\ batch' = {}
    /\ UNCHANGED <<inboxVars, boundVars, cursor, stop, cancellationRequested, beat>>

-----------------------------------------------------------------------------
(* The select of Run.                                                      *)

\* Mutant: idle does not look at the tool calls.
MutIdleWithCalls == ~model /\ PendingInputs(state) = 0

IsIdle ==
    /\ ~model
    /\ PendingInputs(state) = 0
    /\ OpenCalls(state) = {}
    /\ UnfinishedOps(state) = {}

IsWaitingForOnlyToolCalls ==
    /\ ~model
    /\ stop # "hard"
    /\ PendingInputs(state) = 0
    /\ OpenCalls(state) # {}

\* The top of the loop arms or drops the heartbeat timer.
LoopTop ==
    /\ pc = "top"
    /\ pc' = "select"
    /\ beat' = IF ~IsWaitingForOnlyToolCalls THEN "nil"
               ELSE IF beat = "nil" THEN "armed" ELSE beat
    /\ UNCHANGED <<inboxVars, storeVars, managerVars, boundVars, cursor, state, model, stop,
                   cancellationRequested, batch, inflight>>

\* acceptStop: a hard stop is never replaced.
AcceptStop(input) ==
    IF input.kind = "control" /\ input.mode \in {"hard", "when_idle"} /\ stop # "hard"
    THEN input.mode ELSE stop

\* The loop state after handleInboxInputs has handled an input: every input but
\* a settings update ends the grace period, an external one asks for the model.
AfterInput(s, input) ==
    LET kept == input.kind = "control" /\ input.mode = "settings"
        next == IF kept THEN s ELSE ClearToolGrace(s)
    IN  [next EXCEPT !.callModel = @ \/ input.kind = "external"]

\* An input from the inbox, selected by Run or slurped by processEvents.
ReceiveInput ==
    /\ pc \in {"select", "slurpInputs"}
    /\ pc' = "slurpInputs"
    /\ \E input \in Input :
          /\ Deliver(input)
          /\ LET item == [kind |-> "input", input |-> input]
             IN  /\ state' = AfterInput(AddItem(state, item), input)
                 /\ AppendItem(item)
          /\ stop' = AcceptStop(input)
    /\ UNCHANGED <<managerVars, boundVars, cursor, model, cancellationRequested, beat,
                   batch, inflight>>

\* handleOperationUpdate, selected by Run or slurped by processEvents.
ReceiveUpdate ==
    /\ pc \in {"select", "slurpUpdates"}
    /\ pc' = IF pc = "select" THEN "slurpInputs" ELSE pc
    /\ \E key \in Key, slot \in Slot, status \in OpStatus :
          /\ DeliverUpdate([op |-> <<key, slot>>, status |-> status])
          /\ state' = [state EXCEPT !.ops[key][slot] = status]
          /\ SaveOperation(key, slot, status)
    /\ UNCHANGED <<inboxVars, boundVars, cursor, model, stop, cancellationRequested, beat,
                   batch, inflight>>

\* postHeartbeat: the coordinator submits to its own inbox.
HeartbeatFires ==
    /\ pc = "select"
    /\ beat = "armed"
    /\ heartbeats < MaxHeartbeat
    /\ heartbeats' = heartbeats + 1
    /\ beat' = "spent"
    /\ pc' = "slurpInputs"
    /\ Submit(HeartbeatInput)
    /\ UNCHANGED <<storeVars, managerVars, submits, restarts, cursor, state, model, stop,
                   cancellationRequested, batch, inflight>>

\* The grace period of the latest tool calls is over.
GraceFires ==
    /\ pc = "select"
    /\ state.grace = "armed"
    /\ pc' = "slurpInputs"
    /\ state' = ClearToolGrace(state)
    /\ UNCHANGED <<inboxVars, storeVars, managerVars, boundVars, cursor, model, stop,
                   cancellationRequested, beat, batch, inflight>>

\* Mutants: one of the two conditions of a stale response is missing.
MutStaleByTurn(turn) == turn # state.turn
MutStaleByModel(turn) == ~model

\* Run drops the result of a request it interrupted.
IsStale(turn) == ~model \/ turn # state.turn

DropResponse ==
    /\ pc = "select"
    /\ \E turn \in inflight :
          /\ IsStale(turn)
          /\ inflight' = inflight \ {turn}
    /\ pc' = "top"
    /\ UNCHANGED <<inboxVars, storeVars, managerVars, boundVars, cursor, state, model, stop,
                   cancellationRequested, beat, batch>>

\* processModelResponse up to the scheduling of its calls.
ReceiveResponse ==
    /\ pc = "select"
    /\ \E turn \in inflight, calls \in SUBSET Call :
          /\ ~IsStale(turn)
          /\ calls # {} => turn \in ToolTurns
          /\ inflight' = inflight \ {turn}
          /\ Record([kind |-> "response", turn |-> turn, calls |-> calls])
    /\ model' = FALSE
    /\ batch' = {}
    /\ pc' = "schedule"
    /\ UNCHANGED <<inboxVars, managerVars, boundVars, cursor, stop, cancellationRequested,
                   beat>>

\* The rest of processModelResponse: every call of the response has a status.
\* Dispatch the operations and, unless the model is to be called at once, start
\* the grace period.
BatchOps == {op \in UnfinishedOps(state) : op[1] \in batch}

\* Mutant: the grace period starts without its timer.
MutGraceUntimed ==
    /\ pc = "schedule"
    /\ NewCalls(state) = {}
    /\ pc' = "slurpInputs"
    /\ Add(BatchOps)
    /\ state' = LET decided == [state EXCEPT !.callModel = BatchRequiresModel]
                IN  IF BatchRequiresModel \/ batch = {} THEN decided
                    ELSE [decided EXCEPT !.graceCalls = @ \cup batch]
    /\ batch' = {}
    /\ UNCHANGED <<inboxVars, storeVars, boundVars, cursor, model, stop,
                   cancellationRequested, beat, inflight>>

Scheduled ==
    /\ pc = "schedule"
    /\ NewCalls(state) = {}
    /\ pc' = "slurpInputs"
    /\ Add(BatchOps)
    /\ state' = LET decided == [state EXCEPT !.callModel = BatchRequiresModel]
                IN  IF BatchRequiresModel \/ batch = {} THEN decided
                    ELSE [decided EXCEPT !.graceCalls = @ \cup batch, !.grace = "armed"]
    /\ batch' = {}
    /\ UNCHANGED <<inboxVars, storeVars, boundVars, cursor, model, stop,
                   cancellationRequested, beat, inflight>>

-----------------------------------------------------------------------------
(* processEvents and the end of the loop.                                  *)

\* slurpChannel gives up when its channel stays quiet, or at its item limit.
SlurpedInputs ==
    /\ pc = "slurpInputs"
    /\ pc' = "slurpUpdates"
    /\ UNCHANGED <<inboxVars, storeVars, managerVars, boundVars, cursor, state, model, stop,
                   cancellationRequested, beat, batch, inflight>>

SlurpedUpdates ==
    /\ pc = "slurpUpdates"
    /\ pc' = "reconcile"
    /\ UNCHANGED <<inboxVars, storeVars, managerVars, boundVars, cursor, state, model, stop,
                   cancellationRequested, beat, batch, inflight>>

EventsProcessed ==
    /\ pc = "reconcile"
    /\ Reconciled
    /\ pc' = "decide"
    /\ UNCHANGED <<inboxVars, storeVars, managerVars, boundVars, cursor, state, model, stop,
                   cancellationRequested, beat, batch, inflight>>

\* Mutant: results and heartbeats do not ask for the model by themselves.
MutCallForInputs == state.callModel

\* The result of processEvents.
ShouldCallModel ==
    \/ state.callModel
    \/ PendingInputs(state) > 0 /\ ~model /\ state.graceCalls = {}

\* Mutant: a hard stop does not wait for the operations it cancels.
MutStopAtOnce ==
    /\ pc = "decide"
    /\ stop = "hard"
    /\ model' = FALSE
    /\ Cancel(UnfinishedOps(state))
    /\ cancellationRequested' = TRUE
    /\ pc' = "stopped"
    /\ UNCHANGED <<inboxVars, storeVars, boundVars, cursor, state, stop, beat, batch, inflight>>

\* handleStop: interrupt the model and cancel what runs, once; then wait until
\* no operation is unfinished.
HandleStop ==
    /\ pc = "decide"
    /\ stop = "hard"
    /\ IF cancellationRequested
       THEN UNCHANGED <<model, managerVars>>
       ELSE /\ model' = FALSE
            /\ Cancel(UnfinishedOps(state))
    /\ cancellationRequested' = TRUE
    /\ pc' = IF UnfinishedOps(state) = {} THEN "stopped" ELSE "top"
    /\ UNCHANGED <<inboxVars, storeVars, boundVars, cursor, state, stop, beat, batch, inflight>>

CallModel ==
    /\ pc = "decide"
    /\ stop # "hard"
    /\ ShouldCallModel
    /\ RequestModelResponse(state)
    /\ pc' = "top"
    /\ UNCHANGED <<inboxVars, managerVars, boundVars, cursor, stop, cancellationRequested,
                   beat, batch>>

StopWhenIdle ==
    /\ pc = "decide"
    /\ ~ShouldCallModel
    /\ stop = "when_idle"
    /\ IsIdle
    /\ pc' = "stopped"
    /\ UNCHANGED <<inboxVars, storeVars, managerVars, boundVars, cursor, state, model, stop,
                   cancellationRequested, beat, batch, inflight>>

Continue ==
    /\ pc = "decide"
    /\ stop # "hard"
    /\ ~ShouldCallModel
    /\ ~(stop = "when_idle" /\ IsIdle)
    /\ pc' = "top"
    /\ UNCHANGED <<inboxVars, storeVars, managerVars, boundVars, cursor, state, model, stop,
                   cancellationRequested, beat, batch, inflight>>

-----------------------------------------------------------------------------
(* The clients and the operations.                                         *)

\* A client submits an input, perhaps one it has submitted before.
ClientSubmits ==
    /\ Up
    /\ submits < MaxSubmit
    /\ submits' = submits + 1
    /\ \E input \in Submittable : Submit(input)
    /\ UNCHANGED <<storeVars, managerVars, runVars, heartbeats, restarts>>

OperationReports ==
    /\ Up
    /\ \E op \in Op, status \in Progress : Report(op, status)
    /\ UNCHANGED <<inboxVars, storeVars, runVars, boundVars>>

OperationFinishes(op) ==
    /\ Up
    /\ \E status \in Outcome : Finish(op, status)
    /\ UNCHANGED <<inboxVars, storeVars, runVars, boundVars>>

-----------------------------------------------------------------------------

\* The steps of the coordinator's goroutine.
RunStep ==
    \/ RestoreItem
    \/ Restored
    \/ \E key \in Key : ScheduleToolCall(key)
    \/ \E key \in Key : ReconcileToolCall(key)
    \/ StartScheduled
    \/ StartLoop
    \/ LoopTop
    \/ ReceiveInput
    \/ ReceiveUpdate
    \/ HeartbeatFires
    \/ GraceFires
    \/ DropResponse
    \/ ReceiveResponse
    \/ Scheduled
    \/ SlurpedInputs
    \/ SlurpedUpdates
    \/ EventsProcessed
    \/ HandleStop
    \/ CallModel
    \/ StopWhenIdle
    \/ Continue

Next ==
    \/ RunStep
    \/ Crash
    \/ Restart
    \/ OpenFork
    \/ ClientSubmits
    \/ OperationReports
    \/ \E op \in Op : OperationFinishes(op)

Spec == Init /\ [][Next]_vars

\* The goroutine of Run keeps running, a request in flight is answered or fails,
\* and an operation whose context is canceled ends.  An operation that is not
\* canceled may run forever.
FairSpec ==
    /\ Spec
    /\ WF_vars(RunStep)
    /\ \A op \in Op : WF_vars(op \in canceled /\ OperationFinishes(op))

-----------------------------------------------------------------------------
(* What the history says.                                                  *)

\* A status that finishes its call: an error, or final snapshots.
IsResult(item) == item.kind = "status" /\ AllFinished(item.ops)

\* Items the model has to see: messages, heartbeats and tool-call results.
IsDelivery(item) ==
    \/ item.kind = "input" /\ IsDeliverable(item.input)
    \/ IsResult(item)

\* A turn recorded after item i has been answered.
Answered(i) ==
    \E j \in ItemsOf("turn"), k \in ItemsOf("response") :
        i < j /\ j < k /\ log[k].turn = log[j].turn

Undelivered == {i \in DOMAIN log : IsDelivery(log[i]) /\ ~Answered(i)}

HasResult(key) == \E i \in StatusesOf(key) : IsResult(log[i])

\* The calls that the responses have made to this session, not to one it was forked from.
OwnCalls ==
    {key \in Key : \E i \in ItemsOf("response") :
        IsOwn(log, i) /\ log[i].turn = key[1] /\ key[2] \in log[i].calls}

\* Run has replayed the history and has not ended.
Live == Up /\ pc # "load"

\* The loop state after the first n items of the history have been replayed, and the
\* one that a process started now would restore.
StateAfter[n \in 0 .. Len(log)] ==
    IF n = 0 THEN NewLoopState ELSE AddItem(StateAfter[n - 1], log[n])

Replayed == RestoreOperations(StateAfter[Len(log)])

-----------------------------------------------------------------------------
(* Properties.                                                             *)

\* Every variable keeps its type.
TypeOK ==
    /\ InboxTypeOK
    /\ StoreTypeOK
    /\ ManagerTypeOK
    /\ pc \in {"down", "load", "startSchedule", "startReconcile", "top", "select",
              "schedule", "slurpInputs", "slurpUpdates", "reconcile", "decide", "stopped"}
    /\ cursor \in Nat
    /\ state \in LoopState
    /\ model \in BOOLEAN
    /\ stop \in {"none", "hard", "when_idle"}
    /\ cancellationRequested \in BOOLEAN
    /\ beat \in {"nil", "armed", "spent"}
    /\ batch \subseteq Key
    /\ inflight \subseteq Turn
    /\ submits \in Nat
    /\ heartbeats \in Nat
    /\ restarts \in Nat

\* pendingInputs() is the number of messages, heartbeats and results in the
\* history that no answered turn has shown to the model.
PendingMatchesHistory ==
    Live => PendingInputs(state) = Cardinality(Undelivered)

\* A process that dies at this point loses nothing the next one needs: replaying
\* the history and the stored operations rebuilds the turn, the calls, the
\* operations and the delivery accounting the coordinator has in memory.
ReplayRebuildsState ==
    Live =>
        /\ Replayed.turn = state.turn
        /\ Replayed.calls = state.calls
        /\ Replayed.ops = state.ops
        /\ Replayed.available = state.available
        /\ Replayed.delivered = state.delivered
        /\ Replayed.turnInputs = state.turnInputs

\* A call gets at most one result, and no status after it: the result that a
\* crash interrupted is neither lost nor recorded again by the next process.
OneResultPerCall ==
    \A key \in Key : \A i, j \in StatusesOf(key) : IsResult(log[i]) => j <= i

\* Outside start-up and scheduling, every unfinished operation of the coordinator
\* has been handed to the manager of this process: a call never waits for an
\* operation that nobody runs.
InLoop == {"top", "select", "slurpInputs", "slurpUpdates", "reconcile", "decide"}

UnfinishedAreDispatched ==
    pc \in InLoop => UnfinishedOps(state) \subseteq accepted

\* An external input is recorded once, however often clients submit it and the
\* session is resumed.
InputsRecordedOnce ==
    \A i, j \in ItemsOf("input") :
        log[i].input.kind = "external" /\ log[i] = log[j] => i = j

\* Run ends on "when_idle" only with nothing left to do: every message and every
\* result has been answered and every call made to this session has its result.  The
\* calls that a fork inherits may never get one (the FIXME of addItemToLocalState).
IdleStopIsComplete ==
    pc = "stopped" /\ stop = "when_idle" =>
        /\ Undelivered = {}
        /\ \A key \in OwnCalls : HasResult(key)

\* Run ends on "hard" only when no operation runs, and with the result of every
\* call recorded that was made to this session, not to one it was forked from.
HardStopIsComplete ==
    pc = "stopped" /\ stop = "hard" =>
        /\ running = {}
        /\ \A key \in OwnCalls : HasResult(key)

\* "Once set, no new nonterminal operations may enter coordinator state."
NoWorkAfterCancellation ==
    [][cancellationRequested /\ cancellationRequested' =>
        UnfinishedOps(state') \subseteq UnfinishedOps(state)]_vars

\* When clients stop sending, every message, heartbeat and result in the history
\* is answered, even while other tool calls never end, unless Run ends or a
\* hard stop is accepted.
EverythingIsDelivered ==
    (Live /\ stop # "hard") ~> (~Live \/ stop = "hard" \/ Undelivered = {})

\* A stop ends Run: a hard one whatever runs, and one that waits until the session
\* is idle when its operations all end.
StopsEnd ==
    /\ (stop = "hard") ~> ~Up
    /\ (\A op \in Op : []<>(op \notin running)) =>
           ((stop = "when_idle") ~> (stop # "when_idle" \/ ~Up))

\* The store accepts every append of the coordinator, and a response always
\* answers the latest turn: the result of an interrupted request is not kept.  (A
\* history that has become a fork's ends with the fork item.)
AppendsAreAccepted ==
    [][/\ log' # log =>
             LET item == log'[Len(log')]
             IN  item.kind = "fork" \/
                 /\ AcceptsItem(log, item)
                 /\ item.kind = "response" => item.turn = LatestTurn(log)
       /\ \A key \in Key, slot \in Slot :
             saved'[key][slot] # saved[key][slot] /\ log' = log => AcceptsOperation(key, slot)
      ]_storeVars
=============================================================================
