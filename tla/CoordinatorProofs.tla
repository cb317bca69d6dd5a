------------------------- MODULE CoordinatorProofs --------------------------
(***************************************************************************)
(* Theorems about the coordinator, for every number of turns, inputs,      *)
(* calls and operations: types, the inputs it records, the operations it   *)
(* hands to its manager, what a hard stop leaves of them, the history it   *)
(* writes over any number of resumes, what a replay of it rebuilds, and    *)
(* the requests that it shows the model.                                   *)
(***************************************************************************)
EXTENDS MCCoordinator, FiniteSetTheorems, WellFoundedInduction, TLAPS

-----------------------------------------------------------------------------
(* The operators on loopState keep its type.                               *)

\* An item is of one of the five kinds, and its fields have the type of its kind.
LEMMA ItemKinds ==
    ASSUME NEW item \in Item
    PROVE  \/ item.kind = "input" /\ item.input \in Input
           \/ item.kind = "turn" /\ item.turn \in Turn
           \/ item.kind = "response" /\ item.turn \in Turn /\ item.calls \in SUBSET Call
           \/ item.kind = "status" /\ item.key \in Key /\ item.ops \in Snapshot
           \/ item.kind = "fork"
BY DEF Item, InputItem, TurnItem, ResponseItem, StatusItem, ForkItem

\* finishToolCall yields a loop state.
LEMMA FinishToolCallType ==
    ASSUME NEW s \in LoopState, NEW key \in Key
    PROVE  FinishToolCall(s, key) \in LoopState
<1> DEFINE left  == s.graceCalls \ {key}
           calls == [s.calls EXCEPT ![key] = "none"]
           grace == IF left = {} THEN "nil" ELSE s.grace
<1>1. /\ left \in SUBSET Key
      /\ calls \in [Key -> {"none", "new", "waiting"}]
      /\ grace \in {"nil", "armed"}
      /\ s.available + 1 \in Nat
  BY DEF LoopState
<1>2. FinishToolCall(s, key) =
        [s EXCEPT !.calls = calls, !.graceCalls = left, !.grace = grace,
                  !.available = s.available + 1]
  BY DEF FinishToolCall
<1> HIDE DEF left, calls, grace
<1> QED
  BY <1>1, <1>2 DEF LoopState

\* addOperationToLocalState yields a loop state.
LEMMA AddOperationsType ==
    ASSUME NEW s \in LoopState, NEW key \in Key, NEW ops \in Snapshot
    PROVE  AddOperations(s, key, ops) \in LoopState
<1> DEFINE new == [slot \in Slot |->
                     IF ops[slot] = "none" THEN s.ops[key][slot] ELSE ops[slot]]
<1>1. new \in Snapshot
  BY DEF LoopState, Snapshot
<1> HIDE DEF new
<1>2. [s EXCEPT !.ops[key] = new] \in LoopState
  BY <1>1 DEF LoopState
<1> QED
  BY <1>2 DEF AddOperations, new

\* Applying a tool-call status yields a loop state.
LEMMA AddToolCallStatusType ==
    ASSUME NEW s \in LoopState, NEW key \in Key, NEW ops \in Snapshot
    PROVE  AddToolCallStatus(s, key, ops) \in LoopState
<1> DEFINE added   == AddOperations(s, key, ops)
           waiting == [added EXCEPT !.calls[key] = "waiting"]
<1>1. added \in LoopState
  BY AddOperationsType
<1> HIDE DEF added
<1>2. waiting \in LoopState
  BY <1>1 DEF LoopState
<1> HIDE DEF waiting
<1>3. FinishToolCall(waiting, key) \in LoopState
  BY <1>2, FinishToolCallType
<1> QED
  BY <1>1, <1>2, <1>3 DEF AddToolCallStatus, added, waiting

\* Applying a model response yields a loop state.
LEMMA AddModelResponseType ==
    ASSUME NEW s \in LoopState, NEW turn \in Turn, NEW calls \in SUBSET Call
    PROVE  AddModelResponse(s, turn, calls) \in LoopState
<1> DEFINE new == [key \in Key |->
                     IF key[1] = turn /\ key[2] \in calls THEN "new" ELSE s.calls[key]]
           delivered == IF turn = s.turn THEN s.turnInputs ELSE s.delivered
<1>1. new \in [Key -> {"none", "new", "waiting"}] /\ delivered \in Nat
  BY DEF LoopState
<1> HIDE DEF new, delivered
<1>2. [s EXCEPT !.delivered = delivered, !.calls = new] \in LoopState
  BY <1>1 DEF LoopState
<1> QED
  BY <1>2 DEF AddModelResponse, new, delivered

\* A new turn yields a loop state.
LEMMA AddTurnType ==
    ASSUME NEW s \in LoopState, NEW turn \in Turn
    PROVE  AddTurn(s, turn) \in LoopState
<1>1. turn \in 0 .. MaxTurn /\ s.available \in Nat
  BY MaxTurnAssumption DEF Turn, LoopState
<1> DEFINE available == s.available
<1> HIDE DEF available
<1>2. available \in Nat => [s EXCEPT !.turn = turn, !.turnInputs = available] \in LoopState
  BY <1>1 DEF LoopState
<1> QED
  BY <1>1, <1>2 DEF AddTurn, available

\* Clearing the grace period yields a loop state.
LEMMA ClearToolGraceType ==
    ASSUME NEW s \in LoopState
    PROVE  ClearToolGrace(s) \in LoopState
BY DEF ClearToolGrace, LoopState

\* A fork item yields a loop state.
LEMMA AddForkType ==
    ASSUME NEW s \in LoopState
    PROVE  AddFork(s) \in LoopState
<1> DEFINE cleared == ClearToolGrace(s)
           calls   == [key \in Key |-> "none"]
           ops     == [key \in Key |-> NoSnapshot]
<1>1. /\ cleared \in LoopState
      /\ calls \in [Key -> {"none", "new", "waiting"}] /\ ops \in [Key -> Snapshot]
  BY ClearToolGraceType DEF NoSnapshot, Snapshot
<1> HIDE DEF cleared, calls, ops
<1>2. [cleared EXCEPT !.calls = calls, !.ops = ops] \in LoopState
  BY <1>1 DEF LoopState
<1> QED
  BY <1>2 DEF AddFork, cleared, calls, ops

\* addItemToLocalState yields a loop state.
LEMMA AddItemType ==
    ASSUME NEW s \in LoopState, NEW item \in Item
    PROVE  AddItem(s, item) \in LoopState
<1>1. CASE item.kind = "input"
  BY <1>1 DEF AddItem, AddInput, LoopState
<1>2. CASE item.kind = "turn"
  BY <1>2, ItemKinds, AddTurnType DEF AddItem
<1>3. CASE item.kind = "response"
  BY <1>3, ItemKinds, AddModelResponseType DEF AddItem
<1>4. CASE item.kind = "status"
  BY <1>4, ItemKinds, AddToolCallStatusType DEF AddItem
<1>5. CASE item.kind = "fork"
  BY <1>5, AddForkType DEF AddItem
<1> QED
  BY <1>1, <1>2, <1>3, <1>4, <1>5, ItemKinds

\* An append to the store keeps its type.
LEMMA AppendItemType ==
    ASSUME StoreTypeOK, NEW item \in Item, AppendItem(item)
    PROVE  StoreTypeOK'
<1>1. log' \in Seq(Item)
  BY DEF StoreTypeOK, AppendItem
<1>2. saved' \in [Key -> Snapshot]
  BY ItemKinds DEF StoreTypeOK, AppendItem
<1> QED
  BY <1>1, <1>2 DEF StoreTypeOK

\* A model request keeps the types of what it changes.
LEMMA RequestModelResponseType ==
    ASSUME TypeOK, RequestModelResponse(state)
    PROVE  state' \in LoopState /\ StoreTypeOK' /\ model' \in BOOLEAN /\ inflight' \subseteq Turn
<1> DEFINE turn == [kind |-> "turn", turn |-> state.turn + 1]
           next == ClearToolGrace(AddItem(state, turn))
<1>1. state \in LoopState /\ state.turn + 1 \in Turn
  BY MaxTurnAssumption DEF TypeOK, RequestModelResponse, LoopState, Turn
<1>2. turn \in Item
  BY <1>1 DEF Item, TurnItem
<1>3. next \in LoopState
  BY <1>1, <1>2, AddItemType, ClearToolGraceType
<1>4. state' = [next EXCEPT !.callModel = FALSE] /\ AppendItem(turn)
  BY DEF RequestModelResponse
<1> HIDE DEF next
<1>5. state' \in LoopState
  BY <1>3, <1>4 DEF LoopState
<1>6. StoreTypeOK'
  BY <1>2, <1>4, AppendItemType DEF TypeOK
<1>7. model' \in BOOLEAN /\ inflight' \subseteq Turn
  BY <1>1 DEF RequestModelResponse, TypeOK
<1> QED
  BY <1>5, <1>6, <1>7

\* An operation the resume state replaces has a stored status.
LEMMA RestoreOperationsType ==
    ASSUME StoreTypeOK, NEW s \in LoopState
    PROVE  RestoreOperations(s) \in LoopState
<1> DEFINE ops == [key \in Key |-> [slot \in Slot |->
                     IF IsResumed(key, slot) THEN saved[key][slot] ELSE s.ops[key][slot]]]
<1>1. ASSUME NEW key \in Key
      PROVE  ops[key] \in Snapshot
  BY DEF StoreTypeOK, LoopState, Snapshot
<1>2. ops \in [Key -> Snapshot]
  BY <1>1
<1> HIDE DEF ops
<1>3. [s EXCEPT !.ops = ops] \in LoopState
  BY <1>2 DEF LoopState
<1> QED
  BY <1>3 DEF RestoreOperations, ops

\* Handling an input yields a loop state.
LEMMA AfterInputType ==
    ASSUME NEW s \in LoopState, NEW input
    PROVE  AfterInput(s, input) \in LoopState
<1> DEFINE kept == input.kind = "control" /\ input.mode = "settings"
           next == IF kept THEN s ELSE ClearToolGrace(s)
           call == next.callModel \/ input.kind = "external"
<1>1. next \in LoopState
  BY ClearToolGraceType
<1>2. call \in BOOLEAN
  OBVIOUS
<1> HIDE DEF next, call
<1>3. [next EXCEPT !.callModel = call] \in LoopState
  BY <1>1, <1>2 DEF LoopState
<1> QED
  BY <1>3 DEF AfterInput, next, call

\* What Scheduled makes of the loop state is a loop state.
LEMMA ScheduledType ==
    ASSUME TypeOK, Scheduled
    PROVE  state' \in LoopState
<1> DEFINE required == BatchRequiresModel
           decided  == [state EXCEPT !.callModel = required]
           grace    == decided.graceCalls \cup batch
<1>1. required \in BOOLEAN
  BY DEF BatchRequiresModel
<1>2. decided \in LoopState
  <2> HIDE DEF required
  <2> QED
    BY <1>1 DEF TypeOK, LoopState
<1>3. grace \in SUBSET Key
  BY <1>2 DEF TypeOK, LoopState
<1>4. [decided EXCEPT !.graceCalls = grace, !.grace = "armed"] \in LoopState
  <2> HIDE DEF decided, grace
  <2> QED
    BY <1>2, <1>3 DEF LoopState
<1> QED
  BY <1>2, <1>4 DEF Scheduled

-----------------------------------------------------------------------------
(* The operations of the inbox and of the manager keep their types.        *)

\* Inbox.Submit keeps the inbox typed.
LEMMA SubmitType ==
    ASSUME InboxTypeOK, NEW input \in Input, Submit(input)
    PROVE  InboxTypeOK'
BY DEF InboxTypeOK, Submit, IDsOf, Input, Message, Control

\* Receiving an input keeps the inbox typed.
LEMMA DeliverType ==
    ASSUME InboxTypeOK, NEW input \in Input, Deliver(input)
    PROVE  InboxTypeOK'
BY DEF InboxTypeOK, Deliver

\* A resumed session restores IDs of external inputs only.
LEMMA RestoredIDsType ==
    ASSUME StoreTypeOK
    PROVE  RestoredIDs \subseteq External
<1> SUFFICES ASSUME NEW i \in ItemsOf("input"), log[i].input.kind = "external"
             PROVE  log[i].input.id \in External
  BY DEF RestoredIDs
<1>1. log[i] \in Item /\ log[i].kind = "input"
  BY DEF ItemsOf, StoreTypeOK
<1>2. log[i].input \in Input
  BY <1>1 DEF Item, InputItem, TurnItem, ResponseItem, StatusItem, ForkItem
<1> QED
  BY <1>2 DEF Input, Message, Control

\* A new inbox is typed, whatever IDs it starts with.
LEMMA NewInboxType ==
    ASSUME NEW ids \in SUBSET External, NewInbox(ids)
    PROVE  InboxTypeOK'
BY DEF InboxTypeOK, NewInbox

\* Manager.Add keeps the manager typed.
LEMMA AddType ==
    ASSUME ManagerTypeOK, NEW operations \in SUBSET Op, Add(operations)
    PROVE  ManagerTypeOK'
BY DEF ManagerTypeOK, Add

\* Manager.Cancel keeps the manager typed.
LEMMA CancelType ==
    ASSUME ManagerTypeOK, NEW operations, Cancel(operations)
    PROVE  ManagerTypeOK'
BY DEF ManagerTypeOK, Cancel

\* A checkpoint keeps the manager typed.
LEMMA ReportType ==
    ASSUME ManagerTypeOK, NEW op \in Op, NEW status, Report(op, status)
    PROVE  ManagerTypeOK'
<1>1. status \in OpStatus
  BY OutcomeAssumption DEF Report, OpStatus
<1>2. updates' \in Seq(Update)
  BY <1>1 DEF ManagerTypeOK, Report, Update
<1> QED
  BY <1>2 DEF ManagerTypeOK, Report

\* The end of an operation keeps the manager typed.
LEMMA FinishType ==
    ASSUME ManagerTypeOK, NEW op \in Op, NEW status, Finish(op, status)
    PROVE  ManagerTypeOK'
<1>1. status \in OpStatus
  BY OutcomeAssumption DEF Finish, OpStatus
<1>2. updates' \in Seq(Update)
  BY <1>1 DEF ManagerTypeOK, Finish, Update
<1> QED
  BY <1>2 DEF ManagerTypeOK, Finish

\* Receiving an update keeps the manager typed.
LEMMA DeliverUpdateType ==
    ASSUME ManagerTypeOK, NEW update, DeliverUpdate(update)
    PROVE  ManagerTypeOK'
BY DEF ManagerTypeOK, DeliverUpdate

\* A new manager is typed.
LEMMA NewManagerType ==
    ASSUME NewManager
    PROVE  ManagerTypeOK'
BY DEF ManagerTypeOK, NewManager

-----------------------------------------------------------------------------
(* What a forked session has from the one it was forked from.              *)

\* The first m items of a history, inherited, with a fork item behind them.
IsForkOf(forked, items, m) ==
    /\ m \in 1 .. Len(items)
    /\ forked \in Seq(Item)
    /\ Len(forked) = m + 1
    /\ \A i \in 1 .. m : forked[i] = Inherited(items[i])
    /\ forked[m + 1].kind = "fork"

\* What is inherited of an item: all of it, except that a status has lost the operations
\* it waits for.
LEMMA InheritedItem ==
    ASSUME NEW item \in Item
    PROVE  /\ Inherited(item) \in Item
           /\ Inherited(item).kind = item.kind
           /\ item.kind # "status" => Inherited(item) = item
           /\ item.kind = "status" =>
                 /\ Inherited(item).key = item.key
                 /\ Inherited(item).ops = InheritedOps(item.ops)
                 /\ InheritedOps(item.ops) \in Snapshot
<1>1. CASE item.kind # "status"
  BY <1>1 DEF Inherited
<1>2. CASE item.kind = "status"
  <2> DEFINE ops == InheritedOps(item.ops)
  <2>1. ops \in Snapshot
    BY DEF InheritedOps, Snapshot
  <2>2. item \in StatusItem
    BY <1>2 DEF Item, InputItem, TurnItem, ResponseItem, ForkItem
  <2>3. Inherited(item) = [item EXCEPT !.ops = ops]
    BY <1>2 DEF Inherited
  <2> HIDE DEF ops
  <2>4. Inherited(item) \in StatusItem /\ Inherited(item).key = item.key /\ Inherited(item).ops = ops
    BY <2>1, <2>2, <2>3 DEF StatusItem
  <2> QED
    BY <1>2, <2>1, <2>2, <2>4 DEF ops, Item, StatusItem
<1> QED
  BY <1>1, <1>2

\* Fork copies a part of a history, from its first item.
LEMMA ForkedItemsAre ==
    ASSUME NEW items \in Seq(Item), NEW turn \in Turn, Boundary(items, turn) # {}
    PROVE  \E m \in 1 .. Len(items) : IsForkOf(ForkedItems(items, turn), items, m)
<1> DEFINE m    == CHOOSE i \in Boundary(items, turn) : TRUE
           kept == [i \in 1 .. m |-> Inherited(items[i])]
           fork == [kind |-> "fork", turn |-> turn]
<1>1. m \in 1 .. Len(items)
  BY DEF Boundary
<1>2. ForkedItems(items, turn) = Append(kept, fork)
  BY DEF ForkedItems, Kept
<1> HIDE DEF m
<1>3. \A i \in 1 .. m : Inherited(items[i]) \in Item
  <2> TAKE i \in 1 .. m
  <2>1. items[i] \in Item
    BY <1>1
  <2> QED
    BY <2>1, InheritedItem
<1>4. kept \in Seq(Item) /\ Len(kept) = m /\ \A i \in 1 .. m : kept[i] = Inherited(items[i])
  BY <1>1, <1>3
<1>5. fork \in Item /\ fork.kind = "fork"
  BY DEF Item, ForkItem
<1> HIDE DEF kept, fork
<1>6. /\ Append(kept, fork) \in Seq(Item) /\ Len(Append(kept, fork)) = m + 1
      /\ \A i \in 1 .. m : Append(kept, fork)[i] = kept[i]
      /\ Append(kept, fork)[m + 1] = fork
  BY <1>1, <1>4, <1>5
<1> QED
  BY <1>1, <1>2, <1>4, <1>5, <1>6 DEF IsForkOf

\* Opening a fork goes on with a part of the history, and without its operations.
LEMMA OpenedFork ==
    ASSUME TypeOK, OpenFork
    PROVE  /\ \E m \in 1 .. Len(log) : IsForkOf(log', log, m)
           /\ saved' = [key \in Key |-> NoSnapshot]
           /\ StoreTypeOK'
<1>1. PICK turn \in ForkTurns : ForkSession(turn)
  BY DEF OpenFork
<1>2. turn \in Turn /\ log \in Seq(Item)
  BY BoundsAssumption DEF TypeOK, StoreTypeOK
<1>3. \E m \in 1 .. Len(log) : IsForkOf(log', log, m)
  BY <1>1, <1>2, ForkedItemsAre DEF ForkSession
<1>4. log' \in Seq(Item)
  BY <1>3 DEF IsForkOf
<1>5. saved' = [key \in Key |-> NoSnapshot] /\ saved' \in [Key -> Snapshot]
  BY <1>1 DEF ForkSession, NoSnapshot, Snapshot
<1> QED
  BY <1>3, <1>4, <1>5 DEF StoreTypeOK

\* The inputs a fork has are inputs of its parent.
LEMMA ForkedInputs ==
    ASSUME TypeOK, OpenFork
    PROVE  /\ RestoredIDs' \subseteq RestoredIDs
           /\ InputsRecordedOnce => InputsRecordedOnce'
<1>1. PICK m \in 1 .. Len(log) : IsForkOf(log', log, m)
  BY OpenedFork
<1>2. log \in Seq(Item)
  BY DEF TypeOK, StoreTypeOK
<1>3. ASSUME NEW i \in ItemsOf("input")'
      PROVE  i \in ItemsOf("input") /\ log'[i] = log[i]
  <2>1. i \in 1 .. (m + 1) /\ log'[i].kind = "input"
    BY <1>1, <1>2 DEF ItemsOf, IsForkOf
  <2>2. i \in 1 .. m
    BY <1>1, <2>1 DEF IsForkOf
  <2>3. i \in DOMAIN log /\ log[i] \in Item /\ log'[i] = Inherited(log[i])
    BY <1>1, <1>2, <2>2 DEF IsForkOf
  <2>4. log[i].kind = "input" /\ log'[i] = log[i]
    BY <2>1, <2>3, InheritedItem
  <2> QED
    BY <2>3, <2>4 DEF ItemsOf
<1>4. RestoredIDs' \subseteq RestoredIDs
  BY <1>3 DEF RestoredIDs
<1>5. InputsRecordedOnce => InputsRecordedOnce'
  BY <1>3, ZenonT(60) DEF InputsRecordedOnce
<1> QED
  BY <1>4, <1>5

-----------------------------------------------------------------------------
(* Type correctness.                                                       *)

\* What a step leaves alone keeps its type.
LEMMA UnchangedTypes ==
    /\ InboxTypeOK /\ UNCHANGED inboxVars => InboxTypeOK'
    /\ StoreTypeOK /\ UNCHANGED storeVars => StoreTypeOK'
    /\ ManagerTypeOK /\ UNCHANGED managerVars => ManagerTypeOK'
BY DEF InboxTypeOK, inboxVars, StoreTypeOK, storeVars, ManagerTypeOK, managerVars

\* Appending an item and applying it to the loop state keep both types.
LEMMA RecordType ==
    ASSUME TypeOK, NEW item \in Item, Record(item)
    PROVE  state' \in LoopState /\ StoreTypeOK'
BY AddItemType, AppendItemType DEF TypeOK, Record

\* A new process finds its memory well typed.
LEMMA NewProcessType ==
    ASSUME NewProcess
    PROVE  /\ ManagerTypeOK' /\ cursor' \in Nat /\ state' \in LoopState
           /\ model' \in BOOLEAN /\ stop' \in {"none", "hard", "when_idle"}
           /\ cancellationRequested' \in BOOLEAN /\ beat' \in {"nil", "armed", "spent"}
           /\ batch' \subseteq Key /\ inflight' \subseteq Turn
<1>1. NewLoopState \in LoopState
  BY MaxTurnAssumption DEF NewLoopState, LoopState, NoSnapshot, Snapshot
<1> QED
  BY <1>1, NewManagerType DEF NewProcess

\* The first process starts typed.
LEMMA TypeInit == Init => TypeOK
<1> SUFFICES ASSUME Init PROVE TypeOK
  OBVIOUS
<1>1. NewLoopState \in LoopState
  BY MaxTurnAssumption DEF NewLoopState, LoopState, NoSnapshot, Snapshot
<1>2. InboxTypeOK /\ StoreTypeOK /\ ManagerTypeOK
  BY DEF Init, InboxTypeOK, StoreTypeOK, ManagerTypeOK, EmptyStore, NoSnapshot, Snapshot
<1> QED
  BY <1>1, <1>2 DEF Init, TypeOK

\* Every step keeps every variable typed.
LEMMA TypeStep == TypeOK /\ [Next]_vars => TypeOK'
<1> SUFFICES ASSUME TypeOK, [Next]_vars PROVE TypeOK'
  OBVIOUS
<1> USE UnchangedTypes
<1>1. CASE Crash
  BY <1>1, NewProcessType, NewInboxType DEF Crash, TypeOK, boundVars
<1>2. CASE Restart
  BY <1>2, NewProcessType, NewInboxType, RestoredIDsType DEF Restart, TypeOK
<1>3. CASE RestoreItem
  <2>1. log[cursor + 1] \in Item
    BY <1>3 DEF RestoreItem, TypeOK, StoreTypeOK
  <2> QED
    BY <1>3, <2>1, AddItemType DEF RestoreItem, TypeOK, boundVars
<1>4. CASE Restored
  BY <1>4, RestoreOperationsType DEF Restored, TypeOK, boundVars
<1>5. ASSUME NEW key \in Key, ScheduleToolCall(key)
      PROVE  TypeOK'
  <2>1. PICK ops \in Translation : Record([kind |-> "status", key |-> key, ops |-> ops])
    BY <1>5 DEF ScheduleToolCall
  <2>2. ops \in Snapshot
    BY DEF Translation, Snapshot, OpStatus, Unfinished
  <2>3. [kind |-> "status", key |-> key, ops |-> ops] \in Item
    BY <2>2 DEF Item, StatusItem
  <2>4. state' \in LoopState /\ StoreTypeOK'
    BY <2>1, <2>3, RecordType
  <2> QED
    BY <1>5, <2>4 DEF ScheduleToolCall, TypeOK, boundVars
<1>6. ASSUME NEW key \in Key, ReconcileToolCall(key)
      PROVE  TypeOK'
  <2>1. [kind |-> "status", key |-> key, ops |-> state.ops[key]] \in Item
    BY DEF TypeOK, LoopState, Item, StatusItem
  <2>2. state' \in LoopState /\ StoreTypeOK'
    BY <1>6, <2>1, RecordType DEF ReconcileToolCall
  <2> QED
    BY <1>6, <2>2 DEF ReconcileToolCall, TypeOK, boundVars
<1>7. CASE StartScheduled
  BY <1>7 DEF StartScheduled, TypeOK, boundVars
<1>8. CASE StartLoop
  <2>1. ManagerTypeOK'
    BY <1>8, AddType DEF StartLoop, TypeOK, UnfinishedOps
  <2>2. state' \in LoopState /\ StoreTypeOK' /\ model' \in BOOLEAN /\ inflight' \subseteq Turn
    BY <1>8, RequestModelResponseType DEF StartLoop, TypeOK
  <2> QED
    BY <1>8, <2>1, <2>2 DEF StartLoop, TypeOK, boundVars
<1>9. CASE LoopTop
  BY <1>9 DEF LoopTop, TypeOK, boundVars
<1>10. CASE ReceiveInput
  <2>1. PICK input \in Input :
          /\ Deliver(input)
          /\ state' = AfterInput(AddItem(state, [kind |-> "input", input |-> input]), input)
          /\ AppendItem([kind |-> "input", input |-> input])
          /\ stop' = AcceptStop(input)
    BY <1>10 DEF ReceiveInput
  <2>2. [kind |-> "input", input |-> input] \in Item
    BY DEF Item, InputItem
  <2>3. state' \in LoopState /\ StoreTypeOK' /\ InboxTypeOK'
    BY <2>1, <2>2, AddItemType, AfterInputType, AppendItemType, DeliverType DEF TypeOK
  <2>4. stop' \in {"none", "hard", "when_idle"}
    BY <2>1 DEF AcceptStop, TypeOK
  <2> QED
    BY <1>10, <2>3, <2>4 DEF ReceiveInput, TypeOK, boundVars
<1>11. CASE ReceiveUpdate
  <2>1. PICK key \in Key, slot \in Slot, status \in OpStatus :
          /\ DeliverUpdate([op |-> <<key, slot>>, status |-> status])
          /\ state' = [state EXCEPT !.ops[key][slot] = status]
          /\ SaveOperation(key, slot, status)
    BY <1>11 DEF ReceiveUpdate
  <2>2. state' \in LoopState
    <3> DEFINE ops == [state.ops EXCEPT ![key][slot] = status]
    <3>1. ops \in [Key -> Snapshot]
      BY DEF TypeOK, LoopState, Snapshot
    <3>2. state' = [state EXCEPT !.ops = ops]
      BY <2>1 DEF TypeOK, LoopState
    <3> HIDE DEF ops
    <3> QED
      BY <3>1, <3>2 DEF TypeOK, LoopState
  <2>3. StoreTypeOK' /\ ManagerTypeOK'
    <3>1. saved' \in [Key -> Snapshot]
      BY <2>1 DEF SaveOperation, TypeOK, StoreTypeOK, Snapshot
    <3> QED
      BY <2>1, <3>1, DeliverUpdateType DEF SaveOperation, TypeOK, StoreTypeOK
  <2> QED
    BY <1>11, <2>2, <2>3 DEF ReceiveUpdate, TypeOK, boundVars
<1>12. CASE HeartbeatFires
  <2>1. InboxTypeOK'
    BY <1>12, SubmitType DEF HeartbeatFires, TypeOK, HeartbeatInput, Input, Control, Mode
  <2> QED
    BY <1>12, <2>1 DEF HeartbeatFires, TypeOK
<1>13. CASE GraceFires
  BY <1>13, ClearToolGraceType DEF GraceFires, TypeOK, boundVars
<1>14. CASE DropResponse
  BY <1>14 DEF DropResponse, TypeOK, boundVars
<1>15. CASE ReceiveResponse
  <2>1. PICK turn \in inflight, calls \in SUBSET Call :
          /\ inflight' = inflight \ {turn}
          /\ Record([kind |-> "response", turn |-> turn, calls |-> calls])
    BY <1>15 DEF ReceiveResponse
  <2>2. [kind |-> "response", turn |-> turn, calls |-> calls] \in Item
    BY DEF TypeOK, Item, ResponseItem
  <2>3. state' \in LoopState /\ StoreTypeOK'
    BY <2>1, <2>2, RecordType
  <2> QED
    BY <1>15, <2>1, <2>3 DEF ReceiveResponse, TypeOK, boundVars
<1>16. CASE Scheduled
  <2>1. state' \in LoopState
    BY <1>16, ScheduledType
  <2>2. ManagerTypeOK'
    BY <1>16, AddType DEF Scheduled, TypeOK, BatchOps, UnfinishedOps
  <2> QED
    BY <1>16, <2>1, <2>2 DEF Scheduled, TypeOK, boundVars
<1>17. CASE SlurpedInputs
  BY <1>17 DEF SlurpedInputs, TypeOK, boundVars
<1>18. CASE SlurpedUpdates
  BY <1>18 DEF SlurpedUpdates, TypeOK, boundVars
<1>19. CASE EventsProcessed
  BY <1>19 DEF EventsProcessed, TypeOK, boundVars
<1>20. CASE HandleStop
  BY <1>20, CancelType DEF HandleStop, TypeOK, boundVars
<1>21. CASE CallModel
  BY <1>21, RequestModelResponseType DEF CallModel, TypeOK, boundVars
<1>22. CASE StopWhenIdle
  BY <1>22 DEF StopWhenIdle, TypeOK, boundVars
<1>23. CASE Continue
  BY <1>23 DEF Continue, TypeOK, boundVars
<1>24. CASE ClientSubmits
  <2>1. PICK input \in Submittable : Submit(input)
    BY <1>24 DEF ClientSubmits
  <2>2. InboxTypeOK'
    BY <2>1, SubmitType, BoundsAssumption DEF TypeOK
  <2> QED
    BY <1>24, <2>2 DEF ClientSubmits, TypeOK, runVars
<1>25. CASE OperationReports
  BY <1>25, ReportType DEF OperationReports, TypeOK, runVars, boundVars
<1>26. ASSUME NEW op \in Op, OperationFinishes(op)
       PROVE  TypeOK'
  BY <1>26, FinishType DEF OperationFinishes, TypeOK, runVars, boundVars
<1>27. CASE UNCHANGED vars
  BY <1>27 DEF vars, TypeOK, runVars, boundVars
<1>28. CASE OpenFork
  <2>1. StoreTypeOK' /\ RestoredIDs' \in SUBSET External
    BY <1>28, OpenedFork, ForkedInputs, RestoredIDsType DEF TypeOK
  <2>2. InboxTypeOK'
    BY <1>28, <2>1 DEF OpenFork, NewInbox, InboxTypeOK
  <2> QED
    BY <1>28, <2>1, <2>2, NewProcessType DEF OpenFork, TypeOK
<1> QED
  BY <1>1, <1>2, <1>3, <1>4, <1>5, <1>6, <1>7, <1>8, <1>9, <1>10, <1>11, <1>12, <1>13,
     <1>14, <1>15, <1>16, <1>17, <1>18, <1>19, <1>20, <1>21, <1>22, <1>23, <1>24, <1>25,
     <1>26, <1>27, <1>28 DEF Next, RunStep

\* In every reachable state, every variable of the session keeps its type.
THEOREM Typing == Spec => []TypeOK
BY TypeInit, TypeStep, PTL DEF Spec

-----------------------------------------------------------------------------
(* An external input is recorded once, over any number of resumes.         *)

\* What a submitted or recorded input with an ID is known by: the inbox knows
\* every recorded input, and queues only inputs that are not recorded, each once.
InputInv ==
    /\ InputsRecordedOnce
    /\ pc # "down" => RestoredIDs \subseteq seen
    /\ pc = "down" => queue = <<>>
    /\ \A k \in DOMAIN queue : queue[k].kind = "external" =>
          /\ queue[k].id \in seen
          /\ queue[k].id \notin RestoredIDs
          /\ \A l \in DOMAIN queue : l > k /\ queue[l].kind = "external" => queue[l].id # queue[k].id

\* A step that opens no fork keeps the history, or appends one item to it; only
\* ReceiveInput appends an input.
LEMMA OneItemAtMost ==
    ASSUME TypeOK, [Next]_vars
    PROVE  \/ log' = log
           \/ ReceiveInput
           \/ OpenFork
           \/ \E item \in Item : item.kind # "input" /\ log' = Append(log, item)
<1>1. ASSUME NEW key \in Key, ScheduleToolCall(key)
      PROVE  \E item \in Item : item.kind # "input" /\ log' = Append(log, item)
  <2>1. PICK ops \in Translation : Record([kind |-> "status", key |-> key, ops |-> ops])
    BY <1>1 DEF ScheduleToolCall
  <2>2. [kind |-> "status", key |-> key, ops |-> ops] \in Item
    BY DEF Translation, Snapshot, OpStatus, Unfinished, Item, StatusItem
  <2> QED
    BY <2>1, <2>2 DEF Record, AppendItem
<1>2. ASSUME NEW key \in Key, ReconcileToolCall(key)
      PROVE  \E item \in Item : item.kind # "input" /\ log' = Append(log, item)
  <2>1. [kind |-> "status", key |-> key, ops |-> state.ops[key]] \in Item
    BY DEF TypeOK, LoopState, Item, StatusItem
  <2> QED
    BY <1>2, <2>1 DEF ReconcileToolCall, Record, AppendItem
<1>3. ASSUME RequestModelResponse(state)
      PROVE  \E item \in Item : item.kind # "input" /\ log' = Append(log, item)
  <2>1. [kind |-> "turn", turn |-> state.turn + 1] \in Item
    BY <1>3, MaxTurnAssumption DEF TypeOK, RequestModelResponse, LoopState, Turn, Item, TurnItem
  <2> QED
    BY <1>3, <2>1 DEF RequestModelResponse, AppendItem
<1>4. CASE ReceiveResponse
  <2>1. PICK turn \in inflight, calls \in SUBSET Call :
          Record([kind |-> "response", turn |-> turn, calls |-> calls])
    BY <1>4 DEF ReceiveResponse
  <2>2. [kind |-> "response", turn |-> turn, calls |-> calls] \in Item
    BY DEF TypeOK, Item, ResponseItem
  <2> QED
    BY <2>1, <2>2 DEF Record, AppendItem
<1>5. CASE StartLoop \/ CallModel
  BY <1>3, <1>5 DEF StartLoop, CallModel, storeVars
<1>6. CASE Crash \/ Restart \/ RestoreItem \/ Restored \/ StartScheduled \/ LoopTop \/ ReceiveUpdate
           \/ HeartbeatFires \/ GraceFires \/ DropResponse \/ Scheduled \/ SlurpedInputs
           \/ SlurpedUpdates \/ EventsProcessed \/ HandleStop \/ StopWhenIdle \/ Continue
           \/ ClientSubmits \/ OperationReports \/ (\E op \in Op : OperationFinishes(op))
           \/ UNCHANGED vars
  BY <1>6 DEF Crash, Restart, RestoreItem, Restored, StartScheduled, LoopTop, ReceiveUpdate,
     SaveOperation, HeartbeatFires, GraceFires, DropResponse, Scheduled, SlurpedInputs,
     SlurpedUpdates, EventsProcessed, HandleStop, StopWhenIdle, Continue, ClientSubmits,
     OperationReports, OperationFinishes, storeVars, vars
<1> QED
  BY <1>1, <1>2, <1>4, <1>5, <1>6 DEF Next, RunStep

\* Items of other kinds add no input to the history.
LEMMA NoInputAppended ==
    ASSUME log \in Seq(Item), NEW item \in Item, item.kind # "input", log' = Append(log, item)
    PROVE  RestoredIDs' = RestoredIDs /\ (InputsRecordedOnce => InputsRecordedOnce')
<1>1. /\ DOMAIN log' = DOMAIN log \cup {Len(log) + 1}
      /\ \A i \in DOMAIN log : log'[i] = log[i]
      /\ log'[Len(log) + 1] = item
  OBVIOUS
<1>2. ItemsOf("input")' = ItemsOf("input")
  BY <1>1 DEF ItemsOf
<1>3. \A i \in ItemsOf("input") : log'[i] = log[i]
  BY <1>1 DEF ItemsOf
<1>4. RestoredIDs' = RestoredIDs
  BY <1>2, <1>3 DEF RestoredIDs
<1>5. InputsRecordedOnce => InputsRecordedOnce'
  BY <1>2, <1>3, ZenonT(60) DEF InputsRecordedOnce
<1> QED
  BY <1>4, <1>5

\* Recording an input adds its ID, and no repetition if the ID is not recorded.
LEMMA InputAppended ==
    ASSUME log \in Seq(Item), NEW input \in Input,
           log' = Append(log, [kind |-> "input", input |-> input])
    PROVE  /\ RestoredIDs' = RestoredIDs \cup IDsOf(input)
           /\ InputsRecordedOnce /\ IDsOf(input) \cap RestoredIDs = {} => InputsRecordedOnce'
<1> DEFINE item == [kind |-> "input", input |-> input]
           new  == Len(log) + 1
<1>1. /\ DOMAIN log' = DOMAIN log \cup {new}
      /\ \A i \in DOMAIN log : log'[i] = log[i]
      /\ log'[new] = item
      /\ new \notin DOMAIN log
  OBVIOUS
<1>2. ItemsOf("input")' = ItemsOf("input") \cup {new}
  BY <1>1 DEF ItemsOf
<1>3. \A i \in ItemsOf("input") : log'[i] = log[i]
  BY <1>1 DEF ItemsOf
<1>4. item.input = input /\ item.kind = "input"
  OBVIOUS
<1> HIDE DEF new, item
<1>5. RestoredIDs' = RestoredIDs \cup IDsOf(input)
  <2> DEFINE Ext == {j \in ItemsOf("input") : log[j].input.kind = "external"}
  <2>1. CASE input.kind = "external"
    <3>1. {j \in ItemsOf("input")' : log'[j].input.kind = "external"} = Ext \cup {new}
      BY <1>1, <1>2, <1>3, <1>4, <2>1
    <3>2. RestoredIDs' = {log'[j].input.id : j \in Ext \cup {new}}
      BY <3>1 DEF RestoredIDs
    <3>3. RestoredIDs = {log'[j].input.id : j \in Ext}
      BY <1>3 DEF RestoredIDs
    <3> HIDE DEF Ext
    <3> QED
      BY <1>1, <1>4, <2>1, <3>2, <3>3, ZenonT(60) DEF IDsOf
  <2>2. CASE input.kind # "external"
    <3>1. {j \in ItemsOf("input")' : log'[j].input.kind = "external"} = Ext
      BY <1>1, <1>2, <1>3, <1>4, <2>2
    <3> QED
      BY <1>3, <2>2, <3>1 DEF RestoredIDs, IDsOf
  <2> QED
    BY <2>1, <2>2
<1>6. ASSUME InputsRecordedOnce, IDsOf(input) \cap RestoredIDs = {}
      PROVE  InputsRecordedOnce'
  <2>1. \A i \in ItemsOf("input") : log[i].input.kind = "external" => log[i].input.id \in RestoredIDs
    BY DEF RestoredIDs
  <2>2. \A i \in ItemsOf("input") : log[i].input.kind = "external" => log[i] # item
    BY <1>4, <1>6, <2>1 DEF IDsOf
  <2> SUFFICES ASSUME NEW i \in ItemsOf("input")', NEW j \in ItemsOf("input")',
                      log'[i].input.kind = "external", log'[i] = log'[j]
               PROVE  i = j
    BY DEF InputsRecordedOnce
  <2>3. CASE i \in ItemsOf("input") /\ j \in ItemsOf("input")
    BY <1>3, <1>6, <2>3 DEF InputsRecordedOnce
  <2>4. CASE i = new \/ j = new
    BY <1>1, <1>2, <1>3, <2>2, <2>4
  <2> QED
    BY <1>2, <2>3, <2>4
<1> QED
  BY <1>5, <1>6

\* Initially nothing is recorded, restored or queued.
LEMMA InputInit == Init => InputInv
BY DEF Init, EmptyStore, InputInv, InputsRecordedOnce, ItemsOf, RestoredIDs

\* A submission queues an input only if the inbox has not seen its ID.
LEMMA SubmitStep ==
    ASSUME InboxTypeOK, InputInv, NEW input \in Input, Submit(input), log' = log,
           pc # "down", pc' # "down"
    PROVE  InputInv'
<1>1. RestoredIDs' = RestoredIDs /\ InputsRecordedOnce'
  BY DEF RestoredIDs, ItemsOf, InputInv, InputsRecordedOnce
<1>2. seen \subseteq seen' /\ IDsOf(input) \subseteq seen'
  BY DEF Submit
<1>3. CASE IsDuplicate(input)
  BY <1>1, <1>2, <1>3 DEF Submit, InputInv
<1>4. CASE ~IsDuplicate(input)
  <2>1. queue \in Seq(Input) /\ queue' = Append(queue, input)
    BY <1>4 DEF Submit, InboxTypeOK
  <2>2. /\ DOMAIN queue' = DOMAIN queue \cup {Len(queue) + 1}
        /\ \A k \in DOMAIN queue : queue'[k] = queue[k] /\ k < Len(queue) + 1
        /\ queue'[Len(queue) + 1] = input
        /\ DOMAIN queue \subseteq Nat /\ Len(queue) \in Nat
    BY <2>1
  <2>3. input.kind = "external" => input.id \notin seen /\ input.id \in seen'
    BY <1>2, <1>4 DEF IsDuplicate, IDsOf
  <2>4. ASSUME NEW k \in DOMAIN queue', queue'[k].kind = "external"
        PROVE  /\ queue'[k].id \in seen'
               /\ queue'[k].id \notin RestoredIDs'
               /\ \A l \in DOMAIN queue' :
                     l > k /\ queue'[l].kind = "external" => queue'[l].id # queue'[k].id
    <3>1. CASE k \in DOMAIN queue
      BY <1>1, <1>2, <2>2, <2>3, <2>4, <3>1 DEF InputInv
    <3>2. CASE k = Len(queue) + 1
      BY <1>1, <2>2, <2>3, <2>4, <3>2 DEF InputInv
    <3> QED
      BY <2>2, <3>1, <3>2
  <2> QED
    BY <1>1, <1>2, <2>4 DEF InputInv
<1> QED
  BY <1>3, <1>4

\* Handling the oldest queued input records it.
LEMMA ReceiveStep ==
    ASSUME TypeOK, InputInv, ReceiveInput
    PROVE  InputInv'
<1>1. PICK input \in Input :
        Deliver(input) /\ AppendItem([kind |-> "input", input |-> input])
  BY DEF ReceiveInput
<1>2. log \in Seq(Item) /\ queue \in Seq(Input)
  BY DEF TypeOK, InboxTypeOK, StoreTypeOK
<1>3. /\ RestoredIDs' = RestoredIDs \cup IDsOf(input)
      /\ InputsRecordedOnce /\ IDsOf(input) \cap RestoredIDs = {} => InputsRecordedOnce'
  BY <1>1, <1>2, InputAppended DEF AppendItem
<1>4. queue # <<>> /\ input = queue[1] /\ queue' = Tail(queue) /\ seen' = seen
      /\ 1 \in DOMAIN queue
  BY <1>1, <1>2 DEF Deliver
<1>5. \A k \in DOMAIN queue' : k + 1 \in DOMAIN queue /\ queue'[k] = queue[k + 1] /\ k + 1 > 1
  BY <1>2, <1>4
<1>6. IDsOf(input) \subseteq seen /\ IDsOf(input) \cap RestoredIDs = {}
  BY <1>4 DEF InputInv, IDsOf
<1>7. pc # "down" /\ pc' # "down"
  BY DEF ReceiveInput
<1>8. \A k \in DOMAIN queue' : k \in Nat
  BY <1>2, <1>4
<1>9. ASSUME NEW k \in DOMAIN queue', queue'[k].kind = "external"
      PROVE  /\ queue'[k].id \in seen'
             /\ queue'[k].id \notin RestoredIDs'
             /\ \A l \in DOMAIN queue' :
                   l > k /\ queue'[l].kind = "external" => queue'[l].id # queue'[k].id
  <2>1. queue'[k].id \notin IDsOf(input)
    BY <1>4, <1>5, <1>9 DEF InputInv, IDsOf
  <2> QED
    BY <1>3, <1>4, <1>5, <1>8, <1>9, <2>1 DEF InputInv
<1> QED
  BY <1>3, <1>4, <1>6, <1>7, <1>9 DEF InputInv

\* Every step keeps the recorded, the queued and the replayed inputs apart.
LEMMA InputStep == TypeOK /\ InputInv /\ [Next]_vars => InputInv'
<1> SUFFICES ASSUME TypeOK, InputInv, [Next]_vars
             PROVE  InputInv'
  OBVIOUS
<1>1. log \in Seq(Item) /\ InboxTypeOK /\ HeartbeatInput \in Input
  BY DEF TypeOK, StoreTypeOK, HeartbeatInput, Input, Control, Mode
<1>2. CASE ReceiveInput
  BY <1>2, ReceiveStep
<1>4. CASE OpenFork
  <2>1. InputsRecordedOnce' /\ queue' = <<>> /\ seen' = RestoredIDs' /\ pc' = "load"
    BY <1>4, ForkedInputs DEF OpenFork, NewInbox, InputInv
  <2> QED
    BY <2>1 DEF InputInv
<1>3. CASE ~ReceiveInput /\ ~OpenFork
  <2>1. RestoredIDs' = RestoredIDs /\ InputsRecordedOnce'
    <3>1. CASE log' = log
      BY <3>1 DEF RestoredIDs, ItemsOf, InputInv, InputsRecordedOnce
    <3>2. CASE \E item \in Item : item.kind # "input" /\ log' = Append(log, item)
      BY <1>1, <3>2, NoInputAppended DEF InputInv
    <3> QED
      BY <1>3, <3>1, <3>2, OneItemAtMost
  <2>2. ASSUME UNCHANGED inboxVars, pc # "down", pc' # "down"
        PROVE  InputInv'
    BY <2>1, <2>2 DEF inboxVars, InputInv
  <2>3. CASE Crash
    BY <2>1, <2>3 DEF Crash, NewInbox, InputInv
  <2>4. CASE Restart
    BY <2>1, <2>4 DEF Restart, NewInbox, InputInv
  <2>5. CASE ClientSubmits
    BY <1>1, <2>5, SubmitStep, BoundsAssumption DEF ClientSubmits, Up, storeVars, runVars
  <2>6. CASE HeartbeatFires
    BY <1>1, <2>6, SubmitStep DEF HeartbeatFires, storeVars
  <2>7. CASE UNCHANGED vars
    BY <2>1, <2>7 DEF vars, inboxVars, runVars, InputInv
  <2>8. CASE OperationReports \/ \E op \in Op : OperationFinishes(op)
    BY <2>2, <2>8 DEF OperationReports, OperationFinishes, Up, runVars
  <2>9. CASE RestoreItem \/ Restored \/ (\E key \in Key : ScheduleToolCall(key))
             \/ (\E key \in Key : ReconcileToolCall(key)) \/ StartScheduled \/ StartLoop
    BY <2>2, <2>9 DEF RestoreItem, Restored, ScheduleToolCall, ReconcileToolCall,
       StartScheduled, StartLoop
  <2>10. CASE LoopTop \/ ReceiveUpdate \/ GraceFires \/ DropResponse \/ ReceiveResponse \/ Scheduled
    BY <2>2, <2>10 DEF LoopTop, ReceiveUpdate, GraceFires, DropResponse, ReceiveResponse, Scheduled
  <2>11. CASE SlurpedInputs \/ SlurpedUpdates \/ EventsProcessed \/ HandleStop \/ CallModel
              \/ StopWhenIdle \/ Continue
    BY <2>2, <2>11 DEF SlurpedInputs, SlurpedUpdates, EventsProcessed, HandleStop, CallModel,
       StopWhenIdle, Continue
  <2> QED
    BY <1>3, <2>3, <2>4, <2>5, <2>6, <2>7, <2>8, <2>9, <2>10, <2>11 DEF Next, RunStep
<1> QED
  BY <1>2, <1>3, <1>4

\* An external input is recorded once, however often clients submit it, in
\* whatever order, and however often the session is resumed.
THEOREM RecordedOnce == Spec => []InputsRecordedOnce
<1>1. InputInv => InputsRecordedOnce
  BY DEF InputInv
<1> QED
  BY <1>1, Typing, InputInit, InputStep, PTL DEF Spec


-----------------------------------------------------------------------------
(* What the operators on loopState do to its operations.                   *)

\* Only a tool-call status and a fork change the operations of the loop state.
LEMMA ItemKeepsOps ==
    ASSUME NEW s \in LoopState, NEW item \in Item, item.kind \notin {"status", "fork"}
    PROVE  AddItem(s, item).ops = s.ops
BY ItemKinds DEF AddItem, AddInput, AddTurn, AddModelResponse, LoopState

\* A status replaces the operations it mentions, whatever becomes of its call.
LEMMA StatusSetsOps ==
    ASSUME NEW s \in LoopState, NEW key \in Key, NEW ops \in Snapshot
    PROVE  AddItem(s, [kind |-> "status", key |-> key, ops |-> ops]).ops =
           [s.ops EXCEPT ![key] =
              [slot \in Slot |-> IF ops[slot] = "none" THEN s.ops[key][slot] ELSE ops[slot]]]
<1> DEFINE added   == AddOperations(s, key, ops)
           waiting == [added EXCEPT !.calls[key] = "waiting"]
<1>1. added \in LoopState
  BY AddOperationsType
<1>2. waiting.ops = added.ops
  BY <1>1 DEF LoopState
<1>3. FinishToolCall(waiting, key).ops = waiting.ops
  <2> HIDE DEF waiting
  <2> SUFFICES waiting \in LoopState
    BY DEF FinishToolCall, LoopState
  <2> QED
    BY <1>1 DEF waiting, LoopState
<1>4. AddToolCallStatus(s, key, ops).ops = added.ops
  <2> HIDE DEF added
  <2> QED
    BY <1>2, <1>3 DEF AddToolCallStatus, added
<1>5. added.ops = [s.ops EXCEPT ![key] =
        [slot \in Slot |-> IF ops[slot] = "none" THEN s.ops[key][slot] ELSE ops[slot]]]
  BY DEF AddOperations, LoopState
<1> HIDE DEF added
<1> QED
  BY <1>4, <1>5 DEF AddItem

\* The same operations make the same set of unfinished ones.
LEMMA SameOps ==
    ASSUME NEW s, NEW t, s.ops = t.ops
    PROVE  UnfinishedOps(s) = UnfinishedOps(t)
BY DEF UnfinishedOps

\* The status of a translated call adds operations of that call and leaves
\* every unfinished operation unfinished.
LEMMA TranslationAddsOps ==
    ASSUME NEW s \in LoopState, NEW key \in Key, NEW ops \in Translation
    PROVE  LET next == AddItem(s, [kind |-> "status", key |-> key, ops |-> ops])
           IN  /\ UnfinishedOps(s) \subseteq UnfinishedOps(next)
               /\ \A op \in UnfinishedOps(next) : op \in UnfinishedOps(s) \/ op[1] = key
<1> DEFINE next == AddItem(s, [kind |-> "status", key |-> key, ops |-> ops])
<1>1. ops \in Snapshot
  BY DEF Translation, Snapshot, OpStatus, Unfinished
<1>2. next.ops = [s.ops EXCEPT ![key] =
        [slot \in Slot |-> IF ops[slot] = "none" THEN s.ops[key][slot] ELSE ops[slot]]]
  BY <1>1, StatusSetsOps
<1>3. \A slot \in Slot : ops[slot] \in {"none", "ready"}
  BY DEF Translation
<1> HIDE DEF next
<1>4. ASSUME NEW op \in Op
      PROVE  /\ op[1] # key => next.ops[op[1]][op[2]] = s.ops[op[1]][op[2]]
             /\ op[1] = key => next.ops[op[1]][op[2]] \in {s.ops[op[1]][op[2]], "ready"}
  BY <1>2, <1>3 DEF Op, LoopState
<1>5. "ready" \in Unfinished
  BY DEF Unfinished
<1>6. UnfinishedOps(s) \subseteq UnfinishedOps(next)
  BY <1>4, <1>5 DEF UnfinishedOps
<1>7. ASSUME NEW op \in UnfinishedOps(next)
      PROVE  op \in UnfinishedOps(s) \/ op[1] = key
  BY <1>4 DEF UnfinishedOps
<1> QED
  BY <1>6, <1>7 DEF next

\* A status with the operations the call already has changes none.
LEMMA ReconciledKeepsOps ==
    ASSUME NEW s \in LoopState, NEW key \in Key
    PROVE  AddItem(s, [kind |-> "status", key |-> key, ops |-> s.ops[key]]).ops = s.ops
<1> DEFINE same == [slot \in Slot |->
             IF s.ops[key][slot] = "none" THEN s.ops[key][slot] ELSE s.ops[key][slot]]
<1>1. s.ops[key] \in Snapshot /\ s.ops \in [Key -> Snapshot]
  BY DEF LoopState
<1>2. same = s.ops[key]
  BY <1>1 DEF Snapshot
<1>3. [s.ops EXCEPT ![key] = s.ops[key]] = s.ops
  BY <1>1
<1> QED
  BY <1>1, <1>2, <1>3, StatusSetsOps

\* Clearing the grace period and handling an input leave the operations alone.
LEMMA ClearToolGraceKeepsOps ==
    ASSUME NEW s \in LoopState
    PROVE  ClearToolGrace(s).ops = s.ops
BY DEF ClearToolGrace, LoopState

\* Handling an input (handleInboxInput) leaves the operations alone.
LEMMA AfterInputKeepsOps ==
    ASSUME NEW s \in LoopState, NEW input
    PROVE  AfterInput(s, input).ops = s.ops
<1> DEFINE kept == input.kind = "control" /\ input.mode = "settings"
           next == IF kept THEN s ELSE ClearToolGrace(s)
<1>1. next \in LoopState /\ next.ops = s.ops
  BY ClearToolGraceType, ClearToolGraceKeepsOps
<1> HIDE DEF next
<1>2. ASSUME NEW call
      PROVE  [next EXCEPT !.callModel = call].ops = next.ops
  BY <1>1 DEF LoopState
<1> QED
  BY <1>1, <1>2 DEF AfterInput, next

\* Requesting a model response leaves the operations alone.
LEMMA RequestKeepsOps ==
    ASSUME TypeOK, RequestModelResponse(state)
    PROVE  state'.ops = state.ops
<1> DEFINE turn == [kind |-> "turn", turn |-> state.turn + 1]
           next == AddItem(state, turn)
<1>1. state \in LoopState /\ turn \in Item
  BY MaxTurnAssumption DEF TypeOK, RequestModelResponse, LoopState, Turn, Item, TurnItem
<1>2. next \in LoopState /\ next.ops = state.ops
  BY <1>1, AddItemType, ItemKeepsOps
<1> HIDE DEF next
<1>3. ClearToolGrace(next) \in LoopState /\ ClearToolGrace(next).ops = state.ops
  BY <1>2, ClearToolGraceType, ClearToolGraceKeepsOps
<1>4. state' = [ClearToolGrace(next) EXCEPT !.callModel = FALSE]
  BY DEF RequestModelResponse, next
<1> QED
  BY <1>3, <1>4 DEF LoopState

\* The steps that may change the operations of the loop state.
LEMMA OpsStep ==
    ASSUME TypeOK, [Next]_vars
    PROVE  \/ state'.ops = state.ops
           \/ Crash \/ Restart \/ OpenFork \/ RestoreItem \/ Restored \/ ReceiveUpdate
           \/ \E key \in Key : ScheduleToolCall(key)
<1>1. CASE UNCHANGED state
  BY <1>1
<1>2. ASSUME NEW key \in Key, ReconcileToolCall(key)
      PROVE  state'.ops = state.ops
  BY <1>2, ReconciledKeepsOps DEF ReconcileToolCall, Record, TypeOK
<1>3. CASE StartLoop
  BY <1>3, RequestKeepsOps DEF StartLoop
<1>4. CASE ReceiveInput
  <2>1. PICK input \in Input :
          state' = AfterInput(AddItem(state, [kind |-> "input", input |-> input]), input)
    BY <1>4 DEF ReceiveInput
  <2>2. [kind |-> "input", input |-> input] \in Item
    BY DEF Item, InputItem
  <2> QED
    BY <2>1, <2>2, AddItemType, ItemKeepsOps, AfterInputKeepsOps DEF TypeOK
<1>5. CASE GraceFires
  BY <1>5, ClearToolGraceKeepsOps DEF GraceFires, TypeOK
<1>6. CASE ReceiveResponse
  <2>1. PICK turn \in inflight, calls \in SUBSET Call :
          state' = AddItem(state, [kind |-> "response", turn |-> turn, calls |-> calls])
    BY <1>6 DEF ReceiveResponse, Record
  <2>2. [kind |-> "response", turn |-> turn, calls |-> calls] \in Item
    BY DEF TypeOK, Item, ResponseItem
  <2> QED
    BY <2>1, <2>2, ItemKeepsOps DEF TypeOK
<1>7. CASE Scheduled
  <2> DEFINE required == BatchRequiresModel
             decided  == [state EXCEPT !.callModel = required]
             grace    == decided.graceCalls \cup batch
  <2>1. decided \in LoopState /\ decided.ops = state.ops
    <3>1. required \in BOOLEAN
      BY DEF BatchRequiresModel
    <3> HIDE DEF required
    <3> QED
      BY <3>1 DEF TypeOK, LoopState
  <2>2. [decided EXCEPT !.graceCalls = grace, !.grace = "armed"].ops = decided.ops
    <3> HIDE DEF decided, grace
    <3> QED
      BY <2>1 DEF LoopState
  <2> QED
    BY <1>7, <2>1, <2>2 DEF Scheduled
<1>8. CASE CallModel
  BY <1>8, RequestKeepsOps DEF CallModel
<1>9. CASE LoopTop \/ HeartbeatFires \/ DropResponse \/ StartScheduled \/ SlurpedInputs
           \/ SlurpedUpdates \/ EventsProcessed \/ HandleStop \/ StopWhenIdle \/ Continue
  BY <1>1, <1>9 DEF LoopTop, HeartbeatFires, DropResponse, StartScheduled, SlurpedInputs,
     SlurpedUpdates, EventsProcessed, HandleStop, StopWhenIdle, Continue
<1>10. CASE ClientSubmits \/ OperationReports \/ (\E op \in Op : OperationFinishes(op))
            \/ UNCHANGED vars
  BY <1>1, <1>10 DEF ClientSubmits, OperationReports, OperationFinishes, runVars, vars
<1> QED
  BY <1>2, <1>3, <1>4, <1>5, <1>6, <1>7, <1>8, <1>9, <1>10 DEF Next, RunStep

\* The operations of an update and of the loop state after it.
LEMMA UpdateSetsOp ==
    ASSUME TypeOK, ReceiveUpdate
    PROVE  \E op \in Op, status \in OpStatus :
             /\ updates # <<>>
             /\ Head(updates) = [op |-> op, status |-> status]
             /\ updates' = Tail(updates)
             /\ state'.ops = [state.ops EXCEPT ![op[1]][op[2]] = status]
             /\ UNCHANGED <<accepted, running, cancellationRequested, stop, model, batch>>
             /\ pc \in {"select", "slurpUpdates"}
             /\ pc' \in {"slurpInputs", "slurpUpdates"}
<1>1. PICK key \in Key, slot \in Slot, status \in OpStatus :
        /\ DeliverUpdate([op |-> <<key, slot>>, status |-> status])
        /\ state' = [state EXCEPT !.ops[key][slot] = status]
  BY DEF ReceiveUpdate
<1>2. state'.ops = [state.ops EXCEPT ![key][slot] = status]
  BY <1>1 DEF TypeOK, LoopState
<1>3. <<key, slot>> \in Op /\ <<key, slot>>[1] = key /\ <<key, slot>>[2] = slot
  BY DEF Op
<1>4. UNCHANGED <<accepted, running, cancellationRequested, stop, model, batch>>
  BY <1>1 DEF ReceiveUpdate, DeliverUpdate
<1>5. pc \in {"select", "slurpUpdates"} /\ pc' \in {"slurpInputs", "slurpUpdates"}
  BY DEF ReceiveUpdate
<1>6. /\ updates # <<>>
      /\ Head(updates) = [op |-> <<key, slot>>, status |-> status]
      /\ updates' = Tail(updates)
  BY <1>1 DEF DeliverUpdate
<1> QED
  BY <1>2, <1>3, <1>4, <1>5, <1>6

\* Only the operation of an update changes, to the status of the update.
LEMMA UpdatedOps ==
    ASSUME TypeOK, NEW op \in Op, NEW status \in OpStatus,
           state'.ops = [state.ops EXCEPT ![op[1]][op[2]] = status]
    PROVE  /\ \A other \in Op \ {op} :
                 other \in UnfinishedOps(state') <=> other \in UnfinishedOps(state)
           /\ op \in UnfinishedOps(state') <=> status \in Unfinished
<1>1. PICK key \in Key, slot \in Slot : op = <<key, slot>>
  BY DEF Op
<1>2. state.ops \in [Key -> Snapshot]
  BY DEF TypeOK, LoopState
<1>3. state'.ops[key][slot] = status
  BY <1>1, <1>2 DEF Snapshot
<1>4. ASSUME NEW other \in Op \ {op}
      PROVE  state'.ops[other[1]][other[2]] = state.ops[other[1]][other[2]]
  BY <1>1, <1>2 DEF Snapshot, Op
<1> QED
  BY <1>1, <1>3, <1>4 DEF UnfinishedOps

-----------------------------------------------------------------------------
(* Every operation the coordinator waits for is in the manager.            *)

\* The manager only reports operations it has accepted; the unfinished
\* operations of a response that is being scheduled wait in its batch.
DispatchInv ==
    /\ \A i \in DOMAIN updates : updates[i].op \in accepted
    /\ UnfinishedAreDispatched
    /\ pc = "schedule" => \A op \in UnfinishedOps(state) : op \in accepted \/ op[1] \in batch

\* The first process has nothing to dispatch.
LEMMA DispatchInit == Init => DispatchInv
BY DEF Init, DispatchInv, UnfinishedAreDispatched, InLoop

\* What the coordinator has handed over stays handed over as long as its
\* process lives, and updates come from operations that were handed over.
LEMMA DispatchQueue ==
    ASSUME TypeOK, DispatchInv, [Next]_vars
    PROVE  /\ \A i \in DOMAIN updates' : updates'[i].op \in accepted'
           /\ accepted \subseteq accepted' \/ pc' \in {"down", "load"}
<1>0. updates \in Seq(Update) /\ running \subseteq accepted
  BY DEF TypeOK, ManagerTypeOK
<1>1. CASE UNCHANGED <<updates, accepted>>
  BY <1>1 DEF DispatchInv
<1>2. CASE Crash \/ Restart \/ OpenFork
  BY <1>2 DEF Crash, Restart, OpenFork, NewProcess, NewManager
<1>3. CASE StartLoop \/ Scheduled
  BY <1>3 DEF StartLoop, Scheduled, Add, DispatchInv
<1>4. CASE ReceiveUpdate
  <2>1. updates # <<>> /\ updates' = Tail(updates) /\ accepted' = accepted
    BY <1>4 DEF ReceiveUpdate, DeliverUpdate
  <2> QED
    BY <1>0, <2>1 DEF DispatchInv
<1>5. CASE HandleStop
  BY <1>1, <1>5 DEF HandleStop, Cancel, managerVars
<1>6. ASSUME NEW op \in running, NEW status, updates' = Append(updates, [op |-> op, status |-> status]),
             accepted' = accepted
      PROVE  \A i \in DOMAIN updates' : updates'[i].op \in accepted'
  BY <1>0, <1>6 DEF DispatchInv
<1>7. CASE OperationReports
  BY <1>6, <1>7 DEF OperationReports, Report
<1>8. CASE \E op \in Op : OperationFinishes(op)
  BY <1>6, <1>8 DEF OperationFinishes, Finish
<1>9. CASE RestoreItem \/ Restored \/ (\E key \in Key : ScheduleToolCall(key))
           \/ (\E key \in Key : ReconcileToolCall(key)) \/ StartScheduled \/ LoopTop
           \/ ReceiveInput \/ HeartbeatFires \/ GraceFires \/ DropResponse \/ ReceiveResponse
           \/ SlurpedInputs \/ SlurpedUpdates \/ EventsProcessed \/ CallModel \/ StopWhenIdle
           \/ Continue \/ ClientSubmits \/ UNCHANGED vars
  BY <1>1, <1>9 DEF RestoreItem, Restored, ScheduleToolCall, ReconcileToolCall, StartScheduled,
     LoopTop, ReceiveInput, HeartbeatFires, GraceFires, DropResponse, ReceiveResponse,
     SlurpedInputs, SlurpedUpdates, EventsProcessed, CallModel, StopWhenIdle, Continue,
     ClientSubmits, vars, managerVars
<1> QED
  BY <1>2, <1>3, <1>4, <1>5, <1>7, <1>8, <1>9 DEF Next, RunStep

\* While the loop goes on, no step makes an operation unfinished before it is
\* handed over.
LEMMA DispatchLoop ==
    ASSUME TypeOK, DispatchInv, [Next]_vars
    PROVE  UnfinishedAreDispatched'
<1> SUFFICES ASSUME pc' \in InLoop
             PROVE  UnfinishedOps(state') \subseteq accepted'
  BY DEF UnfinishedAreDispatched
<1>1. accepted \subseteq accepted'
  BY DispatchQueue DEF InLoop
<1>2. CASE state'.ops = state.ops /\ pc \in InLoop
  BY <1>1, <1>2, SameOps DEF DispatchInv, UnfinishedAreDispatched
<1>3. CASE StartLoop
  <2>1. state'.ops = state.ops
    BY <1>3, RequestKeepsOps DEF StartLoop
  <2> QED
    BY <1>3, <2>1, SameOps DEF StartLoop, Add
<1>4. CASE Scheduled
  <2>1. state'.ops = state.ops
    BY <1>4, OpsStep DEF Scheduled, Crash, Restart, OpenFork, Up, RestoreItem, Restored, ReceiveUpdate,
       ScheduleToolCall, InLoop
  <2> QED
    BY <1>4, <2>1, SameOps DEF Scheduled, Add, DispatchInv, BatchOps
<1>5. CASE ReceiveUpdate
  <2>1. PICK op \in Op, status \in OpStatus :
          /\ updates # <<>>
          /\ Head(updates) = [op |-> op, status |-> status]
          /\ state'.ops = [state.ops EXCEPT ![op[1]][op[2]] = status]
          /\ pc \in {"select", "slurpUpdates"}
    BY <1>5, UpdateSetsOp
  <2>2. op \in accepted
    BY <2>1 DEF DispatchInv, TypeOK, ManagerTypeOK
  <2>3. UnfinishedOps(state) \subseteq accepted
    BY <2>1 DEF DispatchInv, UnfinishedAreDispatched, InLoop
  <2>4. ASSUME NEW other \in UnfinishedOps(state')
        PROVE  other \in accepted
    <3>1. other \in Op
      BY DEF UnfinishedOps
    <3> QED
      BY <2>1, <2>2, <2>3, <3>1, UpdatedOps
  <2> QED
    BY <1>1, <2>4
<1>6. CASE \E key \in Key : ReconcileToolCall(key)
  <2>1. pc \in InLoop
    BY <1>6 DEF ReconcileToolCall, InLoop
  <2>2. state'.ops = state.ops
    BY <1>6, ReconciledKeepsOps DEF ReconcileToolCall, Record, TypeOK
  <2> QED
    BY <1>2, <2>1, <2>2
<1>7. CASE LoopTop \/ ReceiveInput \/ HeartbeatFires \/ GraceFires \/ DropResponse
           \/ ReceiveResponse \/ SlurpedInputs \/ SlurpedUpdates \/ EventsProcessed
           \/ HandleStop \/ CallModel \/ StopWhenIdle \/ Continue \/ ClientSubmits
           \/ OperationReports \/ (\E op \in Op : OperationFinishes(op)) \/ UNCHANGED vars
  <2>1. pc \in InLoop
    BY <1>7 DEF LoopTop, ReceiveInput, HeartbeatFires, GraceFires, DropResponse, ReceiveResponse,
       SlurpedInputs, SlurpedUpdates, EventsProcessed, HandleStop, CallModel, StopWhenIdle,
       Continue, ClientSubmits, OperationReports, OperationFinishes, runVars, vars, InLoop
  <2>2. CASE state'.ops = state.ops
    BY <1>2, <2>1, <2>2
  <2>3. CASE ~(state'.ops = state.ops)
    <3>1. ReceiveUpdate
      BY <2>1, <2>3, OpsStep DEF Crash, Restart, OpenFork, Up, RestoreItem, Restored,
         ScheduleToolCall, InLoop
    <3> QED
      BY <1>5, <3>1
  <2> QED
    BY <2>2, <2>3
<1>8. CASE Crash \/ Restart \/ OpenFork \/ RestoreItem \/ Restored \/ StartScheduled
           \/ (\E key \in Key : ScheduleToolCall(key))
  BY <1>8 DEF Crash, Restart, OpenFork, RestoreItem, Restored, StartScheduled, ScheduleToolCall, InLoop
<1> QED
  BY <1>3, <1>4, <1>5, <1>6, <1>7, <1>8 DEF Next, RunStep

\* While a response is scheduled, what is not handed over is in its batch.
LEMMA DispatchSchedule ==
    ASSUME TypeOK, DispatchInv, [Next]_vars, pc' = "schedule"
    PROVE  \A op \in UnfinishedOps(state') : op \in accepted' \/ op[1] \in batch'
<1>1. accepted \subseteq accepted'
  BY DispatchQueue
<1>2. CASE ReceiveResponse
  <2>1. state'.ops = state.ops
    BY <1>2, OpsStep DEF ReceiveResponse, Crash, Restart, OpenFork, Up, RestoreItem, Restored,
       ReceiveUpdate, ScheduleToolCall
  <2> QED
    BY <1>1, <1>2, <2>1, SameOps DEF ReceiveResponse, DispatchInv, UnfinishedAreDispatched, InLoop
<1>3. ASSUME NEW key \in Key, ScheduleToolCall(key)
      PROVE  \A op \in UnfinishedOps(state') : op \in accepted' \/ op[1] \in batch'
  <2>1. pc = "schedule" /\ batch' = batch \cup {key}
    BY <1>3 DEF ScheduleToolCall
  <2>2. \A op \in UnfinishedOps(state') : op \in UnfinishedOps(state) \/ op[1] = key
    BY <1>3, TranslationAddsOps DEF ScheduleToolCall, Record, TypeOK
  <2> QED
    BY <1>1, <2>1, <2>2 DEF DispatchInv
<1>4. CASE ClientSubmits \/ OperationReports \/ (\E op \in Op : OperationFinishes(op))
           \/ UNCHANGED vars
  <2>1. pc = "schedule" /\ state' = state /\ batch' = batch
    BY <1>4 DEF ClientSubmits, OperationReports, OperationFinishes, runVars, vars
  <2> QED
    BY <1>1, <2>1 DEF DispatchInv
<1>5. ~(Crash \/ Restart \/ OpenFork \/ RestoreItem \/ Restored \/ StartScheduled
          \/ StartLoop \/ LoopTop)
  BY DEF Crash, Restart, OpenFork, RestoreItem, Restored, StartScheduled, StartLoop, LoopTop
<1>6. ~(ReceiveInput \/ ReceiveUpdate \/ HeartbeatFires \/ GraceFires \/ DropResponse
        \/ Scheduled \/ SlurpedInputs \/ SlurpedUpdates \/ EventsProcessed)
  BY DEF ReceiveInput, ReceiveUpdate, HeartbeatFires, GraceFires, DropResponse, Scheduled,
     SlurpedInputs, SlurpedUpdates, EventsProcessed
<1>7. ~(HandleStop \/ CallModel \/ StopWhenIdle \/ Continue
        \/ \E key \in Key : ReconcileToolCall(key))
  BY DEF HandleStop, CallModel, StopWhenIdle, Continue, ReconcileToolCall
<1> QED
  BY <1>2, <1>3, <1>4, <1>5, <1>6, <1>7 DEF Next, RunStep

\* A call never waits for an operation that nobody runs: outside start-up and
\* scheduling, every operation the coordinator counts as unfinished has been
\* handed to the manager of this process.
THEOREM Dispatching == Spec => []UnfinishedAreDispatched
<1>1. TypeOK /\ DispatchInv /\ [Next]_vars => DispatchInv'
  BY DispatchQueue, DispatchLoop, DispatchSchedule DEF DispatchInv
<1>2. DispatchInv => UnfinishedAreDispatched
  BY DEF DispatchInv
<1> QED
  BY <1>1, <1>2, Typing, DispatchInit, PTL DEF Spec

-----------------------------------------------------------------------------
(* A hard stop only waits.                                                 *)

\* What the manager runs and reports is unfinished in the loop state, because
\* the finished update of an operation is its last one.
WorkIsUnfinished ==
    /\ running \subseteq UnfinishedOps(state)
    /\ \A i \in DOMAIN updates : updates[i].op \in UnfinishedOps(state)
    /\ \A i \in DOMAIN updates : updates[i].status \in Finished =>
          /\ updates[i].op \notin running
          /\ \A j \in DOMAIN updates : j > i => updates[j].op # updates[i].op

\* A manager is empty until its coordinator has started.
ManagerIsNew ==
    pc \in {"down", "load", "startSchedule", "startReconcile"} =>
        running = {} /\ updates = <<>> /\ accepted = {}

\* Once the cancellation is requested, the loop neither calls the model nor
\* schedules calls.
OnlyWaiting ==
    cancellationRequested =>
        stop = "hard" /\ model = FALSE /\ pc \in InLoop \cup {"stopped"}

StopInv == WorkIsUnfinished /\ ManagerIsNew /\ OnlyWaiting

\* The first process has no operations and no cancellation.
LEMMA StopInit == Init => StopInv
BY DEF Init, StopInv, WorkIsUnfinished, ManagerIsNew, OnlyWaiting

\* Before the loop starts the manager of the process stays empty.
LEMMA ManagerIsNewStep ==
    ASSUME TypeOK, StopInv, [Next]_vars
    PROVE  ManagerIsNew'
<1> SUFFICES ASSUME pc' \in {"down", "load", "startSchedule", "startReconcile"}
             PROVE  running' = {} /\ updates' = <<>> /\ accepted' = {}
  BY DEF ManagerIsNew
<1>1. CASE Crash \/ Restart \/ OpenFork
  BY <1>1 DEF Crash, Restart, OpenFork, NewProcess, NewManager
<1>2. CASE RestoreItem \/ Restored \/ StartScheduled \/ ClientSubmits \/ UNCHANGED vars
           \/ (\E key \in Key : ScheduleToolCall(key))
           \/ (\E key \in Key : ReconcileToolCall(key))
  BY <1>2 DEF RestoreItem, Restored, StartScheduled, ClientSubmits, vars, runVars, managerVars,
     ScheduleToolCall, ReconcileToolCall, StopInv, ManagerIsNew
<1>3. CASE OperationReports \/ \E op \in Op : OperationFinishes(op)
  BY <1>3 DEF OperationReports, OperationFinishes, Report, Finish, TypeOK, ManagerTypeOK,
     runVars, StopInv, ManagerIsNew
<1>4. ~(StartLoop \/ LoopTop \/ ReceiveInput \/ ReceiveUpdate \/ HeartbeatFires \/ GraceFires
        \/ DropResponse \/ ReceiveResponse)
  BY DEF StartLoop, LoopTop, ReceiveInput, ReceiveUpdate, HeartbeatFires, GraceFires,
     DropResponse, ReceiveResponse
<1>5. ~(Scheduled \/ SlurpedInputs \/ SlurpedUpdates \/ EventsProcessed \/ HandleStop
        \/ CallModel \/ StopWhenIdle \/ Continue)
  BY DEF Scheduled, SlurpedInputs, SlurpedUpdates, EventsProcessed, HandleStop, CallModel,
     StopWhenIdle, Continue
<1> QED
  BY <1>1, <1>2, <1>3, <1>4, <1>5 DEF Next, RunStep

\* After a cancellation the loop stays away from the model and from new calls.
LEMMA OnlyWaitingStep ==
    ASSUME TypeOK, StopInv, [Next]_vars
    PROVE  OnlyWaiting'
<1> SUFFICES ASSUME cancellationRequested'
             PROVE  stop' = "hard" /\ model' = FALSE /\ pc' \in InLoop \cup {"stopped"}
  BY DEF OnlyWaiting
<1>1. CASE HandleStop
  BY <1>1 DEF HandleStop, InLoop, StopInv, OnlyWaiting
<1>2. CASE Crash \/ Restart \/ OpenFork
  BY <1>2 DEF Crash, Restart, OpenFork, NewProcess
<1>3. CASE ReceiveInput
  <2>1. PICK input \in Input : stop' = AcceptStop(input)
    BY <1>3 DEF ReceiveInput
  <2> QED
    BY <1>3, <2>1 DEF ReceiveInput, AcceptStop, InLoop, StopInv, OnlyWaiting
<1>4. CASE LoopTop \/ ReceiveUpdate \/ HeartbeatFires \/ GraceFires \/ DropResponse
           \/ SlurpedInputs \/ SlurpedUpdates \/ EventsProcessed \/ StopWhenIdle \/ Continue
           \/ ClientSubmits \/ OperationReports \/ (\E op \in Op : OperationFinishes(op))
           \/ UNCHANGED vars \/ \E key \in Key : ReconcileToolCall(key)
  <2>1. stop' = stop /\ model' = model /\ cancellationRequested' = cancellationRequested
    BY <1>4 DEF LoopTop, ReceiveUpdate, HeartbeatFires, GraceFires, DropResponse, SlurpedInputs,
       SlurpedUpdates, EventsProcessed, StopWhenIdle, Continue, ClientSubmits,
       OperationReports, OperationFinishes, vars, runVars, ReconcileToolCall
  <2>2. pc' = pc \/ pc' \in InLoop \cup {"stopped"}
    BY <1>4 DEF LoopTop, ReceiveUpdate, HeartbeatFires, GraceFires, DropResponse, SlurpedInputs,
       SlurpedUpdates, EventsProcessed, StopWhenIdle, Continue, ClientSubmits,
       OperationReports, OperationFinishes, vars, runVars, ReconcileToolCall, InLoop
  <2> QED
    BY <2>1, <2>2 DEF StopInv, OnlyWaiting
<1>5. ~(RestoreItem \/ Restored \/ StartScheduled \/ StartLoop \/ ReceiveResponse \/ Scheduled
        \/ CallModel \/ \E key \in Key : ScheduleToolCall(key))
  BY DEF RestoreItem, Restored, StartScheduled, StartLoop, ReceiveResponse, IsStale, Scheduled,
     CallModel, ScheduleToolCall, StopInv, OnlyWaiting, InLoop
<1> QED
  BY <1>1, <1>2, <1>3, <1>4, <1>5 DEF Next, RunStep

\* The work of the manager stays unfinished until its last update arrives.
LEMMA WorkStep ==
    ASSUME TypeOK, StopInv, DispatchInv, [Next]_vars
    PROVE  WorkIsUnfinished'
<1> USE DEF StopInv
<1>0. /\ updates \in Seq(Update) /\ running \subseteq accepted
      /\ \A i \in DOMAIN updates : updates[i].op \in Op /\ updates[i].status \in OpStatus
  <2>1. updates \in Seq(Update) /\ running \subseteq accepted
    BY DEF TypeOK, ManagerTypeOK
  <2>2. \A i \in DOMAIN updates : updates[i] \in Update
    BY <2>1
  <2> QED
    BY <2>1, <2>2 DEF Update
<1>1. ASSUME UnfinishedOps(state) \subseteq UnfinishedOps(state'), UNCHANGED <<running, updates>>
      PROVE  WorkIsUnfinished'
  BY <1>1 DEF WorkIsUnfinished
<1>2. CASE Crash \/ Restart \/ OpenFork
  BY <1>2 DEF Crash, Restart, OpenFork, NewProcess, NewManager, WorkIsUnfinished
<1>3. CASE RestoreItem \/ Restored
  BY <1>3 DEF RestoreItem, Restored, managerVars, WorkIsUnfinished, ManagerIsNew
<1>4. ASSUME NEW key \in Key, ScheduleToolCall(key)
      PROVE  WorkIsUnfinished'
  <2>1. UnfinishedOps(state) \subseteq UnfinishedOps(state')
    BY <1>4, TranslationAddsOps DEF ScheduleToolCall, Record, TypeOK
  <2> QED
    BY <1>1, <1>4, <2>1 DEF ScheduleToolCall, managerVars
<1>5. CASE StartLoop
  <2>1. UnfinishedOps(state') = UnfinishedOps(state)
    BY <1>5, RequestKeepsOps, SameOps DEF StartLoop
  <2>2. running' \subseteq UnfinishedOps(state) /\ updates' = <<>>
    BY <1>5 DEF StartLoop, Add, ManagerIsNew
  <2> QED
    BY <2>1, <2>2 DEF WorkIsUnfinished
<1>6. CASE Scheduled
  <2>1. UnfinishedOps(state') = UnfinishedOps(state)
    BY <1>6, OpsStep, SameOps DEF Scheduled, Crash, Restart, OpenFork, Up, RestoreItem, Restored,
       ReceiveUpdate, ScheduleToolCall
  <2>2. /\ running' = running \cup (BatchOps \ accepted)
        /\ updates' = updates
    BY <1>6 DEF Scheduled, Add
  <2>3. BatchOps \subseteq UnfinishedOps(state)
    BY DEF BatchOps
  <2>4. \A i \in DOMAIN updates : updates[i].op \in accepted
    BY DEF DispatchInv
  <2> QED
    BY <2>1, <2>2, <2>3, <2>4 DEF WorkIsUnfinished
<1>7. CASE ReceiveUpdate
  <2>1. PICK op \in Op, status \in OpStatus :
          /\ updates # <<>>
          /\ Head(updates) = [op |-> op, status |-> status]
          /\ updates' = Tail(updates)
          /\ state'.ops = [state.ops EXCEPT ![op[1]][op[2]] = status]
          /\ running' = running
    BY <1>7, UpdateSetsOp
  <2>2. 1 \in DOMAIN updates /\ updates[1].op = op /\ updates[1].status = status
    BY <1>0, <2>1
  <2>3. \A i \in DOMAIN updates' : i + 1 \in DOMAIN updates /\ updates'[i] = updates[i + 1]
    BY <1>0, <2>1
  <2>4. /\ \A other \in Op \ {op} :
             other \in UnfinishedOps(state') <=> other \in UnfinishedOps(state)
        /\ op \in UnfinishedOps(state') <=> status \in Unfinished
    BY <2>1, UpdatedOps
  <2>5. status \in Unfinished \/ status \in Finished
    BY DEF OpStatus
  <2>6. running \subseteq Op /\ running \subseteq UnfinishedOps(state)
    BY DEF WorkIsUnfinished, UnfinishedOps
  <2>7. running' \subseteq UnfinishedOps(state')
    BY <2>1, <2>2, <2>4, <2>5, <2>6 DEF WorkIsUnfinished
  <2>8. ASSUME NEW i \in DOMAIN updates'
        PROVE  updates'[i].op \in UnfinishedOps(state')
    <3>1. i + 1 > 1
      BY <1>0, <2>1
    <3>2. updates[i + 1].op \in Op /\ updates[i + 1].op \in UnfinishedOps(state)
      BY <1>0, <2>3 DEF WorkIsUnfinished
    <3>3. status \in Finished => updates[i + 1].op # op
      BY <2>2, <2>3, <3>1 DEF WorkIsUnfinished
    <3> QED
      BY <2>3, <2>4, <2>5, <3>2, <3>3
  <2>9. ASSUME NEW i \in DOMAIN updates', updates'[i].status \in Finished
        PROVE  /\ updates'[i].op \notin running'
               /\ \A j \in DOMAIN updates' : j > i => updates'[j].op # updates'[i].op
    <3>1. DOMAIN updates' \subseteq Nat
      BY <1>0, <2>1
    <3> QED
      BY <2>1, <2>3, <2>9, <3>1 DEF WorkIsUnfinished
  <2> QED
    BY <2>7, <2>8, <2>9 DEF WorkIsUnfinished
<1>8. CASE OperationReports \/ \E op \in Op : OperationFinishes(op)
  <2>1. PICK op \in running, status \in OpStatus :
          /\ updates' = Append(updates, [op |-> op, status |-> status])
          /\ running' = IF status \in Finished THEN running \ {op} ELSE running
    <3>1. CASE OperationReports
      BY <3>1, OutcomeAssumption DEF OperationReports, Report, OpStatus, Unfinished, Finished
    <3>2. CASE \E op \in Op : OperationFinishes(op)
      BY <3>2, OutcomeAssumption DEF OperationFinishes, Finish, OpStatus
    <3> QED
      BY <1>8, <3>1, <3>2
  <2>2. state' = state
    BY <1>8 DEF OperationReports, OperationFinishes, runVars
  <2>3. /\ DOMAIN updates' = DOMAIN updates \cup {Len(updates) + 1}
        /\ \A i \in DOMAIN updates : updates'[i] = updates[i] /\ i < Len(updates) + 1
        /\ updates'[Len(updates) + 1] = [op |-> op, status |-> status]
    BY <1>0, <2>1
  <2>4. running' \subseteq UnfinishedOps(state')
    BY <2>1, <2>2 DEF WorkIsUnfinished
  <2>5. ASSUME NEW i \in DOMAIN updates'
        PROVE  updates'[i].op \in UnfinishedOps(state')
    BY <2>1, <2>2, <2>3 DEF WorkIsUnfinished
  <2>6. ASSUME NEW i \in DOMAIN updates', updates'[i].status \in Finished
        PROVE  /\ updates'[i].op \notin running'
               /\ \A j \in DOMAIN updates' : j > i => updates'[j].op # updates'[i].op
    <3>1. DOMAIN updates \subseteq Nat /\ Len(updates) \in Nat
      BY <1>0
    <3>2. CASE i \in DOMAIN updates
      BY <2>1, <2>3, <2>6, <3>1, <3>2 DEF WorkIsUnfinished
    <3>3. CASE i = Len(updates) + 1
      BY <2>1, <2>3, <2>6, <3>1, <3>3
    <3> QED
      BY <2>3, <3>2, <3>3
  <2> QED
    BY <2>4, <2>5, <2>6 DEF WorkIsUnfinished
<1>9. CASE LoopTop \/ ReceiveInput \/ HeartbeatFires \/ GraceFires \/ DropResponse
           \/ ReceiveResponse \/ SlurpedInputs \/ SlurpedUpdates \/ EventsProcessed
           \/ HandleStop \/ CallModel \/ StopWhenIdle \/ Continue \/ ClientSubmits
           \/ UNCHANGED vars \/ StartScheduled \/ \E key \in Key : ReconcileToolCall(key)
  <2>1. UNCHANGED <<running, updates>>
    BY <1>9 DEF LoopTop, ReceiveInput, HeartbeatFires, GraceFires, DropResponse, ReceiveResponse,
       SlurpedInputs, SlurpedUpdates, EventsProcessed, HandleStop, Cancel, CallModel,
       StopWhenIdle, Continue, ClientSubmits, StartScheduled, ReconcileToolCall, vars, managerVars
  <2>2. state'.ops = state.ops \/ ReceiveUpdate \/ Crash \/ Restart \/ OpenFork \/ RestoreItem
             \/ Restored
        \/ \E key \in Key : ScheduleToolCall(key)
    BY OpsStep
  <2>3. state'.ops = state.ops => WorkIsUnfinished'
    BY <1>1, <2>1, SameOps
  <2> QED
    BY <1>2, <1>3, <1>4, <1>7, <2>2, <2>3
<1> QED
  BY <1>2, <1>3, <1>4, <1>5, <1>6, <1>7, <1>8, <1>9 DEF Next, RunStep

\* "Once set, no new nonterminal operations may enter coordinator state": after
\* a hard stop has canceled the operations, no step makes another one unfinished.
THEOREM Cancellation == Spec => NoWorkAfterCancellation
<1>1. TypeOK /\ DispatchInv /\ StopInv /\ [Next]_vars => StopInv'
  BY ManagerIsNewStep, OnlyWaitingStep, WorkStep DEF StopInv
<1>2. TypeOK /\ DispatchInv /\ [Next]_vars => DispatchInv'
  BY DispatchQueue, DispatchLoop, DispatchSchedule DEF DispatchInv
<1>3. TypeOK /\ StopInv /\ [Next]_vars =>
        [cancellationRequested /\ cancellationRequested' =>
            UnfinishedOps(state') \subseteq UnfinishedOps(state)]_vars
  <2> SUFFICES ASSUME TypeOK, StopInv, [Next]_vars, cancellationRequested, cancellationRequested'
               PROVE  UnfinishedOps(state') \subseteq UnfinishedOps(state)
    OBVIOUS
  <2>1. pc \in InLoop \cup {"stopped"}
    BY DEF StopInv, OnlyWaiting
  <2>2. ~(Crash \/ Restart \/ OpenFork \/ RestoreItem \/ Restored
             \/ \E key \in Key : ScheduleToolCall(key))
    BY <2>1 DEF Crash, Restart, OpenFork, NewProcess, RestoreItem, Restored, ScheduleToolCall, InLoop
  <2>3. CASE ReceiveUpdate
    <3>1. PICK op \in Op, status \in OpStatus :
            /\ updates # <<>>
            /\ Head(updates) = [op |-> op, status |-> status]
            /\ state'.ops = [state.ops EXCEPT ![op[1]][op[2]] = status]
      BY <2>3, UpdateSetsOp
    <3>2. op \in UnfinishedOps(state)
      BY <3>1 DEF StopInv, WorkIsUnfinished, TypeOK, ManagerTypeOK
    <3>3. UnfinishedOps(state') \subseteq Op
      BY DEF UnfinishedOps
    <3> QED
      BY <3>1, <3>2, <3>3, UpdatedOps
  <2> QED
    BY <2>2, <2>3, OpsStep, SameOps
<1>4. Spec => [](TypeOK /\ DispatchInv /\ StopInv)
  BY <1>1, <1>2, Typing, DispatchInit, StopInit, PTL DEF Spec
<1> QED
  BY <1>3, <1>4, PTL DEF Spec, NoWorkAfterCancellation

-----------------------------------------------------------------------------
(* The history: calls get one result, the store accepts every append, what *)
(* is counted as undelivered is undelivered, and a stop leaves no call of  *)
(* the session without its result.                                         *)
(*                                                                         *)
(* The inductive invariant relates the history, from its first item to the *)
(* last one replayed or recorded, to the loop state it has led to.         *)

IsStatusOf(item, key) == item.kind = "status" /\ item.key = key

MakesCall(item, key) ==
    item.kind = "response" /\ item.turn = key[1] /\ key[2] \in item.calls

-----------------------------------------------------------------------------
(* What of a history is the session's own.                                 *)

\* Of the first n items, those behind every fork item.
Own(h, n) == {i \in 1 .. n : \A fork \in 1 .. n : h[fork].kind = "fork" => fork < i}

\* An item more is the session's own; behind a fork item nothing is.
LEMMA NextOwn ==
    ASSUME NEW h, NEW n \in Nat
    PROVE  /\ Own(h, n) \subseteq 1 .. n
           /\ h[n + 1].kind = "fork" => Own(h, n + 1) = {}
           /\ h[n + 1].kind # "fork" => Own(h, n + 1) = Own(h, n) \cup {n + 1}
<1>1. /\ 1 .. (n + 1) = (1 .. n) \cup {n + 1}
      /\ \A i \in 1 .. (n + 1) : ~(n + 1 < i)
      /\ \A i \in 1 .. n : i < n + 1
  OBVIOUS
<1>2. Own(h, n) \subseteq 1 .. n
  BY DEF Own
<1>3. ASSUME h[n + 1].kind = "fork" PROVE Own(h, n + 1) = {}
  BY <1>1, <1>3 DEF Own
<1>4. ASSUME h[n + 1].kind # "fork" PROVE Own(h, n + 1) = Own(h, n) \cup {n + 1}
  BY <1>1, <1>4 DEF Own
<1> QED
  BY <1>2, <1>3, <1>4

\* What is own depends on the fork items up to there only.
LEMMA SameOwn ==
    ASSUME NEW h, NEW g, NEW n, \A i \in 1 .. n : g[i].kind = h[i].kind
    PROVE  Own(g, n) = Own(h, n)
BY DEF Own

\* What comes behind an item of the session's own is own, and what is own was it before.
LEMMA StaysOwn ==
    ASSUME NEW h, NEW n \in Nat, NEW m \in 0 .. n, NEW i \in 1 .. m
    PROVE  /\ i \in Own(h, n) => i \in Own(h, m)
           /\ \A j \in 1 .. n : i \in Own(h, n) /\ i <= j => j \in Own(h, n)
<1>1. m \in Nat /\ i \in Nat /\ m <= n /\ i <= m /\ 1 .. m \subseteq 1 .. n
  OBVIOUS
<1>2. \A j \in 1 .. n, fork \in 1 .. n : fork < i /\ i <= j => fork < j
  BY <1>1
<1> QED
  BY <1>1, <1>2 DEF Own

\* What was own when an own item was added is own.
LEMMA OwnBefore ==
    ASSUME NEW h, NEW n \in Nat, NEW j \in Own(h, n), NEW i \in Own(h, j - 1)
    PROVE  i \in Own(h, n)
<1>1. j \in 1 .. n /\ i \in 1 .. (j - 1)
  BY DEF Own
<1>2. i \in 1 .. n /\ \A fork \in 1 .. n : fork < j => fork \in 1 .. (j - 1)
  BY <1>1
<1> QED
  BY <1>2 DEF Own

-----------------------------------------------------------------------------
(* Histories in order.                                                     *)

TurnsGrow(h) ==
    \A i, j \in DOMAIN h :
        i < j /\ h[i].kind = "turn" /\ h[j].kind = "turn" => h[i].turn < h[j].turn

ResponsesFollowTurns(h) ==
    \A j \in DOMAIN h : h[j].kind = "response" =>
        \E i \in Own(h, j - 1) : h[i].kind = "turn" /\ h[i].turn = h[j].turn

TurnsAreAnsweredOnce(h) ==
    \A i, j \in DOMAIN h :
        h[i].kind = "response" /\ h[j].kind = "response" /\ h[i].turn = h[j].turn => i = j

StatusesFollowCalls(h) ==
    \A j \in DOMAIN h, key \in Key : IsStatusOf(h[j], key) =>
        \E i \in Own(h, j - 1) : MakesCall(h[i], key)

\* The session has the operations of the statuses of its own.
StatusesAreKnown(h) ==
    \A i \in Own(h, Len(h)) : h[i].kind = "status" => ~AreInherited(h[i].ops)

\* A result is the last status of its call, and has all its operations.
ResultsAreLast(h) ==
    \A i, j \in DOMAIN h, key \in Key :
        i < j /\ IsStatusOf(h[i], key) /\ IsStatusOf(h[j], key) =>
            /\ ~IsResult(h[i])
            /\ IsResult(h[j]) => Mentioned(h[i].ops) \subseteq Mentioned(h[j].ops)

\* A response answers the latest turn: no request is answered after the next one.
LatestIsAnswered(h) ==
    \A i, j \in DOMAIN h :
        i < j /\ h[i].kind = "turn" /\ h[j].kind = "response" => h[i].turn <= h[j].turn

InOrder(h) ==
    /\ TurnsGrow(h) /\ ResponsesFollowTurns(h) /\ TurnsAreAnsweredOnce(h)
    /\ StatusesFollowCalls(h) /\ ResultsAreLast(h) /\ LatestIsAnswered(h)
    /\ StatusesAreKnown(h)

\* What an item must be to follow the history.
Follows(h, item) ==
    /\ item.kind # "fork"
    /\ item.kind = "turn" => \A i \in DOMAIN h : h[i].kind = "turn" => h[i].turn < item.turn
    /\ item.kind = "response" =>
          /\ \E i \in Own(h, Len(h)) : h[i].kind = "turn" /\ h[i].turn = item.turn
          /\ \A i \in DOMAIN h : h[i].kind = "response" => h[i].turn # item.turn
          /\ \A i \in DOMAIN h : h[i].kind = "turn" => h[i].turn <= item.turn
    /\ \A key \in Key : IsStatusOf(item, key) =>
          /\ ~AreInherited(item.ops)
          /\ \E i \in Own(h, Len(h)) : MakesCall(h[i], key)
          /\ \A i \in DOMAIN h : IsStatusOf(h[i], key) =>
                ~IsResult(h[i]) /\
                (IsResult(item) => Mentioned(h[i].ops) \subseteq Mentioned(item.ops))

\* The elements of a longer history.
LEMMA AppendedItems ==
    ASSUME NEW h \in Seq(Item), NEW item \in Item
    PROVE  /\ Append(h, item) \in Seq(Item)
           /\ DOMAIN h = 1 .. Len(h) /\ DOMAIN Append(h, item) = 1 .. (Len(h) + 1)
           /\ Len(h) \in Nat /\ Len(Append(h, item)) = Len(h) + 1
           /\ \A i \in 1 .. Len(h) : Append(h, item)[i] = h[i]
           /\ Append(h, item)[Len(h) + 1] = item
OBVIOUS

\* An item that follows a history in order keeps it in order.
LEMMA FollowingKeepsOrder ==
    ASSUME NEW h \in Seq(Item), NEW item \in Item, InOrder(h), Follows(h, item)
    PROVE  InOrder(Append(h, item))
<1> DEFINE g == Append(h, item)
           m == Len(h) + 1
<1>1. /\ DOMAIN h = 1 .. Len(h) /\ DOMAIN g = 1 .. m /\ Len(h) \in Nat /\ m = Len(h) + 1
      /\ \A i \in 1 .. Len(h) : g[i] = h[i]
      /\ g[m] = item
  BY AppendedItems
<1>2. \A i \in DOMAIN g :
        \/ i \in DOMAIN h /\ g[i] = h[i] /\ i < m
        \/ i = m /\ i \notin DOMAIN h
  BY <1>1
<1>3. DOMAIN h \subseteq DOMAIN g /\ m \in DOMAIN g /\ DOMAIN g \subseteq Int
  BY <1>1
<1>4. \A i \in DOMAIN g, j \in DOMAIN h : i < j => i \in DOMAIN h
  BY <1>1
<1>5. \A i \in DOMAIN g : i < m <=> i \in DOMAIN h
  BY <1>1
<1>13. \A j \in DOMAIN h : Own(g, j - 1) = Own(h, j - 1)
  <2> TAKE j \in DOMAIN h
  <2>1. \A i \in 1 .. (j - 1) : g[i].kind = h[i].kind
    BY <1>1
  <2> HIDE DEF g
  <2> QED
    BY <2>1, SameOwn
<1>14. /\ Own(g, m - 1) = Own(h, Len(h))
       /\ item.kind # "fork" => Own(g, m) = Own(h, Len(h)) \cup {m}
       /\ Own(h, Len(h)) \subseteq DOMAIN h
  <2>1. m - 1 = Len(h) /\ Len(g) = m /\ \A i \in 1 .. Len(h) : g[i].kind = h[i].kind
    BY <1>1
  <2> HIDE DEF g
  <2>2. Own(g, Len(h)) = Own(h, Len(h))
    BY <2>1, SameOwn
  <2> QED
    BY <1>1, <2>1, <2>2, NextOwn
<1>15. Len(g) = m /\ \A j \in DOMAIN h : Own(h, j - 1) \subseteq DOMAIN h
  <2>1. \A j \in DOMAIN h : 1 .. (j - 1) \subseteq DOMAIN h
    BY <1>1
  <2> QED
    BY <1>1, <2>1 DEF Own
<1> HIDE DEF g, m
<1>6. g[m] = item /\ (\A i \in DOMAIN h : g[i] = h[i])
  BY <1>1
<1>7. TurnsGrow(g)
  BY <1>2, <1>3, <1>4, <1>6 DEF TurnsGrow, InOrder, Follows
<1>8. ResponsesFollowTurns(g)
  <2> SUFFICES ASSUME NEW j \in DOMAIN g, g[j].kind = "response"
               PROVE  \E i \in Own(g, j - 1) : g[i].kind = "turn" /\ g[i].turn = g[j].turn
    BY DEF ResponsesFollowTurns
  <2>1. CASE j \in DOMAIN h
    <3>1. PICK i \in Own(h, j - 1) : h[i].kind = "turn" /\ h[i].turn = h[j].turn
      BY <1>6, <2>1 DEF ResponsesFollowTurns, InOrder
    <3> QED
      BY <1>6, <1>13, <1>15, <2>1, <3>1
  <2>2. CASE j = m
    <3>1. PICK i \in Own(h, Len(h)) : h[i].kind = "turn" /\ h[i].turn = item.turn
      BY <1>6, <2>2 DEF Follows
    <3> QED
      BY <1>6, <1>14, <2>2, <3>1
  <2> QED
    BY <1>2, <2>1, <2>2
<1>9. TurnsAreAnsweredOnce(g)
  BY <1>2, <1>3, <1>6 DEF TurnsAreAnsweredOnce, InOrder, Follows
<1>10. StatusesFollowCalls(g)
  BY <1>2, <1>6, <1>13, <1>14, <1>15 DEF StatusesFollowCalls, InOrder, Follows
<1>11. ResultsAreLast(g)
  <2> SUFFICES ASSUME NEW i \in DOMAIN g, NEW j \in DOMAIN g, NEW key \in Key,
                      i < j, IsStatusOf(g[i], key), IsStatusOf(g[j], key)
               PROVE  /\ ~IsResult(g[i])
                      /\ IsResult(g[j]) => Mentioned(g[i].ops) \subseteq Mentioned(g[j].ops)
    BY DEF ResultsAreLast
  <2>1. i \in DOMAIN h /\ g[i] = h[i]
    BY <1>2, <1>3, <1>5
  <2>2. CASE j \in DOMAIN h
    BY <1>6, <2>1, <2>2 DEF InOrder, ResultsAreLast
  <2>3. CASE j = m
    BY <1>6, <2>1, <2>3 DEF Follows
  <2> QED
    BY <1>2, <2>2, <2>3
<1>12. LatestIsAnswered(g)
  BY <1>2, <1>3, <1>5, <1>6 DEF LatestIsAnswered, InOrder, Follows
<1>16. StatusesAreKnown(g)
  <2>1. item.kind = "status" => item.key \in Key /\ IsStatusOf(item, item.key)
    BY ItemKinds DEF IsStatusOf
  <2>2. item.kind = "status" => ~AreInherited(item.ops)
    BY <2>1 DEF Follows
  <2> QED
    BY <1>6, <1>14, <1>15, <2>2 DEF StatusesAreKnown, InOrder, Follows
<1> QED
  BY <1>7, <1>8, <1>9, <1>10, <1>11, <1>12, <1>16 DEF InOrder, g

\* A fork cuts off a history and loses operations: what is left is in order.
LEMMA ForkKeepsOrder ==
    ASSUME NEW h \in Seq(Item), InOrder(h), NEW m, NEW g, IsForkOf(g, h, m)
    PROVE  InOrder(g)
<1>1. /\ m \in 1 .. Len(h) /\ Len(h) \in Nat /\ DOMAIN h = 1 .. Len(h) /\ DOMAIN g = 1 .. (m + 1)
      /\ g[m + 1].kind = "fork" /\ Len(g) = m + 1 /\ m \in Nat
  BY DEF IsForkOf
<1>2. ASSUME NEW i \in 1 .. m
      PROVE  /\ i \in DOMAIN h /\ g[i].kind = h[i].kind /\ (h[i].kind # "status" => g[i] = h[i])
             /\ h[i].kind = "status" => g[i].key = h[i].key /\ g[i].ops = InheritedOps(h[i].ops)
  <2>1. i \in DOMAIN h /\ h[i] \in Item /\ g[i] = Inherited(h[i])
    BY <1>1 DEF IsForkOf
  <2> QED
    BY <2>1, InheritedItem
<1>3. \A i \in DOMAIN g : i \in 1 .. m \/ (i = m + 1 /\ g[i].kind = "fork")
  BY <1>1
<1>4. \A j \in 1 .. m : Own(g, j - 1) = Own(h, j - 1) /\ Own(h, j - 1) \subseteq 1 .. m
  <2> TAKE j \in 1 .. m
  <2>1. 1 .. (j - 1) \subseteq 1 .. m
    BY <1>1
  <2>2. Own(g, j - 1) = Own(h, j - 1)
    BY <1>2, <2>1, SameOwn
  <2> QED
    BY <2>1, <2>2 DEF Own
<1>5. TurnsGrow(g) /\ TurnsAreAnsweredOnce(g) /\ LatestIsAnswered(g)
  BY <1>2, <1>3 DEF InOrder, TurnsGrow, TurnsAreAnsweredOnce, LatestIsAnswered
<1>6. ResponsesFollowTurns(g)
  <2> SUFFICES ASSUME NEW j \in DOMAIN g, g[j].kind = "response"
               PROVE  \E i \in Own(g, j - 1) : g[i].kind = "turn" /\ g[i].turn = g[j].turn
    BY DEF ResponsesFollowTurns
  <2>1. j \in 1 .. m
    BY <1>3
  <2>2. j \in DOMAIN h /\ h[j].kind = "response" /\ h[j] = g[j]
    BY <1>2, <2>1
  <2>3. PICK i \in Own(h, j - 1) : h[i].kind = "turn" /\ h[i].turn = h[j].turn
    BY <2>2 DEF InOrder, ResponsesFollowTurns
  <2>4. i \in 1 .. m /\ i \in Own(g, j - 1)
    BY <1>4, <2>1
  <2> QED
    BY <1>2, <2>2, <2>3, <2>4
<1>7. StatusesFollowCalls(g)
  <2> SUFFICES ASSUME NEW j \in DOMAIN g, NEW key \in Key, IsStatusOf(g[j], key)
               PROVE  \E i \in Own(g, j - 1) : MakesCall(g[i], key)
    BY DEF StatusesFollowCalls
  <2>1. j \in 1 .. m
    BY <1>3 DEF IsStatusOf
  <2>2. j \in DOMAIN h /\ IsStatusOf(h[j], key)
    BY <1>2, <2>1 DEF IsStatusOf
  <2>3. PICK i \in Own(h, j - 1) : MakesCall(h[i], key)
    BY <2>2 DEF InOrder, StatusesFollowCalls
  <2>4. i \in 1 .. m /\ i \in Own(g, j - 1)
    BY <1>4, <2>1
  <2> QED
    BY <1>2, <2>3, <2>4 DEF MakesCall
<1>8. ResultsAreLast(g)
  <2> SUFFICES ASSUME NEW i \in DOMAIN g, NEW j \in DOMAIN g, NEW key \in Key,
                      i < j, IsStatusOf(g[i], key), IsStatusOf(g[j], key)
               PROVE  /\ ~IsResult(g[i])
                      /\ IsResult(g[j]) => Mentioned(g[i].ops) \subseteq Mentioned(g[j].ops)
    BY DEF ResultsAreLast
  <2>1. i \in 1 .. m /\ j \in 1 .. m
    BY <1>3 DEF IsStatusOf
  <2>2. /\ IsStatusOf(h[i], key) /\ IsStatusOf(h[j], key)
        /\ g[i].ops = InheritedOps(h[i].ops) /\ g[j].ops = InheritedOps(h[j].ops)
        /\ i \in DOMAIN h /\ j \in DOMAIN h
    BY <1>2, <2>1 DEF IsStatusOf
  <2>3. /\ ~IsResult(h[i])
        /\ IsResult(h[j]) => Mentioned(h[i].ops) \subseteq Mentioned(h[j].ops)
    BY <2>2 DEF InOrder, ResultsAreLast
  <2>4. \A ops : AllFinished(InheritedOps(ops)) => AllFinished(ops)
    BY DEF AllFinished, InheritedOps, Mentioned, Finished
  <2>5. \A ops : Mentioned(InheritedOps(ops)) = Mentioned(ops)
    BY DEF InheritedOps, Mentioned
  <2> QED
    BY <2>2, <2>3, <2>4, <2>5 DEF IsResult, IsStatusOf
<1>9. StatusesAreKnown(g)
  BY <1>1, NextOwn DEF StatusesAreKnown
<1> QED
  BY <1>5, <1>6, <1>7, <1>8, <1>9 DEF InOrder

\* The statuses of a call that the session has made are its own.
LEMMA OwnStatuses ==
    ASSUME NEW h \in Seq(Item), InOrder(h), NEW n \in 0 .. Len(h), NEW key \in Key,
           NEW i \in Own(h, n), MakesCall(h[i], key), NEW j \in 1 .. n, IsStatusOf(h[j], key)
    PROVE  j \in Own(h, n)
<1>1. DOMAIN h = 1 .. Len(h) /\ Len(h) \in Nat /\ n \in Nat /\ j \in DOMAIN h /\ j - 1 \in Nat
  OBVIOUS
<1>2. PICK k \in Own(h, j - 1) : MakesCall(h[k], key)
  BY <1>1 DEF InOrder, StatusesFollowCalls
<1>3. k \in 1 .. (j - 1) /\ i \in 1 .. n
  BY DEF Own
<1>4. k = i
  BY <1>1, <1>2, <1>3 DEF InOrder, TurnsAreAnsweredOnce, MakesCall
<1>5. i <= j /\ i \in 1 .. n /\ n \in 0 .. n
  BY <1>1, <1>3, <1>4
<1> QED
  BY <1>1, <1>5, StaysOwn

-----------------------------------------------------------------------------
(* What the loop state keeps of a history.                                 *)

Mentions(h, n, key, slot) ==
    \E i \in Own(h, n) : IsStatusOf(h[i], key) /\ h[i].ops[slot] # "none"

Lacks(h, n, key, slot) ==
    \E i \in Own(h, n) : IsStatusOf(h[i], key) /\ h[i].ops[slot] = "inherited"

\* The turn is the latest one.
TurnMatches(h, n, s) ==
    /\ \A i \in 1 .. n : h[i].kind = "turn" => h[i].turn <= s.turn
    /\ s.turn # 0 => \E i \in 1 .. n : h[i].kind = "turn" /\ h[i].turn = s.turn

\* The open calls are those that the session has made and that have no result; the new
\* ones have no status either, those that wait have one.
CallsMatch(h, n, s) ==
    \A key \in Key :
        /\ s.calls[key] # "none" <=>
              /\ \E i \in Own(h, n) : MakesCall(h[i], key)
              /\ \A i \in 1 .. n : IsStatusOf(h[i], key) => ~IsResult(h[i])
        /\ s.calls[key] = "new" => \A i \in 1 .. n : ~IsStatusOf(h[i], key)
        /\ s.calls[key] = "waiting" => \E i \in 1 .. n : IsStatusOf(h[i], key)

\* The operations are those that statuses of the session have mentioned, and one is
\* missing only where the status has lost it.
OpsMatch(h, n, ops) ==
    \A key \in Key, slot \in Slot :
        /\ ops[key][slot] # "none" <=> Mentions(h, n, key, slot)
        /\ ops[key][slot] = "inherited" => Lacks(h, n, key, slot)

\* Of the first n items: those the model has to see, those before the latest turn, and
\* those before an answered turn.
Deliveries(h, n) == {i \in 1 .. n : IsDelivery(h[i])}

Shown(h, n) ==
    {i \in Deliveries(h, n) : \E j \in 1 .. n : i < j /\ h[j].kind = "turn"}

AnsweredIn(h, n, i) ==
    \E j, k \in 1 .. n :
        i < j /\ j < k /\ h[j].kind = "turn" /\ h[k].kind = "response" /\ h[k].turn = h[j].turn

Delivered(h, n) == {i \in Deliveries(h, n) : AnsweredIn(h, n, i)}

\* The counters of the loop state count them.
CountsMatch(h, n, s) ==
    /\ s.available = Cardinality(Deliveries(h, n))
    /\ s.turnInputs = Cardinality(Shown(h, n))
    /\ s.delivered = Cardinality(Delivered(h, n))

Matches(h, n, s) ==
    /\ TurnMatches(h, n, s) /\ CallsMatch(h, n, s) /\ OpsMatch(h, n, s.ops)
    /\ CountsMatch(h, n, s)

\* Two loop states with the same counters.
SameCounts(s, t) ==
    t.available = s.available /\ t.turnInputs = s.turnInputs /\ t.delivered = s.delivered

\* Nothing has happened yet.
LEMMA NothingMatches == ASSUME NEW h PROVE Matches(h, 0, NewLoopState)
<1>1. Deliveries(h, 0) = {} /\ Shown(h, 0) = {} /\ Delivered(h, 0) = {}
  BY DEF Deliveries, Shown, Delivered
<1>2. CountsMatch(h, 0, NewLoopState)
  BY <1>1, FS_EmptySet DEF CountsMatch, NewLoopState
<1> QED
  <2>1. Own(h, 0) = {}
    BY DEF Own
  <2>2. /\ TurnMatches(h, 0, NewLoopState) /\ CallsMatch(h, 0, NewLoopState)
        /\ OpsMatch(h, 0, NewLoopState.ops)
    BY <2>1 DEF TurnMatches, CallsMatch, OpsMatch, Mentions, NewLoopState, NoSnapshot
  <2> QED
    BY <1>2, <2>2 DEF Matches

\* What is appended later changes nothing.
LEMMA LaterItems ==
    ASSUME NEW h \in Seq(Item), NEW item \in Item, NEW n \in 0 .. Len(h), NEW s,
           Matches(h, n, s)
    PROVE  Matches(Append(h, item), n, s)
<1> DEFINE g == Append(h, item)
<1>1. \A i \in 1 .. n : g[i] = h[i]
  BY AppendedItems
<1> HIDE DEF g
<1>9. Own(g, n) = Own(h, n) /\ Own(h, n) \subseteq 1 .. n
  BY <1>1, SameOwn DEF Own
<1>2. TurnMatches(g, n, s) /\ CallsMatch(g, n, s)
  BY <1>1, <1>9 DEF Matches, TurnMatches, CallsMatch
<1>3. OpsMatch(g, n, s.ops)
  <2>1. \A key \in Key, slot \in Slot :
          /\ Mentions(g, n, key, slot) <=> Mentions(h, n, key, slot)
          /\ Lacks(g, n, key, slot) <=> Lacks(h, n, key, slot)
    BY <1>1, <1>9 DEF Mentions, Lacks
  <2> QED
    BY <2>1 DEF Matches, OpsMatch
<1>4. Deliveries(g, n) = Deliveries(h, n)
  BY <1>1 DEF Deliveries
<1>5. Shown(g, n) = Shown(h, n)
  BY <1>1, <1>4 DEF Shown
<1>6. \A i \in 1 .. n : AnsweredIn(g, n, i) <=> AnsweredIn(h, n, i)
  BY <1>1 DEF AnsweredIn
<1>7. Delivered(g, n) = Delivered(h, n)
  BY <1>4, <1>6 DEF Delivered, Deliveries
<1>8. CountsMatch(g, n, s)
  BY <1>4, <1>5, <1>7 DEF Matches, CountsMatch
<1> QED
  BY <1>2, <1>3, <1>8 DEF Matches, g

\* The other fields of the loop state, and how far an operation is, do not matter.
LEMMA OtherFields ==
    ASSUME NEW h, NEW n, NEW s, NEW t, Matches(h, n, s), t.turn = s.turn, t.calls = s.calls,
           SameCounts(s, t),
           \A key \in Key, slot \in Slot :
              /\ t.ops[key][slot] # "none" <=> s.ops[key][slot] # "none"
              /\ t.ops[key][slot] = "inherited" => s.ops[key][slot] = "inherited"
    PROVE  Matches(h, n, t)
BY DEF Matches, TurnMatches, CallsMatch, OpsMatch, CountsMatch, SameCounts

\* What a status does to the calls.
LEMMA StatusSetsCalls ==
    ASSUME NEW s \in LoopState, NEW key \in Key, NEW ops \in Snapshot
    PROVE  LET next == AddItem(s, [kind |-> "status", key |-> key, ops |-> ops])
           IN  /\ next.turn = s.turn
               /\ \A other \in Key \ {key} : next.calls[other] = s.calls[other]
               /\ s.calls[key] = "none" => next.calls[key] = "none"
               /\ s.calls[key] # "none" =>
                     next.calls[key] = IF AllFinished(next.ops[key]) THEN "none" ELSE "waiting"
               /\ next.turnInputs = s.turnInputs /\ next.delivered = s.delivered
               /\ next.available = IF s.calls[key] # "none" /\ AllFinished(next.ops[key])
                                   THEN s.available + 1 ELSE s.available
<1> DEFINE added   == AddOperations(s, key, ops)
           waiting == [added EXCEPT !.calls[key] = "waiting"]
           done    == FinishToolCall(waiting, key)
<1>1. added \in LoopState /\ added.calls = s.calls /\ added.turn = s.turn /\ SameCounts(s, added)
  <2> DEFINE new == [slot \in Slot |-> IF ops[slot] = "none" THEN s.ops[key][slot] ELSE ops[slot]]
  <2>1. added = [s EXCEPT !.ops[key] = new]
    BY DEF AddOperations
  <2> HIDE DEF added, new
  <2>2. added.calls = s.calls /\ added.turn = s.turn /\ SameCounts(s, added)
    BY <2>1 DEF LoopState, SameCounts
  <2> QED
    BY <2>2, AddOperationsType DEF added
<1>2. /\ waiting \in LoopState /\ waiting.turn = s.turn /\ waiting.ops = added.ops
      /\ waiting.calls = [s.calls EXCEPT ![key] = "waiting"] /\ SameCounts(s, waiting)
  <2> HIDE DEF added
  <2> QED
    BY <1>1 DEF LoopState, SameCounts
<1>3. /\ done.turn = s.turn /\ done.ops = added.ops
      /\ done.calls = [waiting.calls EXCEPT ![key] = "none"]
      /\ done.available = waiting.available + 1
      /\ done.turnInputs = waiting.turnInputs /\ done.delivered = waiting.delivered
  <2> HIDE DEF waiting
  <2> QED
    BY <1>2 DEF FinishToolCall, LoopState
<1>4. s.calls \in [Key -> {"none", "new", "waiting"}]
  BY DEF LoopState
<1>5. AddItem(s, [kind |-> "status", key |-> key, ops |-> ops]) =
        IF s.calls[key] = "none" THEN added
        ELSE IF AllFinished(added.ops[key]) THEN done ELSE waiting
  BY DEF AddItem, AddToolCallStatus
<1> HIDE DEF added, waiting, done
<1> QED
  BY <1>1, <1>2, <1>3, <1>4, <1>5 DEF SameCounts

\* The deliveries of a history that has one more item, and those shown and answered.
LEMMA DeliveriesGrow ==
    ASSUME NEW h \in Seq(Item), InOrder(h), NEW n \in Nat, n + 1 \in DOMAIN h
    PROVE  /\ Deliveries(h, n + 1) = IF IsDelivery(h[n + 1]) THEN Deliveries(h, n) \cup {n + 1}
                                     ELSE Deliveries(h, n)
           /\ Shown(h, n + 1) = IF h[n + 1].kind = "turn" THEN Deliveries(h, n) ELSE Shown(h, n)
           /\ Delivered(h, n + 1) = IF h[n + 1].kind = "response" THEN Shown(h, n)
                                    ELSE Delivered(h, n)
<1> DEFINE m == n + 1
<1>1. /\ DOMAIN h = 1 .. Len(h) /\ m \in DOMAIN h /\ 1 .. m = (1 .. n) \cup {m}
      /\ m \notin 1 .. n /\ (\A i \in 1 .. n : i \in DOMAIN h /\ i < m)
      /\ \A i \in 1 .. m : ~(m < i)
  OBVIOUS
<1> HIDE DEF m
<1>2. Deliveries(h, m) = IF IsDelivery(h[m]) THEN Deliveries(h, n) \cup {m} ELSE Deliveries(h, n)
  BY <1>1 DEF Deliveries
<1>3. h[m].kind \in {"turn", "response"} => ~IsDelivery(h[m])
  BY DEF IsDelivery, IsResult
<1>4. Shown(h, m) = IF h[m].kind = "turn" THEN Deliveries(h, n) ELSE Shown(h, n)
  <2>1. \A i \in 1 .. m : (\E j \in 1 .. m : i < j /\ h[j].kind = "turn") <=>
           \/ i \in 1 .. n /\ h[m].kind = "turn"
           \/ i \in 1 .. n /\ \E j \in 1 .. n : i < j /\ h[j].kind = "turn"
    BY <1>1
  <2> QED
    BY <1>1, <1>2, <1>3, <2>1 DEF Shown, Deliveries
<1>5. CASE h[m].kind # "response"
  <2>1. \A i \in 1 .. n : AnsweredIn(h, m, i) <=> AnsweredIn(h, n, i)
    BY <1>1, <1>5 DEF AnsweredIn
  <2>2. ~AnsweredIn(h, m, m)
    BY <1>1 DEF AnsweredIn
  <2> QED
    BY <1>1, <1>2, <1>4, <1>5, <2>1, <2>2 DEF Delivered, Deliveries, m
<1>6. CASE h[m].kind = "response"
  <2>1. PICK last \in 1 .. n : h[last].kind = "turn" /\ h[last].turn = h[m].turn
    <3>1. PICK i \in Own(h, m - 1) : h[i].kind = "turn" /\ h[i].turn = h[m].turn
      BY <1>1, <1>6 DEF InOrder, ResponsesFollowTurns
    <3>2. m - 1 = n
      BY DEF m
    <3> QED
      BY <3>1, <3>2 DEF Own
  <2>2. ASSUME NEW j \in 1 .. n, h[j].kind = "turn"
        PROVE  j <= last
    <3>1. h[j].turn <= h[last].turn
      BY <1>1, <1>6, <2>1, <2>2 DEF InOrder, LatestIsAnswered
    <3>2. last < j => h[last].turn < h[j].turn
      BY <1>1, <2>1, <2>2 DEF InOrder, TurnsGrow
    <3>3. h[j].turn \in Turn /\ h[last].turn \in Turn
      BY <1>1, <2>1, <2>2, ItemKinds
    <3> QED
      BY <3>1, <3>2, <3>3, MaxTurnAssumption DEF Turn
  <2>3. \A i \in 1 .. n : AnsweredIn(h, m, i) <=> \E j \in 1 .. n : i < j /\ h[j].kind = "turn"
    <3> SUFFICES ASSUME NEW i \in 1 .. n
                 PROVE  AnsweredIn(h, m, i) <=> \E j \in 1 .. n : i < j /\ h[j].kind = "turn"
      OBVIOUS
    <3>1. ASSUME NEW j \in 1 .. n, i < j, h[j].kind = "turn"
          PROVE  AnsweredIn(h, m, i)
      <4>1. i < last /\ last < m /\ last \in 1 .. m /\ m \in 1 .. m
        BY <1>1, <2>2, <3>1
      <4> QED
        BY <1>6, <2>1, <4>1 DEF AnsweredIn
    <3>2. ASSUME AnsweredIn(h, m, i)
          PROVE  \E j \in 1 .. n : i < j /\ h[j].kind = "turn"
      BY <1>1, <3>2 DEF AnsweredIn
    <3> QED
      BY <3>1, <3>2
  <2>4. Deliveries(h, m) = Deliveries(h, n)
    BY <1>2, <1>3, <1>6
  <2> QED
    BY <1>2, <1>4, <1>6, <2>3, <2>4 DEF Delivered, Shown, Deliveries, m
<1> QED
  BY <1>2, <1>4, <1>5, <1>6 DEF m

\* The counters go on counting when the item moves them as it should.
LEMMA CountsGrow ==
    ASSUME NEW h \in Seq(Item), InOrder(h), NEW n \in Nat, n + 1 \in DOMAIN h,
           NEW s, NEW t, CountsMatch(h, n, s),
           t.available = IF IsDelivery(h[n + 1]) THEN s.available + 1 ELSE s.available,
           t.turnInputs = IF h[n + 1].kind = "turn" THEN s.available ELSE s.turnInputs,
           t.delivered = IF h[n + 1].kind = "response" THEN s.turnInputs ELSE s.delivered
    PROVE  CountsMatch(h, n + 1, t)
<1>1. IsFiniteSet(Deliveries(h, n)) /\ n + 1 \notin Deliveries(h, n)
  <2>1. IsFiniteSet(1 .. n)
    BY FS_Interval
  <2> QED
    BY <2>1, FS_Subset DEF Deliveries
<1>2. Cardinality(Deliveries(h, n) \cup {n + 1}) = Cardinality(Deliveries(h, n)) + 1
  BY <1>1, FS_AddElement
<1>3. t.available = Cardinality(Deliveries(h, n + 1))
  BY <1>2, DeliveriesGrow DEF CountsMatch
<1>4. t.turnInputs = Cardinality(Shown(h, n + 1))
  BY DeliveriesGrow DEF CountsMatch
<1>5. t.delivered = Cardinality(Delivered(h, n + 1))
  BY DeliveriesGrow DEF CountsMatch
<1> QED
  BY <1>3, <1>4, <1>5 DEF CountsMatch

\* Replaying or recording the next item: the state goes on matching.
LEMMA NextItem ==
    ASSUME NEW h \in Seq(Item), InOrder(h), NEW n \in Nat, n + 1 \in DOMAIN h,
           NEW s \in LoopState, Matches(h, n, s)
    PROVE  Matches(h, n + 1, AddItem(s, h[n + 1]))
<1> DEFINE item == h[n + 1]
           next == AddItem(s, item)
           m    == n + 1
<1>1. /\ item \in Item /\ DOMAIN h = 1 .. Len(h) /\ m \in Nat
      /\ \A i \in 1 .. m : i \in DOMAIN h /\ ((i \in 1 .. n /\ i < m) \/ i = m)
      /\ 1 .. n \subseteq 1 .. m /\ m \in 1 .. m /\ \A i \in 1 .. n : i < m
  OBVIOUS
<1>2. \A i \in DOMAIN h : i < m => i \in 1 .. n
  BY <1>1
<1>3. h[m] = item /\ m \in DOMAIN h
  OBVIOUS
<1>10. /\ Own(h, n) \subseteq 1 .. n /\ m - 1 = n
       /\ item.kind = "fork" => Own(h, m) = {}
       /\ item.kind # "fork" => Own(h, m) = Own(h, n) \cup {m}
  <2>1. m - 1 = n
    OBVIOUS
  <2> QED
    BY <2>1, NextOwn, Zenon
<1>9. ASSUME next.available = (IF IsDelivery(item) THEN s.available + 1 ELSE s.available),
             next.turnInputs = (IF item.kind = "turn" THEN s.available ELSE s.turnInputs),
             next.delivered = (IF item.kind = "response" THEN s.turnInputs ELSE s.delivered)
      PROVE  CountsMatch(h, m, next)
  <2> HIDE DEF next
  <2>1. CountsMatch(h, n, s)
    BY DEF Matches
  <2> QED
    BY <1>9, <2>1, CountsGrow
<1> HIDE DEF item, next, m
<1>4. SUFFICES Matches(h, m, next)
  BY DEF item, next, m
<1>5. CASE item.kind = "input"
  <2>1. next.turn = s.turn /\ next.calls = s.calls /\ next.ops = s.ops
    BY <1>1, <1>5 DEF next, AddItem, AddInput, LoopState
  <2>2. TurnMatches(h, m, next) /\ CallsMatch(h, m, next) /\ OpsMatch(h, m, next.ops)
    <3>1. TurnMatches(h, m, s) /\ CallsMatch(h, m, s) /\ OpsMatch(h, m, s.ops)
      BY <1>1, <1>3, <1>5, <1>10, SMTT(60)
      DEF Matches, TurnMatches, CallsMatch, OpsMatch, Mentions, Lacks, IsStatusOf, MakesCall
    <3> QED
      BY <2>1, <3>1 DEF TurnMatches, CallsMatch
  <2>3. IsDelivery(item) <=> IsDeliverable(item.input)
    BY <1>5 DEF IsDelivery, IsResult
  <2>4. CountsMatch(h, m, next)
    BY <1>5, <1>9, <2>3 DEF next, AddItem, AddInput, LoopState
  <2> QED
    BY <2>2, <2>4 DEF Matches
<1>6. CASE item.kind = "turn"
  <2>1. next.turn = item.turn /\ next.calls = s.calls /\ next.ops = s.ops
    BY <1>1, <1>6, ItemKeepsOps DEF next, AddItem, AddTurn, LoopState
  <2>2. \A i \in 1 .. n : h[i].kind = "turn" => h[i].turn < item.turn
    BY <1>1, <1>3, <1>6 DEF InOrder, TurnsGrow
  <2>3. TurnMatches(h, m, next)
    <3>1. \A i \in 1 .. m : h[i].kind = "turn" => h[i].turn \in Turn
      BY <1>1, ItemKinds
    <3> QED
      BY <1>1, <1>3, <1>6, <2>1, <2>2, <3>1, MaxTurnAssumption DEF TurnMatches, Turn
  <2>4. CallsMatch(h, m, next)
    <3>1. CallsMatch(h, m, s)
      BY <1>1, <1>3, <1>6, <1>10, SMTT(60) DEF Matches, CallsMatch, IsStatusOf, MakesCall
    <3> QED
      BY <2>1, <3>1 DEF CallsMatch
  <2>5. OpsMatch(h, m, next.ops)
    BY <1>1, <1>3, <1>6, <1>10, <2>1 DEF Matches, OpsMatch, Mentions, Lacks, IsStatusOf
  <2>6. CountsMatch(h, m, next)
    <3>1. ~IsDelivery(item)
      BY <1>6 DEF IsDelivery, IsResult
    <3>2. /\ next.available = s.available /\ next.turnInputs = s.available
          /\ next.delivered = s.delivered
      BY <1>6 DEF next, AddItem, AddTurn, LoopState
    <3> QED
      BY <1>6, <1>9, <3>1, <3>2
  <2> QED
    BY <2>3, <2>4, <2>5, <2>6 DEF Matches
<1>7. CASE item.kind = "response"
  <2>1. /\ next.turn = s.turn /\ next.ops = s.ops
        /\ \A key \in Key : next.calls[key] = IF MakesCall(item, key) THEN "new" ELSE s.calls[key]
    BY <1>1, <1>7, ItemKeepsOps DEF next, AddItem, AddModelResponse, LoopState, MakesCall
  <2>2. TurnMatches(h, m, next)
    BY <1>1, <1>3, <1>7, <2>1 DEF Matches, TurnMatches
  <2>3. OpsMatch(h, m, next.ops)
    BY <1>1, <1>3, <1>7, <1>10, <2>1, SMTT(60) DEF Matches, OpsMatch, Mentions, Lacks, IsStatusOf
  <2>4. ASSUME NEW key \in Key, MakesCall(item, key)
        PROVE  \A i \in 1 .. m : ~IsStatusOf(h[i], key)
    <3> SUFFICES ASSUME NEW i \in 1 .. m, IsStatusOf(h[i], key) PROVE FALSE
      OBVIOUS
    <3>1. PICK j \in DOMAIN h : j < i /\ MakesCall(h[j], key)
      <4>1. PICK j \in Own(h, i - 1) : MakesCall(h[j], key)
        BY <1>1 DEF InOrder, StatusesFollowCalls
      <4>2. j \in 1 .. (i - 1)
        BY DEF Own
      <4> QED
        BY <1>1, <4>1, <4>2
    <3>2. j = m
      BY <1>3, <2>4, <3>1 DEF InOrder, TurnsAreAnsweredOnce, MakesCall
    <3> QED
      BY <1>1, <3>1, <3>2
  <2>5. CallsMatch(h, m, next)
    BY <1>1, <1>3, <1>7, <1>10, <2>1, <2>4 DEF Matches, CallsMatch, IsStatusOf
  <2>6. item.turn = s.turn
    <3>1. item.turn \in Turn /\ s.turn \in Nat
      BY <1>1, <1>7, ItemKinds, MaxTurnAssumption DEF LoopState
    <3>2. PICK i \in 1 .. n : h[i].kind = "turn" /\ h[i].turn = item.turn
      BY <1>3, <1>7, <1>10 DEF InOrder, ResponsesFollowTurns
    <3>3. item.turn <= s.turn /\ s.turn # 0
      BY <3>1, <3>2, MaxTurnAssumption DEF Matches, TurnMatches, Turn
    <3>4. PICK j \in 1 .. n : h[j].kind = "turn" /\ h[j].turn = s.turn
      BY <3>3 DEF Matches, TurnMatches
    <3>5. s.turn <= item.turn
      BY <1>1, <1>3, <1>7, <3>4 DEF InOrder, LatestIsAnswered
    <3> QED
      BY <3>1, <3>3, <3>5 DEF Turn
  <2>7. CountsMatch(h, m, next)
    <3>1. ~IsDelivery(item)
      BY <1>7 DEF IsDelivery, IsResult
    <3>2. /\ next.available = s.available /\ next.turnInputs = s.turnInputs
          /\ next.delivered = s.turnInputs
      BY <1>7, <2>6 DEF next, AddItem, AddModelResponse, LoopState
    <3> QED
      BY <1>7, <1>9, <3>1, <3>2
  <2> QED
    BY <2>2, <2>3, <2>5, <2>7 DEF Matches
<1>8. CASE item.kind = "status"
  <2> DEFINE key == item.key
  <2>1. /\ key \in Key /\ item.ops \in Snapshot
        /\ item = [kind |-> "status", key |-> key, ops |-> item.ops]
    BY <1>1, <1>8 DEF Item, InputItem, TurnItem, ResponseItem, StatusItem, ForkItem
  <2>2. /\ IsStatusOf(item, key) /\ \A other \in Key \ {key} : ~IsStatusOf(item, other)
        /\ \A other \in Key : ~MakesCall(item, other)
    BY <1>8 DEF IsStatusOf, MakesCall
  <2> HIDE DEF key
  <2>3. next = AddItem(s, [kind |-> "status", key |-> key, ops |-> item.ops])
    BY <2>1 DEF next
  <2>4. /\ next.turn = s.turn
        /\ \A other \in Key \ {key} : next.calls[other] = s.calls[other]
        /\ s.calls[key] = "none" => next.calls[key] = "none"
        /\ s.calls[key] # "none" =>
              next.calls[key] = IF AllFinished(next.ops[key]) THEN "none" ELSE "waiting"
        /\ next.turnInputs = s.turnInputs /\ next.delivered = s.delivered
        /\ next.available = IF s.calls[key] # "none" /\ AllFinished(next.ops[key])
                            THEN s.available + 1 ELSE s.available
    BY <2>1, <2>3, StatusSetsCalls
  <2>5. /\ \A other \in Key \ {key} : next.ops[other] = s.ops[other]
        /\ \A slot \in Slot : next.ops[key][slot] =
              IF item.ops[slot] = "none" THEN s.ops[key][slot] ELSE item.ops[slot]
    <3>1. next.ops = [s.ops EXCEPT ![key] =
            [slot \in Slot |-> IF item.ops[slot] = "none" THEN s.ops[key][slot] ELSE item.ops[slot]]]
      BY <2>1, <2>3, StatusSetsOps, ZenonT(60)
    <3>2. s.ops \in [Key -> Snapshot]
      BY DEF LoopState
    <3> QED
      BY <2>1, <3>1, <3>2
  <2>6. TurnMatches(h, m, next)
    BY <1>1, <1>3, <1>8, <2>4 DEF Matches, TurnMatches
  <2>7. OpsMatch(h, m, next.ops)
    <3> SUFFICES ASSUME NEW other \in Key, NEW slot \in Slot
                 PROVE  /\ next.ops[other][slot] # "none" <=> Mentions(h, m, other, slot)
                        /\ next.ops[other][slot] = "inherited" => Lacks(h, m, other, slot)
      BY DEF OpsMatch
    <3>1. /\ s.ops[other][slot] # "none" <=> Mentions(h, n, other, slot)
          /\ s.ops[other][slot] = "inherited" => Lacks(h, n, other, slot)
      BY DEF Matches, OpsMatch
    <3>2. /\ Mentions(h, m, other, slot) <=>
               Mentions(h, n, other, slot) \/ (other = key /\ item.ops[slot] # "none")
          /\ Lacks(h, n, other, slot) => Lacks(h, m, other, slot)
          /\ other = key /\ item.ops[slot] = "inherited" => Lacks(h, m, other, slot)
      BY <1>3, <1>8, <1>10, <2>2 DEF Mentions, Lacks
    <3>3. next.ops[other][slot] # "none" <=>
            s.ops[other][slot] # "none" \/ (other = key /\ item.ops[slot] # "none")
      BY <2>5
    <3>4. next.ops[other][slot] = "inherited" =>
            s.ops[other][slot] = "inherited" \/ (other = key /\ item.ops[slot] = "inherited")
      BY <2>5
    <3> QED
      BY <3>1, <3>2, <3>3, <3>4
  <2>8. ASSUME IsResult(item) PROVE AllFinished(next.ops[key])
    <3> SUFFICES ASSUME NEW slot \in Slot, next.ops[key][slot] # "none"
                 PROVE  next.ops[key][slot] \in Finished
      BY DEF AllFinished, Mentioned
    <3>1. CASE item.ops[slot] # "none"
      BY <2>5, <2>8, <3>1 DEF IsResult, AllFinished, Mentioned
    <3>2. CASE item.ops[slot] = "none"
      <4>1. Mentions(h, n, key, slot)
        BY <2>1, <2>5, <3>2 DEF Matches, OpsMatch
      <4>2. PICK i \in 1 .. n : IsStatusOf(h[i], key) /\ h[i].ops[slot] # "none"
        BY <1>10, <4>1 DEF Mentions
      <4>3. Mentioned(h[i].ops) \subseteq Mentioned(item.ops)
        BY <1>1, <1>3, <2>1, <2>2, <2>8, <4>2 DEF InOrder, ResultsAreLast
      <4> QED
        BY <3>2, <4>2, <4>3 DEF Mentioned
    <3> QED
      BY <3>1, <3>2
  <2>9. CallsMatch(h, m, next)
    <3> SUFFICES ASSUME NEW other \in Key
                 PROVE  /\ next.calls[other] # "none" <=>
                              /\ \E i \in Own(h, m) : MakesCall(h[i], other)
                              /\ \A i \in 1 .. m : IsStatusOf(h[i], other) => ~IsResult(h[i])
                        /\ next.calls[other] = "new" => \A i \in 1 .. m : ~IsStatusOf(h[i], other)
                        /\ next.calls[other] = "waiting" => \E i \in 1 .. m : IsStatusOf(h[i], other)
      BY DEF CallsMatch
    <3>1. CASE other # key
      BY <1>1, <1>3, <1>8, <1>10, <2>2, <2>4, <3>1 DEF Matches, CallsMatch
    <3>2. CASE other = key /\ next.calls[key] # "none"
      <4>1. s.calls[key] # "none" /\ next.calls[key] = "waiting" /\ ~IsResult(item)
        BY <2>4, <2>8, <3>2
      <4> QED
        BY <1>1, <1>3, <1>8, <1>10, <2>1, <2>2, <3>2, <4>1 DEF Matches, CallsMatch
    <3>3. CASE other = key /\ s.calls[key] = "none"
      <4>1. \E i \in Own(h, n) : MakesCall(h[i], key)
        BY <1>3, <1>10, <2>1, <2>2 DEF InOrder, StatusesFollowCalls
      <4>2. \E i \in 1 .. n : IsStatusOf(h[i], key) /\ IsResult(h[i])
        BY <2>1, <3>3, <4>1 DEF Matches, CallsMatch
      <4> QED
        BY <1>1, <2>4, <3>3, <4>2
    <3>4. CASE other = key /\ s.calls[key] # "none" /\ next.calls[key] = "none"
      <4>1. IsResult(item)
        <5>1. AllFinished(next.ops[key])
          BY <2>4, <3>4
        <5> QED
          BY <1>8, <2>5, <5>1 DEF IsResult, AllFinished, Mentioned
      <4> QED
        BY <1>1, <1>3, <2>2, <3>4, <4>1
    <3> QED
      BY <3>1, <3>2, <3>3, <3>4
  <2>10. IsDelivery(item) <=> s.calls[key] # "none" /\ AllFinished(next.ops[key])
    <3>1. AllFinished(next.ops[key]) => IsResult(item)
      BY <1>8, <2>5 DEF IsResult, AllFinished, Mentioned
    <3>2. s.calls[key] # "none"
      <4>1. \E i \in Own(h, n) : MakesCall(h[i], key)
        BY <1>3, <1>10, <2>1, <2>2 DEF InOrder, StatusesFollowCalls
      <4>2. \A i \in 1 .. n : IsStatusOf(h[i], key) => ~IsResult(h[i])
        BY <1>1, <1>3, <2>1, <2>2 DEF InOrder, ResultsAreLast
      <4> QED
        BY <2>1, <4>1, <4>2 DEF Matches, CallsMatch
    <3> QED
      BY <1>8, <2>8, <3>1, <3>2 DEF IsDelivery
  <2>11. CountsMatch(h, m, next)
    BY <1>8, <1>9, <2>4, <2>10
  <2> QED
    BY <2>6, <2>7, <2>9, <2>11 DEF Matches
<1>11. CASE item.kind = "fork"
  <2>1. /\ next.turn = s.turn /\ next.available = s.available
        /\ next.turnInputs = s.turnInputs /\ next.delivered = s.delivered
        /\ \A key \in Key : next.calls[key] = "none" /\ next.ops[key] = NoSnapshot
    <3> DEFINE cleared == ClearToolGrace(s)
               calls   == [key \in Key |-> "none"]
               ops     == [key \in Key |-> NoSnapshot]
    <3>1. cleared \in LoopState /\ cleared.turn = s.turn /\ SameCounts(s, cleared)
      BY DEF ClearToolGrace, LoopState, SameCounts
    <3>2. next = [cleared EXCEPT !.calls = calls, !.ops = ops]
      BY <1>11 DEF next, AddItem, AddFork
    <3>3. \A key \in Key : calls[key] = "none" /\ ops[key] = NoSnapshot
      OBVIOUS
    <3> HIDE DEF cleared, calls, ops
    <3> QED
      BY <3>1, <3>2, <3>3 DEF LoopState, SameCounts
  <2>2. TurnMatches(h, m, next)
    BY <1>1, <1>3, <1>11, <2>1 DEF Matches, TurnMatches
  <2>3. CallsMatch(h, m, next) /\ OpsMatch(h, m, next.ops)
    BY <1>10, <1>11, <2>1 DEF CallsMatch, OpsMatch, Mentions, NoSnapshot
  <2>4. ~IsDelivery(item)
    BY <1>11 DEF IsDelivery, IsResult
  <2>5. CountsMatch(h, m, next)
    BY <1>9, <1>11, <2>1, <2>4
  <2> QED
    BY <2>2, <2>3, <2>5 DEF Matches
<1> QED
  BY <1>1, <1>5, <1>6, <1>7, <1>8, <1>11, ItemKinds

-----------------------------------------------------------------------------
(* The inductive invariant.                                                *)

\* The history is in order, the store knows the operations that it mentions, a request
\* in flight is for a turn of the session and has no response, and the loop state matches
\* the history: in a restore, as far as it has been replayed.
HistoryInv ==
    /\ InOrder(log)
    /\ OpsMatch(log, Len(log), saved)
    /\ \A turn \in inflight : \E i \in Own(log, Len(log)) : log[i].kind = "turn" /\ log[i].turn = turn
    /\ \A turn \in inflight, i \in DOMAIN log : log[i].kind = "response" => log[i].turn # turn
    /\ pc = "load" => cursor \in 0 .. Len(log) /\ Matches(log, cursor, state)
    /\ pc \notin {"load", "down"} => Matches(log, Len(log), state)

\* It holds of an empty store.
LEMMA HistoryInit == Init => HistoryInv
<1> SUFFICES ASSUME Init PROVE HistoryInv
  OBVIOUS
<1>1. log = <<>> /\ pc = "load" /\ cursor = 0 /\ state = NewLoopState /\ inflight = {}
  BY DEF Init, EmptyStore
<1>2. InOrder(<<>>)
  BY DEF InOrder, TurnsGrow, ResponsesFollowTurns, TurnsAreAnsweredOnce, StatusesFollowCalls,
     ResultsAreLast, LatestIsAnswered, StatusesAreKnown, Own
<1>3. OpsMatch(<<>>, 0, saved)
  BY DEF Init, EmptyStore, OpsMatch, Mentions, NoSnapshot, Own
<1> QED
  BY <1>1, <1>2, <1>3, NothingMatches DEF HistoryInv

\* No operation of the running session is missing.
LEMMA NothingIsMissing ==
    ASSUME NEW h \in Seq(Item), InOrder(h), NEW ops, OpsMatch(h, Len(h), ops),
           NEW key \in Key, NEW slot \in Slot
    PROVE  ops[key][slot] # "inherited"
<1> SUFFICES ASSUME ops[key][slot] = "inherited" PROVE FALSE
  OBVIOUS
<1>1. PICK i \in Own(h, Len(h)) : IsStatusOf(h[i], key) /\ h[i].ops[slot] = "inherited"
  BY DEF OpsMatch, Lacks
<1> QED
  BY <1>1 DEF InOrder, StatusesAreKnown, AreInherited, IsStatusOf

-----------------------------------------------------------------------------
(* Steps that append an item.                                              *)

Running == pc \notin {"load", "down"}

\* The item that a step appends, and what else the step changes that matters here.
Appending(item) ==
    /\ item \in Item /\ Follows(log, item) /\ AppendItem(item)
    /\ Running /\ Running'
    /\ LET next == AddItem(state, item)
       IN  /\ state'.turn = next.turn /\ state'.calls = next.calls /\ state'.ops = next.ops
           /\ SameCounts(next, state')
    /\ item.kind = "turn" => item.turn = state.turn + 1 /\ inflight' = inflight \cup {item.turn}
    /\ item.kind = "response" => item.turn = state.turn /\ inflight' = inflight \ {item.turn}
    /\ item.kind \in {"input", "status"} => inflight' = inflight
    /\ item.kind = "status" /\ (\E i \in DOMAIN log : IsStatusOf(log[i], item.key)) =>
          \A slot \in Slot : item.ops[slot] # "none" => Mentions(log, Len(log), item.key, slot)

\* An appended item that is no fork is the session's own.
LEMMA NextAppendedOwn ==
    ASSUME NEW h \in Seq(Item), NEW item \in Item, item.kind # "fork", NEW g, g = Append(h, item)
    PROVE  /\ Own(g, Len(g)) = Own(h, Len(h)) \cup {Len(h) + 1}
           /\ Own(h, Len(h)) \subseteq DOMAIN h
<1>1. /\ Len(g) = Len(h) + 1 /\ Len(h) \in Nat /\ \A i \in 1 .. Len(h) : g[i].kind = h[i].kind
      /\ g[Len(h) + 1] = item /\ DOMAIN h = 1 .. Len(h)
  BY AppendedItems
<1>2. Own(g, Len(h)) = Own(h, Len(h))
  BY <1>1, SameOwn
<1>3. g[Len(h) + 1].kind # "fork"
  BY <1>1
<1>4. Own(g, Len(h) + 1) = Own(g, Len(h)) \cup {Len(h) + 1}
  BY <1>1, <1>3, NextOwn
<1>5. Own(h, Len(h)) \subseteq DOMAIN h
  BY <1>1 DEF Own
<1> QED
  BY <1>1, <1>2, <1>4, <1>5

\* The store keeps the operations of the first status.
LEMMA FirstStatusIsSaved ==
    ASSUME TypeOK, HistoryInv, NEW item, Appending(item)
    PROVE  OpsMatch(log', Len(log'), saved')
<1> SUFFICES ASSUME NEW key \in Key, NEW slot \in Slot
             PROVE  /\ saved'[key][slot] # "none" <=> Mentions(log', Len(log'), key, slot)
                    /\ saved'[key][slot] # "inherited"
  BY DEF OpsMatch
<1>1. /\ log \in Seq(Item) /\ item \in Item /\ log' = Append(log, item)
      /\ saved \in [Key -> Snapshot]
  BY DEF TypeOK, StoreTypeOK, Appending, AppendItem
<1>2. /\ DOMAIN log = 1 .. Len(log) /\ Len(log) \in Nat /\ Len(log') = Len(log) + 1
      /\ \A i \in 1 .. Len(log) : log'[i] = log[i]
      /\ log'[Len(log) + 1] = item
  BY <1>1, AppendedItems
<1>3. /\ Own(log', Len(log')) = Own(log, Len(log)) \cup {Len(log) + 1}
      /\ Own(log, Len(log)) \subseteq DOMAIN log
  BY <1>1, <1>2, NextAppendedOwn DEF Appending, Follows
<1>5. Mentions(log', Len(log'), key, slot) <=>
        Mentions(log, Len(log), key, slot) \/ (IsStatusOf(item, key) /\ item.ops[slot] # "none")
  BY <1>2, <1>3 DEF Mentions
<1>6. /\ saved[key][slot] # "none" <=> Mentions(log, Len(log), key, slot)
      /\ saved[key][slot] # "inherited"
  BY <1>1, NothingIsMissing DEF HistoryInv, OpsMatch
<1>7. saved' = IF item.kind = "status" /\ StatusesOf(item.key) = {}
               THEN [saved EXCEPT ![item.key] = item.ops] ELSE saved
  BY DEF Appending, AppendItem
<1>8. StatusesOf(key) = {i \in DOMAIN log : IsStatusOf(log[i], key)}
  BY DEF StatusesOf, ItemsOf, IsStatusOf
<1>9. CASE IsStatusOf(item, key) /\ StatusesOf(key) = {}
  <2>1. saved'[key] = item.ops /\ ~Mentions(log, Len(log), key, slot)
    BY <1>1, <1>3, <1>7, <1>8, <1>9 DEF IsStatusOf, Mentions
  <2>2. ~AreInherited(item.ops)
    BY <1>9 DEF Appending, Follows
  <2> QED
    BY <1>5, <1>9, <2>1, <2>2 DEF AreInherited
<1>10. CASE IsStatusOf(item, key) /\ StatusesOf(key) # {}
  <2>1. saved' = saved /\ item.key = key /\ item.kind = "status"
    BY <1>7, <1>10 DEF IsStatusOf
  <2>2. item.ops[slot] # "none" => Mentions(log, Len(log), key, slot)
    BY <1>8, <1>10, <2>1 DEF Appending
  <2> QED
    BY <1>5, <1>6, <2>1, <2>2
<1>11. CASE ~IsStatusOf(item, key)
  <2>1. saved'[key] = saved[key]
    BY <1>1, <1>7, <1>11 DEF IsStatusOf
  <2> QED
    BY <1>5, <1>6, <1>11, <2>1
<1> QED
  BY <1>9, <1>10, <1>11

\* An item that follows the history keeps it in order.
LEMMA AppendingStep ==
    ASSUME TypeOK, HistoryInv, NEW item, Appending(item)
    PROVE  HistoryInv'
<1>1. /\ log \in Seq(Item) /\ item \in Item /\ log' = Append(log, item) /\ state \in LoopState
      /\ Follows(log, item) /\ InOrder(log) /\ Matches(log, Len(log), state) /\ Running'
  BY DEF TypeOK, StoreTypeOK, Appending, AppendItem, HistoryInv, Running
<1>2. /\ DOMAIN log = 1 .. Len(log) /\ Len(log) \in Nat /\ Len(log') = Len(log) + 1
      /\ log' \in Seq(Item) /\ DOMAIN log' = 1 .. (Len(log) + 1)
      /\ \A i \in 1 .. Len(log) : log'[i] = log[i]
      /\ log'[Len(log) + 1] = item /\ Len(log) + 1 \in DOMAIN log' /\ Len(log) \in 0 .. Len(log)
  BY <1>1, AppendedItems
<1>3. InOrder(log')
  BY <1>1, FollowingKeepsOrder
<1>4. Matches(log', Len(log), state)
  BY <1>1, <1>2, LaterItems
<1>5. Matches(log', Len(log) + 1, AddItem(state, item))
  BY <1>1, <1>2, <1>3, <1>4, NextItem
<1>6. Matches(log', Len(log'), state')
  BY <1>2, <1>5, OtherFields DEF Appending
<1>7. ASSUME NEW turn \in inflight', NEW i \in DOMAIN log', log'[i].kind = "response"
      PROVE  log'[i].turn # turn
  <2>1. CASE i = Len(log) + 1
    BY <1>2, <1>7, <2>1 DEF Appending
  <2>2. CASE i \in DOMAIN log /\ turn \in inflight
    BY <1>2, <1>7, <2>2 DEF HistoryInv
  <2>3. CASE i \in DOMAIN log /\ item.kind = "turn" /\ turn = item.turn
    <3>1. PICK j \in DOMAIN log : log[j].kind = "turn" /\ log[j].turn = log[i].turn
      <4>1. PICK j \in Own(log, i - 1) : log[j].kind = "turn" /\ log[j].turn = log[i].turn
        BY <1>1, <1>2, <1>7, <2>3 DEF InOrder, ResponsesFollowTurns
      <4>2. j \in 1 .. (i - 1) /\ 1 .. (i - 1) \subseteq DOMAIN log
        BY <1>2, <2>3 DEF Own
      <4> QED
        BY <4>1, <4>2
    <3>2. log[j].turn < item.turn
      BY <1>1, <2>3, <3>1 DEF Follows
    <3>3. log[j].turn \in Int
      BY <1>1, <3>1, ItemKinds DEF Turn
    <3> QED
      BY <1>2, <2>3, <3>1, <3>2, <3>3
  <2>4. turn \in inflight \/ (item.kind = "turn" /\ turn = item.turn)
    BY <1>1, <1>7, ItemKinds DEF Appending, Follows
  <2>5. i \in DOMAIN log \/ i = Len(log) + 1
    BY <1>2
  <2> QED
    BY <2>1, <2>2, <2>3, <2>4, <2>5
<1>8. ASSUME NEW turn \in inflight'
      PROVE  \E i \in Own(log', Len(log')) : log'[i].kind = "turn" /\ log'[i].turn = turn
  <2>1. /\ Own(log', Len(log')) = Own(log, Len(log)) \cup {Len(log) + 1}
        /\ Own(log, Len(log)) \subseteq DOMAIN log
    BY <1>1, NextAppendedOwn DEF Follows
  <2>2. CASE turn \in inflight
    <3>1. PICK i \in Own(log, Len(log)) : log[i].kind = "turn" /\ log[i].turn = turn
      BY <2>2 DEF HistoryInv
    <3> QED
      BY <1>2, <2>1, <3>1
  <2>3. CASE item.kind = "turn" /\ turn = item.turn
    BY <1>2, <2>1, <2>3
  <2>4. turn \in inflight \/ (item.kind = "turn" /\ turn = item.turn)
    BY <1>1, <1>8, ItemKinds DEF Appending, Follows
  <2> QED
    BY <2>2, <2>3, <2>4
<1> QED
  BY <1>1, <1>3, <1>6, <1>7, <1>8, FirstStatusIsSaved DEF HistoryInv, Running

\* The turn of the loop state is the latest of the history.
LEMMA LatestTurnIsStateTurn ==
    ASSUME TypeOK, HistoryInv, Running
    PROVE  LatestTurn(log) = state.turn
<1>1. log \in Seq(Item) /\ state.turn \in Nat /\ TurnsGrow(log) /\ TurnMatches(log, Len(log), state)
  BY MaxTurnAssumption DEF TypeOK, StoreTypeOK, LoopState, HistoryInv, InOrder, Matches, Running
<1>2. DOMAIN log = 1 .. Len(log) /\ Len(log) \in Nat
  BY <1>1
<1> DEFINE turns == {i \in DOMAIN log : log[i].kind = "turn"}
<1>3. \A i \in turns : log[i].turn \in Nat /\ log[i].turn > 0 /\ log[i].turn <= state.turn
  <2> SUFFICES ASSUME NEW i \in turns
               PROVE  log[i].turn \in Nat /\ log[i].turn > 0 /\ log[i].turn <= state.turn
    OBVIOUS
  <2>1. log[i].turn \in Turn
    BY <1>1, ItemKinds
  <2> QED
    BY <1>1, <1>2, <2>1, MaxTurnAssumption DEF TurnMatches, Turn
<1>4. CASE turns = {}
  BY <1>1, <1>2, <1>4 DEF LatestTurn, TurnMatches
<1>5. CASE turns # {}
  <2>1. state.turn # 0
    BY <1>1, <1>3, <1>5
  <2>2. PICK last \in turns : log[last].turn = state.turn
    BY <1>1, <1>2, <2>1 DEF TurnMatches
  <2>3. \A j \in turns : j <= last
    BY <1>1, <1>2, <1>3, <2>2 DEF TurnsGrow
  <2>4. \A i \in turns : (\A j \in turns : j <= i) => i = last
    BY <1>2, <2>2, <2>3
  <2>5. (CHOOSE i \in turns : \A j \in turns : j <= i) = last
    BY <2>2, <2>3, <2>4
  <2> QED
    BY <1>5, <2>2, <2>5 DEF LatestTurn
<1> QED
  BY <1>4, <1>5

\* What the coordinator appends is what the store accepts.
LEMMA AppendingIsAccepted ==
    ASSUME TypeOK, HistoryInv, NEW item, Appending(item)
    PROVE  /\ log' = Append(log, item) /\ log'[Len(log')] = item
           /\ AcceptsItem(log, item)
           /\ item.kind = "response" => item.turn = LatestTurn(log)
<1>1. /\ log \in Seq(Item) /\ item \in Item /\ log' = Append(log, item) /\ Running
      /\ Follows(log, item) /\ InOrder(log)
  BY DEF TypeOK, StoreTypeOK, Appending, AppendItem, HistoryInv
<1>2. log'[Len(log')] = item
  BY <1>1, AppendedItems
<1>3. LatestTurn(log) = state.turn
  BY <1>1, LatestTurnIsStateTurn
<1>6. /\ DOMAIN log = 1 .. Len(log) /\ Len(log) \in Nat
      /\ \A i \in Own(log, Len(log)) : i \in DOMAIN log /\ IsOwn(log, i)
  BY <1>1 DEF Own, IsOwn
<1>4. AcceptsItem(log, item)
  <2>1. CASE item.kind = "input"
    BY <2>1 DEF AcceptsItem
  <2>2. CASE item.kind = "turn"
    BY <1>3, <2>2 DEF AcceptsItem, Appending
  <2>3. CASE item.kind = "response"
    BY <1>1, <1>6, <2>3 DEF AcceptsItem, OwnsTurn, Follows
  <2>4. CASE item.kind = "status"
    <3>1. item.key \in Key /\ IsStatusOf(item, item.key)
      BY <1>1, <2>4, ItemKinds DEF IsStatusOf
    <3>2. PICK i \in Own(log, Len(log)) : MakesCall(log[i], item.key)
      BY <1>1, <3>1 DEF Follows
    <3>3. PICK j \in Own(log, i - 1) : log[j].kind = "turn" /\ log[j].turn = item.key[1]
      BY <1>1, <1>6, <3>2 DEF InOrder, ResponsesFollowTurns, MakesCall
    <3>4. j \in Own(log, Len(log))
      BY <1>6, OwnBefore
    <3> QED
      BY <1>6, <2>4, <3>3, <3>4 DEF AcceptsItem, OwnsTurn
  <2> QED
    BY <1>1, <2>1, <2>2, <2>3, <2>4, ItemKinds DEF Follows
<1>5. item.kind = "response" => item.turn = LatestTurn(log)
  BY <1>3 DEF Appending
<1> QED
  BY <1>1, <1>2, <1>4, <1>5
-----------------------------------------------------------------------------
(* Which steps append.                                                     *)

\* The translation of a new call is its first status.
LEMMA ScheduleAppends ==
    ASSUME TypeOK, HistoryInv, NEW key \in Key, ScheduleToolCall(key)
    PROVE  \E item : Appending(item)
<1>1. PICK ops \in Translation : Record([kind |-> "status", key |-> key, ops |-> ops])
  BY DEF ScheduleToolCall
<1> DEFINE item == [kind |-> "status", key |-> key, ops |-> ops]
<1>2. ops \in Snapshot
  BY DEF Translation, Snapshot, OpStatus, Unfinished
<1>3. item \in Item /\ IsStatusOf(item, key) /\ \A other \in Key \ {key} : ~IsStatusOf(item, other)
  BY <1>2 DEF Item, StatusItem, IsStatusOf
<1>4. /\ Running /\ Running' /\ inflight' = inflight /\ state.calls[key] = "new"
      /\ state' = AddItem(state, item) /\ AppendItem(item)
      /\ item.kind = "status" /\ item.key = key
  BY <1>1 DEF ScheduleToolCall, Running, Record, NewCalls
<1>5. DOMAIN log = 1 .. Len(log)
  BY DEF TypeOK, StoreTypeOK
<1>6. /\ \E i \in Own(log, Len(log)) : MakesCall(log[i], key)
      /\ \A i \in DOMAIN log : ~IsStatusOf(log[i], key)
  BY <1>4, <1>5 DEF HistoryInv, Matches, CallsMatch, Running
<1>8. ~AreInherited(item.ops)
  BY DEF AreInherited, Translation
<1> HIDE DEF item
<1>7. Follows(log, item)
  BY <1>3, <1>4, <1>6, <1>8 DEF Follows
<1> QED
  BY <1>3, <1>4, <1>6, <1>7 DEF Appending, SameCounts

\* The final status of a call has the operations of all the earlier ones.
LEMMA ReconcileAppends ==
    ASSUME TypeOK, HistoryInv, NEW key \in Key, ReconcileToolCall(key)
    PROVE  \E item : Appending(item)
<1> DEFINE item == [kind |-> "status", key |-> key, ops |-> state.ops[key]]
<1>1. state.ops[key] \in Snapshot
  BY DEF TypeOK, LoopState
<1>2. item \in Item /\ IsStatusOf(item, key) /\ \A other \in Key \ {key} : ~IsStatusOf(item, other)
  BY <1>1 DEF Item, StatusItem, IsStatusOf
<1>3. /\ Running /\ Running' /\ inflight' = inflight /\ state.calls[key] = "waiting"
      /\ state' = AddItem(state, item) /\ AppendItem(item)
      /\ item.kind = "status" /\ item.key = key /\ item.ops = state.ops[key]
  BY DEF ReconcileToolCall, Running, Record
<1> HIDE DEF item
<1>4. DOMAIN log = 1 .. Len(log)
  BY DEF TypeOK, StoreTypeOK
<1>5. /\ \E i \in Own(log, Len(log)) : MakesCall(log[i], key)
      /\ \A i \in DOMAIN log : IsStatusOf(log[i], key) => ~IsResult(log[i])
      /\ log \in Seq(Item) /\ InOrder(log) /\ OpsMatch(log, Len(log), state.ops)
  BY <1>3, <1>4 DEF HistoryInv, Matches, CallsMatch, Running, TypeOK, StoreTypeOK
<1>6. \A slot \in Slot : item.ops[slot] # "none" <=> Mentions(log, Len(log), key, slot)
  BY <1>3, <1>5 DEF OpsMatch
<1>7. ASSUME NEW i \in DOMAIN log, IsStatusOf(log[i], key)
      PROVE  Mentioned(log[i].ops) \subseteq Mentioned(item.ops)
  <2>1. i \in Own(log, Len(log))
    BY <1>4, <1>5, <1>7, OwnStatuses
  <2> QED
    BY <1>6, <1>7, <2>1 DEF Mentions, Mentioned
<1>9. ~AreInherited(item.ops)
  BY <1>3, <1>5, NothingIsMissing DEF AreInherited
<1>8. Follows(log, item)
  BY <1>2, <1>3, <1>5, <1>7, <1>9 DEF Follows
<1> QED
  BY <1>2, <1>3, <1>6, <1>8 DEF Appending, SameCounts

\* Clearing the grace period and asking for the model leave the turn and the calls alone.
LEMMA GraceAndModelOnly ==
    ASSUME NEW s \in LoopState, NEW call
    PROVE  /\ ClearToolGrace(s).turn = s.turn /\ ClearToolGrace(s).calls = s.calls
           /\ ClearToolGrace(s).ops = s.ops /\ SameCounts(s, ClearToolGrace(s))
           /\ SameCounts(s, [s EXCEPT !.callModel = call])
           /\ [s EXCEPT !.callModel = call].turn = s.turn
           /\ [s EXCEPT !.callModel = call].calls = s.calls
           /\ [s EXCEPT !.callModel = call].ops = s.ops
BY DEF ClearToolGrace, LoopState, SameCounts

\* Inputs and turns leave the calls alone.
LEMMA ItemKeepsCalls ==
    ASSUME NEW s \in LoopState, NEW item \in Item, item.kind \in {"input", "turn"}
    PROVE  AddItem(s, item).calls = s.calls
BY ItemKinds DEF AddItem, AddInput, AddTurn, LoopState

\* A request of the running loop appends the next turn.
LEMMA RequestAppends ==
    ASSUME TypeOK, HistoryInv, Running, Running', RequestModelResponse(state)
    PROVE  (\E item : Appending(item)) /\ state'.calls = state.calls
<1> DEFINE item == [kind |-> "turn", turn |-> state.turn + 1]
           next == AddItem(state, item)
<1>1. /\ item \in Item /\ item.kind = "turn" /\ item.turn = state.turn + 1
      /\ state \in LoopState /\ state.turn \in Nat /\ log \in Seq(Item)
  BY MaxTurnAssumption DEF TypeOK, StoreTypeOK, RequestModelResponse, LoopState, Turn, Item, TurnItem
<1>2. /\ AppendItem(item) /\ inflight' = inflight \cup {item.turn}
      /\ state' = [ClearToolGrace(next) EXCEPT !.callModel = FALSE]
  BY DEF RequestModelResponse
<1> HIDE DEF item
<1>3. next \in LoopState
  BY <1>1, AddItemType
<1> HIDE DEF next
<1>4. /\ state'.turn = next.turn /\ state'.calls = next.calls /\ state'.ops = next.ops
      /\ SameCounts(next, state')
  BY <1>2, <1>3, ClearToolGraceType, GraceAndModelOnly DEF SameCounts
<1>5. Follows(log, item)
  <2> SUFFICES ASSUME NEW i \in DOMAIN log, log[i].kind = "turn"
               PROVE  log[i].turn < item.turn
    BY <1>1 DEF Follows, IsStatusOf
  <2>1. log[i].turn \in Turn /\ log[i].turn <= state.turn
    BY <1>1, ItemKinds DEF HistoryInv, Matches, TurnMatches, Running
  <2> QED
    BY <1>1, <2>1, MaxTurnAssumption DEF Turn
<1>6. next.calls = state.calls
  BY <1>1, ItemKeepsCalls DEF next
<1> QED
  BY <1>1, <1>2, <1>4, <1>5, <1>6 DEF Appending, next

\* An input may always follow.
LEMMA InputAppends ==
    ASSUME TypeOK, HistoryInv, ReceiveInput
    PROVE  (\E item : Appending(item)) /\ state'.calls = state.calls
<1>1. PICK input \in Input :
        /\ state' = AfterInput(AddItem(state, [kind |-> "input", input |-> input]), input)
        /\ AppendItem([kind |-> "input", input |-> input])
  BY DEF ReceiveInput
<1> DEFINE item == [kind |-> "input", input |-> input]
           next == AddItem(state, item)
           kept == IF input.kind = "control" /\ input.mode = "settings" THEN next ELSE ClearToolGrace(next)
<1>2. item \in Item /\ item.kind = "input" /\ Follows(log, item)
  BY DEF Item, InputItem, Follows, IsStatusOf
<1>3. next \in LoopState
  BY <1>2, AddItemType DEF TypeOK
<1>4. state' = [kept EXCEPT !.callModel = kept.callModel \/ input.kind = "external"]
  BY <1>1 DEF AfterInput
<1> HIDE DEF item, next
<1>5. /\ kept \in LoopState /\ kept.turn = next.turn /\ kept.calls = next.calls
      /\ kept.ops = next.ops /\ SameCounts(next, kept)
  BY <1>3, ClearToolGraceType, GraceAndModelOnly DEF SameCounts
<1> HIDE DEF kept
<1>6. /\ state'.turn = next.turn /\ state'.calls = next.calls /\ state'.ops = next.ops
      /\ SameCounts(next, state')
  BY <1>4, <1>5, GraceAndModelOnly DEF SameCounts
<1>7. Running /\ Running' /\ inflight' = inflight
  BY DEF ReceiveInput, Running
<1>8. next.calls = state.calls
  BY <1>2, ItemKeepsCalls DEF next, TypeOK
<1> QED
  BY <1>1, <1>2, <1>6, <1>7, <1>8 DEF Appending, item, next

\* A response that is not stale answers the turn of the loop state, which none has.
LEMMA ResponseAppends ==
    ASSUME TypeOK, HistoryInv, ReceiveResponse
    PROVE  \E item : Appending(item)
<1>1. PICK turn \in inflight, calls \in SUBSET Call :
        /\ ~IsStale(turn)
        /\ inflight' = inflight \ {turn}
        /\ Record([kind |-> "response", turn |-> turn, calls |-> calls])
  BY DEF ReceiveResponse
<1> DEFINE item == [kind |-> "response", turn |-> turn, calls |-> calls]
<1>2. item \in Item /\ item.kind = "response" /\ item.turn = turn
  BY DEF TypeOK, Item, ResponseItem
<1>3. turn = state.turn /\ turn # 0
  BY <1>1, MaxTurnAssumption DEF IsStale, TypeOK, Turn
<1>4. Running /\ Running'
  BY DEF ReceiveResponse, Running
<1>5. DOMAIN log = 1 .. Len(log)
  BY DEF TypeOK, StoreTypeOK
<1>6. /\ \E i \in Own(log, Len(log)) : log[i].kind = "turn" /\ log[i].turn = turn
      /\ \A i \in DOMAIN log : log[i].kind = "response" => log[i].turn # turn
      /\ \A i \in DOMAIN log : log[i].kind = "turn" => log[i].turn <= turn
  BY <1>1, <1>3, <1>4, <1>5 DEF HistoryInv, Matches, TurnMatches, Running
<1>7. state' = AddItem(state, item) /\ AppendItem(item)
  BY <1>1 DEF Record
<1> HIDE DEF item
<1>8. Follows(log, item)
  BY <1>2, <1>6 DEF Follows, IsStatusOf
<1> QED
  BY <1>1, <1>2, <1>3, <1>4, <1>7, <1>8 DEF Appending, SameCounts

-----------------------------------------------------------------------------
(* The steps that append nothing.                                          *)

\* Steps of a running loop that leave alone what the invariant is about.
LEMMA QuietStep ==
    ASSUME HistoryInv, Running, Running', UNCHANGED storeVars, inflight' \subseteq inflight,
           state'.turn = state.turn, state'.calls = state.calls, state'.ops = state.ops,
           SameCounts(state, state')
    PROVE  HistoryInv'
<1>1. Matches(log, Len(log), state')
  BY OtherFields DEF HistoryInv, Running
<1> QED
  BY <1>1 DEF HistoryInv, Running, storeVars

\* The steps that start or replay: a process replays the history from its first item.
LEMMA ReplayStep ==
    ASSUME TypeOK, HistoryInv, Crash \/ Restart \/ RestoreItem \/ Restored
    PROVE  HistoryInv' /\ UNCHANGED storeVars
<1>0. log \in Seq(Item) /\ saved \in [Key -> Snapshot] /\ state \in LoopState /\ cursor \in Nat
  BY DEF TypeOK, StoreTypeOK
<1>1. CASE Crash
  BY <1>1 DEF Crash, NewProcess, HistoryInv, storeVars
<1>2. CASE Restart
  <2>1. Matches(log, 0, NewLoopState) /\ 0 \in 0 .. Len(log)
    BY <1>0, NothingMatches
  <2> QED
    BY <1>2, <2>1 DEF Restart, NewProcess, HistoryInv, storeVars
<1>3. CASE RestoreItem
  <2>1. cursor + 1 \in DOMAIN log /\ cursor + 1 \in 0 .. Len(log)
    BY <1>0, <1>3 DEF RestoreItem
  <2>2. InOrder(log) /\ Matches(log, cursor, state)
    BY <1>3 DEF RestoreItem, HistoryInv
  <2>3. Matches(log, cursor + 1, AddItem(state, log[cursor + 1]))
    BY <1>0, <2>1, <2>2, NextItem
  <2> QED
    BY <1>3, <2>1, <2>3 DEF RestoreItem, HistoryInv, storeVars
<1>4. CASE Restored
  <2>1. Matches(log, Len(log), state) /\ OpsMatch(log, Len(log), saved)
    BY <1>4 DEF Restored, HistoryInv
  <2> DEFINE ops == [key \in Key |-> [slot \in Slot |->
                       IF IsResumed(key, slot) THEN saved[key][slot] ELSE state.ops[key][slot]]]
  <2>2. \A key \in Key, slot \in Slot :
          /\ ops[key][slot] # "none" <=> state.ops[key][slot] # "none"
          /\ ops[key][slot] = "inherited" => state.ops[key][slot] = "inherited"
    <3> SUFFICES ASSUME NEW key \in Key, NEW slot \in Slot
                 PROVE  /\ ops[key][slot] # "none" <=> state.ops[key][slot] # "none"
                        /\ ops[key][slot] = "inherited" => state.ops[key][slot] = "inherited"
      OBVIOUS
    <3>1. saved[key][slot] # "none" <=> state.ops[key][slot] # "none"
      BY <2>1 DEF Matches, OpsMatch
    <3>2. IsResumed(key, slot) => saved[key][slot] \notin {"none", "inherited"}
      BY DEF IsResumed, Unfinished, Finished
    <3>3. ops[key][slot] = IF IsResumed(key, slot) THEN saved[key][slot] ELSE state.ops[key][slot]
      OBVIOUS
    <3> QED
      BY <3>1, <3>2, <3>3
  <2>3. state' = [state EXCEPT !.ops = ops]
    BY <1>4 DEF Restored, RestoreOperations
  <2> HIDE DEF ops
  <2>4. /\ state'.turn = state.turn /\ state'.calls = state.calls /\ state'.ops = ops
        /\ SameCounts(state, state')
    BY <1>0, <2>3 DEF LoopState, SameCounts
  <2>5. Matches(log, Len(log), state')
    BY <2>1, <2>2, <2>4, OtherFields
  <2> QED
    BY <1>4, <2>5 DEF Restored, HistoryInv, storeVars
<1> QED
  BY <1>1, <1>2, <1>3, <1>4

\* A fork starts over, with a part of the history.
LEMMA ForkStep ==
    ASSUME TypeOK, HistoryInv, OpenFork
    PROVE  HistoryInv'
<1>1. PICK m \in 1 .. Len(log) : IsForkOf(log', log, m)
  BY OpenedFork
<1>2. log \in Seq(Item) /\ InOrder(log) /\ saved' = [key \in Key |-> NoSnapshot]
  BY OpenedFork DEF TypeOK, StoreTypeOK, HistoryInv
<1>3. InOrder(log')
  BY <1>1, <1>2, ForkKeepsOrder
<1>4. log' \in Seq(Item) /\ Len(log') = m + 1 /\ log'[m + 1].kind = "fork" /\ m \in Nat
  BY <1>1 DEF IsForkOf
<1>5. Own(log', Len(log')) = {}
  BY <1>4, NextOwn
<1>6. OpsMatch(log', Len(log'), saved')
  BY <1>2, <1>5 DEF OpsMatch, Mentions, NoSnapshot
<1>7. Matches(log', 0, NewLoopState) /\ 0 \in 0 .. Len(log')
  BY <1>4, NothingMatches
<1>8. pc' = "load" /\ cursor' = 0 /\ state' = NewLoopState /\ inflight' = {}
  BY DEF OpenFork, NewProcess
<1> QED
  BY <1>3, <1>6, <1>7, <1>8 DEF HistoryInv

\* An update is about an operation that is unfinished in the loop state, hence one that
\* a status has mentioned and the store knows.
LEMMA UpdateStep ==
    ASSUME TypeOK, StopInv, HistoryInv, ReceiveUpdate
    PROVE  /\ HistoryInv' /\ log' = log /\ state'.calls = state.calls
           /\ \A key \in Key, slot \in Slot :
                 saved'[key][slot] # saved[key][slot] => saved[key][slot] # "none"
<1>1. PICK key \in Key, slot \in Slot, status \in OpStatus :
        /\ DeliverUpdate([op |-> <<key, slot>>, status |-> status])
        /\ state' = [state EXCEPT !.ops[key][slot] = status]
        /\ SaveOperation(key, slot, status)
  BY DEF ReceiveUpdate
<1>2. /\ log' = log /\ inflight' = inflight /\ Running /\ Running'
      /\ saved' = [saved EXCEPT ![key][slot] = status]
  BY <1>1 DEF SaveOperation, ReceiveUpdate, Running
<1>3. /\ state.ops \in [Key -> Snapshot] /\ saved \in [Key -> Snapshot]
      /\ state'.turn = state.turn /\ state'.calls = state.calls /\ SameCounts(state, state')
      /\ state'.ops = [state.ops EXCEPT ![key][slot] = status]
  BY <1>1 DEF TypeOK, StoreTypeOK, LoopState, SameCounts
<1>4. <<key, slot>> \in UnfinishedOps(state)
  <2>1. updates # <<>> /\ updates[1].op = <<key, slot>>
    BY <1>1 DEF DeliverUpdate, TypeOK, ManagerTypeOK
  <2>2. 1 \in DOMAIN updates
    BY <2>1 DEF TypeOK, ManagerTypeOK
  <2> QED
    BY <2>1, <2>2 DEF StopInv, WorkIsUnfinished
<1>5. state.ops[key][slot] # "none" /\ status \notin {"none", "inherited"}
  BY <1>4 DEF UnfinishedOps, Unfinished, Finished, OpStatus
<1>6. saved[key][slot] # "none"
  BY <1>2, <1>5 DEF HistoryInv, Matches, OpsMatch, Running
<1>7. \A other \in Key, place \in Slot :
        /\ state'.ops[other][place] # "none" <=> state.ops[other][place] # "none"
        /\ state'.ops[other][place] = "inherited" => state.ops[other][place] = "inherited"
        /\ saved'[other][place] # "none" <=> saved[other][place] # "none"
        /\ saved'[other][place] = "inherited" => saved[other][place] = "inherited"
        /\ saved'[other][place] # saved[other][place] => saved[other][place] # "none"
  BY <1>2, <1>3, <1>5, <1>6 DEF Snapshot
<1>8. Matches(log, Len(log), state')
  <2>1. Matches(log, Len(log), state)
    BY <1>2 DEF HistoryInv, Running
  <2>2. \A other \in Key, place \in Slot :
          /\ state'.ops[other][place] # "none" <=> state.ops[other][place] # "none"
          /\ state'.ops[other][place] = "inherited" => state.ops[other][place] = "inherited"
    BY <1>7
  <2> QED
    BY <1>3, <2>1, <2>2, OtherFields
<1>9. OpsMatch(log, Len(log), saved')
  BY <1>7 DEF HistoryInv, OpsMatch
<1> QED
  BY <1>2, <1>3, <1>7, <1>8, <1>9 DEF HistoryInv, Running

\* Every other step leaves the history and the fields that match it alone.
LEMMA OtherStep ==
    ASSUME TypeOK, HistoryInv,
           \/ StartScheduled \/ LoopTop \/ HeartbeatFires \/ GraceFires \/ DropResponse \/ Scheduled
           \/ SlurpedInputs \/ SlurpedUpdates \/ EventsProcessed \/ HandleStop \/ StopWhenIdle
           \/ Continue \/ ClientSubmits \/ OperationReports \/ (\E op \in Op : OperationFinishes(op))
           \/ UNCHANGED vars
    PROVE  HistoryInv' /\ UNCHANGED storeVars /\ state'.calls = state.calls
<1>1. CASE ClientSubmits \/ OperationReports \/ (\E op \in Op : OperationFinishes(op)) \/ UNCHANGED vars
  <2>1. UNCHANGED <<log, saved, inflight, pc, cursor, state>>
    BY <1>1 DEF ClientSubmits, OperationReports, OperationFinishes, runVars, storeVars, vars
  <2> QED
    BY <2>1 DEF HistoryInv, storeVars
<1>2. CASE GraceFires
  <2>1. Running /\ Running' /\ UNCHANGED storeVars /\ inflight' = inflight
    BY <1>2 DEF GraceFires, Running
  <2>2. /\ state'.turn = state.turn /\ state'.calls = state.calls /\ state'.ops = state.ops
        /\ SameCounts(state, state')
    BY <1>2, GraceAndModelOnly DEF GraceFires, TypeOK
  <2> QED
    BY <2>1, <2>2, QuietStep
<1>3. CASE Scheduled
  <2> DEFINE required == BatchRequiresModel
             decided  == [state EXCEPT !.callModel = required]
             grace    == decided.graceCalls \cup batch
  <2>1. /\ decided \in LoopState /\ decided.ops = state.ops /\ decided.turn = state.turn
        /\ decided.calls = state.calls /\ SameCounts(state, decided)
    <3>1. required \in BOOLEAN
      BY DEF BatchRequiresModel
    <3> HIDE DEF required
    <3> QED
      BY <3>1 DEF TypeOK, LoopState, SameCounts
  <2>2. LET timed == [decided EXCEPT !.graceCalls = grace, !.grace = "armed"]
        IN  /\ timed.ops = decided.ops /\ timed.turn = decided.turn /\ timed.calls = decided.calls
            /\ SameCounts(decided, timed)
    <3> HIDE DEF decided, grace
    <3> QED
      BY <2>1 DEF LoopState, SameCounts
  <2>3. Running /\ Running' /\ UNCHANGED storeVars /\ inflight' = inflight
    BY <1>3 DEF Scheduled, Running
  <2>4. /\ state'.turn = state.turn /\ state'.calls = state.calls /\ state'.ops = state.ops
        /\ SameCounts(state, state')
    BY <1>3, <2>1, <2>2 DEF Scheduled, SameCounts
  <2> QED
    BY <2>3, <2>4, QuietStep
<1>4. CASE \/ StartScheduled \/ LoopTop \/ HeartbeatFires \/ DropResponse \/ SlurpedInputs
           \/ SlurpedUpdates \/ EventsProcessed \/ HandleStop \/ StopWhenIdle \/ Continue
  <2>1. Running /\ Running'
    BY <1>4 DEF StartScheduled, LoopTop, HeartbeatFires, DropResponse, SlurpedInputs,
       SlurpedUpdates, EventsProcessed, HandleStop, StopWhenIdle, Continue, Running
  <2>2. UNCHANGED storeVars /\ state' = state /\ inflight' \subseteq inflight
    BY <1>4 DEF StartScheduled, LoopTop, HeartbeatFires, DropResponse, SlurpedInputs,
       SlurpedUpdates, EventsProcessed, HandleStop, StopWhenIdle, Continue
  <2> QED
    BY <2>1, <2>2, QuietStep DEF SameCounts
<1> QED
  BY <1>1, <1>2, <1>3, <1>4

\* A step appends one item that may follow the history, takes an update, opens a fork, or
\* leaves the history alone; the invariant goes on holding.
LEMMA HistoryStep ==
    ASSUME TypeOK, StopInv, HistoryInv, [Next]_vars
    PROVE  /\ HistoryInv'
           /\ (\E item : Appending(item)) \/ ReceiveUpdate \/ OpenFork \/ UNCHANGED storeVars
<1>1. CASE \E item : Appending(item)
  BY <1>1, AppendingStep
<1>2. CASE (\E key \in Key : ScheduleToolCall(key)) \/ (\E key \in Key : ReconcileToolCall(key))
           \/ ReceiveInput \/ ReceiveResponse
  BY <1>1, <1>2, ScheduleAppends, ReconcileAppends, InputAppends, ResponseAppends
<1>3. CASE StartLoop \/ CallModel
  <2>1. Running /\ Running'
    BY <1>3 DEF StartLoop, CallModel, Running
  <2>2. CASE RequestModelResponse(state)
    BY <1>1, <2>1, <2>2, RequestAppends
  <2>3. CASE ~RequestModelResponse(state)
    <3>1. UNCHANGED <<storeVars, state, inflight>>
      BY <1>3, <2>3 DEF StartLoop, CallModel
    <3> QED
      BY <2>1, <3>1, QuietStep DEF SameCounts
  <2> QED
    BY <2>2, <2>3
<1>4. CASE ReceiveUpdate
  BY <1>4, UpdateStep
<1>5. CASE Crash \/ Restart \/ RestoreItem \/ Restored
  BY <1>5, ReplayStep
<1>6. CASE \/ StartScheduled \/ LoopTop \/ HeartbeatFires \/ GraceFires \/ DropResponse \/ Scheduled
           \/ SlurpedInputs \/ SlurpedUpdates \/ EventsProcessed \/ HandleStop \/ StopWhenIdle
           \/ Continue \/ ClientSubmits \/ OperationReports \/ (\E op \in Op : OperationFinishes(op))
           \/ UNCHANGED vars
  BY <1>6, OtherStep
<1>7. CASE OpenFork
  BY <1>7, ForkStep
<1> QED
  BY <1>2, <1>3, <1>4, <1>5, <1>6, <1>7 DEF Next, RunStep

-----------------------------------------------------------------------------
(* How far a round of the loop has come with the calls.                    *)

\* No call is left without a status when the loop runs, nor without its result when a
\* round is over, and a hard stop ends Run with no operation unfinished.
StageInv ==
    /\ pc \in InLoop \cup {"startReconcile", "stopped"} => NewCalls(state) = {}
    /\ pc = "decide" => Reconciled
    /\ pc = "stopped" /\ stop = "hard" => Reconciled /\ UnfinishedOps(state) = {}

\* The first process has nothing to do.
LEMMA StageInit == Init => StageInv
BY DEF Init, StageInv, InLoop

\* The steps that may change the calls of the loop state.
LEMMA CallsStep ==
    ASSUME TypeOK, StopInv, HistoryInv, [Next]_vars
    PROVE  \/ state'.calls = state.calls
           \/ Crash \/ Restart \/ OpenFork \/ RestoreItem \/ Restored \/ ReceiveResponse
           \/ (\E key \in Key : ScheduleToolCall(key))
           \/ (\E key \in Key : ReconcileToolCall(key))
<1>1. CASE StartLoop \/ CallModel
  <2>1. Running /\ Running'
    BY <1>1 DEF StartLoop, CallModel, Running
  <2>2. RequestModelResponse(state) \/ state' = state
    BY <1>1 DEF StartLoop, CallModel
  <2> QED
    BY <2>1, <2>2, RequestAppends
<1>2. CASE ReceiveInput
  BY <1>2, InputAppends
<1>3. CASE ReceiveUpdate
  BY <1>3, UpdateStep
<1>4. CASE \/ StartScheduled \/ LoopTop \/ HeartbeatFires \/ GraceFires \/ DropResponse \/ Scheduled
           \/ SlurpedInputs \/ SlurpedUpdates \/ EventsProcessed \/ HandleStop \/ StopWhenIdle
           \/ Continue \/ ClientSubmits \/ OperationReports \/ (\E op \in Op : OperationFinishes(op))
           \/ UNCHANGED vars
  BY <1>4, OtherStep
<1> QED
  BY <1>1, <1>2, <1>3, <1>4 DEF Next, RunStep

\* A call stays without a result only as long as the loop has something to do about it.
LEMMA StageStep ==
    ASSUME TypeOK, StopInv, HistoryInv, StageInv, [Next]_vars
    PROVE  StageInv'
<1> USE DEF StageInv
<1>1. CASE Crash \/ Restart \/ OpenFork \/ RestoreItem \/ Restored \/ ReceiveResponse
           \/ (\E key \in Key : ScheduleToolCall(key))
  BY <1>1 DEF Crash, Restart, OpenFork, RestoreItem, Restored, ReceiveResponse, ScheduleToolCall, InLoop
<1>2. ASSUME NEW key \in Key, ReconcileToolCall(key)
      PROVE  StageInv'
  <2>1. /\ pc \in {"startReconcile", "reconcile"} /\ pc' = pc
        /\ state.calls[key] = "waiting" /\ state \in LoopState
        /\ state' = AddItem(state, [kind |-> "status", key |-> key, ops |-> state.ops[key]])
    BY <1>2 DEF ReconcileToolCall, Record, TypeOK
  <2>2. state.ops[key] \in Snapshot
    BY <2>1 DEF LoopState
  <2>3. /\ \A other \in Key \ {key} : state'.calls[other] = state.calls[other]
        /\ state'.calls[key] # "new"
    BY <2>1, <2>2, StatusSetsCalls
  <2> QED
    BY <2>1, <2>3 DEF NewCalls, InLoop
<1>3. CASE state'.calls = state.calls /\ ~(Crash \/ Restart \/ OpenFork \/ RestoreItem \/ Restored
           \/ ReceiveResponse \/ \E key \in Key : ScheduleToolCall(key))
           /\ ~(\E key \in Key : ReconcileToolCall(key))
  <2>1. NewCalls(state') = NewCalls(state)
    BY <1>3 DEF NewCalls
  <2>2. CASE UNCHANGED <<pc, state, stop>>
    BY <2>2 DEF Reconciled
  <2>3. CASE StartScheduled \/ StartLoop \/ LoopTop \/ ReceiveInput \/ ReceiveUpdate
             \/ HeartbeatFires \/ GraceFires \/ DropResponse \/ Scheduled \/ SlurpedInputs
             \/ SlurpedUpdates \/ CallModel \/ Continue
    <3>1. pc' \notin {"decide", "stopped"}
      BY <2>3 DEF StartScheduled, StartLoop, LoopTop, ReceiveInput, ReceiveUpdate,
         HeartbeatFires, GraceFires, DropResponse, Scheduled, SlurpedInputs, SlurpedUpdates,
         CallModel, Continue
    <3>2. NewCalls(state) = {}
      BY <2>3 DEF StartScheduled, StartLoop, LoopTop, ReceiveInput, ReceiveUpdate,
         HeartbeatFires, GraceFires, DropResponse, Scheduled, SlurpedInputs, SlurpedUpdates,
         CallModel, Continue, InLoop
    <3> QED
      BY <2>1, <3>1, <3>2
  <2>4. CASE EventsProcessed \/ HandleStop \/ StopWhenIdle
    <3>1. /\ state' = state /\ stop' = stop /\ pc \in {"reconcile", "decide"}
          /\ pc' \in {"decide", "stopped", "top"}
          /\ pc' = "decide" \/ pc' = "stopped" => Reconciled
          /\ pc' = "stopped" /\ stop = "hard" => UnfinishedOps(state) = {}
      BY <2>4 DEF EventsProcessed, HandleStop, StopWhenIdle
    <3> QED
      BY <2>1, <3>1 DEF Reconciled, UnfinishedOps, InLoop
  <2>5. CASE ClientSubmits \/ OperationReports \/ (\E op \in Op : OperationFinishes(op))
             \/ UNCHANGED vars
    BY <2>2, <2>5 DEF ClientSubmits, OperationReports, OperationFinishes, runVars, vars
  <2> QED
    BY <1>3, <2>3, <2>4, <2>5 DEF Next, RunStep
<1> QED
  BY <1>1, <1>2, <1>3, CallsStep

-----------------------------------------------------------------------------
(* Theorems.                                                               *)

\* The history and the loop state match in every reachable state.
LEMMA History == Spec => [](TypeOK /\ StopInv /\ HistoryInv)
<1>1. TypeOK /\ DispatchInv /\ StopInv /\ [Next]_vars => StopInv'
  BY ManagerIsNewStep, OnlyWaitingStep, WorkStep DEF StopInv
<1>2. TypeOK /\ DispatchInv /\ [Next]_vars => DispatchInv'
  BY DispatchQueue, DispatchLoop, DispatchSchedule DEF DispatchInv
<1>3. TypeOK /\ StopInv /\ HistoryInv /\ [Next]_vars => HistoryInv'
  BY HistoryStep
<1> QED
  BY <1>1, <1>2, <1>3, Typing, DispatchInit, StopInit, HistoryInit, PTL DEF Spec

\* A call gets at most one result, and no status after it, however often the session is
\* resumed: the result that a crash interrupted is neither lost nor recorded twice.
THEOREM OneResult == Spec => []OneResultPerCall
<1>1. TypeOK /\ HistoryInv => OneResultPerCall
  <2> SUFFICES ASSUME TypeOK, HistoryInv, NEW key \in Key, NEW i \in StatusesOf(key),
                      NEW j \in StatusesOf(key), IsResult(log[i])
               PROVE  j <= i
    BY DEF OneResultPerCall
  <2>1. /\ i \in DOMAIN log /\ j \in DOMAIN log
        /\ IsStatusOf(log[i], key) /\ IsStatusOf(log[j], key)
    BY DEF StatusesOf, ItemsOf, IsStatusOf
  <2>2. ~(i < j)
    BY <2>1 DEF HistoryInv, InOrder, ResultsAreLast
  <2>3. i \in Int /\ j \in Int
    BY <2>1 DEF TypeOK, StoreTypeOK
  <2> QED
    BY <2>2, <2>3
<1> QED
  BY <1>1, History, PTL

\* The store accepts every append of the coordinator and every operation it saves, in a
\* forked session too, so that none of them ends Run; and a response always answers the latest turn.
THEOREM Acceptance == Spec => AppendsAreAccepted
<1> DEFINE Accepted ==
             /\ log' # log =>
                   LET item == log'[Len(log')]
                   IN  item.kind = "fork" \/
                       /\ AcceptsItem(log, item)
                       /\ item.kind = "response" => item.turn = LatestTurn(log)
             /\ \A key \in Key, slot \in Slot :
                   saved'[key][slot] # saved[key][slot] /\ log' = log => AcceptsOperation(key, slot)
<1>1. TypeOK /\ StopInv /\ HistoryInv /\ [Next]_vars => [Accepted]_storeVars
  <2> SUFFICES ASSUME TypeOK, StopInv, HistoryInv, [Next]_vars, ~UNCHANGED storeVars
               PROVE  Accepted
    OBVIOUS
  <2>1. CASE ReceiveUpdate
    BY <2>1, UpdateStep DEF AcceptsOperation
  <2>2. ASSUME NEW item, Appending(item)
        PROVE  Accepted
    <3>1. /\ log' = Append(log, item) /\ log'[Len(log')] = item
          /\ AcceptsItem(log, item)
          /\ item.kind = "response" => item.turn = LatestTurn(log)
      BY <2>2, AppendingIsAccepted
    <3>2. log' # log
      BY <2>2, <3>1, AppendedItems DEF TypeOK, StoreTypeOK, Appending
    <3> QED
      BY <3>1, <3>2
  <2>3. CASE OpenFork
    <3>1. PICK m \in 1 .. Len(log) : IsForkOf(log', log, m)
      BY <2>3, OpenedFork
    <3>2. log'[Len(log')].kind = "fork"
      BY <3>1 DEF IsForkOf
    <3>3. \A key \in Key, slot \in Slot : saved'[key][slot] = "none"
      BY <2>3, OpenedFork DEF NoSnapshot
    <3> QED
      BY <3>2, <3>3 DEF AcceptsOperation
  <2> QED
    BY <2>1, <2>2, <2>3, HistoryStep
<1> QED
  BY <1>1, History, PTL DEF Spec, AppendsAreAccepted

\* Run ends on a hard stop only when no operation runs, and with the result of every
\* call that was made to the session itself, not to one that it was forked from: no such
\* call is left for the next process to finish.
THEOREM HardStop == Spec => []HardStopIsComplete
<1>1. TypeOK /\ StopInv /\ HistoryInv /\ StageInv => HardStopIsComplete
  <2> SUFFICES ASSUME TypeOK, StopInv, HistoryInv, StageInv, pc = "stopped", stop = "hard"
               PROVE  running = {} /\ \A key \in OwnCalls : HasResult(key)
    BY DEF HardStopIsComplete
  <2>1. UnfinishedOps(state) = {} /\ NewCalls(state) = {} /\ Reconciled
    BY DEF StageInv
  <2>2. running = {}
    BY <2>1 DEF StopInv, WorkIsUnfinished
  <2>3. ASSUME NEW key \in OwnCalls, ~HasResult(key)
        PROVE  FALSE
    <3>1. key \in Key /\ state.ops[key] \in Snapshot /\ DOMAIN log = 1 .. Len(log)
          /\ state.calls \in [Key -> {"none", "new", "waiting"}]
      BY DEF OwnCalls, TypeOK, StoreTypeOK, LoopState
    <3>2. \E i \in Own(log, Len(log)) : MakesCall(log[i], key)
      BY <3>1 DEF OwnCalls, ItemsOf, IsOwn, Own, MakesCall
    <3>3. \A i \in 1 .. Len(log) : IsStatusOf(log[i], key) => ~IsResult(log[i])
      BY <2>3, <3>1 DEF HasResult, StatusesOf, ItemsOf, IsStatusOf
    <3>4. state.calls[key] # "none"
      BY <3>1, <3>2, <3>3 DEF HistoryInv, Matches, CallsMatch
    <3>5. state.calls[key] = "waiting" /\ ~AllFinished(state.ops[key])
      BY <2>1, <3>1, <3>4 DEF NewCalls, Reconciled
    <3>6. PICK slot \in Slot : state.ops[key][slot] # "none" /\ state.ops[key][slot] \notin Finished
      BY <3>5 DEF AllFinished, Mentioned
    <3>8. state.ops[key][slot] # "inherited"
      BY <3>1, NothingIsMissing DEF HistoryInv, Matches, TypeOK, StoreTypeOK
    <3>7. <<key, slot>> \in UnfinishedOps(state)
      BY <3>1, <3>6, <3>8 DEF UnfinishedOps, Op, Snapshot, OpStatus
    <3> QED
      BY <2>1, <3>7
  <2> QED
    BY <2>2, <2>3
<1>2. TypeOK /\ StopInv /\ HistoryInv /\ StageInv /\ [Next]_vars => StageInv'
  BY StageStep
<1> QED
  BY <1>1, <1>2, History, StageInit, PTL DEF Spec

-----------------------------------------------------------------------------
(* What is delivered, and what an idle stop leaves.                        *)

\* The deliveries of the whole history that no answered turn has shown to the model.
LEMMA UndeliveredCount ==
    ASSUME TypeOK, CountsMatch(log, Len(log), state)
    PROVE  /\ PendingInputs(state) = Cardinality(Undelivered)
           /\ IsFiniteSet(Undelivered)
<1>1. DOMAIN log = 1 .. Len(log) /\ Len(log) \in Nat
  BY DEF TypeOK, StoreTypeOK
<1> DEFINE all  == Deliveries(log, Len(log))
           done == Delivered(log, Len(log))
<1>2. IsFiniteSet(all)
  <2>1. IsFiniteSet(1 .. Len(log))
    BY <1>1, FS_Interval
  <2> QED
    BY <2>1, FS_Subset DEF Deliveries
<1>3. all \cap done = done
  BY DEF Delivered
<1>4. Undelivered = all \ done
  <2>1. \A i \in 1 .. Len(log) : Answered(i) <=> AnsweredIn(log, Len(log), i)
    BY <1>1 DEF Answered, AnsweredIn, ItemsOf
  <2> QED
    BY <1>1, <2>1 DEF Undelivered, Deliveries, Delivered
<1>5. /\ IsFiniteSet(all \ done)
      /\ Cardinality(all \ done) = Cardinality(all) - Cardinality(done)
  <2> HIDE DEF all, done
  <2> QED
    BY <1>2, <1>3, FS_Difference
<1> QED
  BY <1>4, <1>5 DEF PendingInputs, CountsMatch

\* The coordinator's count of what it owes the model is the number of messages,
\* heartbeats and results that the history holds and no answered turn has shown: in
\* every process, however the responses, the interrupted requests and the resumes fell.
THEOREM Accounting == Spec => []PendingMatchesHistory
<1>1. TypeOK /\ HistoryInv => PendingMatchesHistory
  BY UndeliveredCount DEF PendingMatchesHistory, HistoryInv, Matches, Live, Up
<1> QED
  BY <1>1, History, PTL

\* Run does nothing after an idle stop.
IdleInv == pc = "stopped" /\ stop = "when_idle" => IsIdle

\* A process that has stopped is left alone until the next one starts.
LEMMA IdleStep == IdleInv /\ [Next]_vars => IdleInv'
<1> SUFFICES ASSUME IdleInv, [Next]_vars, pc' = "stopped", stop' = "when_idle"
             PROVE  IsIdle'
  BY DEF IdleInv
<1>1. CASE StopWhenIdle
  BY <1>1 DEF StopWhenIdle, IsIdle, OpenCalls, UnfinishedOps, PendingInputs
<1>2. CASE pc = "stopped" /\ UNCHANGED runVars
  BY <1>2 DEF IdleInv, IsIdle, OpenCalls, UnfinishedOps, PendingInputs, runVars
<1>3. CASE ClientSubmits \/ OperationReports \/ (\E op \in Op : OperationFinishes(op)) \/ UNCHANGED vars
  BY <1>2, <1>3 DEF ClientSubmits, OperationReports, OperationFinishes, runVars, vars
<1>4. CASE HandleStop
  BY <1>4 DEF HandleStop
<1>5. ASSUME NEW key \in Key, ScheduleToolCall(key) \/ ReconcileToolCall(key)
      PROVE  FALSE
  BY <1>5 DEF ScheduleToolCall, ReconcileToolCall
<1>6. CASE \/ Crash \/ Restart \/ OpenFork \/ RestoreItem \/ Restored \/ StartScheduled
               \/ StartLoop \/ LoopTop
           \/ ReceiveInput \/ ReceiveUpdate \/ HeartbeatFires \/ GraceFires \/ DropResponse
           \/ ReceiveResponse \/ Scheduled \/ SlurpedInputs \/ SlurpedUpdates \/ EventsProcessed
           \/ CallModel \/ Continue
  BY <1>6 DEF Crash, Restart, OpenFork, RestoreItem, Restored, StartScheduled, StartLoop, LoopTop,
     ReceiveInput, ReceiveUpdate, HeartbeatFires, GraceFires, DropResponse, ReceiveResponse,
     Scheduled, SlurpedInputs, SlurpedUpdates, EventsProcessed, CallModel, Continue
<1> QED
  BY <1>1, <1>3, <1>4, <1>5, <1>6 DEF Next, RunStep

\* Run ends on "when_idle" only when every message and every result has been answered
\* and every call that was made to the session itself has its result (a fork may have
\* inherited calls without one): the counts and the calls of the loop state, which is all
\* that the code looks at, say so.
THEOREM IdleStop == Spec => []IdleStopIsComplete
<1>1. TypeOK /\ HistoryInv /\ IdleInv => IdleStopIsComplete
  <2> SUFFICES ASSUME TypeOK, HistoryInv, IsIdle, pc = "stopped"
               PROVE  /\ Undelivered = {}
                      /\ \A key \in OwnCalls : HasResult(key)
    BY DEF IdleStopIsComplete, IdleInv
  <2>1. Matches(log, Len(log), state) /\ DOMAIN log = 1 .. Len(log)
    BY DEF HistoryInv, TypeOK, StoreTypeOK
  <2>2. PendingInputs(state) = 0 /\ OpenCalls(state) = {}
    BY DEF IsIdle
  <2>3. Undelivered = {}
    BY <2>1, <2>2, UndeliveredCount, FS_EmptySet DEF Matches
  <2>4. ASSUME NEW key \in OwnCalls
        PROVE  HasResult(key)
    <3>1. key \in Key /\ \E i \in Own(log, Len(log)) : MakesCall(log[i], key)
      BY <2>1 DEF OwnCalls, ItemsOf, IsOwn, Own, MakesCall
    <3>2. state.calls[key] = "none"
      BY <2>2, <3>1 DEF OpenCalls
    <3>3. \E i \in 1 .. Len(log) : IsStatusOf(log[i], key) /\ IsResult(log[i])
      BY <2>1, <3>1, <3>2 DEF Matches, CallsMatch
    <3> QED
      BY <2>1, <3>3 DEF HasResult, StatusesOf, ItemsOf, IsStatusOf
  <2> QED
    BY <2>3, <2>4
<1>2. Init => IdleInv
  BY DEF Init, IdleInv
<1> QED
  BY <1>1, <1>2, History, IdleStep, PTL DEF Spec

-----------------------------------------------------------------------------
(* A replay rebuilds the loop state: the history and the stored operations *)
(* hold all that the next process needs.                                   *)

\* An operation is as the last status that mentions it says.
OpsAreLast(h, n, ops) ==
    \A key \in Key, slot \in Slot : ops[key][slot] # "none" =>
        \E i \in 1 .. n :
            /\ IsStatusOf(h[i], key) /\ h[i].ops[slot] = ops[key][slot]
            /\ \A j \in 1 .. n : i < j /\ IsStatusOf(h[j], key) => h[j].ops[slot] = "none"

\* A finished operation in the history is stored as it ended there.
FinalsAreSaved ==
    \A i \in DOMAIN log, key \in Key, slot \in Slot :
        IsStatusOf(log[i], key) /\ log[i].ops[slot] \in Finished =>
            log[i].ops[slot] = saved[key][slot]

\* The store has the operations of the running loop; a restore has replayed those of the
\* items it has come to.
ReplayInv ==
    /\ pc = "load" => OpsAreLast(log, cursor, state.ops)
    /\ Running => state.ops = saved
    /\ FinalsAreSaved

\* It holds before the first resume.
LEMMA ReplayInit == Init => ReplayInv
BY DEF Init, EmptyStore, ReplayInv, OpsAreLast, FinalsAreSaved, NewLoopState, NoSnapshot, Running

\* The operations after a status, one by one.
LEMMA StatusReplacesOps ==
    ASSUME NEW s \in LoopState, NEW item \in StatusItem, NEW key \in Key, NEW slot \in Slot
    PROVE  AddItem(s, item).ops[key][slot] =
              IF key = item.key /\ item.ops[slot] # "none" THEN item.ops[slot] ELSE s.ops[key][slot]
<1>1. PICK k \in Key, ops \in Snapshot : item = [kind |-> "status", key |-> k, ops |-> ops]
  BY DEF StatusItem
<1> DEFINE next == AddItem(s, [kind |-> "status", key |-> k, ops |-> ops])
<1>2. next.ops = [s.ops EXCEPT ![k] =
        [place \in Slot |-> IF ops[place] = "none" THEN s.ops[k][place] ELSE ops[place]]]
  BY StatusSetsOps
<1>3. s.ops \in [Key -> Snapshot]
  BY DEF LoopState
<1> HIDE DEF next
<1>4. next.ops[key][slot] = IF key = k /\ ops[slot] # "none" THEN ops[slot] ELSE s.ops[key][slot]
  BY <1>2, <1>3
<1>5. item.key = k /\ item.ops = ops /\ AddItem(s, item) = next
  BY <1>1 DEF next
<1> QED
  BY <1>4, <1>5

\* A fork drops the operations, one by one.
LEMMA ForkDropsOps ==
    ASSUME NEW s \in LoopState, NEW item, item.kind = "fork", NEW key \in Key, NEW slot \in Slot
    PROVE  AddItem(s, item).ops[key][slot] = "none"
<1> DEFINE ops == [k \in Key |-> NoSnapshot]
<1>1. AddItem(s, item).ops = ops
  BY ClearToolGraceType DEF AddItem, AddFork, LoopState
<1> QED
  BY <1>1 DEF NoSnapshot

\* Replaying the next item keeps the operations those of the last statuses.
LEMMA NextItemIsLast ==
    ASSUME NEW h \in Seq(Item), NEW n \in Nat, n + 1 \in DOMAIN h,
           NEW s \in LoopState, OpsAreLast(h, n, s.ops)
    PROVE  OpsAreLast(h, n + 1, AddItem(s, h[n + 1]).ops)
<1> DEFINE item == h[n + 1]
           next == AddItem(s, item)
           m    == n + 1
<1>1. /\ item \in Item /\ 1 .. m = (1 .. n) \cup {m} /\ m \notin 1 .. n
      /\ \A i \in 1 .. n : i < m
  OBVIOUS
<1>2. h[m] = item
  OBVIOUS
<1> HIDE DEF m, item, next
<1>3. SUFFICES ASSUME NEW key \in Key, NEW slot \in Slot, next.ops[key][slot] # "none"
               PROVE  \E i \in 1 .. m :
                         /\ IsStatusOf(h[i], key) /\ h[i].ops[slot] = next.ops[key][slot]
                         /\ \A j \in 1 .. m : i < j /\ IsStatusOf(h[j], key) => h[j].ops[slot] = "none"
  BY DEF OpsAreLast, m, item, next
<1>4. CASE IsStatusOf(item, key) /\ item.ops[slot] # "none"
  <2>1. next.ops[key][slot] = item.ops[slot]
    <3>1. item \in StatusItem
      BY <1>1, <1>4 DEF IsStatusOf, Item, InputItem, TurnItem, ResponseItem, StatusItem, ForkItem
    <3> QED
      BY <1>4, <3>1, StatusReplacesOps DEF IsStatusOf, next
  <2> QED
    BY <1>1, <1>2, <1>4, <2>1
<1>5. CASE ~(IsStatusOf(item, key) /\ item.ops[slot] # "none")
  <2>1. next.ops[key][slot] = s.ops[key][slot]
    <3>1. CASE item.kind \notin {"status", "fork"}
      BY <1>1, <3>1, ItemKeepsOps DEF next
    <3>2. CASE item.kind = "status"
      <4>1. item \in StatusItem
        BY <1>1, <3>2 DEF Item, InputItem, TurnItem, ResponseItem, StatusItem, ForkItem
      <4> QED
        BY <1>5, <3>2, <4>1, StatusReplacesOps DEF IsStatusOf, next
    <3>3. CASE item.kind = "fork"
      <4>1. next.ops[key][slot] = "none"
        BY <3>3, ForkDropsOps DEF next
      <4> QED
        BY <1>3, <4>1
    <3> QED
      BY <3>1, <3>2, <3>3
  <2>2. PICK i \in 1 .. n :
          /\ IsStatusOf(h[i], key) /\ h[i].ops[slot] = s.ops[key][slot]
          /\ \A j \in 1 .. n : i < j /\ IsStatusOf(h[j], key) => h[j].ops[slot] = "none"
    BY <1>3, <2>1 DEF OpsAreLast
  <2>3. \A j \in 1 .. m : i < j /\ IsStatusOf(h[j], key) => h[j].ops[slot] = "none"
    BY <1>1, <1>2, <1>5, <2>2
  <2> QED
    BY <1>1, <2>1, <2>2, <2>3
<1> QED
  BY <1>4, <1>5

\* Replaying all statuses and then taking what ResumeState returns gives the stored
\* operations: one that is not resumed ended as its last status says.
LEMMA RestoredOpsAreSaved ==
    ASSUME TypeOK, HistoryInv, FinalsAreSaved, NEW s \in LoopState,
           OpsMatch(log, Len(log), s.ops), OpsAreLast(log, Len(log), s.ops)
    PROVE  RestoreOperations(s).ops = saved
<1> DEFINE ops == [key \in Key |-> [slot \in Slot |->
                     IF IsResumed(key, slot) THEN saved[key][slot] ELSE s.ops[key][slot]]]
<1>1. RestoreOperations(s).ops = ops
  BY DEF RestoreOperations, LoopState
<1>2. saved \in [Key -> Snapshot] /\ DOMAIN log = 1 .. Len(log) /\ log \in Seq(Item)
  BY DEF TypeOK, StoreTypeOK
<1>3. ASSUME NEW key \in Key, NEW slot \in Slot, ~IsResumed(key, slot)
      PROVE  s.ops[key][slot] = saved[key][slot]
  <2>1. saved[key][slot] # "none" <=> s.ops[key][slot] # "none"
    BY DEF HistoryInv, OpsMatch
  <2>2. saved[key][slot] \in Unfinished \cup Finished \cup {"none"} /\ s.ops[key][slot] # "inherited"
    <3>1. saved[key][slot] # "inherited" /\ s.ops[key][slot] # "inherited"
      BY <1>2, NothingIsMissing DEF HistoryInv
    <3> QED
      BY <1>2, <3>1 DEF Snapshot, OpStatus
  <2>3. CASE saved[key][slot] \in Finished
    <3>1. saved[key][slot] # "none" /\ ~Unrecorded(key, slot)
      BY <1>3, <2>3 DEF IsResumed, Finished
    <3>2. PICK i \in 1 .. Len(log) :
            /\ IsStatusOf(log[i], key) /\ log[i].ops[slot] = s.ops[key][slot]
            /\ \A j \in 1 .. Len(log) : i < j /\ IsStatusOf(log[j], key) => log[j].ops[slot] = "none"
      BY <2>1, <3>1 DEF OpsAreLast
    <3>3. StatusesOf(key) = {j \in DOMAIN log : IsStatusOf(log[j], key)}
      BY DEF StatusesOf, ItemsOf, IsStatusOf
    <3>4. log[i].ops[slot] \notin Unfinished
      BY <1>2, <3>1, <3>2, <3>3 DEF Unrecorded, Finished
    <3>5. s.ops[key][slot] \in OpStatus
      BY <2>1, <2>2, <3>1 DEF LoopState, Snapshot
    <3> QED
      BY <1>2, <3>2, <3>4, <3>5 DEF FinalsAreSaved, OpStatus
  <2> QED
    BY <1>3, <2>1, <2>2, <2>3 DEF IsResumed
<1>4. \A key \in Key : ops[key] = saved[key]
  <2> SUFFICES ASSUME NEW key \in Key PROVE ops[key] = saved[key]
    OBVIOUS
  <2>1. \A slot \in Slot : ops[key][slot] = saved[key][slot]
    BY <1>3
  <2> QED
    BY <1>2, <2>1 DEF Snapshot
<1>5. ops = saved
  BY <1>2, <1>4
<1> QED
  BY <1>1, <1>5

\* Starting, replaying and restoring.
LEMMA RestoreStep ==
    ASSUME TypeOK, HistoryInv, ReplayInv, Crash \/ Restart \/ RestoreItem \/ Restored
    PROVE  ReplayInv'
<1>1. UNCHANGED storeVars /\ FinalsAreSaved'
  BY ReplayStep DEF storeVars, ReplayInv, FinalsAreSaved
<1>2. CASE Crash \/ Restart
  <2>1. pc' # "load" \/ (cursor' = 0 /\ state' = NewLoopState)
    BY <1>2 DEF Crash, Restart, NewProcess
  <2>2. ~Running'
    BY <1>2 DEF Crash, Restart, Running
  <2>3. pc' = "load" => OpsAreLast(log', cursor', state'.ops)
    BY <2>1 DEF OpsAreLast, NewLoopState, NoSnapshot
  <2> QED
    BY <1>1, <2>2, <2>3 DEF ReplayInv
<1>3. CASE RestoreItem
  <2>1. /\ log \in Seq(Item) /\ state \in LoopState /\ cursor \in Nat /\ cursor < Len(log)
        /\ state' = AddItem(state, log[cursor + 1]) /\ cursor' = cursor + 1 /\ log' = log
        /\ pc = "load" /\ pc' = "load"
    BY <1>1, <1>3 DEF RestoreItem, TypeOK, StoreTypeOK, storeVars
  <2>2. cursor + 1 \in DOMAIN log
    BY <2>1
  <2>3. OpsAreLast(log, cursor + 1, AddItem(state, log[cursor + 1]).ops)
    BY <2>1, <2>2, NextItemIsLast DEF ReplayInv
  <2> QED
    BY <1>1, <2>1, <2>3 DEF ReplayInv, Running
<1>4. CASE Restored
  <2>1. /\ pc = "load" /\ cursor = Len(log) /\ state' = RestoreOperations(state)
        /\ pc' = "startSchedule" /\ state \in LoopState
    BY <1>4 DEF Restored, TypeOK
  <2>2. RestoreOperations(state).ops = saved
    BY <2>1, RestoredOpsAreSaved DEF HistoryInv, Matches, ReplayInv
  <2> QED
    BY <1>1, <2>1, <2>2 DEF ReplayInv, storeVars
<1> QED
  BY <1>2, <1>3, <1>4

\* The first status of a call: the store and the loop state take its operations.
LEMMA ScheduleKeepsSaved ==
    ASSUME TypeOK, HistoryInv, ReplayInv, NEW key \in Key, ScheduleToolCall(key)
    PROVE  ReplayInv'
<1>1. PICK ops \in Translation : Record([kind |-> "status", key |-> key, ops |-> ops])
  BY DEF ScheduleToolCall
<1> DEFINE item == [kind |-> "status", key |-> key, ops |-> ops]
<1>2. ops \in Snapshot /\ \A slot \in Slot : ops[slot] \notin Finished
  BY DEF Translation, Snapshot, OpStatus, Unfinished, Finished
<1>3. item \in StatusItem /\ item.key = key /\ item.ops = ops /\ item.kind = "status"
  BY <1>2 DEF StatusItem
<1>4. /\ Running /\ Running' /\ pc' # "load" /\ state.calls[key] = "new"
      /\ state' = AddItem(state, item) /\ AppendItem(item)
  BY <1>1 DEF ScheduleToolCall, Running, Record, NewCalls
<1> HIDE DEF item
<1>5. /\ log \in Seq(Item) /\ DOMAIN log = 1 .. Len(log) /\ saved \in [Key -> Snapshot]
      /\ state \in LoopState /\ state.ops = saved /\ item \in Item
  BY <1>3, <1>4 DEF TypeOK, StoreTypeOK, ReplayInv, Item
<1>6. \A i \in DOMAIN log : ~IsStatusOf(log[i], key)
  BY <1>4, <1>5 DEF HistoryInv, Matches, CallsMatch, Running
<1>7. \A slot \in Slot : saved[key][slot] = "none"
  <2>1. Own(log, Len(log)) \subseteq DOMAIN log
    BY <1>5 DEF Own
  <2> QED
    BY <1>5, <1>6, <2>1 DEF HistoryInv, OpsMatch, Mentions
<1>8. log' = Append(log, item) /\ saved' = [saved EXCEPT ![key] = ops]
  BY <1>3, <1>4, <1>6 DEF AppendItem, StatusesOf, ItemsOf, IsStatusOf
<1>9. \A other \in Key, slot \in Slot : state'.ops[other][slot] = saved'[other][slot]
  <2> SUFFICES ASSUME NEW other \in Key, NEW slot \in Slot
               PROVE  state'.ops[other][slot] = saved'[other][slot]
    OBVIOUS
  <2>1. state'.ops[other][slot] =
          IF other = key /\ ops[slot] # "none" THEN ops[slot] ELSE state.ops[other][slot]
    BY <1>3, <1>4, <1>5, StatusReplacesOps
  <2>2. saved'[other][slot] = IF other = key THEN ops[slot] ELSE saved[other][slot]
    BY <1>5, <1>8
  <2> QED
    BY <1>5, <1>7, <2>1, <2>2
<1>10. state'.ops = saved'
  <2>1. state'.ops \in [Key -> Snapshot] /\ saved' \in [Key -> Snapshot]
    BY TypeStep DEF TypeOK, LoopState, StoreTypeOK, Next, RunStep
  <2>2. \A other \in Key : state'.ops[other] = saved'[other]
    BY <1>9, <2>1 DEF Snapshot
  <2> QED
    BY <2>1, <2>2
<1>11. FinalsAreSaved'
  <2> SUFFICES ASSUME NEW i \in DOMAIN log', NEW other \in Key, NEW slot \in Slot,
                      IsStatusOf(log'[i], other), log'[i].ops[slot] \in Finished
               PROVE  log'[i].ops[slot] = saved'[other][slot]
    BY DEF FinalsAreSaved, IsStatusOf
  <2>1. i \in DOMAIN log /\ log'[i] = log[i]
    BY <1>2, <1>3, <1>5, <1>8, AppendedItems
  <2>2. other # key
    BY <1>6, <2>1
  <2> QED
    BY <1>5, <1>8, <2>1, <2>2 DEF ReplayInv, FinalsAreSaved
<1> QED
  BY <1>4, <1>10, <1>11 DEF ReplayInv

\* Every other item leaves the operations alone; what it mentions is stored already.
LEMMA AppendingKeepsSaved ==
    ASSUME TypeOK, HistoryInv, ReplayInv, NEW item, Appending(item), state'.ops = state.ops
    PROVE  ReplayInv'
<1>1. /\ log \in Seq(Item) /\ DOMAIN log = 1 .. Len(log) /\ saved \in [Key -> Snapshot]
      /\ state \in LoopState /\ state.ops = saved /\ item \in Item /\ log' = Append(log, item)
      /\ Running' /\ AddItem(state, item).ops = state.ops
      /\ saved' = IF item.kind = "status" /\ StatusesOf(item.key) = {}
                  THEN [saved EXCEPT ![item.key] = item.ops] ELSE saved
  BY DEF TypeOK, StoreTypeOK, ReplayInv, Appending, AppendItem
<1>2. ASSUME NEW key \in Key, NEW slot \in Slot, IsStatusOf(item, key), item.ops[slot] # "none"
      PROVE  item.ops[slot] = saved[key][slot]
  <2>1. item \in StatusItem /\ item.key = key
    BY <1>1, <1>2 DEF IsStatusOf, Item, InputItem, TurnItem, ResponseItem, StatusItem, ForkItem
  <2> QED
    BY <1>1, <1>2, <2>1, StatusReplacesOps
<1>3. saved' = saved
  <2> SUFFICES ASSUME item.kind = "status", StatusesOf(item.key) = {}
               PROVE  [saved EXCEPT ![item.key] = item.ops] = saved
    BY <1>1
  <2>1. item.key \in Key /\ item.ops \in Snapshot
    BY <1>1, ItemKinds
  <2>2. \A i \in DOMAIN log : ~IsStatusOf(log[i], item.key)
    BY DEF StatusesOf, ItemsOf, IsStatusOf
  <2>3. \A slot \in Slot : saved[item.key][slot] = "none"
    <3>1. Own(log, Len(log)) \subseteq DOMAIN log
      BY <1>1 DEF Own
    <3> QED
      BY <1>1, <2>1, <2>2, <3>1 DEF HistoryInv, OpsMatch, Mentions
  <2>4. \A slot \in Slot : item.ops[slot] = "none"
    BY <1>2, <2>1, <2>3 DEF IsStatusOf
  <2>5. saved[item.key] = item.ops
    BY <1>1, <2>1, <2>3, <2>4 DEF Snapshot
  <2> QED
    BY <1>1, <2>1, <2>5
<1>4. FinalsAreSaved'
  <2> SUFFICES ASSUME NEW i \in DOMAIN log', NEW key \in Key, NEW slot \in Slot,
                      IsStatusOf(log'[i], key), log'[i].ops[slot] \in Finished
               PROVE  log'[i].ops[slot] = saved'[key][slot]
    BY DEF FinalsAreSaved, IsStatusOf
  <2>1. (i \in DOMAIN log /\ log'[i] = log[i]) \/ log'[i] = item
    BY <1>1, AppendedItems
  <2> QED
    BY <1>2, <1>3, <2>1 DEF ReplayInv, FinalsAreSaved, Finished
<1> QED
  BY <1>1, <1>3, <1>4 DEF ReplayInv, Running

\* An update is stored as it is taken, and is about an operation that has not ended.
LEMMA UpdateKeepsSaved ==
    ASSUME TypeOK, StopInv, HistoryInv, ReplayInv, ReceiveUpdate
    PROVE  ReplayInv'
<1>1. PICK key \in Key, slot \in Slot, status \in OpStatus :
        /\ DeliverUpdate([op |-> <<key, slot>>, status |-> status])
        /\ state' = [state EXCEPT !.ops[key][slot] = status]
        /\ SaveOperation(key, slot, status)
  BY DEF ReceiveUpdate
<1>2. /\ log' = log /\ Running /\ Running' /\ pc' # "load"
      /\ saved' = [saved EXCEPT ![key][slot] = status]
      /\ state'.ops = [state.ops EXCEPT ![key][slot] = status]
      /\ state.ops = saved /\ saved \in [Key -> Snapshot]
  BY <1>1 DEF SaveOperation, ReceiveUpdate, Running, ReplayInv, TypeOK, LoopState, StoreTypeOK
<1>3. saved[key][slot] \in Unfinished
  <2>1. updates # <<>> /\ updates[1].op = <<key, slot>> /\ 1 \in DOMAIN updates
    BY <1>1 DEF DeliverUpdate, TypeOK, ManagerTypeOK
  <2>2. <<key, slot>> \in UnfinishedOps(state)
    BY <2>1 DEF StopInv, WorkIsUnfinished
  <2> QED
    BY <1>2, <2>2 DEF UnfinishedOps
<1>4. FinalsAreSaved'
  <2> SUFFICES ASSUME NEW i \in DOMAIN log, NEW other \in Key, NEW place \in Slot,
                      IsStatusOf(log[i], other), log[i].ops[place] \in Finished
               PROVE  log[i].ops[place] = saved'[other][place]
    BY <1>2 DEF FinalsAreSaved, IsStatusOf
  <2>1. log[i].ops[place] = saved[other][place]
    BY DEF ReplayInv, FinalsAreSaved
  <2>2. ~(other = key /\ place = slot)
    BY <1>3, <2>1 DEF Unfinished, Finished
  <2> QED
    BY <1>2, <2>1, <2>2 DEF Snapshot
<1> QED
  BY <1>2, <1>4 DEF ReplayInv

\* Only the steps of a restore begin or end one.
LEMMA RestoreGoesOn ==
    ASSUME [Next]_vars, ~Crash, ~Restart, ~OpenFork, ~RestoreItem, ~Restored
    PROVE  (Running' <=> Running) /\ (pc' = "load" => pc = "load" /\ UNCHANGED <<cursor, log, state>>)
<1>1. CASE \E key \in Key : ScheduleToolCall(key) \/ ReconcileToolCall(key)
  BY <1>1 DEF ScheduleToolCall, ReconcileToolCall, Running
<1>2. CASE StartScheduled \/ StartLoop \/ LoopTop \/ ReceiveInput \/ ReceiveUpdate \/ HeartbeatFires
           \/ GraceFires \/ DropResponse \/ ReceiveResponse \/ Scheduled
  BY <1>2 DEF StartScheduled, StartLoop, LoopTop, ReceiveInput, ReceiveUpdate, HeartbeatFires,
     GraceFires, DropResponse, ReceiveResponse, Scheduled, Running
<1>3. CASE SlurpedInputs \/ SlurpedUpdates \/ EventsProcessed \/ HandleStop \/ CallModel
           \/ StopWhenIdle \/ Continue
  BY <1>3 DEF SlurpedInputs, SlurpedUpdates, EventsProcessed, HandleStop, CallModel, StopWhenIdle,
     Continue, Running
<1>4. CASE ClientSubmits \/ OperationReports \/ (\E op \in Op : OperationFinishes(op)) \/ UNCHANGED vars
  BY <1>4 DEF ClientSubmits, OperationReports, OperationFinishes, runVars, storeVars, vars, Running
<1> QED
  BY <1>1, <1>2, <1>3, <1>4 DEF Next, RunStep

\* A fork starts over, and has no operations.
LEMMA ForkKeepsSaved ==
    ASSUME TypeOK, OpenFork
    PROVE  ReplayInv'
<1>1. pc' = "load" /\ cursor' = 0 /\ state' = NewLoopState /\ ~Running'
  BY DEF OpenFork, NewProcess, Running
<1>2. OpsAreLast(log', cursor', state'.ops)
  BY <1>1 DEF OpsAreLast, NewLoopState, NoSnapshot
<1>3. FinalsAreSaved'
  <2>1. PICK m \in 1 .. Len(log) : IsForkOf(log', log, m)
    BY OpenedFork
  <2>2. log \in Seq(Item)
    BY DEF TypeOK, StoreTypeOK
  <2> SUFFICES ASSUME NEW i \in DOMAIN log', NEW key \in Key, NEW slot \in Slot,
                      IsStatusOf(log'[i], key)
               PROVE  log'[i].ops[slot] \notin Finished
    BY DEF FinalsAreSaved, IsStatusOf
  <2>3. i \in 1 .. m
    BY <2>1, <2>2 DEF IsForkOf, IsStatusOf
  <2>4. log[i] \in Item /\ log'[i] = Inherited(log[i])
    BY <2>1, <2>2, <2>3 DEF IsForkOf
  <2>5. log'[i].ops = InheritedOps(log[i].ops)
    BY <2>4, InheritedItem DEF IsStatusOf
  <2> QED
    BY <2>5 DEF InheritedOps, Finished
<1> QED
  BY <1>1, <1>2, <1>3 DEF ReplayInv

\* Every step keeps it.
LEMMA ReplayInvStep ==
    TypeOK /\ StopInv /\ HistoryInv /\ ReplayInv /\ [Next]_vars => ReplayInv'
<1> SUFFICES ASSUME TypeOK, StopInv, HistoryInv, ReplayInv, [Next]_vars PROVE ReplayInv'
  OBVIOUS
<1>1. CASE Crash \/ Restart \/ RestoreItem \/ Restored
  BY <1>1, RestoreStep
<1>2. CASE \E key \in Key : ScheduleToolCall(key)
  BY <1>2, ScheduleKeepsSaved
<1>3. CASE ReceiveUpdate
  BY <1>3, UpdateKeepsSaved
<1>4. CASE OpenFork
  BY <1>4, ForkKeepsSaved
<1>5. CASE /\ state'.ops = state.ops
           /\ ~(Crash \/ Restart \/ OpenFork \/ RestoreItem \/ Restored \/ ReceiveUpdate)
  <2>1. CASE \E item : Appending(item)
    BY <1>5, <2>1, AppendingKeepsSaved
  <2>2. CASE UNCHANGED storeVars
    BY <1>5, <2>2, RestoreGoesOn DEF ReplayInv, FinalsAreSaved, storeVars
  <2> QED
    BY <1>5, <2>1, <2>2, HistoryStep
<1> QED
  BY <1>1, <1>2, <1>3, <1>4, <1>5, OpsStep

-----------------------------------------------------------------------------
(* The replay of the whole history, a recursive function of its length.    *)

\* A set of numbers that has 0, and the next number with each, has all up to any bound.
LEMMA NumbersBelow ==
    ASSUME NEW bound \in Nat, NEW S, 0 \in S,
           \A n \in 0 .. bound : n \in S /\ n < bound => n + 1 \in S
    PROVE  0 .. bound \subseteq S
<1> DEFINE Less == {pair \in Nat \X Nat : pair[1] < pair[2]}
           rest == (0 .. bound) \ S
<1>1. IsWellFoundedOn(Less, Nat)
  BY NatLessThanWellFounded DEF OpToRel
<1> SUFFICES ASSUME rest # {} PROVE FALSE
  OBVIOUS
<1> HIDE DEF Less
<1>2. rest \subseteq Nat
  OBVIOUS
<1> HIDE DEF rest
<1>3. PICK x \in rest : \A y \in rest : <<y, x>> \notin Less
  BY <1>1, <1>2, WFMin
<1>4. x \in 0 .. bound /\ x # 0 /\ x \notin S
  BY <1>3 DEF rest
<1>5. x - 1 \in 0 .. bound /\ x - 1 < bound /\ (x - 1) + 1 = x /\ <<x - 1, x>> \in Less
  BY <1>4 DEF Less
<1>6. x - 1 \in S
  BY <1>3, <1>5 DEF rest
<1> QED
  BY <1>4, <1>5, <1>6

\* The recursive function exists: there is one on every initial part of the history.
LEMMA StateAfterDef ==
    ASSUME log \in Seq(Item)
    PROVE  StateAfter = [n \in 0 .. Len(log) |->
              IF n = 0 THEN NewLoopState ELSE AddItem(StateAfter[n - 1], log[n])]
<1> DEFINE Is(f, m) == f = [n \in 0 .. m |-> IF n = 0 THEN NewLoopState ELSE AddItem(f[n - 1], log[n])]
           have == {m \in 0 .. Len(log) : \E f : Is(f, m)}
<1>1. Len(log) \in Nat
  OBVIOUS
<1>2. 0 \in have
  <2> DEFINE f == [n \in 0 .. 0 |-> NewLoopState]
  <2>1. Is(f, 0)
    OBVIOUS
  <2> HIDE DEF f, Is
  <2> QED
    BY <1>1, <2>1
<1>3. ASSUME NEW m \in 0 .. Len(log), m \in have, m < Len(log)
      PROVE  m + 1 \in have
  <2>1. PICK f : Is(f, m)
    BY <1>3
  <2> DEFINE next == AddItem(f[m], log[m + 1])
             g == [n \in 0 .. m + 1 |-> IF n = m + 1 THEN next ELSE f[n]]
  <2> HIDE DEF next
  <2>2. m \in Nat /\ m + 1 \in 0 .. Len(log) /\ \A n \in 0 .. m : n # m + 1 /\ n \in 0 .. m + 1
    BY <1>1, <1>3
  <2>3. \A n \in 0 .. m : g[n] = f[n]
    BY <2>2
  <2>4. ASSUME NEW n \in 0 .. m + 1
        PROVE  g[n] = IF n = 0 THEN NewLoopState ELSE AddItem(g[n - 1], log[n])
    <3>1. CASE n = m + 1
      <4>1. g[n] = next /\ g[n - 1] = f[m] /\ n # 0
        BY <2>2, <2>3, <3>1
      <4> HIDE DEF g
      <4> QED
        BY <3>1, <4>1 DEF next
    <3>2. CASE n = 0
      <4>1. g[n] = f[0] /\ f[0] = NewLoopState
        BY <2>1, <2>2, <2>3, <3>2
      <4> QED
        BY <3>2, <4>1
    <3>3. CASE n \in 1 .. m
      <4>1. n \in 0 .. m /\ n - 1 \in 0 .. m /\ n # 0
        BY <2>2, <3>3
      <4>2. g[n] = f[n] /\ g[n - 1] = f[n - 1]
        BY <2>3, <4>1
      <4>3. f[n] = AddItem(f[n - 1], log[n])
        BY <2>1, <4>1
      <4> HIDE DEF g
      <4> QED
        BY <4>1, <4>2, <4>3
    <3> QED
      BY <2>2, <3>1, <3>2, <3>3
  <2>5. Is(g, m + 1)
    <3> DEFINE h == [n \in 0 .. m + 1 |-> IF n = 0 THEN NewLoopState ELSE AddItem(g[n - 1], log[n])]
    <3>1. \A n \in 0 .. m + 1 : g[n] = h[n]
      BY <2>4
    <3>2. DOMAIN g = 0 .. m + 1 /\ g = [n \in 0 .. m + 1 |-> g[n]]
      OBVIOUS
    <3> HIDE DEF g
    <3>3. g = h
      BY <3>1, <3>2
    <3> QED
      BY <3>3
  <2> HIDE DEF Is, g
  <2> QED
    BY <2>2, <2>5
<1> HIDE DEF have
<1>4. 0 .. Len(log) \subseteq have
  BY <1>1, <1>2, <1>3, NumbersBelow
<1>5. \E f : Is(f, Len(log))
  BY <1>1, <1>4 DEF have
<1>6. StateAfter = CHOOSE f : Is(f, Len(log))
  BY DEF StateAfter
<1> HIDE DEF Is
<1>7. Is(StateAfter, Len(log))
  BY <1>5, <1>6
<1> QED
  BY <1>7 DEF Is

\* After the first n items the state matches them, and its operations are the last ones.
LEMMA StateAfterMatches ==
    ASSUME TypeOK, HistoryInv, NEW n \in 0 .. Len(log)
    PROVE  /\ StateAfter[n] \in LoopState
           /\ Matches(log, n, StateAfter[n]) /\ OpsAreLast(log, n, StateAfter[n].ops)
<1>1. log \in Seq(Item) /\ InOrder(log) /\ Len(log) \in Nat
  BY DEF TypeOK, StoreTypeOK, HistoryInv
<1> DEFINE holds == {m \in 0 .. Len(log) :
             /\ StateAfter[m] \in LoopState
             /\ Matches(log, m, StateAfter[m]) /\ OpsAreLast(log, m, StateAfter[m].ops)}
<1>2. /\ StateAfter[0] = NewLoopState
      /\ \A m \in 1 .. Len(log) : StateAfter[m] = AddItem(StateAfter[m - 1], log[m])
  BY <1>1, StateAfterDef
<1>3. 0 \in holds
  <2>1. NewLoopState \in LoopState
    BY MaxTurnAssumption DEF NewLoopState, LoopState, NoSnapshot, Snapshot
  <2>2. OpsAreLast(log, 0, NewLoopState.ops)
    BY DEF OpsAreLast, NewLoopState, NoSnapshot
  <2> QED
    BY <1>1, <1>2, <2>1, <2>2, NothingMatches
<1>4. ASSUME NEW m \in 0 .. Len(log), m \in holds, m < Len(log)
      PROVE  m + 1 \in holds
  <2>1. m \in Nat /\ m + 1 \in DOMAIN log /\ m + 1 \in 1 .. Len(log) /\ m + 1 \in 0 .. Len(log)
    BY <1>1, <1>4
  <2>2. StateAfter[m + 1] = AddItem(StateAfter[m], log[m + 1]) /\ log[m + 1] \in Item
    BY <1>1, <1>2, <2>1
  <2>3. AddItem(StateAfter[m], log[m + 1]) \in LoopState
    BY <1>4, <2>2, AddItemType
  <2>4. Matches(log, m + 1, AddItem(StateAfter[m], log[m + 1]))
    BY <1>1, <1>4, <2>1, NextItem
  <2>5. OpsAreLast(log, m + 1, AddItem(StateAfter[m], log[m + 1]).ops)
    BY <1>1, <1>4, <2>1, NextItemIsLast
  <2> QED
    BY <2>1, <2>2, <2>3, <2>4, <2>5
<1> HIDE DEF holds
<1>5. 0 .. Len(log) \subseteq holds
  BY <1>1, <1>3, <1>4, NumbersBelow
<1> QED
  BY <1>5 DEF holds

\* What matches the same history is the same, but for how far the operations are.
LEMMA MatchesAgree ==
    ASSUME NEW h, NEW n, NEW s \in LoopState, NEW t \in LoopState,
           Matches(h, n, s), Matches(h, n, t), \A i \in 1 .. n : h[i].kind = "turn" => h[i].turn \in Turn
    PROVE  s.turn = t.turn /\ s.calls = t.calls /\ SameCounts(s, t)
<1>1. s.turn = t.turn
  <2>1. s.turn \in Nat /\ t.turn \in Nat
    BY MaxTurnAssumption DEF LoopState
  <2>2. s.turn # 0 => s.turn <= t.turn
    BY <2>1 DEF Matches, TurnMatches
  <2>3. t.turn # 0 => t.turn <= s.turn
    BY <2>1 DEF Matches, TurnMatches
  <2> QED
    BY <2>1, <2>2, <2>3
<1>2. s.calls = t.calls
  <2>1. s.calls \in [Key -> {"none", "new", "waiting"}] /\ t.calls \in [Key -> {"none", "new", "waiting"}]
    BY DEF LoopState
  <2>2. ASSUME NEW key \in Key PROVE s.calls[key] = t.calls[key]
    <3>1. s.calls[key] # "none" <=> t.calls[key] # "none"
      BY DEF Matches, CallsMatch
    <3>2. ~(s.calls[key] = "new" /\ t.calls[key] = "waiting")
      BY DEF Matches, CallsMatch
    <3>3. ~(s.calls[key] = "waiting" /\ t.calls[key] = "new")
      BY DEF Matches, CallsMatch
    <3> QED
      BY <2>1, <3>1, <3>2, <3>3
  <2> QED
    BY <2>1, <2>2
<1>3. SameCounts(s, t)
  BY DEF Matches, CountsMatch, SameCounts
<1> QED
  BY <1>1, <1>2, <1>3

\* Whatever a process has in memory of the session when it dies, a replay of the history
\* and of the stored operations rebuilds: the turn, the calls, the operations and the
\* delivery accounting.
THEOREM Rebuilding == Spec => []ReplayRebuildsState
<1>1. Spec => [](TypeOK /\ HistoryInv /\ ReplayInv)
  BY History, ReplayInit, ReplayInvStep, PTL DEF Spec
<1>2. TypeOK /\ HistoryInv /\ ReplayInv => ReplayRebuildsState
  <2> SUFFICES ASSUME TypeOK, HistoryInv, ReplayInv, Live PROVE ReplayRebuildsState
    BY DEF ReplayRebuildsState
  <2> DEFINE last == StateAfter[Len(log)]
  <2>1. Running /\ state \in LoopState /\ log \in Seq(Item) /\ Len(log) \in 0 .. Len(log)
    BY DEF Live, Up, Running, TypeOK, StoreTypeOK
  <2>2. last \in LoopState /\ Matches(log, Len(log), last) /\ OpsAreLast(log, Len(log), last.ops)
    BY <2>1, StateAfterMatches
  <2> HIDE DEF last
  <2>3. \A i \in 1 .. Len(log) : log[i].kind = "turn" => log[i].turn \in Turn
    BY <2>1, ItemKinds
  <2>4. state.turn = last.turn /\ state.calls = last.calls /\ SameCounts(state, last)
    BY <2>1, <2>2, <2>3, MatchesAgree DEF HistoryInv, Running
  <2>5. RestoreOperations(last).ops = state.ops
    BY <2>1, <2>2, RestoredOpsAreSaved DEF Matches, ReplayInv
  <2>6. LET restored == RestoreOperations(last)
        IN  restored.turn = last.turn /\ restored.calls = last.calls /\ SameCounts(last, restored)
    BY <2>2 DEF RestoreOperations, LoopState, SameCounts
  <2>7. Replayed = RestoreOperations(last)
    BY DEF Replayed, last
  <2> QED
    BY <2>4, <2>5, <2>6, <2>7 DEF ReplayRebuildsState, SameCounts
<1> QED
  BY <1>1, <1>2, PTL

-----------------------------------------------------------------------------
(* What a request shows: the context that the history leads to.            *)

RequestPart ==
    [role : {"system", "user", "assistant", "call", "result"},
     of : {0} \cup External \cup Call, turn : 0 .. MaxTurn, running : BOOLEAN]

Context ==
    [committed : Seq(RequestPart), staged : Seq(RequestPart), open : SUBSET Key,
     requests : Seq(Seq(RequestPart))]

\* The fields of a part.
LEMMA Parts ==
    ASSUME NEW role \in {"system", "user", "assistant", "call", "result"},
           NEW of \in {0} \cup External \cup Call, NEW turn \in 0 .. MaxTurn,
           NEW runs \in BOOLEAN
    PROVE  LET p == Part(role, of, turn, runs)
           IN  /\ p \in RequestPart
               /\ p.role = role /\ p.of = of /\ p.turn = turn /\ p.running = runs
BY DEF Part, RequestPart

\* Parts put behind others.
LEMMA Joined ==
    ASSUME NEW a \in Seq(RequestPart), NEW b \in Seq(RequestPart)
    PROVE  /\ a \o b \in Seq(RequestPart) /\ Len(a \o b) = Len(a) + Len(b)
           /\ Len(a) \in Nat /\ Len(b) \in Nat
           /\ DOMAIN (a \o b) = 1 .. (Len(a) + Len(b))
           /\ DOMAIN a = 1 .. Len(a) /\ DOMAIN b = 1 .. Len(b)
           /\ \A i \in 1 .. Len(a) : (a \o b)[i] = a[i]
           /\ \A i \in 1 .. Len(b) : (a \o b)[Len(a) + i] = b[i]
OBVIOUS

\* What stands before a part of the first sequence, and before the second one.
LEMMA JoinedBefore ==
    ASSUME NEW a \in Seq(RequestPart), NEW b \in Seq(RequestPart)
    PROVE  /\ \A k \in 1 .. Len(a) : SubSeq(a \o b, 1, k - 1) = SubSeq(a, 1, k - 1)
           /\ SubSeq(a \o b, 1, Len(a)) = a
<1>1. /\ a \o b \in Seq(RequestPart) /\ Len(a) \in Nat /\ Len(b) \in Nat /\ Len(a \o b) = Len(a) + Len(b)
      /\ \A i \in 1 .. Len(a) : (a \o b)[i] = a[i]
  BY Joined
<1> DEFINE c == a \o b
<1>2. c \in Seq(RequestPart) /\ Len(c) = Len(a) + Len(b) /\ \A i \in 1 .. Len(a) : c[i] = a[i]
  BY <1>1
<1> HIDE DEF c
<1>3. ASSUME NEW k \in 1 .. Len(a) PROVE SubSeq(c, 1, k - 1) = SubSeq(a, 1, k - 1)
  BY <1>1, <1>2
<1>4. SubSeq(c, 1, Len(a)) = a
  BY <1>1, <1>2
<1> QED
  BY <1>3, <1>4 DEF c

\* The function that starts with a value and takes one step for each number.
IsRecursion(f, m, start, step) ==
    f[0] = start /\ \A n \in 1 .. m : f[n] = step[n][f[n - 1]]

HasRecursion(m, S, start, step) == \E f \in [0 .. m -> S] : IsRecursion(f, m, start, step)

\* A recursion over numbers whose step stays in a set has its function.
LEMMA Recursion ==
    ASSUME NEW m \in Nat, NEW S, NEW start \in S, NEW step \in [1 .. m -> [S -> S]]
    PROVE  HasRecursion(m, S, start, step)
<1> DEFINE value(f, n) == IF n = 0 THEN start ELSE step[n][f[n - 1]]
           Is(f, k) == f \in [0 .. k -> S] /\ \A n \in 0 .. k : f[n] = value(f, n)
           have == {k \in 0 .. m : \E f : Is(f, k)}
<1>1. 0 \in have
  <2>1. Is([n \in 0 .. 0 |-> start], 0)
    OBVIOUS
  <2> HIDE DEF Is
  <2> QED
    BY <2>1
<1>2. ASSUME NEW k \in 0 .. m, k \in have, k < m
      PROVE  k + 1 \in have
  <2>1. PICK f : Is(f, k)
    BY <1>2
  <2> DEFINE next == step[k + 1][f[k]]
             g == [n \in 0 .. k + 1 |-> IF n = k + 1 THEN next ELSE f[n]]
  <2>2. k \in Nat /\ k + 1 \in 0 .. m /\ k + 1 \in 1 .. m
    BY <1>2
  <2>3. \A n \in 0 .. k : f[n] \in S /\ g[n] = f[n]
    BY <2>1, <2>2
  <2>4. next \in S
    <3>1. step[k + 1] \in [S -> S] /\ k \in 0 .. k
      BY <2>2
    <3>2. f[k] \in S
      BY <2>3, <3>1
    <3> QED
      BY <3>1, <3>2
  <2> HIDE DEF next
  <2>5. g \in [0 .. k + 1 -> S] /\ g[k + 1] = next
    <3>1. \A n \in 0 .. k + 1 : n # k + 1 => n \in 0 .. k
      BY <2>2
    <3>2. \A n \in 0 .. k + 1 : (IF n = k + 1 THEN next ELSE f[n]) \in S
      BY <2>3, <2>4, <3>1
    <3>3. k + 1 \in 0 .. k + 1
      BY <2>2
    <3> QED
      BY <3>2, <3>3
  <2> HIDE DEF g
  <2> USE DEF next
  <2>6. ASSUME NEW n \in 0 .. k + 1 PROVE g[n] = value(g, n)
    <3>1. CASE n = k + 1
      <4>1. n # 0 /\ n - 1 = k /\ g[n - 1] = f[k]
        BY <2>2, <2>3, <3>1
      <4> QED
        BY <2>5, <3>1, <4>1
    <3>2. CASE n = 0
      BY <2>1, <2>2, <2>3, <3>2
    <3>3. CASE n \in 1 .. k
      <4>1. n \in 0 .. k /\ n - 1 \in 0 .. k /\ n # 0
        BY <2>2, <3>3
      <4>2. g[n] = f[n] /\ g[n - 1] = f[n - 1] /\ f[n] = value(f, n)
        BY <2>1, <2>3, <4>1
      <4> QED
        BY <4>1, <4>2
    <3> QED
      BY <2>2, <3>1, <3>2, <3>3
  <2> QED
    BY <2>2, <2>5, <2>6
<1> HIDE DEF have
<1>3. 0 .. m \subseteq have
  BY <1>1, <1>2, NumbersBelow
<1>4. PICK f : Is(f, m)
  BY <1>3 DEF have
<1>5. /\ f \in [0 .. m -> S] /\ 0 \in 0 .. m
      /\ \A n \in 1 .. m : n \in 0 .. m /\ n # 0
  BY <1>4
<1> QED
  BY <1>4, <1>5 DEF HasRecursion, IsRecursion

-----------------------------------------------------------------------------
(* Deleting a part.                                                        *)

\* The sequence has, each once and in some order, the first n parts but those that are p.
Keeps(left, parts, n, p) ==
    \E f \in [1 .. Len(left) -> 1 .. n] :
        /\ \A i, j \in 1 .. Len(left) : f[i] = f[j] => i = j
        /\ \A i \in 1 .. Len(left) : left[i] = parts[f[i]] /\ left[i] # p
        /\ \A j \in 1 .. n : parts[j] # p => \E i \in 1 .. Len(left) : f[i] = j

\* One part more is kept or deleted.
LEMMA NextIsKept ==
    ASSUME NEW S, NEW parts \in Seq(S), NEW p, NEW n \in Nat, n + 1 \in DOMAIN parts,
           NEW left \in Seq(S), Keeps(left, parts, n, p)
    PROVE  LET next == IF parts[n + 1] = p THEN left ELSE Append(left, parts[n + 1])
           IN  next \in Seq(S) /\ Keeps(next, parts, n + 1, p)
<1>1. PICK f \in [1 .. Len(left) -> 1 .. n] :
        /\ \A i, j \in 1 .. Len(left) : f[i] = f[j] => i = j
        /\ \A i \in 1 .. Len(left) : left[i] = parts[f[i]] /\ left[i] # p
        /\ \A j \in 1 .. n : parts[j] # p => \E i \in 1 .. Len(left) : f[i] = j
  BY DEF Keeps
<1>2. /\ Len(left) \in Nat /\ parts[n + 1] \in S
      /\ \A j \in 1 .. n + 1 : j \in 1 .. n \/ j = n + 1
      /\ \A j \in 1 .. n : j \in 1 .. n + 1 /\ j # n + 1
  OBVIOUS
<1>3. CASE parts[n + 1] = p
  <2>1. f \in [1 .. Len(left) -> 1 .. n + 1]
    BY <1>2
  <2>2. \A j \in 1 .. n + 1 : parts[j] # p => \E i \in 1 .. Len(left) : f[i] = j
    BY <1>1, <1>2, <1>3
  <2>3. Keeps(left, parts, n + 1, p)
    BY <1>1, <2>1, <2>2 DEF Keeps
  <2> QED
    BY <1>3, <2>3
<1>4. CASE parts[n + 1] # p
  <2> DEFINE next == Append(left, parts[n + 1])
             m == Len(left)
             g == [i \in 1 .. m + 1 |-> IF i = m + 1 THEN n + 1 ELSE f[i]]
  <2>1. /\ next \in Seq(S) /\ Len(next) = m + 1 /\ next[m + 1] = parts[n + 1]
        /\ \A i \in 1 .. m : next[i] = left[i]
    BY <1>2
  <2>2. /\ \A i \in 1 .. m + 1 : i \in 1 .. m \/ i = m + 1
        /\ \A i \in 1 .. m : i \in 1 .. m + 1 /\ i # m + 1
        /\ m + 1 \in 1 .. m + 1
    BY <1>2
  <2>3. /\ \A i \in 1 .. m : g[i] = f[i] /\ f[i] \in 1 .. n
        /\ g[m + 1] = n + 1
    BY <2>2
  <2>4. g \in [1 .. m + 1 -> 1 .. n + 1]
    <3>1. \A i \in 1 .. m + 1 : (IF i = m + 1 THEN n + 1 ELSE f[i]) \in 1 .. n + 1
      BY <1>2, <2>2, <2>3
    <3> QED
      BY <3>1
  <2> HIDE DEF next, m, g
  <2>5. \A i, j \in 1 .. m + 1 : g[i] = g[j] => i = j
    BY <1>1, <1>2, <2>2, <2>3 DEF m
  <2>6. \A i \in 1 .. m + 1 : next[i] = parts[g[i]] /\ next[i] # p
    BY <1>1, <1>4, <2>1, <2>2, <2>3 DEF m
  <2>7. \A j \in 1 .. n + 1 : parts[j] # p => \E i \in 1 .. m + 1 : g[i] = j
    BY <1>1, <1>2, <2>2, <2>3 DEF m
  <2>8. Keeps(next, parts, n + 1, p)
    <3>1. 1 .. Len(next) = 1 .. m + 1
      BY <2>1
    <3>2. g \in [1 .. Len(next) -> 1 .. n + 1]
      BY <2>4, <3>1
    <3>3. /\ \A i, j \in 1 .. Len(next) : g[i] = g[j] => i = j
          /\ \A i \in 1 .. Len(next) : next[i] = parts[g[i]] /\ next[i] # p
          /\ \A j \in 1 .. n + 1 : parts[j] # p => \E i \in 1 .. Len(next) : g[i] = j
      BY <2>5, <2>6, <2>7, <3>1
    <3> QED
      BY <3>2, <3>3 DEF Keeps
  <2> QED
    BY <1>4, <2>1, <2>8 DEF next
<1> QED
  BY <1>3, <1>4

\* What is left after a deletion is all the rest.
LEMMA WithoutKeeps ==
    ASSUME NEW S, NEW parts \in Seq(S), NEW p
    PROVE  Without(parts, p) \in Seq(S) /\ Keeps(Without(parts, p), parts, Len(parts), p)
<1> DEFINE m == Len(parts)
           Is(f) == f = [n \in 0 .. m |->
                        IF n = 0 THEN <<>>
                        ELSE IF parts[n] = p THEN f[n - 1] ELSE Append(f[n - 1], parts[n])]
           step == [n \in 1 .. m |-> [s \in Seq(S) |->
                        IF parts[n] = p THEN s ELSE Append(s, parts[n])]]
           kept == CHOOSE f : Is(f)
<1>1. m \in Nat /\ DOMAIN parts = 1 .. m /\ (\A n \in 1 .. m : parts[n] \in S) /\ <<>> \in Seq(S)
  OBVIOUS
<1> HIDE DEF m
<1>2. step \in [1 .. m -> [Seq(S) -> Seq(S)]]
  BY <1>1
<1>3. \A n \in 1 .. m, s \in Seq(S) :
        step[n][s] = IF parts[n] = p THEN s ELSE Append(s, parts[n])
  OBVIOUS
<1> HIDE DEF step
<1>4. PICK f \in [0 .. m -> Seq(S)] :
        f[0] = <<>> /\ \A n \in 1 .. m : f[n] = step[n][f[n - 1]]
  <2> DEFINE all == Seq(S)
             none == <<>>
  <2>1. none \in all /\ step \in [1 .. m -> [all -> all]]
    BY <1>1, <1>2
  <2> HIDE DEF all, none
  <2>2. HasRecursion(m, all, none, step)
    BY <1>1, <2>1, Recursion, Zenon
  <2> QED
    BY <2>2 DEF all, none, HasRecursion, IsRecursion
<1>5. \A n \in 0 .. m : f[n] = IF n = 0 THEN <<>>
                               ELSE IF parts[n] = p THEN f[n - 1] ELSE Append(f[n - 1], parts[n])
  <2> SUFFICES ASSUME NEW n \in 0 .. m, n # 0
               PROVE  f[n] = IF parts[n] = p THEN f[n - 1] ELSE Append(f[n - 1], parts[n])
    BY <1>4
  <2>1. n \in 1 .. m /\ n - 1 \in 0 .. m
    BY <1>1
  <2>2. f[n - 1] \in Seq(S) /\ f[n] = step[n][f[n - 1]]
    BY <1>4, <2>1
  <2> QED
    BY <1>3, <2>1, <2>2
<1>6. Is(f)
  BY <1>5
<1> HIDE DEF Is
<1>7. Is(kept)
  BY <1>6
<1> HIDE DEF kept
<1>8. /\ kept[0] = <<>>
      /\ \A n \in 1 .. m : kept[n] = IF parts[n] = p THEN kept[n - 1] ELSE Append(kept[n - 1], parts[n])
  <2>1. 0 \in 0 .. m /\ \A n \in 1 .. m : n \in 0 .. m /\ n # 0
    BY <1>1
  <2>2. \A n \in 0 .. m : kept[n] = IF n = 0 THEN <<>>
                                    ELSE IF parts[n] = p THEN kept[n - 1] ELSE Append(kept[n - 1], parts[n])
    BY <1>7 DEF Is
  <2> QED
    BY <2>1, <2>2
<1> DEFINE holds == {n \in 0 .. m : kept[n] \in Seq(S) /\ Keeps(kept[n], parts, n, p)}
<1>9. 0 \in holds
  <2>1. Keeps(<<>>, parts, 0, p)
    <3>1. 1 .. Len(<<>>) = {} /\ 1 .. 0 = {}
      OBVIOUS
    <3>2. [i \in {} |-> 0] \in [{} -> {}]
      OBVIOUS
    <3> QED
      BY <3>1, <3>2 DEF Keeps
  <2>2. kept[0] \in Seq(S) /\ Keeps(kept[0], parts, 0, p)
    BY <1>1, <1>8, <2>1
  <2>3. 0 \in 0 .. m
    BY <1>1
  <2> QED
    BY <2>2, <2>3
<1>10. ASSUME NEW n \in 0 .. m, n \in holds, n < m
       PROVE  n + 1 \in holds
  <2>1. n \in Nat /\ n + 1 \in 1 .. m /\ n + 1 \in 0 .. m /\ (n + 1) - 1 = n
    BY <1>1, <1>10
  <2>2. kept[n + 1] = IF parts[n + 1] = p THEN kept[n] ELSE Append(kept[n], parts[n + 1])
    BY <1>8, <2>1
  <2>3. kept[n] \in Seq(S) /\ Keeps(kept[n], parts, n, p) /\ n + 1 \in DOMAIN parts
    BY <1>1, <1>10, <2>1
  <2>4. kept[n + 1] \in Seq(S) /\ Keeps(kept[n + 1], parts, n + 1, p)
    BY <2>1, <2>2, <2>3, NextIsKept
  <2> QED
    BY <2>1, <2>4
<1> HIDE DEF holds
<1>11. 0 .. m \subseteq holds
  BY <1>1, <1>9, <1>10, NumbersBelow
<1>12. kept[m] \in Seq(S) /\ Keeps(kept[m], parts, m, p)
  BY <1>1, <1>11 DEF holds
<1>13. Without(parts, p) = kept[m]
  BY DEF Without, kept, Is, m
<1> QED
  BY <1>12, <1>13 DEF m

-----------------------------------------------------------------------------
(* The parts of a response.                                                *)

\* The calls are put in some order, and all of them.
LEMMA OrderOfCalls ==
    ASSUME NEW calls \in SUBSET Call
    PROVE  /\ Cardinality(calls) \in Nat
           /\ SetToSeq(calls) \in [1 .. Cardinality(calls) -> calls]
           /\ \A call \in calls : \E k \in 1 .. Cardinality(calls) : SetToSeq(calls)[k] = call
<1> DEFINE N == Cardinality(calls)
           order == SetToSeq(calls)
<1>1. IsFiniteSet(calls)
  BY CallAssumption, FS_Subset
<1>2. N \in Nat /\ \E f \in [1 .. N -> calls] : IsInjective(f)
  BY <1>1, FS_CardinalityType DEF ExistsBijection, Bijection, Injection, IsInjective
<1>3. order \in [1 .. N -> calls] /\ IsInjective(order)
  BY <1>2 DEF SetToSeq
<1>4. IsFiniteSet(1 .. N) /\ Cardinality(1 .. N) = N
  BY <1>2, FS_Interval
<1> HIDE DEF order
<1>5. order \in Surjection(1 .. N, calls)
  BY <1>1, <1>3, <1>4, FS_Injection DEF Injection
<1> QED
  BY <1>2, <1>3, <1>5 DEF Surjection, order
\* The parts of the calls of a response are one for each.
LEMMA CallPartsShow ==
    ASSUME NEW turn \in Turn, NEW calls \in SUBSET Call
    PROVE  LET parts == CallParts(turn, calls)
           IN  /\ parts \in Seq(RequestPart)
               /\ \A k \in 1 .. Len(parts) :
                     parts[k].role = "call" /\ parts[k].turn = turn /\ parts[k].of \in calls
               /\ \A call \in calls : \E k \in 1 .. Len(parts) : parts[k].of = call
<1> DEFINE N == Cardinality(calls)
           order == SetToSeq(calls)
           parts == CallParts(turn, calls)
<1>1. N \in Nat /\ order \in [1 .. N -> calls] /\ \A call \in calls : \E k \in 1 .. N : order[k] = call
  BY OrderOfCalls
<1>2. parts = [k \in DOMAIN order |-> Part("call", order[k], turn, FALSE)]
  BY DEF CallParts
<1> HIDE DEF N, order, parts
<1>3. DOMAIN order = 1 .. N /\ turn \in 0 .. MaxTurn
  BY <1>1, MaxTurnAssumption DEF Turn
<1>4. \A k \in 1 .. N : /\ parts[k] \in RequestPart /\ parts[k].role = "call"
                        /\ parts[k].of = order[k] /\ parts[k].turn = turn
  <2> SUFFICES ASSUME NEW k \in 1 .. N
               PROVE  /\ parts[k] \in RequestPart /\ parts[k].role = "call"
                      /\ parts[k].of = order[k] /\ parts[k].turn = turn
    OBVIOUS
  <2>1. parts[k] = Part("call", order[k], turn, FALSE) /\ order[k] \in {0} \cup External \cup Call
    BY <1>1, <1>2, <1>3
  <2> QED
    BY <1>3, <2>1 DEF Part, RequestPart
<1>5. parts \in [1 .. N -> RequestPart]
  BY <1>2, <1>3, <1>4
<1>6. parts \in Seq(RequestPart) /\ Len(parts) = N
  BY <1>1, <1>5
<1> QED
  BY <1>1, <1>4, <1>6 DEF parts

-----------------------------------------------------------------------------
(* What the context keeps of a history.                                    *)

\* The context shows a status unless its operations are missing.
IsShown(item, key) == IsStatusOf(item, key) /\ ~AreInherited(item.ops)

Made(h, n, key) == \E i \in 1 .. n : MakesCall(h[i], key)
MadeHere(h, n, key) == \E i \in Own(h, n) : MakesCall(h[i], key)
Noted(h, n, key) == \E i \in 1 .. n : IsShown(h[i], key)
Ended(h, n, key) == \E i \in 1 .. n : IsStatusOf(h[i], key) /\ IsResult(h[i])

\* At most one call has this ID.
Lone(h, n, call) ==
    \A key, other \in Key :
        Made(h, n, key) /\ Made(h, n, other) /\ key[2] = call /\ other[2] = call => key = other

\* Turns are counted, and when one begins every call has a status, unless a fork has
\* lost it.
TurnsAreCounted(h) ==
    \A j \in DOMAIN h : h[j].kind = "turn" =>
        \/ h[j].turn = 1
        \/ \E i \in DOMAIN h : i < j /\ h[i].kind = "turn" /\ h[i].turn = h[j].turn - 1

\* A fork has lost the operations of an inherited call.
Lost(h, key) ==
    /\ ~MadeHere(h, Len(h), key)
    /\ \A i \in DOMAIN h : IsStatusOf(h[i], key) => ~IsResult(h[i])

CallsAreNoted(h) ==
    \A j \in DOMAIN h, key \in Key :
        h[j].kind = "turn" /\ Made(h, j - 1, key) => Noted(h, j - 1, key) \/ Lost(h, key)

\* The open calls are those of the session without a result.
OpenAreUnended(h, n, c) ==
    \A key \in Key : key \in c.open <=> MadeHere(h, n, key) /\ ~Ended(h, n, key)

\* The number of requests is the latest turn.
TurnsAreSent(h, n, c) ==
    /\ \A i \in 1 .. n : h[i].kind = "turn" => h[i].turn <= Len(c.requests)
    /\ Len(c.requests) # 0 =>
          \E i \in 1 .. n : h[i].kind = "turn" /\ h[i].turn = Len(c.requests)

\* What has been sent stays as it is until it is answered.
SentIsKept(h, n, c) ==
    LET last == Len(c.requests)
    IN  last # 0 /\ (\A i \in 1 .. n : h[i].kind = "response" => h[i].turn # last) =>
            c.committed = c.requests[last]

\* A response stands behind the request it answers.
AnswersFollow(c) ==
    \A k \in DOMAIN c.committed : c.committed[k].role = "assistant" =>
        LET turn == c.committed[k].turn
        IN  turn \in DOMAIN c.requests /\ SubSeq(c.committed, 1, k - 1) = c.requests[turn]

IsCall(p, key) == p.role = "call" /\ p.turn = key[1] /\ p.of = key[2]

\* The calls that the context shows are those that were made.
CallsShow(h, n, c) ==
    /\ \A key \in Key : Made(h, n, key) => \E k \in DOMAIN c.committed : IsCall(c.committed[k], key)
    /\ \A k \in DOMAIN c.committed : c.committed[k].role = "call" =>
          \E key \in Key : Made(h, n, key) /\ IsCall(c.committed[k], key)
    /\ \A k \in DOMAIN c.staged : c.staged[k].role \in {"user", "result"}

\* Every call with a status has a result.
StatusesShow(h, n, c) ==
    \A key \in Key : Noted(h, n, key) =>
        Results(c.committed, key[2]) # {} \/ Results(c.staged, key[2]) # {}

\* Results stand behind a call of their ID, and the committed ones have been sent.
ResultsFollow(c) ==
    /\ \A k \in DOMAIN c.committed : c.committed[k].role = "result" =>
          /\ \E m \in DOMAIN c.committed :
                m < k /\ c.committed[m].role = "call" /\ c.committed[m].of = c.committed[k].of
          /\ Len(c.requests) # 0 /\ k <= Len(c.requests[Len(c.requests)])
    /\ \A k \in DOMAIN c.staged : c.staged[k].role = "result" =>
          /\ \E m \in DOMAIN c.committed :
                c.committed[m].role = "call" /\ c.committed[m].of = c.staged[k].of
          /\ c.staged[k] = Part("result", c.staged[k].of, 0, c.staged[k].running)

\* A final result is one of a call that has ended.
FinalsEnded(h, n, parts) ==
    \A k \in DOMAIN parts : parts[k].role = "result" /\ ~parts[k].running =>
        \E key \in Key : Made(h, n, key) /\ Ended(h, n, key) /\ key[2] = parts[k].of

\* The final result of a call is its last one, and one at most waits to be sent.
ResultsOnce(h, n, c) ==
    \A call \in Call : Lone(h, n, call) =>
        /\ \A i, j \in Results(c.committed, call) : ~c.committed[i].running => j <= i
        /\ \A i \in Results(c.committed, call) :
              ~c.committed[i].running => Results(c.staged, call) = {}
        /\ \A i, j \in Results(c.staged, call) : i = j

Shows(h, n, c) ==
    /\ OpenAreUnended(h, n, c) /\ TurnsAreSent(h, n, c) /\ SentIsKept(h, n, c)
    /\ AnswersFollow(c) /\ CallsShow(h, n, c) /\ StatusesShow(h, n, c) /\ ResultsFollow(c)
    /\ FinalsEnded(h, n, c.committed) /\ FinalsEnded(h, n, c.staged) /\ ResultsOnce(h, n, c)

\* What a context starts with.
LEMMA NewContextShows ==
    ASSUME NEW h
    PROVE  NewContext \in Context /\ Shows(h, 0, NewContext)
<1>1. SystemPart \in RequestPart /\ SystemPart.role = "system"
  BY Parts, MaxTurnAssumption DEF SystemPart, RequestPart, Part
<1> DEFINE c == NewContext
           committed == <<SystemPart>>
<1>2. /\ c.committed = committed /\ c.staged = <<>> /\ c.open = {} /\ c.requests = <<>>
      /\ c = [committed |-> committed, staged |-> <<>>, open |-> {}, requests |-> <<>>]
  BY DEF NewContext
<1>3. /\ committed \in Seq(RequestPart) /\ DOMAIN committed = {1} /\ committed[1].role = "system"
      /\ <<>> \in Seq(RequestPart) /\ <<>> \in Seq(Seq(RequestPart))
      /\ DOMAIN <<>> = {} /\ Len(<<>>) = 0
  BY <1>1
<1>4. \A key \in Key :
         ~Made(h, 0, key) /\ ~MadeHere(h, 0, key) /\ ~Noted(h, 0, key) /\ ~Ended(h, 0, key)
  BY DEF Made, MadeHere, Noted, Ended, Own
<1> HIDE DEF c, committed
<1>5. c \in Context
  BY <1>2, <1>3 DEF Context
<1>6. \A call : Results(c.committed, call) = {} /\ Results(c.staged, call) = {}
  BY <1>2, <1>3 DEF Results
<1>7. /\ OpenAreUnended(h, 0, c) /\ TurnsAreSent(h, 0, c) /\ SentIsKept(h, 0, c)
      /\ AnswersFollow(c) /\ CallsShow(h, 0, c) /\ StatusesShow(h, 0, c) /\ ResultsFollow(c)
  BY <1>2, <1>3, <1>4 DEF OpenAreUnended, TurnsAreSent, SentIsKept, AnswersFollow, CallsShow,
     StatusesShow, ResultsFollow
<1>8. FinalsEnded(h, 0, c.committed) /\ FinalsEnded(h, 0, c.staged) /\ ResultsOnce(h, 0, c)
  BY <1>2, <1>3, <1>6 DEF FinalsEnded, ResultsOnce
<1> QED
  BY <1>5, <1>7, <1>8 DEF Shows, c

-----------------------------------------------------------------------------
(* One item more.                                                          *)

\* A status with a result has all its operations.
LEMMA ResultsAreShown ==
    ASSUME NEW item, NEW key, IsStatusOf(item, key), IsResult(item)
    PROVE  IsShown(item, key)
BY DEF IsShown, IsStatusOf, IsResult, AreInherited, AllFinished, Mentioned, Finished

\* What one item more makes, notes and ends.
LEMMA NextPrefix ==
    ASSUME NEW h \in Seq(Item), NEW n \in Nat, n + 1 \in DOMAIN h
    PROVE  /\ h[n + 1] \in Item
           /\ \A i \in 1 .. n + 1 : i \in 1 .. n \/ i = n + 1
           /\ \A i \in 1 .. n : i \in 1 .. n + 1 /\ i \in DOMAIN h /\ i < n + 1
           /\ n + 1 \in 1 .. n + 1
           /\ \A key \in Key :
                 /\ Made(h, n + 1, key) <=> Made(h, n, key) \/ MakesCall(h[n + 1], key)
                 /\ h[n + 1].kind # "fork" =>
                       (MadeHere(h, n + 1, key) <=> MadeHere(h, n, key) \/ MakesCall(h[n + 1], key))
                 /\ Noted(h, n + 1, key) <=> Noted(h, n, key) \/ IsShown(h[n + 1], key)
                 /\ Ended(h, n + 1, key) <=>
                       Ended(h, n, key) \/ (IsStatusOf(h[n + 1], key) /\ IsResult(h[n + 1]))
<1>1. /\ h[n + 1] \in Item
      /\ \A i \in 1 .. n + 1 : i \in 1 .. n \/ i = n + 1
      /\ \A i \in 1 .. n : i \in 1 .. n + 1 /\ i \in DOMAIN h /\ i < n + 1
      /\ n + 1 \in 1 .. n + 1
  OBVIOUS
<1>2. \A key \in Key : h[n + 1].kind # "fork" =>
         (MadeHere(h, n + 1, key) <=> MadeHere(h, n, key) \/ MakesCall(h[n + 1], key))
  BY NextOwn DEF MadeHere
<1> QED
  BY <1>1, <1>2 DEF Made, Noted, Ended

\* A part that is no result, staged behind the others.
LEMMA UserIsStaged ==
    ASSUME NEW staged \in Seq(RequestPart), NEW u \in RequestPart, u.role = "user"
    PROVE  LET parts == Append(staged, u)
           IN  /\ parts \in Seq(RequestPart)
               /\ \A call : Results(parts, call) = Results(staged, call)
               /\ \A k \in DOMAIN parts :
                     (k \in DOMAIN staged /\ parts[k] = staged[k]) \/ parts[k].role = "user"
<1> DEFINE parts == Append(staged, u)
<1>1. /\ parts \in Seq(RequestPart)
      /\ \A k \in DOMAIN parts : (k \in DOMAIN staged /\ parts[k] = staged[k]) \/ parts[k] = u
      /\ \A k \in DOMAIN staged : k \in DOMAIN parts /\ parts[k] = staged[k]
  OBVIOUS
<1> HIDE DEF parts
<1>2. \A call : Results(parts, call) = Results(staged, call)
  BY <1>1 DEF Results
<1> QED
  BY <1>1, <1>2 DEF parts

\* A message is staged.
LEMMA MessageShows ==
    ASSUME NEW h \in Seq(Item), NEW n \in Nat, n + 1 \in DOMAIN h, h[n + 1].kind = "input",
           NEW c \in Context, Shows(h, n, c)
    PROVE  LET next == AddToContext(c, h[n + 1]) IN next \in Context /\ Shows(h, n + 1, next)
<1> DEFINE input == h[n + 1].input
           next == AddToContext(c, h[n + 1])
<1>1. /\ h[n + 1] \in Item
      /\ \A i \in 1 .. n + 1 : i \in 1 .. n \/ i = n + 1
      /\ \A i \in 1 .. n : i \in 1 .. n + 1 /\ i \in DOMAIN h
      /\ \A key \in Key :
            /\ Made(h, n + 1, key) <=> Made(h, n, key)
            /\ MadeHere(h, n + 1, key) <=> MadeHere(h, n, key)
            /\ Noted(h, n + 1, key) <=> Noted(h, n, key)
            /\ Ended(h, n + 1, key) <=> Ended(h, n, key)
  BY NextPrefix DEF MakesCall, IsStatusOf, IsShown
<1>2. \A call : Lone(h, n + 1, call) <=> Lone(h, n, call)
  BY <1>1 DEF Lone
<1>3. input \in Input
  BY <1>1, ItemKinds
<1>4. next = AddMessage(c, input)
  BY DEF AddToContext
<1> HIDE DEF input, next
<1>5. \/ next = c
      \/ \E u \in RequestPart : u.role = "user" /\ next = [c EXCEPT !.staged = Append(c.staged, u)]
  <2>1. CASE input.kind = "external"
    <3>1. input.id \in External
      BY <1>3, <2>1 DEF Input, Message, Control
    <3>2. LET u == Part("user", input.id, 0, FALSE) IN u \in RequestPart /\ u.role = "user"
      BY <3>1, MaxTurnAssumption DEF Part, RequestPart
    <3> QED
      BY <1>4, <2>1, <3>2 DEF AddMessage
  <2>2. CASE input.kind = "control" /\ input.mode = "heartbeat"
    <3>1. LET u == Part("user", 0, 0, FALSE) IN u \in RequestPart /\ u.role = "user"
      BY MaxTurnAssumption DEF Part, RequestPart
    <3> QED
      BY <1>4, <2>2, <3>1 DEF AddMessage
  <2>3. CASE input.kind # "external" /\ ~(input.kind = "control" /\ input.mode = "heartbeat")
    BY <1>4, <2>3 DEF AddMessage
  <2> QED
    BY <2>1, <2>2, <2>3
<1>6. /\ next \in Context /\ next.committed = c.committed /\ next.open = c.open
      /\ next.requests = c.requests
      /\ \A call : Results(next.staged, call) = Results(c.staged, call)
      /\ \A k \in DOMAIN next.staged :
            \/ k \in DOMAIN c.staged /\ next.staged[k] = c.staged[k]
            \/ next.staged[k].role = "user"
  <2>1. CASE next = c
    BY <2>1
  <2>2. ASSUME NEW u \in RequestPart, u.role = "user", next = [c EXCEPT !.staged = Append(c.staged, u)]
        PROVE  <1>6
    <3>1. c.staged \in Seq(RequestPart)
      BY DEF Context
    <3>2. next.staged = Append(c.staged, u) /\ Append(c.staged, u) \in Seq(RequestPart)
      BY <2>2, <3>1, UserIsStaged DEF Context
    <3>3. /\ next \in Context /\ next.committed = c.committed /\ next.open = c.open
          /\ next.requests = c.requests
      BY <2>2, <3>2 DEF Context
    <3> QED
      BY <2>2, <3>1, <3>2, <3>3, UserIsStaged
  <2> QED
    BY <1>5, <2>1, <2>2
<1>7. Len(c.requests) \in Nat
  BY DEF Context
<1>8. OpenAreUnended(h, n + 1, next)
  BY <1>1, <1>6 DEF Shows, OpenAreUnended
<1>9. TurnsAreSent(h, n + 1, next) /\ SentIsKept(h, n + 1, next)
  BY <1>1, <1>6 DEF Shows, TurnsAreSent, SentIsKept
<1>10. AnswersFollow(next) /\ CallsShow(h, n + 1, next)
  BY <1>1, <1>6 DEF Shows, AnswersFollow, CallsShow
<1>11. StatusesShow(h, n + 1, next) /\ ResultsFollow(next)
  BY <1>1, <1>6 DEF Shows, StatusesShow, ResultsFollow
<1>12. FinalsEnded(h, n + 1, next.committed) /\ FinalsEnded(h, n + 1, next.staged)
  BY <1>1, <1>6 DEF Shows, FinalsEnded
<1>13. ResultsOnce(h, n + 1, next)
  BY <1>2, <1>6 DEF Shows, ResultsOnce
<1> QED
  BY <1>6, <1>8, <1>9, <1>10, <1>11, <1>12, <1>13 DEF Shows, next

\* Where the results of two sequences stand in one.
LEMMA JoinedResults ==
    ASSUME NEW a \in Seq(RequestPart), NEW b \in Seq(RequestPart)
    PROVE  \A call, i : i \in Results(a \o b, call) <=>
              \/ i \in Results(a, call)
              \/ i \in DOMAIN (a \o b) /\ i > Len(a) /\ i - Len(a) \in Results(b, call)
<1> DEFINE c == a \o b
<1>1. /\ DOMAIN c = 1 .. (Len(a) + Len(b)) /\ Len(a) \in Nat /\ Len(b) \in Nat
      /\ DOMAIN a = 1 .. Len(a) /\ DOMAIN b = 1 .. Len(b)
      /\ \A i \in 1 .. Len(a) : c[i] = a[i]
      /\ \A i \in 1 .. Len(b) : c[Len(a) + i] = b[i]
  BY Joined
<1> HIDE DEF c
<1>2. ASSUME NEW i \in DOMAIN c
      PROVE  \/ i \in DOMAIN a /\ c[i] = a[i] /\ ~(i > Len(a))
             \/ i > Len(a) /\ i - Len(a) \in DOMAIN b /\ c[i] = b[i - Len(a)] /\ i \notin DOMAIN a
  <2>1. CASE i \in 1 .. Len(a)
    BY <1>1, <2>1
  <2>2. CASE i \notin 1 .. Len(a)
    <3>1. i > Len(a) /\ i - Len(a) \in 1 .. Len(b) /\ Len(a) + (i - Len(a)) = i
      BY <1>1, <2>2
    <3> QED
      BY <1>1, <2>2, <3>1
  <2> QED
    BY <2>1, <2>2
<1>3. DOMAIN a \subseteq DOMAIN c
  BY <1>1
<1> QED
  BY <1>2, <1>3 DEF Results, c

\* The turn that begins is the one after the requests.
LEMMA NextTurn ==
    ASSUME NEW h \in Seq(Item), InOrder(h), TurnsAreCounted(h), NEW n \in Nat,
           n + 1 \in DOMAIN h, h[n + 1].kind = "turn", NEW c \in Context, TurnsAreSent(h, n, c)
    PROVE  h[n + 1].turn = Len(c.requests) + 1
<1> DEFINE last == Len(c.requests)
           turn == h[n + 1].turn
<1>1. /\ last \in Nat /\ turn \in Nat /\ 1 <= turn
      /\ \A i \in 1 .. n : i \in DOMAIN h /\ i < n + 1
      /\ \A i \in DOMAIN h : i < n + 1 => i \in 1 .. n
      /\ \A i \in DOMAIN h : h[i].kind = "turn" => h[i].turn \in Nat
  <2>1. last \in Nat
    BY DEF Context
  <2>2. \A i \in DOMAIN h : h[i].kind = "turn" => h[i].turn \in Turn
    BY ItemKinds
  <2>3. \A t \in Turn : t \in Nat /\ 1 <= t
    BY MaxTurnAssumption DEF Turn
  <2> QED
    BY <2>1, <2>2, <2>3
<1>2. \A i \in 1 .. n : h[i].kind = "turn" => h[i].turn <= last /\ h[i].turn < turn
  BY <1>1 DEF TurnsAreSent, InOrder, TurnsGrow
<1>3. turn = 1 \/ \E i \in 1 .. n : h[i].kind = "turn" /\ h[i].turn = turn - 1
  BY <1>1 DEF TurnsAreCounted
<1>4. last # 0 => last < turn
  BY <1>2 DEF TurnsAreSent
<1>5. turn - 1 <= last
  BY <1>1, <1>2, <1>3
<1> HIDE DEF last, turn
<1> QED
  BY <1>1, <1>4, <1>5 DEF last, turn

\* The new request is built and committed.
LEMMA TurnShows ==
    ASSUME NEW h \in Seq(Item), InOrder(h), TurnsAreCounted(h), NEW n \in Nat,
           n + 1 \in DOMAIN h, h[n + 1].kind = "turn", NEW c \in Context, Shows(h, n, c)
    PROVE  LET next == AddToContext(c, h[n + 1]) IN next \in Context /\ Shows(h, n + 1, next)
<1> DEFINE next == AddToContext(c, h[n + 1])
           built == Build(c)
           last == Len(c.requests)
           A == Len(c.committed)
<1>1. /\ h[n + 1] \in Item
      /\ \A i \in 1 .. n + 1 : i \in 1 .. n \/ i = n + 1
      /\ \A i \in 1 .. n : i \in 1 .. n + 1 /\ i \in DOMAIN h /\ i < n + 1
      /\ n + 1 \in 1 .. n + 1
      /\ \A key \in Key :
            /\ Made(h, n + 1, key) <=> Made(h, n, key)
            /\ MadeHere(h, n + 1, key) <=> MadeHere(h, n, key)
            /\ Noted(h, n + 1, key) <=> Noted(h, n, key)
            /\ Ended(h, n + 1, key) <=> Ended(h, n, key)
  BY NextPrefix DEF MakesCall, IsStatusOf, IsShown
<1>2. \A call : Lone(h, n + 1, call) <=> Lone(h, n, call)
  BY <1>1 DEF Lone
<1>3. h[n + 1].turn = last + 1
  BY NextTurn DEF Shows
<1>4. /\ c.committed \in Seq(RequestPart) /\ c.staged \in Seq(RequestPart) /\ c.open \subseteq Key
      /\ c.requests \in Seq(Seq(RequestPart)) /\ last \in Nat /\ A \in Nat
      /\ DOMAIN c.committed = 1 .. A /\ DOMAIN c.requests = 1 .. last
  BY DEF Context
<1>5. /\ built \in Seq(RequestPart) /\ Len(c.staged) \in Nat
      /\ DOMAIN built = 1 .. (A + Len(c.staged)) /\ Len(built) = A + Len(c.staged)
      /\ DOMAIN c.staged = 1 .. Len(c.staged)
      /\ \A i \in 1 .. A : built[i] = c.committed[i]
      /\ \A i \in 1 .. Len(c.staged) : built[A + i] = c.staged[i]
  <2> DEFINE a == c.committed
             b == c.staged
  <2>1. a \in Seq(RequestPart) /\ b \in Seq(RequestPart) /\ built = a \o b /\ A = Len(a)
    BY <1>4 DEF Build
  <2> HIDE DEF a, b, built, A
  <2> QED
    BY <2>1, Joined DEF a, b
<1>6. \A k \in 1 .. A : SubSeq(built, 1, k - 1) = SubSeq(c.committed, 1, k - 1)
  BY <1>4, JoinedBefore DEF Build
<1>7. \A call, i : i \in Results(built, call) <=>
         \/ i \in Results(c.committed, call)
         \/ i \in DOMAIN built /\ i > A /\ i - A \in Results(c.staged, call)
  BY <1>4, JoinedResults DEF Build
<1>8. next = [c EXCEPT !.requests = Append(c.requests, built), !.committed = built, !.staged = <<>>]
  BY DEF AddToContext, Commit
<1> HIDE DEF next, built, last, A
<1>9. /\ next.committed = built /\ next.staged = <<>> /\ next.open = c.open
      /\ next.requests = Append(c.requests, built) /\ next \in Context
  <2>1. Append(c.requests, built) \in Seq(Seq(RequestPart)) /\ <<>> \in Seq(RequestPart)
    BY <1>4, <1>5
  <2> QED
    BY <1>4, <1>5, <1>8, <2>1 DEF Context
<1>10. /\ Len(next.requests) = last + 1 /\ next.requests[last + 1] = built
       /\ DOMAIN next.requests = 1 .. last + 1
       /\ \A i \in 1 .. last : next.requests[i] = c.requests[i] /\ i \in 1 .. last + 1
  BY <1>4, <1>5, <1>9 DEF last
<1>11. DOMAIN next.staged = {} /\ \A call : Results(next.staged, call) = {}
  BY <1>9 DEF Results
<1>12. \A k \in DOMAIN built :
         \/ k \in DOMAIN c.committed /\ built[k] = c.committed[k] /\ k \in 1 .. A
         \/ k > A /\ k - A \in DOMAIN c.staged /\ built[k] = c.staged[k - A]
  <2> SUFFICES ASSUME NEW k \in DOMAIN built, ~(k \in 1 .. A)
               PROVE  k > A /\ k - A \in DOMAIN c.staged /\ built[k] = c.staged[k - A]
    BY <1>4, <1>5
  <2>1. k > A /\ k - A \in 1 .. Len(c.staged) /\ A + (k - A) = k
    <3> DEFINE L == Len(c.staged)
    <3>1. A \in Nat /\ L \in Nat /\ k \in 1 .. (A + L)
      BY <1>4, <1>5
    <3> HIDE DEF L
    <3>2. k > A /\ k - A \in 1 .. L /\ A + (k - A) = k
      BY <3>1
    <3> QED
      BY <3>2 DEF L
  <2> QED
    BY <1>5, <2>1
<1>13. DOMAIN c.committed \subseteq DOMAIN built /\ DOMAIN built \subseteq Int
  BY <1>4, <1>5
<1>14. OpenAreUnended(h, n + 1, next)
  BY <1>1, <1>9 DEF Shows, OpenAreUnended
<1>15. TurnsAreSent(h, n + 1, next)
  <2>1. \A i \in 1 .. n : h[i].kind = "turn" => h[i].turn \in Int /\ h[i].turn <= last
    BY <1>1, ItemKinds, MaxTurnAssumption DEF Shows, TurnsAreSent, last, Turn
  <2>2. \A i \in 1 .. n + 1 : h[i].kind = "turn" => h[i].turn <= last + 1
    <3> SUFFICES ASSUME NEW i \in 1 .. n + 1, h[i].kind = "turn" PROVE h[i].turn <= last + 1
      OBVIOUS
    <3>1. CASE i \in 1 .. n
      BY <1>4, <2>1, <3>1
    <3>2. CASE i = n + 1
      BY <1>3, <1>4, <3>2
    <3> QED
      BY <1>1, <3>1, <3>2
  <2> QED
    BY <1>1, <1>3, <1>10, <2>2 DEF TurnsAreSent
<1>16. SentIsKept(h, n + 1, next)
  BY <1>9, <1>10 DEF SentIsKept
<1>17. AnswersFollow(next)
  <2> SUFFICES ASSUME NEW k \in DOMAIN built, built[k].role = "assistant"
               PROVE  /\ built[k].turn \in DOMAIN next.requests
                      /\ SubSeq(built, 1, k - 1) = next.requests[built[k].turn]
    BY <1>9 DEF AnswersFollow
  <2>1. k \in DOMAIN c.committed /\ built[k] = c.committed[k] /\ k \in 1 .. A
    BY <1>12 DEF Shows, CallsShow
  <2>2. /\ built[k].turn \in 1 .. last
        /\ SubSeq(c.committed, 1, k - 1) = c.requests[built[k].turn]
    BY <1>4, <2>1 DEF Shows, AnswersFollow
  <2> QED
    BY <1>6, <1>10, <2>1, <2>2
<1>18. CallsShow(h, n + 1, next)
  <2>1. \A key \in Key : Made(h, n + 1, key) => \E k \in DOMAIN built : IsCall(built[k], key)
    BY <1>1, <1>4, <1>5, <1>13 DEF Shows, CallsShow
  <2>2. \A k \in DOMAIN built : built[k].role = "call" =>
          \E key \in Key : Made(h, n + 1, key) /\ IsCall(built[k], key)
    BY <1>1, <1>12 DEF Shows, CallsShow
  <2> QED
    BY <1>9, <1>11, <2>1, <2>2 DEF CallsShow
<1>19. StatusesShow(h, n + 1, next)
  <2> SUFFICES ASSUME NEW key \in Key, Noted(h, n + 1, key)
               PROVE  Results(built, key[2]) # {}
    BY <1>9 DEF StatusesShow
  <2>1. CASE Results(c.committed, key[2]) # {}
    BY <1>7, <2>1
  <2>2. CASE Results(c.staged, key[2]) # {}
    <3>1. PICK i \in DOMAIN c.staged : i \in Results(c.staged, key[2])
      BY <2>2 DEF Results
    <3>2. A + i \in DOMAIN built /\ A + i > A /\ (A + i) - A = i
      BY <1>4, <1>5, <3>1
    <3> QED
      BY <1>7, <3>1, <3>2
  <2> QED
    BY <1>1, <2>1, <2>2 DEF Shows, StatusesShow
<1>20. ResultsFollow(next)
  <2>1. ASSUME NEW k \in DOMAIN built, built[k].role = "result"
        PROVE  \E m \in DOMAIN built : m < k /\ built[m].role = "call" /\ built[m].of = built[k].of
    <3>1. CASE k \in DOMAIN c.committed /\ built[k] = c.committed[k]
      <4>1. PICK m \in DOMAIN c.committed :
              m < k /\ c.committed[m].role = "call" /\ c.committed[m].of = c.committed[k].of
        BY <2>1, <3>1 DEF Shows, ResultsFollow
      <4> QED
        BY <1>4, <1>5, <1>13, <3>1, <4>1
    <3>2. CASE k > A /\ k - A \in DOMAIN c.staged /\ built[k] = c.staged[k - A]
      <4>1. PICK m \in DOMAIN c.committed :
              c.committed[m].role = "call" /\ c.committed[m].of = c.staged[k - A].of
        BY <2>1, <3>2 DEF Shows, ResultsFollow
      <4>2. m < k
        BY <1>4, <1>13, <3>2
      <4> QED
        BY <1>4, <1>5, <1>13, <3>2, <4>1, <4>2
    <3> QED
      BY <1>12, <3>1, <3>2
  <2>2. \A k \in DOMAIN built : k <= Len(built)
    BY <1>4, <1>5
  <2>3. last + 1 # 0
    BY <1>4
  <2> QED
    BY <1>9, <1>10, <1>11, <2>1, <2>2, <2>3 DEF ResultsFollow
<1>21. FinalsEnded(h, n + 1, next.committed) /\ FinalsEnded(h, n + 1, next.staged)
  BY <1>1, <1>9, <1>11, <1>12 DEF Shows, FinalsEnded
<1>22. ResultsOnce(h, n + 1, next)
  <2> SUFFICES ASSUME NEW call \in Call, Lone(h, n, call), NEW i \in Results(built, call),
                      NEW j \in Results(built, call), ~built[i].running
               PROVE  j <= i
    BY <1>2, <1>9, <1>11 DEF ResultsOnce
  <2>1. /\ \A x, y \in Results(c.committed, call) : ~c.committed[x].running => y <= x
        /\ \A x \in Results(c.committed, call) :
              ~c.committed[x].running => Results(c.staged, call) = {}
        /\ \A x, y \in Results(c.staged, call) : x = y
    BY DEF Shows, ResultsOnce
  <2>2. /\ i \in DOMAIN built /\ j \in DOMAIN built /\ i \in Int /\ j \in Int
        /\ i \in Results(c.committed, call) => built[i] = c.committed[i] /\ i <= A
        /\ j \in Results(c.committed, call) => j <= A
    BY <1>4, <1>5, <1>13 DEF Results
  <2>3. CASE i \in Results(c.committed, call)
    BY <1>7, <2>1, <2>2, <2>3
  <2>4. CASE i > A /\ i - A \in Results(c.staged, call) /\ j \in Results(c.committed, call)
    BY <1>4, <2>2, <2>4
  <2>5. CASE i > A /\ i - A \in Results(c.staged, call) /\ j > A /\ j - A \in Results(c.staged, call)
    <3>1. i - A = j - A
      BY <2>1, <2>5
    <3> QED
      BY <1>4, <2>2, <3>1
  <2> QED
    BY <1>7, <2>3, <2>4, <2>5
<1> QED
  BY <1>9, <1>14, <1>15, <1>16, <1>17, <1>18, <1>19, <1>20, <1>21, <1>22 DEF Shows, next

\* A call that has a status has been made.
LEMMA NotedAreMade ==
    ASSUME NEW h \in Seq(Item), InOrder(h), NEW n \in 0 .. Len(h), NEW key \in Key,
           NEW j \in 1 .. n, IsStatusOf(h[j], key)
    PROVE  Made(h, n, key)
<1>1. j \in DOMAIN h /\ 1 .. (j - 1) \subseteq 1 .. n
  OBVIOUS
<1> QED
  BY <1>1 DEF InOrder, StatusesFollowCalls, Made, Own

\* A response answers the last request, which nothing has answered.
LEMMA ResponseIsLatest ==
    ASSUME NEW h \in Seq(Item), InOrder(h), NEW n \in Nat, n + 1 \in DOMAIN h,
           h[n + 1].kind = "response", NEW c \in Context, TurnsAreSent(h, n, c)
    PROVE  /\ h[n + 1].turn = Len(c.requests) /\ Len(c.requests) # 0
           /\ \A i \in 1 .. n : h[i].kind = "response" => h[i].turn # h[n + 1].turn
<1> DEFINE last == Len(c.requests)
           turn == h[n + 1].turn
<1>1. /\ last \in Nat /\ turn \in Nat /\ 1 <= turn
      /\ \A i \in 1 .. n : i \in DOMAIN h /\ i < n + 1 /\ i # n + 1
      /\ \A i \in DOMAIN h : i < n + 1 => i \in 1 .. n
  <2>1. last \in Nat
    BY DEF Context
  <2>2. turn \in Turn
    BY ItemKinds
  <2>3. \A t \in Turn : t \in Nat /\ 1 <= t
    BY MaxTurnAssumption DEF Turn
  <2> QED
    BY <2>1, <2>2, <2>3
<1>2. turn <= last
  <2>1. (n + 1) - 1 = n
    OBVIOUS
  <2> QED
    BY <1>1, <2>1 DEF InOrder, ResponsesFollowTurns, TurnsAreSent, Own
<1>3. last # 0 => last <= turn
  BY <1>1 DEF InOrder, LatestIsAnswered, TurnsAreSent
<1>4. \A i \in 1 .. n : h[i].kind = "response" => h[i].turn # turn
  BY <1>1 DEF InOrder, TurnsAreAnsweredOnce
<1> HIDE DEF last, turn
<1>5. turn = last /\ last # 0
  BY <1>1, <1>2, <1>3
<1> QED
  BY <1>4, <1>5 DEF last, turn

\* The parts of a response: the answer, then its calls.
LEMMA ResponsePartsShow ==
    ASSUME NEW turn \in Turn, NEW calls \in SUBSET Call
    PROVE  LET parts == ResponseParts(turn, calls)
           IN  /\ parts \in Seq(RequestPart)
               /\ \A k \in DOMAIN parts :
                     \/ k = 1 /\ parts[k].role = "assistant" /\ parts[k].turn = turn
                     \/ /\ parts[k].role = "call" /\ parts[k].turn = turn
                        /\ parts[k].of \in calls
               /\ \A call \in calls : \E k \in DOMAIN parts :
                     parts[k].role = "call" /\ parts[k].turn = turn /\ parts[k].of = call
<1> DEFINE a == <<Part("assistant", 0, turn, FALSE)>>
           b == CallParts(turn, calls)
           parts == a \o b
<1>1. /\ b \in Seq(RequestPart)
      /\ \A k \in 1 .. Len(b) : b[k].role = "call" /\ b[k].turn = turn /\ b[k].of \in calls
      /\ \A call \in calls : \E k \in 1 .. Len(b) : b[k].of = call
  BY CallPartsShow
<1>2. a \in Seq(RequestPart) /\ Len(a) = 1 /\ a[1].role = "assistant" /\ a[1].turn = turn
  <2>1. turn \in 0 .. MaxTurn
    BY MaxTurnAssumption DEF Turn
  <2> DEFINE p == Part("assistant", 0, turn, FALSE)
  <2>2. p \in RequestPart /\ p.role = "assistant" /\ p.turn = turn
    BY <2>1 DEF Part, RequestPart
  <2> HIDE DEF p
  <2>3. a = <<p>>
    BY DEF p
  <2> HIDE DEF a
  <2> QED
    BY <2>2, <2>3
<1> HIDE DEF a, b
<1>3. /\ parts \in Seq(RequestPart) /\ Len(b) \in Nat /\ DOMAIN parts = 1 .. (Len(a) + Len(b))
      /\ \A i \in 1 .. Len(a) : parts[i] = a[i]
      /\ \A i \in 1 .. Len(b) : parts[Len(a) + i] = b[i]
  <2>1. a \in Seq(RequestPart) /\ b \in Seq(RequestPart)
    BY <1>1, <1>2
  <2> QED
    BY ONLY <2>1, Joined
<1> HIDE DEF parts
<1>4. parts[1] = a[1] /\ \A i \in 1 .. Len(b) : parts[1 + i] = b[i] /\ 1 + i \in DOMAIN parts
  BY <1>2, <1>3
<1>5. \A k \in DOMAIN parts : k = 1 \/ (k - 1 \in 1 .. Len(b) /\ 1 + (k - 1) = k)
  BY <1>2, <1>3
<1>6. \A k \in DOMAIN parts :
         \/ k = 1 /\ parts[k].role = "assistant" /\ parts[k].turn = turn
         \/ parts[k].role = "call" /\ parts[k].turn = turn /\ parts[k].of \in calls
  <2>1. parts[1].role = "assistant" /\ parts[1].turn = turn
    BY <1>2, <1>4
  <2>2. ASSUME NEW i \in 1 .. Len(b)
        PROVE  parts[1 + i].role = "call" /\ parts[1 + i].turn = turn /\ parts[1 + i].of \in calls
    BY <1>1, <1>4
  <2>3. ASSUME NEW k \in DOMAIN parts, k # 1
        PROVE  parts[k].role = "call" /\ parts[k].turn = turn /\ parts[k].of \in calls
    BY <1>5, <2>2, <2>3
  <2> QED
    BY <2>1, <2>3
<1>7. \A call \in calls : \E k \in DOMAIN parts :
         parts[k].role = "call" /\ parts[k].turn = turn /\ parts[k].of = call
  <2> SUFFICES ASSUME NEW call \in calls
               PROVE  \E k \in DOMAIN parts :
                         parts[k].role = "call" /\ parts[k].turn = turn /\ parts[k].of = call
    OBVIOUS
  <2>1. PICK i \in 1 .. Len(b) : b[i].of = call
    BY <1>1
  <2>2. b[i].role = "call" /\ b[i].turn = turn /\ parts[1 + i] = b[i] /\ 1 + i \in DOMAIN parts
    BY <1>1, <1>4
  <2> QED
    BY <2>1, <2>2
<1> QED
  BY <1>3, <1>6, <1>7 DEF ResponseParts, parts, a, b

\* A response is put behind what was sent.
LEMMA ResponseShows ==
    ASSUME NEW h \in Seq(Item), InOrder(h), NEW n \in Nat,
           n + 1 \in DOMAIN h, h[n + 1].kind = "response", NEW c \in Context, Shows(h, n, c)
    PROVE  LET next == AddToContext(c, h[n + 1]) IN next \in Context /\ Shows(h, n + 1, next)
<1> DEFINE item == h[n + 1]
           next == AddToContext(c, item)
           parts == ResponseParts(item.turn, item.calls)
           longer == c.committed \o parts
           last == Len(c.requests)
           A == Len(c.committed)
<1>1. /\ h[n + 1] \in Item
      /\ \A i \in 1 .. n + 1 : i \in 1 .. n \/ i = n + 1
      /\ \A i \in 1 .. n : i \in 1 .. n + 1 /\ i \in DOMAIN h /\ i < n + 1
      /\ n + 1 \in 1 .. n + 1
      /\ \A key \in Key :
            /\ Made(h, n + 1, key) <=> Made(h, n, key) \/ MakesCall(h[n + 1], key)
            /\ MadeHere(h, n + 1, key) <=> MadeHere(h, n, key) \/ MakesCall(h[n + 1], key)
            /\ Noted(h, n + 1, key) <=> Noted(h, n, key)
            /\ Ended(h, n + 1, key) <=> Ended(h, n, key)
  BY NextPrefix DEF IsStatusOf, IsShown
<1>2. item.turn \in Turn /\ item.calls \in SUBSET Call
  BY <1>1, ItemKinds
<1>3. /\ item.turn = last /\ last # 0
      /\ \A i \in 1 .. n : h[i].kind = "response" => h[i].turn # item.turn
  BY ResponseIsLatest DEF Shows
<1>4. \A key \in Key : MakesCall(item, key) <=> key[1] = item.turn /\ key[2] \in item.calls
  BY DEF MakesCall
<1>5. \A key \in Key : MakesCall(item, key) => ~Ended(h, n, key)
  <2> SUFFICES ASSUME NEW key \in Key, MakesCall(item, key), Ended(h, n, key) PROVE FALSE
    OBVIOUS
  <2>1. n \in 0 .. Len(h) /\ \E j \in 1 .. n : IsStatusOf(h[j], key)
    BY DEF Ended
  <2>2. PICK i \in 1 .. n : MakesCall(h[i], key)
    BY <2>1, NotedAreMade DEF Made
  <2> QED
    BY <1>3, <1>4, <2>2 DEF MakesCall
<1>6. /\ c.committed \in Seq(RequestPart) /\ c.staged \in Seq(RequestPart) /\ c.open \subseteq Key
      /\ c.requests \in Seq(Seq(RequestPart)) /\ last \in Nat /\ A \in Nat
      /\ DOMAIN c.committed = 1 .. A /\ DOMAIN c.requests = 1 .. last
  BY DEF Context
<1>7. /\ parts \in Seq(RequestPart)
      /\ \A k \in DOMAIN parts :
            \/ k = 1 /\ parts[k].role = "assistant" /\ parts[k].turn = item.turn
            \/ /\ parts[k].role = "call" /\ parts[k].turn = item.turn
               /\ parts[k].of \in item.calls
      /\ \A call \in item.calls : \E k \in DOMAIN parts :
            parts[k].role = "call" /\ parts[k].turn = item.turn /\ parts[k].of = call
  <2> DEFINE turn == item.turn
             calls == item.calls
  <2>1. turn \in Turn /\ calls \in SUBSET Call
    BY <1>2
  <2> HIDE DEF turn, calls
  <2>2. LET all == ResponseParts(turn, calls)
        IN  /\ all \in Seq(RequestPart)
            /\ \A k \in DOMAIN all :
                  \/ k = 1 /\ all[k].role = "assistant" /\ all[k].turn = turn
                  \/ /\ all[k].role = "call" /\ all[k].turn = turn
                     /\ all[k].of \in calls
            /\ \A call \in calls : \E k \in DOMAIN all :
                  all[k].role = "call" /\ all[k].turn = turn /\ all[k].of = call
    BY <2>1, ResponsePartsShow
  <2> QED
    BY <2>2 DEF turn, calls
<1>8. next = [c EXCEPT !.committed = longer,
                       !.open = c.open \union {<<item.turn, call>> : call \in item.calls}]
  BY DEF AddToContext, AddOutput
<1> HIDE DEF parts
<1>9. /\ longer \in Seq(RequestPart) /\ Len(parts) \in Nat
      /\ DOMAIN longer = 1 .. (A + Len(parts))
      /\ DOMAIN parts = 1 .. Len(parts)
      /\ \A i \in 1 .. A : longer[i] = c.committed[i]
      /\ \A i \in 1 .. Len(parts) : longer[A + i] = parts[i]
  <2> DEFINE a == c.committed
  <2>1. a \in Seq(RequestPart) /\ longer = a \o parts /\ A = Len(a)
    BY <1>6
  <2> HIDE DEF a, longer, A
  <2> QED
    BY <1>7, <2>1, Joined DEF a
<1>10. /\ \A k \in 1 .. A : SubSeq(longer, 1, k - 1) = SubSeq(c.committed, 1, k - 1)
       /\ SubSeq(longer, 1, A) = c.committed
  BY <1>6, <1>7, JoinedBefore
<1>11. \A call, i : i \in Results(longer, call) <=>
         \/ i \in Results(c.committed, call)
         \/ i \in DOMAIN longer /\ i > A /\ i - A \in Results(parts, call)
  BY <1>6, <1>7, JoinedResults
<1> HIDE DEF next, longer, last, A, item
<1>12. /\ next.committed = longer /\ next.staged = c.staged /\ next.requests = c.requests
       /\ next.open = c.open \union {<<item.turn, call>> : call \in item.calls}
       /\ next \in Context
  <2>1. {<<item.turn, call>> : call \in item.calls} \subseteq Key
    BY <1>2 DEF Key
  <2> QED
    BY <1>6, <1>8, <1>9, <2>1 DEF Context
<1>13. \A call : Results(longer, call) = Results(c.committed, call)
  <2>1. \A call : Results(parts, call) = {}
    BY <1>7 DEF Results
  <2> QED
    BY <1>11, <2>1
<1>14. \A k \in DOMAIN longer :
         \/ k \in DOMAIN c.committed /\ longer[k] = c.committed[k] /\ k \in 1 .. A
         \/ k - A \in DOMAIN parts /\ longer[k] = parts[k - A] /\ k = A + (k - A)
  <2> SUFFICES ASSUME NEW k \in DOMAIN longer, ~(k \in 1 .. A)
               PROVE  k - A \in DOMAIN parts /\ longer[k] = parts[k - A] /\ k = A + (k - A)
    BY <1>6, <1>9
  <2>1. k - A \in 1 .. Len(parts) /\ A + (k - A) = k
    BY <1>6, <1>9
  <2> QED
    BY <1>9, <2>1
<1>15. DOMAIN c.committed \subseteq DOMAIN longer /\ DOMAIN longer \subseteq Int
  BY <1>6, <1>9
<1>16. OpenAreUnended(h, n + 1, next)
  <2> SUFFICES ASSUME NEW key \in Key
               PROVE  key \in next.open <=> MadeHere(h, n + 1, key) /\ ~Ended(h, n + 1, key)
    BY DEF OpenAreUnended
  <2>1. key \in next.open <=> key \in c.open \/ MakesCall(item, key)
    BY <1>4, <1>12 DEF Key
  <2> QED
    BY <1>1, <1>5, <2>1 DEF Shows, OpenAreUnended, item
<1>17. TurnsAreSent(h, n + 1, next)
  BY <1>1, <1>12 DEF Shows, TurnsAreSent
<1>18. SentIsKept(h, n + 1, next)
  BY <1>1, <1>3, <1>12 DEF SentIsKept, last, item
<1>19. c.committed = c.requests[last]
  BY <1>3 DEF Shows, SentIsKept, last
<1>20. AnswersFollow(next)
  <2> SUFFICES ASSUME NEW k \in DOMAIN longer, longer[k].role = "assistant"
               PROVE  /\ longer[k].turn \in DOMAIN c.requests
                      /\ SubSeq(longer, 1, k - 1) = c.requests[longer[k].turn]
    BY <1>12 DEF AnswersFollow
  <2>1. CASE k \in DOMAIN c.committed /\ longer[k] = c.committed[k] /\ k \in 1 .. A
    BY <1>10, <2>1 DEF Shows, AnswersFollow
  <2>2. CASE k - A \in DOMAIN parts /\ longer[k] = parts[k - A] /\ k = A + (k - A)
    <3>1. k - A = 1 /\ longer[k].turn = last
      BY <1>3, <1>7, <2>2
    <3>2. k - 1 = A /\ last \in DOMAIN c.requests
      BY <1>3, <1>6, <2>2, <3>1
    <3> QED
      BY <1>10, <1>19, <3>1, <3>2
  <2> QED
    BY <1>14, <2>1, <2>2
<1>21. CallsShow(h, n + 1, next)
  <2>1. ASSUME NEW key \in Key, Made(h, n + 1, key)
        PROVE  \E k \in DOMAIN longer : IsCall(longer[k], key)
    <3>1. CASE Made(h, n, key)
      BY <1>6, <1>9, <1>15, <3>1 DEF Shows, CallsShow
    <3>2. CASE MakesCall(item, key)
      <4>1. PICK k \in DOMAIN parts : IsCall(parts[k], key)
        BY <1>4, <1>7, <3>2 DEF IsCall
      <4>2. A + k \in DOMAIN longer /\ longer[A + k] = parts[k]
        BY <1>6, <1>9, <4>1
      <4> QED
        BY <4>1, <4>2
    <3> QED
      BY <1>1, <2>1, <3>1, <3>2 DEF item
  <2>2. ASSUME NEW k \in DOMAIN longer, longer[k].role = "call"
        PROVE  \E key \in Key : Made(h, n + 1, key) /\ IsCall(longer[k], key)
    <3>1. CASE k \in DOMAIN c.committed /\ longer[k] = c.committed[k]
      BY <1>1, <2>2, <3>1 DEF Shows, CallsShow
    <3>2. CASE k - A \in DOMAIN parts /\ longer[k] = parts[k - A]
      <4> DEFINE key == <<item.turn, longer[k].of>>
      <4>1. longer[k].turn = item.turn /\ longer[k].of \in item.calls
        BY <1>7, <2>2, <3>2
      <4>2. key \in Key /\ key[1] = item.turn /\ key[2] = longer[k].of
        BY <1>2, <4>1 DEF Key
      <4>3. MakesCall(item, key)
        BY <1>4, <4>1, <4>2
      <4> QED
        BY <1>1, <2>2, <4>1, <4>2, <4>3 DEF IsCall, item
    <3> QED
      BY <1>14, <3>1, <3>2
  <2> QED
    BY <1>12, <2>1, <2>2 DEF CallsShow, Shows
<1>22. StatusesShow(h, n + 1, next)
  BY <1>1, <1>12, <1>13 DEF Shows, StatusesShow
<1>23. ResultsFollow(next)
  <2>1. ASSUME NEW k \in DOMAIN longer, longer[k].role = "result"
        PROVE  k \in DOMAIN c.committed /\ longer[k] = c.committed[k]
    BY <1>7, <1>14, <2>1
  <2>2. \A k \in DOMAIN c.committed : longer[k] = c.committed[k]
    BY <1>6, <1>9
  <2> QED
    BY <1>12, <1>15, <2>1, <2>2 DEF Shows, ResultsFollow
<1>24. FinalsEnded(h, n + 1, next.committed) /\ FinalsEnded(h, n + 1, next.staged)
  <2>1. \A k \in DOMAIN longer : longer[k].role = "result" =>
            k \in DOMAIN c.committed /\ longer[k] = c.committed[k]
    BY <1>7, <1>14
  <2> QED
    BY <1>1, <1>12, <2>1 DEF Shows, FinalsEnded
<1>25. ResultsOnce(h, n + 1, next)
  <2>1. \A call \in Call : Lone(h, n + 1, call) => Lone(h, n, call)
    BY <1>1 DEF Lone
  <2>2. \A call, i : i \in Results(c.committed, call) => longer[i] = c.committed[i]
    BY <1>6, <1>9 DEF Results
  <2> QED
    BY <1>12, <1>13, <2>1, <2>2 DEF Shows, ResultsOnce
<1> QED
  BY <1>12, <1>16, <1>17, <1>18, <1>20, <1>21, <1>22, <1>23, <1>24, <1>25 DEF Shows, next, item

\* The new result of a call takes the place of what said that the call runs, and leaves
\* the results of the other calls alone.
TakesPlace(new, call, staged, parts) ==
    /\ parts \in Seq(RequestPart)
    /\ \A k \in DOMAIN parts : parts[k] = new \/ \E m \in DOMAIN staged : parts[k] = staged[m]
    /\ Results(parts, call) # {}
    /\ \A other : other # call =>
          /\ Results(staged, other) # {} <=> Results(parts, other) # {}
          /\ (\A i, j \in Results(staged, other) : i = j) =>
                \A i, j \in Results(parts, other) : i = j
    /\ (\A m \in Results(staged, call) : staged[m] = Part("result", call, 0, TRUE)) =>
          \A i, j \in Results(parts, call) : i = j

\* The new result of a call takes the place of the one that says the call runs.
LEMMA ResultIsStaged ==
    ASSUME NEW staged \in Seq(RequestPart), NEW call \in Call, NEW new \in RequestPart,
           new.role = "result", new.of = call
    PROVE  TakesPlace(new, call, staged,
                      Append(Without(staged, Part("result", call, 0, TRUE)), new))
<1> DEFINE old == Part("result", call, 0, TRUE)
           left == Without(staged, old)
           parts == Append(left, new)
           N == Len(left)
<1>1. old.role = "result" /\ old.of = call
  BY DEF Part
<1>2. left \in Seq(RequestPart) /\ Keeps(left, staged, Len(staged), old)
  BY WithoutKeeps
<1> HIDE DEF old, left
<1>3. PICK f \in [1 .. N -> 1 .. Len(staged)] :
        /\ \A i, j \in 1 .. N : f[i] = f[j] => i = j
        /\ \A i \in 1 .. N : left[i] = staged[f[i]] /\ left[i] # old
        /\ \A j \in 1 .. Len(staged) : staged[j] # old => \E i \in 1 .. N : f[i] = j
  BY <1>2 DEF Keeps
<1>4. /\ parts \in Seq(RequestPart) /\ N \in Nat /\ DOMAIN parts = 1 .. N + 1
      /\ DOMAIN staged = 1 .. Len(staged)
      /\ parts[N + 1] = new /\ \A i \in 1 .. N : parts[i] = left[i]
  BY <1>1, <1>2
<1> HIDE DEF parts, N
<1>5. /\ \A i \in 1 .. N + 1 : i \in 1 .. N \/ i = N + 1
      /\ \A i \in 1 .. N : i \in 1 .. N + 1 /\ i # N + 1
      /\ N + 1 \in 1 .. N + 1
      /\ \A i \in 1 .. N : f[i] \in DOMAIN staged
  BY <1>4
<1>6. \A k \in DOMAIN parts : parts[k] = new \/ \E m \in DOMAIN staged : parts[k] = staged[m]
  BY <1>3, <1>4, <1>5
<1>7. N + 1 \in Results(parts, call)
  BY <1>1, <1>4, <1>5 DEF Results
<1>8. ASSUME NEW other, other # call
      PROVE  /\ \A i \in Results(parts, other) : i \in 1 .. N /\ f[i] \in Results(staged, other)
             /\ \A j \in Results(staged, other) : \E i \in Results(parts, other) : f[i] = j
  <2>1. ASSUME NEW i \in Results(parts, other)
        PROVE  i \in 1 .. N /\ f[i] \in Results(staged, other)
    <3>1. i \in 1 .. N + 1 /\ parts[i].role = "result" /\ parts[i].of = other
      BY <1>4 DEF Results
    <3>2. i \in 1 .. N
      BY <1>1, <1>4, <1>5, <1>8, <3>1
    <3> QED
      BY <1>3, <1>4, <1>5, <3>1, <3>2 DEF Results
  <2>2. ASSUME NEW j \in Results(staged, other)
        PROVE  \E i \in Results(parts, other) : f[i] = j
    <3>1. j \in 1 .. Len(staged) /\ staged[j].role = "result" /\ staged[j].of = other
      BY <1>4 DEF Results
    <3>2. PICK i \in 1 .. N : f[i] = j
      BY <1>1, <1>3, <1>8, <3>1
    <3> QED
      BY <1>3, <1>4, <1>5, <3>1, <3>2 DEF Results
  <2> QED
    BY <2>1, <2>2
<1>9. ASSUME NEW other, other # call
      PROVE  /\ Results(staged, other) # {} <=> Results(parts, other) # {}
             /\ (\A i, j \in Results(staged, other) : i = j) =>
                   \A i, j \in Results(parts, other) : i = j
  BY <1>3, <1>8, <1>9
<1>10. ASSUME \A m \in Results(staged, call) : staged[m] = old
       PROVE  \A i, j \in Results(parts, call) : i = j
  <2>1. ASSUME NEW i \in Results(parts, call) PROVE i = N + 1
    <3>1. i \in 1 .. N + 1 /\ parts[i].role = "result" /\ parts[i].of = call
      BY <1>4 DEF Results
    <3>2. ASSUME i \in 1 .. N PROVE FALSE
      <4>1. f[i] \in Results(staged, call)
        BY <1>3, <1>4, <1>5, <3>1, <3>2 DEF Results
      <4> QED
        BY <1>3, <1>10, <3>2, <4>1
    <3> QED
      BY <1>5, <3>1, <3>2
  <2> QED
    BY <2>1
<1> QED
  BY <1>4, <1>6, <1>7, <1>9, <1>10 DEF TakesPlace, parts, left, old

\* An item that the context does not show leaves what it shows alone.
LEMMA KeepsShowing ==
    ASSUME NEW h \in Seq(Item), NEW n \in Nat, n + 1 \in DOMAIN h, NEW c, NEW next,
           Shows(h, n, c), h[n + 1].kind \in {"status", "fork"},
           \A key \in Key : ~IsShown(h[n + 1], key),
           next.committed = c.committed, next.staged = c.staged, next.requests = c.requests,
           OpenAreUnended(h, n + 1, next)
    PROVE  Shows(h, n + 1, next)
<1>1. /\ \A i \in 1 .. n + 1 : i \in 1 .. n \/ i = n + 1
      /\ \A i \in 1 .. n : i \in 1 .. n + 1
      /\ \A key \in Key :
            /\ Made(h, n + 1, key) <=> Made(h, n, key)
            /\ Noted(h, n + 1, key) <=> Noted(h, n, key)
            /\ Ended(h, n + 1, key) <=> Ended(h, n, key)
  BY NextPrefix, ResultsAreShown DEF MakesCall
<1>2. \A call : Lone(h, n + 1, call) <=> Lone(h, n, call)
  BY <1>1 DEF Lone
<1>3. TurnsAreSent(h, n + 1, next) /\ SentIsKept(h, n + 1, next) /\ AnswersFollow(next)
  BY <1>1 DEF Shows, TurnsAreSent, SentIsKept, AnswersFollow
<1>4. CallsShow(h, n + 1, next) /\ StatusesShow(h, n + 1, next) /\ ResultsFollow(next)
  BY <1>1 DEF Shows, CallsShow, StatusesShow, ResultsFollow
<1>5. FinalsEnded(h, n + 1, next.committed) /\ FinalsEnded(h, n + 1, next.staged)
  BY <1>1 DEF Shows, FinalsEnded
<1>6. ResultsOnce(h, n + 1, next)
  BY <1>2 DEF Shows, ResultsOnce
<1> QED
  BY <1>3, <1>4, <1>5, <1>6 DEF Shows

\* A fork leaves what the context shows alone.
LEMMA ForkShows ==
    ASSUME NEW h \in Seq(Item), NEW n \in Nat, n + 1 \in DOMAIN h, h[n + 1].kind = "fork",
           NEW c \in Context, Shows(h, n, c)
    PROVE  LET next == AddToContext(c, h[n + 1]) IN next \in Context /\ Shows(h, n + 1, next)
<1> DEFINE next == AddToContext(c, h[n + 1])
<1>1. next = [c EXCEPT !.open = {}]
  BY DEF AddToContext, AddForkToContext
<1> HIDE DEF next
<1>2. /\ next.committed = c.committed /\ next.staged = c.staged /\ next.requests = c.requests
      /\ next.open = {} /\ next \in Context
  BY <1>1 DEF Context
<1>3. OpenAreUnended(h, n + 1, next)
  BY <1>2, NextOwn DEF OpenAreUnended, MadeHere
<1>4. Shows(h, n + 1, next)
  BY <1>2, <1>3, KeepsShowing DEF IsShown, IsStatusOf
<1> QED
  BY <1>2, <1>4 DEF next

\* So does a status whose operations are missing.
LEMMA MissingShows ==
    ASSUME NEW h \in Seq(Item), NEW n \in Nat, n + 1 \in DOMAIN h, h[n + 1].kind = "status",
           AreInherited(h[n + 1].ops), NEW c \in Context, Shows(h, n, c)
    PROVE  LET next == AddToContext(c, h[n + 1]) IN next \in Context /\ Shows(h, n + 1, next)
<1>1. AddToContext(c, h[n + 1]) = c
  BY DEF AddToContext, AddStatus
<1>2. \A key \in Key : ~IsShown(h[n + 1], key)
  BY DEF IsShown
<1>3. \A key \in Key :
         /\ MadeHere(h, n + 1, key) <=> MadeHere(h, n, key)
         /\ Ended(h, n + 1, key) <=> Ended(h, n, key)
  BY <1>2, NextPrefix, ResultsAreShown DEF MakesCall
<1>4. OpenAreUnended(h, n + 1, c)
  BY <1>3 DEF Shows, OpenAreUnended
<1> QED
  BY <1>1, <1>2, <1>4, KeepsShowing

\* A status of an open call stages its result.
LEMMA StatusShows ==
    ASSUME NEW h \in Seq(Item), InOrder(h), NEW n \in Nat,
           n + 1 \in DOMAIN h, h[n + 1].kind = "status", ~AreInherited(h[n + 1].ops),
           NEW c \in Context, Shows(h, n, c)
    PROVE  LET next == AddToContext(c, h[n + 1]) IN next \in Context /\ Shows(h, n + 1, next)
<1> DEFINE item == h[n + 1]
           next == AddToContext(c, item)
           key == item.key
           ended == AllFinished(item.ops)
           runs == ~ended
           parts == Append(Without(c.staged, Part("result", key[2], 0, TRUE)),
                           Part("result", key[2], 0, runs))
           open == IF ended THEN c.open \ {key} ELSE c.open
<1>1. /\ h[n + 1] \in Item
      /\ \A i \in 1 .. n + 1 : i \in 1 .. n \/ i = n + 1
      /\ \A i \in 1 .. n : i \in 1 .. n + 1 /\ i \in DOMAIN h /\ i < n + 1
      /\ n + 1 \in 1 .. n + 1
      /\ \A k \in Key :
            /\ Made(h, n + 1, k) <=> Made(h, n, k)
            /\ MadeHere(h, n + 1, k) <=> MadeHere(h, n, k)
            /\ Noted(h, n + 1, k) <=> Noted(h, n, k) \/ k = key
            /\ Ended(h, n + 1, k) <=> Ended(h, n, k) \/ (k = key /\ ended)
  BY NextPrefix DEF MakesCall, IsStatusOf, IsResult, IsShown
<1>2. \A call : Lone(h, n + 1, call) <=> Lone(h, n, call)
  BY <1>1 DEF Lone
<1>3. key \in Key /\ key[2] \in Call
  BY <1>1, ItemKinds DEF Key
<1>4. Made(h, n, key) /\ MadeHere(h, n, key) /\ ~Ended(h, n, key)
  <2>1. IsStatusOf(h[n + 1], key) /\ (n + 1) - 1 = n
    BY DEF IsStatusOf
  <2>2. Made(h, n, key) /\ MadeHere(h, n, key)
    BY <1>3, <2>1 DEF InOrder, StatusesFollowCalls, MadeHere, Made, Own
  <2>3. ASSUME Ended(h, n, key) PROVE FALSE
    <3>1. PICK i \in 1 .. n : IsStatusOf(h[i], key) /\ IsResult(h[i])
      BY <2>3 DEF Ended
    <3>2. i \in DOMAIN h /\ i < n + 1 /\ IsStatusOf(h[n + 1], key)
      BY <1>1 DEF IsStatusOf
    <3> QED
      BY <1>3, <3>1, <3>2 DEF InOrder, ResultsAreLast
  <2> QED
    BY <1>1, <1>3, <2>2, <2>3
<1>5. key \in c.open
  BY <1>3, <1>4 DEF Shows, OpenAreUnended
<1>6. /\ c.committed \in Seq(RequestPart) /\ c.staged \in Seq(RequestPart) /\ c.open \subseteq Key
      /\ c.requests \in Seq(Seq(RequestPart))
  BY DEF Context
<1>7. next = [c EXCEPT !.staged = parts, !.open = open]
  <2>1. next = AddStatus(c, key, item.ops)
    BY DEF AddToContext
  <2> QED
    BY <1>5, <2>1 DEF AddStatus, AddToolResult, Context, item
<1> DEFINE result == Part("result", key[2], 0, runs)
           runningResult == Part("result", key[2], 0, TRUE)
<1>8. /\ result.role = "result" /\ result.of = key[2] /\ result.running = runs
      /\ result = Part("result", result.of, 0, result.running) /\ result \in RequestPart
  BY <1>3, MaxTurnAssumption DEF Part, RequestPart
<1>9. /\ parts \in Seq(RequestPart)
      /\ \A k \in DOMAIN parts : parts[k] = result \/ \E m \in DOMAIN c.staged : parts[k] = c.staged[m]
      /\ Results(parts, key[2]) # {}
      /\ \A other : other # key[2] =>
            /\ Results(c.staged, other) # {} <=> Results(parts, other) # {}
            /\ (\A i, j \in Results(c.staged, other) : i = j) =>
                  \A i, j \in Results(parts, other) : i = j
      /\ (\A m \in Results(c.staged, key[2]) : c.staged[m] = runningResult) =>
            \A i, j \in Results(parts, key[2]) : i = j
  <2> DEFINE staged == c.staged
             call == key[2]
  <2>1. staged \in Seq(RequestPart) /\ call \in Call
    BY <1>3, <1>6
  <2>2. /\ parts = Append(Without(staged, Part("result", call, 0, TRUE)), result)
        /\ result \in RequestPart /\ result.role = "result" /\ result.of = call
    BY <1>8
  <2> HIDE DEF parts, result, staged, call, runningResult
  <2>3. TakesPlace(result, call, staged, parts)
    BY <2>1, <2>2, ResultIsStaged
  <2> QED
    BY <2>3 DEF TakesPlace, staged, call, runningResult
<1> HIDE DEF next, parts, open, result, runningResult, item, key, ended
<1>10. /\ next.committed = c.committed /\ next.staged = parts /\ next.requests = c.requests
       /\ next.open = open /\ next \in Context
  BY <1>6, <1>7, <1>9 DEF Context, open
<1>11. OpenAreUnended(h, n + 1, next)
  BY <1>1, <1>10 DEF Shows, OpenAreUnended, open
<1>12. TurnsAreSent(h, n + 1, next) /\ SentIsKept(h, n + 1, next) /\ AnswersFollow(next)
  BY <1>1, <1>10 DEF Shows, TurnsAreSent, SentIsKept, AnswersFollow
<1>13. CallsShow(h, n + 1, next)
  BY <1>1, <1>8, <1>9, <1>10 DEF Shows, CallsShow
<1>14. StatusesShow(h, n + 1, next)
  BY <1>1, <1>9, <1>10 DEF Shows, StatusesShow
<1>15. ResultsFollow(next)
  <2>1. PICK m \in DOMAIN c.committed : c.committed[m].role = "call" /\ c.committed[m].of = key[2]
    BY <1>3, <1>4 DEF Shows, CallsShow, IsCall
  <2>2. ASSUME NEW k \in DOMAIN parts, parts[k].role = "result"
        PROVE  /\ \E x \in DOMAIN c.committed :
                     c.committed[x].role = "call" /\ c.committed[x].of = parts[k].of
               /\ parts[k] = Part("result", parts[k].of, 0, parts[k].running)
    <3>1. CASE parts[k] = result
      BY <1>8, <2>1, <3>1
    <3>2. CASE \E x \in DOMAIN c.staged : parts[k] = c.staged[x]
      BY <2>2, <3>2 DEF Shows, ResultsFollow
    <3> QED
      BY <1>9, <3>1, <3>2
  <2> QED
    BY <1>10, <2>2 DEF Shows, ResultsFollow
<1>16. FinalsEnded(h, n + 1, next.committed)
  BY <1>1, <1>10 DEF Shows, FinalsEnded
<1>17. FinalsEnded(h, n + 1, next.staged)
  <2> SUFFICES ASSUME NEW k \in DOMAIN parts, parts[k].role = "result", ~parts[k].running
               PROVE  \E x \in Key : Made(h, n + 1, x) /\ Ended(h, n + 1, x) /\ x[2] = parts[k].of
    BY <1>10 DEF FinalsEnded
  <2>1. CASE parts[k] = result
    <3>1. ended
      BY <1>8, <2>1
    <3> QED
      BY <1>1, <1>3, <1>4, <1>8, <2>1, <3>1
  <2>2. CASE \E x \in DOMAIN c.staged : parts[k] = c.staged[x]
    BY <1>1, <2>2 DEF Shows, FinalsEnded
  <2> QED
    BY <1>9, <2>1, <2>2
<1>18. ResultsOnce(h, n + 1, next)
  <2> SUFFICES ASSUME NEW call \in Call, Lone(h, n, call)
               PROVE  /\ \A i, j \in Results(c.committed, call) : ~c.committed[i].running => j <= i
                      /\ \A i \in Results(c.committed, call) :
                            ~c.committed[i].running => Results(parts, call) = {}
                      /\ \A i, j \in Results(parts, call) : i = j
    BY <1>2, <1>10 DEF ResultsOnce
  <2>1. CASE call # key[2]
    BY <1>9, <2>1 DEF Shows, ResultsOnce
  <2>2. CASE call = key[2]
    <3>1. ~\E x \in Key : Made(h, n, x) /\ Ended(h, n, x) /\ x[2] = call
      BY <1>3, <1>4, <2>2 DEF Lone
    <3>2. \A i \in Results(c.committed, call) : c.committed[i].running
      BY <3>1 DEF Shows, FinalsEnded, Results
    <3>3. \A m \in Results(c.staged, call) : c.staged[m] = runningResult
      <4> SUFFICES ASSUME NEW m \in Results(c.staged, call) PROVE c.staged[m] = runningResult
        OBVIOUS
      <4>1. /\ m \in DOMAIN c.staged /\ c.staged[m].role = "result" /\ c.staged[m].of = call
            /\ c.staged[m] \in RequestPart
        BY <1>6 DEF Results
      <4>2. c.staged[m].running = TRUE
        BY <3>1, <4>1 DEF Shows, FinalsEnded, RequestPart
      <4>3. c.staged[m] = Part("result", c.staged[m].of, 0, c.staged[m].running)
        BY <4>1 DEF Shows, ResultsFollow
      <4> QED
        BY <2>2, <4>1, <4>2, <4>3 DEF runningResult
    <3> QED
      BY <1>9, <2>2, <3>2, <3>3
  <2> QED
    BY <2>1, <2>2
<1> QED
  BY <1>10, <1>11, <1>12, <1>13, <1>14, <1>15, <1>16, <1>17, <1>18 DEF Shows, next, item

-----------------------------------------------------------------------------
(* The order of a history that its requests need.                          *)

CountedInv == TurnsAreCounted(log) /\ CallsAreNoted(log)

\* It holds of an empty history.
LEMMA CountedInit == Init => CountedInv
BY DEF Init, EmptyStore, CountedInv, TurnsAreCounted, CallsAreNoted

\* When a turn is recorded, no call of the loop state is new.
LEMMA TurnStep ==
    ASSUME TypeOK, StopInv, HistoryInv, StageInv, [Next]_vars, NEW item \in Item,
           log' = Append(log, item), item.kind = "turn"
    PROVE  NewCalls(state) = {}
<1>1. log \in Seq(Item) /\ log' # log /\ log'[Len(log')] = item
  BY AppendedItems DEF TypeOK, StoreTypeOK
<1>2. ASSUME NEW other, AppendItem(other), other.kind # "turn"
      PROVE  FALSE
  <2>1. log' = Append(log, other)
    BY <1>2 DEF AppendItem
  <2>2. other = item
    BY <1>1, <2>1
  <2> QED
    BY <1>2, <2>2
<1>3. CASE StartLoop \/ CallModel
  BY <1>3 DEF StartLoop, CallModel, StageInv, InLoop
<1>4. ASSUME NEW key \in Key, ScheduleToolCall(key) PROVE FALSE
  BY <1>2, <1>4 DEF ScheduleToolCall, Record
<1>5. ASSUME NEW key \in Key, ReconcileToolCall(key) PROVE FALSE
  BY <1>2, <1>5 DEF ReconcileToolCall, Record
<1>6. CASE ReceiveInput
  BY <1>2, <1>6 DEF ReceiveInput
<1>7. CASE ReceiveResponse
  BY <1>2, <1>7 DEF ReceiveResponse, Record
<1>8. CASE ReceiveUpdate
  BY <1>1, <1>8 DEF ReceiveUpdate, SaveOperation
<1>9. CASE Crash \/ Restart \/ RestoreItem \/ Restored
  BY <1>1, <1>9, ReplayStep DEF storeVars
<1>10. CASE \/ StartScheduled \/ LoopTop \/ HeartbeatFires \/ GraceFires \/ DropResponse \/ Scheduled
            \/ SlurpedInputs \/ SlurpedUpdates \/ EventsProcessed \/ HandleStop \/ StopWhenIdle
            \/ Continue \/ ClientSubmits \/ OperationReports \/ (\E op \in Op : OperationFinishes(op))
            \/ UNCHANGED vars
  BY <1>1, <1>10, OtherStep DEF storeVars
<1>11. CASE OpenFork
  <2>1. PICK m \in 1 .. Len(log) : IsForkOf(log', log, m)
    BY <1>11, OpenedFork
  <2>2. log'[Len(log')].kind = "fork"
    BY <2>1 DEF IsForkOf
  <2> QED
    BY <1>1, <2>2
<1> QED
  BY <1>3, <1>4, <1>5, <1>6, <1>7, <1>8, <1>9, <1>10, <1>11 DEF Next, RunStep

\* A fork keeps the order that the requests need: what has a result in it had no status
\* before that result.
LEMMA ForkKeepsCounted ==
    ASSUME NEW h \in Seq(Item), NEW g, NEW m, IsForkOf(g, h, m), InOrder(h),
           TurnsAreCounted(h), CallsAreNoted(h)
    PROVE  TurnsAreCounted(g) /\ CallsAreNoted(g)
<1>1. /\ m \in Nat /\ m \in 1 .. Len(h) /\ Len(g) = m + 1 /\ DOMAIN g = 1 .. (m + 1)
      /\ DOMAIN h = 1 .. Len(h) /\ g[m + 1].kind = "fork" /\ \A i \in 1 .. m : i \in DOMAIN h
  BY DEF IsForkOf
<1>2. ASSUME NEW i \in 1 .. m
      PROVE  /\ i \in DOMAIN h /\ g[i].kind = h[i].kind /\ (h[i].kind # "status" => g[i] = h[i])
             /\ h[i].kind = "status" => g[i].key = h[i].key /\ g[i].ops = InheritedOps(h[i].ops)
  <2>1. i \in DOMAIN h /\ h[i] \in Item /\ g[i] = Inherited(h[i])
    BY <1>1 DEF IsForkOf
  <2> QED
    BY <2>1, InheritedItem
<1>3. \A i \in DOMAIN g : i \in 1 .. m \/ (i = m + 1 /\ g[i].kind = "fork")
  BY <1>1
<1>4. TurnsAreCounted(g)
  <2> SUFFICES ASSUME NEW j \in DOMAIN g, g[j].kind = "turn"
               PROVE  \/ g[j].turn = 1
                      \/ \E i \in DOMAIN g : i < j /\ g[i].kind = "turn" /\ g[i].turn = g[j].turn - 1
    BY DEF TurnsAreCounted
  <2>1. j \in 1 .. m /\ j \in DOMAIN h /\ h[j] = g[j]
    BY <1>2, <1>3
  <2>2. \A i \in DOMAIN h : i < j => i \in 1 .. m /\ i \in DOMAIN g
    BY <1>1, <2>1
  <2> QED
    BY <1>2, <2>1, <2>2 DEF TurnsAreCounted
<1>5. CallsAreNoted(g)
  <2> SUFFICES ASSUME NEW j \in DOMAIN g, NEW key \in Key, g[j].kind = "turn", Made(g, j - 1, key),
                      ~Lost(g, key)
               PROVE  Noted(g, j - 1, key)
    BY DEF CallsAreNoted
  <2>1. j \in 1 .. m /\ j \in DOMAIN h /\ h[j].kind = "turn"
    BY <1>2, <1>3
  <2>2. \A i \in 1 .. (j - 1) : i \in 1 .. m
    BY <1>1, <2>1
  <2>3. Made(h, j - 1, key)
    BY <1>2, <2>2 DEF Made, MakesCall
  <2>4. ~MadeHere(g, Len(g), key)
    BY <1>1, NextOwn DEF MadeHere
  <2>5. PICK q \in DOMAIN g : IsStatusOf(g[q], key) /\ IsResult(g[q])
    BY <2>4 DEF Lost
  <2>6. q \in 1 .. m /\ q \in DOMAIN h /\ IsStatusOf(h[q], key) /\ g[q].ops = InheritedOps(h[q].ops)
    BY <1>2, <1>3, <2>5 DEF IsStatusOf
  <2>7. Mentioned(h[q].ops) = {} /\ IsResult(h[q])
    BY <2>5, <2>6 DEF IsResult, IsStatusOf, AllFinished, Mentioned, InheritedOps, Finished
  <2>8. Noted(h, j - 1, key)
    BY <2>1, <2>3, <2>6, <2>7 DEF CallsAreNoted, Lost
  <2>9. PICK i \in 1 .. (j - 1) : IsStatusOf(h[i], key)
    BY <2>8 DEF Noted, IsShown
  <2>10. i \in 1 .. m /\ i \in DOMAIN h
    BY <1>1, <2>2, <2>9
  <2>11. ~(q < i)
    BY <2>6, <2>7, <2>9, <2>10 DEF InOrder, ResultsAreLast
  <2>12. ~(i < q)
    <3>1. ASSUME i < q PROVE FALSE
      <4>1. ~IsResult(h[i]) /\ Mentioned(h[i].ops) \subseteq Mentioned(h[q].ops)
        BY <2>6, <2>7, <2>9, <2>10, <3>1 DEF InOrder, ResultsAreLast
      <4> QED
        BY <2>7, <2>9, <4>1 DEF IsResult, IsStatusOf, AllFinished
    <3> QED
      BY <3>1
  <2>13. i = q
    BY <2>6, <2>10, <2>11, <2>12
  <2> QED
    BY <2>5, <2>9, <2>13, ResultsAreShown DEF Noted
<1> QED
  BY <1>4, <1>5

\* A call that a fork has lost gets no result.
LEMMA LostForGood ==
    ASSUME NEW h \in Seq(Item), NEW item \in Item, Follows(h, item), TurnsAreAnsweredOnce(h),
           NEW key \in Key, Made(h, Len(h), key), Lost(h, key)
    PROVE  Lost(Append(h, item), key)
<1> DEFINE g == Append(h, item)
<1>1. /\ DOMAIN h = 1 .. Len(h) /\ DOMAIN g = 1 .. (Len(h) + 1) /\ Len(h) \in Nat
      /\ Len(g) = Len(h) + 1 /\ \A i \in 1 .. Len(h) : g[i] = h[i]
      /\ g[Len(h) + 1] = item
  BY AppendedItems
<1>2. /\ Own(g, Len(g)) = Own(h, Len(h)) \cup {Len(h) + 1}
      /\ Own(h, Len(h)) \subseteq DOMAIN h
  BY NextAppendedOwn DEF Follows
<1> HIDE DEF g
<1>3. ~MakesCall(item, key)
  BY <1>1 DEF Follows, Made, MakesCall
<1>4. ~MadeHere(g, Len(g), key)
  BY <1>1, <1>2, <1>3 DEF Lost, MadeHere
<1>5. ~IsStatusOf(item, key)
  BY DEF Follows, Lost, MadeHere
<1>6. \A i \in DOMAIN g : IsStatusOf(g[i], key) => ~IsResult(g[i])
  <2>1. \A i \in DOMAIN g : i \in DOMAIN h \/ i = Len(h) + 1
    BY <1>1
  <2> QED
    BY <1>1, <1>5, <2>1 DEF Lost
<1> QED
  BY <1>4, <1>6 DEF Lost, g

\* Every step keeps the order that the requests need.
LEMMA CountedStep ==
    ASSUME TypeOK, StopInv, HistoryInv, StageInv, CountedInv, [Next]_vars
    PROVE  CountedInv'
<1>1. CASE UNCHANGED log
  BY <1>1 DEF CountedInv
<1>2. ASSUME NEW item, Appending(item) PROVE CountedInv'
  <2>1. /\ log \in Seq(Item) /\ item \in Item /\ log' = Append(log, item)
        /\ Matches(log, Len(log), state) /\ Len(log) \in Nat /\ state.turn \in Nat
    BY <1>2, MaxTurnAssumption DEF TypeOK, StoreTypeOK, LoopState, Appending, AppendItem, HistoryInv, Running
  <2>2. /\ DOMAIN log = 1 .. Len(log) /\ DOMAIN log' = 1 .. (Len(log) + 1)
        /\ \A i \in 1 .. Len(log) : log'[i] = log[i]
        /\ log'[Len(log) + 1] = item
    BY <2>1, AppendedItems
  <2>3. /\ \A j \in DOMAIN log' : j \in DOMAIN log \/ j = Len(log) + 1
        /\ \A j \in DOMAIN log : j \in DOMAIN log' /\ j < Len(log) + 1
        /\ \A j \in DOMAIN log' : j - 1 \in 0 .. Len(log)
        /\ (Len(log) + 1) - 1 = Len(log)
    BY <2>1, <2>2
  <2>4. \A n \in 0 .. Len(log), key \in Key :
           /\ Made(log', n, key) <=> Made(log, n, key)
           /\ Noted(log', n, key) <=> Noted(log, n, key)
    BY <2>2 DEF Made, Noted
  <2>5. TurnsAreCounted(log')
    <3> SUFFICES ASSUME NEW j \in DOMAIN log', log'[j].kind = "turn"
                 PROVE  \/ log'[j].turn = 1
                        \/ \E i \in DOMAIN log' : i < j /\ log'[i].kind = "turn" /\ log'[i].turn = log'[j].turn - 1
      BY DEF TurnsAreCounted
    <3>1. CASE j \in DOMAIN log
      BY <2>2, <2>3, <3>1 DEF CountedInv, TurnsAreCounted
    <3>2. CASE j = Len(log) + 1
      <4>1. item.kind = "turn" /\ log'[j].turn = state.turn + 1
        BY <1>2, <2>2, <3>2 DEF Appending
      <4>2. state.turn # 0 => \E i \in 1 .. Len(log) : log[i].kind = "turn" /\ log[i].turn = state.turn
        BY <2>1 DEF Matches, TurnMatches
      <4> QED
        BY <2>1, <2>2, <2>3, <3>2, <4>1, <4>2
    <3> QED
      BY <2>3, <3>1, <3>2
  <2>6. CallsAreNoted(log')
    <3> SUFFICES ASSUME NEW j \in DOMAIN log', NEW key \in Key, log'[j].kind = "turn", Made(log', j - 1, key)
                 PROVE  Noted(log', j - 1, key) \/ Lost(log', key)
      BY DEF CallsAreNoted
    <3>3. Lost(log, key) => Lost(log', key)
      <4>1. Made(log, Len(log), key)
        BY <2>3, <2>4 DEF Made
      <4> QED
        BY <1>2, <2>1, <4>1, LostForGood DEF Appending, HistoryInv, InOrder
    <3>1. CASE j \in DOMAIN log
      BY <2>2, <2>3, <2>4, <3>1, <3>3 DEF CountedInv, CallsAreNoted
    <3>2. CASE j = Len(log) + 1
      <4>1. item.kind = "turn" /\ NewCalls(state) = {}
        BY <2>1, <2>2, <3>2, TurnStep
      <4>2. Made(log, Len(log), key) /\ Len(log) \in 0 .. Len(log)
        BY <2>1, <2>3, <2>4, <3>2
      <4>3. state.calls[key] \in {"none", "waiting"}
        BY <4>1 DEF NewCalls, TypeOK, LoopState
      <4>4. Noted(log, Len(log), key) \/ Lost(log, key)
        <5>1. CASE \E i \in DOMAIN log : IsStatusOf(log[i], key) /\ IsResult(log[i])
          BY <2>2, <5>1, ResultsAreShown DEF Noted
        <5>2. CASE state.calls[key] = "waiting"
          <6>1. PICK i \in Own(log, Len(log)) : MakesCall(log[i], key)
            BY <2>1, <5>2 DEF Matches, CallsMatch
          <6>2. PICK k \in 1 .. Len(log) : IsStatusOf(log[k], key)
            BY <2>1, <5>2 DEF Matches, CallsMatch
          <6>3. k \in Own(log, Len(log))
            BY <2>1, <4>2, <6>1, <6>2, OwnStatuses DEF HistoryInv
          <6> QED
            BY <6>2, <6>3 DEF HistoryInv, InOrder, StatusesAreKnown, Noted, IsShown, IsStatusOf
        <5>3. CASE /\ state.calls[key] = "none"
                   /\ ~\E i \in DOMAIN log : IsStatusOf(log[i], key) /\ IsResult(log[i])
          BY <2>1, <2>2, <5>3 DEF Matches, CallsMatch, Lost, MadeHere
        <5> QED
          BY <4>3, <5>1, <5>2, <5>3
      <4> QED
        BY <2>3, <2>4, <3>2, <3>3, <4>2, <4>4
    <3> QED
      BY <2>3, <3>1, <3>2
  <2> QED
    BY <2>5, <2>6 DEF CountedInv
<1>3. CASE ReceiveUpdate
  BY <1>1, <1>3 DEF ReceiveUpdate, SaveOperation
<1>4. CASE OpenFork
  BY <1>4, OpenedFork, ForkKeepsCounted DEF CountedInv, HistoryInv, TypeOK, StoreTypeOK
<1> QED
  BY <1>1, <1>2, <1>3, <1>4, HistoryStep DEF storeVars

-----------------------------------------------------------------------------
(* The context after each item.                                            *)

\* The recursive function exists: there is one on every initial part of the history.
LEMMA ContextAfterDef ==
    ASSUME log \in Seq(Item)
    PROVE  ContextAfter = [n \in 0 .. Len(log) |->
              IF n = 0 THEN NewContext ELSE AddToContext(ContextAfter[n - 1], log[n])]
<1> DEFINE Is(f, m) == f = [n \in 0 .. m |-> IF n = 0 THEN NewContext ELSE AddToContext(f[n - 1], log[n])]
           have == {m \in 0 .. Len(log) : \E f : Is(f, m)}
<1>1. Len(log) \in Nat
  OBVIOUS
<1>2. 0 \in have
  <2> DEFINE f == [n \in 0 .. 0 |-> NewContext]
  <2>1. Is(f, 0)
    OBVIOUS
  <2> HIDE DEF f, Is
  <2> QED
    BY <1>1, <2>1
<1>3. ASSUME NEW m \in 0 .. Len(log), m \in have, m < Len(log)
      PROVE  m + 1 \in have
  <2>1. PICK f : Is(f, m)
    BY <1>3
  <2> DEFINE next == AddToContext(f[m], log[m + 1])
             g == [n \in 0 .. m + 1 |-> IF n = m + 1 THEN next ELSE f[n]]
  <2> HIDE DEF next
  <2>2. m \in Nat /\ m + 1 \in 0 .. Len(log) /\ \A n \in 0 .. m : n # m + 1 /\ n \in 0 .. m + 1
    BY <1>1, <1>3
  <2>3. \A n \in 0 .. m : g[n] = f[n]
    BY <2>2
  <2>4. ASSUME NEW n \in 0 .. m + 1
        PROVE  g[n] = IF n = 0 THEN NewContext ELSE AddToContext(g[n - 1], log[n])
    <3>1. CASE n = m + 1
      <4>1. g[n] = next /\ g[n - 1] = f[m] /\ n # 0
        BY <2>2, <2>3, <3>1
      <4> HIDE DEF g
      <4> QED
        BY <3>1, <4>1 DEF next
    <3>2. CASE n = 0
      <4>1. g[n] = f[0] /\ f[0] = NewContext
        BY <2>1, <2>2, <2>3, <3>2
      <4> QED
        BY <3>2, <4>1
    <3>3. CASE n \in 1 .. m
      <4>1. n \in 0 .. m /\ n - 1 \in 0 .. m /\ n # 0
        BY <2>2, <3>3
      <4>2. g[n] = f[n] /\ g[n - 1] = f[n - 1]
        BY <2>3, <4>1
      <4>3. f[n] = AddToContext(f[n - 1], log[n])
        BY <2>1, <4>1
      <4> HIDE DEF g
      <4> QED
        BY <4>1, <4>2, <4>3
    <3> QED
      BY <2>2, <3>1, <3>2, <3>3
  <2>5. Is(g, m + 1)
    <3> DEFINE h == [n \in 0 .. m + 1 |-> IF n = 0 THEN NewContext ELSE AddToContext(g[n - 1], log[n])]
    <3>1. \A n \in 0 .. m + 1 : g[n] = h[n]
      BY <2>4
    <3>2. DOMAIN g = 0 .. m + 1 /\ g = [n \in 0 .. m + 1 |-> g[n]]
      OBVIOUS
    <3> HIDE DEF g
    <3>3. g = h
      BY <3>1, <3>2
    <3> QED
      BY <3>3
  <2> HIDE DEF Is, g
  <2> QED
    BY <2>2, <2>5
<1> HIDE DEF have
<1>4. 0 .. Len(log) \subseteq have
  BY <1>1, <1>2, <1>3, NumbersBelow
<1>5. \E f : Is(f, Len(log))
  BY <1>1, <1>4 DEF have
<1>6. ContextAfter = CHOOSE f : Is(f, Len(log))
  BY DEF ContextAfter
<1> HIDE DEF Is
<1>7. Is(ContextAfter, Len(log))
  BY <1>5, <1>6
<1> QED
  BY <1>7 DEF Is

\* One item more, of any kind.
LEMMA NextShows ==
    ASSUME NEW h \in Seq(Item), InOrder(h), TurnsAreCounted(h), NEW n \in Nat,
           n + 1 \in DOMAIN h, NEW c \in Context, Shows(h, n, c)
    PROVE  LET next == AddToContext(c, h[n + 1]) IN next \in Context /\ Shows(h, n + 1, next)
<1>1. h[n + 1] \in Item
  OBVIOUS
<1> QED
  BY <1>1, ItemKinds, MessageShows, TurnShows, ResponseShows, StatusShows, MissingShows, ForkShows

\* After the first n items the context shows them.
LEMMA ContextAfterShows ==
    ASSUME TypeOK, HistoryInv, CountedInv, NEW n \in 0 .. Len(log)
    PROVE  ContextAfter[n] \in Context /\ Shows(log, n, ContextAfter[n])
<1>1. log \in Seq(Item) /\ InOrder(log) /\ TurnsAreCounted(log) /\ Len(log) \in Nat
  BY DEF TypeOK, StoreTypeOK, HistoryInv, CountedInv
<1> DEFINE holds == {m \in 0 .. Len(log) : ContextAfter[m] \in Context /\ Shows(log, m, ContextAfter[m])}
<1>2. /\ ContextAfter[0] = NewContext
      /\ \A m \in 1 .. Len(log) : ContextAfter[m] = AddToContext(ContextAfter[m - 1], log[m])
  BY <1>1, ContextAfterDef
<1>3. 0 \in holds
  BY <1>1, <1>2, NewContextShows
<1>4. ASSUME NEW m \in 0 .. Len(log), m \in holds, m < Len(log)
      PROVE  m + 1 \in holds
  <2>1. m \in Nat /\ m + 1 \in DOMAIN log /\ m + 1 \in 1 .. Len(log) /\ m + 1 \in 0 .. Len(log)
    BY <1>1, <1>4
  <2>2. ContextAfter[m + 1] = AddToContext(ContextAfter[m], log[m + 1])
    BY <1>1, <1>2, <2>1
  <2>3. ContextAfter[m + 1] \in Context /\ Shows(log, m + 1, ContextAfter[m + 1])
    BY <1>1, <1>4, <2>1, <2>2, NextShows
  <2> QED
    BY <2>1, <2>3
<1> HIDE DEF holds
<1>5. 0 .. Len(log) \subseteq holds
  BY <1>1, <1>3, <1>4, NumbersBelow
<1> QED
  BY <1>5 DEF holds

-----------------------------------------------------------------------------
(* A request.                                                              *)

\* The request of a turn, and what was sent before it.
RequestShows(h, n, c, request) ==
    LET sent == IF Len(c.requests) = 0 THEN <<>> ELSE c.requests[Len(c.requests)]
    IN  \A k \in Calls(request) :
            LET results == Results(request, request[k].of)
            IN  /\ results # {} \/ Lost(h, <<request[k].turn, request[k].of>>)
                /\ (\A m \in Calls(request) : request[m].of = request[k].of => m = k) =>
                      /\ \A i \in results : k < i
                      /\ \A i, j \in results : ~request[i].running => j <= i
                      /\ \A i, j \in results : i > Len(sent) /\ j > Len(sent) => i = j

\* Every call that a fork has not lost has a result, and where its ID is its own they
\* follow it in their order.
LEMMA BuiltShows ==
    ASSUME NEW h \in Seq(Item), InOrder(h), CallsAreNoted(h), NEW n \in Nat,
           n + 1 \in DOMAIN h, h[n + 1].kind = "turn", NEW c \in Context, Shows(h, n, c)
    PROVE  RequestShows(h, n, c, Build(c))
<1> DEFINE request == Build(c)
           committed == c.committed
           staged == c.staged
           A == Len(committed)
           sent == IF Len(c.requests) = 0 THEN <<>> ELSE c.requests[Len(c.requests)]
<1>1. /\ committed \in Seq(RequestPart) /\ staged \in Seq(RequestPart) /\ request = committed \o staged
      /\ c.requests \in Seq(Seq(RequestPart))
  BY DEF Context, Build
<1>2. /\ request \in Seq(RequestPart) /\ A \in Nat /\ Len(staged) \in Nat
      /\ DOMAIN request = 1 .. (A + Len(staged)) /\ DOMAIN committed = 1 .. A
      /\ DOMAIN staged = 1 .. Len(staged)
      /\ \A i \in 1 .. A : request[i] = committed[i]
      /\ \A i \in 1 .. Len(staged) : request[A + i] = staged[i]
  <2> HIDE DEF request, committed, staged
  <2> QED
    BY <1>1, Joined
<1>3. \A call, i : i \in Results(request, call) <=>
              \/ i \in Results(committed, call)
              \/ i \in DOMAIN request /\ i > A /\ i - A \in Results(staged, call)
  BY <1>1, JoinedResults
<1> HIDE DEF request, A, committed, staged
<1>4. /\ \A i \in DOMAIN committed : i \in DOMAIN request /\ i <= A
      /\ \A i \in DOMAIN staged : A + i \in DOMAIN request /\ A + i > A /\ (A + i) - A = i
      /\ \A i \in DOMAIN request : i \in Nat /\ (i \in DOMAIN committed \/ (i - A \in DOMAIN staged /\ i = A + (i - A)))
  BY <1>2
<1>5. ASSUME NEW i \in DOMAIN request, i - A \in DOMAIN staged, i = A + (i - A)
      PROVE  request[i] = staged[i - A]
  <2> DEFINE j == i - A
  <2>1. j \in 1 .. Len(staged) /\ i = A + j
    BY <1>2, <1>5
  <2> HIDE DEF j
  <2>2. request[i] = staged[j]
    BY <1>2, <2>1
  <2> QED
    BY <2>2 DEF j
<1>6. ASSUME NEW k \in Calls(request)
      PROVE  k \in DOMAIN committed /\ request[k] = committed[k] /\ request[k].role = "call"
  <2>1. k \in DOMAIN request /\ request[k].role = "call"
    BY DEF Calls
  <2>2. k \in DOMAIN committed
    BY <1>4, <1>5, <2>1 DEF Shows, CallsShow, staged
  <2> QED
    BY <1>2, <2>1, <2>2
<1>7. ASSUME NEW k \in DOMAIN committed, committed[k].role = "call"
      PROVE  k \in Calls(request) /\ request[k] = committed[k]
  BY <1>2, <1>4, <1>7 DEF Calls
<1>8. (n + 1) - 1 = n /\ n \in 0 .. Len(h)
  OBVIOUS
<1>9. ASSUME NEW k \in Calls(request)
      PROVE  \E key \in Key : Made(h, n, key) /\ key[2] = request[k].of /\ IsCall(request[k], key)
  <2>1. k \in DOMAIN c.committed /\ c.committed[k].role = "call" /\ request[k] = c.committed[k]
    BY <1>6 DEF committed
  <2> QED
    BY <2>1 DEF Shows, CallsShow, IsCall
<1>10. ASSUME NEW k \in Calls(request), ~Lost(h, <<request[k].turn, request[k].of>>)
       PROVE  Results(request, request[k].of) # {}
  <2>1. PICK key \in Key : Made(h, n, key) /\ key[2] = request[k].of /\ IsCall(request[k], key)
    BY <1>9
  <2>5. key = <<request[k].turn, request[k].of>>
    BY <2>1 DEF Key, IsCall
  <2>2. Noted(h, n, key)
    BY <1>8, <1>10, <2>1, <2>5 DEF CallsAreNoted
  <2> DEFINE call == key[2]
  <2>3. Results(committed, call) # {} \/ Results(staged, call) # {}
    BY <2>2 DEF Shows, StatusesShow, committed, staged
  <2> HIDE DEF call
  <2>4. Results(request, call) # {}
    <3>1. CASE Results(committed, call) # {}
      BY <1>3, <3>1
    <3>2. ASSUME NEW j \in Results(staged, call) PROVE Results(request, call) # {}
      <4>1. A + j \in DOMAIN request /\ A + j > A /\ (A + j) - A = j
        BY <1>4 DEF Results
      <4> QED
        BY <1>3, <4>1
    <3> QED
      BY <2>3, <3>1, <3>2
  <2> QED
    BY <2>1, <2>4 DEF call
<1>11. ASSUME NEW k \in Calls(request), \A m \in Calls(request) : request[m].of = request[k].of => m = k
       PROVE  LET call == request[k].of
              IN  /\ call \in Call /\ Lone(h, n, call)
                  /\ \A i \in Results(committed, call) : k < i
  <2>1. PICK key \in Key : Made(h, n, key) /\ key[2] = request[k].of
    BY <1>9
  <2>2. request[k].of \in Call
    BY <2>1 DEF Key
  <2>3. ASSUME NEW x \in Key, Made(h, n, x), x[2] = request[k].of PROVE IsCall(request[k], x)
    <3>1. PICK m \in DOMAIN c.committed : IsCall(c.committed[m], x)
      BY <2>3 DEF Shows, CallsShow
    <3>2. m \in Calls(request) /\ request[m] = c.committed[m]
      BY <1>7, <3>1 DEF IsCall, committed
    <3>3. request[m].of = request[k].of
      BY <2>3, <3>1, <3>2 DEF IsCall
    <3> QED
      BY <1>11, <3>1, <3>2, <3>3
  <2>4. Lone(h, n, request[k].of)
    <3> SUFFICES ASSUME NEW x \in Key, NEW y \in Key, Made(h, n, x), Made(h, n, y),
                        x[2] = request[k].of, y[2] = request[k].of
                 PROVE  x = y
      BY DEF Lone
    <3>1. x[1] = y[1] /\ x[2] = y[2]
      BY <2>3 DEF IsCall
    <3> QED
      BY <3>1 DEF Key
  <2>5. ASSUME NEW i \in Results(committed, request[k].of) PROVE k < i
    <3>1. i \in DOMAIN c.committed /\ c.committed[i].role = "result" /\ c.committed[i].of = request[k].of
      BY DEF Results, committed
    <3>2. PICK m \in DOMAIN c.committed : m < i /\ c.committed[m].role = "call" /\ c.committed[m].of = c.committed[i].of
      BY <3>1 DEF Shows, ResultsFollow
    <3>3. m \in Calls(request) /\ request[m].of = request[k].of
      BY <1>7, <3>1, <3>2 DEF committed
    <3>4. m = k
      BY <1>11, <3>3
    <3> QED
      BY <3>2, <3>4
  <2> QED
    BY <2>2, <2>4, <2>5
<1>12. ASSUME NEW call \in Call, Lone(h, n, call)
       PROVE  /\ \A i, j \in Results(request, call) : ~request[i].running => j <= i
              /\ \A i, j \in Results(request, call) : i > Len(sent) /\ j > Len(sent) => i = j
  <2>1. /\ \A i, j \in Results(committed, call) : ~committed[i].running => j <= i
        /\ \A i \in Results(committed, call) : ~committed[i].running => Results(staged, call) = {}
        /\ \A i, j \in Results(staged, call) : i = j
    BY <1>12 DEF Shows, ResultsOnce, committed, staged
  <2>2. \A i \in Results(committed, call) : ~(i > Len(sent))
    <3> SUFFICES ASSUME NEW i \in Results(committed, call) PROVE ~(i > Len(sent))
      OBVIOUS
    <3>1. i \in DOMAIN c.committed /\ c.committed[i].role = "result" /\ i \in Nat
      BY <1>4 DEF Results, committed
    <3>2. Len(c.requests) # 0 /\ i <= Len(c.requests[Len(c.requests)])
      BY <3>1 DEF Shows, ResultsFollow
    <3>3. sent \in Seq(RequestPart) /\ i <= Len(sent)
      BY <1>1, <3>2
    <3>4. Len(sent) \in Nat
      BY <3>3
    <3> HIDE DEF sent
    <3> QED
      BY <3>1, <3>3, <3>4
  <2> HIDE DEF sent
  <2>3. ASSUME NEW i \in Results(request, call)
        PROVE  /\ i \in Nat
               /\ \/ i \in Results(committed, call) /\ i <= A /\ request[i] = committed[i]
                  \/ i > A /\ i - A \in Results(staged, call)
    <3>1. i \in DOMAIN request
      BY DEF Results
    <3>2. i \in Results(committed, call) => i <= A /\ request[i] = committed[i]
      BY <1>2, <1>4 DEF Results
    <3> QED
      BY <1>3, <1>4, <3>1, <3>2
  <2>4. ASSUME NEW i \in Results(request, call), NEW j \in Results(request, call), i > A, j > A
        PROVE  i = j
    <3>1. i - A \in Results(staged, call) /\ j - A \in Results(staged, call) /\ i \in Nat /\ j \in Nat
      BY <1>2, <2>3, <2>4
    <3>2. i - A = j - A
      BY <2>1, <3>1
    <3> QED
      BY <1>2, <3>1, <3>2
  <2>5. ASSUME NEW i \in Results(request, call), NEW j \in Results(request, call), ~request[i].running
        PROVE  j <= i
    <3>1. CASE i > A
      BY <1>2, <2>3, <2>4, <3>1
    <3>2. CASE ~(i > A)
      <4>1. i \in Results(committed, call) /\ ~committed[i].running
        BY <2>3, <2>5, <3>2
      <4>2. Results(staged, call) = {}
        BY <2>1, <4>1
      <4>3. j \in Results(committed, call)
        BY <2>3, <4>2
      <4> QED
        BY <2>1, <4>1, <4>3
    <3> QED
      BY <3>1, <3>2
  <2>6. ASSUME NEW i \in Results(request, call), NEW j \in Results(request, call),
               i > Len(sent), j > Len(sent)
        PROVE  i = j
    BY <2>2, <2>3, <2>4, <2>6
  <2> QED
    BY <2>5, <2>6
<1>13. ASSUME NEW k \in Calls(request), \A m \in Calls(request) : request[m].of = request[k].of => m = k,
              NEW i \in Results(request, request[k].of)
       PROVE  k < i
  <2>1. \A j \in Results(committed, request[k].of) : k < j
    BY <1>11, <1>13
  <2>2. k \in 1 .. A
    BY <1>2, <1>6
  <2>3. i \in Results(committed, request[k].of) \/ (i \in DOMAIN request /\ i > A)
    BY <1>3
  <2> QED
    BY <1>2, <2>1, <2>2, <2>3
<1> HIDE DEF sent
<1>14. ASSUME NEW k \in Calls(request)
       PROVE  /\ \/ Results(request, request[k].of) # {}
                 \/ Lost(h, <<request[k].turn, request[k].of>>)
              /\ (\A m \in Calls(request) : request[m].of = request[k].of => m = k) =>
                    /\ \A i \in Results(request, request[k].of) : k < i
                    /\ \A i, j \in Results(request, request[k].of) : ~request[i].running => j <= i
                    /\ \A i, j \in Results(request, request[k].of) :
                          i > Len(sent) /\ j > Len(sent) => i = j
  <2> SUFFICES ASSUME \A m \in Calls(request) : request[m].of = request[k].of => m = k
               PROVE  /\ \A i \in Results(request, request[k].of) : k < i
                      /\ \A i, j \in Results(request, request[k].of) : ~request[i].running => j <= i
                      /\ \A i, j \in Results(request, request[k].of) :
                            i > Len(sent) /\ j > Len(sent) => i = j
    BY <1>10
  <2>1. request[k].of \in Call /\ Lone(h, n, request[k].of)
    BY <1>11
  <2> QED
    BY <1>12, <1>13, <2>1
<1> QED
  BY <1>14 DEF RequestShows, request, sent

\* What a request shows is what it must be, when the turn is the last item.
LEMMA RequestIsTrue ==
    ASSUME TypeOK, HistoryInv, CountedInv
    PROVE  RequestsAreTrue
<1> SUFFICES ASSUME JustRequested
             PROVE  RequestsAreTrue
  BY DEF RequestsAreTrue, RequestIsWellFormed, ResponsesFollowTheirRequests
<1> DEFINE n == Len(log) - 1
           c == ContextAfter[n]
           request == Build(c)
           last == Len(c.requests)
           sent == IF last = 0 THEN <<>> ELSE c.requests[last]
           next == ContextAfter[Len(log)]
<1>1. /\ log \in Seq(Item) /\ InOrder(log) /\ TurnsAreCounted(log) /\ CallsAreNoted(log)
      /\ n \in Nat /\ n + 1 = Len(log) /\ n + 1 \in DOMAIN log /\ log[n + 1].kind = "turn"
      /\ n \in 0 .. Len(log) /\ Len(log) \in 0 .. Len(log)
  <2>1. log \in Seq(Item) /\ InOrder(log) /\ TurnsAreCounted(log) /\ CallsAreNoted(log)
    BY DEF TypeOK, StoreTypeOK, HistoryInv, CountedInv
  <2>2. log # <<>> /\ log[Len(log)].kind = "turn"
    BY DEF JustRequested, Last
  <2>3. Len(log) \in Nat /\ Len(log) # 0 /\ DOMAIN log = 1 .. Len(log)
    BY <2>1, <2>2
  <2>4. n \in Nat /\ n + 1 = Len(log)
    BY <2>3
  <2> QED
    BY <2>1, <2>2, <2>3, <2>4
<1>2. c \in Context /\ Shows(log, n, c) /\ Shows(log, Len(log), next)
  BY <1>1, ContextAfterShows
<1>3. next = [c EXCEPT !.requests = Append(c.requests, request), !.committed = request, !.staged = <<>>]
  <2>1. next = AddToContext(c, log[n + 1])
    BY <1>1, ContextAfterDef
  <2> HIDE DEF c, next
  <2> QED
    BY <1>1, <2>1 DEF AddToContext, Commit
<1>4. RequestShows(log, n, c, request)
  BY <1>1, <1>2, BuiltShows
<1> HIDE DEF c, n, next, request
<1>5. next.requests = Append(c.requests, request) /\ next.committed = request
  BY <1>2, <1>3 DEF Context
<1>6. request \in Seq(RequestPart) /\ c.requests \in Seq(Seq(RequestPart)) /\ last \in Nat
  BY <1>2, Joined DEF Context, Build, request
<1>7. /\ Last(Requests) = request /\ Requests = next.requests
      /\ sent = IF Len(Requests) = 1 THEN <<>> ELSE Requests[Len(Requests) - 1]
  <2>1. Requests = Append(c.requests, request)
    BY <1>5 DEF Requests, next
  <2>2. /\ Len(Requests) = last + 1 /\ Requests[last + 1] = request
        /\ \A i \in 1 .. last : Requests[i] = c.requests[i]
    BY <1>6, <2>1
  <2>3. last # 0 => Requests[Len(Requests) - 1] = c.requests[last]
    <3>1. ASSUME last # 0 PROVE Len(Requests) - 1 = last /\ last \in 1 .. last
      BY <1>6, <2>2, <3>1
    <3> QED
      BY <2>2, <3>1
  <2> QED
    BY <1>5, <1>6, <2>1, <2>2, <2>3 DEF Last
<1>8. RequestIsWellFormed
  <2> HIDE DEF sent
  <2> DEFINE before == IF Len(Requests) = 1 THEN <<>> ELSE Requests[Len(Requests) - 1]
  <2>1. sent = before
    BY <1>7
  <2> HIDE DEF before
  <2>2. \A k \in Calls(request) :
            LET results == Results(request, request[k].of)
            IN  /\ results # {} \/ Lost(log, <<request[k].turn, request[k].of>>)
                /\ (\A m \in Calls(request) : request[m].of = request[k].of => m = k) =>
                      /\ \A i \in results : k < i
                      /\ \A i, j \in results : ~request[i].running => j <= i
                      /\ \A i, j \in results : i > Len(before) /\ j > Len(before) => i = j
    BY <1>4, <2>1 DEF RequestShows, sent
  <2>3. \A key : Lost(log, key) => IsLost(key)
    BY DEF Lost, IsLost, OwnCalls, HasResult, StatusesOf, ItemsOf, IsStatusOf, IsResult, MadeHere,
       MakesCall, IsOwn, Own
  <2> QED
    BY <1>7, <2>2, <2>3 DEF RequestIsWellFormed, before
<1>9. ResponsesFollowTheirRequests
  <2> SUFFICES ASSUME NEW k \in DOMAIN request, request[k].role = "assistant"
               PROVE  SubSeq(request, 1, k - 1) = Requests[request[k].turn]
    BY <1>7 DEF ResponsesFollowTheirRequests
  <2> QED
    BY <1>2, <1>5, <1>7 DEF Shows, AnswersFollow
<1> QED
  BY <1>8, <1>9 DEF RequestsAreTrue

\* Every request that the history says was sent shows the history up to it as
\* the model provider demands and as the model saw it, whatever arrived in
\* whatever order and however often the session was resumed
\* (contextbuilder/builder.go, loop.go beginTurn and addItem).
THEOREM Requesting == Spec => []RequestsAreTrue
<1>1. Spec => [](TypeOK /\ StopInv /\ HistoryInv /\ StageInv)
  BY History, StageInit, StageStep, PTL DEF Spec
<1>2. Spec => []CountedInv
  BY <1>1, CountedInit, CountedStep, PTL DEF Spec
<1>3. TypeOK /\ HistoryInv /\ CountedInv => RequestsAreTrue
  BY RequestIsTrue
<1> QED
  BY <1>1, <1>2, <1>3, PTL
=============================================================================
