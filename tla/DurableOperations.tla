-------------------------- MODULE DurableOperations --------------------------
(***************************************************************************)
(* The local operation manager with its client: what the client has stored *)
(* of each operation, and the crashes after which a new manager is given   *)
(* the stored operations that have not finished.                           *)
(*                                                                         *)
(* The client here is the part of the coordinator that a manager sees.  It *)
(* stores a checkpoint in the step that receives it: a crash between the   *)
(* two loses the checkpoint as a crash before both does.                   *)
(***************************************************************************)
EXTENDS LocalOperationManager

CONSTANTS
    Types,      \* the types of operations that tool calls submit
    MaxCrash    \* bound on the crashes

ASSUME DurableAssumption ==
    /\ Types \subseteq LocalType \cup {"remote_job"}
    /\ MaxCrash \in Nat

VARIABLES
    stored,     \* each operation's checkpoint in the session store
    starts,     \* the processes started for each operation
    unrecorded, \* operations whose process a crash has left without a record
    crashes     \* counter for MaxCrash

clientVars == <<stored, starts, unrecorded, crashes>>
vars == <<localVars, clientVars>>

\* The operations a tool call may submit.
Submitted ==
    {Actor(type, "ready") : type \in Types \ {"remote_job"}}
    \cup (IF "remote_job" \in Types THEN {RemoteJob(h, "ready") : h \in Handler} ELSE {})

\* The client stores the operations of a call with its first status.
Init ==
    /\ LocalManagerInit
    /\ stored \in [Op -> Submitted]
    /\ starts = [op \in Op |-> 0]
    /\ unrecorded = {}
    /\ crashes = 0

-----------------------------------------------------------------------------

\* The client hands over what the store has of an operation that is unfinished.
AddStored(op) ==
    /\ stored[op].status \in Unfinished
    /\ AddOperation(op, stored[op])
    /\ UNCHANGED clientVars

\* And stores the checkpoint it receives.
StoreCheckpoint ==
    /\ \E update \in {pendingUpdates[i] : i \in DOMAIN pendingUpdates} :
          /\ ReceiveCheckpoint(update)
          /\ stored' = [stored EXCEPT ![update.op] = update.actor]
    /\ UNCHANGED <<starts, unrecorded, crashes>>

RunProcess(p) ==
    /\ StartProcess(p)
    /\ starts' = [starts EXCEPT ![p.op] = @ + 1]
    /\ UNCHANGED <<stored, unrecorded, crashes>>

\* The store knows that the operation's process may have been started.
StartIsStored(op) ==
    \/ stored[op].status \in Finished
    \/ stored[op].phase \in {"process"} \cup ReadPhases

\* The process dies, and the next one makes a new manager.
Crash ==
    /\ crashes < MaxCrash
    /\ crashes' = crashes + 1
    /\ NewLocalManager
    /\ unrecorded' = unrecorded \cup {op \in Op : starts[op] > 0 /\ ~StartIsStored(op)}
    /\ UNCHANGED <<stored, starts>>

\* The steps of the manager that do not touch what the client keeps.
ManagerStep == StartOperation \/ FailJob \/ StartDrain \/ Stop

PrimitiveStep(p) == ExitProcess(p) \/ ReceiveEvent(p) \/ DrainEvent(p)

JobStep(h) ==
    \/ \E op \in Op : HandlerCancels(h, op)
    \/ \E op \in Op, status \in OpStatus, same \in BOOLEAN : HandlerSends(h, op, status, same)
    \/ HandlerCloses(h)
    \/ ForwarderStops(h)
    \/ ReceiveJobUpdate(h)
    \/ ReceiveMisdirected(h)
    \/ ReceiveClosed(h)

Next ==
    \/ \E op \in Op : AddStored(op)
    \/ StoreCheckpoint
    \/ \E p \in primitives : RunProcess(p)
    \/ Crash
    \/ UNCHANGED clientVars /\
          (\/ ManagerStep
           \/ Shutdown
           \/ \E op \in Op : CancelOperation(op)
           \/ \E p \in primitives : PrimitiveStep(p)
           \/ \E h \in Handler : JobStep(h))

Spec == Init /\ [][Next]_vars

-----------------------------------------------------------------------------
(* Fairness.  Go's select picks among the cases that are ready at random,  *)
(* so a sender that keeps waiting is received from; primitives end when    *)
(* they are canceled, and handlers answer a cancellation.                  *)

Receives(op) == \E p \in primitives : p.op = op /\ ReceiveEvent(p) /\ UNCHANGED clientVars

Answers(op) == \E h \in Handler : HandlerCancels(h, op) /\ UNCHANGED clientVars

Killed == \E p \in primitives : IsCanceled(p.op) /\ ExitProcess(p) /\ UNCHANGED clientVars

Drains == \E p \in primitives : DrainEvent(p) /\ UNCHANGED clientVars

Takes(h) ==
    /\ ReceiveJobUpdate(h) \/ ReceiveMisdirected(h) \/ ReceiveClosed(h)
    /\ UNCHANGED clientVars

GivesUp(h) == ForwarderStops(h) /\ UNCHANGED clientVars

Manages == ManagerStep /\ UNCHANGED clientVars

Fairness ==
    /\ WF_vars(Manages)
    /\ WF_vars(StoreCheckpoint)
    /\ WF_vars(Killed)
    /\ WF_vars(Drains)
    /\ \A op \in Op : SF_vars(Receives(op)) /\ SF_vars(Answers(op))
    /\ \A h \in Handler : SF_vars(Takes(h)) /\ WF_vars(GivesUp(h))

FairSpec == Spec /\ Fairness

-----------------------------------------------------------------------------
(* Properties.                                                             *)

\* What the manager does is what the coordinator is promised: it starts an
\* operation at most once, queues its checkpoints in order, ends it with one
\* finished checkpoint and forgets it, whatever primitives, handlers and
\* cancellations do meanwhile (Manager, LocalOperationManager.run).
Promise == INSTANCE OperationManager WITH
    Progress <- Unfinished,
    Outcome <- Finished,
    running <- Running,
    reported <- {},
    canceled <- Running \cap (ctxErr \cup asked),
    updates <- [i \in DOMAIN pendingUpdates |->
                  [op |-> pendingUpdates[i].op, status |-> pendingUpdates[i].actor.status]]

ImplementsManager == Promise!ManagerSpec

\* The operation that has been added and has not taken its first step.
Starting == {op \in Running : step = <<"start", op>>}

\* The primitive whose next event the operation accepts.
Awaited(a) ==
    CASE a.type = "shell"      -> a.phase
      [] a.type = "view_image" -> IF a.processing THEN "compute" ELSE "read"
      [] OTHER                 -> "read"

\* No operation waits for nobody: a local one has exactly one primitive, the
\* one its phase awaits, and a job has a handler that has not stopped, or is
\* about to be failed (acceptLocalStep, the closed case of run).  And the drain,
\* which waits on a count, waits for exactly the primitives that have not ended.
NothingIsStranded ==
    /\ activePrimitives = Cardinality(primitives)
    /\ loop = "stopped" => primitives = {}
    /\ loop = "run" => \A op \in Running \ Starting :
           IF IsRemote(operations[op])
           THEN operations[op].phase \in closed => step = <<"fail", operations[op].phase>>
           ELSE \E p \in primitives :
                   /\ {q \in primitives : q.op = op} = {p}
                   /\ p.correlation = Awaited(operations[op])

EventsAreExpected == \A op \in Op : stored[op].error # "invalid"

\* The last checkpoint on its way to the client, or else the stored one.
LastCheckpoint(op) ==
    LET made == {i \in DOMAIN pendingUpdates : pendingUpdates[i].op = op}
    IN  IF made = {} THEN stored[op]
        ELSE pendingUpdates[CHOOSE i \in made : \A j \in made : j <= i].actor

CheckpointsAreCurrent ==
    \A op \in accepted :
        IF op \in Running
        THEN LastCheckpoint(op) = Checkpointed(operations[op])
        ELSE LastCheckpoint(op).status \in Finished

\* Operations go on where they were, in every interleaving with cancellations and
\* after every restart.  The events of a primitive are those its operation expects:
\* no operation ends because the program lost track of it (readEvent, the read
\* offsets).  What is on its way to the store is what the manager holds, or a
\* finished checkpoint of an operation that it has forgotten (appendLocalUpdate).
\* And a command runs a second time only if the process died before the checkpoint
\* of its start was stored (Shell.resume).
OperationsGoOn ==
    /\ EventsAreExpected /\ CheckpointsAreCurrent
    /\ \A op \in Op : starts[op] <= 1 \/ op \in unrecorded

\* The stored status of an operation never goes back, whatever order updates,
\* handler messages and restarts come in: a finished operation stays as it is,
\* a canceled job does not await again (validRemoteJobStatusTransition, Add).
StoredNeverGoesBack ==
    [][\A op \in Op :
          LET old == stored[op].status
              new == stored'[op].status
          IN  /\ old \in Finished => stored'[op] = stored[op]
              /\ old = "canceling" => new \in {"canceling"} \cup Finished
              /\ old = "awaiting" => new # "ready"]_stored

\* A shell command whose outcome is unknown is failed and not run again, as the
\* test of Shell.resume says: a command is run at most once.
StartedOnce == \A op \in Op : starts[op] <= 1

\* A canceled operation ends, whatever its primitive was doing, or the manager
\* shuts down (Cancel, current.cancel, CancelRemoteJob); and a manager whose context
\* is canceled waits for its primitives and forwarders and then stops, however many
\* operations are running (drainLocalPrimitives).
CancellationEnds ==
    /\ \A op \in Op :
         (loop = "run" /\ op \in Running \cap (ctxErr \cup asked))
             ~> (op \notin Running \/ loop # "run")
    /\ shutdown ~> (loop \in {"stopped", "panicked"} \/ ~shutdown)
=============================================================================
