------------------------ MODULE LocalOperationManager ------------------------
(***************************************************************************)
(* The local operation manager: one goroutine that owns the running        *)
(* operations, starts their primitives, receives the events of those       *)
(* primitives and the updates of remote job handlers, and queues the       *)
(* checkpoints for whoever reads its updates.                              *)
(*                                                                         *)
(* Primitives and handlers are goroutines of their own.  All channels are  *)
(* unbuffered: an event is handed over when the manager receives it.       *)
(***************************************************************************)
EXTENDS OperationActors

CONSTANTS
    Handler,        \* the remote job handlers the manager was given
    MaxPending,     \* bound on the updates nobody has received yet
    MaxJobUpdates   \* bound on the updates a handler makes of its own accord

ASSUME ManagerBounds ==
    /\ MaxPending \in Nat \ {0}
    /\ MaxJobUpdates \in Nat

VARIABLES
    accepted,         \* IDs of the operations Add has accepted
    operations,       \* the running operations, by ID
    ctxErr,           \* operations whose own context is canceled
    pendingUpdates,   \* checkpoints nobody has received yet
    primitives,       \* primitives that have not handed over their last event
    activePrimitives, \* the manager's count of them
    step,             \* what the manager is doing with the request it received
    loop,             \* the manager's goroutine: "run", "drain", "stopped" or "panicked"
    shutdown,         \* the manager's context is canceled
    closed,           \* handlers marked closed
    forwarding,       \* what each handler's forwarder holds
    asked,            \* jobs that a handler has been asked to cancel
    jobUpdates        \* counter for MaxJobUpdates

managerVars == <<accepted, operations, ctxErr, pendingUpdates, activePrimitives, step, loop>>
primitiveVars == <<primitives>>
handlerVars == <<closed, forwarding, asked, jobUpdates>>
localVars == <<managerVars, primitiveVars, handlerVars, shutdown>>

Op == Key \X Slot

\* A remote job, and the handler that serves its plan.
RemoteJob(handler, status) == [Actor("remote_job", status) EXCEPT !.phase = handler]

IsRemote(a) == a.type = "remote_job"

Running == DOMAIN operations

\* A context is canceled with the manager's.
IsCanceled(op) == shutdown \/ op \in ctxErr

\* A panic of any goroutine ends the process.
Alive == loop # "panicked"

\* The manager waits in its select, which takes any case that is ready.
Ready == loop = "run" /\ step = <<>> /\ Len(pendingUpdates) < MaxPending

-----------------------------------------------------------------------------
(* Checkpoints.                                                            *)

AppendUpdate(op, a) ==
    pendingUpdates' = Append(pendingUpdates, [op |-> op, actor |-> Checkpointed(a)])

Forget(op) == operations' = [other \in Running \ {op} |-> operations[other]]

\* failLocalOperation of the manager: the operation ends as failed.
Fail(op, a, error) ==
    /\ AppendUpdate(op, FailWith(a, error).actor)
    /\ ctxErr' = ctxErr \cup {op}
    /\ Forget(op)

NewPrimitives(op, dispatches) ==
    {[op |-> op, kind |-> d.kind, correlation |-> d.correlation, at |-> d.offset,
      process |-> "new", announced |-> FALSE] : d \in dispatches}

\* acceptLocalStep, after `ended' primitives have left and `left' remain.
Accept(op, result, left, ended) ==
    LET a        == result.actor
        finishes == result.saves /\ a.status \in Finished
        started  == IF finishes THEN {} ELSE NewPrimitives(op, result.dispatches)
    IN  /\ IF result.saves THEN AppendUpdate(op, a) ELSE UNCHANGED pendingUpdates
        /\ IF finishes
           THEN ctxErr' = ctxErr \cup {op} /\ Forget(op)
           ELSE operations' = [operations EXCEPT ![op] = a] /\ UNCHANGED ctxErr
        /\ primitives' = left \cup started
        /\ activePrimitives' = activePrimitives - ended + Cardinality(started)

-----------------------------------------------------------------------------
(* Add, Cancel and Updates.                                                *)

\* What Add refuses: an operation that cannot start, or a handler that stopped.
CanAdd(a) ==
    IF IsRemote(a) THEN a.phase \in Handler \ closed ELSE Start(a).ok

\* Mutant: a repeated Add starts the operation again.
MutAddRepeatedly(op, a) ==
    /\ Ready
    /\ op \notin Running
    /\ CanAdd(a)
    /\ accepted' = accepted \cup {op}
    /\ operations' = [other \in Running \cup {op} |-> IF other = op THEN a ELSE operations[other]]
    /\ step' = IF IsRemote(a) THEN <<>> ELSE <<"start", op>>
    /\ UNCHANGED <<ctxErr, pendingUpdates, primitives, activePrimitives, loop, shutdown,
                   handlerVars>>

\* The adds case of run, up to the first step of a local operation.
AddOperation(op, a) ==
    /\ Ready
    /\ op \notin accepted
    /\ CanAdd(a)
    /\ accepted' = accepted \cup {op}
    /\ operations' = [other \in Running \cup {op} |-> IF other = op THEN a ELSE operations[other]]
    /\ step' = IF IsRemote(a) THEN <<>> ELSE <<"start", op>>
    /\ UNCHANGED <<ctxErr, pendingUpdates, primitives, activePrimitives, loop, shutdown,
                   handlerVars>>

\* The rest of that case: acceptLocalStep of the first step.
StartOperation ==
    /\ step # <<>> /\ step[1] = "start"
    /\ LET op == step[2]
       IN  Accept(op, Start(operations[op]), primitives, 0)
    /\ step' = <<>>
    /\ UNCHANGED <<accepted, loop, shutdown, handlerVars>>

\* The cancellations case: cancel the context of a local operation, ask the
\* handler of a remote job.
CancelOperation(op) ==
    /\ Ready
    /\ op \in Running
    /\ IF IsRemote(operations[op])
       THEN asked' = asked \cup {op} /\ UNCHANGED ctxErr
       ELSE ctxErr' = ctxErr \cup {op} /\ UNCHANGED asked
    /\ UNCHANGED <<accepted, operations, pendingUpdates, primitives, activePrimitives, step,
                   loop, shutdown, closed, forwarding, jobUpdates>>

\* The updates case: somebody receives the oldest checkpoint.
ReceiveCheckpoint(update) ==
    /\ loop = "run" /\ step = <<>>
    /\ pendingUpdates # <<>>
    /\ update = Head(pendingUpdates)
    /\ pendingUpdates' = Tail(pendingUpdates)
    /\ UNCHANGED <<accepted, operations, ctxErr, primitives, activePrimitives, step, loop,
                   shutdown, handlerVars>>

-----------------------------------------------------------------------------
(* Primitives.                                                             *)

\* runProcess: command.Start, which a cancellation may come too late for.
StartProcess(p) ==
    /\ Alive
    /\ p \in primitives
    /\ p.kind = "process" /\ p.process = "new"
    /\ primitives' = (primitives \ {p}) \cup {[p EXCEPT !.process = "live"]}
    /\ UNCHANGED <<managerVars, handlerVars, shutdown>>

\* The process exits by itself, or the cancellation kills its group.
ExitProcess(p) ==
    /\ Alive
    /\ p \in primitives
    /\ p.process = "live"
    /\ primitives' = (primitives \ {p}) \cup {[p EXCEPT !.process = "exited"]}
    /\ UNCHANGED <<managerVars, handlerVars, shutdown>>

Event(p, type, large, good) ==
    [type |-> type, correlation |-> p.correlation, offset |-> p.at, large |-> large,
     good |-> good]

\* The events a primitive may hand over now.  Each ends with one that says how
\* it ended, which it sends whether or not its context is canceled.
EventTypes(p) ==
    LET canceled == IF IsCanceled(p.op) THEN {"canceled"} ELSE {}
    IN  CASE p.kind = "create"  -> {"create_completed", "failed"} \cup canceled
          [] p.kind = "compute" -> {"compute_completed", "failed"} \cup canceled
          [] p.kind = "read"    ->
                {"failed"} \cup canceled
                \cup (IF p.at < FileSize THEN {"read_output"} ELSE {"read_completed"})
          [] p.kind = "process" ->
                IF p.process = "new" THEN {"failed"} \cup canceled
                ELSE (IF p.announced THEN {} ELSE {"process_started"})
                     \cup (IF p.process = "exited" /\ (p.announced \/ IsCanceled(p.op))
                           THEN {"process_exited", "failed"} \cup canceled ELSE {})

\* What they may say of a file, that it is larger than the budget, and of an image,
\* that it could be decoded.
Sizes(p)   == IF p.kind = "read" THEN BOOLEAN ELSE {FALSE}
Results(p) == IF p.kind = "compute" THEN BOOLEAN ELSE {TRUE}

Events(p) ==
    {Event(p, type, large, good) :
        type \in EventTypes(p), large \in Sizes(p), good \in Results(p)}

\* The events that are not the last of their primitive.
IsProgress(event) == event.type \in {"read_output", "process_started"}

\* The primitive after it has handed over such an event.
Continued(p, event) ==
    IF event.type = "read_output" THEN [p EXCEPT !.at = @ + 1] ELSE [p EXCEPT !.announced = TRUE]

LeftAfter(p, event) ==
    (primitives \ {p}) \cup (IF IsProgress(event) THEN {Continued(p, event)} ELSE {})

\* localPrimitiveCompleted.
IsCompletion(event) ==
    event.type \in {"create_completed", "read_completed", "process_exited", "compute_completed",
                    "failed", "canceled"}

\* A completion that meets a canceled context is a cancellation.
Seen(op, event) ==
    IF IsCompletion(event) /\ IsCanceled(op) THEN [event EXCEPT !.type = "canceled"] ELSE event

\* The primitiveEvents case, after the event is received.
Receive(p, event) ==
    LET op    == p.op
        left  == LeftAfter(p, event)
        ended == IF IsCompletion(event) THEN 1 ELSE 0
        result == Advance(operations[op], Seen(op, event))
    IN  CASE op \notin Running ->
                /\ primitives' = left
                /\ activePrimitives' = activePrimitives - ended
                /\ UNCHANGED <<operations, ctxErr, pendingUpdates>>
          [] op \in Running /\ ~result.ok ->
                /\ Fail(op, operations[op], "invalid")
                /\ primitives' = left
                /\ activePrimitives' = activePrimitives - ended
          [] OTHER -> Accept(op, result, left, ended)

ReceiveEvent(p) ==
    /\ Ready
    /\ p \in primitives
    /\ \E event \in Events(p) : Receive(p, event)
    /\ UNCHANGED <<accepted, step, loop, shutdown, handlerVars>>

-----------------------------------------------------------------------------
(* Remote job handlers, and their forwarders.                              *)

NoUpdate == [kind |-> "none"]
Closing  == [kind |-> "closed"]
Gone     == [kind |-> "gone"]
JobUpdate(op, status, same) == [kind |-> "update", op |-> op, status |-> status, same |-> same]

\* A handler makes an update: of a job of its own, or by mistake of an operation
\* that is not its job, one that goes back or one of another identity.
HandlerSends(h, op, status, same) ==
    /\ Alive
    /\ forwarding[h] = NoUpdate
    /\ op \in Running
    /\ jobUpdates < MaxJobUpdates
    /\ jobUpdates' = jobUpdates + 1
    /\ forwarding' = [forwarding EXCEPT ![h] = JobUpdate(op, status, same)]
    /\ UNCHANGED <<managerVars, primitives, shutdown, closed, asked>>

\* A handler answers a cancellation.
HandlerCancels(h, op) ==
    /\ Alive
    /\ forwarding[h] = NoUpdate
    /\ op \in asked
    /\ op \in Running /\ operations[op].phase = h
    /\ forwarding' = [forwarding EXCEPT ![h] = JobUpdate(op, "canceled", TRUE)]
    /\ UNCHANGED <<managerVars, primitives, shutdown, closed, asked, jobUpdates>>

\* A handler closes its updates.
HandlerCloses(h) ==
    /\ Alive
    /\ forwarding[h] = NoUpdate
    /\ jobUpdates < MaxJobUpdates
    /\ jobUpdates' = jobUpdates + 1
    /\ forwarding' = [forwarding EXCEPT ![h] = Closing]
    /\ UNCHANGED <<managerVars, primitives, shutdown, closed, asked>>

\* The forwarder gives up when the manager's context is canceled.
ForwarderStops(h) ==
    /\ Alive /\ shutdown
    /\ forwarding[h] # Gone
    /\ forwarding' = [forwarding EXCEPT ![h] = Gone]
    /\ UNCHANGED <<managerVars, primitives, shutdown, closed, asked, jobUpdates>>

\* validRemoteJobStatusTransition.
ValidTransition(current, updated) ==
    CASE current = "ready"     -> updated # "ready"
      [] current = "awaiting"  -> updated # "ready"
      [] current = "canceling" -> updated \in {"canceling", "failed", "canceled"}
      [] OTHER                 -> FALSE

\* Mutant: a handler may go back to an earlier status.
MutIsValid(h, update) ==
    update.same /\ operations[update.op].phase = h

\* validateRemoteJobUpdate, and that the update comes from the job's handler.
IsValid(h, update) ==
    /\ update.same
    /\ operations[update.op].phase = h
    /\ ValidTransition(operations[update.op].status, update.status)

\* The remoteJobs.updates case for an update: an unknown job's is dropped, an
\* invalid one fails the job and cancels it at its handler.
ReceiveJobUpdate(h) ==
    /\ Ready
    /\ forwarding[h].kind = "update"
    /\ forwarding[h].op \in Running => IsRemote(operations[forwarding[h].op])
    /\ forwarding' = [forwarding EXCEPT ![h] = NoUpdate]
    /\ LET update == forwarding[h]
           op     == update.op
           next   == [operations[op] EXCEPT !.status = update.status]
       IN  CASE op \notin Running ->
                   UNCHANGED <<operations, ctxErr, pendingUpdates, asked>>
             [] op \in Running /\ ~IsValid(h, update) ->
                   /\ Fail(op, operations[op], "remote")
                   /\ asked' = asked \cup {op}
             [] OTHER ->
                   /\ AppendUpdate(op, next)
                   /\ IF update.status \in Finished
                      THEN ctxErr' = ctxErr \cup {op} /\ Forget(op)
                      ELSE operations' = [operations EXCEPT ![op] = next] /\ UNCHANGED ctxErr
                   /\ UNCHANGED asked
    /\ UNCHANGED <<accepted, primitives, activePrimitives, step, loop, shutdown, closed, jobUpdates>>

\* And for the update of an operation that has no handler: failRemoteJobOperation
\* indexes the handlers with -1.
ReceiveMisdirected(h) ==
    /\ Ready
    /\ forwarding[h].kind = "update"
    /\ forwarding[h].op \in Running /\ ~IsRemote(operations[forwarding[h].op])
    /\ loop' = "panicked"
    /\ UNCHANGED <<accepted, operations, ctxErr, pendingUpdates, primitives, activePrimitives,
                   step, shutdown, handlerVars>>

\* The same case when the handler has closed its updates: mark it closed, then
\* fail its jobs one after the other.
JobsOf(h) == {op \in Running : IsRemote(operations[op]) /\ operations[op].phase = h}

\* Mutant: the jobs of a handler that closed are left alone.
MutReceiveClosed(h) ==
    /\ Ready
    /\ forwarding[h] = Closing
    /\ forwarding' = [forwarding EXCEPT ![h] = Gone]
    /\ closed' = closed \cup {h}
    /\ UNCHANGED <<accepted, operations, ctxErr, pendingUpdates, primitives, activePrimitives,
                   step, loop, shutdown, asked, jobUpdates>>

ReceiveClosed(h) ==
    /\ Ready
    /\ forwarding[h] = Closing
    /\ forwarding' = [forwarding EXCEPT ![h] = Gone]
    /\ closed' = closed \cup {h}
    /\ step' = IF JobsOf(h) = {} THEN <<>> ELSE <<"fail", h>>
    /\ UNCHANGED <<accepted, operations, ctxErr, pendingUpdates, primitives, activePrimitives,
                   loop, shutdown, asked, jobUpdates>>

FailJob ==
    /\ step # <<>> /\ step[1] = "fail"
    /\ \E op \in JobsOf(step[2]) :
          /\ Fail(op, operations[op], "remote")
          /\ step' = IF JobsOf(step[2]) = {op} THEN <<>> ELSE step
    /\ UNCHANGED <<accepted, primitives, activePrimitives, loop, shutdown, handlerVars>>

-----------------------------------------------------------------------------
(* Shutting down.                                                          *)

\* The owner cancels the manager's context, and with it every other context.
Shutdown ==
    /\ Alive /\ ~shutdown
    /\ shutdown' = TRUE
    /\ UNCHANGED <<managerVars, primitives, handlerVars>>

\* The ctx.Done case: cancel the operations and drain their primitives.
StartDrain ==
    /\ loop = "run" /\ step = <<>>
    /\ shutdown
    /\ ctxErr' = ctxErr \cup Running
    /\ loop' = "drain"
    /\ UNCHANGED <<accepted, operations, pendingUpdates, primitives, activePrimitives, step,
                   shutdown, handlerVars>>

\* drainLocalPrimitives.
DrainEvent(p) ==
    /\ loop = "drain"
    /\ activePrimitives # 0
    /\ p \in primitives
    /\ \E event \in Events(p) :
          /\ primitives' = LeftAfter(p, event)
          /\ activePrimitives' = activePrimitives - (IF IsCompletion(event) THEN 1 ELSE 0)
    /\ UNCHANGED <<accepted, operations, ctxErr, pendingUpdates, step, loop, shutdown,
                   handlerVars>>

\* run returns when the forwarders have stopped too, and closes the updates.
Stop ==
    /\ loop = "drain"
    /\ activePrimitives = 0
    /\ \A h \in Handler : forwarding[h] = Gone
    /\ loop' = "stopped"
    /\ UNCHANGED <<accepted, operations, ctxErr, pendingUpdates, primitives, activePrimitives,
                   step, shutdown, handlerVars>>

-----------------------------------------------------------------------------

\* NewLocalOperationManager.
NewLocalManager ==
    /\ accepted' = {}
    /\ operations' = <<>>
    /\ ctxErr' = {}
    /\ pendingUpdates' = <<>>
    /\ primitives' = {}
    /\ activePrimitives' = 0
    /\ step' = <<>>
    /\ loop' = "run"
    /\ shutdown' = FALSE
    /\ closed' = {}
    /\ forwarding' = [h \in Handler |-> NoUpdate]
    /\ asked' = {}
    /\ UNCHANGED jobUpdates

LocalManagerInit ==
    /\ accepted = {}
    /\ operations = <<>>
    /\ ctxErr = {}
    /\ pendingUpdates = <<>>
    /\ primitives = {}
    /\ activePrimitives = 0
    /\ step = <<>>
    /\ loop = "run"
    /\ shutdown = FALSE
    /\ closed = {}
    /\ forwarding = [h \in Handler |-> NoUpdate]
    /\ asked = {}
    /\ jobUpdates = 0
=============================================================================
