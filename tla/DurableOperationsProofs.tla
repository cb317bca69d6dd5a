---------------------- MODULE DurableOperationsProofs -----------------------
(***************************************************************************)
(* Theorems about the local operation manager and its client, for every    *)
(* number of operations, handlers, chunks, updates and crashes.            *)
(***************************************************************************)
EXTENDS DurableOperations, FiniteSetTheorems, SequenceTheorems, TLAPS

-----------------------------------------------------------------------------
(* Types.                                                                  *)

Phase == {"", "process"} \cup CreatePhases \cup ReadPhases \cup Handler

ErrorKind == {"none", "invalid", "interrupted", "canceled", "primitive", "remote"}

ActorType ==
    [type : LocalType \cup {"remote_job"}, status : OpStatus, phase : Phase, group : BOOLEAN,
     exit : BOOLEAN, content : Nat, error : ErrorKind, readSize : Nat, processing : BOOLEAN]

Correlation == {"read", "compute", "process"} \cup CreatePhases \cup ReadPhases

DispatchType ==
    [kind : {"create", "read", "process", "compute"}, correlation : Correlation,
     offset : 0 .. FileSize]

PrimitiveType ==
    [op : Op, kind : {"create", "read", "process", "compute"}, correlation : Correlation,
     at : 0 .. FileSize, process : {"new", "live", "exited"}, announced : BOOLEAN]

CheckpointType == [op : Op, actor : ActorType]

ForwardType ==
    {NoUpdate, Closing, Gone}
    \cup [kind : {"update"}, op : Op, status : OpStatus, same : BOOLEAN]

LocalTypeOK ==
    /\ accepted \subseteq Op
    /\ operations \in [Running -> ActorType] /\ Running \subseteq accepted
    /\ ctxErr \subseteq accepted
    /\ pendingUpdates \in Seq(CheckpointType)
    /\ primitives \subseteq PrimitiveType
    /\ activePrimitives \in Int
    /\ loop \in {"run", "drain", "stopped", "panicked"}
    /\ shutdown \in BOOLEAN
    /\ closed \subseteq Handler
    /\ forwarding \in [Handler -> ForwardType]
    /\ asked \subseteq accepted

ClientTypeOK ==
    /\ stored \in [Op -> ActorType]
    /\ starts \in [Op -> Nat]
    /\ unrecorded \subseteq Op
    /\ crashes \in Nat

TypeInv == LocalTypeOK /\ ClientTypeOK

-----------------------------------------------------------------------------
(* Operations.                                                             *)

\* What every actor is, stored, on its way to the store or running.
Well(a) ==
    /\ a.error # "invalid"
    /\ a.content <= FileSize
    /\ IsRemote(a) \/ a.status # "canceling"
    /\ a.type = "value" => a.status # "awaiting"
    /\ a.type # "view_image" => ~a.processing
    /\ a.type = "shell" =>
          /\ a.status = "ready" => a.phase = ""
          /\ a.status = "awaiting" => a.phase \in {"process"} \cup CreatePhases \cup ReadPhases
          /\ a.phase \in ReadPhases => a.exit
          /\ a.phase \notin ReadPhases => a.readSize = 0

ActorsInv ==
    /\ \A op \in Op : Well(stored[op]) /\ Checkpointed(stored[op]) = stored[op]
    /\ \A i \in DOMAIN pendingUpdates :
          LET a == pendingUpdates[i].actor IN Well(a) /\ Checkpointed(a) = a
    /\ \A op \in Running : Well(operations[op]) /\ operations[op].status \in Unfinished

\* What the manager is about to do with the request it received.
StepInv ==
    /\ \/ step = <<>>
       \/ \E op \in Running :
             /\ step = <<"start", op>>
             /\ ~IsRemote(operations[op]) /\ Start(operations[op]).ok
             /\ Checkpointed(operations[op]) = operations[op]
       \/ \E h \in closed : step = <<"fail", h>> /\ JobsOf(h) # {}
    /\ loop # "run" => step = <<>>

-----------------------------------------------------------------------------
(* Primitives.                                                             *)

AwaitedKind(a) ==
    CASE a.type = "shell" ->
            IF a.phase \in CreatePhases THEN "create"
            ELSE IF a.phase = "process" THEN "process" ELSE "read"
      [] a.type = "view_image" -> IF a.processing THEN "compute" ELSE "read"
      [] OTHER -> "read"

Position(a) == IF a.type = "skill_use" THEN a.content ELSE a.readSize

Fits(p, a) ==
    /\ a.status = "awaiting" /\ ~IsRemote(a)
    /\ p.correlation = Awaited(a)
    /\ p.kind = AwaitedKind(a)
    /\ p.kind = "read" /\ loop = "run" => p.at = Position(a)

PrimitivesInv ==
    /\ IsFiniteSet(primitives)
    /\ activePrimitives = Cardinality(primitives)
    /\ loop = "stopped" => primitives = {}
    /\ \A p, q \in primitives : p.op = q.op => p = q
    /\ \A p \in primitives :
          /\ p.op \in accepted
          /\ p.op \in Running => p.op \notin Starting /\ Fits(p, operations[p.op])
    /\ loop = "run" => \A op \in Running \ Starting :
          ~IsRemote(operations[op]) => \E p \in primitives : p.op = op

JobsInv ==
    loop = "run" => \A op \in Running :
        IsRemote(operations[op]) /\ operations[op].phase \in closed =>
            step = <<"fail", operations[op].phase>>

-----------------------------------------------------------------------------
(* Checkpoints.                                                            *)

\* What a status of an operation may follow.
Before(old, new) ==
    /\ old \in Unfinished
    /\ old = "canceling" => new \in {"canceling"} \cup Finished
    /\ old = "awaiting" => new # "ready"

OrderInv ==
    /\ \A i \in DOMAIN pendingUpdates :
          /\ pendingUpdates[i].op \in accepted
          /\ Before(stored[pendingUpdates[i].op].status, pendingUpdates[i].actor.status)
    /\ \A i, j \in DOMAIN pendingUpdates :
          i < j /\ pendingUpdates[i].op = pendingUpdates[j].op =>
              Before(pendingUpdates[i].actor.status, pendingUpdates[j].actor.status)
    /\ \A op \in Running :
          /\ Before(stored[op].status, operations[op].status)
          /\ \A i \in DOMAIN pendingUpdates : pendingUpdates[i].op = op =>
                Before(pendingUpdates[i].actor.status, operations[op].status)

\* The last checkpoint of an operation that nobody has received yet, or else the stored
\* one, is what the manager holds, or a finished one of an operation it has forgotten.
IsLast(i) ==
    \A j \in DOMAIN pendingUpdates : pendingUpdates[j].op = pendingUpdates[i].op => j <= i

IsCurrent(op, checkpoint) ==
    IF op \in Running THEN checkpoint = Checkpointed(operations[op])
    ELSE checkpoint.status \in Finished

CurrentInv ==
    \A op \in accepted :
        \/ /\ \A i \in DOMAIN pendingUpdates : pendingUpdates[i].op # op
           /\ IsCurrent(op, stored[op])
        \/ \E i \in DOMAIN pendingUpdates :
              /\ pendingUpdates[i].op = op /\ IsLast(i)
              /\ IsCurrent(op, pendingUpdates[i].actor)

\* A process has been started at most once that no crash has left without a record,
\* and none when the operation has not come to its process.
StartsInv ==
    \A op \in Op \ unrecorded :
        /\ starts[op] <= 1
        /\ op \notin accepted => starts[op] = 0 \/ StartIsStored(op)
        /\ op \in Running /\ operations[op].type = "shell"
           /\ operations[op].phase \in {""} \cup CreatePhases => starts[op] = 0
        /\ \A p \in primitives : p.op = op /\ p.kind = "process" /\ p.process = "new" =>
              starts[op] = 0

-----------------------------------------------------------------------------
(* The steps of operations.                                                *)

\* The primitive is the one the actor waits for.
Expects(a, d) ==
    /\ d \in DispatchType
    /\ d.correlation = Awaited(a) /\ d.kind = AwaitedKind(a)
    /\ d.kind = "read" => d.offset = Position(a)

\* What a step may do to a local operation.
Sound(a, r) ==
    /\ r.ok
    /\ r.actor \in ActorType /\ Well(r.actor) /\ r.actor.type = a.type
    /\ r.saves => Before(a.status, r.actor.status)
    /\ ~r.saves => r.actor.status = a.status /\ Checkpointed(r.actor) = Checkpointed(a)
    /\ \/ r.actor.status = "awaiting"
       \/ r.saves /\ r.actor.status \in Finished /\ r.dispatches = {}
    /\ r.actor.phase \in CreatePhases => a.phase \in {""} \cup CreatePhases
    /\ \A d \in r.dispatches : d.kind = "process" => a.phase \in CreatePhases

\* A step after which the operation waits for the primitive it dispatches.
Continues(r) ==
    r.actor.status = "awaiting" => \E d : r.dispatches = {d} /\ Expects(r.actor, d)

LEMMA StepFields ==
    ASSUME NEW a, NEW dispatches
    PROVE  /\ LET r == Step(a, TRUE, dispatches)
              IN  r.ok /\ r.saves /\ r.actor = a /\ r.dispatches = dispatches
           /\ LET r == Step(a, FALSE, dispatches)
              IN  r.ok /\ ~r.saves /\ r.actor = a /\ r.dispatches = dispatches
BY DEF Step

LEMMA EndedIsSound ==
    ASSUME NEW a \in ActorType, Well(a), a.status \in Unfinished,
           NEW c \in ActorType, c.type = a.type, c.content = a.content,
           NEW status \in Finished, NEW error \in ErrorKind \ {"invalid"}
    PROVE  /\ Sound(a, Ended(c, status, error))
           /\ Ended(c, status, error).actor.status = status
           /\ Ended(c, status, error).saves
<1> DEFINE b == Ended(c, status, error).actor
<1>1. /\ b \in ActorType /\ b.type = c.type /\ b.status = status /\ b.phase = ""
      /\ b.error = error /\ b.content = c.content /\ b.readSize = 0 /\ ~b.processing
  BY DEF Ended, Step, Checkpointed, ActorType, Phase, OpStatus
<1>2. /\ Ended(c, status, error).ok /\ Ended(c, status, error).saves
      /\ Ended(c, status, error).dispatches = {}
  BY DEF Ended, Step
<1>3. Well(b)
  BY <1>1 DEF Well, IsRemote, ReadPhases, Finished
<1>4. Before(a.status, status)
  BY DEF Before, Finished
<1> QED
  BY <1>1, <1>2, <1>3, <1>4 DEF Sound, CreatePhases

\* The phases of a shell operation that awaits a primitive.
ShellPhases == {"process"} \cup CreatePhases \cup ReadPhases

LEMMA PhasesDiffer ==
    /\ "process" \notin CreatePhases \cup ReadPhases /\ "" \notin ShellPhases
    /\ \A phase \in CreatePhases : phase \notin ReadPhases
BY DEF CreatePhases, ReadPhases, ShellPhases

LEMMA FirstOffset == 0 \in 0 .. FileSize
BY FileSizeAssumption

LEMMA PhaseIsSound ==
    ASSUME NEW a \in ActorType, Well(a), a.type = "shell", a.status \in {"ready", "awaiting"},
           NEW b \in ActorType, b.type = "shell", b.error = a.error, b.content = a.content,
           b.processing = a.processing, b.readSize = 0, NEW phase \in ShellPhases,
           phase \in ReadPhases => b.exit,
           phase \in CreatePhases => a.phase \in {""} \cup CreatePhases,
           phase = "process" => a.phase \in CreatePhases
    PROVE  /\ Sound(a, NextPhase(b, phase)) /\ Continues(NextPhase(b, phase))
           /\ NextPhase(b, phase).saves
<1> DEFINE r == NextPhase(b, phase)
           c == [[b EXCEPT !.phase = phase] EXCEPT !.status = "awaiting"]
           d == Dispatch(AwaitedKind(c), phase, 0)
<1>1. /\ c \in ActorType /\ c.type = "shell" /\ c.status = "awaiting" /\ c.phase = phase
      /\ c.error = a.error /\ c.content = a.content /\ c.readSize = 0
      /\ c.processing = a.processing /\ c.exit = b.exit
  BY DEF ActorType, Phase, ShellPhases, OpStatus, Unfinished
<1>2. r = Step(c, TRUE, {d})
  <2>1. [b EXCEPT !.phase = phase].phase = phase
    BY DEF ActorType
  <2> QED
    BY <1>1, <2>1, PhasesDiffer
       DEF NextPhase, DispatchPhase, Await, AwaitedKind, ShellPhases, Dispatch
<1>3. d.kind = AwaitedKind(c) /\ d.correlation = phase /\ d.offset = 0
  BY DEF Dispatch
<1> HIDE DEF c, d, r
<1>8. r.ok /\ r.saves /\ r.actor = c /\ r.dispatches = {d}
  BY <1>2 DEF Step
<1>4. Well(c)
  BY <1>1 DEF Well, IsRemote, ShellPhases
<1>5. Before(a.status, c.status)
  BY <1>1 DEF Before, Unfinished, Finished
<1>6. Expects(c, d)
  <2>1. AwaitedKind(c) \in {"create", "read", "process"} /\ Awaited(c) = phase /\ Position(c) = 0
    BY <1>1 DEF AwaitedKind, Awaited, Position
  <2>2. phase \in Correlation
    BY DEF Correlation, ShellPhases
  <2>3. d \in DispatchType
    BY <2>1, <2>2, FirstOffset DEF d, DispatchType, Dispatch
  <2> QED
    BY <1>3, <2>1, <2>3 DEF Expects
<1>7. d.kind = "process" => phase = "process"
  BY <1>1, <1>3 DEF AwaitedKind, ShellPhases
<1>9. Sound(a, r)
  BY <1>1, <1>4, <1>5, <1>7, <1>8 DEF Sound
<1> QED
  BY <1>6, <1>8, <1>9 DEF Continues, r

\* What Start does: an operation ends at once, or waits for its first primitive.
LEMMA StartIsSound ==
    ASSUME NEW a \in ActorType, Well(a), ~IsRemote(a), a.status \in Unfinished,
           Checkpointed(a) = a
    PROVE  Sound(a, Start(a)) /\ Continues(Start(a)) /\ Start(a).saves
<1>0. a.readSize = 0 /\ ~a.processing /\ a.type \in LocalType
      /\ a.status \in {"ready", "awaiting"} /\ a.error \in ErrorKind \ {"invalid"}
  BY DEF Checkpointed, ActorType, Well, IsRemote, Unfinished
<1>1. CASE a.type = "shell"
  <2>1. CASE a.status = "ready"
    <3>1. Start(a) = NextPhase(a, "create_directory") /\ a.phase = ""
      BY <1>0, <1>1, <2>1 DEF Start, StartShell, Well
    <3> QED
      BY <1>0, <1>1, <3>1, PhaseIsSound DEF ShellPhases, CreatePhases, ReadPhases
  <2>2. CASE a.status = "awaiting" /\ a.phase = "process"
    <3>1. Start(a) = Ended(a, "failed", "interrupted")
      BY <1>1, <2>2 DEF Start, StartShell, ResumeShell, FailWith
    <3>2. Sound(a, Start(a)) /\ Start(a).actor.status = "failed" /\ Start(a).saves
      BY <3>1, EndedIsSound DEF Finished, ErrorKind
    <3> QED
      BY <3>2 DEF Continues
  <2>3. CASE a.status = "awaiting" /\ a.phase # "process"
    <3>1. a.phase \in ShellPhases /\ [a EXCEPT !.readSize = 0] = a /\ [a EXCEPT !.phase = a.phase] = a
      BY <1>0, <1>1, <2>3 DEF Well, ShellPhases, ActorType
    <3>2. Start(a) = NextPhase(a, a.phase)
      BY <1>1, <2>3, <3>1 DEF Start, StartShell, ResumeShell, NextPhase
    <3>3. a.phase \in ReadPhases => a.exit
      BY <1>1 DEF Well
    <3>4. a.phase = "process" => a.phase \in CreatePhases
      BY <2>3
    <3>5. a.phase \in CreatePhases => a.phase \in {""} \cup CreatePhases
      OBVIOUS
    <3>6. /\ Sound(a, NextPhase(a, a.phase)) /\ Continues(NextPhase(a, a.phase))
          /\ NextPhase(a, a.phase).saves
      BY <1>0, <1>1, <3>1, <3>3, <3>4, <3>5, PhaseIsSound
    <3> QED
      BY <3>2, <3>6
  <2> QED
    BY <1>0, <2>1, <2>2, <2>3
<1>2. CASE a.type = "view_image"
  <2> DEFINE c == [[a EXCEPT !.readSize = 0] EXCEPT !.status = "awaiting"]
             d == Dispatch("read", "read", 0)
  <2>1. Start(a) = Step(c, TRUE, {d})
    BY <1>0, <1>2 DEF Start, StartImage, Await
  <2>2. /\ c \in ActorType /\ c.type = a.type /\ c.status = "awaiting" /\ c.phase = a.phase
        /\ c.error = a.error /\ c.content = a.content /\ c.readSize = 0 /\ ~c.processing
    BY <1>0 DEF ActorType, OpStatus, Unfinished
  <2> HIDE DEF c
  <2>3. Well(c) /\ Before(a.status, c.status)
    BY <1>0, <1>2, <2>2 DEF Well, IsRemote, Before, Unfinished, Finished
  <2>4. Expects(c, d) /\ d.kind # "process"
    BY <1>2, <2>2, FileSizeAssumption
       DEF Expects, DispatchType, Dispatch, Correlation, Awaited, AwaitedKind, Position
  <2> HIDE DEF d
  <2>5. /\ Start(a).ok /\ Start(a).saves /\ Start(a).actor = c
        /\ Start(a).dispatches = {d}
    BY <2>1 DEF Step
  <2> QED
    BY <2>2, <2>3, <2>4, <2>5 DEF Sound, Continues
<1>3. CASE a.type = "skill_use"
  <2> DEFINE c == [a EXCEPT !.status = "awaiting"]
             d == Dispatch("read", "read", a.content)
  <2>1. Start(a) = Step(c, TRUE, {d})
    BY <1>0, <1>3 DEF Start, StartSkillUse, Await
  <2>2. /\ c \in ActorType /\ c.type = a.type /\ c.status = "awaiting" /\ c.phase = a.phase
        /\ c.error = a.error /\ c.content = a.content /\ c.readSize = 0 /\ ~c.processing
    BY <1>0 DEF ActorType, OpStatus, Unfinished
  <2> HIDE DEF c
  <2>3. Well(c) /\ Before(a.status, c.status)
    BY <1>0, <1>3, <2>2 DEF Well, IsRemote, Before, Unfinished, Finished
  <2>4. a.content \in 0 .. FileSize
    <3>1. a.content <= FileSize
      BY DEF Well
    <3> QED
      BY <3>1, FileSizeAssumption DEF ActorType
  <2>5. Expects(c, d) /\ d.kind # "process"
    BY <1>3, <2>2, <2>4
       DEF Expects, DispatchType, Dispatch, Correlation, Awaited, AwaitedKind, Position
  <2> HIDE DEF d
  <2>6. /\ Start(a).ok /\ Start(a).saves /\ Start(a).actor = c
        /\ Start(a).dispatches = {d}
    BY <2>1 DEF Step
  <2> QED
    BY <2>2, <2>3, <2>5, <2>6 DEF Sound, Continues
<1>4. CASE a.type = "value"
  <2> DEFINE b == [a EXCEPT !.exit = FALSE]
  <2>1. a.status = "ready" /\ Start(a) = Ended(b, "completed", "none")
    BY <1>0, <1>4 DEF Start, StartValue, Complete, Well
  <2>2. /\ b \in ActorType /\ b.type = a.type /\ b.status = a.status /\ b.phase = a.phase
        /\ b.error = a.error /\ b.content = a.content /\ b.processing = a.processing
    BY DEF ActorType
  <2>3. Well(b)
    BY <1>4, <2>2 DEF Well, IsRemote
  <2> HIDE DEF b
  <2>4. /\ Sound(b, Start(a)) /\ Start(a).actor.status = "completed"
        /\ Start(a).saves
    BY <2>1, <2>2, <2>3, EndedIsSound DEF Finished, ErrorKind, Unfinished
  <2> QED
    BY <2>2, <2>4 DEF Sound, Continues
<1> QED
  BY <1>0, <1>1, <1>2, <1>3, <1>4 DEF LocalType

\* The primitive is the one the actor waits for, as far as the actor has come.
IsAwaited(p, a) ==
    /\ a.status = "awaiting" /\ ~IsRemote(a)
    /\ p.correlation = Awaited(a) /\ p.kind = AwaitedKind(a)
    /\ p.kind = "read" => p.at = Position(a)

\* An event that the primitive may hand over, as the operation sees it.
MaySee(p, event) ==
    /\ event.correlation = p.correlation /\ event.offset = p.at
    /\ \/ event.type \in {"failed", "canceled"}
       \/ p.kind = "create" /\ event.type = "create_completed"
       \/ p.kind = "compute" /\ event.type = "compute_completed"
       \/ p.kind = "process" /\ event.type \in {"process_started", "process_exited"}
       \/ p.kind = "read" /\ event.type = "read_output" /\ p.at < FileSize
       \/ p.kind = "read" /\ event.type = "read_completed" /\ p.at = FileSize

LEMMA SeenEvents ==
    ASSUME NEW p \in PrimitiveType, NEW event \in Events(p)
    PROVE  /\ MaySee(p, Seen(p.op, event))
           /\ IsCompletion(event) <=> ~IsProgress(event)
           /\ IsProgress(Seen(p.op, event)) <=> IsProgress(event)
           /\ IsProgress(event) => Seen(p.op, event) = event
<1>0. PICK type \in EventTypes(p), large \in Sizes(p), good \in Results(p) :
         event = Event(p, type, large, good)
  BY DEF Events
<1>1. event = Event(p, event.type, large, good) /\ event.type \in EventTypes(p)
  BY <1>0 DEF Event
<1>2. event.correlation = p.correlation /\ event.offset = p.at
  BY <1>1 DEF Event
<1>3. MaySee(p, event)
  <2>1. p.at \in Nat /\ (~(p.at < FileSize) => p.at = FileSize)
    BY FileSizeAssumption DEF PrimitiveType
  <2>2. p.kind \in {"create", "read", "process", "compute"}
    BY DEF PrimitiveType
  <2>3. CASE p.kind = "read"
    <3>1. EventTypes(p) \subseteq {"failed", "canceled"}
            \cup (IF p.at < FileSize THEN {"read_output"} ELSE {"read_completed"})
      BY <2>3 DEF EventTypes
    <3> QED
      BY <1>1, <1>2, <2>1, <2>3, <3>1 DEF MaySee
  <2>4. CASE p.kind # "read"
    <3>1. /\ p.kind = "create" => EventTypes(p) \subseteq {"create_completed", "failed", "canceled"}
          /\ p.kind = "compute" =>
                EventTypes(p) \subseteq {"compute_completed", "failed", "canceled"}
          /\ p.kind = "process" => EventTypes(p) \subseteq
                {"process_started", "process_exited", "failed", "canceled"}
      BY DEF EventTypes
    <3> QED
      BY <1>1, <1>2, <2>2, <2>4, <3>1 DEF MaySee
  <2> QED
    BY <2>3, <2>4
<1>4. IsCompletion(event) <=> ~IsProgress(event)
  BY <1>3 DEF MaySee, IsCompletion, IsProgress
<1>5. CASE IsCompletion(event) /\ IsCanceled(p.op)
  <2>1. Seen(p.op, event) = [event EXCEPT !.type = "canceled"]
    BY <1>5 DEF Seen
  <2>2. /\ [event EXCEPT !.type = "canceled"].type = "canceled"
        /\ [event EXCEPT !.type = "canceled"].correlation = p.correlation
        /\ [event EXCEPT !.type = "canceled"].offset = p.at
    BY <1>1 DEF Event
  <2> QED
    BY <1>4, <1>5, <2>1, <2>2 DEF MaySee, IsProgress
<1>6. CASE ~(IsCompletion(event) /\ IsCanceled(p.op))
  BY <1>3, <1>4, <1>6 DEF Seen
<1> QED
  BY <1>5, <1>6

\* What an event does to an operation that waits for its primitive.  The event that is
\* not the last one leaves the operation waiting for the rest.
AdvancesBy(p, a, event, r) ==
    /\ Sound(a, r)
    /\ IF IsProgress(event)
       THEN r.dispatches = {} /\ IsAwaited(Continued(p, event), r.actor)
       ELSE Continues(r)

LEMMA EndAdvances ==
    ASSUME NEW a \in ActorType, Well(a), a.status = "awaiting", NEW p, NEW event,
           NEW c \in ActorType, c.type = a.type, c.content = a.content,
           NEW status \in Finished, NEW error \in ErrorKind \ {"invalid"}, ~IsProgress(event)
    PROVE  AdvancesBy(p, a, event, Ended(c, status, error))
<1>1. Sound(a, Ended(c, status, error)) /\ Ended(c, status, error).actor.status = status
  BY EndedIsSound DEF Unfinished
<1> QED
  BY <1>1 DEF AdvancesBy, Continues, Finished

LEMMA ContinuedFields ==
    ASSUME NEW p \in PrimitiveType, NEW event
    PROVE  LET q == Continued(p, event)
           IN  /\ q.op = p.op /\ q.correlation = p.correlation /\ q.kind = p.kind
               /\ event.type = "read_output" => q.at = p.at + 1
               /\ event.type # "read_output" => q.at = p.at
               /\ q.process = p.process
BY DEF Continued, PrimitiveType

LEMMA ShellAdvances ==
    ASSUME NEW a \in ActorType, Well(a), a.type = "shell",
           NEW p \in PrimitiveType, IsAwaited(p, a), NEW event, MaySee(p, event)
    PROVE  AdvancesBy(p, a, event, AdvanceShell(a, event))
<1> DEFINE r == AdvanceShell(a, event)
<1>1. /\ a.status = "awaiting" /\ a.phase \in ShellPhases
      /\ event.correlation = a.phase /\ p.kind = AwaitedKind(a)
      /\ p.kind = "read" => p.at = a.readSize
  BY DEF IsAwaited, Awaited, MaySee, Well, ShellPhases, Position
<1>2. /\ a.phase \in CreatePhases => p.kind = "create"
      /\ a.phase = "process" => p.kind = "process"
      /\ a.phase \in ReadPhases => p.kind = "read"
  BY <1>1, PhasesDiffer DEF AwaitedKind
<1>3. CASE event.type = "canceled"
  <2>1. r = Ended(a, "canceled", "canceled")
    BY <1>1, <1>3 DEF AdvanceShell, CancelActor
  <2> QED
    BY <1>1, <1>3, <2>1, EndAdvances DEF Finished, ErrorKind, IsProgress
<1>4. CASE event.type = "failed"
  <2>1. r = Ended(a, "failed", "primitive")
    BY <1>1, <1>4 DEF AdvanceShell, FailWith
  <2> QED
    BY <1>1, <1>4, <2>1, EndAdvances DEF Finished, ErrorKind, IsProgress
<1>5. event.type \notin {"canceled", "failed"} => r = ShellPhaseEvent(a, event)
  BY <1>1 DEF AdvanceShell
<1>6. CASE event.type \notin {"canceled", "failed"} /\ a.phase \in CreatePhases
  <2>1. event.type = "create_completed"
    BY <1>2, <1>6 DEF MaySee
  <2>2. r = ShellCreated(a, event)
    BY <1>1, <1>5, <1>6, PhasesDiffer DEF ShellPhaseEvent
  <2>3. PICK phase \in {"create_out", "create_err", "process"} : r = NextPhase(a, phase)
    BY <2>1, <2>2 DEF ShellCreated
  <2>4. a.readSize = 0
    BY <1>6, PhasesDiffer DEF Well
  <2>5. phase \in ShellPhases /\ phase \notin ReadPhases
    BY DEF ShellPhases, CreatePhases, ReadPhases
  <2>6. Sound(a, r) /\ Continues(r)
    BY <1>1, <1>6, <2>3, <2>4, <2>5, PhaseIsSound
  <2> QED
    BY <2>1, <2>6 DEF AdvancesBy, IsProgress
<1>7. CASE event.type \notin {"canceled", "failed"} /\ a.phase = "process"
  <2>1. event.type \in {"process_started", "process_exited"}
    BY <1>2, <1>7 DEF MaySee
  <2>2. r = ShellProcessEvent(a, event)
    BY <1>1, <1>5, <1>7, PhasesDiffer DEF ShellPhaseEvent
  <2>3. CASE event.type = "process_started"
    <3> DEFINE b == [[a EXCEPT !.group = TRUE] EXCEPT !.status = "awaiting"]
    <3>1. r = Step(b, TRUE, {})
      BY <2>2, <2>3 DEF ShellProcessEvent, Await
    <3>2. /\ b \in ActorType /\ b.type = "shell" /\ b.status = "awaiting" /\ b.phase = a.phase
          /\ b.error = a.error /\ b.content = a.content /\ b.readSize = a.readSize
          /\ b.processing = a.processing /\ b.exit = a.exit
      BY <1>1 DEF ActorType
    <3> HIDE DEF b
    <3>3. Well(b)
      BY <1>1, <3>2 DEF Well, IsRemote
    <3>4. r.ok /\ r.saves /\ r.actor = b /\ r.dispatches = {}
      BY <3>1 DEF Step
    <3>5. Sound(a, r)
      BY <1>1, <3>2, <3>3, <3>4 DEF Sound, Before, Unfinished
    <3>6. Awaited(b) = a.phase /\ AwaitedKind(b) = p.kind /\ ~IsRemote(b)
      BY <1>1, <3>2 DEF Awaited, AwaitedKind, IsRemote
    <3>7. IsAwaited(Continued(p, event), b)
      BY <1>1, <1>2, <1>7, <3>2, <3>6, ContinuedFields DEF IsAwaited, MaySee
    <3> QED
      BY <2>3, <3>4, <3>5, <3>7 DEF AdvancesBy, IsProgress
  <2>4. CASE event.type = "process_exited"
    <3> DEFINE b == [a EXCEPT !.group = FALSE, !.exit = TRUE]
    <3>1. r = NextPhase(b, "read_out")
      BY <2>2, <2>4 DEF ShellProcessEvent
    <3>2. /\ b \in ActorType /\ b.type = "shell" /\ b.error = a.error /\ b.content = a.content
          /\ b.processing = a.processing /\ b.readSize = a.readSize /\ b.exit
      BY <1>1 DEF ActorType
    <3> HIDE DEF b
    <3>3. a.readSize = 0
      BY <1>1, <1>7, PhasesDiffer DEF Well
    <3>4. /\ "read_out" \in ShellPhases /\ "read_out" \notin CreatePhases
          /\ "read_out" # "process"
      BY DEF ShellPhases, ReadPhases, CreatePhases
    <3>5. Sound(a, r) /\ Continues(r)
      BY <1>1, <3>1, <3>2, <3>3, <3>4, PhaseIsSound
    <3> QED
      BY <2>4, <3>5 DEF AdvancesBy, IsProgress
  <2> QED
    BY <2>1, <2>3, <2>4
<1>8. CASE event.type \notin {"canceled", "failed"} /\ a.phase \in ReadPhases
  <2>1. r = ShellReadEvent(a, event)
    BY <1>1, <1>5, <1>8, PhasesDiffer DEF ShellPhaseEvent
  <2>2. a.exit /\ p.kind = "read" /\ event.offset = a.readSize /\ a.readSize \in Nat
    BY <1>1, <1>2, <1>8 DEF Well, MaySee, ActorType
  <2>3. \/ event.type = "read_output"
        \/ event.type = "read_completed" /\ a.readSize = FileSize
    BY <1>1, <1>8, <2>2 DEF MaySee
  <2>4. CASE event.type = "read_output"
    <3> DEFINE b == [a EXCEPT !.readSize = @ + 1]
    <3>1. r = Step(b, FALSE, {})
      BY <2>1, <2>2, <2>4 DEF ShellReadEvent
    <3>2. /\ b \in ActorType /\ b.type = "shell" /\ b.status = "awaiting" /\ b.phase = a.phase
          /\ b.error = a.error /\ b.content = a.content /\ b.readSize = a.readSize + 1
          /\ b.processing = a.processing /\ b.exit = a.exit
      <4>1. a.readSize + 1 \in Nat
        BY <2>2
      <4> QED
        BY <1>1, <4>1 DEF ActorType
    <3>3. Checkpointed(b) = Checkpointed(a)
      BY DEF Checkpointed, ActorType
    <3> HIDE DEF b
    <3>4. Well(b)
      BY <1>8, <2>2, <3>2 DEF Well, IsRemote
    <3>5. r.ok /\ ~r.saves /\ r.actor = b /\ r.dispatches = {}
      BY <3>1 DEF Step
    <3>6. Sound(a, r)
      BY <1>1, <3>2, <3>3, <3>4, <3>5 DEF Sound
    <3>7. Awaited(b) = a.phase /\ AwaitedKind(b) = p.kind /\ ~IsRemote(b)
      BY <1>1, <3>2 DEF Awaited, AwaitedKind, IsRemote
    <3>8. Position(b) = p.at + 1
      BY <1>1, <2>2, <3>2 DEF Position
    <3>9. IsAwaited(Continued(p, event), b)
      BY <1>1, <2>4, <3>2, <3>7, <3>8, ContinuedFields DEF IsAwaited, MaySee
    <3> QED
      BY <2>4, <3>5, <3>6, <3>9 DEF AdvancesBy, IsProgress
  <2>5. CASE event.type = "read_completed" /\ a.readSize = FileSize
    <3> DEFINE b == [a EXCEPT !.readSize = 0]
    <3>1. /\ b \in ActorType /\ b.type = "shell" /\ b.error = a.error /\ b.content = a.content
          /\ b.processing = a.processing /\ b.readSize = 0 /\ b.exit /\ b.phase = a.phase
          /\ b.status = "awaiting"
      BY <1>1, <2>2 DEF ActorType
    <3>2. r = ShellReadCompleted(a, event.large)
      BY <2>1, <2>5 DEF ShellReadEvent
    <3>3. \/ \E phase \in {"read_out_tail", "read_err", "read_err_tail"} : r = NextPhase(b, phase)
          \/ r = FinishShell(b)
      BY <3>2 DEF ShellReadCompleted
    <3> HIDE DEF b
    <3>4. CASE \E phase \in {"read_out_tail", "read_err", "read_err_tail"} : r = NextPhase(b, phase)
      <4>1. PICK phase \in {"read_out_tail", "read_err", "read_err_tail"} : r = NextPhase(b, phase)
        BY <3>4
      <4>2. phase \in ShellPhases /\ phase \notin CreatePhases /\ phase # "process"
        BY DEF ShellPhases, ReadPhases, CreatePhases
      <4>3. Sound(a, r) /\ Continues(r)
        BY <1>1, <3>1, <4>1, <4>2, PhaseIsSound
      <4> QED
        BY <2>5, <4>3 DEF AdvancesBy, IsProgress
    <3>5. CASE r = FinishShell(b)
      <4> DEFINE c == [b EXCEPT !.exit = FALSE]
      <4>1. r = Ended(c, "completed", "none")
        BY <3>1, <3>5 DEF FinishShell, Complete
      <4>2. c \in ActorType /\ c.type = a.type /\ c.content = a.content
        BY <3>1 DEF ActorType
      <4> HIDE DEF c
      <4> QED
        BY <1>1, <2>5, <4>1, <4>2, EndAdvances DEF Finished, ErrorKind, IsProgress
    <3> QED
      BY <3>3, <3>4, <3>5
  <2> QED
    BY <2>3, <2>4, <2>5
<1> QED
  BY <1>1, <1>3, <1>4, <1>6, <1>7, <1>8 DEF ShellPhases

LEMMA ImageAdvances ==
    ASSUME NEW a \in ActorType, Well(a), a.type = "view_image",
           NEW p \in PrimitiveType, IsAwaited(p, a), NEW event, MaySee(p, event)
    PROVE  AdvancesBy(p, a, event, AdvanceImage(a, event))
<1> DEFINE r == AdvanceImage(a, event)
<1>1. /\ a.status = "awaiting" /\ event.correlation = p.correlation
      /\ p.correlation = (IF a.processing THEN "compute" ELSE "read")
      /\ p.kind = (IF a.processing THEN "compute" ELSE "read")
      /\ p.kind = "read" => p.at = a.readSize
  BY DEF IsAwaited, Awaited, AwaitedKind, MaySee, Position
<1>2. ASSUME NEW error \in {"primitive", "canceled"}, NEW status \in Finished,
             ~IsProgress(event), r = Ended(a, status, error)
      PROVE  AdvancesBy(p, a, event, r)
  BY <1>1, <1>2, EndAdvances DEF ErrorKind
<1>3. ASSUME r = ProcessImage(a), ~IsProgress(event)
      PROVE  AdvancesBy(p, a, event, r)
  <2> DEFINE b == [a EXCEPT !.readSize = 0, !.processing = TRUE]
             d == Dispatch("compute", "compute", 0)
  <2>1. r = Step(b, FALSE, {d})
    BY <1>3 DEF ProcessImage
  <2>2. /\ b \in ActorType /\ b.type = "view_image" /\ b.status = "awaiting"
        /\ b.phase = a.phase /\ b.error = a.error /\ b.content = a.content /\ b.processing
    BY <1>1 DEF ActorType
  <2>3. Checkpointed(b) = Checkpointed(a)
    BY DEF Checkpointed, ActorType
  <2> HIDE DEF b
  <2>4. Well(b)
    BY <2>2 DEF Well, IsRemote
  <2>5. d.kind = "compute" /\ d.correlation = "compute" /\ d.offset = 0
    BY DEF Dispatch
  <2>6. d \in DispatchType
    BY FirstOffset DEF DispatchType, Dispatch, Correlation
  <2> HIDE DEF d
  <2>7. r.ok /\ ~r.saves /\ r.actor = b /\ r.dispatches = {d}
    BY <2>1 DEF Step
  <2>8. Sound(a, r)
    BY <1>1, <2>2, <2>3, <2>4, <2>5, <2>7 DEF Sound
  <2>9. Expects(b, d)
    BY <2>2, <2>5, <2>6 DEF Expects, Awaited, AwaitedKind
  <2> QED
    BY <1>3, <2>7, <2>8, <2>9 DEF AdvancesBy, Continues
<1>4. CASE event.type = "canceled"
  <2>1. r = Ended(a, "canceled", "canceled")
    BY <1>1, <1>4 DEF AdvanceImage, CancelActor
  <2> QED
    BY <1>2, <1>4, <2>1 DEF Finished, IsProgress
<1>5. CASE event.type = "failed"
  <2>1. r = ImageFailure(a)
    BY <1>1, <1>5 DEF AdvanceImage
  <2>2. r = Ended(a, "failed", "primitive") \/ r = ProcessImage(a)
    BY <2>1 DEF ImageFailure, FailWith
  <2> QED
    BY <1>2, <1>3, <1>5, <2>2 DEF Finished, IsProgress
<1>6. CASE event.type \notin {"canceled", "failed"} /\ a.processing
  <2>1. event.type = "compute_completed"
    BY <1>1, <1>6 DEF MaySee
  <2>2. r = ImageProcessed(a, event)
    BY <1>1, <1>6 DEF AdvanceImage
  <2> DEFINE c == [a EXCEPT !.exit = FALSE]
  <2>3. r = Ended(a, "failed", "primitive") \/ r = Ended(c, "completed", "none")
    BY <2>1, <2>2 DEF ImageProcessed, FailWith, Complete
  <2>4. c \in ActorType /\ c.type = a.type /\ c.content = a.content
    BY DEF ActorType
  <2> HIDE DEF c
  <2>5. AdvancesBy(p, a, event, Ended(c, "completed", "none"))
    BY <1>1, <2>1, <2>4, EndAdvances DEF Finished, ErrorKind, IsProgress
  <2> QED
    BY <1>2, <2>1, <2>3, <2>5 DEF Finished, IsProgress
<1>7. CASE event.type \notin {"canceled", "failed"} /\ ~a.processing
  <2>1. r = ImageReadEvent(a, event)
    BY <1>1, <1>7 DEF AdvanceImage
  <2>2. p.kind = "read" /\ event.offset = a.readSize /\ a.readSize \in Nat
    BY <1>1, <1>7 DEF MaySee, ActorType
  <2>3. \/ event.type = "read_output"
        \/ event.type = "read_completed" /\ a.readSize = FileSize
    BY <1>1, <1>7, <2>2 DEF MaySee
  <2>4. CASE event.type = "read_output"
    <3> DEFINE b == [a EXCEPT !.readSize = @ + 1]
    <3>1. r = Step(b, FALSE, {})
      BY <2>1, <2>2, <2>4 DEF ImageReadEvent
    <3>2. /\ b \in ActorType /\ b.type = "view_image" /\ b.status = "awaiting"
          /\ b.phase = a.phase /\ b.error = a.error /\ b.content = a.content
          /\ b.readSize = a.readSize + 1 /\ ~b.processing
      <4>1. a.readSize + 1 \in Nat
        BY <2>2
      <4> QED
        BY <1>1, <1>7, <4>1 DEF ActorType
    <3>3. Checkpointed(b) = Checkpointed(a)
      BY DEF Checkpointed, ActorType
    <3> HIDE DEF b
    <3>4. Well(b)
      BY <3>2 DEF Well, IsRemote
    <3>5. r.ok /\ ~r.saves /\ r.actor = b /\ r.dispatches = {}
      BY <3>1 DEF Step
    <3>6. Sound(a, r)
      BY <1>1, <3>2, <3>3, <3>4, <3>5 DEF Sound
    <3>7. Awaited(b) = p.correlation /\ AwaitedKind(b) = p.kind /\ ~IsRemote(b)
      BY <1>1, <1>7, <3>2 DEF Awaited, AwaitedKind, IsRemote
    <3>8. Position(b) = p.at + 1
      BY <1>1, <2>2, <3>2 DEF Position
    <3>9. IsAwaited(Continued(p, event), b)
      BY <1>1, <2>4, <3>2, <3>7, <3>8, ContinuedFields DEF IsAwaited
    <3> QED
      BY <2>4, <3>5, <3>6, <3>9 DEF AdvancesBy, IsProgress
  <2>5. CASE event.type = "read_completed" /\ a.readSize = FileSize
    BY <1>3, <2>1, <2>5 DEF ImageReadEvent, IsProgress
  <2> QED
    BY <2>3, <2>4, <2>5
<1> QED
  BY <1>4, <1>5, <1>6, <1>7

LEMMA SkillUseAdvances ==
    ASSUME NEW a \in ActorType, Well(a), a.type = "skill_use",
           NEW p \in PrimitiveType, IsAwaited(p, a), NEW event, MaySee(p, event)
    PROVE  AdvancesBy(p, a, event, AdvanceSkillUse(a, event))
<1> DEFINE r == AdvanceSkillUse(a, event)
<1>1. /\ a.status = "awaiting" /\ event.correlation = "read" /\ p.correlation = "read"
      /\ p.kind = "read" /\ p.at = a.content /\ event.offset = a.content /\ a.content \in Nat
  BY DEF IsAwaited, Awaited, AwaitedKind, MaySee, Position, ActorType
<1>2. CASE event.type = "canceled"
  <2>1. r = Ended(a, "canceled", "canceled")
    BY <1>1, <1>2 DEF AdvanceSkillUse, CancelActor
  <2> QED
    BY <1>1, <1>2, <2>1, EndAdvances DEF Finished, ErrorKind, IsProgress
<1>3. CASE event.type = "failed"
  <2>1. r = Ended(a, "failed", "primitive")
    BY <1>1, <1>3 DEF AdvanceSkillUse, FailWith
  <2> QED
    BY <1>1, <1>3, <2>1, EndAdvances DEF Finished, ErrorKind, IsProgress
<1>4. event.type \notin {"canceled", "failed"} => r = SkillReadEvent(a, event)
  BY <1>1 DEF AdvanceSkillUse
<1>5. CASE event.type = "read_output" /\ p.at < FileSize
  <2> DEFINE c == [a EXCEPT !.content = @ + 1]
             b == [c EXCEPT !.status = "awaiting"]
  <2>1. r = Step(b, TRUE, {})
    BY <1>1, <1>4, <1>5 DEF SkillReadEvent, Await
  <2>2. a.content + 1 \in Nat /\ a.content + 1 <= FileSize
    BY <1>1, <1>5, FileSizeAssumption
  <2>3. /\ b \in ActorType /\ b.type = "skill_use" /\ b.status = "awaiting"
        /\ b.phase = a.phase /\ b.error = a.error /\ b.content = a.content + 1
        /\ b.processing = a.processing
    BY <1>1, <2>2 DEF ActorType
  <2> HIDE DEF b, c
  <2>4. Well(b)
    BY <2>2, <2>3 DEF Well, IsRemote
  <2>5. r.ok /\ r.saves /\ r.actor = b /\ r.dispatches = {}
    BY <2>1 DEF Step
  <2>6. Sound(a, r)
    BY <1>1, <2>3, <2>4, <2>5 DEF Sound, Before, Unfinished
  <2>7. Awaited(b) = "read" /\ AwaitedKind(b) = "read" /\ ~IsRemote(b)
    BY <2>3 DEF Awaited, AwaitedKind, IsRemote
  <2>8. Position(b) = p.at + 1
    BY <1>1, <2>3 DEF Position
  <2>9. IsAwaited(Continued(p, event), b)
    BY <1>1, <1>5, <2>3, <2>7, <2>8, ContinuedFields DEF IsAwaited
  <2> QED
    BY <1>5, <2>5, <2>6, <2>9 DEF AdvancesBy, IsProgress
<1>6. CASE event.type = "read_completed" /\ p.at = FileSize
  <2> DEFINE c == [a EXCEPT !.exit = FALSE]
  <2>1. r = Ended(c, "completed", "none")
    BY <1>1, <1>4, <1>6 DEF SkillReadEvent, Complete
  <2>2. c \in ActorType /\ c.type = a.type /\ c.content = a.content
    BY DEF ActorType
  <2> HIDE DEF c
  <2> QED
    BY <1>1, <1>6, <2>1, <2>2, EndAdvances DEF Finished, ErrorKind, IsProgress
<1> QED
  BY <1>1, <1>2, <1>3, <1>5, <1>6 DEF MaySee

\* What an event of the awaited primitive does to a running operation.
LEMMA AdvanceIsSound ==
    ASSUME NEW a \in ActorType, Well(a), NEW p \in PrimitiveType, IsAwaited(p, a),
           NEW event \in Events(p)
    PROVE  AdvancesBy(p, a, event, Advance(a, Seen(p.op, event)))
<1> DEFINE seen == Seen(p.op, event)
           r == Advance(a, seen)
<1>1. /\ MaySee(p, seen) /\ (IsProgress(seen) <=> IsProgress(event))
      /\ IsProgress(event) => seen = event
  BY SeenEvents
<1>2. a.type \in {"shell", "view_image", "skill_use"}
  BY DEF IsAwaited, Well, IsRemote, ActorType, LocalType
<1> HIDE DEF seen
<1>3. AdvancesBy(p, a, seen, r)
  BY <1>1, <1>2, ShellAdvances, ImageAdvances, SkillUseAdvances DEF Advance
<1> QED
  BY <1>1, <1>3 DEF AdvancesBy, seen

-----------------------------------------------------------------------------
(* A running operation takes a step.                                       *)

LEMMA AppendedUpdates ==
    ASSUME NEW S, NEW s \in Seq(S), NEW e \in S
    PROVE  /\ Append(s, e) \in Seq(S) /\ Len(s) \in Nat
           /\ DOMAIN s = 1 .. Len(s) /\ DOMAIN Append(s, e) = 1 .. (Len(s) + 1)
           /\ \A i \in 1 .. Len(s) : Append(s, e)[i] = s[i]
           /\ Append(s, e)[Len(s) + 1] = e
OBVIOUS

LEMMA ReceivedUpdate ==
    ASSUME NEW S, NEW s \in Seq(S), s # <<>>
    PROVE  /\ Tail(s) \in Seq(S) /\ Len(s) \in Nat \ {0} /\ Head(s) = s[1]
           /\ DOMAIN s = 1 .. Len(s) /\ DOMAIN Tail(s) = 1 .. (Len(s) - 1)
           /\ \A i \in 1 .. (Len(s) - 1) : Tail(s)[i] = s[i + 1]
OBVIOUS

LEMMA BeforeIsTransitive ==
    ASSUME NEW s, NEW t, NEW u, Before(s, t), Before(t, u)
    PROVE  Before(s, u)
BY DEF Before, Unfinished, Finished

\* With a checkpoint, after which a finished operation is forgotten; and without.
MovesSaved(op, b) ==
    /\ AppendUpdate(op, b)
    /\ IF b.status \in Finished THEN ctxErr' = ctxErr \cup {op} /\ Forget(op)
       ELSE operations' = [operations EXCEPT ![op] = b] /\ UNCHANGED ctxErr

MovesUnsaved(op, b) ==
    /\ operations' = [operations EXCEPT ![op] = b]
    /\ UNCHANGED <<ctxErr, pendingUpdates>>

\* What becomes of the running operations.
Moved(op, b) ==
    /\ \/ b.status \in Unfinished /\ Running' = Running /\ operations'[op] = b
       \/ b.status \in Finished /\ Running' = Running \ {op}
    /\ \A other \in Running \ {op} : operations'[other] = operations[other]
    /\ operations' \in [Running' -> ActorType]
    /\ ctxErr' \subseteq accepted
    /\ pendingUpdates' \in Seq(CheckpointType)

CheckpointsInv == ActorsInv /\ OrderInv /\ CurrentInv

LEMMA SavedMove ==
    ASSUME TypeInv, CheckpointsInv, NEW op \in Running, NEW b \in ActorType, Well(b),
           Before(operations[op].status, b.status), MovesSaved(op, b),
           UNCHANGED <<accepted, stored>>
    PROVE  Moved(op, b) /\ CheckpointsInv'
<1> DEFINE e == [op |-> op, actor |-> Checkpointed(b)]
<1>0. PICK n : n = Len(pendingUpdates) + 1
  OBVIOUS
<1>1. Checkpointed(b) \in ActorType /\ Checkpointed(b).status = b.status
      /\ Checkpointed(Checkpointed(b)) = Checkpointed(b)
  BY DEF Checkpointed, ActorType
<1>2. Well(Checkpointed(b))
  <2>1. /\ Checkpointed(b).error = b.error /\ Checkpointed(b).content = b.content
        /\ Checkpointed(b).type = b.type /\ Checkpointed(b).phase = b.phase
        /\ (Checkpointed(b).exit <=> b.exit) /\ ~Checkpointed(b).processing
        /\ Checkpointed(b).readSize = 0
    BY DEF Checkpointed, ActorType
  <2> QED
    BY <1>1, <2>1 DEF Well, IsRemote
<1>3. op \in accepted /\ accepted \subseteq Op /\ pendingUpdates \in Seq(CheckpointType)
      /\ operations \in [Running -> ActorType]
  BY DEF TypeInv, LocalTypeOK
<1>4. e \in CheckpointType /\ e.op = op /\ e.actor = Checkpointed(b)
  BY <1>1, <1>3 DEF CheckpointType
<1>5. pendingUpdates' = Append(pendingUpdates, e)
  BY DEF MovesSaved, AppendUpdate
<1> HIDE DEF e
<1>6. /\ pendingUpdates' \in Seq(CheckpointType)
      /\ DOMAIN pendingUpdates = 1 .. Len(pendingUpdates)
      /\ DOMAIN pendingUpdates' = 1 .. n /\ n \in Nat /\ Len(pendingUpdates) \in Nat
      /\ \A i \in 1 .. Len(pendingUpdates) : pendingUpdates'[i] = pendingUpdates[i]
      /\ pendingUpdates'[n] = e
  BY <1>0, <1>3, <1>4, <1>5, AppendedUpdates
<1>7. Moved(op, b)
  <2>1. b.status \in Unfinished \cup Finished /\ Unfinished \cap Finished = {}
    BY DEF ActorType, OpStatus, Unfinished, Finished
  <2>2. CASE b.status \in Finished
    <3>1. operations' = [other \in Running \ {op} |-> operations[other]]
          /\ ctxErr' = ctxErr \cup {op}
      BY <2>2 DEF MovesSaved, Forget
    <3> QED
      BY <1>3, <1>6, <2>2, <3>1 DEF Moved, Running, TypeInv, LocalTypeOK
  <2>3. CASE b.status \notin Finished
    <3>1. operations' = [operations EXCEPT ![op] = b] /\ ctxErr' = ctxErr
      BY <2>3 DEF MovesSaved
    <3>2. Running' = Running
      BY <1>3, <3>1 DEF Running
    <3> QED
      BY <1>3, <1>6, <2>1, <2>3, <3>1, <3>2 DEF Moved, Running, TypeInv, LocalTypeOK
  <2> QED
    BY <2>2, <2>3
<1>8. \A i \in DOMAIN pendingUpdates' :
        \/ i \in DOMAIN pendingUpdates /\ pendingUpdates'[i] = pendingUpdates[i] /\ i < n
        \/ i = n /\ i \notin DOMAIN pendingUpdates
  BY <1>0, <1>6
<1>9. n \in DOMAIN pendingUpdates' /\ DOMAIN pendingUpdates \subseteq DOMAIN pendingUpdates'
      /\ DOMAIN pendingUpdates' \subseteq Int
      /\ \A i \in DOMAIN pendingUpdates' : i <= n
  BY <1>0, <1>6
<1>10. \A other \in Running' : other \in Running
         /\ \/ other # op /\ operations'[other] = operations[other]
            \/ other = op /\ operations'[other] = b /\ b.status \in Unfinished
  BY <1>7 DEF Moved
<1>11. ActorsInv'
  BY <1>1, <1>2, <1>4, <1>6, <1>8, <1>10 DEF CheckpointsInv, ActorsInv
<1>12. OrderInv'
  <2>1. Before(stored[op].status, b.status)
    BY <1>10, BeforeIsTransitive DEF CheckpointsInv, OrderInv
  <2>2. \A i \in DOMAIN pendingUpdates :
          pendingUpdates[i].op = op => Before(pendingUpdates[i].actor.status, b.status)
    BY BeforeIsTransitive DEF CheckpointsInv, OrderInv
  <2>3. ASSUME NEW i \in DOMAIN pendingUpdates'
        PROVE  /\ pendingUpdates'[i].op \in accepted'
               /\ Before(stored'[pendingUpdates'[i].op].status, pendingUpdates'[i].actor.status)
    BY <1>1, <1>3, <1>4, <1>6, <1>8, <2>1 DEF CheckpointsInv, OrderInv
  <2>4. ASSUME NEW i \in DOMAIN pendingUpdates', NEW j \in DOMAIN pendingUpdates', i < j,
               pendingUpdates'[i].op = pendingUpdates'[j].op
        PROVE  Before(pendingUpdates'[i].actor.status, pendingUpdates'[j].actor.status)
    <3>1. i \in DOMAIN pendingUpdates /\ pendingUpdates'[i] = pendingUpdates[i]
      BY <1>8, <1>9, <2>4
    <3> QED
      BY <1>1, <1>4, <1>6, <1>8, <2>2, <2>4, <3>1 DEF CheckpointsInv, OrderInv
  <2>5. ASSUME NEW other \in Running'
        PROVE  Before(stored'[other].status, operations'[other].status)
    BY <1>10, <2>1 DEF CheckpointsInv, OrderInv
  <2>6. ASSUME NEW other \in Running', NEW i \in DOMAIN pendingUpdates',
               pendingUpdates'[i].op = other
        PROVE  Before(pendingUpdates'[i].actor.status, operations'[other].status)
    <3>1. CASE i \in DOMAIN pendingUpdates
      BY <1>6, <1>8, <1>10, <2>2, <2>6, <3>1 DEF CheckpointsInv, OrderInv
    <3>2. CASE i = n
      <4>1. other = op /\ operations'[other] = b /\ b.status \in Unfinished
        BY <1>4, <1>6, <1>10, <2>6, <3>2
      <4> QED
        BY <1>1, <1>4, <1>6, <3>2, <4>1 DEF Before, Unfinished
    <3> QED
      BY <1>8, <3>1, <3>2
  <2> QED
    BY <2>3, <2>4, <2>5, <2>6 DEF OrderInv
<1>13. CurrentInv'
  <2> SUFFICES ASSUME NEW other \in accepted
               PROVE  \/ /\ \A i \in DOMAIN pendingUpdates' : pendingUpdates'[i].op # other
                         /\ IsCurrent(other, stored[other])'
                      \/ \E i \in DOMAIN pendingUpdates' :
                            /\ pendingUpdates'[i].op = other /\ IsLast(i)'
                            /\ IsCurrent(other, pendingUpdates[i].actor)'
    BY DEF CurrentInv
  <2>1. CASE other = op
    <3>1. IsLast(n)'
      BY <1>9 DEF IsLast
    <3>2. IsCurrent(op, pendingUpdates[n].actor)'
      BY <1>1, <1>4, <1>6, <1>7 DEF IsCurrent, Moved
    <3> QED
      BY <1>4, <1>6, <1>9, <2>1, <3>1, <3>2
  <2>2. CASE other # op
    <3>1. \A c : IsCurrent(other, c) => IsCurrent(other, c)'
      BY <1>7, <2>2 DEF IsCurrent, Moved
    <3>2. CASE /\ \A i \in DOMAIN pendingUpdates : pendingUpdates[i].op # other
               /\ IsCurrent(other, stored[other])
      BY <1>4, <1>6, <1>8, <2>2, <3>1, <3>2 DEF IsCurrent
    <3>3. CASE \E i \in DOMAIN pendingUpdates :
                  /\ pendingUpdates[i].op = other /\ IsLast(i)
                  /\ IsCurrent(other, pendingUpdates[i].actor)
      <4>1. PICK i \in DOMAIN pendingUpdates :
                  /\ pendingUpdates[i].op = other /\ IsLast(i)
                  /\ IsCurrent(other, pendingUpdates[i].actor)
        BY <3>3
      <4>2. i \in DOMAIN pendingUpdates' /\ pendingUpdates'[i] = pendingUpdates[i]
        BY <1>6, <1>9
      <4>3. IsLast(i)'
        BY <1>4, <1>6, <1>8, <2>2, <4>1, <4>2 DEF IsLast
      <4> QED
        BY <3>1, <4>1, <4>2, <4>3 DEF IsCurrent
    <3> QED
      BY <3>2, <3>3 DEF CheckpointsInv, CurrentInv
  <2> QED
    BY <2>1, <2>2
<1> QED
  BY <1>7, <1>11, <1>12, <1>13 DEF CheckpointsInv

LEMMA UnsavedMove ==
    ASSUME TypeInv, CheckpointsInv, NEW op \in Running, NEW b \in ActorType, Well(b),
           b.status = operations[op].status, Checkpointed(b) = Checkpointed(operations[op]),
           MovesUnsaved(op, b), UNCHANGED <<accepted, stored>>
    PROVE  Moved(op, b) /\ CheckpointsInv'
<1>1. /\ operations \in [Running -> ActorType] /\ ctxErr \subseteq accepted
      /\ pendingUpdates \in Seq(CheckpointType)
      /\ pendingUpdates' = pendingUpdates /\ ctxErr' = ctxErr /\ stored' = stored
      /\ accepted' = accepted /\ operations' = [operations EXCEPT ![op] = b]
  BY DEF TypeInv, LocalTypeOK, MovesUnsaved
<1>2. Running' = Running /\ operations'[op] = b
      /\ \A other \in Running \ {op} : operations'[other] = operations[other]
  BY <1>1 DEF Running
<1>3. b.status \in Unfinished
  BY DEF CheckpointsInv, ActorsInv
<1>4. Moved(op, b)
  BY <1>1, <1>2, <1>3 DEF Moved, Running
<1>5. ActorsInv'
  BY <1>1, <1>2, <1>3 DEF CheckpointsInv, ActorsInv
<1>6. OrderInv'
  BY <1>1, <1>2 DEF CheckpointsInv, OrderInv
<1>7. \A other, c : IsCurrent(other, c)' <=> IsCurrent(other, c)
  BY <1>2 DEF IsCurrent
<1>8. CurrentInv'
  BY <1>1, <1>7 DEF CheckpointsInv, CurrentInv, IsLast, IsCurrent
<1> QED
  BY <1>4, <1>5, <1>6, <1>8 DEF CheckpointsInv

-----------------------------------------------------------------------------
(* The inductive invariant.                                                *)

IInv ==
    /\ TypeInv /\ CheckpointsInv
    /\ StepInv /\ PrimitivesInv /\ JobsInv /\ StartsInv

\* The sets of primitives that events and steps lead to.
LEMMA PrimitivesLeft ==
    ASSUME NEW P, IsFiniteSet(P), NEW p \in P, NEW q, q.op = p.op,
           \A x, y \in P : x.op = y.op => x = y
    PROVE  /\ Cardinality(P) \in Nat
           /\ IsFiniteSet(P \ {p}) /\ Cardinality(P \ {p}) = Cardinality(P) - 1
           /\ IsFiniteSet((P \ {p}) \cup {q})
           /\ Cardinality((P \ {p}) \cup {q}) = Cardinality(P)
<1>1. /\ IsFiniteSet(P \ {p}) /\ Cardinality(P) \in Nat
      /\ Cardinality(P \ {p}) = Cardinality(P) - 1
  BY FS_RemoveElement, FS_CardinalityType
<1>2. q \notin P \ {p}
  OBVIOUS
<1>3. IsFiniteSet((P \ {p}) \cup {q}) /\ Cardinality((P \ {p}) \cup {q}) = Cardinality(P \ {p}) + 1
  BY <1>1, <1>2, FS_AddElement
<1> QED
  BY <1>1, <1>3

LEMMA PrimitiveAdded ==
    ASSUME NEW P, IsFiniteSet(P), NEW q, \A x \in P : x.op # q.op
    PROVE  /\ IsFiniteSet(P \cup {q}) /\ Cardinality(P \cup {q}) = Cardinality(P) + 1
           /\ Cardinality({q}) = 1
BY FS_AddElement, FS_Singleton

LEMMA EventContinues ==
    ASSUME NEW p \in PrimitiveType, NEW event \in Events(p), IsProgress(event)
    PROVE  Continued(p, event) \in PrimitiveType /\ Continued(p, event).op = p.op
<1>1. MaySee(p, event)
  BY SeenEvents
<1>2. CASE event.type = "read_output"
  <2>1. p.at < FileSize
    BY <1>1, <1>2 DEF MaySee
  <2>2. p.at + 1 \in 0 .. FileSize
    BY <2>1, FileSizeAssumption DEF PrimitiveType
  <2> QED
    BY <1>2, <2>2 DEF Continued, PrimitiveType
<1>3. CASE event.type # "read_output"
  BY <1>3 DEF Continued, PrimitiveType
<1> QED
  BY <1>2, <1>3

\* The primitives of an operation that has taken a step: none, or the one it awaits.
Serves(op, b) ==
    \/ b.status \in Finished /\ \A p \in primitives' : p.op # op
    \/ /\ b.status = "awaiting"
       /\ \E q \in primitives' :
             /\ q.op = op /\ IsAwaited(q, b)
             /\ \A p \in primitives' : p.op = op => p = q
             /\ q.kind = "process" /\ q.process = "new" /\ op \notin unrecorded => starts[op] = 0

LEMMA ServedStep ==
    ASSUME IInv, loop = "run", NEW op \in Running, NEW r, ~IsRemote(operations[op]),
           Sound(operations[op], r), Moved(op, r.actor), CheckpointsInv', Serves(op, r.actor),
           IsFiniteSet(primitives'), activePrimitives' = Cardinality(primitives'),
           primitives' \subseteq PrimitiveType,
           \A p : p.op # op => (p \in primitives' <=> p \in primitives),
           step = <<>> \/ step = <<"start", op>>, step' = <<>>,
           UNCHANGED <<accepted, loop, shutdown, handlerVars, clientVars>>
    PROVE  IInv'
<1> DEFINE b == r.actor
<1>1. /\ accepted' = accepted /\ loop' = "run" /\ closed' = closed /\ forwarding' = forwarding
      /\ asked' = asked /\ shutdown' = shutdown /\ stored' = stored /\ starts' = starts
      /\ unrecorded' = unrecorded /\ crashes' = crashes
  BY DEF handlerVars, clientVars
<1>2. /\ Running' \subseteq Running /\ Running \subseteq accepted
      /\ \A other \in Running' : \/ other # op /\ operations'[other] = operations[other]
                                 \/ other = op /\ operations'[other] = b
      /\ op \in Running' <=> b.status \in Unfinished
  BY DEF Moved, IInv, TypeInv, LocalTypeOK, Unfinished, Finished
<1>3. b \in ActorType /\ Well(b) /\ b.type = operations[op].type /\ ~IsRemote(b)
  BY DEF Sound, IsRemote
<1>4. TypeInv'
  <2>1. Cardinality(primitives') \in Nat
    BY FS_CardinalityType
  <2> QED
    BY <1>1, <1>2, <2>1 DEF IInv, TypeInv, LocalTypeOK, ClientTypeOK, Moved
<1>5. StepInv'
  BY DEF StepInv
<1>6. Starting' = {} /\ Starting \subseteq {op}
  BY DEF Starting
<1>7. PrimitivesInv'
  <2>1. \A p, q \in primitives' : p.op = q.op => p = q
    BY DEF Serves, IInv, PrimitivesInv
  <2>2. ASSUME NEW p \in primitives'
        PROVE  p.op \in accepted /\ (p.op \in Running' => Fits(p, operations[p.op])')
    <3>1. CASE p.op = op
      BY <1>1, <1>2, <3>1 DEF Serves, Fits, IsAwaited, Finished, Unfinished, Moved
    <3>2. CASE p.op # op
      <4>1. p \in primitives
        BY <3>2
      <4>2. p.op \in accepted /\ (p.op \in Running => Fits(p, operations[p.op]))
        BY <4>1 DEF IInv, PrimitivesInv
      <4> QED
        BY <1>1, <1>2, <3>2, <4>2 DEF Fits
    <3> QED
      BY <3>1, <3>2
  <2>3. ASSUME NEW other \in Running', ~IsRemote(operations'[other])
        PROVE  \E p \in primitives' : p.op = other
    <3>1. CASE other = op
      BY <1>2, <3>1 DEF Serves, Finished, Unfinished
    <3>2. CASE other # op
      <4>1. other \in Running \ Starting /\ ~IsRemote(operations[other])
        BY <1>2, <1>6, <2>3, <3>2
      <4>2. PICK p \in primitives : p.op = other
        BY <4>1 DEF IInv, PrimitivesInv
      <4> QED
        BY <3>2, <4>2
    <3> QED
      BY <3>1, <3>2
  <2> QED
    BY <1>1, <1>6, <2>1, <2>2, <2>3 DEF PrimitivesInv
<1>8. JobsInv'
  <2> SUFFICES ASSUME NEW other \in Running', IsRemote(operations'[other]),
                      operations'[other].phase \in closed
               PROVE  FALSE
    BY <1>1 DEF JobsInv, IsRemote
  <2>1. other # op /\ operations'[other] = operations[other] /\ other \in Running
    BY <1>2, <1>3
  <2> QED
    BY <2>1 DEF IInv, JobsInv
<1>9. StartsInv'
  <2> SUFFICES ASSUME NEW other \in Op \ unrecorded
               PROVE  /\ starts[other] <= 1
                      /\ other \notin accepted => starts[other] = 0 \/ StartIsStored(other)
                      /\ other \in Running' /\ operations'[other].type = "shell"
                         /\ operations'[other].phase \in {""} \cup CreatePhases => starts[other] = 0
                      /\ \A p \in primitives' :
                            p.op = other /\ p.kind = "process" /\ p.process = "new" =>
                                starts[other] = 0
    BY <1>1 DEF StartsInv, StartIsStored
  <2>1. /\ starts[other] <= 1
        /\ other \notin accepted => starts[other] = 0 \/ StartIsStored(other)
        /\ other \in Running /\ operations[other].type = "shell"
           /\ operations[other].phase \in {""} \cup CreatePhases => starts[other] = 0
        /\ \A p \in primitives :
              p.op = other /\ p.kind = "process" /\ p.process = "new" => starts[other] = 0
    BY DEF IInv, StartsInv
  <2>2. CASE other # op
    BY <1>2, <2>1, <2>2
  <2>3. CASE other = op
    <3>1. op \in Running' /\ b.type = "shell" /\ b.phase \in {""} \cup CreatePhases =>
            operations[op].phase \in {""} \cup CreatePhases
      <4>1. op \in Running' => b.status = "awaiting"
        BY <1>2 DEF Serves, Finished, Unfinished
      <4>2. op \in Running' /\ b.type = "shell" => b.phase \in ShellPhases
        BY <1>3, <4>1 DEF Well, ShellPhases
      <4> QED
        BY <4>2, PhasesDiffer DEF Sound
    <3>2. \A p \in primitives' :
            p.op = op /\ p.kind = "process" /\ p.process = "new" => starts[op] = 0
      BY <2>3 DEF Serves
    <3> QED
      BY <1>2, <1>3, <2>1, <2>3, <3>1, <3>2
  <2> QED
    BY <2>2, <2>3
<1> QED
  BY <1>4, <1>5, <1>7, <1>8, <1>9 DEF IInv

\* acceptLocalStep, whatever the step was.
LEMMA AcceptedStep ==
    ASSUME IInv, NEW op \in Running, NEW r, Sound(operations[op], r),
           NEW left, NEW ended \in {0, 1}, Accept(op, r, left, ended), UNCHANGED <<accepted, stored>>
    PROVE  /\ Moved(op, r.actor) /\ CheckpointsInv'
           /\ primitives' = left \cup NewPrimitives(op, r.dispatches)
           /\ activePrimitives' =
                  activePrimitives - ended + Cardinality(NewPrimitives(op, r.dispatches))
<1>1. r.actor.status \in Finished => r.saves /\ r.dispatches = {}
  BY DEF Sound, Finished
<1>2. NewPrimitives(op, {}) = {}
  BY DEF NewPrimitives
<1>3. /\ primitives' = left \cup NewPrimitives(op, r.dispatches)
      /\ activePrimitives' =
             activePrimitives - ended + Cardinality(NewPrimitives(op, r.dispatches))
  BY <1>1, <1>2 DEF Accept
<1>4. CASE r.saves
  <2>1. MovesSaved(op, r.actor)
    BY <1>4 DEF Accept, MovesSaved
  <2>2. /\ r.actor \in ActorType /\ Well(r.actor)
        /\ Before(operations[op].status, r.actor.status)
    BY <1>4 DEF Sound
  <2> QED
    BY <1>3, <2>1, <2>2, SavedMove DEF IInv
<1>5. CASE ~r.saves
  <2>1. MovesUnsaved(op, r.actor)
    BY <1>5 DEF Accept, MovesUnsaved
  <2>2. /\ r.actor \in ActorType /\ Well(r.actor) /\ r.actor.status = operations[op].status
        /\ Checkpointed(r.actor) = Checkpointed(operations[op])
    BY <1>5 DEF Sound
  <2> QED
    BY <1>3, <2>1, <2>2, UnsavedMove DEF IInv
<1> QED
  BY <1>4, <1>5

\* A step that dispatches the next primitive, when none of the operation is left.
LEMMA DispatchingStep ==
    ASSUME IInv, loop = "run", NEW op \in Running, NEW r, ~IsRemote(operations[op]),
           Sound(operations[op], r), Continues(r),
           NEW left, NEW ended \in {0, 1}, Accept(op, r, left, ended),
           left \subseteq PrimitiveType, \A p \in left : p.op # op,
           \A p : p.op # op => (p \in left <=> p \in primitives),
           IsFiniteSet(left), Cardinality(left) = activePrimitives - ended,
           step = <<>> \/ step = <<"start", op>>, step' = <<>>,
           UNCHANGED <<accepted, loop, shutdown, handlerVars, clientVars>>
    PROVE  IInv'
<1> DEFINE b == r.actor
<1>1. UNCHANGED <<accepted, stored>>
  BY DEF clientVars
<1>2. /\ Moved(op, b) /\ CheckpointsInv'
      /\ primitives' = left \cup NewPrimitives(op, r.dispatches)
      /\ activePrimitives' = activePrimitives - ended + Cardinality(NewPrimitives(op, r.dispatches))
  BY <1>1, AcceptedStep
<1>3. activePrimitives \in Int /\ Running \subseteq Op
  BY DEF IInv, TypeInv, LocalTypeOK
<1>4. CASE b.status \in Finished
  <2>1. NewPrimitives(op, r.dispatches) = {}
    BY <1>4 DEF Sound, Finished, NewPrimitives
  <2>2. primitives' = left /\ activePrimitives' = Cardinality(left)
    BY <1>2, <1>3, <2>1, FS_EmptySet
  <2>3. Serves(op, b)
    BY <1>4, <2>2 DEF Serves
  <2> QED
    BY <1>2, <2>2, <2>3, ServedStep
<1>5. CASE b.status = "awaiting"
  <2>1. PICK d : r.dispatches = {d} /\ Expects(b, d)
    BY <1>5 DEF Continues
  <2> DEFINE q == [op |-> op, kind |-> d.kind, correlation |-> d.correlation, at |-> d.offset,
                   process |-> "new", announced |-> FALSE]
  <2>2. NewPrimitives(op, r.dispatches) = {q}
    BY <2>1 DEF NewPrimitives
  <2>3. q \in PrimitiveType
    BY <1>3, <2>1 DEF Expects, DispatchType, PrimitiveType
  <2>4. q.op = op /\ q.kind = d.kind /\ q.correlation = d.correlation /\ q.at = d.offset
    OBVIOUS
  <2> HIDE DEF q
  <2>5. /\ IsFiniteSet(primitives') /\ activePrimitives' = Cardinality(primitives')
        /\ primitives' = left \cup {q}
    BY <1>2, <1>3, <2>2, <2>4, PrimitiveAdded
  <2>6. IsAwaited(q, b)
    BY <1>5, <2>1, <2>4 DEF IsAwaited, Expects, Sound, IsRemote
  <2>7. q.kind = "process" /\ op \notin unrecorded => starts[op] = 0
    <3> SUFFICES ASSUME q.kind = "process", op \notin unrecorded
                 PROVE  starts[op] = 0
      OBVIOUS
    <3>1. operations[op].phase \in CreatePhases
      BY <2>1, <2>4 DEF Sound
    <3>2. b.type = "shell"
      BY <2>1, <2>4 DEF Expects, AwaitedKind
    <3>3. operations[op].type = "shell" /\ op \in Op \ unrecorded
      BY <1>3, <3>2 DEF Sound
    <3> QED
      BY <3>1, <3>3 DEF IInv, StartsInv
  <2>8. Serves(op, b)
    BY <1>5, <2>4, <2>5, <2>6, <2>7 DEF Serves
  <2> QED
    BY <1>2, <2>3, <2>4, <2>5, <2>8, ServedStep
<1> QED
  BY <1>4, <1>5 DEF Sound

LEMMA StartKeeps ==
    ASSUME IInv, StartOperation, UNCHANGED clientVars
    PROVE  IInv'
<1>1. PICK op \in Running :
        /\ step = <<"start", op>>
        /\ ~IsRemote(operations[op]) /\ Start(operations[op]).ok
        /\ Checkpointed(operations[op]) = operations[op]
  BY DEF IInv, StepInv, StartOperation
<1>2. /\ Accept(op, Start(operations[op]), primitives, 0) /\ step' = <<>>
      /\ UNCHANGED <<accepted, loop, shutdown, handlerVars, clientVars>>
  BY <1>1 DEF StartOperation
<1>3. loop = "run"
  BY <1>1 DEF IInv, StepInv
<1>4. /\ operations[op] \in ActorType /\ Well(operations[op])
      /\ operations[op].status \in Unfinished
  BY DEF IInv, TypeInv, LocalTypeOK, CheckpointsInv, ActorsInv
<1>5. Sound(operations[op], Start(operations[op])) /\ Continues(Start(operations[op]))
  BY <1>1, <1>4, StartIsSound
<1>6. op \in Starting
  BY <1>1 DEF Starting
<1>7. /\ primitives \subseteq PrimitiveType /\ IsFiniteSet(primitives)
      /\ Cardinality(primitives) = activePrimitives - 0
      /\ \A p \in primitives : p.op # op
  BY <1>6 DEF IInv, TypeInv, LocalTypeOK, PrimitivesInv
<1> QED
  BY <1>1, <1>2, <1>3, <1>5, <1>7, DispatchingStep

\* A primitive goes on or leaves, and its operation is not told or does not mind.
LEMMA PrimitiveChanges ==
    ASSUME IInv, NEW p \in primitives, NEW q \in PrimitiveType,
           q.op = p.op, q.kind = p.kind, q.correlation = p.correlation,
           q.process = "new" => p.process = "new",
           \/ /\ primitives' = primitives \ {p}
              /\ activePrimitives' = activePrimitives - 1
              /\ p.op \notin Running \/ loop # "run"
           \/ /\ primitives' = (primitives \ {p}) \cup {q}
              /\ activePrimitives' = activePrimitives
              /\ p.op \notin Running \/ loop # "run" \/ q.at = p.at,
           \/ starts' = starts
           \/ /\ p.kind = "process" /\ p.process = "new" /\ q.process = "live"
              /\ primitives' = (primitives \ {p}) \cup {q}
              /\ starts' = [starts EXCEPT ![p.op] = @ + 1],
           UNCHANGED <<accepted, operations, ctxErr, pendingUpdates, step, loop, shutdown,
                       handlerVars, stored, unrecorded, crashes>>
    PROVE  IInv'
<1>1. /\ accepted' = accepted /\ operations' = operations /\ ctxErr' = ctxErr
      /\ pendingUpdates' = pendingUpdates /\ step' = step /\ loop' = loop
      /\ shutdown' = shutdown /\ closed' = closed /\ forwarding' = forwarding
      /\ asked' = asked /\ stored' = stored /\ unrecorded' = unrecorded /\ crashes' = crashes
      /\ Running' = Running
  BY DEF handlerVars, Running
<1>2. /\ IsFiniteSet(primitives) /\ activePrimitives = Cardinality(primitives)
      /\ \A x, y \in primitives : x.op = y.op => x = y
      /\ primitives \subseteq PrimitiveType /\ loop # "stopped"
      /\ starts \in [Op -> Nat] /\ p.op \in Op
  BY DEF IInv, TypeInv, LocalTypeOK, ClientTypeOK, PrimitivesInv, PrimitiveType
<1>3. /\ IsFiniteSet(primitives') /\ activePrimitives' = Cardinality(primitives')
      /\ Cardinality(primitives') \in Nat
  <2>1. /\ Cardinality(primitives) \in Nat
        /\ IsFiniteSet(primitives \ {p})
        /\ Cardinality(primitives \ {p}) = Cardinality(primitives) - 1
        /\ IsFiniteSet((primitives \ {p}) \cup {q})
        /\ Cardinality((primitives \ {p}) \cup {q}) = Cardinality(primitives)
    BY <1>2, PrimitivesLeft
  <2>2. IsFiniteSet(primitives') /\ activePrimitives' = Cardinality(primitives')
    BY <1>2, <2>1
  <2> QED
    BY <2>2, FS_CardinalityType
<1>4. \A x \in primitives' : (x \in primitives /\ x.op # p.op) \/ x = q
  BY <1>2
<1>5. starts' \in [Op -> Nat] /\ \A op \in Op : op # p.op => starts'[op] = starts[op]
  BY <1>2
<1>6. TypeInv'
  BY <1>1, <1>2, <1>3, <1>4, <1>5 DEF IInv, TypeInv, LocalTypeOK, ClientTypeOK
<1>7. CheckpointsInv'
  BY <1>1 DEF IInv, CheckpointsInv, ActorsInv, OrderInv, CurrentInv, IsLast, IsCurrent
<1>8. StepInv' /\ JobsInv'
  BY <1>1 DEF IInv, StepInv, JobsInv, JobsOf
<1>9. Starting' = Starting
  BY <1>1 DEF Starting
<1>10. PrimitivesInv'
  <2>1. \A x, y \in primitives' : x.op = y.op => x = y
    BY <1>2, <1>4
  <2>2. ASSUME NEW x \in primitives'
        PROVE  /\ x.op \in accepted
               /\ x.op \in Running => x.op \notin Starting /\ Fits(x, operations[x.op])'
    <3>1. /\ \A y \in primitives : y.op \in accepted
          /\ \A y \in primitives :
                y.op \in Running => y.op \notin Starting /\ Fits(y, operations[y.op])
      BY DEF IInv, PrimitivesInv
    <3>2. CASE x = q
      BY <1>1, <3>1, <3>2 DEF Fits
    <3>3. CASE x # q
      BY <1>1, <1>4, <3>1, <3>3 DEF Fits
    <3> QED
      BY <3>2, <3>3
  <2>3. ASSUME loop = "run", NEW op \in Running \ Starting, ~IsRemote(operations[op])
        PROVE  \E x \in primitives' : x.op = op
    <3>1. PICK x \in primitives : x.op = op
      BY <2>3 DEF IInv, PrimitivesInv
    <3> QED
      BY <2>3, <3>1
  <2> QED
    BY <1>1, <1>2, <1>3, <1>9, <2>1, <2>2, <2>3 DEF PrimitivesInv
<1>11. StartsInv'
  <2> SUFFICES ASSUME NEW op \in Op \ unrecorded
               PROVE  /\ starts'[op] <= 1
                      /\ op \notin accepted => starts'[op] = 0 \/ StartIsStored(op)
                      /\ op \in Running /\ operations[op].type = "shell"
                         /\ operations[op].phase \in {""} \cup CreatePhases => starts'[op] = 0
                      /\ \A x \in primitives' :
                            x.op = op /\ x.kind = "process" /\ x.process = "new" =>
                                starts'[op] = 0
    BY <1>1 DEF StartsInv, StartIsStored
  <2>1. /\ starts[op] <= 1
        /\ op \notin accepted => starts[op] = 0 \/ StartIsStored(op)
        /\ op \in Running /\ operations[op].type = "shell"
           /\ operations[op].phase \in {""} \cup CreatePhases => starts[op] = 0
        /\ \A x \in primitives :
              x.op = op /\ x.kind = "process" /\ x.process = "new" => starts[op] = 0
    BY DEF IInv, StartsInv
  <2>2. CASE starts'[op] = starts[op]
    BY <1>4, <2>1, <2>2
  <2>3. CASE starts'[op] # starts[op]
    <3>1. /\ op = p.op /\ p.kind = "process" /\ p.process = "new" /\ q.process = "live"
          /\ starts' = [starts EXCEPT ![p.op] = @ + 1]
      BY <1>5, <2>3
    <3>2. starts[op] = 0 /\ starts'[op] = 1
      <4>1. starts[op] = 0
        BY <2>1, <3>1
      <4>2. starts'[op] = starts[op] + 1
        BY <1>2, <3>1
      <4> QED
        BY <4>1, <4>2
    <3>3. op \in accepted /\ (op \in Running => Fits(p, operations[op]))
      BY <3>1 DEF IInv, PrimitivesInv
    <3>4. op \in Running /\ operations[op].type = "shell" => operations[op].phase = "process"
      BY <3>1, <3>3 DEF Fits, Awaited, AwaitedKind
    <3>5. \A x \in primitives' : x.op = op => x = q
      BY <1>4, <3>1
    <3>6. ~(op \in Running /\ operations[op].type = "shell"
            /\ operations[op].phase \in {""} \cup CreatePhases)
      BY <3>4, PhasesDiffer
    <3>7. \A x \in primitives' : x.op = op => x.process # "new"
      BY <3>1, <3>5
    <3>8. starts'[op] <= 1
      BY <3>2
    <3> QED
      BY <3>3, <3>6, <3>7, <3>8
  <2> QED
    BY <2>2, <2>3
<1> QED
  BY <1>6, <1>7, <1>8, <1>10, <1>11 DEF IInv

\* An event that no running operation is told of.
LEMMA EventLeaves ==
    ASSUME IInv, NEW p \in primitives, NEW event \in Events(p),
           p.op \notin Running \/ loop # "run",
           primitives' = LeftAfter(p, event),
           activePrimitives' = activePrimitives - (IF IsCompletion(event) THEN 1 ELSE 0),
           UNCHANGED <<accepted, operations, ctxErr, pendingUpdates, step, loop, shutdown,
                       handlerVars, clientVars>>
    PROVE  IInv'
<1> DEFINE q == Continued(p, event)
<1>1. p \in PrimitiveType /\ activePrimitives \in Int
  BY DEF IInv, TypeInv, LocalTypeOK
<1>2. IsCompletion(event) <=> ~IsProgress(event)
  BY <1>1, SeenEvents
<1>3. UNCHANGED <<starts, stored, unrecorded, crashes>>
  BY DEF clientVars
<1>4. CASE IsProgress(event)
  <2>1. primitives' = (primitives \ {p}) \cup {q} /\ activePrimitives' = activePrimitives
    BY <1>1, <1>2, <1>4 DEF LeftAfter
  <2>2. /\ q \in PrimitiveType /\ q.op = p.op /\ q.kind = p.kind
        /\ q.correlation = p.correlation /\ q.process = p.process
    BY <1>1, <1>4, EventContinues, ContinuedFields
  <2> HIDE DEF q
  <2> QED
    BY <1>3, <2>1, <2>2, PrimitiveChanges
<1>5. CASE ~IsProgress(event)
  <2>1. primitives' = primitives \ {p} /\ activePrimitives' = activePrimitives - 1
    BY <1>2, <1>5 DEF LeftAfter
  <2> QED
    BY <1>1, <1>3, <2>1, PrimitiveChanges
<1> QED
  BY <1>4, <1>5

LEMMA ReceiveKeeps ==
    ASSUME IInv, NEW p \in primitives, ReceiveEvent(p), UNCHANGED clientVars
    PROVE  IInv'
<1> DEFINE op == p.op
<1>1. PICK event \in Events(p) : Receive(p, event)
  BY DEF ReceiveEvent
<1>2. /\ loop = "run" /\ step = <<>> /\ step' = <<>>
      /\ UNCHANGED <<accepted, loop, shutdown, handlerVars, clientVars>>
  BY DEF ReceiveEvent, Ready
<1>3. /\ primitives \subseteq PrimitiveType /\ IsFiniteSet(primitives)
      /\ activePrimitives = Cardinality(primitives)
      /\ \A x, y \in primitives : x.op = y.op => x = y
      /\ p \in PrimitiveType
  BY DEF IInv, TypeInv, LocalTypeOK, PrimitivesInv
<1>4. IsCompletion(event) <=> ~IsProgress(event)
  BY <1>3, SeenEvents
<1>5. CASE op \notin Running
  <2>1. /\ primitives' = LeftAfter(p, event)
        /\ activePrimitives' = activePrimitives - (IF IsCompletion(event) THEN 1 ELSE 0)
        /\ UNCHANGED <<operations, ctxErr, pendingUpdates>>
    BY <1>1, <1>5 DEF Receive
  <2> QED
    BY <1>2, <1>5, <2>1, EventLeaves
<1>6. CASE op \in Running
  <2> DEFINE a == operations[op]
             r == Advance(a, Seen(op, event))
             left == LeftAfter(p, event)
             ended == IF IsCompletion(event) THEN 1 ELSE 0
  <2>1. /\ a \in ActorType /\ Well(a) /\ IsAwaited(p, a) /\ ~IsRemote(a)
    BY <1>2, <1>6 DEF IInv, TypeInv, LocalTypeOK, CheckpointsInv, ActorsInv, PrimitivesInv,
                      Fits, IsAwaited
  <2>2. AdvancesBy(p, a, event, r)
    BY <1>3, <2>1, AdvanceIsSound
  <2>3. Sound(a, r) /\ r.ok
    BY <2>2 DEF AdvancesBy, Sound
  <2>4. Accept(op, r, left, ended) /\ ended \in {0, 1}
    BY <1>1, <1>6, <2>3 DEF Receive
  <2>5. CASE IsCompletion(event)
    <3>1. left = primitives \ {p} /\ ended = 1
      BY <1>4, <2>5 DEF LeftAfter
    <3>2. /\ IsFiniteSet(left) /\ Cardinality(left) = activePrimitives - ended
          /\ left \subseteq PrimitiveType
          /\ \A x \in left : x.op # op
          /\ \A x : x.op # op => (x \in left <=> x \in primitives)
      BY <1>3, <3>1, PrimitivesLeft
    <3>3. Continues(r)
      BY <1>4, <2>2, <2>5 DEF AdvancesBy
    <3> HIDE DEF a, r, left, ended
    <3> QED
      BY <1>2, <1>6, <2>1, <2>3, <2>4, <3>2, <3>3, DispatchingStep DEF a
  <2>6. CASE IsProgress(event)
    <3> DEFINE q == Continued(p, event)
    <3>1. left = (primitives \ {p}) \cup {q} /\ ended = 0
      BY <1>4, <2>6 DEF LeftAfter
    <3>2. q \in PrimitiveType /\ q.op = op /\ q.kind = p.kind /\ q.process = p.process
      BY <1>3, <2>6, EventContinues, ContinuedFields
    <3>3. r.dispatches = {} /\ IsAwaited(q, r.actor)
      BY <2>2, <2>6 DEF AdvancesBy
    <3> HIDE DEF a, r, left, ended, q
    <3>4. /\ Moved(op, r.actor) /\ CheckpointsInv'
          /\ primitives' = left \cup NewPrimitives(op, r.dispatches)
          /\ activePrimitives' =
                activePrimitives - ended + Cardinality(NewPrimitives(op, r.dispatches))
      BY <1>2, <1>6, <2>3, <2>4, AcceptedStep DEF a, clientVars
    <3>5. NewPrimitives(op, {}) = {}
      BY DEF NewPrimitives
    <3>6. /\ IsFiniteSet(primitives') /\ activePrimitives' = Cardinality(primitives')
          /\ primitives' = (primitives \ {p}) \cup {q}
      <4>1. /\ primitives' = (primitives \ {p}) \cup {q}
            /\ activePrimitives' = activePrimitives - 0 + 0
        BY <3>1, <3>3, <3>4, <3>5, FS_EmptySet
      <4>2. /\ IsFiniteSet((primitives \ {p}) \cup {q}) /\ Cardinality(primitives) \in Nat
            /\ Cardinality((primitives \ {p}) \cup {q}) = Cardinality(primitives)
        BY <1>3, <3>2, PrimitivesLeft
      <4> QED
        BY <1>3, <4>1, <4>2
    <3>7. q.kind = "process" /\ q.process = "new" /\ op \notin unrecorded => starts[op] = 0
      BY <1>3, <3>2 DEF IInv, StartsInv, PrimitiveType
    <3>8. Serves(op, r.actor)
      BY <1>3, <3>2, <3>3, <3>6, <3>7 DEF Serves, IsAwaited
    <3>9. /\ primitives' \subseteq PrimitiveType
          /\ \A x : x.op # op => (x \in primitives' <=> x \in primitives)
      BY <1>3, <3>2, <3>6
    <3> QED
      BY <1>2, <1>6, <2>1, <2>3, <3>4, <3>6, <3>8, <3>9, ServedStep DEF a
  <2> QED
    BY <1>4, <2>5, <2>6
<1> QED
  BY <1>5, <1>6

-----------------------------------------------------------------------------
(* The steps of the manager, its handlers and its client.                  *)

\* Nothing changes that the invariant is about, but for the types.
LEMMA QuietKeeps ==
    ASSUME IInv, TypeInv',
           UNCHANGED <<accepted, operations, pendingUpdates, primitives, activePrimitives, step,
                       loop, closed, stored, starts, unrecorded>>
    PROVE  IInv'
<1>1. Running' = Running
  BY DEF Running
<1>2. CheckpointsInv'
  BY <1>1 DEF IInv, CheckpointsInv, ActorsInv, OrderInv, CurrentInv, IsLast, IsCurrent
<1>3. StepInv' /\ JobsInv'
  BY <1>1 DEF IInv, StepInv, JobsInv, JobsOf
<1>4. PrimitivesInv'
  BY <1>1 DEF IInv, PrimitivesInv, Starting, Fits
<1>5. StartsInv'
  BY <1>1 DEF IInv, StartsInv, StartIsStored
<1> QED
  BY <1>2, <1>3, <1>4, <1>5 DEF IInv

LEMMA QuietSteps ==
    ASSUME IInv, UNCHANGED clientVars,
           \/ Shutdown
           \/ \E op \in Op : CancelOperation(op)
           \/ \E h \in Handler : \/ ForwarderStops(h) \/ HandlerCloses(h)
                                 \/ \E op \in Op : HandlerCancels(h, op)
                                 \/ \E op \in Op, status \in OpStatus, same \in BOOLEAN :
                                      HandlerSends(h, op, status, same)
    PROVE  IInv'
<1>0. TypeInv
  BY DEF IInv
<1>1. CASE Shutdown
  <2>1. TypeInv'
    BY <1>0, <1>1 DEF TypeInv, LocalTypeOK, ClientTypeOK, Shutdown, managerVars, handlerVars,
                      clientVars, Running
  <2> QED
    BY <1>1, <2>1, QuietKeeps DEF Shutdown, managerVars, handlerVars, clientVars
<1>2. ASSUME NEW op \in Op, CancelOperation(op)
      PROVE  IInv'
  <2>1. ctxErr' \subseteq accepted /\ asked' \subseteq accepted
    BY <1>0, <1>2 DEF TypeInv, LocalTypeOK, CancelOperation
  <2>2. TypeInv'
    BY <1>0, <1>2, <2>1
       DEF TypeInv, LocalTypeOK, ClientTypeOK, CancelOperation, clientVars, Running
  <2> QED
    BY <1>2, <2>2, QuietKeeps DEF CancelOperation, clientVars
<1>3. ASSUME NEW h \in Handler, NEW u \in ForwardType, forwarding' = [forwarding EXCEPT ![h] = u],
             UNCHANGED <<managerVars, primitives, shutdown, closed, asked>>
      PROVE  IInv'
  <2>1. TypeInv'
    BY <1>0, <1>3 DEF TypeInv, LocalTypeOK, ClientTypeOK, managerVars, clientVars, Running
  <2> QED
    BY <1>3, <2>1, QuietKeeps DEF managerVars, clientVars
<1>4. /\ Gone \in ForwardType /\ Closing \in ForwardType
      /\ \A op \in Op, status \in OpStatus, same \in BOOLEAN : JobUpdate(op, status, same) \in ForwardType
  BY DEF ForwardType, JobUpdate
<1>5. \A h \in Handler : ForwarderStops(h) \/ HandlerCloses(h) => IInv'
  BY <1>3, <1>4 DEF ForwarderStops, HandlerCloses
<1>6. ASSUME NEW h \in Handler, NEW op \in Op, HandlerCancels(h, op)
      PROVE  IInv'
  <2>1. JobUpdate(op, "canceled", TRUE) \in ForwardType
    BY <1>4 DEF OpStatus, Finished
  <2> QED
    BY <1>3, <1>6, <2>1 DEF HandlerCancels
<1>7. ASSUME NEW h \in Handler, NEW op \in Op, NEW status \in OpStatus, NEW same \in BOOLEAN,
             HandlerSends(h, op, status, same)
      PROVE  IInv'
  BY <1>3, <1>4, <1>7 DEF HandlerSends
<1> QED
  BY <1>1, <1>2, <1>5, <1>6, <1>7

\* The manager stops waiting for requests, or its goroutine panics.
LEMMA EndSteps ==
    ASSUME IInv, UNCHANGED clientVars,
           StartDrain \/ Stop \/ \E h \in Handler : ReceiveMisdirected(h)
    PROVE  IInv'
<1>1. /\ step = <<>> /\ step' = <<>> /\ loop' \in {"drain", "stopped", "panicked"}
      /\ loop' = "stopped" => activePrimitives = 0
      /\ ctxErr' \subseteq ctxErr \cup Running
      /\ UNCHANGED <<accepted, operations, pendingUpdates, primitives, activePrimitives,
                     shutdown, closed, forwarding, asked, stored, starts, unrecorded, crashes>>
  <2>1. CASE StartDrain
    BY <2>1 DEF StartDrain, handlerVars, clientVars
  <2>2. CASE Stop
    BY <2>2 DEF IInv, StepInv, Stop, handlerVars, clientVars
  <2>3. CASE \E h \in Handler : ReceiveMisdirected(h)
    BY <2>3 DEF ReceiveMisdirected, Ready, handlerVars, clientVars
  <2> QED
    BY <2>1, <2>2, <2>3
<1>2. Running' = Running
  BY <1>1 DEF Running
<1>3. TypeInv'
  BY <1>1, <1>2 DEF IInv, TypeInv, LocalTypeOK, ClientTypeOK
<1>4. CheckpointsInv'
  BY <1>1, <1>2 DEF IInv, CheckpointsInv, ActorsInv, OrderInv, CurrentInv, IsLast, IsCurrent
<1>5. StepInv' /\ JobsInv' /\ Starting' = {}
  BY <1>1 DEF StepInv, JobsInv, Starting
<1>6. PrimitivesInv'
  <2>1. loop' = "stopped" => primitives' = {}
    BY <1>1, FS_EmptySet DEF IInv, PrimitivesInv
  <2>2. \A p \in primitives : p.op \in Running => Fits(p, operations[p.op])'
    BY <1>1 DEF IInv, PrimitivesInv, Fits
  <2> QED
    BY <1>1, <1>2, <1>5, <2>1, <2>2 DEF IInv, PrimitivesInv
<1>7. StartsInv'
  BY <1>1, <1>2 DEF IInv, StartsInv, StartIsStored
<1> QED
  BY <1>3, <1>4, <1>5, <1>6, <1>7 DEF IInv

LEMMA AddKeeps ==
    ASSUME IInv, NEW op \in Op, AddStored(op)
    PROVE  IInv'
<1> DEFINE a == stored[op]
<1>1. /\ a.status \in Unfinished /\ op \notin accepted /\ CanAdd(a)
      /\ loop = "run" /\ step = <<>>
      /\ accepted' = accepted \cup {op}
      /\ operations' = [other \in Running \cup {op} |-> IF other = op THEN a ELSE operations[other]]
      /\ step' = IF IsRemote(a) THEN <<>> ELSE <<"start", op>>
      /\ UNCHANGED <<ctxErr, pendingUpdates, primitives, activePrimitives, loop, shutdown,
                     closed, forwarding, asked, stored, starts, unrecorded, crashes>>
  BY DEF AddStored, AddOperation, Ready, handlerVars, clientVars
<1>2. /\ Running \subseteq accepted /\ accepted \subseteq Op /\ op \notin Running
      /\ Running' = Running \cup {op} /\ operations'[op] = a
      /\ \A other \in Running : operations'[other] = operations[other]
  BY <1>1 DEF IInv, TypeInv, LocalTypeOK, Running
<1>3. a \in ActorType /\ Well(a) /\ Checkpointed(a) = a
  BY DEF IInv, TypeInv, ClientTypeOK, CheckpointsInv, ActorsInv
<1>4. TypeInv'
  <2>1. operations' \in [Running' -> ActorType] /\ Running' \subseteq accepted'
    BY <1>1, <1>2, <1>3 DEF IInv, TypeInv, LocalTypeOK
  <2>2. /\ accepted' \subseteq Op /\ ctxErr \subseteq accepted' /\ asked \subseteq accepted'
    BY <1>1, <1>2 DEF IInv, TypeInv, LocalTypeOK
  <2> QED
    BY <1>1, <2>1, <2>2 DEF IInv, TypeInv, LocalTypeOK, ClientTypeOK
<1>5. ActorsInv'
  BY <1>1, <1>2, <1>3 DEF IInv, CheckpointsInv, ActorsInv
<1>6. \A i \in DOMAIN pendingUpdates : pendingUpdates[i].op \in accepted
  BY DEF IInv, CheckpointsInv, OrderInv
<1>7. OrderInv'
  <2>1. Before(a.status, a.status)
    BY <1>1 DEF Before, Unfinished
  <2> QED
    BY <1>1, <1>2, <1>6, <2>1 DEF IInv, CheckpointsInv, OrderInv
<1>8. CurrentInv'
  <2>1. \A other \in accepted : \A c : IsCurrent(other, c) => IsCurrent(other, c)'
    BY <1>1, <1>2 DEF IsCurrent
  <2>2. \A i : IsLast(i)' <=> IsLast(i)
    BY <1>1 DEF IsLast
  <2>3. ASSUME NEW other \in accepted
        PROVE  \/ /\ \A i \in DOMAIN pendingUpdates : pendingUpdates[i].op # other
                  /\ IsCurrent(other, stored[other])'
               \/ \E i \in DOMAIN pendingUpdates :
                     /\ pendingUpdates[i].op = other /\ IsLast(i)'
                     /\ IsCurrent(other, pendingUpdates[i].actor)'
    <3>1. \A c : IsCurrent(other, c) => IsCurrent(other, c)'
      BY <2>1
    <3>2. IsCurrent(other, stored[other]) => IsCurrent(other, stored[other])'
      BY <1>1, <3>1 DEF IsCurrent
    <3>3. \A i : IsCurrent(other, pendingUpdates[i].actor) => IsCurrent(other, pendingUpdates[i].actor)'
      BY <1>1, <3>1 DEF IsCurrent
    <3> QED
      BY <2>2, <3>2, <3>3 DEF IInv, CheckpointsInv, CurrentInv
  <2>4. IsCurrent(op, stored[op])'
    BY <1>1, <1>2, <1>3 DEF IsCurrent
  <2>5. \A i \in DOMAIN pendingUpdates : pendingUpdates[i].op # op
    BY <1>1, <1>6
  <2> QED
    BY <1>1, <2>3, <2>4, <2>5 DEF CurrentInv
<1>9. StepInv'
  BY <1>1, <1>2, <1>3 DEF StepInv, CanAdd
<1>10. \A p \in primitives : p.op \in accepted /\ p.op # op
  BY <1>1 DEF IInv, PrimitivesInv
<1>11. Starting = {} /\ Starting' \subseteq {op} /\ (~IsRemote(a) => Starting' = {op})
  BY <1>1, <1>2 DEF Starting
<1>12. PrimitivesInv'
  <2>1. \A p \in primitives : p.op \in Running => Fits(p, operations[p.op])'
    BY <1>1, <1>2 DEF IInv, PrimitivesInv, Fits
  <2>2. \A other \in Running \ Starting :
          ~IsRemote(operations[other]) => \E p \in primitives : p.op = other
    BY <1>1 DEF IInv, PrimitivesInv
  <2> QED
    BY <1>1, <1>2, <1>10, <1>11, <2>1, <2>2 DEF IInv, PrimitivesInv
<1>13. JobsInv'
  BY <1>1, <1>2 DEF IInv, JobsInv, CanAdd, IsRemote
<1>14. StartsInv'
  <2>1. op \notin unrecorded /\ a.phase \in {""} \cup CreatePhases => starts[op] = 0
    BY <1>1, PhasesDiffer DEF IInv, StartsInv, StartIsStored, Unfinished, Finished, ReadPhases
  <2> QED
    BY <1>1, <1>2, <2>1 DEF IInv, StartsInv, StartIsStored
<1> QED
  BY <1>4, <1>5, <1>7, <1>8, <1>9, <1>12, <1>13, <1>14 DEF IInv, CheckpointsInv

LEMMA StoreKeeps ==
    ASSUME IInv, StoreCheckpoint
    PROVE  IInv'
<1>1. PICK update \in {pendingUpdates[i] : i \in DOMAIN pendingUpdates} :
        /\ ReceiveCheckpoint(update)
        /\ stored' = [stored EXCEPT ![update.op] = update.actor]
  BY DEF StoreCheckpoint
<1>2. /\ pendingUpdates # <<>> /\ update = Head(pendingUpdates)
      /\ pendingUpdates' = Tail(pendingUpdates)
      /\ UNCHANGED <<accepted, operations, ctxErr, primitives, activePrimitives, step, loop,
                     shutdown, closed, forwarding, asked, starts, unrecorded, crashes>>
  BY <1>1 DEF StoreCheckpoint, ReceiveCheckpoint, handlerVars
<1>3. pendingUpdates \in Seq(CheckpointType) /\ stored \in [Op -> ActorType] /\ accepted \subseteq Op
  BY DEF IInv, TypeInv, LocalTypeOK, ClientTypeOK
<1>4. PICK n \in Nat : n = Len(pendingUpdates)
  BY <1>3
<1>5. /\ pendingUpdates' \in Seq(CheckpointType) /\ n > 0 /\ update = pendingUpdates[1]
      /\ DOMAIN pendingUpdates = 1 .. n /\ DOMAIN pendingUpdates' = 1 .. (n - 1)
      /\ \A i \in 1 .. (n - 1) : pendingUpdates'[i] = pendingUpdates[i + 1]
  BY <1>2, <1>3, <1>4, ReceivedUpdate
<1>6. \A i \in DOMAIN pendingUpdates' :
        /\ i + 1 \in DOMAIN pendingUpdates /\ 1 < i + 1
        /\ pendingUpdates'[i] = pendingUpdates[i + 1]
  BY <1>4, <1>5
<1>7. 1 \in DOMAIN pendingUpdates
  BY <1>4, <1>5
<1>8. update.op \in accepted /\ update.actor \in ActorType
  <2>1. pendingUpdates[1] \in CheckpointType
    BY <1>3, <1>7
  <2>2. pendingUpdates[1].op \in accepted
    BY <1>7 DEF IInv, CheckpointsInv, OrderInv
  <2> QED
    BY <1>5, <2>1, <2>2 DEF CheckpointType
<1>9. stored'[update.op] = update.actor
      /\ \A op \in Op : op # update.op => stored'[op] = stored[op]
  BY <1>1, <1>3, <1>8
<1>10. Running' = Running /\ Starting' = Starting
  BY <1>2 DEF Running, Starting
<1>11. TypeInv'
  <2>1. stored' \in [Op -> ActorType]
    BY <1>1, <1>3, <1>8
  <2> QED
    BY <1>2, <1>5, <1>10, <2>1 DEF IInv, TypeInv, LocalTypeOK, ClientTypeOK
<1>12. ActorsInv'
  <2>1. \A op \in Op : Well(stored'[op]) /\ Checkpointed(stored'[op]) = stored'[op]
    BY <1>5, <1>7, <1>9 DEF IInv, CheckpointsInv, ActorsInv
  <2>2. \A i \in DOMAIN pendingUpdates' : LET a == pendingUpdates'[i].actor
                                          IN  Well(a) /\ Checkpointed(a) = a
    BY <1>6 DEF IInv, CheckpointsInv, ActorsInv
  <2> QED
    BY <1>2, <1>10, <2>1, <2>2 DEF IInv, CheckpointsInv, ActorsInv
<1>13. OrderInv'
  <2>1. ASSUME NEW i \in DOMAIN pendingUpdates'
        PROVE  /\ pendingUpdates'[i].op \in accepted
               /\ Before(stored'[pendingUpdates'[i].op].status, pendingUpdates'[i].actor.status)
    <3>1. pendingUpdates'[i] = pendingUpdates[i + 1] /\ i + 1 \in DOMAIN pendingUpdates /\ 1 < i + 1
      BY <1>6
    <3>2. PICK j \in DOMAIN pendingUpdates : j = i + 1
      BY <3>1
    <3>3. /\ pendingUpdates[j].op \in accepted
          /\ Before(stored[pendingUpdates[j].op].status, pendingUpdates[j].actor.status)
      BY DEF IInv, CheckpointsInv, OrderInv
    <3>4. pendingUpdates[j].op = update.op => Before(update.actor.status, pendingUpdates[j].actor.status)
      BY <1>5, <1>7, <3>1, <3>2 DEF IInv, CheckpointsInv, OrderInv
    <3> QED
      BY <1>3, <1>9, <3>1, <3>2, <3>3, <3>4
  <2>2. ASSUME NEW i \in DOMAIN pendingUpdates', NEW j \in DOMAIN pendingUpdates', i < j,
               pendingUpdates'[i].op = pendingUpdates'[j].op
        PROVE  Before(pendingUpdates'[i].actor.status, pendingUpdates'[j].actor.status)
    <3>1. i + 1 < j + 1
      BY <1>4, <1>5, <2>2
    <3> QED
      BY <1>6, <2>2, <3>1 DEF IInv, CheckpointsInv, OrderInv
  <2>3. ASSUME NEW op \in Running
        PROVE  /\ Before(stored'[op].status, operations[op].status)
               /\ \A i \in DOMAIN pendingUpdates' : pendingUpdates'[i].op = op =>
                     Before(pendingUpdates'[i].actor.status, operations[op].status)
    <3>1. op \in Op
      BY DEF IInv, TypeInv, LocalTypeOK
    <3>2. /\ Before(stored[op].status, operations[op].status)
          /\ \A i \in DOMAIN pendingUpdates : pendingUpdates[i].op = op =>
                Before(pendingUpdates[i].actor.status, operations[op].status)
      BY DEF IInv, CheckpointsInv, OrderInv
    <3> QED
      BY <1>5, <1>6, <1>7, <1>9, <3>1, <3>2
  <2> QED
    BY <1>2, <1>10, <2>1, <2>2, <2>3 DEF OrderInv
<1>14. CurrentInv'
  <2> SUFFICES ASSUME NEW op \in accepted
               PROVE  \/ /\ \A i \in DOMAIN pendingUpdates' : pendingUpdates'[i].op # op
                         /\ IsCurrent(op, stored[op])'
                      \/ \E i \in DOMAIN pendingUpdates' :
                            /\ pendingUpdates'[i].op = op /\ IsLast(i)'
                            /\ IsCurrent(op, pendingUpdates[i].actor)'
    BY <1>2 DEF CurrentInv
  <2>1. \A c : IsCurrent(op, c)' <=> IsCurrent(op, c)
    BY <1>2, <1>10 DEF IsCurrent
  <2>2. CASE /\ \A i \in DOMAIN pendingUpdates : pendingUpdates[i].op # op
             /\ IsCurrent(op, stored[op])
    <3>1. op # update.op /\ stored'[op] = stored[op]
      BY <1>3, <1>5, <1>7, <1>9, <2>2
    <3>2. \A i \in DOMAIN pendingUpdates' : pendingUpdates'[i].op # op
      BY <1>6, <2>2
    <3> QED
      BY <1>2, <1>10, <2>2, <3>1, <3>2 DEF IsCurrent
  <2>3. CASE \E i \in DOMAIN pendingUpdates :
                /\ pendingUpdates[i].op = op /\ IsLast(i)
                /\ IsCurrent(op, pendingUpdates[i].actor)
    <3>1. PICK i \in DOMAIN pendingUpdates : /\ pendingUpdates[i].op = op /\ IsLast(i)
                                             /\ IsCurrent(op, pendingUpdates[i].actor)
      BY <2>3
    <3>2. CASE i = 1
      <4>1. \A j \in DOMAIN pendingUpdates' : pendingUpdates'[j].op # op
        <5> SUFFICES ASSUME NEW j \in DOMAIN pendingUpdates', pendingUpdates'[j].op = op
                     PROVE  FALSE
          OBVIOUS
        <5>1. j + 1 <= i /\ 1 < j + 1
          BY <1>6, <3>1 DEF IsLast
        <5> QED
          BY <1>5, <3>2, <5>1
      <4>2. stored'[op] = pendingUpdates[i].actor
        BY <1>5, <1>9, <3>1, <3>2
      <4> QED
        BY <1>2, <1>10, <3>1, <4>1, <4>2 DEF IsCurrent
    <3>3. CASE i # 1
      <4>1. PICK j \in DOMAIN pendingUpdates' : i = j + 1
        <5>1. i \in 1 .. n
          BY <1>5
        <5>2. i - 1 \in 1 .. (n - 1) /\ i = (i - 1) + 1
          BY <3>3, <5>1
        <5> QED
          BY <1>5, <5>2
      <4>2. pendingUpdates'[j] = pendingUpdates[i]
        BY <1>6, <4>1
      <4>3. IsLast(j)'
        <5> SUFFICES ASSUME NEW k \in DOMAIN pendingUpdates', pendingUpdates'[k].op = op
                     PROVE  k <= j
          BY <3>1, <4>2 DEF IsLast
        <5>1. k + 1 <= i
          BY <1>6, <3>1 DEF IsLast
        <5> QED
          BY <1>5, <4>1, <5>1
      <4> QED
        BY <1>2, <1>10, <3>1, <4>2, <4>3 DEF IsCurrent
    <3> QED
      BY <3>2, <3>3
  <2> QED
    BY <2>2, <2>3 DEF IInv, CheckpointsInv, CurrentInv
<1>15. StepInv' /\ JobsInv'
  BY <1>2, <1>10 DEF IInv, StepInv, JobsInv, JobsOf
<1>16. PrimitivesInv'
  BY <1>2, <1>10 DEF IInv, PrimitivesInv, Fits
<1>17. StartsInv'
  <2>1. \A op \in Op : op \notin accepted => (StartIsStored(op)' <=> StartIsStored(op))
    BY <1>8, <1>9 DEF StartIsStored
  <2> QED
    BY <1>2, <1>10, <2>1 DEF IInv, StartsInv
<1> QED
  BY <1>11, <1>12, <1>13, <1>14, <1>15, <1>16, <1>17 DEF IInv, CheckpointsInv

\* The process of a primitive starts, or it ends.
LEMMA ProcessKeeps ==
    ASSUME IInv, NEW p \in primitives,
           RunProcess(p) \/ (ExitProcess(p) /\ UNCHANGED clientVars)
    PROVE  IInv'
<1>1. p \in PrimitiveType
  BY DEF IInv, TypeInv, LocalTypeOK
<1>2. UNCHANGED <<accepted, operations, ctxErr, pendingUpdates, activePrimitives, step, loop,
                  shutdown, handlerVars, stored, unrecorded, crashes>>
  BY DEF RunProcess, StartProcess, ExitProcess, managerVars, clientVars
<1>3. CASE RunProcess(p)
  <2> DEFINE q == [p EXCEPT !.process = "live"]
  <2>1. /\ p.kind = "process" /\ p.process = "new"
        /\ primitives' = (primitives \ {p}) \cup {q}
        /\ starts' = [starts EXCEPT ![p.op] = @ + 1]
    BY <1>3 DEF RunProcess, StartProcess
  <2>2. /\ q \in PrimitiveType /\ q.op = p.op /\ q.kind = p.kind /\ q.at = p.at
        /\ q.correlation = p.correlation /\ q.process = "live"
    BY <1>1 DEF PrimitiveType
  <2> HIDE DEF q
  <2> QED
    BY <1>2, <2>1, <2>2, PrimitiveChanges
<1>4. CASE ExitProcess(p) /\ UNCHANGED clientVars
  <2> DEFINE q == [p EXCEPT !.process = "exited"]
  <2>1. primitives' = (primitives \ {p}) \cup {q} /\ starts' = starts
    BY <1>4 DEF ExitProcess, clientVars
  <2>2. /\ q \in PrimitiveType /\ q.op = p.op /\ q.kind = p.kind /\ q.at = p.at
        /\ q.correlation = p.correlation /\ q.process = "exited"
    BY <1>1 DEF PrimitiveType
  <2> HIDE DEF q
  <2> QED
    BY <1>2, <2>1, <2>2, PrimitiveChanges
<1> QED
  BY <1>3, <1>4

LEMMA DrainKeeps ==
    ASSUME IInv, NEW p \in primitives, DrainEvent(p), UNCHANGED clientVars
    PROVE  IInv'
<1>1. PICK event \in Events(p) :
        /\ primitives' = LeftAfter(p, event)
        /\ activePrimitives' = activePrimitives - (IF IsCompletion(event) THEN 1 ELSE 0)
  BY DEF DrainEvent
<1>2. /\ loop = "drain"
      /\ UNCHANGED <<accepted, operations, ctxErr, pendingUpdates, step, loop, shutdown,
                     handlerVars, clientVars>>
  BY DEF DrainEvent
<1> QED
  BY <1>1, <1>2, EventLeaves

LEMMA CrashKeeps ==
    ASSUME IInv, Crash
    PROVE  IInv'
<1>1. /\ accepted' = {} /\ operations' = <<>> /\ ctxErr' = {} /\ pendingUpdates' = <<>>
      /\ primitives' = {} /\ activePrimitives' = 0 /\ step' = <<>> /\ loop' = "run"
      /\ shutdown' = FALSE /\ closed' = {} /\ forwarding' = [h \in Handler |-> NoUpdate]
      /\ asked' = {} /\ crashes' = crashes + 1 /\ stored' = stored /\ starts' = starts
      /\ unrecorded' = unrecorded \cup {op \in Op : starts[op] > 0 /\ ~StartIsStored(op)}
  BY DEF Crash, NewLocalManager
<1>2. Running' = {} /\ DOMAIN pendingUpdates' = {} /\ pendingUpdates' \in Seq(CheckpointType)
      /\ operations' \in [{} -> ActorType]
  BY <1>1 DEF Running
<1>3. TypeInv'
  <2>1. crashes' \in Nat /\ unrecorded' \subseteq Op
    BY <1>1 DEF IInv, TypeInv, ClientTypeOK
  <2>2. forwarding' \in [Handler -> ForwardType]
    BY <1>1 DEF ForwardType
  <2>3. ClientTypeOK'
    BY <1>1, <2>1 DEF IInv, TypeInv, ClientTypeOK
  <2>4. LocalTypeOK'
    <3>1. operations' \in [Running' -> ActorType] /\ Running' \subseteq accepted'
      BY <1>1, <1>2
    <3>2. accepted' \subseteq Op /\ ctxErr' \subseteq accepted' /\ asked' \subseteq accepted'
      BY <1>1
    <3>3. primitives' \subseteq PrimitiveType /\ closed' \subseteq Handler
      BY <1>1
    <3>4. activePrimitives' \in Int
      BY <1>1
    <3>5. loop' \in {"run", "drain", "stopped", "panicked"} /\ shutdown' \in BOOLEAN
      BY <1>1
    <3> QED
      BY <1>2, <2>2, <3>1, <3>2, <3>3, <3>4, <3>5 DEF LocalTypeOK
  <2> QED
    BY <2>3, <2>4 DEF TypeInv
<1>4. CheckpointsInv'
  BY <1>1, <1>2 DEF IInv, CheckpointsInv, ActorsInv, OrderInv, CurrentInv
<1>5. StepInv' /\ JobsInv'
  BY <1>1, <1>2 DEF StepInv, JobsInv
<1>6. PrimitivesInv'
  BY <1>1, <1>2, FS_EmptySet DEF PrimitivesInv
<1>7. StartsInv'
  <2> SUFFICES ASSUME NEW op \in Op, op \notin unrecorded'
               PROVE  starts[op] <= 1 /\ (starts[op] = 0 \/ StartIsStored(op))
    BY <1>1, <1>2 DEF StartsInv, StartIsStored
  <2>1. op \notin unrecorded /\ ~(starts[op] > 0 /\ ~StartIsStored(op))
    BY <1>1
  <2>2. starts[op] <= 1 /\ starts[op] \in Nat
    BY <2>1 DEF IInv, StartsInv, TypeInv, ClientTypeOK
  <2> QED
    BY <2>1, <2>2
<1> QED
  BY <1>3, <1>4, <1>5, <1>6, <1>7 DEF IInv

\* A remote job takes a step: it has no primitive.
LEMMA JobMoves ==
    ASSUME IInv, loop = "run", NEW op \in Running, IsRemote(operations[op]),
           NEW b \in ActorType, Well(b), IsRemote(b),
           Before(operations[op].status, b.status), MovesSaved(op, b),
           StepInv', JobsInv', Starting = {}, Starting' = {},
           forwarding' \in [Handler -> ForwardType], asked' \subseteq accepted,
           UNCHANGED <<accepted, primitives, activePrimitives, loop, shutdown, closed, clientVars>>
    PROVE  IInv'
<1>1. /\ UNCHANGED <<accepted, stored, starts, unrecorded, crashes>>
  BY DEF clientVars
<1>2. Moved(op, b) /\ CheckpointsInv'
  BY <1>1, SavedMove DEF IInv
<1>3. /\ Running' \subseteq Running /\ Running \subseteq accepted
      /\ \A other \in Running' : \/ other # op /\ operations'[other] = operations[other]
                                 \/ other = op /\ operations'[other] = b
  BY <1>2 DEF Moved, IInv, TypeInv, LocalTypeOK
<1>4. TypeInv'
  BY <1>1, <1>2, <1>3 DEF IInv, TypeInv, LocalTypeOK, ClientTypeOK, Moved
<1>5. \A p \in primitives : p.op # op
  BY DEF IInv, PrimitivesInv, Fits
<1>6. PrimitivesInv'
  <2>1. \A p \in primitives : p.op \in Running' => Fits(p, operations[p.op])'
    BY <1>3, <1>5 DEF IInv, PrimitivesInv, Fits
  <2>2. \A other \in Running' : ~IsRemote(operations'[other]) =>
            other \in Running \ Starting /\ ~IsRemote(operations[other])
    BY <1>3
  <2>3. \A other \in Running \ Starting :
            ~IsRemote(operations[other]) => \E p \in primitives : p.op = other
    BY DEF IInv, PrimitivesInv
  <2> QED
    BY <2>1, <2>2, <2>3 DEF IInv, PrimitivesInv
<1>7. StartsInv'
  <2>1. \A other \in Running' : operations'[other].type = "shell" =>
            other \in Running /\ operations'[other] = operations[other]
    BY <1>3 DEF IsRemote
  <2> QED
    BY <1>1, <2>1 DEF IInv, StartsInv, StartIsStored
<1> QED
  BY <1>2, <1>4, <1>6, <1>7 DEF IInv

\* failLocalOperation of a remote job.
LEMMA FailedJob ==
    ASSUME IInv, NEW op \in Running, IsRemote(operations[op]), Fail(op, operations[op], "remote")
    PROVE  LET b == FailWith(operations[op], "remote").actor
           IN  /\ b \in ActorType /\ Well(b) /\ IsRemote(b) /\ b.status = "failed"
               /\ Before(operations[op].status, b.status) /\ MovesSaved(op, b)
<1> DEFINE a == operations[op]
           b == FailWith(a, "remote").actor
<1>1. a \in ActorType /\ Well(a) /\ a.status \in Unfinished
  BY DEF IInv, TypeInv, LocalTypeOK, CheckpointsInv, ActorsInv
<1>2. /\ Sound(a, FailWith(a, "remote")) /\ FailWith(a, "remote").saves
      /\ b.status = "failed"
  BY <1>1, EndedIsSound DEF FailWith, Finished, ErrorKind
<1>3. MovesSaved(op, b)
  BY <1>2 DEF Fail, MovesSaved, Finished
<1> QED
  BY <1>2, <1>3 DEF Sound, IsRemote

LEMMA FailJobKeeps ==
    ASSUME IInv, FailJob, UNCHANGED clientVars
    PROVE  IInv'
<1>1. PICK h \in closed : step = <<"fail", h>> /\ JobsOf(h) # {}
  BY DEF IInv, StepInv, FailJob
<1>2. PICK op \in JobsOf(h) : /\ Fail(op, operations[op], "remote")
                              /\ step' = IF JobsOf(h) = {op} THEN <<>> ELSE step
  BY <1>1 DEF FailJob
<1>3. op \in Running /\ IsRemote(operations[op]) /\ operations[op].phase = h
  BY DEF JobsOf
<1>4. loop = "run"
  BY <1>1 DEF IInv, StepInv
<1>5. PICK b : b = FailWith(operations[op], "remote").actor
  OBVIOUS
<1>6. /\ b \in ActorType /\ Well(b) /\ IsRemote(b) /\ b.status = "failed"
      /\ Before(operations[op].status, b.status) /\ MovesSaved(op, b)
  BY <1>2, <1>3, <1>5, FailedJob
<1>7. Running' = Running \ {op}
      /\ \A other \in Running' : operations'[other] = operations[other]
  BY <1>6 DEF MovesSaved, Forget, Finished, Running
<1>8. UNCHANGED <<accepted, primitives, activePrimitives, loop, shutdown, closed, forwarding,
                  asked, clientVars>>
  BY DEF FailJob, handlerVars
<1>9. StepInv'
  <2>1. JobsOf(h)' = JobsOf(h) \ {op}
    BY <1>7 DEF JobsOf
  <2>2. CASE JobsOf(h) = {op}
    BY <1>2, <2>2 DEF StepInv
  <2>3. CASE JobsOf(h) # {op}
    <3>1. JobsOf(h)' # {}
      BY <2>1, <2>3
    <3> QED
      BY <1>1, <1>2, <1>4, <1>8, <2>3, <3>1 DEF StepInv
  <2> QED
    BY <2>2, <2>3
<1>10. JobsInv'
  <2> SUFFICES ASSUME NEW other \in Running', IsRemote(operations'[other]),
                      operations'[other].phase \in closed
               PROVE  step' = <<"fail", operations'[other].phase>>
    BY <1>8 DEF JobsInv, IsRemote
  <2>1. other \in Running /\ other # op /\ operations'[other] = operations[other]
    BY <1>7
  <2>2. step = <<"fail", operations[other].phase>>
    BY <1>4, <2>1 DEF IInv, JobsInv
  <2>3. other \in JobsOf(h)
    BY <1>1, <2>1, <2>2 DEF JobsOf
  <2> QED
    BY <1>2, <2>1, <2>2, <2>3
<1>11. Starting = {} /\ Starting' = {}
  BY <1>1, <1>2 DEF Starting
<1>12. forwarding' \in [Handler -> ForwardType] /\ asked' \subseteq accepted
  BY <1>8 DEF IInv, TypeInv, LocalTypeOK
<1> QED
  BY <1>3, <1>4, <1>6, <1>8, <1>9, <1>10, <1>11, <1>12, JobMoves

LEMMA JobUpdateKeeps ==
    ASSUME IInv, NEW h \in Handler, ReceiveJobUpdate(h), UNCHANGED clientVars
    PROVE  IInv'
<1> DEFINE update == forwarding[h]
           op == update.op
<1>1. /\ loop = "run" /\ step = <<>> /\ step' = <<>> /\ update.kind = "update"
      /\ op \in Running => IsRemote(operations[op])
      /\ forwarding' = [forwarding EXCEPT ![h] = NoUpdate]
      /\ UNCHANGED <<accepted, primitives, activePrimitives, loop, shutdown, closed>>
  BY DEF ReceiveJobUpdate, Ready
<1>2. /\ forwarding \in [Handler -> ForwardType] /\ asked \subseteq accepted
      /\ Running \subseteq accepted
  BY DEF IInv, TypeInv, LocalTypeOK
<1>3. forwarding' \in [Handler -> ForwardType]
  BY <1>1, <1>2 DEF ForwardType
<1>4. update.status \in OpStatus
  <2>1. update \in ForwardType
    BY <1>2
  <2> QED
    BY <1>1, <2>1 DEF ForwardType, NoUpdate, Closing, Gone
<1>5. StepInv' /\ Starting = {} /\ Starting' = {}
  BY <1>1 DEF StepInv, Starting
<1>6. CASE op \notin Running
  <2>1. UNCHANGED <<operations, ctxErr, pendingUpdates, asked>>
    BY <1>6 DEF ReceiveJobUpdate
  <2>2. TypeInv'
    BY <1>1, <1>3, <2>1 DEF IInv, TypeInv, LocalTypeOK, ClientTypeOK, clientVars, Running
  <2> QED
    BY <1>1, <2>1, <2>2, QuietKeeps DEF clientVars
<1>7. ASSUME op \in Running, NEW b \in ActorType, Well(b), IsRemote(b),
             b.status \in Finished \/ b.phase = operations[op].phase,
             Before(operations[op].status, b.status), MovesSaved(op, b), asked' \subseteq accepted
      PROVE  IInv'
  <2>1. /\ \A other \in Running' : other \in Running /\ operations'[other].phase = operations[other].phase
                                   /\ (IsRemote(operations'[other]) => IsRemote(operations[other]))
    <3>1. UNCHANGED <<accepted, stored>>
      BY <1>1 DEF clientVars
    <3>2. Moved(op, b)
      BY <1>7, <3>1, SavedMove DEF IInv
    <3> QED
      BY <1>1, <1>7, <3>2 DEF Moved, Finished, Unfinished
  <2>2. JobsInv'
    BY <1>1, <2>1 DEF IInv, JobsInv
  <2> QED
    BY <1>1, <1>3, <1>5, <1>7, <2>2, JobMoves
<1>8. CASE op \in Running /\ ~IsValid(h, update)
  <2>1. Fail(op, operations[op], "remote") /\ asked' = asked \cup {op}
    BY <1>8 DEF ReceiveJobUpdate
  <2>2. PICK b : b = FailWith(operations[op], "remote").actor
    OBVIOUS
  <2>3. /\ b \in ActorType /\ Well(b) /\ IsRemote(b) /\ b.status = "failed"
        /\ Before(operations[op].status, b.status) /\ MovesSaved(op, b)
    BY <1>1, <1>8, <2>1, <2>2, FailedJob
  <2> QED
    BY <1>2, <1>7, <1>8, <2>1, <2>3 DEF Finished
<1>9. CASE op \in Running /\ IsValid(h, update)
  <2> DEFINE a == operations[op]
             b == [a EXCEPT !.status = update.status]
  <2>1. MovesSaved(op, b) /\ asked' = asked
    BY <1>9 DEF ReceiveJobUpdate, MovesSaved
  <2>2. a \in ActorType /\ Well(a) /\ IsRemote(a) /\ a.status \in Unfinished
    BY <1>1, <1>9 DEF IInv, TypeInv, LocalTypeOK, CheckpointsInv, ActorsInv
  <2>3. /\ b \in ActorType /\ b.type = a.type /\ b.phase = a.phase /\ b.status = update.status
        /\ b.error = a.error /\ b.content = a.content /\ b.processing = a.processing
    BY <1>4, <2>2 DEF ActorType
  <2>4. Before(a.status, update.status)
    BY <1>4, <1>9, <2>2 DEF IsValid, ValidTransition, Before, Unfinished, Finished, OpStatus
  <2> HIDE DEF b
  <2>5. Well(b) /\ IsRemote(b)
    BY <2>2, <2>3 DEF Well, IsRemote
  <2> QED
    BY <1>2, <1>7, <1>9, <2>1, <2>3, <2>4, <2>5
<1> QED
  BY <1>6, <1>8, <1>9

LEMMA ClosedKeeps ==
    ASSUME IInv, NEW h \in Handler, ReceiveClosed(h), UNCHANGED clientVars
    PROVE  IInv'
<1>1. /\ loop = "run" /\ step = <<>> /\ closed' = closed \cup {h}
      /\ forwarding' = [forwarding EXCEPT ![h] = Gone]
      /\ step' = IF JobsOf(h) = {} THEN <<>> ELSE <<"fail", h>>
      /\ UNCHANGED <<accepted, operations, ctxErr, pendingUpdates, primitives, activePrimitives,
                     loop, shutdown, asked, stored, starts, unrecorded, crashes>>
  BY DEF ReceiveClosed, Ready, clientVars
<1>2. Running' = Running /\ Starting = {} /\ Starting' = {} /\ JobsOf(h)' = JobsOf(h)
  BY <1>1 DEF Running, Starting, JobsOf
<1>3. TypeInv'
  <2>1. forwarding' \in [Handler -> ForwardType] /\ closed' \subseteq Handler
    BY <1>1 DEF IInv, TypeInv, LocalTypeOK, ForwardType
  <2> QED
    BY <1>1, <1>2, <2>1 DEF IInv, TypeInv, LocalTypeOK, ClientTypeOK
<1>4. CheckpointsInv'
  BY <1>1, <1>2 DEF IInv, CheckpointsInv, ActorsInv, OrderInv, CurrentInv, IsLast, IsCurrent
<1>5. StepInv'
  BY <1>1, <1>2 DEF StepInv
<1>6. PrimitivesInv'
  BY <1>1, <1>2 DEF IInv, PrimitivesInv, Fits
<1>7. JobsInv'
  <2> SUFFICES ASSUME NEW op \in Running, IsRemote(operations[op]),
                      operations[op].phase \in closed'
               PROVE  step' = <<"fail", operations[op].phase>>
    BY <1>1, <1>2 DEF JobsInv
  <2>1. operations[op].phase \notin closed
    BY <1>1 DEF IInv, JobsInv
  <2>2. operations[op].phase = h /\ op \in JobsOf(h)
    BY <1>1, <2>1 DEF JobsOf
  <2> QED
    BY <1>1, <2>2
<1>8. StartsInv'
  BY <1>1, <1>2 DEF IInv, StartsInv, StartIsStored
<1> QED
  BY <1>3, <1>4, <1>5, <1>6, <1>7, <1>8 DEF IInv

LEMMA InitInv == Init => IInv
<1> SUFFICES ASSUME Init PROVE IInv
  OBVIOUS
<1>1. /\ accepted = {} /\ operations = <<>> /\ ctxErr = {} /\ pendingUpdates = <<>>
      /\ primitives = {} /\ activePrimitives = 0 /\ step = <<>> /\ loop = "run"
      /\ shutdown = FALSE /\ closed = {} /\ forwarding = [h \in Handler |-> NoUpdate]
      /\ asked = {} /\ stored \in [Op -> Submitted] /\ starts = [op \in Op |-> 0]
      /\ unrecorded = {} /\ crashes = 0
  BY DEF Init, LocalManagerInit
<1>2. Running = {} /\ DOMAIN pendingUpdates = {} /\ pendingUpdates \in Seq(CheckpointType)
      /\ operations \in [{} -> ActorType]
  BY <1>1 DEF Running
<1>3. \A a \in Submitted : a \in ActorType /\ Well(a) /\ Checkpointed(a) = a
  <2>1. ASSUME NEW a \in ActorType, a.status = "ready", a.phase = "" \/ IsRemote(a),
               a.error = "none", a.content = 0, a.readSize = 0, ~a.processing
        PROVE  Well(a) /\ Checkpointed(a) = a
    <3>1. a.content <= FileSize
      <4>1. 0 <= FileSize
        BY FileSizeAssumption
      <4>2. a.content = 0
        BY <2>1
      <4> QED
        BY <4>1, <4>2, Zenon
    <3>2. Well(a)
      BY <2>1, <3>1 DEF Well, IsRemote, ReadPhases
    <3> QED
      BY <2>1, <3>2 DEF Checkpointed, ActorType
  <2>2. ASSUME NEW type \in LocalType
        PROVE  LET a == Actor(type, "ready")
               IN  /\ a \in ActorType /\ a.status = "ready" /\ a.phase = "" /\ a.error = "none"
                   /\ a.content = 0 /\ a.readSize = 0 /\ ~a.processing
    BY DEF Actor, ActorType, OpStatus, Unfinished, Phase, ErrorKind
  <2>3. ASSUME NEW h \in Handler
        PROVE  LET a == RemoteJob(h, "ready")
               IN  /\ a \in ActorType /\ a.status = "ready" /\ IsRemote(a) /\ a.error = "none"
                   /\ a.content = 0 /\ a.readSize = 0 /\ ~a.processing
    BY DEF RemoteJob, Actor, ActorType, IsRemote, OpStatus, Unfinished, Phase, ErrorKind
  <2>4. ASSUME NEW type \in LocalType, NEW a, a = Actor(type, "ready")
        PROVE  a \in ActorType /\ Well(a) /\ Checkpointed(a) = a
    <3>1. /\ a \in ActorType /\ a.status = "ready" /\ a.phase = "" /\ a.error = "none"
          /\ a.content = 0 /\ a.readSize = 0 /\ ~a.processing
      BY <2>2, <2>4
    <3> QED
      BY <2>1, <3>1
  <2>5. ASSUME NEW h \in Handler, NEW a, a = RemoteJob(h, "ready")
        PROVE  a \in ActorType /\ Well(a) /\ Checkpointed(a) = a
    <3>1. /\ a \in ActorType /\ a.status = "ready" /\ IsRemote(a) /\ a.error = "none"
          /\ a.content = 0 /\ a.readSize = 0 /\ ~a.processing
      BY <2>3, <2>5
    <3> QED
      BY <2>1, <3>1
  <2>6. ASSUME NEW a \in Submitted
        PROVE  \/ \E type \in LocalType : a = Actor(type, "ready")
               \/ \E h \in Handler : a = RemoteJob(h, "ready")
    <3>1. Types \ {"remote_job"} \subseteq LocalType
      BY DurableAssumption
    <3> QED
      BY <3>1 DEF Submitted
  <2> QED
    BY <2>4, <2>5, <2>6
<1>4. TypeInv
  <2>1. ClientTypeOK
    BY <1>1, <1>3 DEF ClientTypeOK
  <2>2. forwarding \in [Handler -> ForwardType]
    BY <1>1 DEF ForwardType
  <2>3. operations \in [Running -> ActorType] /\ Running \subseteq accepted
    BY <1>1, <1>2
  <2>4. /\ accepted \subseteq Op /\ ctxErr \subseteq accepted /\ asked \subseteq accepted
        /\ primitives \subseteq PrimitiveType /\ closed \subseteq Handler
    BY <1>1
  <2>5. LocalTypeOK
    <3>1. activePrimitives \in Int
      BY <1>1
    <3>2. loop \in {"run", "drain", "stopped", "panicked"} /\ shutdown \in BOOLEAN
      BY <1>1
    <3> QED
      BY <1>2, <2>2, <2>3, <2>4, <3>1, <3>2 DEF LocalTypeOK
  <2> QED
    BY <2>1, <2>5 DEF TypeInv
<1>5. CheckpointsInv
  BY <1>1, <1>2, <1>3 DEF CheckpointsInv, ActorsInv, OrderInv, CurrentInv
<1>6. StepInv /\ JobsInv
  BY <1>1, <1>2 DEF StepInv, JobsInv
<1>7. PrimitivesInv
  BY <1>1, <1>2, FS_EmptySet DEF PrimitivesInv
<1>8. StartsInv
  BY <1>1, <1>2 DEF StartsInv
<1> QED
  BY <1>4, <1>5, <1>6, <1>7, <1>8 DEF IInv

LEMMA NextKeeps == IInv /\ [Next]_vars => IInv'
<1> SUFFICES ASSUME IInv, [Next]_vars PROVE IInv'
  OBVIOUS
<1>1. CASE UNCHANGED vars
  BY <1>1, QuietKeeps DEF vars, localVars, managerVars, primitiveVars, handlerVars, clientVars,
                          IInv, TypeInv, LocalTypeOK, ClientTypeOK, Running
<1>2. ASSUME NEW op \in Op, AddStored(op) PROVE IInv'
  BY <1>2, AddKeeps
<1>3. CASE StoreCheckpoint
  BY <1>3, StoreKeeps
<1>4. ASSUME NEW p \in primitives, RunProcess(p) PROVE IInv'
  BY <1>4, ProcessKeeps
<1>5. CASE Crash
  BY <1>5, CrashKeeps
<1>6. CASE ManagerStep /\ UNCHANGED clientVars
  BY <1>6, StartKeeps, FailJobKeeps, EndSteps DEF ManagerStep
<1>7. CASE (Shutdown \/ \E op \in Op : CancelOperation(op)) /\ UNCHANGED clientVars
  BY <1>7, QuietSteps
<1>8. ASSUME NEW p \in primitives, PrimitiveStep(p), UNCHANGED clientVars PROVE IInv'
  BY <1>8, ProcessKeeps, ReceiveKeeps, DrainKeeps DEF PrimitiveStep
<1>9. ASSUME NEW h \in Handler, JobStep(h), UNCHANGED clientVars PROVE IInv'
  <2>1. CASE \/ \E op \in Op : HandlerCancels(h, op)
             \/ \E op \in Op, status \in OpStatus, same \in BOOLEAN : HandlerSends(h, op, status, same)
             \/ HandlerCloses(h) \/ ForwarderStops(h)
    BY <1>9, <2>1, QuietSteps
  <2>2. CASE ReceiveMisdirected(h)
    BY <1>9, <2>2, EndSteps
  <2> QED
    BY <1>9, <2>1, <2>2, JobUpdateKeeps, ClosedKeeps DEF JobStep
<1> QED
  BY <1>1, <1>2, <1>3, <1>4, <1>5, <1>6, <1>7, <1>8, <1>9 DEF Next

LEMMA Invariant == Spec => []IInv
BY InitInv, NextKeeps, PTL DEF Spec


-----------------------------------------------------------------------------
(* The properties.                                                         *)

LEMMA LastIsCurrent == TypeInv /\ CurrentInv => CheckpointsAreCurrent
<1> SUFFICES ASSUME TypeInv, CurrentInv, NEW op \in accepted
             PROVE  IsCurrent(op, LastCheckpoint(op))
  BY DEF CheckpointsAreCurrent, IsCurrent
<1> DEFINE made == {i \in DOMAIN pendingUpdates : pendingUpdates[i].op = op}
<1>1. CASE \A i \in DOMAIN pendingUpdates : pendingUpdates[i].op # op
  <2>1. made = {}
    BY <1>1
  <2> QED
    BY <1>1, <2>1 DEF CurrentInv, LastCheckpoint
<1>2. ASSUME NEW i \in DOMAIN pendingUpdates, pendingUpdates[i].op = op, IsLast(i),
             IsCurrent(op, pendingUpdates[i].actor)
      PROVE  IsCurrent(op, LastCheckpoint(op))
  <2>1. DOMAIN pendingUpdates \subseteq Int
    BY DEF TypeInv, LocalTypeOK
  <2>2. i \in made /\ \A j \in made : j <= i
    BY <1>2 DEF IsLast
  <2>3. \A k \in made : (\A j \in made : j <= k) => k = i
    BY <2>1, <2>2
  <2> HIDE DEF made
  <2>4. (CHOOSE k \in made : \A j \in made : j <= k) = i
    BY <2>2, <2>3
  <2>5. LastCheckpoint(op) = pendingUpdates[i].actor
    BY <2>2, <2>4 DEF LastCheckpoint, made
  <2> QED
    BY <1>2, <2>5
<1> QED
  BY <1>1, <1>2 DEF CurrentInv

\* Operations go on where they were: the store never gets the checkpoint of an
\* operation that lost track of its primitive, the last checkpoint on its way is the
\* current one, and a command runs again only after a crash that came before the
\* checkpoint of its start was stored.
THEOREM GoingOn == Spec => []OperationsGoOn
<1>1. IInv => OperationsGoOn
  <2> SUFFICES ASSUME IInv PROVE OperationsGoOn
    OBVIOUS
  <2>1. EventsAreExpected
    BY DEF EventsAreExpected, IInv, CheckpointsInv, ActorsInv, Well
  <2>2. CheckpointsAreCurrent
    BY LastIsCurrent DEF IInv, CheckpointsInv
  <2>3. \A op \in Op : starts[op] <= 1 \/ op \in unrecorded
    BY DEF IInv, StartsInv
  <2> QED
    BY <2>1, <2>2, <2>3 DEF OperationsGoOn
<1> QED
  BY <1>1, Invariant, PTL

\* No operation waits for nobody: a local one has one primitive, the one its phase
\* awaits, a job has a handler that has not stopped or is about to be failed, and the
\* drain waits for the primitives that have not ended.
THEOREM NobodyIsStranded == Spec => []NothingIsStranded
<1>1. IInv => NothingIsStranded
  <2> SUFFICES ASSUME IInv PROVE NothingIsStranded
    OBVIOUS
  <2>1. /\ activePrimitives = Cardinality(primitives)
        /\ loop = "stopped" => primitives = {}
    BY DEF IInv, PrimitivesInv
  <2>2. ASSUME loop = "run", NEW op \in Running \ Starting, IsRemote(operations[op])
        PROVE  operations[op].phase \in closed => step = <<"fail", operations[op].phase>>
    BY <2>2 DEF IInv, JobsInv
  <2>3. ASSUME loop = "run", NEW op \in Running \ Starting, ~IsRemote(operations[op])
        PROVE  \E p \in primitives :
                  /\ {q \in primitives : q.op = op} = {p}
                  /\ p.correlation = Awaited(operations[op])
    <3>1. PICK p \in primitives : p.op = op
      BY <2>3 DEF IInv, PrimitivesInv
    <3>2. \A q \in primitives : q.op = op => q = p
      BY <3>1 DEF IInv, PrimitivesInv
    <3>3. p.correlation = Awaited(operations[op])
      BY <3>1 DEF IInv, PrimitivesInv, Fits
    <3> QED
      BY <3>1, <3>2, <3>3
  <2> QED
    BY <2>1, <2>2, <2>3 DEF NothingIsStranded
<1> QED
  BY <1>1, Invariant, PTL

\* The stored status of an operation never goes back: the checkpoint received next of
\* an operation may follow the stored one.
THEOREM StoredGoesOn == Spec => StoredNeverGoesBack
<1> DEFINE Forward ==
      \A op \in Op :
          LET old == stored[op].status
              new == stored'[op].status
          IN  /\ old \in Finished => stored'[op] = stored[op]
              /\ old = "canceling" => new \in {"canceling"} \cup Finished
              /\ old = "awaiting" => new # "ready"
<1>1. ASSUME IInv, [Next]_vars PROVE [Forward]_stored
  <2>1. CASE stored' = stored
    BY <2>1
  <2>2. CASE StoreCheckpoint
    <3>1. PICK update \in {pendingUpdates[i] : i \in DOMAIN pendingUpdates} :
            stored' = [stored EXCEPT ![update.op] = update.actor]
      BY <2>2 DEF StoreCheckpoint
    <3>2. Before(stored[update.op].status, update.actor.status)
      BY <1>1, <3>1 DEF IInv, CheckpointsInv, OrderInv
    <3>3. stored \in [Op -> ActorType]
      BY <1>1 DEF IInv, TypeInv, ClientTypeOK
    <3> SUFFICES ASSUME NEW op \in Op
                 PROVE  /\ stored[op].status \in Finished => stored'[op] = stored[op]
                        /\ stored[op].status = "canceling" =>
                              stored'[op].status \in {"canceling"} \cup Finished
                        /\ stored[op].status = "awaiting" => stored'[op].status # "ready"
      OBVIOUS
    <3>4. CASE op = update.op
      <4>1. stored'[op] = update.actor
        BY <3>1, <3>3, <3>4
      <4> QED
        BY <3>2, <3>4, <4>1 DEF Before, Finished, Unfinished
    <3>5. CASE op # update.op
      <4>1. stored'[op] = stored[op]
        BY <3>1, <3>3, <3>5
      <4> QED
        BY <4>1 DEF Finished
    <3> QED
      BY <3>4, <3>5
  <2>3. stored' = stored \/ StoreCheckpoint
    BY <1>1 DEF Next, vars, clientVars, AddStored, RunProcess, Crash
  <2> QED
    BY <2>1, <2>2, <2>3
<1> QED
  BY <1>1, Invariant, PTL DEF Spec, StoredNeverGoesBack


-----------------------------------------------------------------------------
(* What the coordinator is promised.                                       *)

\* What the coordinator sees of a checkpoint, and of the queue of them.
AsUpdate(c) == [op |-> c.op, status |-> c.actor.status]

AsUpdates(s) == [i \in DOMAIN s |-> [op |-> s[i].op, status |-> s[i].actor.status]]

LEMMA PromiseTypes ==
    /\ Promise!Op = Op /\ Promise!OpStatus = OpStatus
    /\ \A c \in CheckpointType : AsUpdate(c) \in Promise!Update
<1>1. Promise!Op = Op
  BY DEF Op, Key, Turn, Promise!Op, Promise!Key, Promise!Turn
<1>2. Promise!OpStatus = OpStatus
  BY DEF OpStatus, Unfinished, Finished, Promise!OpStatus, Promise!Unfinished, Promise!Finished
<1> QED
  BY <1>1, <1>2 DEF CheckpointType, ActorType, AsUpdate, Promise!Update

LEMMA UpdateTypes ==
    ASSUME NEW s \in Seq(CheckpointType)
    PROVE  /\ AsUpdates(s) \in Seq(Promise!Update) /\ Len(AsUpdates(s)) = Len(s)
           /\ \A i \in 1 .. Len(s) : AsUpdates(s)[i] = AsUpdate(s[i])
<1>1. \A i \in 1 .. Len(s) : s[i] \in CheckpointType
  OBVIOUS
<1>2. \A c \in CheckpointType : AsUpdate(c) \in Promise!Update
  BY PromiseTypes
<1>3. AsUpdates(s) = [i \in 1 .. Len(s) |-> AsUpdate(s[i])] /\ Len(s) \in Nat
  BY DEF AsUpdates, AsUpdate
<1>4. AsUpdates(s) \in [1 .. Len(s) -> Promise!Update]
  BY <1>1, <1>2, <1>3
<1> QED
  BY <1>3, <1>4, SeqDef

LEMMA UpdatesAppended ==
    ASSUME NEW s \in Seq(CheckpointType), NEW c \in CheckpointType
    PROVE  AsUpdates(Append(s, c)) = Append(AsUpdates(s), AsUpdate(c))
<1> DEFINE t == AsUpdates(Append(s, c))
           u == Append(AsUpdates(s), AsUpdate(c))
<1>1. /\ Append(s, c) \in Seq(CheckpointType) /\ Len(Append(s, c)) = Len(s) + 1 /\ Len(s) \in Nat
      /\ \A i \in 1 .. Len(s) : Append(s, c)[i] = s[i]
      /\ Append(s, c)[Len(s) + 1] = c
  BY AppendProperties, LenProperties
<1>2. /\ AsUpdates(s) \in Seq(Promise!Update) /\ Len(AsUpdates(s)) = Len(s)
      /\ \A i \in 1 .. Len(s) : AsUpdates(s)[i] = AsUpdate(s[i])
  BY UpdateTypes
<1>3. /\ t \in Seq(Promise!Update) /\ Len(t) = Len(s) + 1
      /\ \A i \in 1 .. Len(s) + 1 : t[i] = AsUpdate(Append(s, c)[i])
  BY <1>1, UpdateTypes
<1>4. AsUpdate(c) \in Promise!Update
  BY PromiseTypes
<1>5. /\ u \in Seq(Promise!Update) /\ Len(u) = Len(s) + 1
      /\ \A i \in 1 .. Len(s) : u[i] = AsUpdate(s[i])
      /\ u[Len(s) + 1] = AsUpdate(c)
  BY <1>2, <1>4, AppendProperties
<1>6. \A i \in 1 .. Len(s) + 1 : t[i] = u[i]
  BY <1>1, <1>3, <1>5
<1> HIDE DEF t, u
<1>7. t = u
  BY <1>3, <1>5, <1>6, SeqEqual
<1> QED
  BY <1>7 DEF t, u

LEMMA UpdatesReceived ==
    ASSUME NEW s \in Seq(CheckpointType), s # <<>>
    PROVE  /\ AsUpdates(s) # <<>> /\ Head(AsUpdates(s)) = AsUpdate(Head(s))
           /\ AsUpdates(Tail(s)) = Tail(AsUpdates(s))
           /\ AsUpdate(Head(s)) \in Promise!Update
<1> DEFINE t == AsUpdates(Tail(s))
           u == Tail(AsUpdates(s))
<1>1. /\ Tail(s) \in Seq(CheckpointType) /\ Len(Tail(s)) = Len(s) - 1 /\ Len(s) \in Nat \ {0}
      /\ Head(s) = s[1]
      /\ \A i \in 1 .. (Len(s) - 1) : Tail(s)[i] = s[i + 1]
  BY ReceivedUpdate, HeadTailProperties
<1>2. /\ AsUpdates(s) \in Seq(Promise!Update) /\ Len(AsUpdates(s)) = Len(s)
      /\ \A i \in 1 .. Len(s) : AsUpdates(s)[i] = AsUpdate(s[i])
  BY UpdateTypes
<1>3. AsUpdates(s) # <<>>
  BY <1>1, <1>2, EmptySeq
<1>4. Head(AsUpdates(s)) = AsUpdate(Head(s)) /\ AsUpdate(Head(s)) \in Promise!Update
  BY <1>1, <1>2, <1>3, HeadTailProperties
<1>5. /\ t \in Seq(Promise!Update) /\ Len(t) = Len(s) - 1
      /\ \A i \in 1 .. (Len(s) - 1) : t[i] = AsUpdate(s[i + 1])
  <2>1. /\ t \in Seq(Promise!Update) /\ Len(t) = Len(Tail(s))
        /\ \A i \in 1 .. Len(Tail(s)) : t[i] = AsUpdate(Tail(s)[i])
    BY <1>1, UpdateTypes
  <2> HIDE DEF t
  <2> QED
    BY <1>1, <2>1
<1>6. /\ u \in Seq(Promise!Update) /\ Len(u) = Len(s) - 1
      /\ \A i \in 1 .. (Len(s) - 1) : u[i] = AsUpdates(s)[i + 1]
  BY <1>1, <1>2, <1>3, ReceivedUpdate, HeadTailProperties
<1>7. \A i \in 1 .. (Len(s) - 1) : t[i] = u[i]
  <2> SUFFICES ASSUME NEW i \in 1 .. (Len(s) - 1) PROVE t[i] = u[i]
    OBVIOUS
  <2>1. i + 1 \in 1 .. Len(s)
    BY <1>1
  <2> HIDE DEF t, u
  <2> QED
    BY <1>2, <1>5, <1>6, <2>1
<1> HIDE DEF t, u
<1>8. t = u
  BY <1>1, <1>5, <1>6, <1>7, SeqEqual
<1> QED
  BY <1>3, <1>4, <1>8 DEF t, u


\* The variables of the promise, as DurableOperations maps them.
Canceled == Running \cap (ctxErr \cup asked)

LEMMA Mapped ==
    /\ Promise!managerVars =
          <<accepted, Running, {}, Canceled, AsUpdates(pendingUpdates)>>
    /\ Promise!managerVars' =
          <<accepted', Running', {}, Canceled', AsUpdates(pendingUpdates')>>
BY DEF Promise!managerVars, Canceled, AsUpdates, AsUpdate

\* A step that the coordinator does not notice.
LEMMA Unnoticed ==
    ASSUME UNCHANGED <<accepted, Running, ctxErr, asked, pendingUpdates>>
    PROVE  UNCHANGED Promise!managerVars
BY Mapped DEF Canceled

\* An operation makes a checkpoint, or ends.
LEMMA MoveIsReport ==
    ASSUME TypeInv, NEW op \in Running, NEW b \in ActorType, MovesSaved(op, b),
           UNCHANGED accepted,
           asked' = asked \/ (b.status \in Finished /\ asked' = asked \cup {op})
    PROVE  Promise!Checkpoint(op, b.status) \/ Promise!Finish(op, b.status)
<1>1. /\ pendingUpdates \in Seq(CheckpointType) /\ op \in Op
      /\ operations \in [Running -> ActorType]
  BY DEF TypeInv, LocalTypeOK
<1> DEFINE c == [op |-> op, actor |-> Checkpointed(b)]
<1>2. c \in CheckpointType /\ AsUpdate(c) = [op |-> op, status |-> b.status]
  BY <1>1 DEF CheckpointType, Checkpointed, ActorType, AsUpdate
<1>3. pendingUpdates' = Append(pendingUpdates, c)
  BY DEF MovesSaved, AppendUpdate
<1> HIDE DEF c
<1>4. AsUpdates(pendingUpdates') =
          Append(AsUpdates(pendingUpdates), [op |-> op, status |-> b.status])
  BY <1>1, <1>2, <1>3, UpdatesAppended
<1>5. CASE b.status \in Finished
  <2>1. Running' = Running \ {op} /\ ctxErr' = ctxErr \cup {op}
    BY <1>5 DEF MovesSaved, Forget, Running
  <2>2. Canceled' = Canceled \ {op}
    BY <2>1 DEF Canceled
  <2> QED
    BY <1>4, <1>5, <2>1, <2>2 DEF Promise!Finish, Canceled, AsUpdates
<1>6. CASE b.status \notin Finished
  <2>1. Running' = Running /\ ctxErr' = ctxErr /\ asked' = asked
    BY <1>1, <1>6 DEF MovesSaved, Running
  <2>2. b.status \in Unfinished
    BY <1>6 DEF ActorType, OpStatus
  <2> QED
    BY <1>4, <2>1, <2>2 DEF Promise!Checkpoint, AsUpdates
<1> QED
  BY <1>5, <1>6

LEMMA ReportIsKept ==
    ASSUME NEW op \in Op, NEW status \in OpStatus,
           Promise!Checkpoint(op, status) \/ Promise!Finish(op, status)
    PROVE  Promise!ManagerNext
BY PromiseTypes DEF Promise!ManagerNext


LEMMA AcceptedIsPromised ==
    ASSUME IInv, NEW op \in Running, NEW r, Sound(operations[op], r),
           NEW left, NEW ended, Accept(op, r, left, ended), UNCHANGED <<accepted, asked>>
    PROVE  [Promise!ManagerNext]_Promise!managerVars
<1>1. CASE r.saves
  <2>1. MovesSaved(op, r.actor)
    BY <1>1 DEF Accept, MovesSaved
  <2>2. r.actor \in ActorType /\ r.actor.status \in OpStatus /\ op \in Op
    BY DEF Sound, ActorType, IInv, TypeInv, LocalTypeOK
  <2>3. Promise!Checkpoint(op, r.actor.status) \/ Promise!Finish(op, r.actor.status)
    BY <2>1, <2>2, MoveIsReport DEF IInv
  <2> QED
    BY <2>2, <2>3, ReportIsKept
<1>2. CASE ~r.saves
  <2>1. MovesUnsaved(op, r.actor)
    BY <1>2 DEF Accept, MovesUnsaved
  <2>2. Running' = Running /\ UNCHANGED <<ctxErr, pendingUpdates>>
    BY <2>1 DEF MovesUnsaved, Running, IInv, TypeInv, LocalTypeOK
  <2> QED
    BY <2>2, Unnoticed
<1> QED
  BY <1>1, <1>2

LEMMA StartIsPromised ==
    ASSUME IInv, StartOperation
    PROVE  [Promise!ManagerNext]_Promise!managerVars
<1>1. PICK op \in Running :
        /\ step = <<"start", op>>
        /\ ~IsRemote(operations[op]) /\ Start(operations[op]).ok
        /\ Checkpointed(operations[op]) = operations[op]
  BY DEF IInv, StepInv, StartOperation
<1>2. /\ Accept(op, Start(operations[op]), primitives, 0)
      /\ UNCHANGED <<accepted, asked>>
  BY <1>1 DEF StartOperation, handlerVars
<1>3. /\ operations[op] \in ActorType /\ Well(operations[op])
      /\ operations[op].status \in Unfinished
  BY DEF IInv, TypeInv, LocalTypeOK, CheckpointsInv, ActorsInv
<1>4. Sound(operations[op], Start(operations[op]))
  BY <1>1, <1>3, StartIsSound
<1> QED
  BY <1>2, <1>4, AcceptedIsPromised

LEMMA EventIsPromised ==
    ASSUME IInv, NEW p \in primitives, ReceiveEvent(p)
    PROVE  [Promise!ManagerNext]_Promise!managerVars
<1> DEFINE op == p.op
<1>1. PICK event \in Events(p) : Receive(p, event)
  BY DEF ReceiveEvent
<1>2. loop = "run" /\ step = <<>> /\ UNCHANGED <<accepted, asked>>
  BY DEF ReceiveEvent, Ready, handlerVars
<1>3. CASE op \notin Running
  <2>1. UNCHANGED <<operations, ctxErr, pendingUpdates>>
    BY <1>1, <1>3 DEF Receive
  <2> QED
    BY <1>2, <2>1, Unnoticed DEF Running
<1>4. CASE op \in Running
  <2> DEFINE a == operations[op]
             r == Advance(a, Seen(op, event))
  <2>1. /\ a \in ActorType /\ Well(a) /\ IsAwaited(p, a) /\ ~IsRemote(a) /\ p \in PrimitiveType
    BY <1>2, <1>4 DEF IInv, TypeInv, LocalTypeOK, CheckpointsInv, ActorsInv, PrimitivesInv,
                      Fits, IsAwaited
  <2>2. Sound(a, r) /\ r.ok
    <3>1. AdvancesBy(p, a, event, r)
      BY <2>1, AdvanceIsSound
    <3> QED
      BY <3>1 DEF AdvancesBy, Sound
  <2>3. PICK ended : Accept(op, r, LeftAfter(p, event), ended)
    BY <1>1, <1>4, <2>2 DEF Receive
  <2> HIDE DEF r
  <2> QED
    BY <1>2, <1>4, <2>2, <2>3, AcceptedIsPromised
<1> QED
  BY <1>3, <1>4

LEMMA FailIsPromised ==
    ASSUME IInv, NEW op \in Running, IsRemote(operations[op]), Fail(op, operations[op], "remote"),
           UNCHANGED accepted, asked' = asked \/ asked' = asked \cup {op}
    PROVE  Promise!ManagerNext
<1>1. PICK b : b = FailWith(operations[op], "remote").actor
  OBVIOUS
<1>2. b \in ActorType /\ b.status = "failed" /\ MovesSaved(op, b)
  BY <1>1, FailedJob
<1>3. b.status \in OpStatus /\ b.status \in Finished /\ op \in Op
  BY <1>2 DEF Finished, OpStatus, IInv, TypeInv, LocalTypeOK
<1>4. Promise!Checkpoint(op, b.status) \/ Promise!Finish(op, b.status)
  BY <1>2, <1>3, MoveIsReport DEF IInv
<1> QED
  BY <1>3, <1>4, ReportIsKept

LEMMA FailJobIsPromised ==
    ASSUME IInv, FailJob
    PROVE  [Promise!ManagerNext]_Promise!managerVars
<1>1. PICK op \in JobsOf(step[2]) : Fail(op, operations[op], "remote")
  BY DEF FailJob
<1>2. UNCHANGED <<accepted, asked>>
  BY DEF FailJob, handlerVars
<1> QED
  BY <1>1, <1>2, FailIsPromised DEF JobsOf

LEMMA JobUpdateIsPromised ==
    ASSUME IInv, NEW h \in Handler, ReceiveJobUpdate(h)
    PROVE  [Promise!ManagerNext]_Promise!managerVars
<1> DEFINE update == forwarding[h]
           op == update.op
<1>1. /\ update.kind = "update" /\ (op \in Running => IsRemote(operations[op]))
      /\ accepted' = accepted
  BY DEF ReceiveJobUpdate
<1>2. update.status \in OpStatus
  <2>1. update \in ForwardType
    BY DEF IInv, TypeInv, LocalTypeOK
  <2> QED
    BY <1>1, <2>1 DEF ForwardType, NoUpdate, Closing, Gone
<1>3. CASE op \notin Running
  <2>1. UNCHANGED <<operations, ctxErr, pendingUpdates, asked>>
    BY <1>3 DEF ReceiveJobUpdate
  <2> QED
    BY <1>1, <2>1, Unnoticed DEF Running
<1>4. CASE op \in Running /\ ~IsValid(h, update)
  <2>1. Fail(op, operations[op], "remote") /\ asked' = asked \cup {op}
    BY <1>4 DEF ReceiveJobUpdate
  <2> QED
    BY <1>1, <1>4, <2>1, FailIsPromised
<1>5. CASE op \in Running /\ IsValid(h, update)
  <2>1. PICK b : b = [operations[op] EXCEPT !.status = update.status]
    OBVIOUS
  <2>2. MovesSaved(op, b) /\ asked' = asked
    BY <1>5, <2>1 DEF ReceiveJobUpdate, MovesSaved
  <2>3. operations[op] \in ActorType /\ op \in Op
    BY <1>5 DEF IInv, TypeInv, LocalTypeOK
  <2>4. b \in ActorType /\ b.status \in OpStatus
    BY <1>2, <2>1, <2>3 DEF ActorType
  <2>5. PICK k : k = op
    OBVIOUS
  <2>6. Promise!Checkpoint(k, b.status) \/ Promise!Finish(k, b.status)
    BY <1>1, <1>5, <2>2, <2>4, <2>5, MoveIsReport DEF IInv
  <2> QED
    BY <2>3, <2>4, <2>5, <2>6, ReportIsKept
<1> QED
  BY <1>3, <1>4, <1>5

LEMMA AddIsPromised ==
    ASSUME IInv, NEW op \in Op, AddStored(op)
    PROVE  Promise!ManagerNext
<1>1. /\ op \notin accepted /\ accepted' = accepted \cup {op}
      /\ operations' = [other \in Running \cup {op} |->
                          IF other = op THEN stored[op] ELSE operations[other]]
      /\ UNCHANGED <<ctxErr, pendingUpdates, asked>>
  BY DEF AddStored, AddOperation, handlerVars
<1>2. ctxErr \subseteq accepted /\ asked \subseteq accepted
  BY DEF IInv, TypeInv, LocalTypeOK
<1>3. Running' = Running \cup ({op} \ accepted) /\ Canceled' = Canceled
  BY <1>1, <1>2 DEF Running, Canceled
<1>4. Promise!Add({op})
  BY <1>1, <1>3 DEF Promise!Add, Canceled
<1> QED
  BY <1>4, PromiseTypes DEF Promise!ManagerNext

LEMMA CancelIsPromised ==
    ASSUME IInv, StartDrain \/ \E op \in Op : CancelOperation(op)
    PROVE  Promise!ManagerNext
<1>1. ASSUME NEW S \in SUBSET Op, Canceled' = Canceled \cup (S \cap Running),
             UNCHANGED <<accepted, operations, pendingUpdates>>
      PROVE  Promise!ManagerNext
  <2>1. Promise!Cancel(S)
    BY <1>1 DEF Promise!Cancel, Canceled, Running
  <2> QED
    BY <2>1, PromiseTypes DEF Promise!ManagerNext
<1>2. CASE StartDrain
  <2>1. Running \in SUBSET Op
    BY DEF IInv, TypeInv, LocalTypeOK
  <2>2. /\ Canceled' = Canceled \cup (Running \cap Running)
        /\ UNCHANGED <<accepted, operations, pendingUpdates>>
    BY <1>2 DEF StartDrain, Canceled, Running, handlerVars
  <2> QED
    BY <1>1, <2>1, <2>2
<1>3. ASSUME NEW op \in Op, CancelOperation(op)
      PROVE  Promise!ManagerNext
  <2>1. /\ Canceled' = Canceled \cup ({op} \cap Running)
        /\ UNCHANGED <<accepted, operations, pendingUpdates>>
    BY <1>3 DEF CancelOperation, Canceled, Running
  <2> QED
    BY <1>1, <2>1
<1> QED
  BY <1>2, <1>3

LEMMA DeliveryIsPromised ==
    ASSUME IInv, StoreCheckpoint
    PROVE  Promise!ManagerNext
<1>1. /\ pendingUpdates \in Seq(CheckpointType) /\ pendingUpdates # <<>>
      /\ pendingUpdates' = Tail(pendingUpdates)
      /\ UNCHANGED <<accepted, operations, ctxErr, asked>>
  BY DEF StoreCheckpoint, ReceiveCheckpoint, handlerVars, IInv, TypeInv, LocalTypeOK
<1>2. PICK update : update = AsUpdate(Head(pendingUpdates))
  OBVIOUS
<1>3. /\ AsUpdates(pendingUpdates) # <<>> /\ update = Head(AsUpdates(pendingUpdates))
      /\ AsUpdates(pendingUpdates') = Tail(AsUpdates(pendingUpdates))
      /\ update \in Promise!Update
  BY <1>1, <1>2, UpdatesReceived
<1>4. Promise!DeliverUpdate(update)
  BY <1>1, <1>3 DEF Promise!DeliverUpdate, AsUpdates, Running
<1> QED
  BY <1>3, <1>4 DEF Promise!ManagerNext

LEMMA NewManagerIsPromised ==
    ASSUME Crash
    PROVE  Promise!ManagerNext
<1>1. accepted' = {} /\ operations' = <<>> /\ pendingUpdates' = <<>>
  BY DEF Crash, NewLocalManager
<1>2. Running' = {} /\ AsUpdates(pendingUpdates') = <<>>
  BY <1>1 DEF Running, AsUpdates
<1> QED
  BY <1>1, <1>2 DEF Promise!ManagerNext, Promise!NewManager, AsUpdates

LEMMA NextIsPromised == IInv /\ [Next]_vars => [Promise!ManagerNext]_Promise!managerVars
<1> SUFFICES ASSUME IInv, [Next]_vars PROVE [Promise!ManagerNext]_Promise!managerVars
  OBVIOUS
<1>1. CASE UNCHANGED vars
  BY <1>1, Unnoticed DEF vars, localVars, managerVars, handlerVars, Running
<1>2. CASE \E op \in Op : AddStored(op)
  BY <1>2, AddIsPromised
<1>3. CASE StoreCheckpoint
  BY <1>3, DeliveryIsPromised
<1>4. CASE \E p \in primitives : RunProcess(p)
  BY <1>4, Unnoticed DEF RunProcess, StartProcess, managerVars, handlerVars, Running
<1>5. CASE Crash
  BY <1>5, NewManagerIsPromised
<1>6. CASE ManagerStep
  <2>1. CASE Stop
    BY <2>1, Unnoticed DEF Stop, handlerVars, Running
  <2> QED
    BY <1>6, <2>1, StartIsPromised, FailJobIsPromised, CancelIsPromised DEF ManagerStep
<1>7. CASE Shutdown
  BY <1>7, Unnoticed DEF Shutdown, managerVars, handlerVars, Running
<1>8. CASE \E op \in Op : CancelOperation(op)
  BY <1>8, CancelIsPromised
<1>9. ASSUME NEW p \in primitives, PrimitiveStep(p)
      PROVE  [Promise!ManagerNext]_Promise!managerVars
  <2>1. CASE ExitProcess(p)
    BY <2>1, Unnoticed DEF ExitProcess, managerVars, handlerVars, Running
  <2>2. CASE DrainEvent(p)
    BY <2>2, Unnoticed DEF DrainEvent, handlerVars, Running
  <2> QED
    BY <1>9, <2>1, <2>2, EventIsPromised DEF PrimitiveStep
<1>10. ASSUME NEW h \in Handler, JobStep(h)
       PROVE  [Promise!ManagerNext]_Promise!managerVars
  <2>1. CASE ReceiveJobUpdate(h)
    BY <2>1, JobUpdateIsPromised
  <2>2. CASE ~ReceiveJobUpdate(h)
    BY <1>10, <2>2, Unnoticed
       DEF JobStep, HandlerCancels, HandlerSends, HandlerCloses, ForwarderStops,
           ReceiveMisdirected, ReceiveClosed, managerVars, handlerVars, Running
  <2> QED
    BY <2>1, <2>2
<1> QED
  BY <1>1, <1>2, <1>3, <1>4, <1>5, <1>6, <1>7, <1>8, <1>9, <1>10 DEF Next

LEMMA InitIsPromised == Init => Promise!ManagerInit
BY DEF Init, LocalManagerInit, Promise!ManagerInit, Running

\* The local operation manager keeps what the coordinator is promised of a manager:
\* every step of it, of its primitives, handlers and client is one the promise allows,
\* or one that the coordinator does not notice.
THEOREM PromiseKept == Spec => ImplementsManager
BY Invariant, NextIsPromised, InitIsPromised, PTL DEF Spec, ImplementsManager, Promise!ManagerSpec
=============================================================================
