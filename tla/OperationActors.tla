--------------------------- MODULE OperationActors ---------------------------
(***************************************************************************)
(* The operations a manager runs itself, as actors: from the checkpoint of *)
(* an operation and an event of the primitive it waits for, the next       *)
(* checkpoint and the next primitive.  Value, SkillUse, ViewImage and      *)
(* Shell.                                                                  *)
(*                                                                         *)
(* A file is a number of chunks; what the chunks hold is left out, their   *)
(* number is not, because a reader that loses count of them fails or       *)
(* returns half a file.                                                    *)
(***************************************************************************)
EXTENDS SessionTypes

CONSTANT FileSize   \* chunks of every file that is read

ASSUME FileSizeAssumption == FileSize \in Nat

\* The phases of a shell operation; "" before and after them.
CreatePhases == {"create_directory", "create_out", "create_err"}
ReadPhases == {"read_out", "read_out_tail", "read_err", "read_err_tail"}

LocalType == {"value", "skill_use", "view_image", "shell"}

\* The first fields are the operation's checkpoint: `group' and `exit' say that
\* ProcessGroupID and PendingExitCode are set, `content' counts the chunks of
\* SkillUseState.Content, `error' is the kind of terminal error.  The last two
\* live in memory only: the chunks of the current read, and ViewImage.processing.
Actor(type, status) ==
    [type |-> type, status |-> status, phase |-> "", group |-> FALSE, exit |-> FALSE,
     content |-> 0, error |-> "none", readSize |-> 0, processing |-> FALSE]

\* What a checkpoint keeps of an actor.
Checkpointed(a) == [a EXCEPT !.readSize = 0, !.processing = FALSE]

-----------------------------------------------------------------------------
(* Steps.                                                                  *)

\* operation.Step: the actor after the event, whether the step has a checkpoint
\* and the primitives to dispatch; or the error that Handle returned.
Step(a, saves, dispatches) ==
    [ok |-> TRUE, actor |-> a, saves |-> saves, dispatches |-> dispatches]

HandleError(a) == [ok |-> FALSE, actor |-> a, saves |-> FALSE, dispatches |-> {}]

\* A primitive to start: what it does, the correlation its events carry, and the
\* offset a read starts from.
Dispatch(kind, correlation, offset) ==
    [kind |-> kind, correlation |-> correlation, offset |-> offset]

Ended(a, status, error) ==
    Step([Checkpointed(a) EXCEPT !.phase = "", !.status = status, !.error = error], TRUE, {})

FailWith(a, error) == Ended(a, "failed", error)
CancelActor(a)     == Ended(a, "canceled", "canceled")
Complete(a)        == Ended([a EXCEPT !.exit = FALSE], "completed", "none")

Await(a, dispatches) == Step([a EXCEPT !.status = "awaiting"], TRUE, dispatches)

-----------------------------------------------------------------------------
(* Shell.                                                                  *)

\* dispatchPhase: the primitive of each phase.
DispatchPhase(a) ==
    CASE a.phase \in CreatePhases ->
            Await(a, {Dispatch("create", a.phase, 0)})
      [] a.phase = "process"    -> Await(a, {Dispatch("process", a.phase, 0)})
      [] a.phase \in ReadPhases -> Await(a, {Dispatch("read", a.phase, 0)})
      [] OTHER                  -> FailWith(a, "invalid")

NextPhase(a, phase) == DispatchPhase([a EXCEPT !.phase = phase])

\* Shell.resume: a process that may have run is not started again.
ResumeShell(a) ==
    IF a.phase = "process" THEN FailWith(a, "interrupted")
    ELSE DispatchPhase([a EXCEPT !.readSize = 0])

StartShell(a) ==
    CASE a.status = "ready"     -> NextPhase(a, "create_directory")
      [] a.status = "awaiting"  -> ResumeShell(a)
      [] a.status = "canceling" -> CancelActor(a)
      [] OTHER                  -> HandleError(a)

ShellCreated(a, event) ==
    IF event.type # "create_completed" THEN FailWith(a, "invalid")
    ELSE CASE a.phase = "create_directory" -> NextPhase(a, "create_out")
           [] a.phase = "create_out"       -> NextPhase(a, "create_err")
           [] OTHER                        -> NextPhase(a, "process")

ShellProcessEvent(a, event) ==
    CASE event.type = "process_started" -> Await([a EXCEPT !.group = TRUE], {})
      [] event.type = "process_exited"  ->
            NextPhase([a EXCEPT !.group = FALSE, !.exit = TRUE], "read_out")
      [] OTHER -> FailWith(a, "invalid")

FinishShell(a) == IF a.exit THEN Complete(a) ELSE FailWith(a, "invalid")

\* Mutant: the chunks of the last read are not forgotten.
MutShellReadCompleted(a, large) ==
    CASE a.phase = "read_out"          -> NextPhase(a, IF large THEN "read_out_tail" ELSE "read_err")
      [] a.phase = "read_out_tail"     -> NextPhase(a, "read_err")
      [] a.phase = "read_err" /\ large -> NextPhase(a, "read_err_tail")
      [] OTHER                         -> FinishShell(a)

\* readCompleted: a stream that is larger than the budget has its tail read too.
ShellReadCompleted(a, large) ==
    LET read == [a EXCEPT !.readSize = 0]
    IN  CASE a.phase = "read_out" ->
                NextPhase(read, IF large THEN "read_out_tail" ELSE "read_err")
          [] a.phase = "read_out_tail"     -> NextPhase(read, "read_err")
          [] a.phase = "read_err" /\ large -> NextPhase(read, "read_err_tail")
          [] OTHER                         -> FinishShell(read)

\* readEvent: the chunks have to follow each other and add up to the size.
ShellReadEvent(a, event) ==
    CASE event.type = "read_output" /\ event.offset = a.readSize ->
            Step([a EXCEPT !.readSize = @ + 1], FALSE, {})
      [] event.type = "read_completed" /\ a.readSize = FileSize ->
            ShellReadCompleted(a, event.large)
      [] OTHER -> FailWith(a, "invalid")

\* The end of handleAwaiting: the event is for the primitive of the phase.
ShellPhaseEvent(a, event) ==
    IF event.correlation # a.phase THEN FailWith(a, "invalid")
    ELSE CASE a.phase = "process"    -> ShellProcessEvent(a, event)
           [] a.phase \in ReadPhases -> ShellReadEvent(a, event)
           [] OTHER                  -> ShellCreated(a, event)

\* handleAwaiting; a ready or finished operation refuses events.
AdvanceShell(a, event) ==
    IF a.status # "awaiting" THEN HandleError(a)
    ELSE CASE event.type = "canceled" -> CancelActor(a)
           [] event.type = "failed"   -> FailWith(a, "primitive")
           [] OTHER                   -> ShellPhaseEvent(a, event)

-----------------------------------------------------------------------------
(* ViewImage.                                                              *)

StartImage(a) ==
    CASE a.status \in {"ready", "awaiting"} /\ ~a.processing ->
            Await([a EXCEPT !.readSize = 0], {Dispatch("read", "read", 0)})
      [] a.status = "canceling" -> CancelActor(a)
      [] OTHER                  -> HandleError(a)

\* process: decode and scale in a compute primitive, without a checkpoint.
ProcessImage(a) ==
    Step([a EXCEPT !.readSize = 0, !.processing = TRUE], FALSE,
         {Dispatch("compute", "compute", 0)})

\* A read that fails after its first chunk still inspects the header.
ImageFailure(a) ==
    IF a.processing \/ a.readSize = 0 THEN FailWith(a, "primitive") ELSE ProcessImage(a)

ImageReadEvent(a, event) ==
    CASE event.type = "read_output" /\ event.offset = a.readSize ->
            Step([a EXCEPT !.readSize = @ + 1], FALSE, {})
      [] event.type = "read_completed" /\ a.readSize = FileSize -> ProcessImage(a)
      [] OTHER -> HandleError(a)

\* processed: the computation returns an image, or one that has an error.
ImageProcessed(a, event) ==
    IF event.type # "compute_completed" THEN HandleError(a)
    ELSE IF event.good THEN Complete(a) ELSE FailWith(a, "primitive")

AdvanceImage(a, event) ==
    LET correlation == IF a.processing THEN "compute" ELSE "read"
    IN  IF a.status # "awaiting" \/ event.correlation # correlation THEN HandleError(a)
        ELSE CASE event.type = "canceled" -> CancelActor(a)
               [] event.type = "failed"   -> ImageFailure(a)
               [] OTHER -> IF a.processing THEN ImageProcessed(a, event)
                           ELSE ImageReadEvent(a, event)

-----------------------------------------------------------------------------
(* SkillUse and Value.                                                     *)

\* dispatchSkillUseRead goes on where the checkpoint's content ends.
StartSkillUse(a) ==
    CASE a.status \in {"ready", "awaiting"} -> Await(a, {Dispatch("read", "read", a.content)})
      [] a.status = "canceling"             -> CancelActor(a)
      [] OTHER                              -> HandleError(a)

SkillReadEvent(a, event) ==
    CASE event.type = "read_output" /\ event.offset = a.content ->
            Await([a EXCEPT !.content = @ + 1], {})
      [] event.type = "read_completed" /\ a.content = FileSize -> Complete(a)
      [] OTHER -> FailWith(a, "invalid")

AdvanceSkillUse(a, event) ==
    IF a.status # "awaiting" THEN HandleError(a)
    ELSE CASE event.type = "canceled" -> CancelActor(a)
           [] event.type = "failed"   -> FailWith(a, "primitive")
           [] OTHER -> IF event.correlation = "read" THEN SkillReadEvent(a, event)
                       ELSE FailWith(a, "invalid")

\* AdvanceValue: no primitive, and no event.
StartValue(a) ==
    CASE a.status = "ready"     -> Complete(a)
      [] a.status = "canceling" -> CancelActor(a)
      [] OTHER                  -> HandleError(a)

-----------------------------------------------------------------------------
(* localRunningOperation.handle, without an event and with one.            *)

Start(a) ==
    CASE a.type = "shell"      -> StartShell(a)
      [] a.type = "view_image" -> StartImage(a)
      [] a.type = "skill_use"  -> StartSkillUse(a)
      [] OTHER                 -> StartValue(a)

Advance(a, event) ==
    CASE a.type = "shell"      -> AdvanceShell(a, event)
      [] a.type = "view_image" -> AdvanceImage(a, event)
      [] a.type = "skill_use"  -> AdvanceSkillUse(a, event)
      [] OTHER                 -> HandleError(a)
=============================================================================
