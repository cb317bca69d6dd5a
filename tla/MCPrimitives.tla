---------------------------- MODULE MCPrimitives ----------------------------
(***************************************************************************)
(* One primitive invocation of any kind, checked against the contract that *)
(* all of them keep: a process with its controls, or one of the primitives *)
(* of IOPrimitives.                                                        *)
(***************************************************************************)
EXTENDS ProcessPrimitive, IOPrimitives, SSEFramer

CONSTANTS stdout, earlier, later

ASSUME StdoutAssumption == stdout \in Streams

MCStreams  == {stdout}
MCControls == {earlier, later}

\* A write that races a close, and one that races a signal.
MCPlans == {p \in [MCControls -> {"write_input", "close_input", "signal_group"}] :
              p[earlier] = "write_input" /\ p[later] # "write_input"}

VARIABLE exitMark   \* what the group had written when command.Wait returned

vars == <<procVars, ioVars, sseVars, exitMark>>

\* The variables of a process where another primitive is invoked.
ProcessIdle ==
    /\ request \in Requests
    /\ request = CHOOSE r \in Requests : ~r.valid
    /\ canceled = FALSE /\ pc = "ended"
    /\ ready = FALSE /\ startErr = "none" /\ verdict = "none" /\ faults = {}
    /\ killed = FALSE /\ child = "none" /\ kin = FALSE /\ waited = FALSE
    /\ stdin = "none"
    /\ pipe = [s \in Streams |-> "none"]
    /\ written = [s \in Streams |-> 0]
    /\ reader = [s \in Streams |-> [at |-> "none", sent |-> 0, taken |-> 0]]
    /\ delivered = [s \in Streams |-> {}]
    /\ control = [c \in Controls |-> "answered"]

Init ==
    /\ \/ ProcessInit /\ IOIdle /\ SSEIdle
       \/ ProcessIdle /\ IOInit /\ SSEIdle
       \/ ProcessIdle /\ IOIdle /\ SSEInit
    /\ exitMark = [s \in Streams |-> 0]

Next ==
    \/ /\ ProcessNext
       /\ exitMark' = IF waited' /\ ~waited THEN written ELSE exitMark
       /\ UNCHANGED <<ioVars, sseVars>>
    \/ /\ IONext
       /\ UNCHANGED <<procVars, sseVars, exitMark>>
    \/ /\ SSENext
       /\ UNCHANGED <<procVars, ioVars, exitMark>>

Spec == Init /\ [][Next]_vars /\ ProcessFairness /\ IOFairness

IsProcess == kind = "none" /\ mode = "none"

\* The invocation as its caller sees it; what a file read sends goes to one stream.
Phase ==
    CASE IsProcess                  -> ProcessPhase
      [] ~IsProcess /\ kind # "none" -> IOPhase
      [] OTHER                      -> "accepted"
Canceled  == IF IsProcess THEN canceled ELSE ioCtx
Delivered ==
    IF IsProcess THEN delivered
    ELSE [s \in Streams |-> IF s = stdout THEN {p - input.offset : p \in sent} ELSE {}]
Outcome   == IF IsProcess THEN ProcessOutcome ELSE answer

Contract == INSTANCE PrimitiveContract WITH
    MaxOutput <- MaxOutput + MaxSize,
    phase <- Phase, canceled <- Canceled, delivered <- Delivered, outcome <- Outcome

\* Whatever it is and whatever happens around it, an invocation sends its output
\* in order and without a gap, then one final event, and nothing after it; only a
\* cancellation may leave a gap or be reported as one.
KeepsContract == Contract!Spec

\* A final event that says "completed" is true.  A process that is reported as
\* exited, and was neither canceled nor hit by a read error, has delivered all
\* that was in its pipes when it was waited for, even while a descendant still
\* held them open; a read that is reported as completed has delivered all that
\* the request asked for; a create has synced the entry it was asked for, unless
\* another process changed it in between.
CompletedMeansDone ==
    /\ IsProcess /\ ProcessOutcome = "completed" /\ ~canceled /\ "stream" \notin faults
          => \A s \in Streams : 1..exitMark[s] \subseteq delivered[s]
    /\ kind = "read" /\ answer = "completed" => sent = Wanted(seen)
    /\ kind = "create" /\ answer = "completed" /\ synced # input.entry => meddling > 0

\* Once the final event of a process is sent, the child has been waited for, no
\* descendant is left that was not killed, every pipe is closed and no reader
\* runs; or the event is a failure, because a signal was refused.  Every variable
\* keeps its type.
NothingIsLeftRunning ==
    /\ TypeOK /\ IOTypeOK
    /\ IsProcess /\ pc = "ended" =>
        /\ Started => waited /\ WaitCompleted
        /\ kin => killed \/ ProcessOutcome = "failed"
        /\ stdin # "open"
        /\ \A s \in Streams : pipe[s] # "open" /\ reader[s].at \in {"none", "ended"}

\* However the network cuts the stream, the framer returns the frames that the
\* stream as a whole consists of; passed through, they are the stream itself.  It
\* gives up only on a frame that is longer than the limit, its end included.
FramingIgnoresChunks ==
    CASE mode = "strip" /\ ending # "error" -> emitted = FramesOf(fed)
      [] mode = "strip" -> IsPrefix(emitted, FramesOf(fed)) /\ HasLongFrame(fed)
      [] mode = "pass" /\ ending = "finished" -> FlattenSeq(emitted) = fed
      [] mode = "pass" /\ ending = "none" -> FlattenSeq(emitted) \o framer.frame = fed
      [] mode = "pass" /\ ending = "error" -> HasLongFrame(fed)
      [] OTHER -> TRUE

\* Canceling a process ends it, unless the system refuses a signal: the child is
\* waited for, the final event is sent, and every control is answered, a write
\* that waits for a full pipe included.
CancellationEnds ==
    (IsProcess /\ canceled) ~>
        \/ "refused" \in faults
        \/ pc = "ended" /\ \A c \in Controls : control[c] = "answered"
=============================================================================
