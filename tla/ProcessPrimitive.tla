-------------------------- MODULE ProcessPrimitive --------------------------
(***************************************************************************)
(* The process primitive (src/harness/primitives/process.go): one          *)
(* StartProcess invocation, the child and the group it runs, a reader per  *)
(* output pipe, the goroutine that waits for the child, and the control    *)
(* invocations WriteInput, CloseInput and Signal that act on it from       *)
(* goroutines of their own.                                                *)
(*                                                                         *)
(* Data is counted in chunks: written[s] chunks have been written to pipe  *)
(* s by the group, and taken[s] of them have been read.  An event is sent  *)
(* on an unbuffered channel, so sending is a step of its own; a progress   *)
(* event may instead be dropped once the context is canceled.              *)
(***************************************************************************)
EXTENDS Naturals, FiniteSets

CONSTANTS Streams,    \* the output pipes the request asks for
          MaxOutput,  \* chunks the group writes to one pipe
          Controls,   \* control invocations
          Plans       \* what they do, one way or another

ControlOps == {"write_input", "close_input", "signal", "signal_group"}

ASSUME PlansAssumption  == Plans \subseteq [Controls -> ControlOps]
ASSUME OutputAssumption == MaxOutput \in Nat

\* The start request: whether it is valid, whether it asks for a stdin pipe, and
\* what the controls that will be invoked on it do.
Requests ==
    [valid : BOOLEAN, stdin : BOOLEAN, plan : Plans]

VARIABLES request,    \* the start request
          canceled,   \* the context of the invocation
          pc,         \* where runProcess is
          ready,      \* the ready channel is closed
          startErr,   \* why the process did not start
          verdict,    \* what awaitProcessCompletion decided: "exit" or "cancel"
          faults,     \* the steps that reported an error
          killed,     \* SIGKILL was sent to the group
          child,      \* the process: "none", "running", "zombie" or "reaped"
          kin,        \* whether a descendant in its group is alive
          waited,     \* command.Wait has returned
          stdin,      \* the parent's end of the stdin pipe
          pipe,       \* the parent's end of each output pipe
          written,    \* chunks written, by stream
          reader,     \* the reader of each stream
          delivered,  \* positions sent in output events, by stream
          control     \* each control invocation: where it is

procVars == <<request, canceled, pc, ready, startErr, verdict, faults, killed,
              child, kin, waited, stdin, pipe, written, reader, delivered,
              control>>
runner   == <<request, pc, ready, startErr, verdict, faults>>
group    == <<child, kin, waited, killed, written>>
files    == <<stdin, pipe>>
readers  == <<reader, delivered>>

Faults == {"refused", "error", "stream"}

TypeOK ==
    /\ request \in Requests
    /\ canceled \in BOOLEAN
    /\ pc \in {"validate", "prepare", "start", "announce", "await", "poll",
               "reap", "join", "ended"}
    /\ ready \in BOOLEAN
    /\ startErr \in {"none", "failed", "canceled"}
    /\ verdict \in {"none", "exit", "cancel"}
    /\ faults \subseteq Faults
    /\ killed \in BOOLEAN
    /\ child \in {"none", "running", "zombie", "reaped"}
    /\ kin \in BOOLEAN
    /\ waited \in BOOLEAN
    /\ stdin \in {"none", "open", "closed"}
    /\ pipe \in [Streams -> {"none", "open", "expired", "closed"}]
    /\ written \in [Streams -> 0..MaxOutput]
    /\ reader \in [Streams -> [at : {"none", "read", "send", "drain",
                                     "drain_send", "ended"},
                               sent : 0..MaxOutput, taken : 0..MaxOutput]]
    /\ delivered \in [Streams -> SUBSET (1..MaxOutput)]
    /\ control \in [Controls -> {"wait", "act", "writing", "answered"}]

ProcessInit ==
    /\ request \in Requests
    /\ canceled = FALSE
    /\ pc = "validate"
    /\ ready = FALSE /\ startErr = "none" /\ verdict = "none" /\ faults = {}
    /\ killed = FALSE /\ child = "none" /\ kin = FALSE /\ waited = FALSE
    /\ stdin = "none"
    /\ pipe = [s \in Streams |-> "none"]
    /\ written = [s \in Streams |-> 0]
    /\ reader = [s \in Streams |-> [at |-> "none", sent |-> 0, taken |-> 0]]
    /\ delivered = [s \in Streams |-> {}]
    /\ control = [c \in Controls |-> "wait"]

-----------------------------------------------------------------------------
\* What the code reads of the system.

GroupExists == child \in {"running", "zombie"} \/ kin

\* os.Process knows that it was waited for, before command.Wait returns.
WaitCompleted == child = "reaped"

\* Some process of the group still holds the other end of the pipes.
Writers == child = "running" \/ kin

-----------------------------------------------------------------------------
\* The start of runProcess.

CancelProcess ==
    /\ ~canceled /\ pc # "ended"
    /\ canceled' = TRUE
    /\ UNCHANGED <<runner, group, files, readers, control>>

\* The process does not start: controls that wait for it are told why.
DoNotStart(why) ==
    /\ startErr' = why
    /\ ready' = TRUE
    /\ pc' = "ended"
    /\ UNCHANGED <<request, verdict, canceled, faults, group, files, readers,
                   control>>

Validate ==
    /\ pc = "validate"
    /\ IF ~request.valid THEN DoNotStart("failed")
       ELSE IF canceled THEN DoNotStart("canceled")
       ELSE /\ pc' = "prepare"
            /\ UNCHANGED <<request, canceled, ready, startErr, verdict, faults,
                           group, files, readers, control>>

\* prepareProcess may fail, and the context is read again after it.  What was
\* opened is closed again, and a failed close turns "canceled" into a failure.
Prepare ==
    /\ pc = "prepare"
    /\ \/ DoNotStart("failed")
       \/ /\ canceled
          /\ DoNotStart("canceled")
       \/ /\ ~canceled
          /\ pc' = "start"
          /\ UNCHANGED <<request, canceled, ready, startErr, verdict, faults,
                         group, files, readers, control>>

StartChild ==
    /\ pc = "start"
    /\ child' = "running"
    /\ ready' = TRUE
    /\ stdin' = IF request.stdin THEN "open" ELSE "none"
    /\ pipe' = [s \in Streams |-> "open"]
    /\ pc' = "announce"
    /\ UNCHANGED <<request, canceled, startErr, verdict, faults, killed, kin,
                   waited, written, readers, control>>

StartFails ==
    /\ pc = "start"
    /\ DoNotStart("failed")

\* The started event is sent, or dropped if the context is canceled; then the
\* readers and the goroutine that waits for the child run.
Announce ==
    /\ pc = "announce"
    /\ reader' = [s \in Streams |-> [reader[s] EXCEPT !.at = "read"]]
    /\ pc' = "await"
    /\ UNCHANGED <<request, canceled, ready, startErr, verdict, faults, group,
                   files, delivered, control>>

-----------------------------------------------------------------------------
\* The child and its group.

GroupWrites(s) ==
    /\ Writers /\ pipe[s] # "closed"
    /\ written[s] < MaxOutput
    /\ written' = [written EXCEPT ![s] = @ + 1]
    /\ UNCHANGED <<runner, canceled, child, kin, waited, killed, files, readers,
                   control>>

ChildForks ==
    /\ child = "running" /\ ~kin /\ ~killed
    /\ kin' = TRUE
    /\ UNCHANGED <<runner, canceled, child, waited, killed, written, files,
                   readers, control>>

\* A process ends by itself, on a signal, or because it was killed.
ChildExits ==
    /\ child = "running"
    /\ child' = "zombie"
    /\ UNCHANGED <<runner, canceled, kin, waited, killed, written, files,
                   readers, control>>

KinExits ==
    /\ kin
    /\ kin' = FALSE
    /\ UNCHANGED <<runner, canceled, child, waited, killed, written, files,
                   readers, control>>

\* The waiting goroutine: the operating system's wait, then command.Wait's return.
Reap ==
    /\ child = "zombie"
    /\ pc \notin {"validate", "prepare", "start", "announce"}
    /\ child' = "reaped"
    /\ UNCHANGED <<runner, canceled, kin, waited, killed, written, files,
                   readers, control>>

WaitReturns ==
    /\ child = "reaped" /\ ~waited
    /\ waited' = TRUE
    /\ UNCHANGED <<runner, canceled, child, kin, killed, written, files,
                   readers, control>>

-----------------------------------------------------------------------------
\* awaitProcessCompletion and terminateProcess.

\* A signal to the group is refused if a member belongs to another user; a group
\* that is gone is no error.
Signaled(f) == {f} \union (IF GroupExists THEN {f \union {"refused"}} ELSE {})

\* Mutant: the context is not looked at while the process runs.
MutAwaitExit ==
    /\ pc = "await"
    /\ waited /\ verdict' = "exit"
    /\ faults' \in Signaled(faults)
    /\ pc' = "poll"
    /\ UNCHANGED <<request, canceled, ready, startErr, group, files, readers,
                   control>>

\* The wait returns, or the context is canceled: a process that was already waited
\* for still counts as exited.  Either way the group gets SIGTERM.
Await ==
    /\ pc = "await"
    /\ \/ waited /\ verdict' = "exit"
       \/ canceled /\ verdict' = IF WaitCompleted THEN "exit" ELSE "cancel"
    /\ faults' \in Signaled(faults)
    /\ pc' = "poll"
    /\ UNCHANGED <<request, canceled, ready, startErr, group, files, readers,
                   control>>

ClosedIfCanceled(p) == IF verdict = "cancel" /\ p = "open" THEN "closed" ELSE p

CloseAllPipes ==
    /\ stdin' = ClosedIfCanceled(stdin)
    /\ pipe' = [s \in Streams |-> ClosedIfCanceled(pipe[s])]

\* The group is gone and the child waited for: a refused SIGTERM is forgiven.
PollGone ==
    /\ pc = "poll"
    /\ ~GroupExists /\ WaitCompleted
    /\ faults' = faults \ {"refused"}
    /\ CloseAllPipes
    /\ pc' = "reap"
    /\ UNCHANGED <<request, canceled, ready, startErr, verdict, group, readers,
                   control>>

\* Mutant: a group that outlives the grace period is left alone.
MutNoKill ==
    /\ pc = "poll"
    /\ CloseAllPipes
    /\ pc' = "reap"
    /\ UNCHANGED <<request, canceled, ready, startErr, verdict, faults, group,
                   readers, control>>

\* The grace period ends, or the group cannot be inspected: SIGKILL.
Kill ==
    /\ pc = "poll"
    /\ \E f \in {faults, faults \union {"error"}} :
          /\ f = faults => GroupExists \/ ~WaitCompleted
          /\ \/ killed' = TRUE /\ faults' = f
             \/ /\ GroupExists
                /\ killed' = FALSE /\ faults' = f \union {"refused"}
    /\ CloseAllPipes
    /\ pc' = "reap"
    /\ UNCHANGED <<request, canceled, ready, startErr, verdict, child, kin,
                   waited, written, readers, control>>

\* The result of command.Wait is received, on whichever path.  Captures are synced
\* and closed, the parent's end of stdin is closed, and a read deadline in the past
\* wakes the readers; a pipe that takes none is closed.
Settle ==
    /\ pc = "reap"
    /\ waited
    /\ stdin' = IF stdin = "open" THEN "closed" ELSE stdin
    /\ IF verdict = "cancel"
       THEN /\ faults' \in {faults, faults \union {"error"}}
            /\ UNCHANGED pipe
       ELSE \/ /\ faults' \in {faults, faults \union {"error"}}
               /\ pipe' = [s \in Streams |-> "expired"]
            \/ /\ faults' = faults \union {"error"}
               /\ \E s \in Streams :
                    pipe' = [t \in Streams |->
                               IF t = s THEN "closed" ELSE "expired"]
    /\ pc' = "join"
    /\ UNCHANGED <<request, canceled, ready, startErr, verdict, group, readers,
                   control>>

\* workers.Wait returns, the pipes are closed and the final event is sent.
Join ==
    /\ pc = "join"
    /\ \A s \in Streams : reader[s].at = "ended"
    /\ pipe' = [s \in Streams |-> "closed"]
    /\ pc' = "ended"
    /\ UNCHANGED <<request, canceled, ready, startErr, verdict, faults, group,
                   stdin, readers, control>>

-----------------------------------------------------------------------------
\* The reader of a stream: streamProcessOutput, then drainProcessOutput.

ReaderStep(s, r) ==
    /\ reader' = [reader EXCEPT ![s] = r]
    /\ UNCHANGED <<request, canceled, pc, ready, startErr, verdict, group, files,
                   control>>

\* A read returns some of what is in the pipe.
ReadChunks(s) ==
    /\ \/ reader[s].at = "read" /\ pipe[s] = "open"
       \/ reader[s].at = "drain"
    /\ \E n \in (reader[s].taken + 1)..written[s] :
          ReaderStep(s, [reader[s] EXCEPT
              !.at = IF @ = "read" THEN "send" ELSE "drain_send",
              !.taken = n])
    /\ UNCHANGED <<delivered, faults>>

SendChunks(s) ==
    /\ reader[s].at \in {"send", "drain_send"}
    /\ delivered' = [delivered EXCEPT
          ![s] = @ \union ((reader[s].sent + 1)..reader[s].taken)]
    /\ ReaderStep(s, [reader[s] EXCEPT
          !.at = IF @ = "send" THEN "read" ELSE "drain",
          !.sent = reader[s].taken])
    /\ UNCHANGED faults

\* Mutant: an event is dropped whenever the consumer is slow.
MutDropSlow(s) ==
    /\ reader[s].at \in {"send", "drain_send"}
    /\ ReaderStep(s, [reader[s] EXCEPT
          !.at = IF @ = "send" THEN "read" ELSE "ended",
          !.sent = reader[s].taken])
    /\ UNCHANGED <<delivered, faults>>

\* Canceled: the event is dropped.  The offset moves on, and a drain stops.
DropChunks(s) ==
    /\ canceled
    /\ reader[s].at \in {"send", "drain_send"}
    /\ ReaderStep(s, [reader[s] EXCEPT
          !.at = IF @ = "send" THEN "read" ELSE "ended",
          !.sent = reader[s].taken])
    /\ UNCHANGED <<delivered, faults>>

\* Nothing is left to read and nothing can follow.
ReadEnd(s) ==
    /\ reader[s].taken = written[s]
    /\ \/ reader[s].at = "read" /\ pipe[s] = "open" /\ ~Writers
       \/ reader[s].at = "drain"
    /\ ReaderStep(s, [reader[s] EXCEPT !.at = "ended"])
    /\ UNCHANGED <<delivered, faults>>

\* Mutant: a reader whose deadline has passed does not drain its pipe.
MutNoDrain(s) ==
    /\ reader[s].at = "read" /\ pipe[s] = "expired"
    /\ ReaderStep(s, [reader[s] EXCEPT !.at = "ended"])
    /\ UNCHANGED <<delivered, faults>>

ReadTimesOut(s) ==
    /\ reader[s].at = "read" /\ pipe[s] = "expired"
    /\ ReaderStep(s, [reader[s] EXCEPT !.at = "drain"])
    /\ UNCHANGED <<delivered, faults>>

\* A closed pipe is no error to a canceled reader, and a failure to another.
ReadClosed(s) ==
    /\ reader[s].at = "read" /\ pipe[s] = "closed"
    /\ faults' = IF canceled THEN faults ELSE faults \union {"stream"}
    /\ ReaderStep(s, [reader[s] EXCEPT !.at = "ended"])
    /\ UNCHANGED delivered

\* Any other read error.  It goes into a stream_failed event, which is not final.
ReadFails(s) ==
    /\ reader[s].at \in {"read", "drain"} /\ pipe[s] # "closed"
    /\ faults' = faults \union {"stream"}
    /\ ReaderStep(s, [reader[s] EXCEPT !.at = "ended"])
    /\ UNCHANGED delivered

-----------------------------------------------------------------------------
\* The controls.  Each answers with exactly one event: that it was done, that it
\* failed, or that it was canceled, which nothing here tells apart.

ControlStep(c, r) ==
    /\ control' = [control EXCEPT ![c] = r]
    /\ UNCHANGED <<runner, canceled, group, pipe, readers>>

\* prepareControl finds its own context canceled: while it waits for the process
\* to be ready, or right after.
CancelControl(c) ==
    /\ control[c] = "wait"
    /\ ControlStep(c, "answered")
    /\ UNCHANGED stdin

\* What a signal would reach is gone: the whole group, or the process.
TargetGone(c) ==
    IF request.plan[c] = "signal_group" THEN ~GroupExists ELSE WaitCompleted

PrepareControl(c) ==
    /\ control[c] = "wait" /\ ready
    /\ ControlStep(c, IF startErr # "none" \/ canceled \/ TargetGone(c)
                      THEN "answered" ELSE "act")
    /\ UNCHANGED stdin

CloseInput(c) ==
    /\ control[c] = "act" /\ request.plan[c] = "close_input"
    /\ stdin' = IF stdin = "open" THEN "closed" ELSE stdin
    /\ ControlStep(c, "answered")

StartWrite(c) ==
    /\ control[c] = "act" /\ request.plan[c] = "write_input"
    /\ ControlStep(c, IF stdin = "open" THEN "writing" ELSE "answered")
    /\ UNCHANGED stdin

\* The pipe takes the data while something can read it.
FinishWrite(c) ==
    /\ control[c] = "writing" /\ stdin = "open" /\ Writers
    /\ ControlStep(c, "answered")
    /\ UNCHANGED stdin

\* The pipe was closed under the write, or nothing is left to read it.
WriteBreaks(c) ==
    /\ control[c] = "writing"
    /\ stdin = "closed" \/ ~Writers
    /\ ControlStep(c, "answered")
    /\ UNCHANGED stdin

\* The process may have gone since prepareControl looked, or refuse the signal.
Signal(c) ==
    /\ control[c] = "act" /\ request.plan[c] \in {"signal", "signal_group"}
    /\ ControlStep(c, "answered")
    /\ UNCHANGED stdin

-----------------------------------------------------------------------------
RunnerNext ==
    \/ Validate \/ Prepare \/ StartChild \/ StartFails \/ Announce
    \/ Await \/ PollGone \/ Kill \/ Settle \/ Join

ReaderNext(s) ==
    \/ ReadChunks(s) \/ SendChunks(s) \/ DropChunks(s) \/ ReadEnd(s)
    \/ ReadTimesOut(s) \/ ReadClosed(s)

GroupNext ==
    \/ \E s \in Streams : GroupWrites(s) \/ ReadFails(s)
    \/ ChildForks \/ ChildExits \/ KinExits

ControlNext(c) ==
    \/ PrepareControl(c) \/ CloseInput(c) \/ StartWrite(c) \/ WriteBreaks(c)
    \/ Signal(c)

ProcessNext ==
    \/ RunnerNext \/ GroupNext \/ Reap \/ WaitReturns \/ CancelProcess
    \/ \E s \in Streams : ReaderNext(s)
    \/ \E c \in Controls :
         CancelControl(c) \/ FinishWrite(c) \/ ControlNext(c)

\* Every goroutine goes on, the consumer of the events keeps receiving, and a
\* process that was killed dies.
ProcessFairness ==
    /\ WF_procVars(RunnerNext)
    /\ WF_procVars(Reap \/ WaitReturns)
    /\ WF_procVars(killed /\ (ChildExits \/ KinExits))
    /\ \A s \in Streams : WF_procVars(ReaderNext(s))
    /\ \A c \in Controls : WF_procVars(ControlNext(c))

-----------------------------------------------------------------------------
\* The invocation as its caller sees it.

Started == child # "none"

ProcessPhase ==
    CASE pc = "ended" -> "ended"
      [] Started /\ pc \notin {"announce", "ended"} -> "running"
      [] OTHER -> "accepted"

\* The final event: a start that fails or is canceled, a cancellation, an exit,
\* or a failure that names every step that went wrong.
ProcessOutcome ==
    IF pc # "ended" THEN "none"
    ELSE IF startErr # "none" THEN startErr
    ELSE IF faults \ {"stream"} # {} THEN "failed"
    ELSE IF verdict = "cancel" THEN "canceled" ELSE "completed"
=============================================================================
