--------------------------- MODULE IOPrimitives ----------------------------
(***************************************************************************)
(* The primitives that do one thing and answer: ReadFile (file.go), Create *)
(* (file.go, file_create_unix.go), Compute (compute.go) and ScheduleTimer  *)
(* (timer.go), each one invocation in a goroutine of its own.  Other       *)
(* processes may change the file that is read and the entry that is        *)
(* created while the invocation runs.                                      *)
(***************************************************************************)
EXTENDS Naturals

CONSTANTS Kinds,       \* the primitives that are invoked
          MaxSize,     \* the largest file, in chunks
          MaxRetries,  \* maxCreateContentionRetries
          MaxMeddling  \* what other processes do to the entry that is created

ASSUME KindsAssumption == Kinds \subseteq {"read", "create", "compute", "timer"}
ASSUME IOBoundsAssumption ==
    MaxSize \in Nat \ {0} /\ MaxRetries \in Nat /\ MaxMeddling \in Nat

VARIABLES kind,      \* which primitive
          input,     \* its request
          ioCtx,     \* whether its context is canceled
          at,        \* where it is
          size,      \* the file that is read: its size now
          seen,      \* its size when it was inspected
          next,      \* the next position to read
          sent,      \* the positions sent
          entry,     \* the entry that is created: "absent", "file", "directory"
          synced,    \* the entry is on disk: what there was at the last sync
          retries,   \* how often createOrUsePath went around
          meddling,  \* how often another process changed the entry
          answer     \* the final event

ioVars  == <<kind, input, ioCtx, at, size, seen, next, sent, entry, synced,
             retries, meddling, answer>>
reading  == <<size, seen, next, sent>>
creating == <<entry, synced, retries, meddling>>

Entries == {"absent", "file", "directory"}

IOInit ==
    /\ kind \in Kinds
    /\ input \in [valid : BOOLEAN, offset : 0..1, count : 1..MaxSize,
                  entry : {"file", "directory"}]
    /\ kind # "read" => input.offset = 0 /\ input.count = 1
    /\ kind # "create" => input.entry = "file"
    /\ ioCtx = FALSE /\ at = "check" /\ answer = "none"
    /\ size \in IF kind = "read" THEN 0..MaxSize ELSE {0}
    /\ seen = 0 /\ next = 0 /\ sent = {}
    /\ entry \in IF kind = "create" THEN Entries ELSE {"absent"}
    /\ synced = "none" /\ retries = 0 /\ meddling = 0

\* The same variables where no such primitive is invoked.
IOIdle ==
    /\ kind = "none" /\ at = "done" /\ answer = "none"
    /\ input = [valid |-> FALSE, offset |-> 0, count |-> 1, entry |-> "file"]
    /\ ioCtx = FALSE /\ size = 0 /\ seen = 0 /\ next = 0 /\ sent = {}
    /\ entry = "absent" /\ synced = "none" /\ retries = 0 /\ meddling = 0

IOTypeOK ==
    /\ kind \in Kinds \union {"none"}
    /\ input \in [valid : BOOLEAN, offset : 0..1, count : 1..MaxSize,
                  entry : {"file", "directory"}]
    /\ ioCtx \in BOOLEAN
    /\ at \in {"check", "inspect", "read", "send", "verify", "close", "create",
               "reuse", "sync", "run", "sleep", "answer", "done"}
    /\ size \in 0..MaxSize /\ seen \in 0..MaxSize /\ next \in 0..MaxSize + 1
    /\ sent \subseteq 1..MaxSize
    /\ entry \in Entries /\ synced \in Entries \union {"none"}
    /\ retries \in 0..MaxRetries /\ meddling \in 0..MaxMeddling
    /\ answer \in {"none", "completed", "failed", "canceled"}

-----------------------------------------------------------------------------
Goto(place) == at' = place /\ UNCHANGED <<kind, input, ioCtx, answer>>

Finish(what) ==
    /\ answer' = what /\ at' = "done"
    /\ UNCHANGED <<kind, input, ioCtx>>

CancelIO ==
    /\ at # "done" /\ ~ioCtx
    /\ ioCtx' = TRUE
    /\ UNCHANGED <<kind, input, at, answer, reading, creating>>

FirstPlace ==
    CASE kind = "read"    -> "inspect"
      [] kind = "create"  -> "create"
      [] kind = "compute" -> "run"
      [] kind = "timer"   -> "sleep"

\* An invalid request fails, a canceled one is not begun.  A create looks at its
\* request only after its context.
Check ==
    /\ at = "check"
    /\ CASE kind # "create" /\ ~input.valid -> Finish("failed")
         [] ioCtx /\ (kind # "create" => input.valid) -> Finish("canceled")
         [] kind = "create" /\ ~input.valid /\ ~ioCtx -> Finish("failed")
         [] OTHER -> Goto(FirstPlace)
    /\ UNCHANGED <<reading, creating>>

-----------------------------------------------------------------------------
\* ReadFile.

\* What the request asks for of a file of size n.
Wanted(n) == {p \in 1..n : p > input.offset /\ p <= input.offset + input.count}

\* The file is opened and inspected.
Inspect ==
    /\ at = "inspect"
    /\ \/ Finish("failed") /\ UNCHANGED <<seen, next>>
       \/ Goto("read") /\ seen' = size /\ next' = input.offset + 1
    /\ UNCHANGED <<size, sent, creating>>

\* One chunk is read: the context is looked at before and after, a file that was
\* cut short ends the read with an error.
Read ==
    /\ at = "read" /\ next \in Wanted(seen)
    /\ IF ioCtx THEN Goto("close")
       ELSE Finish("failed") \/ (next <= size /\ Goto("send"))
    /\ UNCHANGED <<reading, creating>>

Send ==
    /\ at = "send"
    /\ \/ /\ sent' = sent \union {next} /\ next' = next + 1
          /\ Goto("read")
       \/ /\ ioCtx
          /\ Goto("close") /\ UNCHANGED <<next, sent>>
    /\ UNCHANGED <<size, seen, creating>>

\* Everything is sent: the file must still have the size that was read.
Verify ==
    /\ at = "read" /\ next \notin Wanted(seen)
    /\ CASE ioCtx                  -> Goto("close")
         [] ~ioCtx /\ size # seen  -> Finish("failed")
         [] OTHER                  -> Finish("failed") \/ Goto("answer")
    /\ UNCHANGED <<reading, creating>>

\* A canceled read closes its file; a close that fails is what it reports.
CloseCanceled ==
    /\ at = "close"
    /\ Finish("canceled") \/ Finish("failed")
    /\ UNCHANGED <<reading, creating>>

AnswerRead ==
    /\ kind = "read" /\ at = "answer"
    /\ Finish("failed") \/ Finish(IF ioCtx THEN "canceled" ELSE "completed")
    /\ UNCHANGED <<reading, creating>>

\* Another process truncates or extends the file.
FileResized ==
    /\ kind = "read" /\ at # "done"
    /\ size' \in 0..MaxSize
    /\ UNCHANGED <<kind, input, ioCtx, at, answer, seen, next, sent, creating>>

-----------------------------------------------------------------------------
\* Create.

\* openNewFileAt and makeNewDirectoryAt create exclusively, after a look at the
\* context on every round.
CreateEntry ==
    /\ at = "create"
    /\ IF ioCtx
       THEN (Finish("canceled") \/ Finish("failed")) /\ UNCHANGED entry
       ELSE \/ Finish("failed") /\ UNCHANGED entry
            \/ /\ entry = "absent" /\ entry' = input.entry
               /\ Goto("sync")
            \/ /\ entry # "absent" /\ UNCHANGED entry
               /\ Goto("reuse")
    /\ UNCHANGED <<reading, synced, retries, meddling>>

\* useExistingPath: an entry that is gone again makes the create go around, at
\* most MaxRetries times.
ReuseEntry ==
    /\ at = "reuse"
    /\ CASE entry = input.entry -> Goto("sync") /\ UNCHANGED retries
         [] entry = "absent" /\ entry # input.entry /\ retries < MaxRetries ->
              Goto("create") /\ retries' = retries + 1
         [] OTHER -> Finish("failed") /\ UNCHANGED retries
    /\ UNCHANGED <<reading, entry, synced, meddling>>

\* The file, and the directory that holds it, are synced before the answer.  The
\* context is not looked at again.
SyncEntry ==
    /\ at = "sync"
    /\ \/ Finish("failed") /\ UNCHANGED synced
       \/ Finish("completed") /\ synced' = entry
    /\ UNCHANGED <<reading, entry, retries, meddling>>

\* Another process removes the entry, or makes one.
EntryChanged ==
    /\ kind = "create" /\ at # "done"
    /\ meddling < MaxMeddling /\ meddling' = meddling + 1
    /\ entry' \in IF entry = "absent" THEN {"file", "directory"} ELSE {"absent"}
    /\ UNCHANGED <<kind, input, ioCtx, at, answer, synced, retries, reading>>

-----------------------------------------------------------------------------
\* Compute and ScheduleTimer.

\* The callback returns, panics or leaves its goroutine; only then is the context
\* looked at, and a cancellation hides what it returned.
ComputeReturns ==
    /\ at = "run"
    /\ IF ioCtx THEN Finish("canceled") ELSE Finish("completed") \/ Finish("failed")
    /\ UNCHANGED <<reading, creating>>

\* A wake before the deadline sleeps again: at most timerMaximumSleep at a time.
TimerWakes ==
    /\ at = "sleep"
    /\ Finish("completed") \/ (ioCtx /\ Finish("canceled"))
    /\ UNCHANGED <<reading, creating>>

-----------------------------------------------------------------------------
IOStep ==
    \/ Check \/ Inspect \/ Read \/ Send \/ Verify \/ CloseCanceled \/ AnswerRead
    \/ CreateEntry \/ ReuseEntry \/ SyncEntry \/ ComputeReturns \/ TimerWakes

IONext == IOStep \/ CancelIO \/ FileResized \/ EntryChanged

IOFairness == WF_ioVars(IOStep)

\* The invocation as its caller sees it.
IOPhase ==
    CASE at = "done"  -> "ended"
      [] at = "check" -> "accepted"
      [] OTHER        -> "running"
=============================================================================
