-------------------------- MODULE PrimitiveProofs ---------------------------
(***************************************************************************)
(* What one primitive invocation never leaves behind, and that it keeps    *)
(* the contract of all primitives, proved for any number of streams,       *)
(* chunks and controls and for files of any size.                          *)
(*                                                                         *)
(* The inductive invariant says how the goroutines of a process stand to   *)
(* each other (RunnerInv), how far the reader of a stream has come         *)
(* (ReaderInv), and what a file read or a create has done so far (IOInv).  *)
(***************************************************************************)
EXTENDS MCPrimitives, TLAPS

Starting == {"validate", "prepare", "start"}
Sending  == {"send", "drain_send"}

\* Only one primitive is invoked; the other parts are where they ended.
KindInv ==
    /\ kind = "none" => at = "done"
    /\ ~IsProcess => /\ pc = "ended" /\ child = "none" /\ startErr = "none"
                     /\ \A c \in Controls : control[c] = "answered"

\* runProcess, the child and its group.
ChildInv ==
    /\ waited => child = "reaped"
    /\ child = "none" => ~kin
    /\ pc \in Starting => child = "none"
    /\ pc \notin Starting \union {"ended"} => child # "none"
    /\ startErr # "none" => child = "none" /\ pc = "ended"
    /\ IsProcess /\ pc = "ended" /\ child = "none" => startErr # "none"
    /\ pc = "join" \/ (pc = "ended" /\ child # "none") => waited
    /\ stdin = "open" => child # "none" /\ pc \notin {"join", "ended"}
    /\ verdict = "cancel" => canceled

\* After the poll no descendant is left that is not dead, killed or protected.
GroupInv ==
    pc \in {"reap", "join", "ended"} =>
        killed \/ "refused" \in faults \/ (~kin /\ child # "running")

RunnerInv == ChildInv /\ GroupInv

\* A reader runs between the announcement and the join.
ReaderRuns(s) ==
    /\ pc \in Starting \union {"announce"} => reader[s].at = "none"
    /\ pc = "ended" => pipe[s] # "open"
    /\ child = "none" => reader[s].at = "none" /\ pipe[s] = "none"
    /\ pc = "ended" /\ child # "none" => reader[s].at = "ended"
    /\ pipe[s] = "expired" \/ reader[s].at \in {"drain", "drain_send"} => waited

\* Where a reader stands between what was written and what was sent.
ReaderOffsets(s) ==
    /\ reader[s].sent <= reader[s].taken /\ reader[s].taken <= written[s]
    /\ reader[s].at \notin Sending => reader[s].sent = reader[s].taken
    /\ reader[s].at \in Sending => reader[s].sent < reader[s].taken

\* What is delivered has a last position.
Delivery(s) ==
    /\ \E m \in delivered[s] \union {0} :
          m <= reader[s].sent /\ \A x \in delivered[s] : x <= m
    /\ ~canceled => delivered[s] = 1..reader[s].sent

\* A reader that has ended by itself has sent what the process left in the pipe.
Drained(s) ==
    /\ exitMark[s] \in 0..written[s]
    /\ ~waited => exitMark[s] = 0
    /\ reader[s].at = "ended" /\ ~canceled /\ "stream" \notin faults =>
          IF waited THEN exitMark[s] <= reader[s].sent
          ELSE ~Writers /\ written[s] = reader[s].sent

ReaderInv ==
    \A s \in Streams :
        ReaderRuns(s) /\ ReaderOffsets(s) /\ Delivery(s) /\ Drained(s)

\* Which primitive is at which place.
PlaceInv ==
    /\ at # "done" => answer = "none"
    /\ at \in {"inspect", "read", "send", "close", "answer"} => kind = "read"
    /\ at \in {"create", "reuse", "sync"} => kind = "create"
    /\ at = "run" => kind = "compute"
    /\ at = "sleep" => kind = "timer"
    /\ at = "close" => ioCtx

\* What a read has sent is a prefix of what it was asked for.
ReadInv ==
    /\ at \in {"read", "send", "answer"} => next > input.offset
    /\ at \in {"check", "inspect"} => next = 0
    /\ sent = (input.offset + 1)..(next - 1)
    /\ sent \subseteq Wanted(seen)
    /\ at = "send" => next \in Wanted(seen)
    /\ at = "answer" => next \notin Wanted(seen)
    /\ kind = "read" /\ answer = "completed" => sent = Wanted(seen)

CreateInv ==
    /\ at = "sync" /\ entry # input.entry => meddling > 0
    /\ kind = "create" /\ answer = "completed" /\ synced # input.entry =>
          meddling > 0

IOInv == PlaceInv /\ ReadInv /\ CreateInv

IInv ==
    /\ TypeOK /\ IOTypeOK
    /\ KindInv /\ RunnerInv /\ ReaderInv /\ IOInv

-----------------------------------------------------------------------------
LEMMA ProcessBegins ==
    ASSUME ProcessInit \/ ProcessIdle, exitMark = [s \in Streams |-> 0]
    PROVE  TypeOK /\ ReaderInv
<1>1. /\ request \in Requests /\ canceled = FALSE /\ pc \in {"validate", "ended"}
      /\ ready = FALSE /\ startErr = "none" /\ verdict = "none" /\ faults = {}
      /\ killed = FALSE /\ child = "none" /\ kin = FALSE /\ waited = FALSE
      /\ stdin = "none"
      /\ pipe = [s \in Streams |-> "none"]
      /\ written = [s \in Streams |-> 0]
      /\ reader = [s \in Streams |-> [at |-> "none", sent |-> 0, taken |-> 0]]
      /\ delivered = [s \in Streams |-> {}]
  BY DEF ProcessInit, ProcessIdle
<1>2. control \in [Controls -> {"wait", "answered"}]
  BY DEF ProcessInit, ProcessIdle
<1>3. TypeOK
  <2>1. /\ pipe \in [Streams -> {"none", "open", "expired", "closed"}]
        /\ written \in [Streams -> 0..MaxOutput]
        /\ reader \in [Streams -> [at : {"none", "read", "send", "drain",
                                         "drain_send", "ended"},
                                   sent : 0..MaxOutput, taken : 0..MaxOutput]]
    BY <1>1, OutputAssumption
  <2>2. faults \subseteq Faults /\ delivered \in [Streams -> SUBSET (1..MaxOutput)]
    BY <1>1
  <2>3. control \in [Controls -> {"wait", "act", "writing", "answered"}]
    BY <1>2
  <2> QED BY <1>1, <2>1, <2>2, <2>3 DEF TypeOK
<1>4. ASSUME NEW s \in Streams
      PROVE  ReaderRuns(s) /\ ReaderOffsets(s) /\ Delivery(s) /\ Drained(s)
  <2>1. /\ pipe[s] = "none" /\ written[s] = 0 /\ reader[s].at = "none"
        /\ reader[s].sent = 0 /\ reader[s].taken = 0 /\ exitMark[s] = 0
    BY <1>1
  <2>2. delivered[s] = {}
    BY <1>1
  <2>3. Delivery(s)
    <3>1. 0 \in delivered[s] \union {0} /\ 0 <= reader[s].sent
      BY <2>1
    <3>2. 1..reader[s].sent = {}
      BY <2>1
    <3> QED BY <2>2, <3>1, <3>2 DEF Delivery
  <2> QED BY <1>1, <2>1, <2>3 DEF ReaderRuns, ReaderOffsets, Drained, Sending
<1> QED BY <1>3, <1>4 DEF ReaderInv

LEMMA IOBegins ==
    ASSUME IOInit \/ IOIdle
    PROVE  IOTypeOK /\ IOInv
<1> DEFINE Inputs == [valid : BOOLEAN, offset : 0..1, count : 1..MaxSize,
                      entry : {"file", "directory"}]
<1>0. input \in Inputs
  <2>1. CASE IOInit BY <2>1 DEF IOInit
  <2>2. CASE IOIdle BY <2>2, IOBoundsAssumption DEF IOIdle
  <2> QED BY <2>1, <2>2
<1>1. /\ kind \in Kinds \union {"none"} /\ ioCtx = FALSE
      /\ at \in {"check", "done"} /\ answer = "none" /\ size \in 0..MaxSize
      /\ seen = 0 /\ next = 0 /\ entry \in Entries /\ synced = "none"
      /\ retries = 0 /\ meddling = 0
  BY IOBoundsAssumption DEF IOInit, IOIdle, Entries
<1>2. sent = {}
  BY DEF IOInit, IOIdle
<1>3. IOTypeOK
  <2>1. sent \subseteq 1..MaxSize BY <1>2
  <2>2. /\ seen \in 0..MaxSize /\ next \in 0..MaxSize + 1
        /\ retries \in 0..MaxRetries /\ meddling \in 0..MaxMeddling
    BY <1>1, IOBoundsAssumption
  <2>3. /\ ioCtx \in BOOLEAN /\ synced \in Entries \union {"none"}
        /\ answer \in {"none", "completed", "failed", "canceled"}
        /\ at \in {"check", "inspect", "read", "send", "verify", "close", "create",
                   "reuse", "sync", "run", "sleep", "answer", "done"}
    BY <1>1
  <2> QED BY <1>0, <1>1, <2>1, <2>2, <2>3 DEF IOTypeOK
<1>4. sent = (input.offset + 1)..(next - 1)
  BY <1>0, <1>1, <1>2
<1> QED BY <1>1, <1>2, <1>3, <1>4 DEF IOInv, PlaceInv, ReadInv, CreateInv

LEMMA Beginning == ASSUME Init PROVE IInv
<1>1. KindInv /\ RunnerInv
  BY KindsAssumption DEF Init, ProcessInit, ProcessIdle, IOInit, IOIdle, SSEInit, SSEIdle,
     KindInv, RunnerInv, ChildInv, GroupInv, IsProcess, Starting
<1> QED BY <1>1, ProcessBegins, IOBegins DEF Init, IInv

-----------------------------------------------------------------------------
\* A step of a process.
ProcessStep ==
    /\ ProcessNext
    /\ exitMark' = IF waited' /\ ~waited THEN written ELSE exitMark
    /\ UNCHANGED <<ioVars, sseVars>>

\* TypeOK in two halves.
ScalarTypes ==
    /\ request \in Requests /\ canceled \in BOOLEAN
    /\ pc \in {"validate", "prepare", "start", "announce", "await", "poll", "reap",
               "join", "ended"}
    /\ ready \in BOOLEAN /\ killed \in BOOLEAN /\ kin \in BOOLEAN /\ waited \in BOOLEAN
    /\ startErr \in {"none", "failed", "canceled"}
    /\ verdict \in {"none", "exit", "cancel"}
    /\ faults \subseteq Faults
    /\ child \in {"none", "running", "zombie", "reaped"}
    /\ stdin \in {"none", "open", "closed"}

Readers == [at : {"none", "read", "send", "drain", "drain_send", "ended"},
            sent : 0..MaxOutput, taken : 0..MaxOutput]

FunctionTypes ==
    /\ pipe \in [Streams -> {"none", "open", "expired", "closed"}]
    /\ written \in [Streams -> 0..MaxOutput]
    /\ reader \in [Streams -> Readers]
    /\ delivered \in [Streams -> SUBSET (1..MaxOutput)]
    /\ control \in [Controls -> {"wait", "act", "writing", "answered"}]

LEMMA ScalarStep == ASSUME ScalarTypes, ProcessNext PROVE ScalarTypes'
<1> USE DEF ScalarTypes, runner, group, files, readers
<1>1. ASSUME RunnerNext PROVE ScalarTypes'
  <2>1. CASE Validate BY <2>1, ZenonT(60) DEF Validate, DoNotStart
  <2>2. CASE Prepare BY <2>2 DEF Prepare, DoNotStart
  <2>3. CASE StartChild BY <2>3 DEF StartChild
  <2>4. CASE StartFails BY <2>4 DEF StartFails, DoNotStart
  <2>5. CASE Announce BY <2>5 DEF Announce
  <2>6. CASE Await BY <2>6 DEF Await, Signaled, Faults
  <2>7. CASE PollGone BY <2>7 DEF PollGone, CloseAllPipes, ClosedIfCanceled
  <2>8. CASE Kill BY <2>8, ZenonT(60) DEF Kill, CloseAllPipes, ClosedIfCanceled, Faults
  <2>9. CASE Settle BY <2>9 DEF Settle, Faults
  <2>10. CASE Join BY <2>10 DEF Join
  <2> QED BY <1>1, <2>1, <2>2, <2>3, <2>4, <2>5, <2>6, <2>7, <2>8, <2>9, <2>10 DEF RunnerNext
<1>2. ASSUME GroupNext \/ Reap \/ WaitReturns \/ CancelProcess PROVE ScalarTypes'
  <2>1. ASSUME NEW s \in Streams, GroupWrites(s) \/ ReadFails(s) PROVE ScalarTypes'
    BY <2>1 DEF GroupWrites, ReadFails, ReaderStep, Faults
  <2>2. CASE ChildForks \/ ChildExits \/ KinExits
    BY <2>2 DEF ChildForks, ChildExits, KinExits
  <2>3. CASE Reap BY <2>3 DEF Reap
  <2>4. CASE WaitReturns BY <2>4 DEF WaitReturns
  <2>5. CASE CancelProcess BY <2>5 DEF CancelProcess
  <2> QED BY <1>2, <2>1, <2>2, <2>3, <2>4, <2>5 DEF GroupNext
<1>3. ASSUME NEW s \in Streams, ReaderNext(s) PROVE ScalarTypes'
  <2>1. CASE ReadChunks(s) BY <2>1 DEF ReadChunks, ReaderStep
  <2>2. CASE SendChunks(s) \/ DropChunks(s) BY <2>2 DEF SendChunks, DropChunks, ReaderStep
  <2>3. CASE ReadEnd(s) \/ ReadTimesOut(s) BY <2>3 DEF ReadEnd, ReadTimesOut, ReaderStep
  <2>4. CASE ReadClosed(s) BY <2>4 DEF ReadClosed, ReaderStep, Faults
  <2> QED BY <1>3, <2>1, <2>2, <2>3, <2>4 DEF ReaderNext
<1>4. ASSUME NEW c \in Controls, CancelControl(c) \/ FinishWrite(c) \/ ControlNext(c)
      PROVE  ScalarTypes'
  BY <1>4 DEF CancelControl, FinishWrite, ControlNext, PrepareControl, CloseInput,
     StartWrite, WriteBreaks, Signal, ControlStep
<1> QED BY <1>1, <1>2, <1>3, <1>4 DEF ProcessNext

LEMMA FunctionStep == ASSUME FunctionTypes, ProcessNext PROVE FunctionTypes'
<1> USE DEF FunctionTypes, runner, group, files, readers
<1>1. ASSUME RunnerNext PROVE FunctionTypes'
  <2>1. CASE Validate BY <2>1 DEF Validate, DoNotStart
  <2>2. CASE Prepare BY <2>2 DEF Prepare, DoNotStart
  <2>3. CASE StartChild BY <2>3 DEF StartChild
  <2>4. CASE StartFails BY <2>4 DEF StartFails, DoNotStart
  <2>5. CASE Announce BY <2>5 DEF Announce, Readers
  <2>6. CASE Await BY <2>6 DEF Await
  <2>7. CASE PollGone BY <2>7 DEF PollGone, CloseAllPipes, ClosedIfCanceled
  <2>8. CASE Kill BY <2>8 DEF Kill, CloseAllPipes, ClosedIfCanceled
  <2>9. CASE Settle BY <2>9 DEF Settle
  <2>10. CASE Join BY <2>10 DEF Join
  <2> QED BY <1>1, <2>1, <2>2, <2>3, <2>4, <2>5, <2>6, <2>7, <2>8, <2>9, <2>10 DEF RunnerNext
<1>2. ASSUME NEW s \in Streams, GroupWrites(s) PROVE FunctionTypes'
  BY <1>2, OutputAssumption DEF GroupWrites
<1>3. CASE ChildForks \/ ChildExits \/ KinExits \/ Reap \/ WaitReturns \/ CancelProcess
  BY <1>3 DEF ChildForks, ChildExits, KinExits, Reap, WaitReturns, CancelProcess
<1>4. ASSUME NEW s \in Streams, ReaderNext(s) \/ ReadFails(s) PROVE FunctionTypes'
  <2>0. /\ reader[s] \in Readers
        /\ reader[s].sent \in 0..MaxOutput /\ reader[s].taken \in 0..MaxOutput
    BY DEF Readers
  <2>1. PICK r : ReaderStep(s, r)
    BY <1>4 DEF ReaderNext, ReadChunks, SendChunks, DropChunks, ReadEnd, ReadTimesOut,
       ReadClosed, ReadFails
  <2>2. reader'[s] \in Readers
    <3>1. CASE ReadChunks(s)
      <4>1. PICK n \in (reader[s].taken + 1)..written[s] :
               ReaderStep(s, [reader[s] EXCEPT
                  !.at = IF @ = "read" THEN "send" ELSE "drain_send", !.taken = n])
        BY <3>1 DEF ReadChunks
      <4>2. n \in 0..MaxOutput
        BY <2>0, OutputAssumption
      <4> QED BY <2>0, <4>1, <4>2 DEF ReaderStep, Readers
    <3>2. CASE SendChunks(s) \/ DropChunks(s)
      <4>1. PICK place \in {"read", "drain", "ended"} :
               ReaderStep(s, [reader[s] EXCEPT !.at = place, !.sent = reader[s].taken])
        BY <2>0, <3>2 DEF SendChunks, DropChunks, Readers
      <4> QED BY <2>0, <4>1 DEF ReaderStep, Readers
    <3>3. CASE ReadEnd(s) \/ ReadTimesOut(s) \/ ReadClosed(s) \/ ReadFails(s)
      BY <2>0, <3>3 DEF ReadEnd, ReadTimesOut, ReadClosed, ReadFails, ReaderStep, Readers
    <3> QED BY <1>4, <3>1, <3>2, <3>3 DEF ReaderNext
  <2>3. reader' \in [Streams -> Readers]
    BY <2>1, <2>2 DEF ReaderStep
  <2>4. delivered' \in [Streams -> SUBSET (1..MaxOutput)]
    <3>1. CASE SendChunks(s)
      <4>1. (reader[s].sent + 1)..reader[s].taken \subseteq 1..MaxOutput
        BY <2>0, OutputAssumption
      <4> QED BY <3>1, <4>1 DEF SendChunks
    <3>2. CASE ~SendChunks(s)
      BY <1>4, <3>2 DEF ReaderNext, ReadChunks, DropChunks, ReadEnd, ReadTimesOut,
         ReadClosed, ReadFails
    <3> QED BY <3>1, <3>2
  <2> QED BY <2>1, <2>3, <2>4 DEF ReaderStep
<1>5. ASSUME NEW c \in Controls, CancelControl(c) \/ FinishWrite(c) \/ ControlNext(c)
      PROVE  FunctionTypes'
  BY <1>5 DEF CancelControl, FinishWrite, ControlNext, PrepareControl, CloseInput,
     StartWrite, WriteBreaks, Signal, ControlStep
<1> QED BY <1>1, <1>2, <1>3, <1>4, <1>5 DEF ProcessNext, GroupNext

\* Where another primitive is invoked, no step of a process is left.
LEMMA OneInvocation ==
    ASSUME KindInv, RunnerInv, ReaderInv, ProcessNext
    PROVE  IsProcess
<1> SUFFICES ASSUME ~IsProcess PROVE FALSE
  OBVIOUS
<1>1. /\ pc = "ended" /\ child = "none" /\ ~kin
      /\ \A c \in Controls : control[c] = "answered"
      /\ \A s \in Streams : reader[s].at = "none"
  BY Zenon DEF KindInv, RunnerInv, ChildInv, ReaderInv, ReaderRuns
<1>2. ~RunnerNext
  BY <1>1 DEF RunnerNext, Validate, Prepare, StartChild, StartFails, Announce, Await,
     PollGone, Kill, Settle, Join
<1>3. ~(GroupNext \/ Reap \/ WaitReturns \/ CancelProcess)
  BY <1>1 DEF GroupNext, GroupWrites, ReadFails, ChildForks, ChildExits, KinExits, Reap,
     WaitReturns, CancelProcess, Writers
<1>4. ASSUME NEW s \in Streams, ReaderNext(s) PROVE FALSE
  BY <1>1, <1>4 DEF ReaderNext, ReadChunks, SendChunks, DropChunks, ReadEnd,
     ReadTimesOut, ReadClosed
<1>5. ASSUME NEW c \in Controls, CancelControl(c) \/ FinishWrite(c) \/ ControlNext(c)
      PROVE  FALSE
  BY <1>1, <1>5 DEF CancelControl, FinishWrite, ControlNext, PrepareControl, CloseInput,
     StartWrite, WriteBreaks, Signal
<1> QED BY <1>2, <1>3, <1>4, <1>5 DEF ProcessNext

LEMMA ChildStep ==
    ASSUME ScalarTypes, ChildInv, IsProcess, ProcessStep
    PROVE  ChildInv'
<1>0. IsProcess' = IsProcess
  BY DEF ProcessStep, ioVars, sseVars, IsProcess
<1> USE <1>0 DEF ScalarTypes, ChildInv, Starting, runner, group, files, readers
<1>1. ASSUME RunnerNext PROVE ChildInv'
  <2>1. CASE Validate BY <2>1 DEF Validate, DoNotStart
  <2>2. CASE Prepare BY <2>2 DEF Prepare, DoNotStart
  <2>3. CASE StartChild BY <2>3 DEF StartChild
  <2>4. CASE StartFails BY <2>4 DEF StartFails, DoNotStart
  <2>5. CASE Announce BY <2>5 DEF Announce
  <2>6. CASE Await BY <2>6 DEF Await
  <2>7. CASE PollGone BY <2>7 DEF PollGone, CloseAllPipes, ClosedIfCanceled
  <2>8. CASE Kill BY <2>8 DEF Kill, CloseAllPipes, ClosedIfCanceled
  <2>9. CASE Settle BY <2>9 DEF Settle
  <2>10. CASE Join BY <2>10 DEF Join
  <2> QED BY <1>1, <2>1, <2>2, <2>3, <2>4, <2>5, <2>6, <2>7, <2>8, <2>9, <2>10 DEF RunnerNext
<1>2. ASSUME GroupNext \/ Reap \/ WaitReturns \/ CancelProcess PROVE ChildInv'
  <2>1. ASSUME NEW s \in Streams, GroupWrites(s) \/ ReadFails(s) PROVE ChildInv'
    BY <2>1 DEF GroupWrites, ReadFails, ReaderStep
  <2>2. CASE ChildForks \/ ChildExits \/ KinExits
    BY <2>2 DEF ChildForks, ChildExits, KinExits
  <2>3. CASE Reap \/ WaitReturns \/ CancelProcess
    BY <2>3 DEF Reap, WaitReturns, CancelProcess
  <2> QED BY <1>2, <2>1, <2>2, <2>3 DEF GroupNext
<1>3. ASSUME NEW s \in Streams, ReaderNext(s) PROVE ChildInv'
  <2>1. PICK r : ReaderStep(s, r)
    BY <1>3 DEF ReaderNext, ReadChunks, SendChunks, DropChunks, ReadEnd, ReadTimesOut,
       ReadClosed
  <2> QED BY <2>1 DEF ReaderStep
<1>4. ASSUME NEW c \in Controls, CancelControl(c) \/ FinishWrite(c) \/ ControlNext(c)
      PROVE  ChildInv'
  BY <1>4 DEF CancelControl, FinishWrite, ControlNext, PrepareControl, CloseInput,
     StartWrite, WriteBreaks, Signal, ControlStep
<1> QED BY <1>1, <1>2, <1>3, <1>4 DEF ProcessNext, ProcessStep

LEMMA GroupStep ==
    ASSUME ScalarTypes, ChildInv, GroupInv, ProcessStep
    PROVE  GroupInv'
<1> USE DEF ScalarTypes, ChildInv, GroupInv, GroupExists, runner, group
<1>1. ASSUME RunnerNext PROVE GroupInv'
  <2>1. CASE Validate BY <2>1 DEF Validate, DoNotStart, Starting
  <2>2. CASE Prepare BY <2>2 DEF Prepare, DoNotStart, Starting
  <2>3. CASE StartChild BY <2>3 DEF StartChild
  <2>4. CASE StartFails BY <2>4 DEF StartFails, DoNotStart, Starting
  <2>5. CASE Announce BY <2>5 DEF Announce
  <2>6. CASE Await BY <2>6 DEF Await
  <2>7. CASE PollGone BY <2>7 DEF PollGone
  <2>8. CASE Kill BY <2>8 DEF Kill
  <2>9. CASE Settle BY <2>9 DEF Settle
  <2>10. CASE Join BY <2>10 DEF Join
  <2> QED BY <1>1, <2>1, <2>2, <2>3, <2>4, <2>5, <2>6, <2>7, <2>8, <2>9, <2>10 DEF RunnerNext
<1>2. ASSUME GroupNext \/ Reap \/ WaitReturns \/ CancelProcess PROVE GroupInv'
  <2>1. ASSUME NEW s \in Streams, GroupWrites(s) \/ ReadFails(s) PROVE GroupInv'
    BY <2>1 DEF GroupWrites, ReadFails, ReaderStep
  <2>2. CASE ChildForks \/ ChildExits \/ KinExits
    BY <2>2 DEF ChildForks, ChildExits, KinExits
  <2>3. CASE Reap \/ WaitReturns \/ CancelProcess
    BY <2>3 DEF Reap, WaitReturns, CancelProcess
  <2> QED BY <1>2, <2>1, <2>2, <2>3 DEF GroupNext
<1>3. ASSUME NEW s \in Streams, ReaderNext(s) PROVE GroupInv'
  BY <1>3 DEF ReaderNext, ReadChunks, SendChunks, DropChunks, ReadEnd, ReadTimesOut,
     ReadClosed, ReaderStep
<1>4. ASSUME NEW c \in Controls, CancelControl(c) \/ FinishWrite(c) \/ ControlNext(c)
      PROVE  GroupInv'
  BY <1>4 DEF CancelControl, FinishWrite, ControlNext, PrepareControl, CloseInput,
     StartWrite, WriteBreaks, Signal, ControlStep
<1> QED BY <1>1, <1>2, <1>3, <1>4 DEF ProcessNext, ProcessStep

ReaderOk(s) == ReaderRuns(s) /\ ReaderOffsets(s) /\ Delivery(s) /\ Drained(s)

\* A step that moves no reader keeps what was delivered.
LEMMA DeliveryKept ==
    ASSUME NEW t \in Streams, Delivery(t), UNCHANGED readers, canceled => canceled'
    PROVE  Delivery(t)'
BY DEF Delivery, readers

\* The steps of runProcess.
LEMMA RunnerKeepsReaders ==
    ASSUME ScalarTypes, FunctionTypes, ChildInv, ProcessStep, RunnerNext,
           NEW t \in Streams, ReaderOk(t)
    PROVE  ReaderOk(t)'
<1> USE DEF runner, group, files, readers
<1>1. CASE Announce
  <2>1. /\ UNCHANGED <<delivered, written, canceled, waited, exitMark, faults, pipe, child>>
        /\ pc = "announce" /\ pc' = "await" /\ reader[t].at = "none"
    BY <1>1 DEF Announce, ProcessStep, ReaderOk, ReaderRuns
  <2>2. /\ reader'[t].at = "read" /\ reader'[t].sent = reader[t].sent
        /\ reader'[t].taken = reader[t].taken
    BY <1>1 DEF Announce, FunctionTypes, Readers
  <2>3. Delivery(t)'
    BY <2>1, <2>2 DEF ReaderOk, Delivery
  <2>4. child # "none"
    BY <2>1 DEF ChildInv, Starting
  <2> QED BY <2>1, <2>2, <2>3, <2>4 DEF ReaderOk, ReaderRuns, ReaderOffsets, Drained,
          Sending, Starting
<1>2. CASE ~Announce
  <2>1. UNCHANGED <<readers, written, canceled, waited, exitMark, kin>>
    BY <1>2 DEF RunnerNext, Validate, Prepare, StartChild, StartFails, DoNotStart, Await,
       PollGone, Kill, Settle, Join, ProcessStep
  <2>2. /\ "stream" \in faults => "stream" \in faults'
        /\ child' = child \/ reader[t].at = "none"
    BY <1>2 DEF RunnerNext, Validate, Prepare, StartChild, StartFails, DoNotStart, Await,
       Signaled, PollGone, Kill, Settle, Join, ReaderOk, ReaderRuns, Starting
  <2>3. Delivery(t)' /\ ReaderOffsets(t)'
    BY <2>1, DeliveryKept DEF ReaderOk, ReaderOffsets
  <2>4. Drained(t)'
    BY <2>1, <2>2 DEF ReaderOk, Drained, Writers
  <2>5. ReaderRuns(t)'
    <3> USE <2>1 DEF ReaderOk, ReaderRuns, ChildInv, FunctionTypes, Starting
    <3>1. CASE Validate BY <3>1 DEF Validate, DoNotStart
    <3>2. CASE Prepare BY <3>2 DEF Prepare, DoNotStart
    <3>3. CASE StartChild BY <3>3 DEF StartChild
    <3>4. CASE StartFails BY <3>4 DEF StartFails, DoNotStart
    <3>5. CASE Await BY <3>5 DEF Await
    <3>6. CASE PollGone BY <3>6 DEF PollGone, CloseAllPipes, ClosedIfCanceled
    <3>7. CASE Kill BY <3>7 DEF Kill, CloseAllPipes, ClosedIfCanceled
    <3>8. CASE Settle BY <3>8 DEF Settle
    <3>9. CASE Join BY <3>9 DEF Join
    <3> QED BY <1>2, <3>1, <3>2, <3>3, <3>4, <3>5, <3>6, <3>7, <3>8, <3>9 DEF RunnerNext
  <2> QED BY <2>3, <2>4, <2>5 DEF ReaderOk
<1> QED BY <1>1, <1>2

\* The child and its group, the goroutine that waits for it, and the caller.
LEMMA GroupKeepsReaders ==
    ASSUME ScalarTypes, FunctionTypes, ChildInv, ProcessStep, NEW t \in Streams, ReaderOk(t),
           \/ \E s \in Streams : GroupWrites(s)
           \/ ChildForks \/ ChildExits \/ KinExits
           \/ Reap \/ WaitReturns \/ CancelProcess
    PROVE  ReaderOk(t)'
<1> USE DEF runner, group, files, readers
<1>1. UNCHANGED <<readers, pipe, pc, faults>> /\ (canceled => canceled')
  BY DEF GroupWrites, ChildForks, ChildExits, KinExits, Reap, WaitReturns, CancelProcess
<1>2. Delivery(t)'
  BY <1>1, DeliveryKept DEF ReaderOk
<1>3. /\ written[t] \in Nat /\ reader[t].sent \in Nat /\ reader[t].taken \in Nat
      /\ exitMark[t] \in Nat
  BY OutputAssumption DEF FunctionTypes, Readers, ReaderOk, Drained
<1>4. CASE \E s \in Streams : GroupWrites(s)
  <2>1. PICK s \in Streams : GroupWrites(s)
    BY <1>4
  <2>2. UNCHANGED <<child, kin, waited, canceled, exitMark>> /\ Writers
    BY <2>1 DEF GroupWrites, ProcessStep
  <2>3. written'[t] \in {written[t], written[t] + 1}
    BY <2>1 DEF GroupWrites, FunctionTypes
  <2> QED BY <1>1, <1>2, <1>3, <2>2, <2>3
          DEF ReaderOk, ReaderRuns, ReaderOffsets, Drained, Writers
<1>5. CASE ChildForks \/ ChildExits \/ KinExits \/ Reap \/ CancelProcess
  <2>1. UNCHANGED <<written, waited, exitMark>>
    BY <1>5 DEF ChildForks, ChildExits, KinExits, Reap, CancelProcess, ProcessStep
  <2>2. (Writers' => Writers) /\ (child' = "none" <=> child = "none")
    BY <1>5 DEF ChildForks, ChildExits, KinExits, Reap, CancelProcess, Writers, ScalarTypes
  <2> QED BY <1>1, <1>2, <2>1, <2>2 DEF ReaderOk, ReaderRuns, ReaderOffsets, Drained
<1>6. CASE WaitReturns
  <2>1. /\ UNCHANGED <<written, child, kin, canceled>>
        /\ ~waited /\ waited' /\ exitMark' = written
    BY <1>6 DEF WaitReturns, ProcessStep
  <2> QED BY <1>1, <1>2, <1>3, <2>1 DEF ReaderOk, ReaderRuns, ReaderOffsets, Drained, Writers
<1> QED BY <1>4, <1>5, <1>6

\* The steps of the reader of the same stream, and of another one.
LEMMA ReaderKeepsReaders ==
    ASSUME ScalarTypes, FunctionTypes, ChildInv, ProcessStep, NEW t \in Streams, ReaderOk(t),
           NEW s \in Streams, ReaderNext(s) \/ ReadFails(s)
    PROVE  ReaderOk(t)'
<1>1. PICK r : ReaderStep(s, r)
  BY DEF ReaderNext, ReadChunks, SendChunks, DropChunks, ReadEnd, ReadTimesOut, ReadClosed,
     ReadFails
<1>2. /\ UNCHANGED <<pc, canceled, child, kin, waited, pipe, written, exitMark>>
      /\ UNCHANGED Writers
      /\ "stream" \in faults => "stream" \in faults'
  BY <1>1 DEF ReaderStep, ProcessStep, group, files, Writers, ReaderNext, ReadChunks,
     SendChunks, DropChunks, ReadEnd, ReadTimesOut, ReadClosed, ReadFails
<1>3. CASE s # t
  <2>1. UNCHANGED <<reader[t], delivered[t]>>
    BY <1>1, <1>3 DEF ReaderStep, FunctionTypes, ReaderNext, ReadChunks,
       SendChunks, DropChunks, ReadEnd, ReadTimesOut, ReadClosed, ReadFails
  <2> QED BY <1>2, <2>1 DEF ReaderOk, ReaderRuns, ReaderOffsets, Delivery, Drained
<1>4. CASE s = t
  <2>1. /\ reader[t].sent \in 0..MaxOutput /\ reader[t].taken \in 0..MaxOutput
        /\ written[t] \in 0..MaxOutput /\ exitMark[t] \in Nat /\ MaxOutput \in Nat
        /\ reader[t] \in Readers /\ reader[t].sent <= reader[t].taken
        /\ reader[t].taken <= written[t] /\ exitMark[t] <= written[t]
    BY OutputAssumption DEF FunctionTypes, Readers, ReaderOk, ReaderOffsets, Drained
  <2>2. reader' = [reader EXCEPT ![t] = r]
    BY <1>1, <1>4 DEF ReaderStep
  <2>3. reader'[t] = r
    BY <2>2 DEF FunctionTypes
  <2> USE <1>2, <2>1, <2>3
  <2>4. CASE ReadChunks(t)
    <3>1. PICK n \in (reader[t].taken + 1)..written[t] :
             ReaderStep(t, [reader[t] EXCEPT
                !.at = IF @ = "read" THEN "send" ELSE "drain_send", !.taken = n])
      BY <2>4 DEF ReadChunks
    <3>2. /\ reader'[t].at = IF reader[t].at = "read" THEN "send" ELSE "drain_send"
          /\ reader'[t].taken = n /\ reader'[t].sent = reader[t].sent
      BY <3>1 DEF ReaderStep, FunctionTypes, Readers
    <3>3. reader[t].at \in {"read", "drain"} /\ UNCHANGED <<delivered, faults>>
      BY <2>4 DEF ReadChunks
    <3>4. Delivery(t)'
      BY <3>2, <3>3 DEF ReaderOk, Delivery
    <3> QED BY <3>2, <3>3, <3>4 DEF ReaderOk, ReaderRuns, ReaderOffsets, Drained, Sending,
            Starting
  <2>5. CASE SendChunks(t)
    <3>1. /\ reader'[t].at = IF reader[t].at = "send" THEN "read" ELSE "drain"
          /\ reader'[t].taken = reader[t].taken /\ reader'[t].sent = reader[t].taken
      BY <2>5 DEF SendChunks, ReaderStep, FunctionTypes, Readers
    <3>2. /\ reader[t].at \in Sending
          /\ delivered'[t] = delivered[t] \union ((reader[t].sent + 1)..reader[t].taken)
      BY <2>5 DEF SendChunks, Sending, FunctionTypes
    <3>3. reader[t].sent < reader[t].taken
      BY <3>2 DEF ReaderOk, ReaderOffsets
    <3>4. Delivery(t)'
      <4>1. \A x \in delivered[t] : x \in 0..MaxOutput /\ x <= reader[t].sent
        BY DEF ReaderOk, Delivery, FunctionTypes
      <4>2. /\ reader[t].taken \in delivered'[t]
            /\ \A x \in delivered'[t] : x <= reader[t].taken
        BY <3>2, <3>3, <4>1
      <4>3. ~canceled => delivered'[t] = 1..reader[t].taken
        BY <3>2, <3>3 DEF ReaderOk, Delivery
      <4> QED BY <3>1, <4>2, <4>3 DEF Delivery
    <3> QED BY <3>1, <3>2, <3>4 DEF ReaderOk, ReaderRuns, ReaderOffsets, Drained, Sending,
            Starting
  <2>6. CASE DropChunks(t)
    <3>1. /\ reader'[t].at = IF reader[t].at = "send" THEN "read" ELSE "ended"
          /\ reader'[t].taken = reader[t].taken /\ reader'[t].sent = reader[t].taken
      BY <2>6 DEF DropChunks, ReaderStep, FunctionTypes, Readers
    <3>2. canceled /\ reader[t].at \in Sending /\ UNCHANGED delivered
      BY <2>6 DEF DropChunks, Sending
    <3>3. Delivery(t)'
      <4>1. PICK m \in delivered[t] \union {0} :
               m <= reader[t].sent /\ \A x \in delivered[t] : x <= m
        BY DEF ReaderOk, Delivery
      <4>2. m <= reader[t].taken
        BY <4>1 DEF FunctionTypes
      <4> QED BY <3>1, <3>2, <4>1, <4>2 DEF Delivery
    <3> QED BY <3>1, <3>2, <3>3 DEF ReaderOk, ReaderRuns, ReaderOffsets, Drained, Sending,
            Starting
  <2>7. CASE ReadEnd(t) \/ ReadTimesOut(t) \/ ReadClosed(t) \/ ReadFails(t)
    <3>1. /\ reader'[t].at \in {"drain", "ended"} /\ reader[t].at \in {"read", "drain"}
          /\ reader'[t].taken = reader[t].taken /\ reader'[t].sent = reader[t].sent
          /\ UNCHANGED delivered
      BY <2>7 DEF ReadEnd, ReadTimesOut, ReadClosed, ReadFails, ReaderStep, FunctionTypes,
         Readers
    <3>2. Delivery(t)' /\ ReaderOffsets(t)'
      BY <3>1 DEF ReaderOk, Delivery, ReaderOffsets, Sending
    <3>3. reader'[t].at = "drain" => pipe[t] = "expired"
      BY <2>7 DEF ReadEnd, ReadTimesOut, ReadClosed, ReadFails, ReaderStep, FunctionTypes,
         Readers
    <3>4. ReaderRuns(t)'
      BY <3>1, <3>3 DEF ReaderOk, ReaderRuns, Starting
    <3>5. reader'[t].at = "ended" /\ ~canceled /\ "stream" \notin faults' =>
              /\ reader[t].taken = written[t]
              /\ reader[t].at = "read" => ~Writers
      BY <2>7 DEF ReadEnd, ReadTimesOut, ReadClosed, ReadFails, ReaderStep, FunctionTypes,
         Readers
    <3>6. reader[t].at = "drain" => waited
      BY DEF ReaderOk, ReaderRuns
    <3>7. Drained(t)'
      BY <3>1, <3>5, <3>6 DEF ReaderOk, ReaderOffsets, Drained, Sending
    <3> QED BY <3>2, <3>4, <3>7 DEF ReaderOk
  <2> QED BY <1>4, <2>4, <2>5, <2>6, <2>7 DEF ReaderNext
<1> QED BY <1>3, <1>4

\* The controls.
LEMMA ControlKeepsReaders ==
    ASSUME ProcessStep, NEW t \in Streams, ReaderOk(t), NEW c \in Controls,
           CancelControl(c) \/ FinishWrite(c) \/ ControlNext(c)
    PROVE  ReaderOk(t)'
<1>1. UNCHANGED <<runner, canceled, group, pipe, readers, exitMark>>
  BY DEF CancelControl, FinishWrite, ControlNext, PrepareControl, CloseInput, StartWrite,
     WriteBreaks, Signal, ControlStep, ProcessStep, group
<1> QED BY <1>1 DEF runner, group, readers, ReaderOk, ReaderRuns, ReaderOffsets, Delivery,
        Drained, Writers

LEMMA TypesSplit == TypeOK <=> ScalarTypes /\ FunctionTypes
BY DEF TypeOK, ScalarTypes, FunctionTypes, Readers

LEMMA ProcessKeeps == ASSUME IInv, ProcessStep PROVE IInv'
<1>1. ScalarTypes /\ FunctionTypes
  BY TypesSplit DEF IInv
<1>2. TypeOK'
  <2>1. ScalarTypes' /\ FunctionTypes'
    BY <1>1, ScalarStep, FunctionStep DEF ProcessStep
  <2> QED BY <2>1 DEF TypeOK, ScalarTypes, FunctionTypes, Readers
<1>3. IsProcess /\ UNCHANGED <<kind, mode, IsProcess>>
  BY OneInvocation DEF IInv, ProcessStep, ioVars, sseVars, IsProcess
<1>4. KindInv'
  BY <1>3 DEF KindInv, IInv, ProcessStep, ioVars
<1>5. RunnerInv'
  BY <1>1, <1>3, ChildStep, GroupStep DEF IInv, RunnerInv
<1>6. ASSUME NEW t \in Streams PROVE ReaderOk(t)'
  <2>1. ReaderOk(t) /\ ChildInv
    BY DEF IInv, ReaderInv, ReaderOk, RunnerInv
  <2>2. CASE RunnerNext
    BY <1>1, <2>1, <2>2, RunnerKeepsReaders
  <2>3. CASE \E s \in Streams : ReaderNext(s) \/ ReadFails(s)
    BY <1>1, <2>1, <2>3, ReaderKeepsReaders
  <2>4. CASE \E c \in Controls : CancelControl(c) \/ FinishWrite(c) \/ ControlNext(c)
    BY <2>1, <2>4, ControlKeepsReaders
  <2>5. CASE \/ \E s \in Streams : GroupWrites(s)
             \/ ChildForks \/ ChildExits \/ KinExits \/ Reap \/ WaitReturns \/ CancelProcess
    BY <1>1, <2>1, <2>5, GroupKeepsReaders
  <2> QED BY <2>2, <2>3, <2>4, <2>5 DEF ProcessStep, ProcessNext, GroupNext
<1>7. ReaderInv'
  BY <1>6 DEF ReaderInv, ReaderOk
<1>8. IOTypeOK' /\ IOInv'
  BY DEF IInv, ProcessStep, ioVars, IOTypeOK, IOInv, PlaceInv, ReadInv, CreateInv, Wanted
<1> QED BY <1>2, <1>4, <1>5, <1>7, <1>8 DEF IInv

-----------------------------------------------------------------------------
\* A step of one of the other primitives.
LEMMA CheckCases ==
    ASSUME Check
    PROVE  Finish("failed") \/ (ioCtx /\ Finish("canceled")) \/ Goto(FirstPlace)
BY Zenon DEF Check

LEMMA FirstPlaces ==
    ASSUME kind \in Kinds
    PROVE  FirstPlace = CASE kind = "read"    -> "inspect"
                          [] kind = "create"  -> "create"
                          [] kind = "compute" -> "run"
                          [] OTHER            -> "sleep"
BY KindsAssumption DEF FirstPlace

LEMMA IOTypes ==
    ASSUME IOTypeOK, IOInv, IONext, kind = "none" => at = "done"
    PROVE  IOTypeOK'
<1> USE IOBoundsAssumption DEF IOTypeOK, Goto, Finish, reading, creating
<1>1. CASE Check
  <2>1. at = "check" /\ UNCHANGED <<reading, creating>>
    BY <1>1 DEF Check
  <2>2. FirstPlace \in {"inspect", "create", "run", "sleep"}
    BY <2>1, FirstPlaces
  <2> QED BY <1>1, <2>1, <2>2, CheckCases
<1>2. CASE Inspect BY <1>2 DEF Inspect
<1>3. CASE Read BY <1>3 DEF Read
<1>4. CASE Send
  <2>1. next \in 1..MaxSize
    BY <1>4 DEF Send, IOInv, ReadInv, Wanted
  <2>2. next + 1 \in 0..MaxSize + 1 /\ sent \union {next} \subseteq 1..MaxSize
    BY <2>1
  <2> QED BY <1>4, <2>2 DEF Send
<1>5. CASE Verify BY <1>5 DEF Verify
<1>6. CASE CloseCanceled \/ AnswerRead BY <1>6 DEF CloseCanceled, AnswerRead
<1>7. CASE CreateEntry BY <1>7 DEF CreateEntry, Entries
<1>8. CASE ReuseEntry BY <1>8 DEF ReuseEntry
<1>9. CASE SyncEntry BY <1>9 DEF SyncEntry
<1>10. CASE ComputeReturns \/ TimerWakes BY <1>10 DEF ComputeReturns, TimerWakes
<1>11. CASE CancelIO \/ FileResized BY <1>11 DEF CancelIO, FileResized
<1>12. CASE EntryChanged BY <1>12 DEF EntryChanged, Entries
<1> QED BY <1>1, <1>2, <1>3, <1>4, <1>5, <1>6, <1>7, <1>8, <1>9, <1>10, <1>11, <1>12
        DEF IONext, IOStep

LEMMA PlaceStep ==
    ASSUME IOTypeOK, PlaceInv, IONext, kind = "none" => at = "done"
    PROVE  PlaceInv' /\ (kind' = "none" => at' = "done")
<1> USE DEF PlaceInv, Goto, Finish
<1>1. CASE Check
  <2>1. at = "check" /\ kind \in Kinds
    BY <1>1 DEF Check, IOTypeOK
  <2> QED BY <2>1, CheckCases, FirstPlaces, <1>1, KindsAssumption
<1>2. CASE Inspect BY <1>2 DEF Inspect
<1>3. CASE Read BY <1>3 DEF Read
<1>4. CASE Send BY <1>4 DEF Send
<1>5. CASE Verify BY <1>5 DEF Verify
<1>6. CASE CloseCanceled \/ AnswerRead BY <1>6 DEF CloseCanceled, AnswerRead
<1>7. CASE CreateEntry BY <1>7 DEF CreateEntry
<1>8. CASE ReuseEntry BY <1>8 DEF ReuseEntry
<1>9. CASE SyncEntry BY <1>9 DEF SyncEntry
<1>10. CASE ComputeReturns \/ TimerWakes BY <1>10 DEF ComputeReturns, TimerWakes
<1>11. CASE CancelIO \/ FileResized \/ EntryChanged
  BY <1>11 DEF CancelIO, FileResized, EntryChanged
<1> QED BY <1>1, <1>2, <1>3, <1>4, <1>5, <1>6, <1>7, <1>8, <1>9, <1>10, <1>11
        DEF IONext, IOStep

\* A read that has sent a prefix of what it wants, and no longer wants the next
\* position, has sent all of it.
LEMMA AllSent ==
    ASSUME IOTypeOK, ReadInv, next > input.offset, next \notin Wanted(seen)
    PROVE  sent = Wanted(seen)
<1>1. next \in Nat /\ input.offset \in Nat /\ input.count \in Nat /\ seen \in Nat
  BY IOBoundsAssumption DEF IOTypeOK
<1>2. ASSUME NEW p \in Wanted(seen), p \notin sent PROVE FALSE
  <2>1. /\ p \in 1..seen /\ p > input.offset /\ p <= input.offset + input.count
    BY DEF Wanted
  <2>2. p >= next
    BY <1>1, <1>2, <2>1 DEF ReadInv
  <2>3. next \in Wanted(seen)
    BY <1>1, <2>1, <2>2 DEF Wanted
  <2> QED BY <2>3
<1> QED BY <1>2 DEF ReadInv

LEMMA ReadStep ==
    ASSUME IOTypeOK, PlaceInv, ReadInv, IONext, kind = "none" => at = "done"
    PROVE  ReadInv'
<1>1. /\ next \in Nat /\ input.offset \in Nat /\ seen \in Nat
  BY IOBoundsAssumption DEF IOTypeOK
<1>2. CASE Check
  <2>1. at = "check" /\ UNCHANGED <<reading, kind, input>>
    BY <1>2, CheckCases DEF Check, Goto, Finish
  <2>2. kind \in Kinds
    BY <2>1 DEF IOTypeOK
  <2>3. /\ at' \in {"inspect", "create", "run", "sleep", "done"}
        /\ answer' # "completed"
    BY <1>2, <2>1, <2>2, CheckCases, FirstPlaces DEF Goto, Finish, PlaceInv
  <2> QED BY <2>1, <2>3 DEF ReadInv, Wanted, reading
<1>3. CASE Inspect
  <2>1. /\ at = "inspect" /\ UNCHANGED <<sent, input, kind>> /\ answer' # "completed"
        /\ \/ at' = "done" /\ UNCHANGED <<seen, next>>
           \/ at' = "read" /\ next' = input.offset + 1
    BY <1>3 DEF Inspect, Goto, Finish, PlaceInv
  <2>2. next = 0 /\ sent = (input.offset + 1)..(next - 1)
    BY <2>1 DEF ReadInv
  <2>3. sent = {} /\ sent' = {}
    BY <1>1, <2>1, <2>2
  <2>4. sent' = (input'.offset + 1)..(next' - 1)
    BY <1>1, <2>1, <2>2, <2>3
  <2> QED BY <1>1, <2>1, <2>3, <2>4 DEF ReadInv
<1>4. CASE Read
  <2>1. /\ UNCHANGED <<reading, kind, input>> /\ answer' # "completed"
        /\ at = "read" /\ at' \in {"close", "send", "done"} /\ next \in Wanted(seen)
    BY <1>4 DEF Read, Goto, Finish, PlaceInv
  <2> QED BY <2>1 DEF ReadInv, Wanted, reading
<1>5. CASE Send
  <2>1. /\ UNCHANGED <<seen, kind, input>> /\ answer' # "completed" /\ at = "send"
        /\ \/ at' = "read" /\ next' = next + 1 /\ sent' = sent \union {next}
           \/ at' = "close" /\ UNCHANGED <<next, sent>>
    BY <1>5 DEF Send, Goto, PlaceInv
  <2>2. /\ next > input.offset /\ sent = (input.offset + 1)..(next - 1)
        /\ next \in Wanted(seen) /\ sent \subseteq Wanted(seen)
    BY <2>1 DEF ReadInv
  <2>3. (input.offset + 1)..next = ((input.offset + 1)..(next - 1)) \union {next}
    BY <1>1, <2>2
  <2>4. CASE at' = "read" /\ next' = next + 1 /\ sent' = sent \union {next}
    <3>1. next' - 1 = next /\ next' > input.offset
      BY <1>1, <2>2, <2>4
    <3>2. sent' = (input.offset + 1)..(next' - 1)
      BY <2>2, <2>3, <2>4, <3>1
    <3> QED BY <2>1, <2>2, <2>4, <3>1, <3>2 DEF ReadInv, Wanted
  <2>5. CASE at' = "close" /\ UNCHANGED <<next, sent>>
    BY <2>1, <2>2, <2>5 DEF ReadInv, Wanted
  <2> QED BY <2>1, <2>4, <2>5
<1>6. CASE Verify
  <2>1. /\ UNCHANGED <<reading, kind, input>> /\ answer' # "completed"
        /\ at = "read" /\ at' \in {"close", "answer", "done"} /\ next \notin Wanted(seen)
    BY <1>6 DEF Verify, Goto, Finish, PlaceInv
  <2> QED BY <2>1 DEF ReadInv, Wanted, reading
<1>7. CASE CloseCanceled \/ CreateEntry \/ ReuseEntry
  <2>1. /\ UNCHANGED <<reading, kind, input>> /\ answer' # "completed"
        /\ at' \in {"done", "sync", "reuse", "create"}
    BY <1>7 DEF CloseCanceled, CreateEntry, ReuseEntry, Goto, Finish, PlaceInv
  <2> QED BY <2>1 DEF ReadInv, Wanted, reading
<1>8. CASE AnswerRead
  <2>1. /\ UNCHANGED <<reading, kind, input>> /\ at = "answer" /\ at' = "done"
    BY <1>8 DEF AnswerRead, Goto, Finish
  <2>2. sent = Wanted(seen)
    BY <2>1, AllSent DEF ReadInv
  <2> QED BY <2>1, <2>2 DEF ReadInv, Wanted, reading
<1>9. CASE SyncEntry \/ ComputeReturns \/ TimerWakes
  <2>1. /\ UNCHANGED <<reading, kind, input>> /\ kind # "read" /\ at' = "done"
    BY <1>9 DEF SyncEntry, ComputeReturns, TimerWakes, Goto, Finish, PlaceInv
  <2> QED BY <2>1 DEF ReadInv, Wanted, reading
<1>10. CASE CancelIO \/ FileResized \/ EntryChanged
  <2>1. UNCHANGED <<kind, input, at, answer, seen, next, sent>>
    BY <1>10 DEF CancelIO, FileResized, EntryChanged, reading
  <2> QED BY <2>1 DEF ReadInv, Wanted
<1> QED BY <1>2, <1>3, <1>4, <1>5, <1>6, <1>7, <1>8, <1>9, <1>10 DEF IONext, IOStep

LEMMA CreateStep ==
    ASSUME IOTypeOK, PlaceInv, CreateInv, IONext, kind = "none" => at = "done"
    PROVE  CreateInv'
<1> USE DEF CreateInv, PlaceInv, Goto, Finish
<1>1. CASE Check
  <2>1. at = "check" /\ UNCHANGED <<creating, kind, input>>
    BY <1>1, CheckCases DEF Check
  <2>2. kind \in Kinds
    BY <2>1 DEF IOTypeOK
  <2>3. at' # "sync" /\ answer' # "completed"
    BY <1>1, <2>1, <2>2, CheckCases, FirstPlaces
  <2> QED BY <2>1, <2>3
<1>2. CASE Inspect \/ Read \/ Send \/ Verify \/ CloseCanceled \/ AnswerRead
  <2>1. /\ UNCHANGED <<creating, input, kind>> /\ kind = "read"
        /\ at' \in {"read", "send", "close", "answer", "done"}
    BY <1>2 DEF Inspect, Read, Send, Verify, CloseCanceled, AnswerRead
  <2> QED BY <2>1
<1>3. CASE CreateEntry BY <1>3 DEF CreateEntry, reading
<1>4. CASE ReuseEntry
  <2>1. entry \in Entries /\ input.entry \in {"file", "directory"}
    BY DEF IOTypeOK
  <2> QED BY <1>4, <2>1 DEF ReuseEntry, reading
<1>5. CASE SyncEntry BY <1>5 DEF SyncEntry, reading
<1>6. CASE ComputeReturns \/ TimerWakes BY <1>6 DEF ComputeReturns, TimerWakes, creating
<1>7. CASE CancelIO \/ FileResized BY <1>7 DEF CancelIO, FileResized, creating
<1>8. CASE EntryChanged
  <2>1. meddling \in Nat /\ meddling' > 0
    BY <1>8, IOBoundsAssumption DEF EntryChanged, IOTypeOK
  <2> QED BY <2>1
<1> QED BY <1>1, <1>2, <1>3, <1>4, <1>5, <1>6, <1>7, <1>8 DEF IONext, IOStep

IOStepOfNext == IONext /\ UNCHANGED <<procVars, sseVars, exitMark>>

SSEStep == SSENext /\ UNCHANGED <<procVars, ioVars, exitMark>>

\* What only process variables are read in is kept while they stay.
LEMMA ProcessIdles ==
    ASSUME TypeOK, RunnerInv, ReaderInv, UNCHANGED <<procVars, exitMark, IsProcess>>
    PROVE  TypeOK' /\ RunnerInv' /\ ReaderInv'
<1>1. TypeOK'
  BY DEF TypeOK, procVars
<1>2. RunnerInv'
  BY DEF RunnerInv, ChildInv, GroupInv, procVars
<1>3. ReaderInv'
  BY DEF ReaderInv, ReaderRuns, ReaderOffsets, Delivery, Drained, Writers, procVars
<1> QED BY <1>1, <1>2, <1>3

LEMMA IOKeeps == ASSUME IInv, IOStepOfNext PROVE IInv'
<1>1. /\ IOTypeOK /\ IOInv /\ PlaceInv /\ ReadInv /\ CreateInv /\ IONext
      /\ kind = "none" => at = "done"
  BY DEF IInv, IOInv, KindInv, IOStepOfNext
<1>2. IOTypeOK' /\ IOInv' /\ (kind' = "none" => at' = "done")
  BY <1>1, IOTypes, PlaceStep, ReadStep, CreateStep DEF IOInv
<1>3. UNCHANGED kind
  BY <1>1, CheckCases DEF IONext, IOStep, Check, Inspect, Read, Send, Verify,
     CloseCanceled, AnswerRead, CreateEntry, ReuseEntry, SyncEntry, ComputeReturns,
     TimerWakes, CancelIO, FileResized, EntryChanged, Goto, Finish
<1>4. UNCHANGED <<procVars, exitMark, IsProcess>>
  BY <1>3 DEF IOStepOfNext, IsProcess, sseVars
<1>5. TypeOK' /\ RunnerInv' /\ ReaderInv'
  BY <1>4, ProcessIdles DEF IInv
<1>6. KindInv'
  BY <1>2, <1>4 DEF KindInv, IInv, procVars
<1> QED BY <1>2, <1>5, <1>6 DEF IInv

LEMMA SSEKeeps == ASSUME IInv, SSEStep PROVE IInv' /\ UNCHANGED mode
<1>1. UNCHANGED mode
  BY DEF SSEStep, SSENext, AppendChunk, FinishStream
<1>2. UNCHANGED <<procVars, ioVars, exitMark, IsProcess>>
  BY <1>1 DEF SSEStep, IsProcess, ioVars
<1>3. TypeOK' /\ RunnerInv' /\ ReaderInv'
  BY <1>2, ProcessIdles DEF IInv
<1>4. IOTypeOK' /\ IOInv'
  BY <1>2 DEF IInv, ioVars, IOTypeOK, IOInv, PlaceInv, ReadInv, CreateInv, Wanted
<1>5. KindInv'
  BY <1>2 DEF KindInv, IInv, procVars, ioVars
<1> QED BY <1>1, <1>3, <1>4, <1>5 DEF IInv

LEMMA NextCases == Next => ProcessStep \/ IOStepOfNext \/ SSEStep
BY DEF Next, ProcessStep, IOStepOfNext, SSEStep

LEMMA Staying == ASSUME IInv, UNCHANGED vars PROVE IInv'
<1>1. UNCHANGED <<procVars, ioVars, exitMark, IsProcess>>
  BY DEF vars, sseVars, IsProcess, ioVars
<1>2. TypeOK' /\ RunnerInv' /\ ReaderInv'
  BY <1>1, ProcessIdles DEF IInv
<1>3. IOTypeOK' /\ IOInv'
  BY <1>1 DEF IInv, ioVars, IOTypeOK, IOInv, PlaceInv, ReadInv, CreateInv, Wanted
<1>4. KindInv'
  BY <1>1 DEF KindInv, IInv, procVars, ioVars
<1> QED BY <1>2, <1>3, <1>4 DEF IInv

LEMMA Induction == Spec => []IInv
<1>1. Init => IInv
  BY Beginning
<1>2. IInv /\ [Next]_vars => IInv'
  BY ProcessKeeps, IOKeeps, SSEKeeps, Staying, NextCases
<1> QED BY <1>1, <1>2, PTL DEF Spec

-----------------------------------------------------------------------------
LEMMA DoneIsDone == IInv => CompletedMeansDone
<1> SUFFICES ASSUME IInv PROVE CompletedMeansDone
  OBVIOUS
<1>1. ASSUME IsProcess, ProcessOutcome = "completed", ~canceled, "stream" \notin faults,
             NEW s \in Streams
      PROVE  1..exitMark[s] \subseteq delivered[s]
  <2>1. pc = "ended" /\ startErr = "none"
    BY <1>1 DEF ProcessOutcome, IInv, TypeOK
  <2>2. child # "none"
    BY <1>1, <2>1 DEF IInv, RunnerInv, ChildInv
  <2>3. waited
    BY <2>1, <2>2 DEF IInv, RunnerInv, ChildInv
  <2>4. ReaderRuns(s) /\ Delivery(s) /\ Drained(s)
    BY DEF IInv, ReaderInv
  <2>5. exitMark[s] <= reader[s].sent /\ delivered[s] = 1..reader[s].sent
    BY <1>1, <2>1, <2>2, <2>3, <2>4 DEF ReaderRuns, Delivery, Drained
  <2>6. exitMark[s] \in Nat /\ reader[s].sent \in Nat
    BY <2>4, OutputAssumption DEF IInv, TypeOK, Drained
  <2> QED BY <2>5, <2>6
<1> QED BY <1>1 DEF CompletedMeansDone, IInv, IOInv, ReadInv, CreateInv

LEMMA NothingRuns == IInv => NothingIsLeftRunning
<1> SUFFICES ASSUME IInv, IsProcess, pc = "ended"
             PROVE  /\ Started => waited /\ WaitCompleted
                    /\ kin => killed \/ ProcessOutcome = "failed"
                    /\ stdin # "open"
                    /\ \A s \in Streams :
                          pipe[s] # "open" /\ reader[s].at \in {"none", "ended"}
  BY DEF NothingIsLeftRunning, IInv
<1>1. (Started => waited /\ WaitCompleted) /\ stdin # "open"
  BY DEF IInv, RunnerInv, ChildInv, Started, WaitCompleted
<1>2. ASSUME kin, ~killed PROVE ProcessOutcome = "failed"
  <2>1. startErr = "none"
    BY <1>2 DEF IInv, RunnerInv, ChildInv
  <2>2. "refused" \in faults \ {"stream"}
    BY <1>2 DEF IInv, RunnerInv, GroupInv
  <2> QED BY <2>1, <2>2 DEF ProcessOutcome
<1>3. ASSUME NEW s \in Streams
      PROVE  pipe[s] # "open" /\ reader[s].at \in {"none", "ended"}
  BY DEF IInv, ReaderInv, ReaderRuns
<1> QED BY <1>1, <1>2, <1>3

\* A final event that says "completed" is true: a process has delivered all that
\* was in its pipes, a read all that was asked for, and a create has synced its
\* entry.
THEOREM Done == Spec => []CompletedMeansDone
BY Induction, DoneIsDone, PTL

\* Once the final event of a process is sent, nothing of it is left running or
\* open, and every variable keeps its type.
THEOREM NothingLeft == Spec => []NothingIsLeftRunning
BY Induction, NothingRuns, PTL

-----------------------------------------------------------------------------
\* The contract of all primitives.

LEMMA LastOf ==
    ASSUME NEW S \in SUBSET Nat, NEW m \in S, \A x \in S : x <= m
    PROVE  Contract!Max(S) = m
<1>1. \E x \in S : \A y \in S : x >= y
  <2>1. \A y \in S : m >= y
    OBVIOUS
  <2> QED BY <2>1
<1>2. Contract!Max(S) \in S /\ \A y \in S : Contract!Max(S) >= y
  BY <1>1 DEF Contract!Max
<1>3. PICK k : k = Contract!Max(S)
  OBVIOUS
<1>4. k \in S /\ k >= m
  BY <1>2, <1>3
<1>5. k <= m
  BY <1>4
<1>6. k \in Nat /\ m \in Nat
  BY <1>4
<1> QED BY <1>3, <1>4, <1>5, <1>6

LEMMA ContractInit == ASSUME Init PROVE Contract!Init
<1>1. Phase = "accepted"
  BY KindsAssumption DEF Init, ProcessInit, ProcessIdle, IOInit, IOIdle, SSEInit, SSEIdle,
     Phase, ProcessPhase, IOPhase, IsProcess, Started
<1>2. Canceled = FALSE /\ Outcome = "none"
  BY KindsAssumption DEF Init, ProcessInit, ProcessIdle, IOInit, IOIdle, SSEInit, SSEIdle,
     Canceled, Outcome, ProcessOutcome, IsProcess
<1>3. Delivered = [s \in Streams |-> {}]
  <2>1. delivered = [s \in Streams |-> {}] /\ sent = {}
    BY DEF Init, ProcessInit, ProcessIdle, IOInit, IOIdle
  <2>2. {p - input.offset : p \in sent} = {}
    BY <2>1
  <2> QED BY <2>1, <2>2 DEF Delivered
<1> QED BY <1>1, <1>2, <1>3 DEF Contract!Init

\* What a caller sees of a process.
SeenProcess ==
    /\ IsProcess /\ UNCHANGED IsProcess
    /\ Phase = ProcessPhase /\ Phase' = ProcessPhase'
    /\ Canceled = canceled /\ Canceled' = canceled'
    /\ Delivered = delivered /\ Delivered' = delivered'
    /\ Outcome = ProcessOutcome /\ Outcome' = ProcessOutcome'

LEMMA ProcessIsSeen == ASSUME IInv, ProcessStep PROVE SeenProcess
<1>1. IsProcess /\ UNCHANGED IsProcess
  BY OneInvocation DEF IInv, ProcessStep, ioVars, sseVars, IsProcess
<1> QED BY <1>1 DEF SeenProcess, Phase, Canceled, Delivered, Outcome

LEMMA ProcessStutters ==
    ASSUME SeenProcess, UNCHANGED <<canceled, delivered, ProcessPhase, ProcessOutcome>>
    PROVE  UNCHANGED Contract!contractVars
BY DEF SeenProcess, Contract!contractVars

\* runProcess: the start is announced, or the process ends without one.
LEMMA RunnerImplements ==
    ASSUME IInv, SeenProcess, RunnerNext
    PROVE  [Contract!Next]_(Contract!contractVars)
<1>1. /\ ScalarTypes /\ ChildInv
  BY TypesSplit DEF IInv, RunnerInv
<1> USE <1>1 DEF runner, group, files, readers
<1>2. ASSUME NEW why \in {"failed", "canceled"}, DoNotStart(why), pc \in Starting,
             why = "canceled" => canceled
      PROVE  Contract!End
  <2>1. ProcessPhase = "accepted" /\ child = "none"
    BY <1>2 DEF ChildInv, ProcessPhase, Started, Starting
  <2>2. ProcessPhase' = "ended" /\ ProcessOutcome' = why
    BY <1>2 DEF DoNotStart, ProcessPhase, ProcessOutcome
  <2>3. UNCHANGED <<canceled, delivered>>
    BY <1>2 DEF DoNotStart
  <2> QED BY <1>2, <2>1, <2>2, <2>3 DEF SeenProcess, Contract!End, Contract!Outcomes
<1>3. CASE Validate \/ Prepare \/ StartChild \/ StartFails
  <2>1. CASE \/ DoNotStart("failed")
             \/ canceled /\ DoNotStart("canceled")
    <3>1. pc \in Starting
      BY <1>3 DEF Validate, Prepare, StartChild, StartFails, Starting
    <3> QED BY <1>2, <2>1, <3>1 DEF Contract!Next
  <2>2. CASE /\ pc \in Starting /\ pc' \in {"prepare", "start", "announce"}
             /\ UNCHANGED <<canceled, delivered>>
             /\ child' = child \/ pc' = "announce"
    <3>1. child = "none"
      BY <2>2 DEF ChildInv
    <3>2. UNCHANGED <<ProcessPhase, ProcessOutcome>>
      BY <2>2, <3>1 DEF ProcessPhase, ProcessOutcome, Started, Starting
    <3> QED BY <2>2, <3>2, ProcessStutters
  <2> QED BY <1>3, <2>1, <2>2 DEF Validate, Prepare, StartChild, StartFails, Starting
<1>4. CASE Announce
  <2>1. child # "none" /\ UNCHANGED <<child, canceled, delivered>>
    BY <1>4 DEF Announce, ChildInv, Starting
  <2>2. ProcessPhase = "accepted" /\ ProcessPhase' = "running"
    BY <1>4, <2>1 DEF Announce, ProcessPhase, Started
  <2>3. ProcessOutcome = "none" /\ ProcessOutcome' = "none"
    BY <1>4 DEF Announce, ProcessOutcome
  <2> QED BY <2>1, <2>2, <2>3 DEF SeenProcess, Contract!Start, Contract!Next
<1>5. CASE Await \/ PollGone \/ Kill \/ Settle
  <2>1. /\ pc \in {"await", "poll", "reap"} /\ pc' \in {"poll", "reap", "join"}
        /\ UNCHANGED <<canceled, delivered, child>>
    BY <1>5 DEF Await, PollGone, Kill, Settle
  <2>2. child # "none"
    BY <2>1 DEF ChildInv, Starting
  <2>3. UNCHANGED <<ProcessPhase, ProcessOutcome>>
    BY <2>1, <2>2 DEF ProcessPhase, ProcessOutcome, Started
  <2> QED BY <2>1, <2>3, ProcessStutters
<1>6. CASE Join
  <2>1. /\ pc = "join" /\ pc' = "ended"
        /\ UNCHANGED <<canceled, delivered, child, startErr, verdict, faults>>
    BY <1>6 DEF Join
  <2>2. child # "none" /\ startErr = "none" /\ (verdict = "cancel" => canceled)
    BY <2>1 DEF ChildInv, Starting
  <2>3. ProcessPhase = "running" /\ ProcessPhase' = "ended"
    BY <2>1, <2>2 DEF ProcessPhase, Started
  <2>4. /\ ProcessOutcome' \in {"failed", "canceled", "completed"}
        /\ ProcessOutcome' = "canceled" => canceled
    BY <2>1, <2>2 DEF ProcessOutcome
  <2> QED BY <2>1, <2>3, <2>4 DEF SeenProcess, Contract!End, Contract!Outcomes, Contract!Next
<1> QED BY <1>3, <1>4, <1>5, <1>6 DEF RunnerNext

\* A reader sends what follows the last event of its stream.
LEMMA SendImplements ==
    ASSUME IInv, SeenProcess, ProcessStep, NEW s \in Streams, SendChunks(s)
    PROVE  Contract!Output(s)
<1>1. /\ FunctionTypes /\ ChildInv /\ ReaderRuns(s) /\ ReaderOffsets(s) /\ Delivery(s)
  BY TypesSplit DEF IInv, RunnerInv, ReaderInv
<1>2. /\ reader[s].at \in Sending
      /\ delivered' = [delivered EXCEPT
            ![s] = @ \union ((reader[s].sent + 1)..reader[s].taken)]
      /\ UNCHANGED <<pc, child, startErr, verdict, faults, canceled>>
  BY DEF SendChunks, ReaderStep, Sending, group
<1>3. /\ reader[s].sent \in Nat /\ reader[s].taken \in 0..MaxOutput
      /\ MaxOutput \in Nat /\ MaxSize \in Nat
      /\ delivered[s] \in SUBSET Nat /\ reader[s].sent < reader[s].taken
  BY <1>1, <1>2, OutputAssumption, IOBoundsAssumption
     DEF FunctionTypes, Readers, ReaderOffsets
<1>4. ProcessPhase = "running" /\ UNCHANGED <<ProcessPhase, ProcessOutcome>>
  BY <1>1, <1>2 DEF ReaderRuns, ProcessPhase, ProcessOutcome, Started, Sending, Starting
<1>5. PICK m \in delivered[s] \union {0} :
         m <= reader[s].sent /\ \A x \in delivered[s] : x <= m
  BY <1>1 DEF Delivery
<1>6. Contract!Max(delivered[s] \union {0}) = m
  <2>1. delivered[s] \union {0} \in SUBSET Nat /\ \A x \in delivered[s] \union {0} : x <= m
    BY <1>3, <1>5
  <2> QED BY <2>1, LastOf
<1>7. m = reader[s].sent \/ canceled
  <2>1. ASSUME ~canceled PROVE m = reader[s].sent
    <3>1. delivered[s] = 1..reader[s].sent
      BY <1>1, <2>1 DEF Delivery
    <3> QED BY <1>3, <1>5, <3>1
  <2> QED BY <2>1
<1>8. Contract!Reached(s) = m
  BY <1>6 DEF Contract!Reached, SeenProcess
<1>9. /\ reader[s].sent + 1 \in (m + 1)..(MaxOutput + MaxSize)
      /\ reader[s].sent + 1 = m + 1 \/ canceled
      /\ reader[s].taken \in (reader[s].sent + 1)..(MaxOutput + MaxSize)
  BY <1>3, <1>5, <1>7
<1> QED BY <1>2, <1>4, <1>8, <1>9 DEF SeenProcess, Contract!Output

LEMMA ProcessImplements ==
    ASSUME IInv, ProcessStep
    PROVE  [Contract!Next]_(Contract!contractVars)
<1>1. SeenProcess /\ ScalarTypes /\ ChildInv
  BY ProcessIsSeen, TypesSplit DEF IInv, RunnerInv
<1>2. CASE RunnerNext
  BY <1>1, <1>2, RunnerImplements
<1>3. ASSUME NEW s \in Streams, SendChunks(s) PROVE Contract!Next
  BY <1>1, <1>3, SendImplements DEF Contract!Next
<1>4. CASE CancelProcess
  <2>1. /\ ~canceled /\ canceled' = TRUE
        /\ UNCHANGED <<delivered, ProcessPhase, ProcessOutcome>>
    BY <1>4 DEF CancelProcess, runner, group, readers, ProcessPhase, ProcessOutcome, Started
  <2> QED BY <1>1, <2>1 DEF SeenProcess, Contract!Cancel, Contract!Next
<1>5. ASSUME /\ UNCHANGED <<pc, canceled, delivered, startErr, verdict>>
             /\ child' = "none" <=> child = "none"
             /\ faults' \in {faults, faults \union {"stream"}}
      PROVE  UNCHANGED Contract!contractVars
  BY <1>1, <1>5, ProcessStutters DEF ProcessPhase, ProcessOutcome, Started
<1>6. CASE ChildForks \/ ChildExits \/ KinExits \/ Reap \/ WaitReturns
  BY <1>1, <1>5, <1>6 DEF ChildForks, ChildExits, KinExits, Reap, WaitReturns, runner,
     readers
<1>7. ASSUME NEW s \in Streams, GroupWrites(s) \/ ReadFails(s) \/ ReaderNext(s),
             ~SendChunks(s)
      PROVE  UNCHANGED Contract!contractVars
  BY <1>5, <1>7 DEF GroupWrites, ReadFails, ReaderNext, ReadChunks, DropChunks, ReadEnd,
     ReadTimesOut, ReadClosed, ReaderStep, runner, group, readers
<1>8. ASSUME NEW c \in Controls, CancelControl(c) \/ FinishWrite(c) \/ ControlNext(c)
      PROVE  UNCHANGED Contract!contractVars
  BY <1>5, <1>8 DEF CancelControl, FinishWrite, ControlNext, PrepareControl, CloseInput,
     StartWrite, WriteBreaks, Signal, ControlStep, runner, group, readers
<1> QED BY <1>2, <1>3, <1>4, <1>6, <1>7, <1>8 DEF ProcessStep, ProcessNext, GroupNext

\* What a caller sees of another primitive.
SeenIO ==
    /\ Phase = IOPhase /\ Phase' = IOPhase'
    /\ Canceled = ioCtx /\ Canceled' = ioCtx'
    /\ Outcome = answer /\ Outcome' = answer'
    /\ ~IsProcess /\ ~IsProcess'

LEMMA IOIsSeen == ASSUME IInv, IOStepOfNext PROVE SeenIO
<1>1. kind # "none"
  BY DEF IInv, KindInv, IOInv, PlaceInv, IOStepOfNext, IONext, IOStep, Check, Inspect, Read,
     Send, Verify, CloseCanceled, AnswerRead, CreateEntry, ReuseEntry, SyncEntry,
     ComputeReturns, TimerWakes, CancelIO, FileResized, EntryChanged
<1>2. UNCHANGED kind
  BY CheckCases DEF IOStepOfNext, IONext, IOStep, Check, Inspect, Read, Send, Verify,
     CloseCanceled, AnswerRead, CreateEntry, ReuseEntry, SyncEntry, ComputeReturns,
     TimerWakes, CancelIO, FileResized, EntryChanged, Goto, Finish
<1>3. ~IsProcess /\ ~IsProcess' /\ kind' # "none"
  BY <1>1, <1>2 DEF IsProcess
<1> QED BY <1>1, <1>3 DEF SeenIO, Phase, Canceled, Outcome

\* The steps that end the invocation or move it on, and those that change neither
\* what it has sent nor what it was asked for.
LEMMA IOMoves ==
    ASSUME SeenIO, UNCHANGED <<input, sent>>,
           \/ at # "check" /\ at # "done" /\ at' # "check" /\ at' # "done"
                 /\ UNCHANGED <<ioCtx, answer>>
           \/ UNCHANGED <<at, ioCtx, answer>>
           \/ at = "check" /\ at' \notin {"check", "done"} /\ UNCHANGED <<ioCtx, answer>>
           \/ at = "check" /\ (Finish("failed") \/ (ioCtx /\ Finish("canceled")))
           \/ at # "check" /\ at # "done" /\
                 (Finish("completed") \/ Finish("failed") \/ (ioCtx /\ Finish("canceled")))
    PROVE  [Contract!Next]_(Contract!contractVars)
<1>1. UNCHANGED Delivered
  BY DEF SeenIO, Delivered
<1>2. CASE UNCHANGED <<IOPhase, ioCtx, answer>>
  BY <1>1, <1>2 DEF SeenIO, Contract!contractVars
<1>3. CASE at = "check" /\ at' \notin {"check", "done"} /\ UNCHANGED <<ioCtx, answer>>
  BY <1>1, <1>3 DEF SeenIO, IOPhase, Contract!Start, Contract!Next
<1>4. CASE at = "check" /\ (Finish("failed") \/ (ioCtx /\ Finish("canceled")))
  BY <1>1, <1>4 DEF SeenIO, IOPhase, Finish, Contract!End, Contract!Outcomes, Contract!Next
<1>5. CASE at # "check" /\ at # "done" /\
              (Finish("completed") \/ Finish("failed") \/ (ioCtx /\ Finish("canceled")))
  BY <1>1, <1>5 DEF SeenIO, IOPhase, Finish, Contract!End, Contract!Outcomes, Contract!Next
<1>6. CASE \/ at # "check" /\ at # "done" /\ at' # "check" /\ at' # "done"
                 /\ UNCHANGED <<ioCtx, answer>>
           \/ UNCHANGED <<at, ioCtx, answer>>
  BY <1>2, <1>6 DEF IOPhase
<1> QED BY <1>3, <1>4, <1>5, <1>6

\* A chunk of a file is sent.
LEMMA SendFileImplements ==
    ASSUME IInv, SeenIO, Send
    PROVE  [Contract!Next]_(Contract!contractVars)
<1>1. CASE at' = "close"
  BY <1>1, IOMoves DEF Send, Goto
<1>2. CASE at' # "close"
  <2>1. /\ at = "send" /\ at' = "read" /\ UNCHANGED <<input, ioCtx, answer>>
        /\ sent' = sent \union {next}
    BY <1>2 DEF Send, Goto
  <2>2. /\ next \in 1..MaxSize /\ input.offset \in Nat /\ next > input.offset
        /\ sent = (input.offset + 1)..(next - 1)
    BY <2>1, IOBoundsAssumption DEF IInv, IOTypeOK, IOInv, ReadInv, Wanted
  <2> DEFINE n == next - input.offset
             Offsets(S) == {p - input.offset : p \in S}
  <2>3. n \in 1..MaxSize
    BY <2>2, IOBoundsAssumption
  <2>4. Offsets(sent) = 1..(n - 1)
    <3>1. ASSUME NEW k \in 1..(n - 1) PROVE k \in Offsets(sent)
      <4>1. k + input.offset \in sent /\ (k + input.offset) - input.offset = k
        BY <2>2, <3>1
      <4> QED BY <4>1
    <3>2. ASSUME NEW p \in sent PROVE p - input.offset \in 1..(n - 1)
      BY <2>2, <3>2
    <3> QED BY <3>1, <3>2
  <2>5. Offsets(sent') = Offsets(sent) \union n..n
    <3>1. n..n = {n}
      BY <2>3
    <3> QED BY <2>1, <3>1
  <2>6. /\ Delivered = [s \in Streams |-> IF s = stdout THEN Offsets(sent) ELSE {}]
        /\ Delivered' = [s \in Streams |-> IF s = stdout THEN Offsets(sent') ELSE {}]
    BY <2>1 DEF SeenIO, Delivered
  <2> HIDE DEF Offsets
  <2>7. /\ Delivered[stdout] = 1..(n - 1)
        /\ Delivered' = [Delivered EXCEPT ![stdout] = @ \union n..n]
    BY <2>4, <2>5, <2>6, StdoutAssumption
  <2>8. Contract!Reached(stdout) = n - 1
    <3>1. /\ Delivered[stdout] \union {0} \in SUBSET Nat /\ n - 1 \in Delivered[stdout] \union {0}
          /\ \A x \in Delivered[stdout] \union {0} : x <= n - 1
      BY <2>3, <2>7
    <3> QED BY <3>1, LastOf DEF Contract!Reached
  <2>9. /\ n \in ((n - 1) + 1)..(MaxOutput + MaxSize) /\ n = (n - 1) + 1
        /\ n \in n..(MaxOutput + MaxSize)
    BY <2>3, OutputAssumption, IOBoundsAssumption
  <2>10. Phase = "running" /\ UNCHANGED <<Phase, Canceled, Outcome>>
    BY <2>1 DEF SeenIO, IOPhase
  <2>11. Contract!Output(stdout)
    BY <2>7, <2>8, <2>9, <2>10 DEF Contract!Output
  <2> QED BY <2>11, StdoutAssumption DEF Contract!Next
<1> QED BY <1>1, <1>2

LEMMA IOImplements ==
    ASSUME IInv, IOStepOfNext
    PROVE  [Contract!Next]_(Contract!contractVars)
<1>1. /\ SeenIO /\ PlaceInv
      /\ kind = "none" => at = "done"
  BY IOIsSeen DEF IInv, IOInv, KindInv
<1> USE DEF reading, creating, Goto
<1>2. CASE Check
  <2>1. at = "check" /\ kind \in Kinds /\ UNCHANGED <<input, sent>>
    BY <1>1, <1>2, CheckCases DEF Check, Finish, IInv, IOTypeOK
  <2>2. FirstPlace \notin {"check", "done"}
    BY <2>1, FirstPlaces
  <2> QED BY <1>1, <1>2, <2>1, <2>2, CheckCases, IOMoves
<1>3. CASE Inspect BY <1>1, <1>3, IOMoves DEF Inspect, Finish
<1>4. CASE Read BY <1>1, <1>4, IOMoves DEF Read, Finish
<1>5. CASE Send BY <1>1, <1>5, SendFileImplements
<1>6. CASE Verify BY <1>1, <1>6, IOMoves DEF Verify, Finish
<1>7. CASE CloseCanceled
  <2>1. ioCtx /\ at = "close" /\ UNCHANGED <<input, sent>>
    BY <1>1, <1>7 DEF CloseCanceled, Finish, PlaceInv
  <2> QED BY <1>1, <1>7, <2>1, IOMoves DEF CloseCanceled
<1>8. CASE AnswerRead BY <1>1, <1>8, IOMoves DEF AnswerRead, Finish
<1>9. CASE CreateEntry BY <1>1, <1>9, IOMoves DEF CreateEntry, Finish
<1>10. CASE ReuseEntry
  <2>1. /\ at = "reuse" /\ UNCHANGED <<input, sent>>
        /\ Goto("sync") \/ Goto("create") \/ Finish("failed")
    BY <1>10 DEF ReuseEntry, Finish
  <2> QED BY <1>1, <2>1, IOMoves
<1>11. CASE SyncEntry BY <1>1, <1>11, IOMoves DEF SyncEntry, Finish
<1>12. CASE ComputeReturns BY <1>1, <1>12, IOMoves DEF ComputeReturns, Finish
<1>13. CASE TimerWakes BY <1>1, <1>13, IOMoves DEF TimerWakes, Finish
<1>14. CASE CancelIO
  <2>1. /\ at # "done" /\ ~ioCtx /\ ioCtx' = TRUE
        /\ UNCHANGED <<at, answer, input, sent>>
    BY <1>14 DEF CancelIO
  <2>2. UNCHANGED <<Delivered, IOPhase>>
    BY <1>1, <2>1 DEF SeenIO, Delivered, IOPhase
  <2> QED BY <1>1, <2>1, <2>2 DEF SeenIO, Contract!Cancel, Contract!Next
<1>15. CASE FileResized \/ EntryChanged
  BY <1>1, <1>15, IOMoves DEF FileResized, EntryChanged
<1> QED BY <1>2, <1>3, <1>4, <1>5, <1>6, <1>7, <1>8, <1>9, <1>10, <1>11, <1>12, <1>13,
           <1>14, <1>15 DEF IOStepOfNext, IONext, IOStep

\* The framer of an event stream is no invocation of its own.
LEMMA OthersStutter ==
    ASSUME IInv, SSEStep \/ UNCHANGED vars
    PROVE  UNCHANGED Contract!contractVars
<1>1. UNCHANGED <<procVars, ioVars, mode>>
  BY SSEKeeps DEF SSEStep, vars, sseVars
<1> QED BY <1>1 DEF procVars, ioVars, Contract!contractVars, Phase, Canceled, Delivered,
        Outcome, IsProcess, ProcessPhase, IOPhase, ProcessOutcome, Started

\* Every primitive keeps the contract: its output comes in order and without a gap,
\* then one final event, and nothing after it; only a cancellation may leave a gap
\* or be reported as one.
THEOREM ContractKept == Spec => KeepsContract
<1>1. Init => Contract!Init
  BY ContractInit
<1>2. IInv /\ [Next]_vars => [Contract!Next]_(Contract!contractVars)
  BY ProcessImplements, IOImplements, OthersStutter, NextCases
<1> QED BY <1>1, <1>2, Induction, PTL DEF Spec, KeepsContract, Contract!Spec
=============================================================================
