--------------------------- MODULE ExchangeProofs ---------------------------
(***************************************************************************)
(* The channel between the Responses API client and the remote primitive,  *)
(* proved for any number of attempts and payloads, any payloads and any    *)
(* retry policy: no goroutine of an earlier request is ever left to send   *)
(* on it, and a request that is reported as completed was received whole.  *)
(*                                                                         *)
(* The inductive invariant says what the goroutine of a request may still  *)
(* offer at each of its places (RemoteInv), what its caller has of it      *)
(* (GotInv), and where Respond is while it runs (AdapterInv).              *)
(***************************************************************************)
EXTENDS MCExchange, TLAPS

\* The goroutine is at a place, or gets there once its event is taken.
Bound(place) == rAt = place \/ goes = place

\* An attempt that is still to be judged has no error; one that has none afterwards
\* ended properly, and before its timer.
RemoteInv ==
    /\ offer \in [type : Progress \union Terminal \union {"none"},
                  payload : Payloads \union {NoPayload}]
    /\ goes \in {"idle", "read", "rule", "wait"}
    /\ maxAttempts \in Nat
    /\ rAt # "send" => goes = "idle"
    /\ rAt = "prepare" => attempt = 0 /\ maxAttempts # 0
    /\ Bound("wait") => attempt < maxAttempts
    /\ Bound("do") \/ Bound("read") => attemptErr = "none"
    /\ rAt = "judge" /\ attemptErr = "none" => finished = "eof"
    /\ Bound("rule") /\ attemptErr = "none" => finished = "eof" /\ ~fired
    /\ offer.type = "completed" => finished = "eof" /\ ~fired

\* What was sent and not yet received is on offer, unless the request is canceled.
GotInv ==
    /\ offer.type = "output" =>
          goes = "read" /\ offer.payload \in Payloads /\ served = Append(got, offer.payload)
    /\ \/ rAt = "idle"
       \/ offer.type \in {"output", "canceled"}
       \/ got = served
    /\ aAt \in {"idle", "start"} => got = <<>>
    /\ caller = "client" /\ result.kind = "completed" =>
          aAt = "returned" /\ got = served /\ finished = "eof" /\ ~fired

\* What an attempt has made of its events.
StreamOk(s) ==
    /\ s = [status |-> s.status, terminal |-> s.terminal, items |-> s.items, err |-> s.err,
            parseErr |-> s.parseErr]
    /\ s.terminal \in Payloads \union {NoPayload}
    /\ s.terminal # NoPayload => s.terminal.type \in TerminalEvents
    /\ DOMAIN s.items \subseteq Indices
    /\ s.parseErr \in BOOLEAN

\* While Respond waits for nothing of it, the primitive is idle, and so is the timer.
AdapterInv ==
    /\ caller \in {"adapter", "client", "items"}
    /\ aAt # "receive" => rAt = "idle"
    /\ timer # "none" => aAt = "backoff"
    /\ aAt \in {"idle", "start", "backoff"} => tries < AdapterAttempts
    /\ StreamOk(stream)
    /\ caller = "client" => tries = 0 /\ aAt \in {"idle", "receive", "returned"}
    /\ caller = "items" => aAt = "idle"

IInv ==
    /\ RemoteTypeOK /\ AdapterTypeOK
    /\ RemoteInv /\ GotInv /\ AdapterInv

-----------------------------------------------------------------------------
LEMMA NewStreamOk == StreamOk(NewStream)
<1>1. DOMAIN NoItems = {}
  BY DEF NoItems
<1> QED BY <1>1 DEF StreamOk, NewStream

LEMMA Beginning == ASSUME Init PROVE IInv
<1>1. /\ ctx = FALSE /\ valid \in BOOLEAN /\ rAt = "idle" /\ goes = "idle" /\ fired = FALSE
      /\ offer = [type |-> "none", payload |-> NoPayload]
      /\ attempt = 0 /\ maxAttempts = 0 /\ status = "none" /\ attemptErr = "none"
      /\ streamFailed = FALSE /\ finished = "open"
      /\ aAt = "idle" /\ tries = 0 /\ timer = "none" /\ stream = NewStream
      /\ result = NoResult /\ caller \in {"adapter", "client", "items"}
  BY DEF Init, RemoteInit, AdapterInit, NoEvent, Event
<1>2. served = <<>> /\ got = <<>>
  BY DEF Init, RemoteInit
<1>3. served \in Seq(Payloads)
  BY <1>2
<1>4. RemoteTypeOK
  <2>1. offer.type = "none" /\ {rAt, goes} = {"idle"} /\ attempt \in 0..maxAttempts
    BY <1>1
  <2> QED BY <1>1, <1>3, <2>1 DEF RemoteTypeOK, Terminal
<1>5. AdapterTypeOK
  <2>1. DOMAIN NewStream.items = {} /\ NewStream.terminal = NoPayload
    BY DEF NewStream, NoItems
  <2>2. NoResult.kind = "none"
    BY DEF NoResult, Result
  <2> QED BY <1>1, <2>1, <2>2, AdapterAssumption DEF AdapterTypeOK
<1>6. RemoteInv
  BY <1>1 DEF RemoteInv, Bound, Progress, Terminal
<1>7. GotInv
  BY <1>1, <1>2 DEF GotInv, NoResult, Result
<1>8. AdapterInv
  BY <1>1, NewStreamOk, AdapterAssumption DEF AdapterInv
<1> QED BY <1>4, <1>5, <1>6, <1>7, <1>8 DEF IInv

-----------------------------------------------------------------------------
\* The goroutine of a request.

LEMMA RemoteTypes ==
    ASSUME RemoteTypeOK, RemoteInv, RemoteStep
    PROVE  RemoteTypeOK'
<1> USE DEF RemoteTypeOK, Offer, OfferLast, OfferUnlessCanceled, Event, Progress, Terminal
<1>0. ASSUME NewAttempt, attempt < maxAttempts,
             UNCHANGED <<ctx, valid, maxAttempts, delay, offer, goes>>, rAt # "send"
      PROVE  RemoteTypeOK'
  <2>1. /\ attempt' \in 0..maxAttempts' /\ served' \in Seq(Payloads)
        /\ rAt' = "do" /\ fired' = FALSE /\ attemptErr' = "none" /\ streamFailed' = FALSE
        /\ status' = "none" /\ finished' = "open"
    BY <1>0 DEF NewAttempt, RemoteInv
  <2> QED BY <1>0, <2>1
<1>1. CASE Prepare BY <1>0, <1>1 DEF Prepare, RemoteInv
<1>2. CASE Withdraw BY <1>2 DEF Withdraw
<1>3. CASE IdleTimeout BY <1>3 DEF IdleTimeout
<1>4. CASE Do BY <1>4 DEF Do, Failures, Statuses
<1>5. CASE Read BY <1>5 DEF Read
<1>6. CASE ReadEnds BY <1>6 DEF ReadEnds
<1>7. CASE Judge BY <1>7 DEF Judge
<1>8. CASE Rule BY <1>8 DEF Rule
<1>9. CASE WaitForRetry BY <1>0, <1>9 DEF WaitForRetry, RemoteInv, Bound
<1> QED BY <1>1, <1>2, <1>3, <1>4, <1>5, <1>6, <1>7, <1>8, <1>9 DEF RemoteStep

LEMMA RemoteKeeps ==
    ASSUME RemoteTypeOK, RemoteInv, GotInv, RemoteStep
    PROVE  RemoteInv'
<1> USE DEF RemoteTypeOK, RemoteInv, Bound, Offer, OfferLast, OfferUnlessCanceled, Event,
        Progress, Terminal
<1>1. CASE Prepare BY <1>1 DEF Prepare, NewAttempt
<1>2. CASE Withdraw BY <1>2 DEF Withdraw
<1>3. CASE IdleTimeout BY <1>3 DEF IdleTimeout
<1>4. CASE Do BY <1>4 DEF Do, Failures
<1>5. CASE Read BY <1>5 DEF Read
<1>6. CASE ReadEnds BY <1>6 DEF ReadEnds
<1>7. CASE Judge BY <1>7 DEF Judge
<1>8. CASE Rule BY <1>8 DEF Rule, LastAttempt
<1>9. CASE WaitForRetry BY <1>9 DEF WaitForRetry, NewAttempt
<1> QED BY <1>1, <1>2, <1>3, <1>4, <1>5, <1>6, <1>7, <1>8, <1>9 DEF RemoteStep

LEMMA RunKeeps == ASSUME IInv, Run PROVE IInv'
<1>1. /\ RemoteTypeOK /\ AdapterTypeOK /\ RemoteInv /\ GotInv /\ AdapterInv
      /\ RemoteStep /\ UNCHANGED <<aAt, tries, stream, timer, result, caller>>
      /\ got' = IF attempt' # attempt THEN <<>> ELSE got
  BY DEF IInv, Run, adapterVars
<1>2. RemoteTypeOK' /\ RemoteInv'
  BY <1>1, RemoteTypes, RemoteKeeps
<1>3. AdapterTypeOK'
  BY <1>1 DEF AdapterTypeOK
<1>4. rAt # "idle"
  BY <1>1 DEF RemoteStep, Prepare, Withdraw, IdleTimeout, Do, Read, ReadEnds, Judge, Rule,
     WaitForRetry
<1>5. aAt = "receive" /\ AdapterInv'
  BY <1>1, <1>4 DEF AdapterInv
<1>6. GotInv'
  <2> USE <1>1, <1>5 DEF GotInv, RemoteTypeOK, Offer, OfferLast, OfferUnlessCanceled,
          Event, Progress, Terminal
  <2>1. ASSUME NewAttempt, UNCHANGED offer, rAt # "send" PROVE GotInv'
    <3>1. attempt' # attempt /\ got' = <<>> /\ served' = <<>> /\ rAt' # "idle"
      BY <2>1 DEF NewAttempt, RemoteInv
    <3> QED BY <2>1, <3>1
  <2>2. CASE Prepare
    BY <2>1, <2>2 DEF Prepare
  <2>3. CASE WaitForRetry
    BY <2>1, <2>3 DEF WaitForRetry
  <2>4. CASE Read
    BY <2>4 DEF Read
  <2>5. CASE Withdraw \/ IdleTimeout \/ Do \/ ReadEnds \/ Judge \/ Rule
    BY <2>5 DEF Withdraw, IdleTimeout, Do, ReadEnds, Judge, Rule
  <2> QED BY <2>2, <2>3, <2>4, <2>5 DEF RemoteStep
<1> QED BY <1>2, <1>3, <1>5, <1>6 DEF IInv

-----------------------------------------------------------------------------
\* What an attempt makes of one more payload, and what Respond returns.

LEMMA ObserveOk ==
    ASSUME NEW s, StreamOk(s), NEW p \in Payloads
    PROVE  StreamOk(OnOutput(s, p))
<1>0. p \in StreamEvents
  BY AdapterAssumption
<1>1. p.type = "item" => p.index \in Indices
  BY <1>0 DEF StreamEvents
<1>2. StreamOk(Observe(s, p))
  <2>1. CASE p.type = "garbage"
    BY <2>1 DEF Observe, StreamOk, TerminalEvents
  <2>2. CASE p.type \in TerminalEvents
    BY <2>2 DEF Observe, StreamOk, TerminalEvents
  <2>3. CASE p.type = "item"
    <3>1. DOMAIN Put(s.items, p.index, p.item) = DOMAIN s.items \union {p.index}
      BY DEF Put
    <3>2. Observe(s, p) = [s EXCEPT !.items = Put(s.items, p.index, p.item)]
      BY <2>3 DEF Observe, TerminalEvents
    <3> HIDE DEF Put
    <3> QED BY <1>1, <2>3, <3>1, <3>2 DEF StreamOk
  <2>4. CASE p.type = "error"
    BY <2>4 DEF Observe, StreamOk, TerminalEvents
  <2>5. CASE p.type \notin {"garbage", "item", "error"} \union TerminalEvents
    BY <2>5 DEF Observe, TerminalEvents
  <2> QED BY <2>1, <2>2, <2>3, <2>4, <2>5
<1>3. StreamOk(KeepBody(s, p))
  BY DEF KeepBody, StreamOk
<1> QED BY <1>2, <1>3 DEF OnOutput

LEMMA StatusOk ==
    ASSUME NEW s, StreamOk(s), NEW code
    PROVE  StreamOk([s EXCEPT !.status = code])
BY DEF StreamOk

ResultKinds == {"none", "completed", "incomplete", "failure", "error", "canceled"}

LEMMA ConcludeKind ==
    ASSUME NEW s, StreamOk(s), NEW last
    PROVE  Conclude(s, last).result.kind \in ResultKinds
<1>1. IsTerminal(s) => Decoded(s).kind \in ResultKinds
  <2>1. Result("error", <<>>).kind = "error"
    BY DEF Result
  <2>2. ASSUME NEW kind \in ResultKinds, NEW output PROVE Result(kind, output).kind \in ResultKinds
    BY DEF Result
  <2>3. IsTerminal(s) => (IF s.terminal.type = "failed" THEN "failure" ELSE s.terminal.type) \in ResultKinds
    BY DEF IsTerminal, StreamOk, TerminalEvents, ResultKinds
  <2> QED BY <2>1, <2>2, <2>3 DEF Decoded, ResultKinds
<1>2. s.parseErr \in BOOLEAN
  BY DEF StreamOk
<1> QED BY <1>1, <1>2 DEF Conclude, Result, ResultKinds

-----------------------------------------------------------------------------
\* What its caller does to the primitive.

LEMMA TakeKeeps ==
    ASSUME RemoteTypeOK, RemoteInv, Take
    PROVE  /\ RemoteTypeOK' /\ RemoteInv' /\ rAt' # "send" /\ offer' = NoEvent
           /\ offer.type # "none" /\ attempt' = attempt /\ served' = served
<1>1. RemoteTypeOK' /\ rAt' # "send" /\ offer' = NoEvent
  BY DEF RemoteTypeOK, RemoteInv, Take, NoEvent, Event, Progress, Terminal
<1>2. RemoteInv'
  BY DEF RemoteTypeOK, RemoteInv, Bound, Take, NoEvent, Event, Progress, Terminal
<1> QED BY <1>1, <1>2 DEF Take, RemoteTypeOK

LEMMA SendKeeps ==
    ASSUME RemoteTypeOK, RemoteInv, NEW n \in Nat \ {0}, SendRequest(n)
    PROVE  RemoteTypeOK' /\ RemoteInv' /\ offer'.type = "none" /\ served' = <<>>
<1>1. RemoteTypeOK' /\ offer'.type = "none" /\ served' = <<>>
  <2>1. served' \in Seq(Payloads) /\ attempt' \in 0..maxAttempts'
    BY DEF SendRequest
  <2> QED BY <2>1 DEF RemoteTypeOK, SendRequest
<1>2. RemoteInv'
  BY DEF RemoteTypeOK, RemoteInv, Bound, SendRequest, Progress, Terminal
<1> QED BY <1>1, <1>2

LEMMA RemoteUnchanged ==
    ASSUME RemoteTypeOK, RemoteInv, UNCHANGED remoteVars
    PROVE  RemoteTypeOK' /\ RemoteInv'
<1>1. RemoteTypeOK'
  BY DEF RemoteTypeOK, remoteVars
<1>2. RemoteInv'
  BY DEF RemoteInv, Bound, remoteVars
<1> QED BY <1>1, <1>2

\* How the caller keeps the payloads it is handed.
Keeps ==
    got' = CASE offer.type = "output" /\ rAt' # "send" -> Append(got, offer.payload)
             [] attempt' # attempt \/ aAt' = "start" -> <<>>
             [] OTHER -> got

\* An event the caller takes while it receives leaves it with all that was sent.
LEMMA TakeKeepsGot ==
    ASSUME IInv, Take, aAt = "receive", aAt' \in {"receive", "returned", "backoff"}, Keeps,
           caller' = caller,
           caller = "client" /\ result'.kind = "completed" =>
              aAt' = "returned" /\ offer.type = "completed"
    PROVE  GotInv'
<1>1. RemoteTypeOK /\ RemoteInv /\ GotInv
  BY DEF IInv
<1>2. /\ rAt' # "send" /\ offer' = NoEvent /\ offer.type # "none"
      /\ attempt' = attempt /\ served' = served
  BY <1>1, TakeKeeps
<1>3. rAt = "send" /\ rAt' = goes /\ finished' = finished /\ fired' = fired
  BY DEF Take
<1>4. offer'.type = "none"
  BY <1>2 DEF NoEvent, Event
<1>5. CASE offer.type = "output"
  <2>1. got' = served'
    BY <1>1, <1>2, <1>5 DEF Keeps, GotInv
  <2> QED BY <1>4, <1>5, <2>1 DEF GotInv
<1>6. CASE offer.type # "output"
  <2>1. got' = got
    BY <1>2, <1>6 DEF Keeps
  <2>2. rAt' = "idle" \/ got' = served'
    BY <1>1, <1>2, <1>3, <1>6, <2>1 DEF GotInv, RemoteTypeOK, Terminal
  <2>3. offer.type = "completed" => got' = served' /\ finished' = "eof" /\ ~fired'
    BY <1>1, <1>2, <1>3, <1>6, <2>1 DEF GotInv, RemoteInv
  <2> QED BY <1>4, <2>2, <2>3 DEF GotInv
<1> QED BY <1>5, <1>6

-----------------------------------------------------------------------------
\* A step of the caller.

LEMMA SentIsIdle ==
    ASSUME RemoteTypeOK, rAt # "send" PROVE offer.type = "none"
BY DEF RemoteTypeOK

LEMMA NoOutputNoneGot ==
    ASSUME IInv, rAt = "idle", got = <<>>, Keeps PROVE got' = <<>>
<1>1. offer.type = "none"
  BY SentIsIdle DEF IInv
<1> QED BY <1>1 DEF Keeps

LEMMA AdapterKeeps ==
    ASSUME IInv, caller = "adapter", Respond \/ AdapterStep, Keeps, caller' = caller
    PROVE  IInv'
<1>0. RemoteTypeOK /\ AdapterTypeOK /\ RemoteInv /\ GotInv /\ AdapterInv
  BY DEF IInv
<1>1. CASE Respond
  <2>1. aAt = "idle" /\ aAt' = "start" /\ UNCHANGED <<tries, stream, timer, result, remoteVars>>
    BY <1>1 DEF Respond
  <2>2. rAt = "idle" /\ got = <<>>
    BY <1>0, <2>1 DEF AdapterInv, GotInv
  <2>3. RemoteTypeOK' /\ RemoteInv'
    BY <1>0, <2>1, RemoteUnchanged
  <2>4. rAt' = "idle" /\ got' = <<>> /\ offer'.type = "none"
    BY <2>1, <2>2, <2>3, NoOutputNoneGot, SentIsIdle DEF remoteVars, RemoteTypeOK
  <2>5. AdapterTypeOK'
    BY <1>0, <2>1 DEF AdapterTypeOK
  <2>6. AdapterInv'
    BY <1>0, <2>1, <2>4 DEF AdapterInv
  <2>7. GotInv'
    BY <2>4 DEF GotInv
  <2> QED BY <2>3, <2>5, <2>6, <2>7 DEF IInv
<1>2. CASE StartAttempt
  <2>1. aAt = "start" /\ rAt = "idle" /\ got = <<>> /\ got' = <<>> /\ tries < AdapterAttempts
    BY <1>0, <1>2, NoOutputNoneGot DEF AdapterInv, GotInv, StartAttempt
  <2>2. CASE ctx
    <3>1. /\ aAt' = "returned" /\ result' = Result("canceled", <<>>)
          /\ UNCHANGED <<tries, stream, timer, remoteVars>>
      BY <1>2, <2>2 DEF StartAttempt, Return
    <3>2. RemoteTypeOK' /\ RemoteInv'
      BY <1>0, <3>1, RemoteUnchanged
    <3>3. rAt' = "idle" /\ offer'.type = "none" /\ result'.kind = "canceled"
      BY <2>1, <3>1, <3>2, SentIsIdle DEF remoteVars, RemoteTypeOK, Result
    <3>4. AdapterTypeOK'
      BY <1>0, <3>1, <3>3 DEF AdapterTypeOK
    <3>5. AdapterInv'
      BY <1>0, <2>1, <3>1, <3>3 DEF AdapterInv
    <3>6. GotInv'
      BY <2>1, <3>3 DEF GotInv
    <3> QED BY <3>2, <3>4, <3>5, <3>6 DEF IInv
  <2>3. CASE ~ctx
    <3>1. /\ aAt' = "receive" /\ tries' = tries + 1 /\ stream' = NewStream
          /\ SendRequest(1) /\ UNCHANGED <<timer, result>>
      BY <1>2, <2>3 DEF StartAttempt
    <3>2. RemoteTypeOK' /\ RemoteInv' /\ offer'.type = "none" /\ served' = <<>>
      BY <1>0, <3>1, SendKeeps
    <3>3. StreamOk(stream')
      BY <3>1, NewStreamOk
    <3>4. tries' \in 0..AdapterAttempts
      BY <1>0, <2>1, <3>1, AdapterAssumption DEF AdapterTypeOK
    <3>5. AdapterTypeOK'
      BY <1>0, <3>1, <3>3, <3>4 DEF AdapterTypeOK, StreamOk
    <3>6. AdapterInv'
      BY <1>0, <2>1, <3>1, <3>3 DEF AdapterInv
    <3>7. GotInv'
      BY <1>0, <2>1, <3>1, <3>2 DEF GotInv
    <3> QED BY <3>2, <3>5, <3>6, <3>7 DEF IInv
  <2> QED BY <2>2, <2>3
<1>3. CASE ReceiveProgress
  <2>1. /\ aAt = "receive" /\ aAt' = "receive" /\ Take /\ UNCHANGED <<tries, timer, result>>
        /\ offer.type \in Progress
    BY <1>3 DEF ReceiveProgress
  <2>2. RemoteTypeOK' /\ RemoteInv'
    BY <1>0, <2>1, TakeKeeps
  <2>3. StreamOk(stream')
    <3>1. StreamOk(stream)
      BY <1>0 DEF AdapterInv
    <3>2. CASE offer.type = "response_started"
      BY <1>3, <3>1, <3>2, StatusOk DEF ReceiveProgress
    <3>3. CASE offer.type = "output"
      <4>1. offer.payload \in Payloads
        BY <1>0, <3>3 DEF GotInv
      <4>2. stream' = OnOutput(stream, offer.payload)
        BY <1>3, <3>3 DEF ReceiveProgress
      <4> QED BY <3>1, <4>1, <4>2, ObserveOk
    <3>4. CASE offer.type \notin {"response_started", "output"}
      BY <1>3, <3>1, <3>4 DEF ReceiveProgress
    <3> QED BY <3>2, <3>3, <3>4
  <2>4. AdapterTypeOK'
    BY <1>0, <2>1, <2>3 DEF AdapterTypeOK, StreamOk
  <2>5. AdapterInv'
    BY <1>0, <2>1, <2>3 DEF AdapterInv
  <2>6. GotInv'
    BY <2>1, TakeKeepsGot
  <2> QED BY <2>2, <2>4, <2>5, <2>6 DEF IInv
<1>4. CASE ReceiveLast
  <2> DEFINE end == Conclude(stream, offer.type)
  <2>1. /\ aAt = "receive" /\ Take /\ UNCHANGED <<tries, stream>> /\ offer.type \in Terminal
        /\ \/ aAt' = "returned" /\ UNCHANGED timer
              /\ result' \in {end.result, Result("canceled", <<>>)}
           \/ aAt' = "backoff" /\ UNCHANGED result /\ tries < AdapterAttempts
    BY <1>0, <1>4, AdapterAssumption DEF ReceiveLast, Return, AdapterTypeOK
  <2>1t. aAt' = "backoff" => timer' = "running"
    BY <1>4, <2>1 DEF ReceiveLast, Return
  <2>2. RemoteTypeOK' /\ RemoteInv'
    BY <1>0, <2>1, TakeKeeps
  <2>3. rAt' = "idle"
    BY <1>0, <2>1 DEF Take, RemoteTypeOK
  <2>4. result'.kind \in ResultKinds
    <3>1. end.result.kind \in ResultKinds
      BY <1>0, ConcludeKind DEF AdapterInv
    <3>2. result.kind \in ResultKinds
      BY <1>0 DEF AdapterTypeOK, ResultKinds
    <3>3. Result("canceled", <<>>).kind \in ResultKinds
      BY DEF Result, ResultKinds
    <3> HIDE DEF end
    <3> QED BY <2>1, <3>1, <3>2, <3>3
  <2> HIDE DEF end
  <2>5. AdapterTypeOK'
    BY <1>0, <2>1, <2>1t, <2>4 DEF AdapterTypeOK, ResultKinds
  <2>6. AdapterInv'
    BY <1>0, <2>1, <2>1t, <2>3 DEF AdapterInv
  <2>7. GotInv'
    BY <2>1, TakeKeepsGot
  <2> QED BY <2>2, <2>5, <2>6, <2>7 DEF IInv
<1>5. CASE BackoffElapses
  <2>1. /\ aAt = "backoff" /\ rAt = "idle" /\ UNCHANGED <<aAt, tries, stream, result, remoteVars>>
        /\ timer' \in {"fired", "canceled"}
    BY <1>0, <1>5 DEF BackoffElapses, AdapterInv
  <2>2. RemoteTypeOK' /\ RemoteInv'
    BY <1>0, <2>1, RemoteUnchanged
  <2>3. rAt' = "idle" /\ offer.type = "none" /\ offer'.type = "none" /\ attempt' = attempt
    BY <1>0, <2>1, SentIsIdle DEF remoteVars
  <2>4. AdapterTypeOK' /\ AdapterInv'
    BY <1>0, <2>1, <2>3 DEF AdapterTypeOK, AdapterInv
  <2>5. GotInv'
    BY <1>0, <2>1, <2>3 DEF GotInv
  <2> QED BY <2>2, <2>4, <2>5 DEF IInv
<1>6. CASE ReceiveTimer
  <2>1. /\ aAt = "backoff" /\ rAt = "idle" /\ UNCHANGED <<tries, stream, remoteVars>>
        /\ timer' = "none"
        /\ \/ aAt' = "start" /\ UNCHANGED result
           \/ aAt' = "returned" /\ result' = Result("canceled", <<>>)
    BY <1>0, <1>6 DEF ReceiveTimer, Return, AdapterInv
  <2>2. RemoteTypeOK' /\ RemoteInv'
    BY <1>0, <2>1, RemoteUnchanged
  <2>3. rAt' = "idle" /\ offer.type = "none" /\ offer'.type = "none" /\ attempt' = attempt
    BY <1>0, <2>1, SentIsIdle DEF remoteVars
  <2>4. result'.kind \in ResultKinds
    BY <1>0, <2>1 DEF Result, ResultKinds, AdapterTypeOK
  <2>5. AdapterTypeOK'
    BY <1>0, <2>1, <2>4 DEF AdapterTypeOK, ResultKinds
  <2>6. AdapterInv'
    BY <1>0, <2>1, <2>3 DEF AdapterInv
  <2>7. aAt' = "start" => got' = <<>>
    BY <2>3 DEF Keeps
  <2>8. GotInv'
    BY <1>0, <2>1, <2>3, <2>7 DEF GotInv
  <2> QED BY <2>2, <2>5, <2>6, <2>8 DEF IInv
<1> QED BY <1>1, <1>2, <1>3, <1>4, <1>5, <1>6 DEF AdapterStep

LEMMA ClientKeeps ==
    ASSUME IInv, caller = "client", ClientSends \/ ClientReceives, Keeps, caller' = caller
    PROVE  IInv'
<1>0. RemoteTypeOK /\ AdapterTypeOK /\ RemoteInv /\ GotInv /\ AdapterInv
  BY DEF IInv
<1>1. CASE ClientSends
  <2>1. /\ aAt = "idle" /\ aAt' = "receive" /\ rAt = "idle" /\ got = <<>> /\ got' = <<>>
        /\ SendRequest(PolicyAttempts) /\ UNCHANGED <<tries, stream, timer, result>>
    BY <1>0, <1>1, NoOutputNoneGot DEF AdapterInv, GotInv, ClientSends
  <2>2. RemoteTypeOK' /\ RemoteInv' /\ offer'.type = "none" /\ served' = <<>>
    BY <1>0, <2>1, SendKeeps, PolicyAssumption
  <2>3. AdapterTypeOK' /\ AdapterInv'
    BY <1>0, <2>1 DEF AdapterTypeOK, AdapterInv
  <2>4. result.kind # "completed"
    BY <1>0, <2>1 DEF GotInv
  <2>5. GotInv'
    BY <2>1, <2>2, <2>4 DEF GotInv
  <2> QED BY <2>2, <2>3, <2>5 DEF IInv
<1>2. CASE ClientReceives
  <2>1. Take /\ UNCHANGED <<tries, stream, timer>> /\ offer.type # "none" /\ rAt # "idle"
    BY <1>0, <1>2 DEF ClientReceives, Take, RemoteTypeOK
  <2>2. aAt = "receive"
    BY <1>0, <2>1 DEF AdapterInv
  <2>3. CASE offer.type \in Terminal
    <3> DEFINE kind == IF offer.type = "failed" THEN "error" ELSE offer.type
    <3>1. aAt' = "returned" /\ result' = Result(kind, <<>>)
      BY <1>2, <2>3 DEF ClientReceives, Return
    <3>2. result'.kind = kind /\ kind \in ResultKinds /\ (kind = "completed" => offer.type = "completed")
      BY <2>3, <3>1 DEF Result, ResultKinds, Terminal
    <3> HIDE DEF kind
    <3>3. RemoteTypeOK' /\ RemoteInv' /\ rAt' = "idle"
      BY <1>0, <2>1, <2>3, TakeKeeps DEF Take, RemoteTypeOK
    <3>4. AdapterTypeOK' /\ AdapterInv'
      BY <1>0, <2>1, <2>2, <3>1, <3>2, <3>3 DEF AdapterTypeOK, AdapterInv, ResultKinds
    <3>5. GotInv'
      BY <2>1, <2>2, <3>1, <3>2, TakeKeepsGot
    <3> QED BY <3>3, <3>4, <3>5 DEF IInv
  <2>4. CASE offer.type \notin Terminal
    <3>1. aAt' = "receive" /\ UNCHANGED result
      BY <1>2, <2>2, <2>4 DEF ClientReceives
    <3>2. result.kind # "completed"
      BY <1>0, <2>2 DEF GotInv
    <3>3. RemoteTypeOK' /\ RemoteInv'
      BY <1>0, <2>1, TakeKeeps
    <3>4. AdapterTypeOK' /\ AdapterInv'
      BY <1>0, <2>1, <2>2, <3>1 DEF AdapterTypeOK, AdapterInv
    <3>5. GotInv'
      BY <2>1, <2>2, <3>1, <3>2, TakeKeepsGot
    <3> QED BY <3>3, <3>4, <3>5 DEF IInv
  <2> QED BY <2>3, <2>4
<1> QED BY <1>1, <1>2

LEMMA CancelKeeps == ASSUME IInv, Cancel PROVE IInv'
<1>0. RemoteTypeOK /\ AdapterTypeOK /\ RemoteInv /\ GotInv /\ AdapterInv
  BY DEF IInv
<1>1. /\ ctx' = TRUE /\ UNCHANGED <<valid, rAt, offer, goes, attempt, maxAttempts, fired, status>>
      /\ UNCHANGED <<attemptErr, streamFailed, finished, delay, served, adapterVars, caller, got>>
  BY DEF Cancel, CancelRequest
<1>2. RemoteTypeOK'
  BY <1>0, <1>1 DEF RemoteTypeOK
<1>3. RemoteInv'
  BY <1>0, <1>1 DEF RemoteInv, Bound
<1>4. AdapterTypeOK' /\ AdapterInv'
  BY <1>0, <1>1 DEF AdapterTypeOK, AdapterInv, adapterVars
<1>5. GotInv'
  BY <1>0, <1>1 DEF GotInv, adapterVars
<1> QED BY <1>2, <1>3, <1>4, <1>5 DEF IInv

\* The items of a session, and steps of other variables.
LEMMA OthersKeep ==
    ASSUME IInv, UNCHANGED <<remoteVars, adapterVars, caller, got>> PROVE IInv'
<1>0. RemoteTypeOK /\ AdapterTypeOK /\ RemoteInv /\ GotInv /\ AdapterInv
  BY DEF IInv
<1>1. RemoteTypeOK' /\ RemoteInv'
  BY <1>0, RemoteUnchanged
<1>2. AdapterTypeOK' /\ AdapterInv'
  BY <1>0 DEF AdapterTypeOK, AdapterInv, adapterVars, remoteVars
<1>3. GotInv'
  BY <1>0 DEF GotInv, adapterVars, remoteVars
<1> QED BY <1>1, <1>2, <1>3 DEF IInv

LEMMA Induction == Spec => []IInv
<1>1. Init => IInv
  BY Beginning
<1>2. IInv /\ [Next]_exchangeVars => IInv'
  <2> SUFFICES ASSUME IInv, [Next]_exchangeVars PROVE IInv'
    OBVIOUS
  <2>1. CASE Call
    <3>1. Keeps /\ caller' = caller /\ caller \in {"adapter", "client"}
      BY <2>1 DEF Call, Keeps
    <3>2. CASE caller = "adapter"
      BY <2>1, <3>1, <3>2, AdapterKeeps DEF Call
    <3>3. CASE caller = "client"
      BY <2>1, <3>1, <3>3, ClientKeeps DEF Call
    <3> QED BY <3>1, <3>2, <3>3
  <2>2. CASE Run
    BY <2>2, RunKeeps
  <2>3. CASE Cancel
    BY <2>3, CancelKeeps
  <2>4. CASE Converse
    BY <2>4, OthersKeep DEF Converse
  <2>5. CASE UNCHANGED exchangeVars
    BY <2>5, OthersKeep DEF exchangeVars
  <2> QED BY <2>1, <2>2, <2>3, <2>4, <2>5 DEF Next
<1> QED BY <1>1, <1>2, PTL DEF Spec

-----------------------------------------------------------------------------
\* Whenever Respond starts an attempt, waits for its timer or returns, the goroutine
\* of the request before has ended, and the timer runs only while Respond waits for
\* it: nothing is left to send on the channel that requests and the timer share
\* (exchangeAttempt and waitForRetry), however often the generation is restarted.
THEOREM Quiet == Spec => []ChannelIsQuiet
<1>1. IInv => ChannelIsQuiet
  BY DEF IInv, AdapterInv, ChannelIsQuiet
<1> QED BY <1>1, Induction, PTL

\* A request the primitive reports as completed, to a caller with any retry policy,
\* was received as the server sent it, to the proper end of its body, on its last
\* attempt and before its idle timer (runRemoteHTTP); every variable keeps its type.
THEOREM Whole == Spec => []CompletedIsWhole
<1>1. IInv => CompletedIsWhole
  <2> SUFFICES ASSUME IInv PROVE CompletedIsWhole
    OBVIOUS
  <2>1. RemoteTypeOK /\ AdapterTypeOK /\ RemoteInv /\ GotInv
    BY DEF IInv
  <2>2. offer.type = "completed" => got = served /\ finished = "eof" /\ ~fired
    BY <2>1 DEF RemoteTypeOK, RemoteInv, GotInv
  <2>3. caller = "client" /\ result.kind = "completed" => got = served /\ finished = "eof" /\ ~fired
    BY <2>1 DEF GotInv
  <2> QED BY <2>1, <2>2, <2>3 DEF CompletedIsWhole
<1> QED BY <1>1, Induction, PTL
=============================================================================
