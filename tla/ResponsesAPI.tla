---------------------------- MODULE ResponsesAPI ----------------------------
(***************************************************************************)
(* The Responses API client (src/harness/llm/responsesapi): Respond sends  *)
(* a request that streams its answer, restarts the generation when it      *)
(* fails for a reason that may pass, and returns what the last attempt     *)
(* ended with.  Requests and the backoff timer report on one unbuffered    *)
(* channel, one after the other.                                           *)
(***************************************************************************)
EXTENDS RemotePrimitive, SequencesExt

CONSTANTS AdapterAttempts,   \* Config.MaxAttempts
          Indices            \* output indices of the items of a response

\* A payload is a stream event, or the JSON of an HTTP error:
\*   item        response.output_item.done: a finished output item
\*   completed, incomplete, failed   the terminal event, whose response has
\*               its output in it ("full"), lacks it ("bare"), has a status or a
\*               reason the client does not know ("odd"), or is absent
\*   error       an in-band error, or the error of an HTTP status
\*   garbage     not JSON;  noise: any other event
StreamEvents ==
    [type : {"item"}, index : Indices,
     item : {"message", "call", "unfinished", "unknown"}, body : {"none"}, code : {"none"}]
    \union
    [type : {"completed", "incomplete"}, index : {0}, item : {"none"},
     body : {"full", "bare", "odd", "none"}, code : {"none"}]
    \union
    [type : {"failed", "error"}, index : {0}, item : {"none"},
     body : {"full", "none"}, code : {"transient", "permanent"}]
    \union
    [type : {"garbage", "noise", "none"}, index : {0}, item : {"none"},
     body : {"none"}, code : {"none"}]

ASSUME AdapterAssumption ==
    /\ AdapterAttempts \in Nat \ {0}
    /\ Indices \subseteq Nat
    /\ Payloads \union {NoPayload} \subseteq StreamEvents

VARIABLES
    aAt,     \* "idle", "start", "receive", "backoff" or "returned"
    tries,   \* requests sent by this Respond
    stream,  \* what exchangeAttempt has made of the events of this attempt
    timer,   \* the backoff timer: "none", "running", "fired" or "canceled"
    result   \* what Respond returns

adapterVars == <<aAt, tries, stream, timer, result>>

TerminalEvents == {"completed", "incomplete", "failed"}

NoItems == [i \in {} |-> "none"]

\* responseState, with what the attempt keeps beside it.
NewStream == [status |-> "none", terminal |-> NoPayload, items |-> NoItems,
              err |-> "none", parseErr |-> FALSE]

Result(kind, output) == [kind |-> kind, output |-> output]
NoResult == Result("none", <<>>)

AdapterInit ==
    /\ aAt = "idle" /\ tries = 0 /\ stream = NewStream
    /\ timer = "none" /\ result = NoResult

------------------------------------------------------------------------------
(* What an attempt makes of its events.                                    *)

IsTerminal(s) == s.terminal # NoPayload
Streaming(s) == s.status = "ok"

\* A later item of the same index takes the place of an earlier one.
Put(items, index, item) ==
    [i \in DOMAIN items \union {index} |-> IF i = index THEN item ELSE items[i]]

\* responseState.observe
Observe(s, p) ==
    CASE p.type = "garbage"         -> [s EXCEPT !.parseErr = TRUE]
      [] p.type \in TerminalEvents  -> [s EXCEPT !.terminal = p]
      [] p.type = "item"            -> [s EXCEPT !.items = Put(@, p.index, p.item)]
      [] p.type = "error"           -> [s EXCEPT !.err = p.code]
      [] OTHER                      -> s

\* The body of an HTTP error is kept as it is; its code decides about a retry.
KeepBody(s, p) == IF p.code = "none" THEN s ELSE [s EXCEPT !.err = p.code]

\* Mutant: events after the terminal one still count.
MutHearAll(s, p) ==
    IF s.parseErr THEN s ELSE IF Streaming(s) THEN Observe(s, p) ELSE KeepBody(s, p)

OnOutput(s, p) ==
    IF s.parseErr \/ (Streaming(s) /\ (IsTerminal(s) \/ s.err # "none")) THEN s
    ELSE IF Streaming(s) THEN Observe(s, p) ELSE KeepBody(s, p)

\* responseState.unwrap: items stand in for the output a terminal response lacks.
Gathered(items) ==
    LET order == SetToSortSeq(DOMAIN items, LAMBDA i, j : i < j)
    IN  [n \in DOMAIN order |-> items[order[n]]]

Output(s) == CASE s.terminal.body = "full" -> <<"message">>
               [] s.terminal.body = "bare" -> Gathered(s.items)
               [] OTHER                    -> <<>>

\* decodeResponse: items the provider did not finish are left out, an unknown one
\* makes the whole response an error.
Decoded(s) ==
    IF s.terminal.body \in {"odd", "none"} \/ Contains(Output(s), "unknown") THEN Result("error", <<>>)
    ELSE Result(IF s.terminal.type = "failed" THEN "failure" ELSE s.terminal.type,
                SelectSeq(Output(s), LAMBDA item : item # "unfinished"))

\* retryableResponseError, for the errors that have a class
MayPass(s, code) ==
    /\ code # "permanent"
    /\ s.status \in {"ok", "retryable"}

\* What exchangeAttempt returns once the request has ended with a terminal event.
Conclude(s, last) ==
    CASE s.parseErr -> [retry |-> FALSE, result |-> Result("error", <<>>)]
      [] ~s.parseErr /\ IsTerminal(s) ->
           [retry  |-> /\ s.terminal.type = "failed" /\ s.terminal.body # "none"
                       /\ MayPass(s, s.terminal.code),
            result |-> Decoded(s)]
      [] ~s.parseErr /\ ~IsTerminal(s) /\ ctx ->
           [retry |-> FALSE, result |-> Result("canceled", <<>>)]
      [] OTHER ->
           [retry  |-> IF s.err # "none" \/ s.status \in {"retryable", "permanent"}
                       THEN MayPass(s, s.err)
                       ELSE last \in {"failed", "completed"},
            result |-> Result("error", <<>>)]

------------------------------------------------------------------------------
(* Respond.                                                                *)

Return(r) == aAt' = "returned" /\ result' = r

Respond ==
    /\ aAt = "idle"
    /\ aAt' = "start"
    /\ UNCHANGED <<tries, stream, timer, result, remoteVars>>

\* The primitive gets one attempt: the adapter restarts generations itself.
StartAttempt ==
    /\ aAt = "start"
    /\ IF ctx
       THEN /\ Return(Result("canceled", <<>>))
            /\ UNCHANGED <<tries, stream, timer, remoteVars>>
       ELSE /\ aAt' = "receive" /\ tries' = tries + 1 /\ stream' = NewStream
            /\ SendRequest(1)
            /\ UNCHANGED <<timer, result>>

\* Mutant: the adapter stops receiving once it has the terminal event.
MutStopReceiving ==
    /\ aAt = "receive" /\ offer.type \in Progress /\ Take
    /\ stream' = CASE offer.type = "response_started" -> [stream EXCEPT !.status = status]
                   [] offer.type = "output" -> OnOutput(stream, offer.payload)
                   [] OTHER -> stream
    /\ IF IsTerminal(stream') THEN Return(Decoded(stream')) ELSE UNCHANGED <<aAt, result>>
    /\ UNCHANGED <<tries, timer>>

ReceiveProgress ==
    /\ aAt = "receive" /\ offer.type \in Progress /\ Take
    /\ stream' = CASE offer.type = "response_started" -> [stream EXCEPT !.status = status]
                   [] offer.type = "output" -> OnOutput(stream, offer.payload)
                   [] OTHER -> stream
    /\ UNCHANGED <<aAt, tries, timer, result>>

ReceiveLast ==
    /\ aAt = "receive" /\ offer.type \in Terminal /\ Take
    /\ LET end == Conclude(stream, offer.type)
       IN  CASE ~end.retry \/ tries >= AdapterAttempts ->
                  Return(end.result) /\ UNCHANGED timer
             [] end.retry /\ tries < AdapterAttempts /\ ctx ->
                  Return(Result("canceled", <<>>)) /\ UNCHANGED timer
             [] OTHER ->
                  aAt' = "backoff" /\ timer' = "running" /\ UNCHANGED result
    /\ UNCHANGED <<tries, stream>>

\* runTimer; both events wait until the adapter receives them.
BackoffElapses ==
    /\ timer = "running"
    /\ timer' = "fired" \/ (ctx /\ timer' = "canceled")
    /\ UNCHANGED <<aAt, tries, stream, result, remoteVars>>

ReceiveTimer ==
    /\ aAt = "backoff" /\ timer \in {"fired", "canceled"}
    /\ timer' = "none"
    /\ IF timer = "fired" THEN aAt' = "start" /\ UNCHANGED result
       ELSE Return(Result("canceled", <<>>))
    /\ UNCHANGED <<tries, stream, remoteVars>>

AdapterStep ==
    \/ StartAttempt \/ ReceiveProgress \/ ReceiveLast \/ BackoffElapses \/ ReceiveTimer

AdapterFairness ==
    /\ WF_<<adapterVars, remoteVars>>(StartAttempt)
    /\ WF_<<adapterVars, remoteVars>>(ReceiveProgress \/ ReceiveLast)
    /\ WF_<<adapterVars, remoteVars>>(BackoffElapses)
    /\ WF_<<adapterVars, remoteVars>>(ReceiveTimer)

AdapterTypeOK ==
    /\ aAt \in {"idle", "start", "receive", "backoff", "returned"}
    /\ tries \in 0..AdapterAttempts
    /\ stream.terminal \in Payloads \union {NoPayload}
    /\ DOMAIN stream.items \subseteq Indices
    /\ timer \in {"none", "running", "fired", "canceled"}
    /\ result.kind \in {"none", "completed", "incomplete", "failure", "error", "canceled"}
=============================================================================
