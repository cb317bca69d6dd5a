-------------------------- MODULE RemotePrimitive --------------------------
(***************************************************************************)
(* The remote primitive (src/harness/primitives/remote.go): one goroutine  *)
(* that sends an HTTP request, hands the response to its caller event by   *)
(* event over an unbuffered channel, and sends the request again as its    *)
(* retry policy says.                                                      *)
(*                                                                         *)
(* A response is a sequence of payloads, one for each SSE frame or chunk   *)
(* of the body; what a payload means is the caller's business.             *)
(***************************************************************************)
EXTENDS Integers, Sequences, FiniteSetsExt

CONSTANTS Payloads,       \* what one frame or chunk of a response may be
          NoPayload,      \* the payload of an event that has none
          MaxPayloads,    \* bound on the payloads of one response
          InitialBackoff, MaxBackoff,   \* of the retry policy
          MaxDuration     \* the largest value of a duration

ASSUME RemoteAssumption ==
    /\ MaxPayloads \in Nat /\ NoPayload \notin Payloads
    /\ InitialBackoff \in 0..MaxBackoff /\ MaxBackoff \in 0..MaxDuration

VARIABLES
    ctx,          \* the context of the caller is canceled
    valid,        \* the request passes prepareRemoteRequest
    rAt,          \* where the goroutine is; "idle": there is none
    offer, goes,  \* the event it waits to send, and where it goes once sent
    attempt, maxAttempts,
    fired,        \* the idle timer has canceled the context of the attempt
    status,       \* of the response: "ok", "retryable", "permanent" or "none"
    attemptErr,   \* "none", "retryable" or "fatal"
    streamFailed, \* the error is one of the response body
    finished,     \* how the body ended: "open", "eof" or "broken"
    delay,        \* the backoff announced last
    served        \* payloads the server has sent on this attempt

remoteVars == <<ctx, valid, rAt, offer, goes, attempt, maxAttempts, fired, status,
                attemptErr, streamFailed, finished, delay, served>>

Progress == {"response_started", "output", "stream_failed", "retry_scheduled"}
Terminal == {"completed", "failed", "canceled"}

Event(type, payload) == [type |-> type, payload |-> payload]
NoEvent == Event("none", NoPayload)

\* Durations are signed and wrap around above MaxDuration.
Wrapped(d) == ((d + MaxDuration + 1) % (2 * (MaxDuration + 1))) - MaxDuration - 1

Backoff(initial, max, failedAttempts) ==
    LET doubled[n \in 1..failedAttempts] ==
          IF n = 1 THEN initial
          ELSE LET d == doubled[n - 1]
               IN  IF d >= max \/ d > max - d THEN max ELSE Wrapped(2 * d)
    IN  Min({doubled[failedAttempts], max})

RemoteInit ==
    /\ ctx = FALSE /\ valid \in BOOLEAN
    /\ rAt = "idle" /\ offer = NoEvent /\ goes = "idle"
    /\ attempt = 0 /\ maxAttempts = 0 /\ fired = FALSE
    /\ status = "none" /\ attemptErr = "none" /\ streamFailed = FALSE
    /\ finished = "open" /\ delay = 0 /\ served = <<>>

CancelRequest ==
    /\ ~ctx
    /\ ctx' = TRUE
    /\ UNCHANGED <<valid, rAt, offer, goes, attempt, maxAttempts, fired, status,
                   attemptErr, streamFailed, finished, delay, served>>

------------------------------------------------------------------------------
(* Sending an event: it is put on offer, and the caller takes it.          *)

Offer(event, next) == rAt' = "send" /\ offer' = event /\ goes' = next

\* sendRemoteTerminalEvent: the goroutine ends once the caller has the event.
OfferLast(type) == Offer(Event(type, NoPayload), "idle")

\* sendRemoteEvent: a canceled caller gets the cancellation instead.
OfferUnlessCanceled(event, next) ==
    IF ctx THEN OfferLast("canceled") ELSE Offer(event, next)

Withdraw ==
    /\ rAt = "send" /\ offer.type \in Progress /\ ctx
    /\ OfferLast("canceled")
    /\ UNCHANGED <<ctx, valid, attempt, maxAttempts, fired, status, attemptErr,
                   streamFailed, finished, delay, served>>

\* The caller's receive; the caller's module says what it does with the event.
Take ==
    /\ rAt = "send"
    /\ rAt' = goes /\ offer' = NoEvent /\ goes' = "idle"
    /\ UNCHANGED <<ctx, valid, attempt, maxAttempts, fired, status, attemptErr,
                   streamFailed, finished, delay, served>>

------------------------------------------------------------------------------
(* The request.                                                            *)

SendRequest(attempts) ==
    /\ rAt = "idle"
    /\ rAt' = "prepare" /\ attempt' = 0 /\ maxAttempts' = attempts
    /\ status' = "none" /\ served' = <<>> /\ finished' = "open"
    /\ UNCHANGED <<ctx, valid, offer, goes, fired, attemptErr, streamFailed, delay>>

\* A new attempt has its own idle timer, armed while the request is sent.
NewAttempt ==
    /\ rAt' = "do" /\ attempt' = attempt + 1
    /\ fired' = FALSE /\ attemptErr' = "none" /\ streamFailed' = FALSE
    /\ status' = "none" /\ served' = <<>> /\ finished' = "open"

Prepare ==
    /\ rAt = "prepare"
    /\ CASE ~valid -> /\ OfferLast("failed")
                      /\ UNCHANGED <<attempt, fired, attemptErr, streamFailed, status,
                                     served, finished>>
         [] valid /\ ctx -> /\ OfferLast("canceled")
                            /\ UNCHANGED <<attempt, fired, attemptErr, streamFailed,
                                           status, served, finished>>
         [] OTHER -> NewAttempt /\ UNCHANGED <<offer, goes>>
    /\ UNCHANGED <<ctx, valid, maxAttempts, delay>>

\* Mutant: the timer is paused when the response starts, and not armed again.
MutStayPaused ==
    /\ rAt = "do" /\ ~fired
    /\ fired' = TRUE
    /\ UNCHANGED <<ctx, valid, rAt, offer, goes, attempt, maxAttempts, status,
                   attemptErr, streamFailed, finished, delay, served>>

\* The timer runs while the goroutine waits for the server, and only then.
IdleTimeout ==
    /\ rAt \in {"do", "read"} /\ ~fired
    /\ fired' = TRUE
    /\ UNCHANGED <<ctx, valid, rAt, offer, goes, attempt, maxAttempts, status,
                   attemptErr, streamFailed, finished, delay, served>>

\* What isRetryableRemoteError and isRetryableRemoteStatus tell apart.
Failures == {"retryable", "fatal"}
Statuses == {"ok", "retryable", "permanent"}

Do ==
    /\ rAt = "do"
    /\ \/ \E err \in Failures :
             /\ rAt' = "judge" /\ attemptErr' = err
             /\ UNCHANGED <<offer, goes, status>>
       \/ \E code \in Statuses :
             /\ status' = code
             /\ OfferUnlessCanceled(Event("response_started", NoPayload), "read")
             /\ UNCHANGED attemptErr
    /\ UNCHANGED <<ctx, valid, attempt, maxAttempts, fired, streamFailed, finished,
                   delay, served>>

Read ==
    /\ rAt = "read" /\ Len(served) < MaxPayloads
    /\ \E p \in Payloads :
          /\ served' = Append(served, p)
          /\ OfferUnlessCanceled(Event("output", p), "read")
    /\ UNCHANGED <<ctx, valid, attempt, maxAttempts, fired, status, attemptErr,
                   streamFailed, finished, delay>>

\* Mutant: every error of the body is taken for its end.
MutAnyEnd ==
    /\ rAt = "read" /\ rAt' = "judge"
    /\ finished' \in {"eof", "broken"}
    /\ UNCHANGED <<ctx, valid, offer, goes, attempt, maxAttempts, fired, status, delay,
                   attemptErr, streamFailed, served>>

\* The body ends, breaks off, or has a frame that is too large.
ReadEnds ==
    /\ rAt = "read" /\ rAt' = "judge"
    /\ \/ finished' = "eof" /\ UNCHANGED <<attemptErr, streamFailed>>
       \/ /\ finished' = "broken" /\ streamFailed' = TRUE
          /\ attemptErr' \in {"retryable", "fatal"}
    /\ UNCHANGED <<ctx, valid, offer, goes, attempt, maxAttempts, fired, status, delay,
                   served>>

\* An attempt that went idle failed for that reason, unless the caller canceled it.
Judge ==
    /\ rAt = "judge"
    /\ attemptErr' = IF fired /\ ~ctx THEN "retryable" ELSE attemptErr
    /\ CASE ctx -> OfferLast("canceled")
         [] ~ctx /\ streamFailed -> Offer(Event("stream_failed", NoPayload), "rule")
         [] OTHER -> rAt' = "rule" /\ UNCHANGED <<offer, goes>>
    /\ UNCHANGED <<ctx, valid, attempt, maxAttempts, fired, status, streamFailed,
                   finished, delay, served>>

LastAttempt == attempt = maxAttempts

Rule ==
    /\ rAt = "rule"
    /\ CASE attemptErr = "none" /\ (status # "retryable" \/ LastAttempt) ->
              OfferLast("completed") /\ UNCHANGED delay
         [] attemptErr = "fatal" \/ (attemptErr = "retryable" /\ LastAttempt) ->
              OfferLast("failed") /\ UNCHANGED delay
         [] OTHER ->
              /\ delay' = Backoff(InitialBackoff, MaxBackoff, attempt)
              /\ OfferUnlessCanceled(Event("retry_scheduled", NoPayload), "wait")
    /\ UNCHANGED <<ctx, valid, attempt, maxAttempts, fired, status, attemptErr,
                   streamFailed, finished, served>>

WaitForRetry ==
    /\ rAt = "wait"
    /\ \/ NewAttempt /\ UNCHANGED <<offer, goes>>
       \/ /\ ctx /\ OfferLast("canceled")
          /\ UNCHANGED <<attempt, fired, attemptErr, streamFailed, status, served, finished>>
    /\ UNCHANGED <<ctx, valid, maxAttempts, delay>>

------------------------------------------------------------------------------
RemoteStep ==
    \/ Prepare \/ Withdraw \/ IdleTimeout \/ Do \/ Read \/ ReadEnds
    \/ Judge \/ Rule \/ WaitForRetry

\* The network may be silent for ever; the idle timer then fires, and a context
\* that is done ends the transport's calls.
RemoteFairness ==
    /\ WF_remoteVars(Prepare) /\ WF_remoteVars(Judge) /\ WF_remoteVars(Rule)
    /\ WF_remoteVars(WaitForRetry) /\ WF_remoteVars(IdleTimeout)
    /\ WF_remoteVars((ctx \/ fired) /\ (Do \/ ReadEnds))

RemoteTypeOK ==
    /\ ctx \in BOOLEAN /\ valid \in BOOLEAN /\ fired \in BOOLEAN
    /\ streamFailed \in BOOLEAN
    /\ {rAt, goes} \subseteq
         {"idle", "prepare", "do", "send", "read", "judge", "rule", "wait"}
    /\ offer.type \in Progress \union Terminal \union {"none"}
    /\ (rAt = "send") <=> (offer.type # "none")
    /\ offer.type \in Terminal => goes = "idle"
    /\ attempt \in 0..maxAttempts
    /\ status \in {"none", "ok", "retryable", "permanent"}
    /\ attemptErr \in {"none", "retryable", "fatal"}
    /\ finished \in {"open", "eof", "broken"}
    /\ served \in Seq(Payloads)
=============================================================================
