--------------------------- MODULE ContextBuilder ---------------------------
(***************************************************************************)
(* The context builder (src/harness/contextbuilder/builder.go): the request *)
(* that the coordinator sends to the model, made from the items of the     *)
(* history in their order.  A request is a sequence of parts; what is      *)
(* committed has been sent, what is staged waits for the next turn.        *)
(***************************************************************************)
EXTENDS SessionTypes, SequencesExt

Part(role, of, turn, running) ==
    [role |-> role, of |-> of, turn |-> turn, running |-> running]

SystemPart == Part("system", 0, 0, FALSE)

\* A context meets finitely many calls: every response has finitely many.
ASSUME CallAssumption == IsFiniteSet(Call)

NewContext ==
    [committed |-> <<SystemPart>>,
     staged    |-> <<>>,
     open      |-> {},      \* keys of the calls that have no final result yet
     requests  |-> <<>>]    \* the requests sent so far: that of turn n is the n-th

Build(c) == c.committed \o c.staged

\* AddExternalInput, and AddControlMessage with a heartbeat.
AddMessage(c, input) ==
    CASE input.kind = "external" ->
           [c EXCEPT !.staged = Append(@, Part("user", input.id, 0, FALSE))]
      [] input.kind = "control" /\ input.mode = "heartbeat" ->
           [c EXCEPT !.staged = Append(@, Part("user", 0, 0, FALSE))]
      [] OTHER -> c

\* The request of the turn is built, then what was staged is committed.
Commit(c) ==
    [c EXCEPT !.requests = Append(@, Build(c)), !.committed = Build(c), !.staged = <<>>]

CallParts(turn, calls) ==
    LET order == SetToSeq(calls)
    IN  [n \in DOMAIN order |-> Part("call", order[n], turn, FALSE)]

ResponseParts(turn, calls) ==
    <<Part("assistant", 0, turn, FALSE)>> \o CallParts(turn, calls)

\* Mutant: a response is staged behind the messages that came while the model
\* was writing it.
MutStageResponse(c, turn, calls) ==
    [c EXCEPT !.staged = @ \o ResponseParts(turn, calls),
              !.open = @ \union {<<turn, call>> : call \in calls}]

\* A response goes behind the request it answers, before anything staged since.
AddOutput(c, turn, calls) ==
    [c EXCEPT !.committed = @ \o ResponseParts(turn, calls),
              !.open = @ \union {<<turn, call>> : call \in calls}]

\* What is left of parts when every one that is p has been deleted.
Without(parts, p) ==
    LET kept[n \in 0 .. Len(parts)] ==
            IF n = 0 THEN <<>>
            ELSE IF parts[n] = p THEN kept[n - 1] ELSE Append(kept[n - 1], parts[n])
    IN  kept[Len(parts)]

\* A staged result that says "running" gives way to a newer one of its call.
AddToolResult(c, call, running) ==
    [c EXCEPT !.staged = Append(Without(@, Part("result", call, 0, TRUE)),
                                Part("result", call, 0, running))]

\* addToolResultToLocalState: a status of a call that is not finished shows in
\* the context, as its result or as still running, unless its operations are missing.
AddStatus(c, key, ops) ==
    IF key \notin c.open \/ AreInherited(ops) THEN c
    ELSE [AddToolResult(c, key[2], ~AllFinished(ops)) EXCEPT
             !.open = IF AllFinished(ops) THEN @ \ {key} ELSE @]

\* The context keeps what a forked session has from its parent, but the coordinator
\* looks after none of its calls.
AddForkToContext(c) == [c EXCEPT !.open = {}]

AddToContext(c, item) ==
    CASE item.kind = "input"    -> AddMessage(c, item.input)
      [] item.kind = "turn"     -> Commit(c)
      [] item.kind = "response" -> AddOutput(c, item.turn, item.calls)
      [] item.kind = "status"   -> AddStatus(c, item.key, item.ops)
      [] OTHER                  -> AddForkToContext(c)
=============================================================================
