---------------------------- MODULE MCExchange ----------------------------
(***************************************************************************)
(* The Responses API client over the remote primitive, the primitive alone *)
(* with a retry policy of its own, for a caller that takes whatever it     *)
(* sends, and the items of the answers and requests of a session.          *)
(***************************************************************************)
EXTENDS ResponsesAPI, ModelItems

CONSTANT PolicyAttempts   \* RetryPolicy.MaxAttempts of the other caller

ASSUME PolicyAssumption == PolicyAttempts \in Nat \ {0}

VARIABLES caller,   \* "adapter", "client" or "items"
          got       \* payloads the caller has received of the last attempt

exchangeVars == <<remoteVars, adapterVars, itemVars, caller, got>>

P(type, index, item, body, code) ==
    [type |-> type, index |-> index, item |-> item, body |-> body, code |-> code]

MCNoPayload == P("none", 0, "none", "none", "none")
MCPayloads ==
    {P("item", 0, "message", "none", "none"), P("item", 1, "call", "none", "none"),
     P("item", 1, "unfinished", "none", "none"), P("item", 0, "unknown", "none", "none"),
     P("completed", 0, "none", "bare", "none"), P("completed", 0, "none", "none", "none"),
     P("incomplete", 0, "none", "full", "none"), P("incomplete", 0, "none", "odd", "none"),
     P("failed", 0, "none", "full", "transient"), P("error", 0, "none", "none", "transient"),
     P("error", 0, "none", "none", "permanent"), P("garbage", 0, "none", "none", "none")}

\* Answers of two items that the provider finished or did not, with and without an
\* ID, and answers that the client cannot make sense of.
Piece(type, text) == [type |-> type, text |-> text]
Wrote(id, content, phase) ==
    [type |-> "message", id |-> id, content |-> content, phase |-> phase]
Asked(id, call, arguments, ended) ==
    [type |-> "function_call", id |-> id, call_id |-> call, name |-> "bash",
     arguments |-> arguments, status |-> ended]
Thought == [type |-> "reasoning", id |-> "r", summary |-> <<"s">>, encrypted_content |-> "e"]
Ended(how, reason, output) == [status |-> how, reason |-> reason, output |-> output]

MCAnswers ==
    {Ended("completed", "",
         <<Thought, Wrote("m", <<Piece("output_text", <<"a">>), Piece("refusal", <<"b">>)>>,
                          "commentary")>>),
     Ended("completed", "",
         <<Asked("f", "c1", <<"{a}">>, "completed"), [type |-> "web_search_call"]>>),
     Ended("completed", "", <<Asked("", "c2", <<>>, ""), Asked("g", "c3", <<"{}">>, "incomplete")>>),
     Ended("incomplete", "max_output_tokens", <<Wrote("", <<>>, "")>>),
     Ended("incomplete", "content_filter", <<Wrote("p", <<Piece("refusal", <<"b">>)>>, "")>>),
     Ended("incomplete", "odd", <<Wrote("n", <<>>, "")>>),
     Ended("failed", "", <<Wrote("n", <<>>, "final_answer")>>),
     Ended("completed", "", <<[type |-> "image_generation_call"]>>)}
MCToolOutputs ==
    {<<[Kind |-> "text", Value |-> "x"], [Kind |-> "image", Value |-> "y"]>>, <<>>}

Setup(extensions, cacheField, tools) ==
    [extensions |-> extensions, cacheField |-> cacheField, effort |-> "high", tools |-> tools]
MCClients ==
    {Setup({"cache_control"}, FALSE, {}),
     Setup({}, TRUE, {[type |-> "function", name |-> "bash"]})}

NoConversation == history = <<>> /\ recorded = <<>> /\ told = <<>> /\ lastInput = <<>>

Init ==
    /\ RemoteInit /\ AdapterInit
    /\ caller \in {"adapter", "client", "items"} /\ got = <<>>
    /\ IF caller = "items" THEN ItemsInit /\ valid
       ELSE NoConversation /\ client = Setup({}, TRUE, {})

ClientSends ==
    /\ caller = "client" /\ aAt = "idle" /\ aAt' = "receive"
    /\ SendRequest(PolicyAttempts)
    /\ UNCHANGED <<tries, stream, timer, result>>

ClientReceives ==
    /\ caller = "client" /\ Take
    /\ IF offer.type \in Terminal THEN Return(Result(IF offer.type = "failed" THEN "error" ELSE offer.type, <<>>))
       ELSE UNCHANGED <<aAt, result>>
    /\ UNCHANGED <<tries, stream, timer>>

Call ==
    /\ caller \in {"adapter", "client"} /\ UNCHANGED itemVars
    /\ IF caller = "adapter" THEN Respond \/ AdapterStep ELSE ClientSends \/ ClientReceives
    /\ got' = CASE offer.type = "output" /\ rAt' # "send" -> Append(got, offer.payload)
                [] ~(offer.type = "output" /\ rAt' # "send")
                      /\ (attempt' # attempt \/ aAt' = "start") -> <<>>
                [] OTHER -> got
    /\ UNCHANGED caller

\* What a payload says means nothing to the other caller: one will do.
Run ==
    /\ caller \in {"adapter", "client"} /\ RemoteStep
    /\ caller = "client" => ToSet(served') \subseteq {P("item", 0, "message", "none", "none")}
    /\ got' = IF attempt' # attempt THEN <<>> ELSE got
    /\ UNCHANGED <<adapterVars, itemVars, caller>>

Cancel ==
    /\ caller \in {"adapter", "client"} /\ CancelRequest
    /\ UNCHANGED <<adapterVars, itemVars, caller, got>>

Converse == caller = "items" /\ ItemsNext /\ UNCHANGED <<remoteVars, adapterVars, caller, got>>

Next == Call \/ Run \/ Cancel \/ Converse

Spec ==
    /\ Init /\ [][Next]_exchangeVars
    /\ RemoteFairness /\ AdapterFairness
    /\ WF_exchangeVars(caller = "client" /\ rAt = "send" /\ Call)

\* A backoff doubles from the first to the longest one, and no doubling overflows.
BacksOff == rAt = "wait" => delay = Min({InitialBackoff * 2^(attempt - 1), MaxBackoff})

------------------------------------------------------------------------------
(* What the payloads the adapter has received say, written down without    *)
(* the state it keeps.                                                     *)

\* The first payload that decides the attempt; 0 if none does.
Deciding == LET d == {n \in DOMAIN got : got[n].type \in TerminalEvents \union {"error", "garbage"}}
            IN  Min(d \union {Len(got) + 1}) % (Len(got) + 1)

Decision == got[Deciding]

\* The provider has answered: generating again would pay for it twice.
Answered == /\ status = "ok" /\ Deciding # 0
            /\ Decision.type \in {"completed", "incomplete"} /\ Decision.body # "none"

\* The finished items received before the decision: the last of each index.
Items == [i \in {got[n].index : n \in {m \in 1..(Deciding - 1) : got[m].type = "item"}} |->
            got[Max({m \in 1..(Deciding - 1) : got[m].type = "item" /\ got[m].index = i})].item]

Answer ==
    LET output == CASE Decision.body = "full" -> <<"message">>
                    [] OTHER -> FlattenSeq([n \in 1..2 |->
                                  IF n - 1 \in DOMAIN Items THEN <<Items[n - 1]>> ELSE <<>>])
    IN  IF Decision.body = "odd" \/ Contains(output, "unknown") THEN Result("error", <<>>)
        ELSE Result(Decision.type, SelectSeq(output, LAMBDA item : item # "unfinished"))

\* Once the terminal event of an answer is received, that answer is what Respond
\* returns, with every item of its own attempt in order and no item of an earlier
\* one: no disconnection, timeout or cancellation after it makes the adapter
\* generate again or lose it.  Without one, nothing is returned as an answer.
AnswerIsReturned ==
    caller = "adapter" =>
        /\ aAt = "backoff" => ~Answered
        /\ aAt = "returned" /\ Answered => result = Answer
        /\ result.kind \in {"completed", "incomplete"} => Answered

\* What a request sends of an item says what was said: the same text, phase and
\* call, a reasoning item to the letter; and arguments that are no JSON object are
\* shown inside one, because a provider may refuse its own malformed call.
Echoes(said, sent) ==
    CASE "Data" \in DOMAIN said /\ said.Type = "message" ->
           sent.role = "user" /\ sent.content = said.Data.Text
      [] "Data" \in DOMAIN said /\ said.Type = "tool_result" ->
           /\ sent.call_id = said.Data.CallID
           /\ [n \in DOMAIN sent.output |-> sent.output[n].type] =
                  [n \in DOMAIN said.Data.Output |-> "input_" \o said.Data.Output[n].Kind]
      [] "Data" \notin DOMAIN said /\ said.type = "message" ->
           LET text == IF said.id = "" THEN sent.content ELSE Written(sent.content)
           IN  /\ sent.role = "assistant" /\ text = Written(said.content)
               /\ said.id # "" => sent.id = said.id
               /\ Optional("phase", said.phase) = [f \in DOMAIN sent \cap {"phase"} |-> sent[f]]
      [] "Data" \notin DOMAIN said /\ said.type = "function_call" ->
           /\ sent.call_id = said.call_id /\ sent.name = said.name
           /\ IsObject(said.arguments) => sent.arguments = said.arguments
           /\ ~IsObject(said.arguments) =>
                  sent.arguments = <<"invalid_arguments">> \o said.arguments
      [] OTHER -> sent = said

\* Whatever the model answered can be sent back: by this process, and, word for
\* word, by one that resumes the session, to the same provider or another one.
\* And the input only grows: what was sent last, before or after a restart, is
\* how the next request begins, or the provider would not find it in its cache.
ItemsAreReplayed ==
    /\ \A n \in DOMAIN history : Requestable(history[n])
    /\ history = Reloaded
    /\ IsPrefix(lastInput, RequestInput(history))
    /\ DOMAIN told = DOMAIN history
    /\ \A n \in DOMAIN told : Echoes(told[n], RequestItem(history[n]))

\* An answer is returned once and whole, after retries that back off as their policy
\* says, and every later request has it.
AnswerIsKept == AnswerIsReturned /\ BacksOff /\ ItemsAreReplayed

\* When the adapter sends a request or starts its timer, and when it returns, no
\* goroutine of an earlier one is left that could send on the channel they share:
\* an event is never taken for one of another attempt, and none is stuck for ever.
ChannelIsQuiet ==
    caller = "adapter" =>
        /\ aAt \in {"start", "backoff", "returned"} => rAt = "idle"
        /\ aAt # "backoff" => timer = "none"

\* A request that the primitive reports as completed was received as the server
\* sent it, to the proper end of the body, on the attempt that counts, however the
\* idle timer and the retries before it fell.  Every variable keeps its type.
CompletedIsWhole ==
    /\ RemoteTypeOK /\ AdapterTypeOK
    /\ offer.type = "completed" \/ (caller = "client" /\ result.kind = "completed") =>
           got = served /\ finished = "eof" /\ ~fired

\* Respond returns, however the server and the network behave and whenever the
\* caller cancels: the idle timer ends a silent attempt, and retries are bounded.
RespondReturns == (aAt # "idle") ~> (aAt = "returned")
=============================================================================
