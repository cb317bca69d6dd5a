----------------------------- MODULE ModelItems -----------------------------
(***************************************************************************)
(* The items of a conversation (src/harness/llm/model.go) in their four    *)
(* forms: what the provider answers, what the program keeps in memory,     *)
(* what the session stores, and what a request sends back                  *)
(* (src/harness/llm/responsesapi/response.go and request.go,               *)
(* src/harness/llm/itemjson.go, src/harness/sessionstore/itemjson.go).     *)
(* A text is a sequence of pieces; a JSON object is a function from the    *)
(* names of its fields, so that what is left out really is absent.         *)
(***************************************************************************)
EXTENDS Naturals, Sequences

LOCAL INSTANCE SequencesExt
LOCAL INSTANCE TLC

CONSTANTS
    Answers,       \* what the provider may answer: [status, reason, output]
    ToolOutputs,   \* what a tool may return
    Clients,       \* how the client of a provider may be set up
    MaxRecords     \* bound: records of the session

VARIABLES
    client,      \* the client in use
    history,     \* the items in memory, in the order of the request
    recorded,    \* the records of the session
    told,        \* what was said, as it was said
    lastInput    \* the input of the last request that was sent, or "refused"

itemVars == <<client, history, recorded, told, lastInput>>

-----------------------------------------------------------------------------
(* From the provider's answer to the items in memory.                      *)

ModelItem(id, type, data) == [ProviderID |-> id, Type |-> type, Data |-> data]
UserMessage(text) == ModelItem("", "message", [Role |-> "user", Text |-> text, Phase |-> ""])

\* responseOutputItem knows these; an item of another kind fails the whole answer.
Known(output) ==
    \/ output.type \in {"web_search_call", "function_call", "reasoning"}
    \/ /\ output.type = "message"
       /\ \A n \in DOMAIN output.content : output.content[n].type \in {"output_text", "refusal"}

\* Items that the provider did not finish, and those it handles itself, are left out.
Included(output) ==
    /\ output.type # "web_search_call"
    /\ output.type = "function_call" => output.status \notin {"in_progress", "incomplete"}

Written(content) == FlattenSeq([n \in DOMAIN content |-> content[n].text])

ResponseItem(output) ==
    CASE output.type = "message" ->
           ModelItem(output.id, "message",
               [Role |-> "assistant", Text |-> Written(output.content), Phase |-> output.phase])
      [] output.type = "function_call" ->
           ModelItem(output.id, "tool_call",
               [CallID |-> output.call_id, Name |-> output.name, Arguments |-> output.arguments])
      [] output.type = "reasoning" ->
           ModelItem(output.id, "reasoning", [Summary |-> output.summary, Raw |-> <<output>>])

\* response: the status decides how the answer stopped.
Stop(answer) ==
    CASE answer.status = "completed" -> "complete"
      [] answer.status = "incomplete" /\ answer.reason = "max_output_tokens" -> "max_output_tokens"
      [] answer.status = "incomplete" /\ answer.reason = "content_filter" -> "refused"
      [] answer.status = "failed" -> ""
      [] OTHER -> "unsupported"

Decodes(answer) ==
    /\ Stop(answer) # "unsupported"
    /\ \A n \in DOMAIN answer.output : Known(answer.output[n])

IncludedIn(answer) == SelectSeq(answer.output, Included)
ItemsOfAnswer(answer) == [n \in DOMAIN IncludedIn(answer) |-> ResponseItem(IncludedIn(answer)[n])]

-----------------------------------------------------------------------------
(* Stored items.                                                           *)

DataFields ==
    [message |-> {"Role", "Text", "Phase"}, tool_call |-> {"CallID", "Name", "Arguments"},
     tool_result |-> {"CallID", "Output"}, reasoning |-> {"Summary", "Raw"},
     input |-> {"ID", "Kind", "Payload"}, model_response |-> {"Stop", "Output"},
     tool_call_status |-> {"CallID", "Status"}]

\* Item.Validate, and Item.validateData of a record: the data is of its kind.
IsOfKind(kind, data) == kind \in DOMAIN DataFields /\ DOMAIN data = DataFields[kind]

\* Fields with "omitzero" that are empty are not written.
Marshal(data) ==
    [f \in {g \in DOMAIN data : g = "Raw" => data[g] # <<>>} |-> data[f]]

\* A field that the object lacks keeps its zero value.
ZeroOf(field) ==
    IF field \in {"Text", "Output", "Summary", "Raw", "Arguments", "Payload", "Status"}
    THEN <<>> ELSE ""
Unmarshal(kind, object) ==
    [f \in DataFields[kind] |-> IF f \in DOMAIN object THEN object[f] ELSE ZeroOf(f)]

EncodeItem(item) == [item EXCEPT !.Data = Marshal(@)]
DecodeItem(item) == [item EXCEPT !.Data = Unmarshal(item.Type, @)]

\* A record holds items of its own when it is a model response.
EncodeRecord(kind, data) ==
    [Kind |-> kind,
     Data |-> IF kind # "model_response" THEN Marshal(data)
              ELSE Marshal([data EXCEPT !.Output = [n \in DOMAIN @ |-> EncodeItem(@[n])]])]

DecodeRecord(record) ==
    LET data == Unmarshal(record.Kind, record.Data)
    IN  IF record.Kind # "model_response" THEN data
        ELSE [data EXCEPT !.Output = [n \in DOMAIN @ |-> DecodeItem(@[n])]]

\* What the coordinator makes of a record, read or just written: a message of the
\* user, the output of the model, the result of a tool.
ItemsOfRecord(kind, data) ==
    CASE kind = "input" -> <<UserMessage(data.Payload)>>
      [] kind = "model_response" -> data.Output
      [] kind = "tool_call_status" ->
           <<ModelItem("", "tool_result", [CallID |-> data.CallID, Output |-> data.Status])>>

Reloaded ==
    FlattenSeq([n \in DOMAIN recorded |->
                   ItemsOfRecord(recorded[n].Kind, DecodeRecord(recorded[n]))])

-----------------------------------------------------------------------------
(* From memory to a request.                                               *)

\* A field that is written only if it is set.
Optional(field, value) == IF value = "" THEN <<>> ELSE (field :> value)

\* requestToolCallArguments: anything but a JSON object is wrapped into one.
Objects == {"{}", "{a}"}
IsObject(arguments) == Len(arguments) = 1 /\ arguments[1] \in Objects

RequestArguments(arguments) ==
    IF IsObject(arguments) THEN arguments ELSE <<"invalid_arguments">> \o arguments

RequestContent(text) == IF text = <<>> THEN <<>> ELSE <<[type |-> "output_text", text |-> text]>>

RequestPart(part) ==
    IF part.Kind = "text" THEN [type |-> "input_text", text |-> part.Value]
    ELSE [type |-> "input_image", image_url |-> part.Value]

\* What requestInputItem can express.
Requestable(item) ==
    /\ item.Type \in {"message", "tool_call", "tool_result", "reasoning"}
    /\ IsOfKind(item.Type, item.Data)
    /\ item.Type = "tool_result" =>
          \A n \in DOMAIN item.Data.Output : item.Data.Output[n].Kind \in {"text", "image"}
    /\ item.Type = "reasoning" => item.Data.Raw # <<>>

\* requestInputItem: a message without an ID of the provider takes the short form.
RequestItem(item) ==
    LET data == item.Data
    IN  CASE item.Type = "message" /\ item.ProviderID = "" ->
               [content |-> data.Text, role |-> data.Role] @@ Optional("phase", data.Phase)
          [] item.Type = "message" /\ item.ProviderID # "" /\ data.Role = "assistant" ->
               [content |-> RequestContent(data.Text), id |-> item.ProviderID,
                role |-> "assistant", status |-> "completed", type |-> "message"]
                   @@ Optional("phase", data.Phase)
          [] item.Type = "message" /\ item.ProviderID # "" /\ data.Role # "assistant" ->
               [content |-> <<[type |-> "input_text", text |-> data.Text]>>,
                role |-> data.Role, type |-> "message"]
          [] item.Type = "tool_call" ->
               [arguments |-> RequestArguments(data.Arguments), call_id |-> data.CallID,
                name |-> data.Name, type |-> "function_call"] @@ Optional("id", item.ProviderID)
          [] item.Type = "tool_result" ->
               [call_id |-> data.CallID, type |-> "function_call_output",
                output |-> [n \in DOMAIN data.Output |-> RequestPart(data.Output[n])]]
          [] item.Type = "reasoning" -> data.Raw[1]

RequestInput(items) == [n \in DOMAIN items |-> RequestItem(items[n])]

\* requestBody sets these fields itself; the client's own may not name one of them.
BodyFields(c) ==
    {"include", "input", "model", "store", "stream"}
        \cup (IF c.cacheField THEN {"prompt_cache_key"} ELSE {})
        \cup (IF c.effort # "" THEN {"reasoning"} ELSE {})
        \cup (IF c.tools # {} THEN {"tools"} ELSE {})

ValidEfforts == {"low", "medium", "high", "xhigh", "max"}

\* requestTools: functions, and the one hosted tool it knows.
Expressible(c) ==
    /\ c.effort \in {""} \cup ValidEfforts
    /\ \A t \in c.tools : t.type = "function" \/ (t.type = "hosted" /\ t.name = "web_search")
    /\ c.extensions \cap BodyFields(c) = {}

-----------------------------------------------------------------------------
ItemsInit ==
    /\ client \in Clients
    /\ history = <<>> /\ recorded = <<>> /\ told = <<>> /\ lastInput = <<>>

\* The coordinator adds an item to its own state and to the session.
Keep(kind, data, said) ==
    /\ Len(recorded) < MaxRecords
    /\ history' = history \o ItemsOfRecord(kind, data)
    /\ recorded' = Append(recorded, EncodeRecord(kind, data))
    /\ told' = told \o said
    /\ UNCHANGED <<client, lastInput>>

SayToModel ==
    Keep("input", [ID |-> "i", Kind |-> "external", Payload |-> <<"t">>], <<UserMessage(<<"t">>)>>)

\* An answer that cannot be decoded fails the turn, and nothing of it is kept.
AnswerArrives ==
    \E answer \in Answers :
        /\ Decodes(answer)
        /\ Keep("model_response", [Stop |-> Stop(answer), Output |-> ItemsOfAnswer(answer)],
                IncludedIn(answer))

ToolAnswers ==
    \E n \in DOMAIN history, output \in ToolOutputs :
        /\ history[n].Type = "tool_call"
        /\ LET id == history[n].Data.CallID
           IN  /\ \A m \in DOMAIN history :
                      history[m].Type = "tool_result" => history[m].Data.CallID # id
               /\ Keep("tool_call_status", [CallID |-> id, Status |-> output],
                       <<ModelItem("", "tool_result", [CallID |-> id, Output |-> output])>>)

\* The program ends, and a later one takes up the session, perhaps with another
\* provider.
Resume ==
    /\ history' = Reloaded /\ client' \in Clients
    /\ UNCHANGED <<recorded, told, lastInput>>

SendItems ==
    /\ Expressible(client) /\ \A n \in DOMAIN history : Requestable(history[n])
    /\ lastInput' = RequestInput(history)
    /\ UNCHANGED <<client, history, recorded, told>>

ItemsNext == SayToModel \/ AnswerArrives \/ ToolAnswers \/ Resume \/ SendItems
=============================================================================
