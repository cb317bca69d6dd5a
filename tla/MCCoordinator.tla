--------------------------- MODULE MCCoordinator ----------------------------
(***************************************************************************)
(* Small instances of the coordinator for TLC.                             *)
(***************************************************************************)
EXTENDS Coordinator, ContextBuilder

CONSTANTS i1, i2, c1, c2

ExternalInput(id) == [kind |-> "external", id |-> id]
ControlInput(mode) == [kind |-> "control", mode |-> mode]

\* What clients submit: messages with stop requests, or with settings updates.
Messages == {ExternalInput(id) : id \in External}
MessagesAndStops == Messages \cup {ControlInput("hard"), ControlInput("when_idle")}
MessagesAndSettings == Messages \cup {ControlInput("settings")}

-----------------------------------------------------------------------------
(* The requests that the history says were sent, checked as each turn is   *)
(* recorded.                                                               *)

\* The context after the first n items, the same for the process that recorded
\* them and for every one that has replayed them.
ContextAfter[n \in 0 .. Len(log)] ==
    IF n = 0 THEN NewContext ELSE AddToContext(ContextAfter[n - 1], log[n])

Requests == ContextAfter[Len(log)].requests

JustRequested == log # <<>> /\ Last(log).kind = "turn"

Results(request, call) ==
    {n \in DOMAIN request : request[n].role = "result" /\ request[n].of = call}

Calls(request) == {n \in DOMAIN request : request[n].role = "call"}

\* A call that a fork has inherited without its result: "Forks leave inherited calls
\* without results" (the FIXME of addItemToLocalState).
IsLost(key) == key \notin OwnCalls /\ ~HasResult(key)

\* What the model provider demands of a request, and what the model needs to
\* make sense of it: a result stands behind its call, every call has one (but for
\* the calls of a parent session that a fork has lost the operations of), a call
\* that has its final result has nothing behind it, and no request repeats to
\* the model within one turn that a call runs, or that it runs and has ended.
\* The builder knows a call by its ID alone: where the provider has given one ID
\* to two calls, their results are not told apart.
RequestIsWellFormed ==
    JustRequested =>
        LET request == Last(Requests)
            sent    == IF Len(Requests) = 1 THEN <<>> ELSE Requests[Len(Requests) - 1]
        IN  \A n \in Calls(request) :
                LET results == Results(request, request[n].of)
                IN  /\ results # {} \/ IsLost(<<request[n].turn, request[n].of>>)
                    /\ (\A m \in Calls(request) : request[m].of = request[n].of => m = n) =>
                          /\ \A i \in results : n < i
                          /\ \A i, j \in results : ~request[i].running => j <= i
                          /\ \A i, j \in results : i > Len(sent) /\ j > Len(sent) => i = j

\* A response stands in every later request directly behind the very request it
\* answers, whatever arrived while the model was writing it and however often
\* the session was resumed since: the model is never shown to have seen more
\* than it saw, and the provider's cache of the earlier request stays good.
ResponsesFollowTheirRequests ==
    JustRequested =>
        LET request == Last(Requests)
        IN  \A n \in {m \in DOMAIN request : request[m].role = "assistant"} :
                SubSeq(request, 1, n - 1) = Requests[request[n].turn]

\* Whatever arrives in whatever order, each request shows the history as the
\* model provider demands and as the model saw it.
RequestsAreTrue == RequestIsWellFormed /\ ResponsesFollowTheirRequests
=============================================================================
