---------------------------- MODULE RequestRouting ----------------------------
(***************************************************************************)
(* What MetaCog does to a request before the model sees it                 *)
(* (src/harness/llm/metacog/router.go): it lowers the reasoning effort of  *)
(* easy requests, leaves out the tools of those that need none, and        *)
(* replaces old tool results that no longer matter, by verdicts of the     *)
(* judge that it caches by the text they are about.  The context builder   *)
(* hands it the whole conversation every time.                             *)
(*                                                                         *)
(* An item is a message of the user, with one of Asks, or a tool result:   *)
(* a bulky one (512 characters and more) with one of Outputs, or a small   *)
(* one.  The size of a transcript is its number of bulky results.          *)
(***************************************************************************)
EXTENDS Integers, Sequences, SequencesExt, FiniteSetsExt

CONSTANTS
    Asks,          \* what the user may say
    Outputs,       \* what bulky results may say
    MaxItems,      \* bound on the conversation
    PruneAbove,    \* Config.PruneChars, in bulky results
    KeepRecent,    \* Config.KeepRecent
    JudgedAtOnce,  \* new chunks judged for one request (16)
    CacheLimit     \* entries of a cache before it is emptied (512, 2048)

ASSUME RoutingAssumption ==
    /\ {MaxItems, PruneAbove, KeepRecent, CacheLimit} \subseteq Nat
    /\ JudgedAtOnce \in Nat \ {0}

VARIABLES
    items,      \* the conversation, with the system message first
    efforts,    \* the routed effort of each message scored so far
    chats,      \* whether a message needs tools, as far as it was asked
    verdicts,   \* what becomes of each bulky result judged so far
    phase,      \* where prepare is: "idle", "effort", "tools" or "prune"
    request     \* the request as far as it is prepared

routingVars == <<items, efforts, chats, verdicts, phase, request>>

Configured == 3   \* the rank of the configured effort: low, medium and high are 1, 2, 3

Item(kind, text) == [kind |-> kind, text |-> text, form |-> "whole"]
NoCache == [x \in {} |-> "none"]

RoutingInit ==
    /\ items = <<Item("system", "prompt")>>
    /\ efforts = NoCache /\ chats = NoCache /\ verdicts = NoCache
    /\ phase = "idle"
    /\ request = [items |-> <<>>, effort |-> Configured, tools |-> TRUE]

\* latestUserText
Latest(transcript) ==
    LET said == {n \in DOMAIN transcript : transcript[n].kind = "user"}
    IN  IF said = {} THEN "none" ELSE transcript[Max(said)].text

Whole(transcript) ==
    [n \in DOMAIN transcript |-> [transcript[n] EXCEPT !.form = "whole"]]

Bulky(item) == item.kind = "bulky"

\* requestChars
Size(transcript) == Len(SelectSeq(transcript, Bulky))

\* The caches are emptied when they have grown past their limit.
Remember(cache, new) ==
    IF Cardinality(DOMAIN cache) > CacheLimit THEN new
    ELSE [text \in DOMAIN cache \cup DOMAIN new |->
             IF text \in DOMAIN new THEN new[text] ELSE cache[text]]

-----------------------------------------------------------------------------
(* The conversation.                                                       *)

Grow(item) ==
    /\ phase = "idle" /\ Len(items) < MaxItems
    /\ items' = Append(items, item)
    /\ UNCHANGED <<efforts, chats, verdicts, phase, request>>

UserAsks    == \E t \in Asks : Grow(Item("user", t))
ToolReturns == Grow(Item("small", "none")) \/ \E t \in Outputs : Grow(Item("bulky", t))

\* Respond; without a message of the user the request goes out as it is.
PrepareRequest ==
    /\ phase = "idle" /\ Latest(items) # "none"
    /\ phase' = "effort"
    /\ request' = [items |-> items, effort |-> Configured, tools |-> TRUE]
    /\ UNCHANGED <<items, efforts, chats, verdicts>>

-----------------------------------------------------------------------------
(* Effort and tools.                                                       *)

\* routeFor: the most effort a message needs; a hard one keeps what is configured.
EffortOf(verdict) ==
    CASE verdict = "trivial" -> 1 [] verdict = "medium" -> 2 [] OTHER -> Configured

Lowered(effort, verdict) == Min({effort, EffortOf(verdict)})

\* What the judge says of the message that is answered, or said of the same text.
Verdicts(cache, possible) ==
    LET latest == Latest(items)
    IN  IF latest \in DOMAIN cache THEN {cache[latest]} ELSE possible

Cached(cache, verdict) ==
    LET latest == Latest(items)
    IN  IF latest \in DOMAIN cache THEN cache ELSE Remember(cache, [text \in {latest} |-> verdict])

JudgeFails(cache) == Latest(items) \notin DOMAIN cache

\* routeEffort; a judge that fails leaves the request alone and nothing cached.
RouteEffort ==
    /\ phase = "effort" /\ phase' = "tools"
    /\ \/ JudgeFails(efforts) /\ UNCHANGED <<efforts, request>>
       \/ \E verdict \in Verdicts(efforts, {"trivial", "medium", "hard"}) :
             /\ efforts' = Cached(efforts, verdict)
             /\ request' = [request EXCEPT !.effort = Lowered(@, verdict)]
    /\ UNCHANGED <<items, chats, verdicts>>

\* chatGate: tools are left out when the judge is sure that none are needed.
GateTools ==
    /\ phase = "tools" /\ phase' = "prune"
    /\ \/ JudgeFails(chats) /\ UNCHANGED <<chats, request>>
       \/ \E needs \in Verdicts(chats, BOOLEAN) :
             /\ chats' = Cached(chats, needs)
             /\ request' = [request EXCEPT !.tools = @ /\ needs]
    /\ UNCHANGED <<items, efforts, verdicts>>

-----------------------------------------------------------------------------
(* Old context.                                                            *)

\* The bulky results between the system message and the recent items.
Candidates == {n \in 2..(Len(items) - KeepRecent) : Bulky(items[n])}

\* pruned: the head of a result, a note in its place, or all of it.
Pruned(transcript, judged) ==
    [n \in DOMAIN transcript |->
        IF n \in Candidates /\ transcript[n].text \in DOMAIN judged
        THEN [transcript[n] EXCEPT !.form = judged[transcript[n].text]]
        ELSE transcript[n]]

\* The candidates that have no verdict yet; the largest are judged first, and the
\* rest wait for another request.
Pending == {n \in Candidates : items[n].text \notin DOMAIN verdicts}

Forms == {"whole", "head", "stub"}

\* pruneContext: what has a verdict is replaced even if the judge now fails; a
\* result without one stays as it is.  Of results that say the same, each is
\* judged, and the verdict of one of them is cached.
PruneContext ==
    /\ phase = "prune" /\ phase' = "idle"
    /\ LET seen == [request EXCEPT !.items = Pruned(@, verdicts)]
       IN  \/ Size(items) <= PruneAbove /\ UNCHANGED <<verdicts, request>>
           \/ Size(items) > PruneAbove /\ request' = seen /\ UNCHANGED verdicts
           \/ /\ Size(items) > PruneAbove /\ Pending # {}
              /\ \E chosen \in kSubset(Min({JudgedAtOnce, Cardinality(Pending)}), Pending) :
                 \E found \in [chosen -> Forms] :
                 \E kept \in [{items[n].text : n \in chosen} -> Forms] :
                    /\ \A t \in DOMAIN kept :
                          \E n \in chosen : items[n].text = t /\ kept[t] = found[n]
                    /\ verdicts' = Remember(verdicts, kept)
                    /\ request' = [seen EXCEPT !.items =
                          [n \in DOMAIN @ |-> IF n \in chosen
                                              THEN [@[n] EXCEPT !.form = found[n]]
                                              ELSE @[n]]]
    /\ UNCHANGED <<items, efforts, chats>>

RoutingNext ==
    UserAsks \/ ToolReturns \/ PrepareRequest \/ RouteEffort \/ GateTools \/ PruneContext
=============================================================================
