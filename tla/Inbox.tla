------------------------------- MODULE Inbox --------------------------------
(***************************************************************************)
(* The session inbox: a goroutine that drops inputs whose ID it has seen   *)
(* and queues the others, in order, for the coordinator.  The queue lives  *)
(* in memory: an input still queued when the process dies is lost.         *)
(***************************************************************************)
EXTENDS SessionTypes

VARIABLES
    queue,  \* inputs accepted and not yet received by the coordinator
    seen    \* IDs of the external inputs accepted or restored so far

inboxVars == <<queue, seen>>

InboxTypeOK ==
    /\ queue \in Seq(Input)
    /\ seen \subseteq External

\* inbox.New: a new inbox knows the IDs the session store restored.
NewInbox(restoredIDs) ==
    /\ queue' = <<>>
    /\ seen' = restoredIDs

\* A control message has a fresh ID, so only an external input can repeat one.
IsDuplicate(input) == input.kind = "external" /\ input.id \in seen

IDsOf(input) == IF input.kind = "external" THEN {input.id} ELSE {}

\* Inbox.Submit and the submissions case of Inbox.run.
Submit(input) ==
    /\ queue' = IF IsDuplicate(input) THEN queue ELSE Append(queue, input)
    /\ seen' = seen \cup IDsOf(input)

\* The output case of Inbox.run: hand over the oldest queued input.
Deliver(input) ==
    /\ queue # <<>>
    /\ input = Head(queue)
    /\ queue' = Tail(queue)
    /\ UNCHANGED seen
=============================================================================
