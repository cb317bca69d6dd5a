------------------------- MODULE PrimitiveContract -------------------------
(***************************************************************************)
(* What every primitive promises the operation that dispatched it: it      *)
(* sends its output in order, then exactly one final event, and nothing    *)
(* after it; it reports a cancellation only when it was canceled, and only *)
(* a canceled invocation may leave a gap in what it delivers.              *)
(*                                                                         *)
(* An output stream is a sequence of positions 1, 2, ...; delivered[s] is  *)
(* the set of positions of stream s that some event carried.               *)
(***************************************************************************)
EXTENDS Naturals, FiniteSetsExt

CONSTANTS Streams,    \* output streams of an invocation
          MaxOutput   \* positions of one stream

VARIABLES phase,      \* "accepted", "running" or "ended"
          canceled,   \* whether the context of the invocation is canceled
          delivered,  \* positions delivered, by stream
          outcome     \* the final event: "none" until it is sent

contractVars == <<phase, canceled, delivered, outcome>>

Outcomes == {"completed", "failed", "canceled"}

\* The last position of a stream that was delivered.
Reached(s) == Max(delivered[s] \union {0})

Init ==
    /\ phase = "accepted"
    /\ canceled = FALSE
    /\ delivered = [s \in Streams |-> {}]
    /\ outcome = "none"

Cancel ==
    /\ ~canceled
    /\ canceled' = TRUE
    /\ UNCHANGED <<phase, delivered, outcome>>

Start ==
    /\ phase = "accepted"
    /\ phase' = "running"
    /\ UNCHANGED <<canceled, delivered, outcome>>

\* An event carries the positions first..last: what follows the last event of
\* the stream, unless a cancellation swallowed events in between.
Output(s) ==
    /\ phase = "running"
    /\ \E first \in (Reached(s) + 1)..MaxOutput :
          /\ first = Reached(s) + 1 \/ canceled
          /\ \E last \in first..MaxOutput :
                delivered' = [delivered EXCEPT ![s] = @ \union first..last]
    /\ UNCHANGED <<phase, canceled, outcome>>

End ==
    /\ phase # "ended"
    /\ phase' = "ended"
    /\ outcome' \in Outcomes
    /\ outcome' = "canceled" => canceled
    /\ outcome' = "completed" => phase = "running"
    /\ UNCHANGED <<canceled, delivered>>

Next == Cancel \/ Start \/ (\E s \in Streams : Output(s)) \/ End

Spec == Init /\ [][Next]_contractVars
=============================================================================
