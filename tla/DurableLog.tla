----------------------------- MODULE DurableLog -----------------------------
(***************************************************************************)
(* What session files promise whoever appends to them: logs that grow one  *)
(* record at a time and keep, through crashes and power losses, every      *)
(* record whose append has been acknowledged.  Records of a failed or      *)
(* interrupted append may stay or go, the last ones first; so may a log    *)
(* whose publication was never acknowledged.                               *)
(***************************************************************************)
EXTENDS Naturals, Sequences, SequencesExt

CONSTANT Session

VARIABLES
    logs,   \* the records a reader of each session finds
    acked   \* how many of them have been acknowledged; 0 while nothing is

Init ==
    /\ logs = [s \in Session |-> <<>>]
    /\ acked = [s \in Session |-> 0]

\* The session is created, with all the records it starts with.
Publish(s) ==
    /\ logs[s] = <<>>
    /\ logs'[s] # <<>>
    /\ acked'[s] = acked[s]

Grow(s) ==
    /\ Len(logs'[s]) = Len(logs[s]) + 1
    /\ IsPrefix(logs[s], logs'[s])
    /\ acked'[s] = acked[s]

Acknowledge(s) ==
    /\ acked'[s] = Len(logs[s])
    /\ logs'[s] = logs[s]

Lose(s) ==
    /\ IsStrictPrefix(logs'[s], logs[s])
    /\ acked[s] <= Len(logs'[s])
    /\ acked'[s] = acked[s]

\* One session at a time; the others keep what they have.
Next ==
    \E s \in Session :
        /\ \A t \in Session \ {s} : logs'[t] = logs[t] /\ acked'[t] = acked[t]
        /\ Publish(s) \/ Grow(s) \/ Acknowledge(s) \/ Lose(s)

Spec == Init /\ [][Next]_<<logs, acked>>
=============================================================================
