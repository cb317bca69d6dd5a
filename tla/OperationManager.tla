-------------------------- MODULE OperationManager --------------------------
(***************************************************************************)
(* What the coordinator is promised by operation.Manager: an operation is  *)
(* started at most once per ID, its updates come out in the order they     *)
(* were made, and its last update is a finished status, after which the    *)
(* manager forgets it.  A manager lives in memory, as long as one process. *)
(***************************************************************************)
EXTENDS SessionTypes

CONSTANTS
    Progress,   \* the unfinished statuses an operation may report
    Outcome     \* the finished statuses an operation may end with

ASSUME OutcomeAssumption ==
    /\ Progress \subseteq Unfinished
    /\ Outcome \subseteq Finished

VARIABLES
    accepted,   \* operations ever added to this manager
    running,    \* operations the manager has not finished yet
    reported,   \* running operations that have made a progress report
    canceled,   \* running operations whose context is canceled
    updates     \* updates not yet received by the coordinator

managerVars == <<accepted, running, reported, canceled, updates>>

Op     == Key \X Slot
Update == [op : Op, status : OpStatus]

ManagerTypeOK ==
    /\ accepted \subseteq Op
    /\ running \subseteq accepted
    /\ reported \subseteq running
    /\ canceled \subseteq running
    /\ updates \in Seq(Update)

NewManager ==
    /\ accepted' = {}
    /\ running' = {}
    /\ reported' = {}
    /\ canceled' = {}
    /\ updates' = <<>>

\* Mutant: Add forgets which operations it has accepted.
MutAddUnaccepted(operations) ==
    /\ running' = running \cup operations
    /\ UNCHANGED <<accepted, reported, canceled, updates>>

\* Manager.Add, for a set of operations handed over one after the other.  An
\* operation this manager has accepted before is not started again.
Add(operations) ==
    /\ accepted' = accepted \cup operations
    /\ running' = running \cup (operations \ accepted)
    /\ UNCHANGED <<reported, canceled, updates>>

\* Manager.Cancel, for a set of operations; a finished one is left alone.
Cancel(operations) ==
    /\ canceled' = canceled \cup (operations \cap running)
    /\ UNCHANGED <<accepted, running, reported, updates>>

\* A running operation reports a new checkpoint.  One report stands for the
\* finite sequence of checkpoints an operation makes.
Report(op, status) ==
    /\ op \in running \ reported
    /\ status \in Progress
    /\ reported' = reported \cup {op}
    /\ updates' = Append(updates, [op |-> op, status |-> status])
    /\ UNCHANGED <<accepted, running, canceled>>

\* A running operation ends: its last update carries a finished status.
Finish(op, status) ==
    /\ op \in running
    /\ status \in Outcome
    /\ running' = running \ {op}
    /\ reported' = reported \ {op}
    /\ canceled' = canceled \ {op}
    /\ updates' = Append(updates, [op |-> op, status |-> status])
    /\ UNCHANGED accepted

\* The same, for an operation that reports any number of checkpoints.
Checkpoint(op, status) ==
    /\ op \in running
    /\ status \in Progress
    /\ updates' = Append(updates, [op |-> op, status |-> status])
    /\ UNCHANGED <<accepted, running, reported, canceled>>

\* The coordinator receives the oldest update.
DeliverUpdate(update) ==
    /\ updates # <<>>
    /\ update = Head(updates)
    /\ updates' = Tail(updates)
    /\ UNCHANGED <<accepted, running, reported, canceled>>

-----------------------------------------------------------------------------
(* The manager by itself, for the managers that implement it.              *)

ManagerInit ==
    /\ accepted = {}
    /\ running = {}
    /\ reported = {}
    /\ canceled = {}
    /\ updates = <<>>

ManagerNext ==
    \/ \E op \in Op : Add({op})
    \/ \E operations \in SUBSET Op : Cancel(operations)
    \/ \E op \in Op, status \in OpStatus : Checkpoint(op, status) \/ Finish(op, status)
    \/ \E update \in Update : DeliverUpdate(update)
    \/ NewManager

ManagerSpec == ManagerInit /\ [][ManagerNext]_managerVars
=============================================================================
