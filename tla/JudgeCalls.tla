------------------------------ MODULE JudgeCalls ------------------------------
(***************************************************************************)
(* One judging step of MetaCog: the scores of several candidates, each     *)
(* asked of the judge in a request of its own (scoreEach), by Jev, which   *)
(* tries a request twice, or by a local model, which is asked one at a     *)
(* time and once (src/harness/llm/metacog/judge.go, jev.go, logprob.go).   *)
(*                                                                         *)
(* The candidates are 1..Judged.  A score that a candidate gets is     *)
(* that candidate's number; 0 is what make() fills the slice with.         *)
(***************************************************************************)
EXTENDS Integers, FiniteSets, FiniteSetsExt

CONSTANTS Judged,   \* candidates to score
          Concurrency   \* JevConfig.Concurrency, and LogprobConfig.Concurrency

ASSUME JudgeAssumption == Judged \in Nat /\ Concurrency \in Nat \ {0}

VARIABLES
    judge,      \* "jev" or "local"
    parent,     \* the context of the step: "live", or "over" after JudgeTimeout
    stopped,    \* cancel() has been called on the context of the workers
    worker,     \* the goroutine of each candidate, or its turn in the loop
    tries,      \* requests made for a candidate
    scores,     \* out
    firstErr,   \* the candidate whose error is returned, 0 for none
    scored      \* what scoreEach returned: "none", "scores" or "error"

judgeVars == <<judge, parent, stopped, worker, tries, scores, firstErr, scored>>

Candidate == 1..Judged
Sequential == Judged <= 1 \/ Concurrency <= 1

\* The context a request is made with.
ContextOver == parent = "over" \/ stopped

JudgeInit ==
    /\ judge \in {"jev", "local"} /\ parent = "live" /\ stopped = FALSE
    /\ worker = [c \in Candidate |-> "waits"] /\ tries = [c \in Candidate |-> 0]
    /\ scores = [c \in Candidate |-> 0] /\ firstErr = 0 /\ scored = "none"

Calling == {c \in Candidate : worker[c] = "calls"}

\* A slot of the semaphore is free; the loop goes on when its call has returned.
MayCall(c) ==
    IF Sequential
    THEN firstErr = 0 /\ \A d \in 1..(c - 1) : worker[d] = "done"
    ELSE Cardinality(Calling) < Min({Concurrency, Judged})

Acquire(c) ==
    /\ worker[c] = "waits" /\ MayCall(c)
    /\ worker' = [worker EXCEPT ![c] = "calls"]
    /\ UNCHANGED <<judge, parent, stopped, tries, scores, firstErr, scored>>

\* once.Do: the first error is kept, and cancels the other workers.
Failed(c) ==
    /\ worker' = [worker EXCEPT ![c] = "done"]
    /\ firstErr' = IF firstErr = 0 THEN c ELSE firstErr
    /\ stopped' = TRUE
    /\ UNCHANGED <<judge, parent, scores, scored>>

\* A worker that waits for a slot gives up when the context is over.
GiveUp(c) ==
    /\ ~Sequential /\ worker[c] = "waits" /\ ContextOver
    /\ worker' = [worker EXCEPT ![c] = "done"]
    /\ firstErr' = IF firstErr = 0 THEN c ELSE firstErr
    /\ UNCHANGED <<judge, parent, stopped, tries, scores, scored>>

\* post: Jev is asked again after a transport error, a body that breaks off or a
\* status of 500 and more, also when the context is over, but not after another
\* error; a local judge is asked once.
Attempts == IF judge = "jev" THEN 2 ELSE 1

MayRetry(c) == tries[c] + 1 < Attempts

RequestFails(c) ==
    /\ worker[c] = "calls"
    /\ tries' = [tries EXCEPT ![c] = @ + 1]
    /\ IF MayRetry(c)
       THEN UNCHANGED <<judge, parent, stopped, worker, scores, firstErr, scored>>
       ELSE Failed(c)

\* A status of 400 to 499, or an answer that cannot be read.
Refused(c) ==
    /\ worker[c] = "calls" /\ ~ContextOver
    /\ UNCHANGED tries
    /\ Failed(c)

Answered(c) ==
    /\ worker[c] = "calls" /\ ~ContextOver
    /\ worker' = [worker EXCEPT ![c] = "done"]
    /\ scores' = [scores EXCEPT ![c] = c]
    /\ UNCHANGED <<judge, parent, stopped, tries, firstErr, scored>>

JudgingTimesOut ==
    /\ parent = "live" /\ scored = "none" /\ parent' = "over"
    /\ UNCHANGED <<judge, stopped, worker, tries, scores, firstErr, scored>>

\* wg.Wait, or the end of the loop.
EveryoneIsDone ==
    \/ \A c \in Candidate : worker[c] = "done"
    \/ Sequential /\ firstErr # 0

ReturnScores ==
    /\ scored = "none" /\ EveryoneIsDone
    /\ scored' = IF firstErr = 0 THEN "scores" ELSE "error"
    /\ UNCHANGED <<judge, parent, stopped, worker, tries, scores, firstErr>>

JudgeNext ==
    \/ \E c \in Candidate :
          Acquire(c) \/ GiveUp(c) \/ RequestFails(c) \/ Refused(c) \/ Answered(c)
    \/ JudgingTimesOut \/ ReturnScores

\* Goroutines run, the timeout of the step passes, and a request whose context is
\* over returns.
JudgeFairness ==
    WF_judgeVars(\/ JudgingTimesOut \/ ReturnScores
                 \/ \E c \in Candidate :
                       Acquire(c) \/ GiveUp(c) \/ (ContextOver /\ RequestFails(c)))
=============================================================================
