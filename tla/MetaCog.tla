------------------------------- MODULE MetaCog -------------------------------
(***************************************************************************)
(* The metacognition adapter (src/harness/llm/metacog): Respond asks the   *)
(* model once and then checks the first, greedy answer, by more thought    *)
(* paths that vote or by a judge that scores them, before it returns it or *)
(* in the background.  Turns are the calls of Respond; the coordinator     *)
(* starts one when the last has returned or has been interrupted.          *)
(*                                                                         *)
(* A path is what an inner Respond came back with: "failed", "call" (a     *)
(* response that calls tools), or a final answer, which states one of      *)
(* Stated or "none".  Scores are reduced to the comparisons that are made  *)
(* with them.  Of the paths that were tried, the pool keeps those that may *)
(* be chosen, in the order of the code; the first one is the greedy one.   *)
(*                                                                         *)
(* Left out: what the router prunes from the request (prepare), the size   *)
(* of its cache and of the list of swaps, the sums of usage, and the       *)
(* judge's counters.  All turns belong to one message of the user.         *)
(***************************************************************************)
EXTENDS Integers, Sequences, FiniteSets, FiniteSetsExt

CONSTANTS LastTurn,     \* turns are 1..LastTurn
          Stated,       \* the answers a path may state
          Vote,         \* Config.Vote, or Config.NMax where there is no vote
          MediumPaths,  \* mediumPaths
          Settings      \* the configurations explored

ASSUME MetaCogAssumption ==
    /\ LastTurn \in Nat /\ Vote \in Nat \ {0} /\ MediumPaths \in 1..Vote

VARIABLES
    setting,   \* [mode, voting, background, same]: the Config
    routed,    \* the cached verdict on the user's message (efforts)
    check,     \* the turn whose background check a.check cancels, 0 for none
    swaps,     \* a.swaps: <<t, o>> where the greedy answer of t is replaced by o
    reported,  \* the switches that Trace has been told of
    turn       \* the state of each call of Respond

metaVars == <<setting, routed, check, swaps, reported, turn>>

Turns == 1..LastTurn
Final == Stated \cup {"none"}
Outcome == {"failed", "call"} \cup Final

NewTurn ==
    [at       |-> "idle",      \* where Respond is
     waits    |-> 0,           \* the check it waits for in cancelCheck
     ctx      |-> "live",      \* its context
     reply    |-> "unasked",   \* what it returned
     think    |-> "none",      \* where think is
     thinkCtx |-> "live",      \* the context of think
     deadline |-> FALSE,       \* the time for more paths is up
     pending  |-> 0,           \* the extra paths that have not come back
     pool     |-> <<>>,        \* the paths that may be chosen
     chosen   |-> 1]           \* which one of them is

MetaCogInit ==
    /\ setting \in Settings
    /\ routed = "none" /\ check = 0 /\ swaps = {} /\ reported = {}
    /\ turn = [t \in Turns |-> NewTurn]

Background(t) == setting.background /\ Head(turn[t].pool) \in Final

\* The context that the extra paths run in.
RunOver(t) == turn[t].thinkCtx = "canceled" \/ turn[t].deadline

-----------------------------------------------------------------------------
(* Respond.                                                                *)

\* The coordinator does not wait for a Respond that it has interrupted.  One that
\* is in think shares nothing with the next (only a background check switches and
\* is canceled), so the model lets that one return first.
MayBegin(t) ==
    t > 1 => \/ turn[t - 1].at = "returned"
             \/ turn[t - 1].ctx = "canceled" /\ turn[t - 1].at # "think"

\* cancelCheck takes the check that is installed and cancels it.
Begin(t) ==
    /\ turn[t].at = "idle" /\ MayBegin(t)
    /\ check' = 0
    /\ turn' = [u \in Turns |->
                  IF u = t THEN [turn[t] EXCEPT !.at = "cancel", !.waits = check]
                  ELSE IF u = check THEN [turn[u] EXCEPT !.thinkCtx = "canceled"]
                  ELSE turn[u]]
    /\ UNCHANGED <<setting, routed, swaps, reported>>

\* Mutant: the canceled check is not waited for.
MutCheckEnded(t) == TRUE

CheckEnded(t) == turn[t].waits \in Turns => turn[turn[t].waits].think = "done"

\* The rest of cancelCheck, applySwaps, and routeEffort: the router is asked once
\* for each message of the user, and its failure leaves the request as it is.
Prepare(t) ==
    /\ turn[t].at = "cancel" /\ CheckEnded(t)
    /\ routed' \in IF routed = "none" THEN {"none", "trivial", "medium", "hard"}
                                      ELSE {routed}
    /\ turn' = [turn EXCEPT ![t].at = "inner"]
    /\ UNCHANGED <<setting, check, swaps, reported>>

\* The inner adapter returns, with an answer even if the turn has just been
\* interrupted.  A final answer is returned at once where its check runs in the
\* background; the check is installed over whatever is installed then.
InnerReturns(t) ==
    /\ turn[t].at = "inner"
    /\ \E o \in Outcome :
         LET judged == CASE setting.mode = "off"   -> FALSE
                         [] setting.mode = "final" -> o \in Final
                         [] OTHER                  -> o # "failed"
             back   == judged /\ setting.background /\ o \in Final
             after  == [turn[t] EXCEPT !.pool = <<o>>]
         IN  /\ turn' = [turn EXCEPT ![t] =
                  CASE back   -> [after EXCEPT !.at = "returned", !.reply = o, !.think = "start"]
                    [] judged /\ ~back -> [after EXCEPT !.at = "think", !.think = "start",
                                                        !.thinkCtx = turn[t].ctx]
                    [] OTHER  -> [turn[t] EXCEPT !.at = "returned", !.reply = o]]
             /\ check' = IF back THEN t ELSE check
    /\ UNCHANGED <<setting, routed, swaps, reported>>

\* The coordinator cancels the context of a turn that it interrupts; a check in
\* the background does not inherit that.
Interrupt(t) ==
    /\ turn[t].at \notin {"idle", "returned"} /\ turn[t].ctx = "live"
    /\ turn' = [turn EXCEPT ![t].ctx = "canceled",
                            ![t].thinkCtx = IF turn[t].at = "think" THEN "canceled" ELSE @]
    /\ UNCHANGED <<setting, routed, check, swaps, reported>>

-----------------------------------------------------------------------------
(* think.                                                                  *)

PoolIsFinal(t) == \A n \in DOMAIN turn[t].pool : turn[t].pool[n] \in Final

\* Mutant: a switch is not reported once the check is canceled.
MutReport(t) == turn[t].thinkCtx = "live"

\* Trace is told of every decision of a check that has not been canceled, and of
\* a switch in any case; the terminal keeps those among final answers
\* (recordPaths).
Report(t) == turn[t].thinkCtx = "live" \/ turn[t].think = "used"

\* think returns: its answer is that of Respond, unless it runs in the background.
Finish(t, chosen) ==
    /\ turn' = [turn EXCEPT ![t] =
                  [NewTurn EXCEPT
                     !.think = "done", !.at = "returned", !.waits = turn[t].waits,
                     !.reply = IF Background(t) THEN turn[t].reply ELSE turn[t].pool[chosen]]]
    /\ reported' = IF Background(t) /\ chosen > 1 /\ PoolIsFinal(t) /\ Report(t)
                   THEN reported \cup {<<t, turn[t].pool[chosen]>>} ELSE reported
    /\ UNCHANGED <<setting, routed, check, swaps>>

Pursue(t, phase) ==
    /\ turn' = [turn EXCEPT ![t].think = phase]
    /\ UNCHANGED <<setting, routed, check, swaps, reported>>

\* pathBudget; the router may have judged the message while this turn ran.
PathBudget == CASE routed = "trivial" -> 0
                [] routed = "medium"  -> MediumPaths
                [] OTHER              -> Vote

\* n extra paths start.
Try(t, phase, n) ==
    /\ turn' = [turn EXCEPT ![t].think = phase, ![t].pending = n]
    /\ UNCHANGED <<setting, routed, check, swaps, reported>>

\* A trivial request keeps its first answer; a final one is voted on.
StartThink(t) ==
    /\ turn[t].think = "start"
    /\ \/ routed = "trivial" /\ Finish(t, 1)
       \/ /\ routed # "trivial" /\ setting.voting /\ Head(turn[t].pool) \in Final
          /\ Try(t, "vote", PathBudget)
       \/ /\ routed # "trivial" /\ ~(setting.voting /\ Head(turn[t].pool) \in Final)
          /\ Pursue(t, "score")

\* The judge scores the greedy answer: above StopConfidence, or when it fails,
\* that answer stays.  Else the less sure it is, the more paths are tried.
Score(t) ==
    /\ turn[t].think = "score"
    /\ \/ Finish(t, 1)
       \/ \E n \in 1..Vote : Try(t, "branch", Min({n, PathBudget}))

\* When the context of the extra paths is over, they come back.
MustEnd(t) == RunOver(t)

Deadline(t) ==
    /\ turn[t].think \in {"vote", "branch"} /\ ~turn[t].deadline
    /\ turn' = [turn EXCEPT ![t].deadline = TRUE]
    /\ UNCHANGED <<setting, routed, check, swaps, reported>>

\* The paths that a pool keeps: in the mode that only judges answers none that call
\* tools, and none that failed.
Usable == IF setting.mode = "all" THEN Final \cup {"call"} ELSE Final

\* branch waits for all paths, and leaves out those that are not usable, which may
\* be any of them.
Gather(t) ==
    /\ turn[t].think = "branch"
    /\ \E n \in 0..turn[t].pending : \E extra \in [1..n -> Usable] :
          IF n = 0 THEN Finish(t, 1)
          ELSE /\ turn' = [turn EXCEPT ![t].pool = @ \o extra, ![t].think = "pool",
                                       ![t].pending = 0, ![t].deadline = FALSE]
               /\ UNCHANGED <<setting, routed, check, swaps, reported>>

-----------------------------------------------------------------------------
(* vote.                                                                   *)

\* The judge scores the first answer while the paths run; an answer that it
\* trusts ends the vote.
Gate(t) == turn[t].think = "vote" /\ Finish(t, 1)

\* Mutant: the newest path is compared with the first answer only.
MutAlike(t, o) == {{n \in {1} : o # "none" /\ turn[t].pool[n] = o}}

\* agreesWith: the sets of earlier paths in the pool that the newest one, which
\* states o, may be found to agree with.  Stated answers are compared; the other
\* pairs are left to the judge, if it can compare and still has time.
Alike(t, o) ==
    LET stated  == turn[t].pool
        equal   == {n \in DOMAIN stated : o # "none" /\ stated[n] = o}
        open    == {n \in DOMAIN stated : o = "none" \/ stated[n] = "none"}
    IN  {equal \cup found : found \in IF setting.same /\ ~RunOver(t)
                                      THEN SUBSET open ELSE {{}}}

\* A result of an extra path is received: the first path that it agrees with is
\* chosen, and without one the vote goes on until none is pending.
Receive(t) ==
    /\ turn[t].think = "vote"
    /\ \E o \in Outcome :
         \E alike \in IF o \in Final THEN Alike(t, o) ELSE {{}} :
            LET pool  == IF o \in Final THEN Append(turn[t].pool, o) ELSE turn[t].pool
                heard == [turn[t] EXCEPT !.pool = pool, !.pending = @ - 1]
            IN  turn' = [turn EXCEPT ![t] =
                  CASE alike # {} ->
                         [heard EXCEPT !.think = "chosen", !.chosen = Min(alike),
                                       !.pending = 0, !.deadline = FALSE]
                    [] alike = {} /\ heard.pending > 0 -> heard
                    [] OTHER -> [heard EXCEPT !.think = "counted", !.deadline = FALSE]]
    /\ UNCHANGED <<setting, routed, check, swaps, reported>>

\* No two paths agreed.
Counted(t) ==
    /\ turn[t].think = "counted"
    /\ IF Len(turn[t].pool) = 1 THEN Finish(t, 1) ELSE Pursue(t, "pool")

-----------------------------------------------------------------------------
(* The choice.                                                             *)

\* judgePool: the judge fails, or some path scores best.
JudgePool(t) ==
    /\ turn[t].think = "pool"
    /\ \/ Finish(t, 1)
       \/ \E n \in DOMAIN turn[t].pool :
            /\ turn[t].thinkCtx = "live"
            /\ turn' = [turn EXCEPT ![t].think = "chosen", ![t].chosen = n]
            /\ UNCHANGED <<setting, routed, check, swaps, reported>>

\* applyChoice looks at the context before it switches, in a step of its own.
MaySwitch(t) ==
    /\ Background(t) /\ turn[t].thinkCtx = "live" /\ turn[t].chosen > 1
    /\ PoolIsFinal(t)

ApplyChoice(t) ==
    /\ turn[t].think = "chosen"
    /\ IF MaySwitch(t) THEN Pursue(t, "use") ELSE Finish(t, turn[t].chosen)

UsePath(t) ==
    /\ turn[t].think = "use"
    /\ swaps' = {s \in swaps : s[1] # t} \cup {<<t, turn[t].pool[turn[t].chosen]>>}
    /\ turn' = [turn EXCEPT ![t].think = "used"]
    /\ UNCHANGED <<setting, routed, check, reported>>

Emit(t) == turn[t].think = "used" /\ Finish(t, turn[t].chosen)

ThinkStep(t) ==
    \/ StartThink(t) \/ Score(t) \/ Counted(t)
    \/ JudgePool(t) \/ ApplyChoice(t) \/ UsePath(t) \/ Emit(t)

TurnStep(t) ==
    \/ Begin(t) \/ Prepare(t) \/ InnerReturns(t) \/ Interrupt(t)
    \/ ThinkStep(t) \/ Deadline(t) \/ Gather(t) \/ Gate(t) \/ Receive(t)

MetaCogNext == \E t \in Turns : TurnStep(t)

\* Goroutines run, the inner adapter and the judge return (each has a timeout of
\* its own), and a context that is over ends the calls made in it.  Nothing says
\* that a path ends before its context does.
MetaCogFairness ==
    \A t \in Turns :
        /\ WF_metaVars(Prepare(t)) /\ WF_metaVars(InnerReturns(t))
        /\ WF_metaVars(ThinkStep(t)) /\ WF_metaVars(Deadline(t))
        /\ WF_metaVars(MustEnd(t) /\ (Gather(t) \/ Receive(t)))

-----------------------------------------------------------------------------
(* Properties.                                                             *)

\* A check in the background replaces an answer by an answer only, never by a path
\* that calls tools, and the program is told of every switch that is in force once
\* the check is over, and of no other: the terminal keeps what it is told for the
\* sessions to come.
SwitchesAreSafe ==
    /\ \A s \in swaps : s[2] \in Final /\ (turn[s[1]].think = "done" => s \in reported)
    /\ reported \subseteq swaps

\* Once Respond has stopped the check that it found, that check changes nothing any
\* more: the request that goes to the model is built on the answers the user has
\* seen, not on one that replaces them afterwards.
CanceledChecksAreQuiet ==
    [][\A t \in Turns : turn[t].at \notin {"idle", "cancel"} =>
          \A s \in swaps' \ swaps : s[1] # turn[t].waits]_metaVars
=============================================================================
