---------------------------- MODULE MetaCogProofs ----------------------------
(***************************************************************************)
(* Theorems about the MetaCog adapter, for every number of turns and paths *)
(* and every set of answers: what a check may switch, and when.            *)
(***************************************************************************)
EXTENDS MCTurns, WellFoundedInduction, TLAPS

\* The least element of a set of numbers is one of them.
LEMMA MinIsElement ==
    ASSUME NEW S, S \subseteq Nat, S # {}
    PROVE  Min(S) \in S
<1> DEFINE Less == {pair \in Nat \X Nat : pair[1] < pair[2]}
<1>1. IsWellFoundedOn(Less, Nat)
  BY NatLessThanWellFounded DEF OpToRel
<1> HIDE DEF Less
<1>2. PICK x \in S : \A y \in S : <<y, x>> \notin Less
  BY <1>1, WFMin
<1>3. ASSUME NEW y \in S PROVE x <= y
  <2>1. x \in Nat /\ y \in Nat
    OBVIOUS
  <2>2. y < x => <<y, x>> \in Less
    BY <2>1 DEF Less
  <2> QED
    BY <1>2, <2>1, <2>2
<1> QED
  BY <1>3 DEF Min

-----------------------------------------------------------------------------
(* The inductive invariant.                                                *)

\* A call is a record with the fields of NewTurn, whatever they hold.
IsCall(c) ==
    c = [at |-> c.at, waits |-> c.waits, ctx |-> c.ctx, reply |-> c.reply,
         think |-> c.think, thinkCtx |-> c.thinkCtx, deadline |-> c.deadline,
         pending |-> c.pending, pool |-> c.pool, chosen |-> c.chosen]

\* Thinking begins after the inner adapter has returned; what has been chosen is in
\* the pool; and a switch is prepared only among final answers.
ThinksInOrder(c) ==
    /\ c.at \in {"idle", "cancel", "inner"} => c.think = "none"
    /\ c.think \in {"start", "vote"} => c.pool \in Seq(Outcome)
    /\ c.think \in {"chosen", "use", "used"} => c.chosen \in DOMAIN c.pool
    /\ c.think \in {"use", "used"} =>
          /\ setting.background /\ Head(c.pool) \in Final
          /\ c.chosen > 1 /\ \A n \in DOMAIN c.pool : c.pool[n] \in Final

\* The swaps of a call: none before it has switched, then the path it has chosen.
SwapsOnce(t, c) ==
    /\ c.think \notin {"used", "done"} => \A s \in swaps : s[1] # t
    /\ c.think = "used" =>
          /\ <<t, c.pool[c.chosen]>> \in swaps
          /\ \A s \in swaps : s[1] = t => s = <<t, c.pool[c.chosen]>>
    /\ c.think = "done" => \A s \in swaps : s[1] = t => s \in reported

\* A Respond that has gone on has seen the end of the check it waits for.
WaitsForEnd(c) ==
    c.at \notin {"idle", "cancel"} /\ c.waits \in Turns => turn[c.waits].think = "done"

CallInv(t, c) == IsCall(c) /\ ThinksInOrder(c) /\ SwapsOnce(t, c) /\ WaitsForEnd(c)

Inv ==
    /\ turn = [t \in Turns |-> turn[t]]
    /\ swaps \subseteq Turns \X Final
    /\ reported \subseteq swaps
    /\ \A t \in Turns : CallInv(t, turn[t])

\* The invariant holds at first.
LEMMA InitInv == MetaCogInit => Inv
BY DEF MetaCogInit, Inv, CallInv, IsCall, ThinksInOrder, SwapsOnce, WaitsForEnd, NewTurn

-----------------------------------------------------------------------------
(* Steps that change one call.                                             *)

\* A step that leaves one call in order, and adds no switch but its own, keeps the
\* invariant.
LEMMA OneCall ==
    ASSUME Inv, NEW t \in Turns,
           turn' = [turn EXCEPT ![t] = turn'[t]], setting' = setting,
           swaps \subseteq swaps', swaps' \subseteq Turns \X Final,
           \A s \in swaps' \ swaps : s[1] = t,
           reported \subseteq reported', reported' \subseteq swaps',
           IsCall(turn[t])', ThinksInOrder(turn[t])', SwapsOnce(t, turn[t])',
           turn[t].think = "done" => turn'[t].think = "done",
           WaitsForEnd(turn[t])'
    PROVE  Inv'
<1>1. /\ turn' = [u \in Turns |-> turn'[u]]
      /\ \A u \in Turns \ {t} : turn'[u] = turn[u]
      /\ \A u \in Turns : turn[u].think = "done" => turn'[u].think = "done"
  BY DEF Inv
<1>2. CallInv(t, turn[t])'
  BY DEF CallInv
<1>3. ASSUME NEW u \in Turns \ {t} PROVE CallInv(u, turn[u])'
  <2>1. CallInv(u, turn[u]) /\ turn'[u] = turn[u]
    BY <1>1 DEF Inv
  <2>2. IsCall(turn[u])' /\ ThinksInOrder(turn[u])'
    BY <2>1 DEF CallInv, IsCall, ThinksInOrder
  <2>3. \A s \in swaps' : s[1] = u => s \in swaps
    OBVIOUS
  <2>4. SwapsOnce(u, turn[u])'
    BY <2>1, <2>3 DEF CallInv, SwapsOnce
  <2>5. WaitsForEnd(turn[u])'
    BY <2>1, <1>1 DEF CallInv, WaitsForEnd
  <2> QED
    BY <2>2, <2>4, <2>5 DEF CallInv
<1> QED
  BY <1>1, <1>2, <1>3 DEF Inv

\* What the invariant says of one call.
LEMMA CallFacts ==
    ASSUME Inv, NEW t \in Turns
    PROVE  /\ IsCall(turn[t]) /\ ThinksInOrder(turn[t]) /\ SwapsOnce(t, turn[t])
           /\ WaitsForEnd(turn[t])
BY DEF Inv, CallInv

\* A step of a check that has not ended, and switches nothing, keeps the invariant
\* if it leaves what has been chosen in order.
LEMMA OneThought ==
    ASSUME Inv, NEW t \in Turns,
           turn' = [turn EXCEPT ![t] = turn'[t]], UNCHANGED <<setting, swaps, reported>>,
           turn[t].think \notin {"none", "used", "done"},
           turn'[t].think \notin {"none", "used", "done"},
           turn'[t].at = turn[t].at, turn'[t].waits = turn[t].waits,
           IsCall(turn[t])', ThinksInOrder(turn[t])'
    PROVE  Inv'
<1>1. SwapsOnce(t, turn[t])'
  BY CallFacts DEF SwapsOnce
<1>2. ASSUME turn[t].waits \in Turns PROVE turn'[turn[t].waits].think = "done"
  <2>1. turn[turn[t].waits].think = "done"
    BY <1>2, CallFacts DEF WaitsForEnd, ThinksInOrder
  <2> QED
    BY <1>2, <2>1 DEF Inv
<1>3. WaitsForEnd(turn[t])'
  BY <1>2 DEF WaitsForEnd
<1> QED
  BY <1>1, <1>3, OneCall DEF Inv

\* think returns: a check that has switched reports the switch, and no other reports.
LEMMA FinishStep ==
    ASSUME Inv, NEW t \in Turns, NEW n, Finish(t, n),
           turn[t].think \notin {"none", "done"},
           turn[t].think = "used" => n = turn[t].chosen,
           turn[t].think # "used" => reported' = reported
    PROVE  Inv'
<1>1. PICK reply :
         turn' = [turn EXCEPT ![t] =
                    [NewTurn EXCEPT !.think = "done", !.at = "returned",
                                    !.waits = turn[t].waits, !.reply = reply]]
  BY DEF Finish
<1>2. UNCHANGED <<setting, swaps>>
  BY DEF Finish
<1>3. /\ turn' = [turn EXCEPT ![t] = turn'[t]]
      /\ turn'[t] = [NewTurn EXCEPT !.think = "done", !.at = "returned",
                                    !.waits = turn[t].waits, !.reply = reply]
  BY <1>1 DEF Inv
<1>4. /\ IsCall(turn[t])' /\ ThinksInOrder(turn[t])'
      /\ turn'[t].think = "done" /\ turn'[t].waits = turn[t].waits
  BY <1>3 DEF IsCall, ThinksInOrder, NewTurn
<1>5. /\ reported \subseteq reported' /\ reported' \subseteq swaps
      /\ \A s \in swaps : s[1] = t => s \in reported'
  <2>1. CASE turn[t].think = "used"
    <3>1. reported' = reported \cup {<<t, turn[t].pool[turn[t].chosen]>>}
      BY <2>1, CallFacts DEF ThinksInOrder, Finish, Background, PoolIsFinal, Report
    <3>2. /\ <<t, turn[t].pool[turn[t].chosen]>> \in swaps
          /\ \A s \in swaps : s[1] = t => s = <<t, turn[t].pool[turn[t].chosen]>>
      BY <2>1, CallFacts DEF SwapsOnce
    <3>3. reported \subseteq swaps
      BY DEF Inv
    <3> QED
      BY <3>1, <3>2, <3>3
  <2>2. CASE turn[t].think # "used"
    BY <2>2, CallFacts DEF SwapsOnce, Inv
  <2> QED
    BY <2>1, <2>2
<1>6. SwapsOnce(t, turn[t])'
  BY <1>2, <1>4, <1>5 DEF SwapsOnce
<1>7. turn[t].waits \in Turns => turn'[turn[t].waits].think = "done"
  BY <1>3, <1>4, CallFacts DEF WaitsForEnd, ThinksInOrder, Inv
<1>8. WaitsForEnd(turn[t])'
  BY <1>4, <1>7 DEF WaitsForEnd
<1> QED
  BY <1>2, <1>3, <1>4, <1>5, <1>6, <1>8, OneCall DEF Inv

-----------------------------------------------------------------------------
(* The actions.                                                            *)

\* Respond begins, and cancels the check it finds: only contexts and what the call
\* waits for change.
LEMMA BeginStep == ASSUME Inv, NEW t \in Turns, Begin(t) PROVE Inv'
<1>1. /\ turn' = [u \in Turns |-> turn'[u]]
      /\ UNCHANGED <<setting, swaps, reported>>
      /\ turn[t].at = "idle" /\ turn'[t] = [turn[t] EXCEPT !.at = "cancel", !.waits = check]
      /\ \A u \in Turns \ {t} :
            turn'[u] = turn[u] \/ turn'[u] = [turn[u] EXCEPT !.thinkCtx = "canceled"]
  BY DEF Begin
<1>2. ASSUME NEW u \in Turns
      PROVE  /\ IsCall(turn[u])' /\ turn'[u].think = turn[u].think
             /\ turn'[u].pool = turn[u].pool /\ turn'[u].chosen = turn[u].chosen
             /\ \/ turn'[u].at = turn[u].at /\ turn'[u].waits = turn[u].waits
                \/ turn[u].at = "idle" /\ turn'[u].at = "cancel"
  <2>1. IsCall(turn[u])
    BY CallFacts
  <2>2. CASE u = t
    BY <1>1, <2>1, <2>2 DEF IsCall
  <2>3. CASE u # t
    BY <1>1, <2>1, <2>3 DEF IsCall
  <2> QED
    BY <2>2, <2>3
<1>3. ASSUME NEW u \in Turns PROVE CallInv(u, turn[u])'
  <2>1. ThinksInOrder(turn[u])'
    <3>1. ThinksInOrder(turn[u])
      BY CallFacts
    <3> QED
      BY <1>1, <1>2, <3>1 DEF ThinksInOrder
  <2>2. SwapsOnce(u, turn[u])'
    <3>1. SwapsOnce(u, turn[u])
      BY CallFacts
    <3> QED
      BY <1>1, <1>2, <3>1 DEF SwapsOnce
  <2>3. WaitsForEnd(turn[u])'
    <3>1. WaitsForEnd(turn[u])
      BY CallFacts
    <3> QED
      BY <1>2, <3>1 DEF WaitsForEnd
  <2> QED
    BY <1>2, <2>1, <2>2, <2>3 DEF CallInv
<1> QED
  BY <1>1, <1>3 DEF Inv

\* It goes on when the check has ended.
LEMMA PrepareStep == ASSUME Inv, NEW t \in Turns, Prepare(t) PROVE Inv'
<1>1. /\ turn' = [turn EXCEPT ![t] = turn'[t]] /\ UNCHANGED <<setting, swaps, reported>>
      /\ turn[t].at = "cancel" /\ turn'[t] = [turn[t] EXCEPT !.at = "inner"]
  BY DEF Prepare, Inv
<1>2. turn[t].think = "none"
  BY <1>1, CallFacts DEF ThinksInOrder
<1>3. /\ IsCall(turn[t])' /\ turn'[t].at = "inner" /\ turn'[t].think = "none"
      /\ turn'[t].waits = turn[t].waits
  BY <1>1, <1>2, CallFacts DEF IsCall
<1>4. ThinksInOrder(turn[t])' /\ SwapsOnce(t, turn[t])'
  BY <1>1, <1>2, <1>3, CallFacts DEF ThinksInOrder, SwapsOnce
<1>5. WaitsForEnd(turn[t])'
  <2>1. SUFFICES ASSUME turn[t].waits \in Turns PROVE turn'[turn[t].waits].think = "done"
    BY <1>3 DEF WaitsForEnd
  <2>2. turn[turn[t].waits].think = "done"
    BY <2>1 DEF Prepare, CheckEnded
  <2> QED
    BY <1>1, <1>2, <2>1, <2>2 DEF Inv
<1> QED
  BY <1>1, <1>2, <1>3, <1>4, <1>5, OneCall DEF Inv

\* The inner adapter returns: the pool holds what it came back with.
LEMMA InnerReturnsStep == ASSUME Inv, NEW t \in Turns, InnerReturns(t) PROVE Inv'
<1>1. turn[t].at = "inner" /\ turn[t].think = "none"
  BY CallFacts DEF InnerReturns, ThinksInOrder
<1>2. PICK o \in Outcome :
         \/ turn' = [turn EXCEPT ![t] = [[turn[t] EXCEPT !.pool = <<o>>] EXCEPT
                       !.at = "returned", !.reply = o, !.think = "start"]]
         \/ turn' = [turn EXCEPT ![t] = [[turn[t] EXCEPT !.pool = <<o>>] EXCEPT
                       !.at = "think", !.think = "start", !.thinkCtx = turn[t].ctx]]
         \/ turn' = [turn EXCEPT ![t] = [turn[t] EXCEPT !.at = "returned", !.reply = o]]
  BY DEF InnerReturns
<1>3. turn' = [turn EXCEPT ![t] = turn'[t]] /\ UNCHANGED <<setting, swaps, reported>>
  BY <1>2 DEF InnerReturns, Inv
<1>4. /\ IsCall(turn[t])' /\ turn'[t].at \in {"think", "returned"}
      /\ turn'[t].waits = turn[t].waits
      /\ turn'[t].think = "none" \/ (turn'[t].think = "start" /\ turn'[t].pool = <<o>>)
  <2>1. IsCall(turn[t]) /\ t \in DOMAIN turn
    BY CallFacts DEF Inv
  <2> QED
    BY <1>1, <1>2, <2>1, ZenonT(60) DEF IsCall
<1>5. ThinksInOrder(turn[t])'
  <2>1. <<o>> \in Seq(Outcome)
    OBVIOUS
  <2> QED
    BY <1>4, <2>1 DEF ThinksInOrder
<1>6. SwapsOnce(t, turn[t])'
  <2>1. \A s \in swaps : s[1] # t
    BY <1>1, CallFacts DEF SwapsOnce
  <2> QED
    BY <1>3, <1>4, <2>1 DEF SwapsOnce
<1>7. WaitsForEnd(turn[t])'
  <2>1. SUFFICES ASSUME turn[t].waits \in Turns PROVE turn'[turn[t].waits].think = "done"
    BY <1>4 DEF WaitsForEnd
  <2>2. turn[turn[t].waits].think = "done"
    BY <1>1, <2>1, CallFacts DEF WaitsForEnd
  <2> QED
    BY <1>1, <1>3, <2>1, <2>2 DEF Inv
<1> QED
  BY <1>1, <1>2, <1>3, <1>4, <1>5, <1>6, <1>7, OneCall DEF Inv

\* A step that changes only what the invariant does not look at.
LEMMA SameCall ==
    ASSUME Inv, NEW t \in Turns,
           turn' = [turn EXCEPT ![t] = turn'[t]], UNCHANGED <<setting, swaps, reported>>,
           IsCall(turn[t])', turn'[t].at = turn[t].at, turn'[t].think = turn[t].think,
           turn'[t].waits = turn[t].waits, turn'[t].pool = turn[t].pool,
           turn'[t].chosen = turn[t].chosen
    PROVE  Inv'
<1>1. ThinksInOrder(turn[t])'
  BY CallFacts DEF ThinksInOrder
<1>2. SwapsOnce(t, turn[t])'
  BY CallFacts DEF SwapsOnce
<1>3. \A u \in Turns : turn'[u].think = turn[u].think
  BY DEF Inv
<1>4. WaitsForEnd(turn[t])'
  BY <1>3, CallFacts DEF WaitsForEnd
<1> QED
  BY <1>1, <1>2, <1>4, OneCall DEF Inv

\* An interrupt, and the end of the time for more paths, change contexts only.
LEMMA InterruptStep == ASSUME Inv, NEW t \in Turns, Interrupt(t) PROVE Inv'
<1>1. PICK ctx : turn' = [turn EXCEPT ![t] = [turn[t] EXCEPT !.ctx = "canceled",
                                                           !.thinkCtx = ctx]]
  BY DEF Interrupt, Inv
<1>2. /\ turn' = [turn EXCEPT ![t] = turn'[t]] /\ UNCHANGED <<setting, swaps, reported>>
      /\ turn'[t] = [turn[t] EXCEPT !.ctx = "canceled", !.thinkCtx = ctx]
  BY <1>1 DEF Interrupt, Inv
<1>3. IsCall(turn[t])
  BY CallFacts
<1> QED
  BY <1>2, <1>3, SameCall DEF IsCall

LEMMA DeadlineStep == ASSUME Inv, NEW t \in Turns, Deadline(t) PROVE Inv'
<1>1. /\ turn' = [turn EXCEPT ![t] = turn'[t]] /\ UNCHANGED <<setting, swaps, reported>>
      /\ turn'[t] = [turn[t] EXCEPT !.deadline = TRUE]
  BY DEF Deadline, Inv
<1>2. IsCall(turn[t])
  BY CallFacts
<1> QED
  BY <1>1, <1>2, SameCall DEF IsCall

\* A decision for the first answer.
LEMMA KeepFirst ==
    ASSUME Inv, NEW t \in Turns, Finish(t, 1), turn[t].think \notin {"none", "used", "done"}
    PROVE  Inv'
<1>1. reported' = reported
  BY DEF Finish
<1> QED
  BY <1>1, FinishStep

\* A check moves on to a place that looks at nothing.
LEMMA PursueStep ==
    ASSUME Inv, NEW t \in Turns, NEW place \in {"score", "pool"}, Pursue(t, place),
           turn[t].think \notin {"none", "used", "done"}
    PROVE  Inv'
<1>1. /\ turn' = [turn EXCEPT ![t] = turn'[t]] /\ UNCHANGED <<setting, swaps, reported>>
      /\ turn'[t] = [turn[t] EXCEPT !.think = place]
  BY DEF Pursue, Inv
<1>2. /\ IsCall(turn[t])' /\ turn'[t].think = place /\ turn'[t].at = turn[t].at
      /\ turn'[t].waits = turn[t].waits
  BY <1>1, CallFacts DEF IsCall
<1>3. ThinksInOrder(turn[t])'
  BY <1>2, CallFacts DEF ThinksInOrder
<1> QED
  BY <1>1, <1>2, <1>3, OneThought

\* More paths are tried: a vote goes on with the sequence that the check began with.
LEMMA TryStep ==
    ASSUME Inv, NEW t \in Turns, NEW place \in {"vote", "branch"}, NEW n, Try(t, place, n),
           turn[t].think \in {"start", "score"}, place = "vote" => turn[t].think = "start"
    PROVE  Inv'
<1>1. /\ turn' = [turn EXCEPT ![t] = turn'[t]] /\ UNCHANGED <<setting, swaps, reported>>
      /\ turn'[t] = [turn[t] EXCEPT !.think = place, !.pending = n]
  BY DEF Try, Inv
<1>2. /\ IsCall(turn[t])' /\ turn'[t].think = place /\ turn'[t].at = turn[t].at
      /\ turn'[t].waits = turn[t].waits /\ turn'[t].pool = turn[t].pool
  BY <1>1, CallFacts DEF IsCall
<1>3. ThinksInOrder(turn[t])'
  BY <1>2, CallFacts DEF ThinksInOrder
<1> QED
  BY <1>1, <1>2, <1>3, OneThought

LEMMA StartThinkStep == ASSUME Inv, NEW t \in Turns, StartThink(t) PROVE Inv'
BY KeepFirst, PursueStep, TryStep DEF StartThink

LEMMA ScoreStep == ASSUME Inv, NEW t \in Turns, Score(t) PROVE Inv'
BY KeepFirst, TryStep DEF Score

LEMMA GateStep == ASSUME Inv, NEW t \in Turns, Gate(t) PROVE Inv'
BY KeepFirst DEF Gate

LEMMA CountedStep == ASSUME Inv, NEW t \in Turns, Counted(t) PROVE Inv'
BY KeepFirst, PursueStep DEF Counted

\* The paths of a branch are gathered.
LEMMA GatherStep == ASSUME Inv, NEW t \in Turns, Gather(t) PROVE Inv'
<1>1. CASE Finish(t, 1)
  BY <1>1, KeepFirst DEF Gather
<1>2. ASSUME NEW pool,
             turn' = [turn EXCEPT ![t] = [turn[t] EXCEPT !.pool = pool, !.think = "pool",
                                                         !.pending = 0, !.deadline = FALSE]],
             UNCHANGED <<setting, swaps, reported>>
      PROVE  Inv'
  <2>1. /\ turn' = [turn EXCEPT ![t] = turn'[t]]
        /\ turn'[t] = [turn[t] EXCEPT !.pool = pool, !.think = "pool",
                                      !.pending = 0, !.deadline = FALSE]
    BY <1>2 DEF Inv
  <2>2. /\ IsCall(turn[t])' /\ turn'[t].think = "pool" /\ turn'[t].at = turn[t].at
        /\ turn'[t].waits = turn[t].waits
    BY <2>1, CallFacts DEF IsCall
  <2>3. turn[t].think = "branch"
    BY DEF Gather
  <2>4. ThinksInOrder(turn[t])'
    BY <2>2, <2>3, CallFacts DEF ThinksInOrder
  <2> QED
    BY <1>2, <2>1, <2>2, <2>3, <2>4, OneThought
<1>3. PICK got : Finish(t, 1) \/
        /\ turn' = [turn EXCEPT ![t].pool = @ \o got, ![t].think = "pool",
                                ![t].pending = 0, ![t].deadline = FALSE]
        /\ UNCHANGED <<setting, swaps, reported>>
  BY DEF Gather
<1>4. [turn EXCEPT ![t].pool = @ \o got, ![t].think = "pool",
                   ![t].pending = 0, ![t].deadline = FALSE]
        = [turn EXCEPT ![t] = [turn[t] EXCEPT !.pool = turn[t].pool \o got, !.think = "pool",
                                              !.pending = 0, !.deadline = FALSE]]
  BY DEF Inv
<1> QED
  BY <1>1, <1>2, <1>3, <1>4

\* The paths that a new one agrees with are paths of the pool.
LEMMA AlikeInPool ==
    ASSUME NEW t, NEW o, NEW alike \in Alike(t, o)
    PROVE  alike \subseteq DOMAIN turn[t].pool
BY DEF Alike

\* The call c after a path has been received, with the pool that it then has and the
\* paths that the new one agrees with.
Heard(c, alike, pool) ==
    LET after == [c EXCEPT !.pool = pool, !.pending = c.pending - 1]
    IN  CASE alike # {} -> [after EXCEPT !.think = "chosen", !.chosen = Min(alike),
                                         !.pending = 0, !.deadline = FALSE]
          [] alike = {} /\ after.pending > 0 -> after
          [] OTHER -> [after EXCEPT !.think = "counted", !.deadline = FALSE]

\* A path is received, and the vote is over if it agrees with an earlier one, which is
\* still in the pool.
LEMMA ReceiveStep == ASSUME Inv, NEW t \in Turns, Receive(t) PROVE Inv'
<1>1. /\ turn[t].think = "vote" /\ IsCall(turn[t]) /\ turn[t].pool \in Seq(Outcome)
      /\ UNCHANGED <<setting, swaps, reported>>
  BY CallFacts DEF Receive, ThinksInOrder
<1>2. PICK o \in Outcome :
        \E alike \in IF o \in Final THEN Alike(t, o) ELSE {{}} :
        \E pool \in {Append(turn[t].pool, o), turn[t].pool} :
           turn' = [turn EXCEPT ![t] = Heard(turn[t], alike, pool)]
  BY DEF Receive, Heard
<1>3. PICK alike \in (IF o \in Final THEN Alike(t, o) ELSE {{}}),
           pool \in {Append(turn[t].pool, o), turn[t].pool} :
        turn' = [turn EXCEPT ![t] = Heard(turn[t], alike, pool)]
  BY <1>2
<1>4. /\ pool \in Seq(Outcome) /\ DOMAIN turn[t].pool \subseteq DOMAIN pool
      /\ turn' = [turn EXCEPT ![t] = turn'[t]] /\ turn'[t] = Heard(turn[t], alike, pool)
  BY <1>1, <1>3 DEF Inv
<1>5. alike # {} => Min(alike) \in DOMAIN pool
  <2>1. alike \subseteq DOMAIN turn[t].pool
    BY AlikeInPool
  <2>2. alike \subseteq Nat
    BY <1>1, <2>1
  <2> QED
    BY <1>4, <2>1, <2>2, MinIsElement
<1>6. /\ IsCall(turn[t])' /\ turn'[t].at = turn[t].at /\ turn'[t].waits = turn[t].waits
      /\ turn'[t].pool = pool
      /\ \/ turn'[t].think = "chosen" /\ turn'[t].chosen = Min(alike) /\ alike # {}
         \/ turn'[t].think \in {"vote", "counted"}
  BY <1>1, <1>4, ZenonT(60) DEF IsCall, Heard
<1>7. ThinksInOrder(turn[t])'
  BY <1>1, <1>4, <1>5, <1>6, CallFacts DEF ThinksInOrder
<1> QED
  BY <1>1, <1>4, <1>6, <1>7, OneThought

\* The judge chooses a path of the pool.
LEMMA JudgePoolStep == ASSUME Inv, NEW t \in Turns, JudgePool(t) PROVE Inv'
<1>1. CASE Finish(t, 1)
  BY <1>1, KeepFirst DEF JudgePool
<1>2. ASSUME NEW n \in DOMAIN turn[t].pool,
             turn' = [turn EXCEPT ![t] = [turn[t] EXCEPT !.think = "chosen", !.chosen = n]],
             UNCHANGED <<setting, swaps, reported>>
      PROVE  Inv'
  <2>1. /\ turn' = [turn EXCEPT ![t] = turn'[t]]
        /\ turn'[t] = [turn[t] EXCEPT !.think = "chosen", !.chosen = n]
    BY <1>2 DEF Inv
  <2>2. /\ IsCall(turn[t])' /\ turn'[t].think = "chosen" /\ turn'[t].chosen = n
        /\ turn'[t].at = turn[t].at /\ turn'[t].waits = turn[t].waits
        /\ turn'[t].pool = turn[t].pool
    BY <2>1, CallFacts DEF IsCall
  <2>3. turn[t].think = "pool"
    BY DEF JudgePool
  <2>4. ThinksInOrder(turn[t])'
    BY <2>2, <2>3, CallFacts DEF ThinksInOrder
  <2> QED
    BY <1>2, <2>1, <2>2, <2>3, <2>4, OneThought
<1>3. \/ Finish(t, 1)
      \/ \E n \in DOMAIN turn[t].pool :
           /\ turn' = [turn EXCEPT ![t] = [turn[t] EXCEPT !.think = "chosen", !.chosen = n]]
           /\ UNCHANGED <<setting, swaps, reported>>
  BY DEF JudgePool, Inv
<1> QED
  BY <1>1, <1>2, <1>3

\* A check that has not been canceled, and has chosen another answer, will switch;
\* what else is chosen is nothing to report.
LEMMA ApplyChoiceStep == ASSUME Inv, NEW t \in Turns, ApplyChoice(t) PROVE Inv'
<1>1. turn[t].think = "chosen" /\ turn[t].chosen \in DOMAIN turn[t].pool /\ IsCall(turn[t])
  BY CallFacts DEF ApplyChoice, ThinksInOrder
<1>2. CASE MaySwitch(t)
  <2>1. /\ turn' = [turn EXCEPT ![t] = turn'[t]] /\ UNCHANGED <<setting, swaps, reported>>
        /\ turn'[t] = [turn[t] EXCEPT !.think = "use"]
    BY <1>2 DEF ApplyChoice, Pursue, Inv
  <2>2. /\ IsCall(turn[t])' /\ turn'[t].think = "use" /\ turn'[t].chosen = turn[t].chosen
        /\ turn'[t].at = turn[t].at /\ turn'[t].waits = turn[t].waits
        /\ turn'[t].pool = turn[t].pool
    BY <1>1, <2>1 DEF IsCall
  <2>3. /\ setting.background /\ Head(turn[t].pool) \in Final /\ turn[t].chosen > 1
        /\ \A n \in DOMAIN turn[t].pool : turn[t].pool[n] \in Final
    BY <1>2 DEF MaySwitch, Background, PoolIsFinal
  <2>4. ThinksInOrder(turn[t])'
    BY <1>1, <2>1, <2>2, <2>3, CallFacts DEF ThinksInOrder
  <2> QED
    BY <1>1, <2>1, <2>2, <2>4, OneThought
<1>3. CASE ~MaySwitch(t)
  <2>1. Finish(t, turn[t].chosen)
    BY <1>3 DEF ApplyChoice
  <2>2. reported' = reported
    BY <1>1, <1>3, <2>1 DEF Finish, MaySwitch, Report
  <2> QED
    BY <1>1, <2>1, <2>2, FinishStep
<1> QED
  BY <1>2, <1>3

\* usePath: the first switch of this call.
LEMMA UsePathStep == ASSUME Inv, NEW t \in Turns, UsePath(t) PROVE Inv'
<1> DEFINE switch == <<t, turn[t].pool[turn[t].chosen]>>
<1>1. /\ turn[t].think = "use" /\ IsCall(turn[t]) /\ ThinksInOrder(turn[t])
      /\ \A s \in swaps : s[1] # t
      /\ swaps \subseteq Turns \X Final /\ reported \subseteq swaps
  BY CallFacts DEF UsePath, SwapsOnce, Inv
<1>2. /\ turn' = [turn EXCEPT ![t] = turn'[t]] /\ UNCHANGED <<setting, reported>>
      /\ turn'[t] = [turn[t] EXCEPT !.think = "used"]
      /\ swaps' = {s \in swaps : s[1] # t} \cup {switch}
  BY DEF UsePath, Inv
<1>3. turn[t].pool[turn[t].chosen] \in Final
  BY <1>1 DEF ThinksInOrder
<1>4. /\ IsCall(turn[t])' /\ turn'[t].think = "used" /\ turn'[t].chosen = turn[t].chosen
      /\ turn'[t].at = turn[t].at /\ turn'[t].waits = turn[t].waits
      /\ turn'[t].pool = turn[t].pool
  BY <1>1, <1>2 DEF IsCall
<1>5. swaps' = swaps \cup {switch} /\ switch \in Turns \X Final /\ switch[1] = t
  BY <1>1, <1>2, <1>3
<1>6. ThinksInOrder(turn[t])'
  BY <1>1, <1>2, <1>4 DEF ThinksInOrder
<1>7. SwapsOnce(t, turn[t])'
  <2>1. turn'[t].pool[turn'[t].chosen] = turn[t].pool[turn[t].chosen]
    BY <1>4
  <2> QED
    BY <1>1, <1>4, <1>5, <2>1 DEF SwapsOnce
<1>8. WaitsForEnd(turn[t])'
  <2>1. SUFFICES ASSUME turn[t].waits \in Turns PROVE turn'[turn[t].waits].think = "done"
    BY <1>4 DEF WaitsForEnd
  <2>2. turn[turn[t].waits].think = "done"
    BY <1>1, <2>1, CallFacts DEF WaitsForEnd, ThinksInOrder
  <2> QED
    BY <1>1, <1>2, <2>1, <2>2 DEF Inv
<1> QED
  BY <1>1, <1>2, <1>4, <1>5, <1>6, <1>7, <1>8, OneCall

\* And its report.
LEMMA EmitStep == ASSUME Inv, NEW t \in Turns, Emit(t) PROVE Inv'
BY FinishStep DEF Emit

-----------------------------------------------------------------------------
(* The theorems.                                                           *)

LEMMA NextInv == Inv /\ [MetaCogNext]_metaVars => Inv'
<1> SUFFICES ASSUME Inv, [MetaCogNext]_metaVars PROVE Inv'
  OBVIOUS
<1>1. CASE UNCHANGED metaVars
  BY <1>1 DEF metaVars, Inv, CallInv, IsCall, ThinksInOrder, SwapsOnce, WaitsForEnd
<1>2. ASSUME NEW t \in Turns, TurnStep(t) PROVE Inv'
  <2>1. CASE Begin(t) \/ Prepare(t) \/ InnerReturns(t) \/ Interrupt(t)
    BY <2>1, BeginStep, PrepareStep, InnerReturnsStep, InterruptStep
  <2>2. CASE ThinkStep(t)
    BY <2>2, StartThinkStep, ScoreStep, CountedStep, JudgePoolStep, ApplyChoiceStep,
       UsePathStep, EmitStep DEF ThinkStep
  <2>3. CASE Deadline(t) \/ Gather(t) \/ Gate(t) \/ Receive(t)
    BY <2>3, DeadlineStep, GatherStep, GateStep, ReceiveStep
  <2> QED
    BY <1>2, <2>1, <2>2, <2>3 DEF TurnStep
<1> QED
  BY <1>1, <1>2 DEF MetaCogNext

\* Whatever the adapter is configured to do and however its turns are interrupted, a
\* check replaces answers by answers only, and its switches are the ones that are
\* reported.
THEOREM Switching == MetaCogInit /\ [][MetaCogNext]_metaVars => []SwitchesAreSafe
<1>1. Inv => SwitchesAreSafe
  <2> SUFFICES ASSUME Inv, NEW s \in swaps
               PROVE  s[2] \in Final /\ (turn[s[1]].think = "done" => s \in reported)
    BY DEF Inv, SwitchesAreSafe
  <2>1. s[1] \in Turns /\ s[2] \in Final
    BY DEF Inv
  <2> QED
    BY <2>1, CallFacts DEF SwapsOnce
<1> QED
  BY <1>1, InitInv, NextInv, PTL

\* A check that Respond has waited for switches nothing any more.
THEOREM Quieting == MetaCogInit /\ [][MetaCogNext]_metaVars => CanceledChecksAreQuiet
<1> DEFINE Quiet == \A t \in Turns : turn[t].at \notin {"idle", "cancel"} =>
                      \A s \in swaps' \ swaps : s[1] # turn[t].waits
<1>1. Inv /\ [MetaCogNext]_metaVars => [Quiet]_metaVars
  <2> SUFFICES ASSUME Inv, MetaCogNext,
                      NEW t \in Turns, turn[t].at \notin {"idle", "cancel"},
                      NEW s \in swaps' \ swaps
               PROVE  s[1] # turn[t].waits
    OBVIOUS
  <2>1. PICK u \in Turns : TurnStep(u)
    BY DEF MetaCogNext
  <2>2. UsePath(u)
    BY <2>1 DEF TurnStep, ThinkStep, Begin, Prepare, InnerReturns, Interrupt, Deadline, Gather,
                Gate, Receive, StartThink, Score, Counted, JudgePool, ApplyChoice, Emit, Finish,
                Pursue, Try
  <2>3. turn[u].think = "use" /\ s[1] = u
    BY <2>2 DEF UsePath
  <2>4. turn[t].waits \in Turns => turn[turn[t].waits].think = "done"
    BY CallFacts DEF WaitsForEnd
  <2> QED
    BY <2>3, <2>4
<1>2. CanceledChecksAreQuiet <=> [][Quiet]_metaVars
  BY DEF CanceledChecksAreQuiet
<1> QED
  BY <1>1, <1>2, InitInv, NextInv, PTL

-----------------------------------------------------------------------------
(* What is left to a judge: the vote.                                      *)

\* Of every two paths in a pool, one states no answer or they state different ones.
NoAgreement(pool) ==
    \A m, n \in DOMAIN pool : m < n => pool[m] = "none" \/ pool[m] # pool[n]

\* A pool has one path before more are tried, a vote is held on a first answer only,
\* and goes on as long as no two paths agree; what is tried without a vote extends a
\* pool whose first path is no answer.
StaysOpen(c) ==
    /\ c.think \in {"start", "score", "branch", "vote", "counted", "pool"} =>
          c.pool \in Seq(Outcome) /\ c.pool # <<>>
    /\ c.think = "start" => Len(c.pool) = 1
    /\ c.think = "branch" => c.pending \in Nat
    /\ setting.voting /\ c.think \in {"score", "branch"} => Head(c.pool) \notin Final
    /\ setting.voting /\ c.think \in {"vote", "counted", "pool"} /\ Head(c.pool) \in Final =>
          NoAgreement(c.pool)

VoteInv == \A t \in Turns : StaysOpen(turn[t])

\* A step of one call, as far as it is about the pool.
LEMMA OneOpen ==
    ASSUME Inv, VoteInv, NEW t \in Turns,
           turn' = [turn EXCEPT ![t] = turn'[t]], setting' = setting, StaysOpen(turn[t])'
    PROVE  VoteInv'
<1> SUFFICES ASSUME NEW u \in Turns PROVE StaysOpen(turn[u])'
  BY DEF VoteInv
<1>1. CASE u # t
  <2>1. turn'[u] = turn[u] /\ StaysOpen(turn[u])
    BY <1>1 DEF VoteInv, Inv
  <2> QED
    BY <2>1 DEF StaysOpen
<1> QED
  BY <1>1

LEMMA FinishOpen ==
    ASSUME Inv, VoteInv, NEW t \in Turns, NEW n, Finish(t, n)
    PROVE  VoteInv'
<1>1. PICK reply :
         turn' = [turn EXCEPT ![t] =
                    [NewTurn EXCEPT !.think = "done", !.at = "returned",
                                    !.waits = turn[t].waits, !.reply = reply]]
  BY DEF Finish
<1>2. turn' = [turn EXCEPT ![t] = turn'[t]] /\ turn'[t].think = "done" /\ setting' = setting
  BY <1>1, ZenonT(60) DEF Finish, Inv, NewTurn
<1>3. StaysOpen(turn[t])'
  BY <1>2 DEF StaysOpen
<1> QED
  BY <1>2, <1>3, OneOpen

\* Respond begins, prepares, or is interrupted, and time passes: no pool changes.
LEMMA SamePool ==
    ASSUME Inv, VoteInv, NEW t \in Turns,
           Begin(t) \/ Prepare(t) \/ Interrupt(t) \/ Deadline(t)
    PROVE  VoteInv'
<1>1. ASSUME NEW u \in Turns
      PROVE  /\ turn'[u].think = turn[u].think /\ turn'[u].pool = turn[u].pool
             /\ turn'[u].pending = turn[u].pending
  <2>1. IsCall(turn[u]) /\ IsCall(turn[t])
    BY CallFacts
  <2>2. CASE Begin(t)
    BY <2>1, <2>2 DEF Begin, IsCall
  <2>3. CASE Prepare(t)
    BY <2>1, <2>3 DEF Prepare, IsCall, Inv
  <2>4. CASE Interrupt(t)
    BY <2>1, <2>4 DEF Interrupt, IsCall, Inv
  <2>5. CASE Deadline(t)
    BY <2>1, <2>5 DEF Deadline, IsCall, Inv
  <2> QED
    BY <2>2, <2>3, <2>4, <2>5
<1>2. setting' = setting
  BY DEF Begin, Prepare, Interrupt, Deadline
<1> SUFFICES ASSUME NEW u \in Turns PROVE StaysOpen(turn[u])'
  BY DEF VoteInv
<1>3. StaysOpen(turn[u])
  BY DEF VoteInv
<1> QED
  BY <1>1, <1>2, <1>3 DEF StaysOpen

\* The draft is the first path.
LEMMA DraftOpen == ASSUME Inv, VoteInv, NEW t \in Turns, InnerReturns(t) PROVE VoteInv'
<1>1. turn[t].think = "none"
  BY CallFacts DEF InnerReturns, ThinksInOrder
<1>2. PICK o \in Outcome :
         \/ turn' = [turn EXCEPT ![t] = [[turn[t] EXCEPT !.pool = <<o>>] EXCEPT
                       !.at = "returned", !.reply = o, !.think = "start"]]
         \/ turn' = [turn EXCEPT ![t] = [[turn[t] EXCEPT !.pool = <<o>>] EXCEPT
                       !.at = "think", !.think = "start", !.thinkCtx = turn[t].ctx]]
         \/ turn' = [turn EXCEPT ![t] = [turn[t] EXCEPT !.at = "returned", !.reply = o]]
  BY DEF InnerReturns
<1>3. turn' = [turn EXCEPT ![t] = turn'[t]] /\ setting' = setting
  BY <1>2 DEF InnerReturns, Inv
<1>4. turn'[t].think = "none" \/ (turn'[t].think = "start" /\ turn'[t].pool = <<o>>)
  <2>1. IsCall(turn[t]) /\ t \in DOMAIN turn
    BY CallFacts DEF Inv
  <2> QED
    BY <1>1, <1>2, <2>1, ZenonT(60) DEF IsCall
<1>5. <<o>> \in Seq(Outcome) /\ Len(<<o>>) = 1 /\ <<o>> # <<>>
  OBVIOUS
<1>6. StaysOpen(turn[t])'
  BY <1>4, <1>5 DEF StaysOpen
<1> QED
  BY <1>3, <1>6, OneOpen

\* A check moves on with the pool it has.
LEMMA MovesOn ==
    ASSUME Inv, VoteInv, NEW t \in Turns, NEW place \in {"score", "pool", "use", "used"},
           Pursue(t, place) \/ (UsePath(t) /\ place = "used"),
           place = "score" => turn[t].think = "start" /\ ~(setting.voting /\ Head(turn[t].pool) \in Final),
           place = "pool" => turn[t].think = "counted"
    PROVE  VoteInv'
<1>1. /\ turn' = [turn EXCEPT ![t] = turn'[t]] /\ setting' = setting
      /\ turn'[t] = [turn[t] EXCEPT !.think = place]
  BY DEF Pursue, UsePath, Inv
<1>2. turn'[t].think = place /\ turn'[t].pool = turn[t].pool
  BY <1>1, CallFacts DEF IsCall
<1>3. StaysOpen(turn[t])
  BY DEF VoteInv
<1>4. StaysOpen(turn[t])'
  BY <1>1, <1>2, <1>3 DEF StaysOpen
<1> QED
  BY <1>1, <1>4, OneOpen

\* More paths are tried: by a vote, on a single path, or without one.
LEMMA TryOpen ==
    ASSUME Inv, VoteInv, NEW t \in Turns, NEW place \in {"vote", "branch"}, NEW n,
           Try(t, place, n),
           place = "vote" => turn[t].think = "start",
           place = "branch" => turn[t].think = "score" /\ n \in Nat
    PROVE  VoteInv'
<1>1. /\ turn' = [turn EXCEPT ![t] = turn'[t]] /\ setting' = setting
      /\ turn'[t] = [turn[t] EXCEPT !.think = place, !.pending = n]
  BY DEF Try, Inv
<1>2. turn'[t].think = place /\ turn'[t].pool = turn[t].pool /\ turn'[t].pending = n
  BY <1>1, CallFacts DEF IsCall
<1>3. StaysOpen(turn[t])
  BY DEF VoteInv
<1>4. turn[t].think = "start" => NoAgreement(turn[t].pool)
  BY <1>3 DEF StaysOpen, NoAgreement
<1>5. StaysOpen(turn[t])'
  BY <1>1, <1>2, <1>3, <1>4 DEF StaysOpen
<1> QED
  BY <1>1, <1>5, OneOpen

LEMMA StartThinkOpen == ASSUME Inv, VoteInv, NEW t \in Turns, StartThink(t) PROVE VoteInv'
BY FinishOpen, MovesOn, TryOpen DEF StartThink

\* The judge is not sure, and a number of paths is tried.
LEMMA ScoreOpen == ASSUME Inv, VoteInv, NEW t \in Turns, Score(t) PROVE VoteInv'
<1>1. PathBudget \in Nat
  BY MetaCogAssumption DEF PathBudget
<1>2. ASSUME NEW n \in 1..Vote PROVE Min({n, PathBudget}) \in Nat
  <2>1. {n, PathBudget} \subseteq Nat
    BY <1>1
  <2> QED
    BY <2>1, MinIsElement
<1> QED
  BY <1>2, FinishOpen, TryOpen DEF Score

LEMMA CountedOpen == ASSUME Inv, VoteInv, NEW t \in Turns, Counted(t) PROVE VoteInv'
BY FinishOpen, MovesOn DEF Counted

\* Without a vote the first path stays the first.
LEMMA GatherOpen == ASSUME Inv, VoteInv, NEW t \in Turns, Gather(t) PROVE VoteInv'
<1>1. /\ turn[t].think = "branch" /\ turn[t].pending \in Nat /\ turn[t].pool \in Seq(Outcome)
      /\ turn[t].pool # <<>> /\ (setting.voting => Head(turn[t].pool) \notin Final)
  BY DEF Gather, VoteInv, StaysOpen
<1>2. PICK n \in 0..turn[t].pending : \E extra \in [1..n -> Usable] :
        IF n = 0 THEN Finish(t, 1)
        ELSE /\ turn' = [turn EXCEPT ![t].pool = @ \o extra, ![t].think = "pool",
                                     ![t].pending = 0, ![t].deadline = FALSE]
             /\ UNCHANGED <<setting, routed, check, swaps, reported>>
  BY DEF Gather
<1>3. PICK extra \in [1..n -> Usable] :
        IF n = 0 THEN Finish(t, 1)
        ELSE /\ turn' = [turn EXCEPT ![t].pool = @ \o extra, ![t].think = "pool",
                                     ![t].pending = 0, ![t].deadline = FALSE]
             /\ UNCHANGED <<setting, routed, check, swaps, reported>>
  BY <1>2
<1>4. CASE n = 0
  BY <1>3, <1>4, FinishOpen
<1>5. CASE n # 0
  <2> DEFINE pool == turn[t].pool \o extra
  <2>1. extra \in Seq(Outcome)
    <3>1. n \in Nat /\ Usable \subseteq Outcome
      BY <1>1 DEF Usable, Outcome
    <3> QED
      BY <3>1
  <2>2. pool \in Seq(Outcome) /\ pool # <<>> /\ Head(pool) = Head(turn[t].pool)
    BY <1>1, <2>1
  <2> HIDE DEF pool
  <2>3. /\ turn' = [turn EXCEPT ![t] = turn'[t]] /\ setting' = setting
        /\ turn'[t] = [turn[t] EXCEPT !.pool = pool, !.think = "pool",
                                      !.pending = 0, !.deadline = FALSE]
    BY <1>3, <1>5 DEF Inv, pool
  <2>4. turn'[t].think = "pool" /\ turn'[t].pool = pool
    BY <2>3, CallFacts DEF IsCall
  <2>5. StaysOpen(turn[t])'
    BY <1>1, <2>2, <2>3, <2>4 DEF StaysOpen
  <2> QED
    BY <2>3, <2>5, OneOpen
<1> QED
  BY <1>4, <1>5

\* A path that agrees with an earlier one ends the vote: while it goes on, the new
\* path states what no other does.
LEMMA ReceiveOpen == ASSUME Inv, VoteInv, NEW t \in Turns, Receive(t) PROVE VoteInv'
<1> DEFINE old == turn[t].pool
<1>1. /\ turn[t].think = "vote" /\ IsCall(turn[t]) /\ old \in Seq(Outcome) /\ old # <<>>
      /\ (setting.voting /\ Head(old) \in Final => NoAgreement(old))
      /\ setting' = setting
  BY CallFacts DEF Receive, VoteInv, StaysOpen
<1>2. PICK o \in Outcome :
        \E alike \in IF o \in Final THEN Alike(t, o) ELSE {{}} :
           turn' = [turn EXCEPT ![t] =
              Heard(turn[t], alike, IF o \in Final THEN Append(old, o) ELSE old)]
  BY DEF Receive, Heard
<1> DEFINE pool == IF o \in Final THEN Append(old, o) ELSE old
<1>3. PICK alike \in (IF o \in Final THEN Alike(t, o) ELSE {{}}) :
        turn' = [turn EXCEPT ![t] = Heard(turn[t], alike, pool)]
  BY <1>2
<1>4. turn' = [turn EXCEPT ![t] = turn'[t]] /\ turn'[t] = Heard(turn[t], alike, pool)
  BY <1>3 DEF Inv
<1>5. pool \in Seq(Outcome) /\ pool # <<>> /\ Head(pool) = Head(old)
  BY <1>1
<1>6. ASSUME alike = {}, NoAgreement(old) PROVE NoAgreement(pool)
  <2>1. CASE o \notin Final
    BY <1>6, <2>1
  <2>2. CASE o \in Final
    <3>1. \A n \in DOMAIN old : ~(o # "none" /\ old[n] = o)
      BY <1>3, <1>6, <2>2 DEF Alike
    <3>2. SUFFICES ASSUME NEW m \in DOMAIN pool, NEW n \in DOMAIN pool, m < n
                   PROVE  pool[m] = "none" \/ pool[m] # pool[n]
      BY DEF NoAgreement
    <3>3. /\ pool = Append(old, o) /\ DOMAIN pool = 1..(Len(old) + 1)
          /\ DOMAIN old = 1..Len(old) /\ Len(old) \in Nat
      BY <1>1, <2>2
    <3>4. m \in DOMAIN old /\ pool[m] = old[m]
      BY <1>1, <3>2, <3>3
    <3>5. CASE n \in DOMAIN old
      BY <1>1, <1>6, <3>2, <3>3, <3>4, <3>5 DEF NoAgreement
    <3>6. CASE n \notin DOMAIN old
      <4>1. pool[n] = o
        BY <1>1, <3>3, <3>6
      <4> QED
        BY <3>1, <3>4, <4>1
    <3> QED
      BY <3>5, <3>6
  <2> QED
    BY <2>1, <2>2
<1> HIDE DEF pool
<1>7. /\ turn'[t].pool = pool
      /\ turn'[t].think = "chosen" \/ (turn'[t].think \in {"vote", "counted"} /\ alike = {})
  BY <1>1, <1>4, ZenonT(60) DEF IsCall, Heard
<1>8. StaysOpen(turn[t])'
  BY <1>1, <1>5, <1>6, <1>7 DEF StaysOpen
<1> QED
  BY <1>1, <1>4, <1>8, OneOpen

LEMMA JudgePoolOpen == ASSUME Inv, VoteInv, NEW t \in Turns, JudgePool(t) PROVE VoteInv'
<1>1. CASE Finish(t, 1)
  BY <1>1, FinishOpen
<1>2. CASE ~Finish(t, 1)
  <2>1. /\ turn' = [turn EXCEPT ![t] = turn'[t]] /\ setting' = setting
        /\ \E n : turn'[t] = [turn[t] EXCEPT !.think = "chosen", !.chosen = n]
    BY <1>2 DEF JudgePool, Inv
  <2>2. turn'[t].think = "chosen"
    BY <2>1, CallFacts DEF IsCall
  <2>3. StaysOpen(turn[t])'
    BY <2>2 DEF StaysOpen
  <2> QED
    BY <2>1, <2>3, OneOpen
<1> QED
  BY <1>1, <1>2

LEMMA ChoiceOpen ==
    ASSUME Inv, VoteInv, NEW t \in Turns,
           ApplyChoice(t) \/ UsePath(t) \/ Emit(t) \/ Gate(t)
    PROVE  VoteInv'
BY FinishOpen, MovesOn DEF ApplyChoice, Emit, Gate

LEMMA VoteNext == ASSUME Inv, VoteInv, MetaCogNext PROVE VoteInv'
<1>1. PICK t \in Turns : TurnStep(t)
  BY DEF MetaCogNext
<1>2. CASE ThinkStep(t)
  BY <1>2, StartThinkOpen, ScoreOpen, CountedOpen, JudgePoolOpen, ChoiceOpen DEF ThinkStep
<1> QED
  BY <1>1, <1>2, SamePool, DraftOpen, GatherOpen, ReceiveOpen, ChoiceOpen DEF TurnStep

-----------------------------------------------------------------------------
(* What the judge says: one judging step.                                  *)

\* A worker that is done without an error has its candidate's score.  Where there is
\* one request at a time, all before it are done, and none follows an error.
JudgeInv ==
    /\ worker = [c \in Candidate |-> worker[c]] /\ scores = [c \in Candidate |-> scores[c]]
    /\ \A c \in Candidate : worker[c] \in {"waits", "calls", "done"}
    /\ firstErr = 0 => \A c \in Candidate : worker[c] = "done" => scores[c] = c
    /\ Sequential =>
          /\ \A c, d \in Candidate : c < d /\ worker[d] # "waits" => worker[c] = "done"
          /\ firstErr # 0 => Calling = {}
    /\ scored # "none" => EveryoneIsDone
    /\ scored = "scores" => firstErr = 0

LEMMA JudgeInitInv == JudgeInit \/ JudgeIdle => JudgeInv
BY DEF JudgeInit, JudgeIdle, JudgeInv, Calling, EveryoneIsDone

\* What a step may do to the worker of one candidate: it ends, with its score or the
\* first error.
LEMMA WorkerEnds ==
    ASSUME JudgeInv, NEW c \in Candidate, worker[c] # "done",
           Sequential => worker[c] = "calls" /\ firstErr = 0,
           worker' = [worker EXCEPT ![c] = "done"], scored' = scored,
           \/ scores' = [scores EXCEPT ![c] = c] /\ firstErr' = firstErr
           \/ scores' = scores /\ firstErr' = IF firstErr = 0 THEN c ELSE firstErr
    PROVE  JudgeInv'
<1>1. /\ worker' = [d \in Candidate |-> worker'[d]] /\ worker'[c] = "done"
      /\ \A d \in Candidate \ {c} : worker'[d] = worker[d]
      /\ scores' = [d \in Candidate |-> scores'[d]]
      /\ \A d \in Candidate \ {c} : scores'[d] = scores[d]
  BY DEF JudgeInv
<1>2. \A d \in Candidate : worker'[d] \in {"waits", "calls", "done"}
  BY <1>1 DEF JudgeInv
<1>3. c # 0
  BY DEF Candidate
<1>4. firstErr' = 0 => \A d \in Candidate : worker'[d] = "done" => scores'[d] = d
  BY <1>1, <1>3 DEF JudgeInv
<1>5. Sequential => /\ \A d \in Candidate : d # c => worker[d] # "calls"
                    /\ \A d \in Candidate : d < c => worker[d] = "done"
                    /\ \A d \in Candidate : c < d => worker[d] = "waits"
  BY DEF JudgeInv, Candidate
<1>6. Sequential => \A d, e \in Candidate : d < e /\ worker'[e] # "waits" => worker'[d] = "done"
  BY <1>1, <1>5 DEF JudgeInv, Candidate
<1>7. Sequential => Calling' = {}
  BY <1>1, <1>5 DEF Calling
<1>8. scored = "none"
  BY DEF JudgeInv, EveryoneIsDone
<1>9. Sequential' <=> Sequential
  BY DEF Sequential
<1> QED
  BY <1>1, <1>2, <1>4, <1>6, <1>7, <1>8, <1>9 DEF JudgeInv

LEMMA JudgeNextInv == ASSUME JudgeInv, JudgeNext PROVE JudgeInv'
<1>1. ASSUME NEW c \in Candidate, Acquire(c) PROVE JudgeInv'
  <2>1. /\ worker' = [d \in Candidate |-> worker'[d]] /\ worker'[c] = "calls"
        /\ \A d \in Candidate \ {c} : worker'[d] = worker[d]
        /\ worker[c] = "waits" /\ UNCHANGED <<scores, firstErr, scored>>
    BY <1>1 DEF Acquire, JudgeInv
  <2>2. Sequential => firstErr = 0 /\ \A d \in Candidate : d < c => worker[d] = "done"
    BY <1>1 DEF Acquire, MayCall, Candidate
  <2>3. Sequential => \A d, e \in Candidate : d < e /\ worker'[e] # "waits" => worker'[d] = "done"
    BY <2>1, <2>2 DEF JudgeInv, Candidate
  <2>4. scored = "none"
    BY <2>1, <2>2 DEF JudgeInv, EveryoneIsDone
  <2>5. Sequential' <=> Sequential
    BY DEF Sequential
  <2> QED
    BY <2>1, <2>2, <2>3, <2>4, <2>5 DEF JudgeInv
<1>2. ASSUME NEW c \in Candidate, GiveUp(c) PROVE JudgeInv'
  BY <1>2, WorkerEnds DEF GiveUp
<1>3. ASSUME NEW c \in Candidate, worker[c] = "calls"
      PROVE  Sequential => firstErr = 0
  BY <1>3 DEF JudgeInv, Calling
<1>4. ASSUME NEW c \in Candidate, worker[c] = "calls", Failed(c) PROVE JudgeInv'
  BY <1>3, <1>4, WorkerEnds DEF Failed
<1>5. ASSUME UNCHANGED <<worker, scores, firstErr, scored>> PROVE JudgeInv'
  BY <1>5 DEF JudgeInv, Calling, EveryoneIsDone
<1>6. ASSUME NEW c \in Candidate, RequestFails(c) PROVE JudgeInv'
  BY <1>4, <1>5, <1>6 DEF RequestFails
<1>7. ASSUME NEW c \in Candidate, Refused(c) PROVE JudgeInv'
  BY <1>4, <1>7 DEF Refused
<1>8. ASSUME NEW c \in Candidate, Answered(c) PROVE JudgeInv'
  BY <1>3, <1>8, WorkerEnds DEF Answered
<1>9. CASE JudgingTimesOut
  BY <1>5, <1>9 DEF JudgingTimesOut
<1>10. CASE ReturnScores
  BY <1>10 DEF ReturnScores, JudgeInv, Calling, EveryoneIsDone
<1> QED
  BY <1>1, <1>2, <1>6, <1>7, <1>8, <1>9, <1>10 DEF JudgeNext

LEMMA WholeScores == JudgeInv => ScoresAreWhole
BY DEF JudgeInv, ScoresAreWhole, EveryoneIsDone, Calling

-----------------------------------------------------------------------------
(* What the judge says of a request.                                       *)

ConversationItem ==
    [kind : {"system", "user", "bulky", "small"}, text : Asks \cup Outputs \cup {"none", "prompt"},
     form : {"whole"}]

\* A transcript that is the beginning of the conversation, with bulky results
\* pruned which are neither its first item nor recent.
IsSent(transcript) ==
    /\ Len(transcript) \in Nat /\ Len(transcript) <= Len(items) /\ transcript = [n \in 1..Len(transcript) |-> transcript[n]]
    /\ \A n \in 1..Len(transcript) :
          /\ transcript[n] = [kind |-> items[n].kind, text |-> items[n].text, form |-> transcript[n].form]
          /\ transcript[n].form # "whole" => items[n].kind = "bulky" /\ n \in 2..(Len(transcript) - KeepRecent)

\* Tools are left out on a verdict about the message that is answered.
ToolsAreGated(transcript) == request.tools \/ chats[Latest(transcript)] = FALSE

RequestInv ==
    /\ items \in Seq(ConversationItem)
    /\ chats = [text \in DOMAIN chats |-> chats[text]]
    /\ \A text \in DOMAIN chats : chats[text] \in BOOLEAN
    /\ phase \in {"idle", "effort", "tools", "prune"}
    /\ request = [items |-> request.items, effort |-> request.effort, tools |-> request.tools]
    /\ request.effort \in Nat /\ request.effort <= Configured /\ request.tools \in BOOLEAN
    /\ phase # "idle" => request.items = items
    /\ phase \in {"effort", "tools"} => request.tools
    /\ phase = "prune" => ToolsAreGated(items)
    /\ phase = "idle" /\ request.items # <<>> =>
          IsSent(request.items) /\ ToolsAreGated(request.items)

LEMMA RequestInitInv == RoutingInit => RequestInv
BY DEF RoutingInit, RequestInv, Item, ConversationItem, NoCache, Configured

\* The greatest element of a bounded set of numbers is one of them.
LEMMA MaxIsElement ==
    ASSUME NEW N \in Nat, NEW S, S \subseteq 0..N, S # {}
    PROVE  Max(S) \in S
<1> DEFINE Less == {pair \in Nat \X Nat : pair[1] < pair[2]}
           Rest(x) == N - x
           T == {Rest(x) : x \in S}
<1>1. IsWellFoundedOn(Less, Nat)
  BY NatLessThanWellFounded DEF OpToRel
<1>2. T \subseteq Nat /\ T # {}
  <2>1. \A x \in S : Rest(x) \in Nat
    OBVIOUS
  <2> HIDE DEF Rest
  <2> QED
    BY <2>1
<1> HIDE DEF Less, T
<1>3. PICK k \in T : \A j \in T : <<j, k>> \notin Less
  BY <1>1, <1>2, WFMin
<1>4. PICK x \in S : k = Rest(x)
  BY DEF T
<1>5. ASSUME NEW y \in S PROVE x >= y
  <2>1. Rest(y) \in T /\ Rest(y) \in Nat /\ k \in Nat
    BY <1>2 DEF T
  <2>2. Rest(y) < k => <<Rest(y), k>> \in Less
    BY <2>1 DEF Less
  <2>3. ~(Rest(y) < k)
    BY <1>3, <2>1, <2>2
  <2> QED
    BY <1>4, <2>1, <2>3
<1> QED
  BY <1>5 DEF Max

\* Transcripts of the same messages have the same latest one.
LEMMA SameLatest ==
    ASSUME NEW N \in Nat, NEW s, NEW r, DOMAIN s = 1..N, DOMAIN r = 1..N,
           \A n \in 1..N : s[n].kind = r[n].kind /\ s[n].text = r[n].text
    PROVE  Latest(s) = Latest(r)
<1> DEFINE said == {n \in 1..N : s[n].kind = "user"}
<1>1. said = {n \in DOMAIN s : s[n].kind = "user"} /\ said = {n \in DOMAIN r : r[n].kind = "user"}
  OBVIOUS
<1>2. said # {} => Max(said) \in said
  BY MaxIsElement
<1> QED
  BY <1>1, <1>2 DEF Latest

\* What is made of the conversation when forms of candidates are changed.
LEMMA PrunedIsSent ==
    ASSUME RequestInv, NEW transcript, transcript = [n \in DOMAIN items |-> transcript[n]],
           \A n \in DOMAIN items :
              /\ transcript[n] = [items[n] EXCEPT !.form = transcript[n].form]
              /\ transcript[n].form # "whole" => n \in Candidates
    PROVE  IsSent(transcript) /\ Latest(transcript) = Latest(items)
<1> DEFINE N == Len(items)
<1>1. items \in Seq(ConversationItem) /\ N \in Nat /\ DOMAIN items = 1..N
  BY DEF RequestInv
<1> HIDE DEF N
<1>2. transcript \in Seq({transcript[n] : n \in 1..N})
  BY <1>1
<1>3. Len(transcript) = N /\ DOMAIN transcript = 1..N
  BY <1>1, <1>2
<1>4. ASSUME NEW n \in 1..N
      PROVE  /\ transcript[n] = [kind |-> items[n].kind, text |-> items[n].text, form |-> transcript[n].form]
             /\ transcript[n].form # "whole" => items[n].kind = "bulky" /\ n \in 2..(N - KeepRecent)
  <2>1. items[n] \in ConversationItem
    BY <1>1
  <2>2. transcript[n] = [kind |-> items[n].kind, text |-> items[n].text, form |-> transcript[n].form]
    BY <1>1, <2>1 DEF ConversationItem
  <2> QED
    BY <1>1, <2>2 DEF Candidates, Bulky, N
<1>5. IsSent(transcript)
  BY <1>1, <1>3, <1>4 DEF IsSent, N
<1>6. ASSUME NEW n \in 1..N
      PROVE  transcript[n].kind = items[n].kind /\ transcript[n].text = items[n].text
  <2>1. PICK form :
           transcript[n] = [kind |-> items[n].kind, text |-> items[n].text, form |-> form]
    BY <1>4
  <2> QED
    BY <2>1
<1> QED
  BY <1>1, <1>3, <1>5, <1>6, SameLatest

\* The conversation grows, and what was sent stays its beginning.
LEMMA GrowStep ==
    ASSUME RequestInv, NEW item \in ConversationItem, Grow(item)
    PROVE  RequestInv'
<1>1. items \in Seq(ConversationItem) /\ items' = Append(items, item)
      /\ UNCHANGED <<chats, phase, request>> /\ phase = "idle"
  BY DEF Grow, RequestInv
<1>2. /\ items' \in Seq(ConversationItem) /\ Len(items') = Len(items) + 1 /\ Len(items) \in Nat
      /\ \A n \in 1..Len(items) : items'[n] = items[n]
  BY <1>1
<1>3. ASSUME IsSent(request.items) PROVE IsSent(request.items)'
  BY <1>1, <1>2, <1>3 DEF IsSent
<1>4. ToolsAreGated(request.items)' <=> ToolsAreGated(request.items)
  BY <1>1 DEF ToolsAreGated
<1> QED
  BY <1>1, <1>2, <1>3, <1>4 DEF RequestInv

LEMMA PrepareRequestStep == ASSUME RequestInv, PrepareRequest PROVE RequestInv'
BY DEF RequestInv, PrepareRequest, Configured

\* The effort is never raised.
LEMMA RouteEffortStep == ASSUME RequestInv, RouteEffort PROVE RequestInv'
<1>1. /\ phase = "effort" /\ phase' = "tools" /\ UNCHANGED <<items, chats>>
      /\ request.items = items /\ request.tools
      /\ request = [items |-> request.items, effort |-> request.effort, tools |-> request.tools]
      /\ request.effort \in Nat /\ request.effort <= Configured
  BY DEF RouteEffort, RequestInv
<1>2. PICK effort : /\ request' = [request EXCEPT !.effort = effort]
                    /\ effort \in Nat /\ effort <= Configured
  <2>1. CASE request' = request
    <3>1. request' = [request EXCEPT !.effort = request.effort]
      BY <1>1, <2>1
    <3> QED
      BY <1>1, <3>1
  <2>2. CASE request' # request
    <3>1. PICK verdict : request' = [request EXCEPT !.effort = Lowered(request.effort, verdict)]
      BY <2>2 DEF RouteEffort
    <3>2. EffortOf(verdict) \in Nat /\ EffortOf(verdict) <= Configured
      BY DEF EffortOf, Configured
    <3>3. Lowered(request.effort, verdict) \in {request.effort, EffortOf(verdict)}
      BY <1>1, <3>2, MinIsElement DEF Lowered
    <3> QED
      BY <1>1, <3>1, <3>2, <3>3
  <2> QED
    BY <2>1, <2>2
<1>3. request' = [items |-> items, effort |-> effort, tools |-> TRUE]
  BY <1>1, <1>2 DEF RequestInv
<1> QED
  BY <1>1, <1>2, <1>3 DEF RequestInv

\* Tools are left out on a verdict that is cached, or is cached now.
LEMMA GateToolsStep == ASSUME RequestInv, GateTools PROVE RequestInv'
<1>1. /\ phase = "tools" /\ phase' = "prune" /\ items' = items
      /\ request.items = items /\ request.tools = TRUE
      /\ request = [items |-> request.items, effort |-> request.effort, tools |-> request.tools]
      /\ request.effort \in Nat /\ request.effort <= Configured
      /\ items \in Seq(ConversationItem)
      /\ chats = [text \in DOMAIN chats |-> chats[text]]
      /\ \A text \in DOMAIN chats : chats[text] \in BOOLEAN
  BY DEF GateTools, RequestInv
<1>2. CASE UNCHANGED <<chats, request>>
  BY <1>1, <1>2 DEF RequestInv, ToolsAreGated
<1>3. CASE ~UNCHANGED <<chats, request>>
  <2> DEFINE asked == Latest(items)
  <2>1. PICK needs \in Verdicts(chats, BOOLEAN) :
           /\ chats' = Cached(chats, needs)
           /\ request' = [request EXCEPT !.tools = @ /\ needs]
    BY <1>3 DEF GateTools
  <2>2. needs \in BOOLEAN
    BY <1>1, <2>1 DEF Verdicts
  <2>3. /\ chats' = [text \in DOMAIN chats' |-> chats'[text]]
        /\ \A text \in DOMAIN chats' : chats'[text] \in BOOLEAN
        /\ chats'[asked] = needs
    <3> HIDE DEF asked
    <3>1. CASE asked \in DOMAIN chats
      <4>1. chats' = chats /\ needs = chats[asked]
        BY <2>1, <3>1 DEF Cached, Verdicts, asked
      <4> QED
        BY <1>1, <3>1, <4>1
    <3>2. CASE asked \notin DOMAIN chats
      <4> DEFINE new == [text \in {asked} |-> needs]
      <4>1. chats' = Remember(chats, new)
        BY <2>1, <3>2 DEF Cached, asked
      <4>2. \/ chats' = new
            \/ chats' = [text \in DOMAIN chats \cup {asked} |->
                            IF text = asked THEN needs ELSE chats[text]]
        BY <4>1 DEF Remember
      <4> QED
        BY <1>1, <2>2, <4>2
    <3> QED
      BY <3>1, <3>2
  <2>4. request' = [items |-> items, effort |-> request.effort, tools |-> needs]
    <3>1. (request.tools /\ needs) = needs
      BY <1>1, <2>2
    <3> QED
      BY <1>1, <2>1, <3>1
  <2>5. request'.items = items /\ request'.effort = request.effort /\ request'.tools = needs
    BY <2>4
  <2>6. ToolsAreGated(items)'
    <3>1. needs = TRUE \/ needs = FALSE
      BY <2>2
    <3>2. Latest(items)' = asked
      BY <1>1 DEF Latest
    <3> QED
      BY <2>3, <2>5, <3>1, <3>2 DEF ToolsAreGated
  <2>7. request' = [items |-> request'.items, effort |-> request'.effort, tools |-> request'.tools]
    BY <2>4
  <2> QED
    BY <1>1, <2>2, <2>3, <2>5, <2>6, <2>7 DEF RequestInv
<1> QED
  BY <1>2, <1>3

\* The request goes out with some of the candidates pruned.
LEMMA PruneContextStep == ASSUME RequestInv, PruneContext PROVE RequestInv'
<1> DEFINE seen == [request EXCEPT !.items = Pruned(@, verdicts)]
<1>1. /\ phase = "prune" /\ phase' = "idle" /\ UNCHANGED <<items, chats>>
      /\ request.items = items /\ ToolsAreGated(items)
      /\ request = [items |-> request.items, effort |-> request.effort, tools |-> request.tools]
      /\ items \in Seq(ConversationItem)
  BY DEF PruneContext, RequestInv
<1>2. ASSUME NEW n \in DOMAIN items
      PROVE  /\ items[n] \in ConversationItem
             /\ items[n] = [items[n] EXCEPT !.form = "whole"] /\ items[n].form = "whole"
  <2>1. items[n] \in ConversationItem
    BY <1>1
  <2> QED
    BY <2>1 DEF ConversationItem
<1>3. ASSUME NEW transcript, transcript = [n \in DOMAIN items |-> transcript[n]],
             request' = [items |-> transcript, effort |-> request.effort, tools |-> request.tools],
             \A n \in DOMAIN items :
                /\ transcript[n] = [items[n] EXCEPT !.form = transcript[n].form]
                /\ transcript[n].form # "whole" => n \in Candidates
      PROVE  RequestInv'
  <2>1. IsSent(transcript) /\ Latest(transcript) = Latest(items)
    BY <1>3, PrunedIsSent
  <2>2. request'.items = transcript /\ request'.effort = request.effort /\ request'.tools = request.tools
    BY <1>3
  <2>3. IsSent(request.items)'
    BY <1>1, <2>1, <2>2 DEF IsSent
  <2>4. Latest(request.items)' = Latest(items)
    BY <2>1, <2>2 DEF Latest
  <2>5. ToolsAreGated(request.items)'
    BY <1>1, <2>2, <2>4 DEF ToolsAreGated
  <2> QED
    BY <1>1, <1>3, <2>2, <2>3, <2>5 DEF RequestInv
<1>4. CASE request' = request
  BY <1>1, <1>2, <1>3, <1>4
<1> DEFINE shown == Pruned(items, verdicts)
<1>5. /\ seen = [items |-> shown, effort |-> request.effort, tools |-> request.tools]
      /\ shown = [n \in DOMAIN items |-> shown[n]]
      /\ \A n \in DOMAIN items : /\ shown[n] = [items[n] EXCEPT !.form = shown[n].form]
                                 /\ shown[n].form # "whole" => n \in Candidates
  <2>1. seen = [items |-> shown, effort |-> request.effort, tools |-> request.tools]
    BY <1>1
  <2>2. \A n \in DOMAIN items : \/ shown[n] = items[n]
                                \/ /\ shown[n] = [items[n] EXCEPT !.form = verdicts[items[n].text]]
                                   /\ n \in Candidates
    BY DEF Pruned
  <2>3. ASSUME NEW n \in DOMAIN items
        PROVE  /\ shown[n] = [items[n] EXCEPT !.form = shown[n].form]
               /\ shown[n].form # "whole" => n \in Candidates
    <3> HIDE DEF shown
    <3>1. items[n] \in ConversationItem
      BY <1>2
    <3> QED
      BY <1>2, <2>2, <3>1 DEF ConversationItem
  <2>4. shown = [n \in DOMAIN items |-> shown[n]]
    BY DEF Pruned
  <2> QED
    BY <2>1, <2>3, <2>4
<1>6. CASE request' = seen
  BY <1>3, <1>5, <1>6
<1>7. ASSUME NEW picked \in SUBSET Pending, NEW found,
             request' = [seen EXCEPT !.items =
                            [n \in DOMAIN @ |-> IF n \in picked
                                                THEN [@[n] EXCEPT !.form = found[n]]
                                                ELSE @[n]]]
      PROVE  RequestInv'
  <2> DEFINE transcript == [n \in DOMAIN items |-> IF n \in picked
                                             THEN [shown[n] EXCEPT !.form = found[n]]
                                             ELSE shown[n]]
  <2> HIDE DEF shown, seen
  <2>1. DOMAIN shown = DOMAIN items
    BY <1>5
  <2>2. seen.items = shown /\ seen.effort = request.effort /\ seen.tools = request.tools
    BY <1>5
  <2>3. request' = [items |-> transcript, effort |-> request.effort, tools |-> request.tools]
    BY <1>5, <1>7, <2>1, <2>2
  <2>4. ASSUME NEW n \in DOMAIN items
        PROVE  /\ transcript[n] = [items[n] EXCEPT !.form = transcript[n].form]
               /\ transcript[n].form # "whole" => n \in Candidates
    <3>1. items[n] \in ConversationItem
      BY <1>2
    <3>2. CASE n \in picked
      <4>1. n \in Candidates
        BY <1>7, <3>2 DEF Pending
      <4>2. transcript[n] = [[items[n] EXCEPT !.form = shown[n].form] EXCEPT !.form = found[n]]
        BY <1>5, <3>2
      <4> QED
        BY <3>1, <4>1, <4>2 DEF ConversationItem
    <3>3. CASE n \notin picked
      BY <1>5, <3>3
    <3> QED
      BY <3>2, <3>3
  <2>5. transcript = [n \in DOMAIN items |-> transcript[n]]
    OBVIOUS
  <2> HIDE DEF transcript
  <2> QED
    BY <1>3, <2>3, <2>4, <2>5
<1>8. CASE request' # request /\ request' # seen
  <2>1. PICK picked \in kSubset(Min({JudgedAtOnce, Cardinality(Pending)}), Pending) :
        \E found \in [picked -> Forms] :
           request' = [seen EXCEPT !.items =
                          [n \in DOMAIN @ |-> IF n \in picked
                                              THEN [@[n] EXCEPT !.form = found[n]]
                                              ELSE @[n]]]
    BY <1>8 DEF PruneContext
  <2>2. picked \in SUBSET Pending
    BY DEF kSubset
  <2> QED
    BY <1>7, <2>1, <2>2
<1> QED
  BY <1>4, <1>6, <1>8

LEMMA RequestNextInv == ASSUME RequestInv, RoutingNext PROVE RequestInv'
<1>1. ASSUME UserAsks \/ ToolReturns PROVE RequestInv'
  BY <1>1, GrowStep DEF UserAsks, ToolReturns, Item, ConversationItem
<1> QED
  BY <1>1, PrepareRequestStep, RouteEffortStep, GateToolsStep, PruneContextStep DEF RoutingNext

\* What was sent is still the beginning of the conversation.
LEMMA KeptRequests == RequestInv => RequestsAreKept
<1> SUFFICES ASSUME RequestInv, phase = "idle", request.items # <<>> PROVE RequestsAreKept
  BY DEF RequestsAreKept
<1> DEFINE transcript == request.items
           whole == Whole(transcript)
           N == Len(transcript)
<1>1. /\ IsSent(transcript) /\ ToolsAreGated(transcript) /\ request.effort <= Configured
      /\ items \in Seq(ConversationItem)
  BY DEF RequestInv
<1>2. /\ N \in Nat /\ N <= Len(items) /\ transcript = [n \in 1..N |-> transcript[n]]
      /\ \A n \in 1..N :
            /\ transcript[n] = [kind |-> items[n].kind, text |-> items[n].text, form |-> transcript[n].form]
            /\ transcript[n].form # "whole" => items[n].kind = "bulky" /\ n \in 2..(N - KeepRecent)
  BY <1>1 DEF IsSent
<1>3. DOMAIN transcript = 1..N
  BY <1>2
<1>4. ASSUME NEW n \in DOMAIN transcript, transcript[n].form # "whole"
      PROVE  Bulky(transcript[n]) /\ n \in 2..(N - KeepRecent)
  <2>1. PICK form : transcript[n] = [kind |-> items[n].kind, text |-> items[n].text, form |-> form]
    BY <1>2, <1>3
  <2>2. transcript[n].kind = "bulky" /\ n \in 2..(N - KeepRecent)
    BY <1>2, <1>3, <1>4, <2>1
  <2> QED
    BY <2>2 DEF Bulky
<1>5. IsPrefix(whole, items)
  <2> HIDE DEF transcript, N
  <2>1. ASSUME NEW n \in 1..N PROVE [transcript[n] EXCEPT !.form = "whole"] = items[n]
    <3>1. items[n] \in ConversationItem
      BY <1>1, <1>2
    <3>2. items[n] = [kind |-> items[n].kind, text |-> items[n].text, form |-> "whole"]
      BY <3>1 DEF ConversationItem
    <3>3. [transcript[n] EXCEPT !.form = "whole"]
             = [kind |-> items[n].kind, text |-> items[n].text, form |-> "whole"]
      BY <1>2
    <3> QED
      BY <3>2, <3>3
  <2>2. whole = [n \in 1..N |-> items[n]]
    BY <1>3, <2>1 DEF Whole
  <2>3. [n \in 1..N |-> items[n]] \in Seq(ConversationItem)
    <3>1. N \in Nat /\ \A n \in 1..N : items[n] \in ConversationItem
      BY <1>1, <1>2
    <3> QED
      BY <3>1, SMTT(60)
  <2> HIDE DEF whole
  <2>4. whole \in Seq(ConversationItem) /\ Len(whole) = N /\ \A n \in 1..N : whole[n] = items[n]
    BY <1>2, <2>2, <2>3
  <2>5. SubSeq(whole, 1, N) = SubSeq(items, 1, N)
    BY <1>1, <1>2, <2>4
  <2> QED
    BY <1>2, <2>4, <2>5 DEF IsPrefix
<1> QED
  BY <1>1, <1>4, <1>5 DEF RequestsAreKept, ToolsAreGated

-----------------------------------------------------------------------------
(* The run that holds all of it.                                           *)

HeardInv == Inv /\ VoteInv /\ JudgeInv /\ RequestInv

LEMMA HeardInit == Init => HeardInv
<1> SUFFICES ASSUME Init PROVE HeardInv
  OBVIOUS
<1>1. MetaCogInit
  BY DEF Init, MetaCogIdle
<1>2. VoteInv
  BY <1>1 DEF MetaCogInit, VoteInv, StaysOpen, NewTurn
<1>3. JudgeInit \/ JudgeIdle
  BY DEF Init
<1>4. RoutingInit
  BY DEF Init
<1> QED
  BY <1>1, <1>2, <1>3, <1>4, InitInv, JudgeInitInv, RequestInitInv DEF HeardInv

\* Each part keeps its own invariant while nothing of it changes.
LEMMA StillHeard ==
    /\ Inv /\ VoteInv /\ UNCHANGED metaVars => Inv' /\ VoteInv'
    /\ JudgeInv /\ UNCHANGED judgeVars => JudgeInv'
    /\ RequestInv /\ UNCHANGED routingVars => RequestInv'
<1>1. Inv /\ VoteInv /\ UNCHANGED metaVars => Inv' /\ VoteInv'
  BY DEF metaVars, Inv, CallInv, IsCall, ThinksInOrder, SwapsOnce, WaitsForEnd, VoteInv,
         StaysOpen
<1>2. JudgeInv /\ UNCHANGED judgeVars => JudgeInv'
  BY DEF judgeVars, JudgeInv, Calling, EveryoneIsDone
<1>3. RequestInv /\ UNCHANGED routingVars => RequestInv'
  BY DEF routingVars, RequestInv, IsSent, ToolsAreGated, Latest
<1> QED
  BY <1>1, <1>2, <1>3

LEMMA HeardNext == HeardInv /\ [Next]_vars => HeardInv'
<1> SUFFICES ASSUME HeardInv, [Next]_vars PROVE HeardInv'
  OBVIOUS
<1>1. CASE UNCHANGED <<metaVars, judgeVars, routingVars>>
  BY <1>1, StillHeard DEF HeardInv
<1>2. CASE MetaCogNext /\ UNCHANGED <<judgeVars, routingVars>>
  BY <1>2, NextInv, VoteNext, StillHeard DEF HeardInv
<1>3. CASE JudgeNext /\ UNCHANGED <<metaVars, routingVars>>
  BY <1>3, JudgeNextInv, StillHeard DEF HeardInv
<1>4. CASE RoutingNext /\ UNCHANGED <<metaVars, judgeVars>>
  BY <1>4, RequestNextInv, StillHeard DEF HeardInv
<1> QED
  BY <1>1, <1>2, <1>3, <1>4 DEF Next, vars, InputNext

\* The vote decides where paths agree, a judging step tells all scores or none, and
\* a request is the conversation but for what a verdict leaves out.
THEOREM Hearing == Spec => []JudgeIsHeard
<1>1. HeardInv => JudgeIsHeard
  <2> SUFFICES ASSUME HeardInv PROVE JudgeIsHeard
    OBVIOUS
  <2>1. AgreementDecides
    <3> SUFFICES ASSUME setting.voting, NEW t \in Turns, turn[t].think = "pool",
                        Head(turn[t].pool) \in Final
                 PROVE  NoAgreement(turn[t].pool)
      BY DEF AgreementDecides, NoAgreement
    <3> QED
      BY DEF HeardInv, VoteInv, StaysOpen
  <2>2. ScoresAreWhole /\ RequestsAreKept
    BY WholeScores, KeptRequests DEF HeardInv
  <2> QED
    BY <2>1, <2>2 DEF JudgeIsHeard
<1> QED
  BY <1>1, HeardInit, HeardNext, PTL DEF Spec
=============================================================================
