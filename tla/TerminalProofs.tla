--------------------------- MODULE TerminalProofs ----------------------------
(***************************************************************************)
(* Theorems about the loop of the terminal and about the program without   *)
(* it.  For any number of sessions, keys, answers and paths, the loop      *)
(* drives one session at a time, and a switch between thought paths is     *)
(* known to every later session.  For anything the program is called with, *)
(* and whatever fails, it writes what it records, and success means that   *)
(* every message was recorded once, in order, and answered.                *)
(***************************************************************************)
EXTENDS MCTurns, TLAPS

-----------------------------------------------------------------------------
(* The inductive invariant.                                                *)

\* The goroutine of a session is a record with the fields of Dead.
IsSession(l) ==
    l = [phase |-> l.phase, conv |-> l.conv, ctx |-> l.ctx, stop |-> l.stop,
         inbox |-> l.inbox, metacog |-> l.metacog, paths |-> l.paths]

\* A session that the loop is done with has ended, unless the loop ends too.
OneDriven ==
    /\ IsSession(live)
    /\ at = "drive" => strays = 0
    /\ at = "between" /\ ~next.quit => strays = 0
    /\ at = "drive" /\ (done # "none" \/ ~running) => live.phase = "ended"

IsCheck(c) == c = [at |-> c.at, in |-> c.in, to |-> c.to]

\* The path that the loop and the terminal know of in place of a.
Known(a) == IF a \in DOMAIN switched THEN switched[a] ELSE loopSwaps[a]

Knows == DOMAIN switched \cup DOMAIN loopSwaps

\* Nothing is known of an answer before its check has been reported; the loop and the
\* terminal know the last switch of each answer; an answer that the session replaces
\* is about to be reported, or known; a switch that a check of the session is about to
\* report is in the session; and a session whose handle the loop has replaces all that
\* is known, but for what it missed.
PathsAgree ==
    /\ checks = [a \in Answer |-> checks[a]] /\ \A a \in Answer : IsCheck(checks[a])
    /\ drives \in Nat /\ \A a \in Answer : checks[a].in \in 0..drives
    /\ Knows \cup listed \cup DOMAIN live.paths \subseteq Answer
    /\ \A a \in Knows \cup listed : checks[a].at = "reported"
    /\ Over(switched, loopSwaps) = latest
    /\ \A a \in DOMAIN live.paths : checks[a].at = "reports" \/ a \in Knows
    /\ \A a \in Answer : checks[a].at = "reports" /\ checks[a].in = drives =>
          a \in DOMAIN live.paths /\ live.paths[a] = checks[a].to
    /\ handle /\ live.metacog =>
          \A a \in Knows \ missed : a \in DOMAIN live.paths /\ live.paths[a] = Known(a)

LEMMA InitDriven == TerminalInit => OneDriven
BY DEF TerminalInit, NoSession, OneDriven, IsSession, Dead

LEMMA InitAgree == TerminalInit => PathsAgree
<1> SUFFICES ASSUME TerminalInit PROVE PathsAgree
  OBVIOUS
<1>1. /\ live.paths = <<>> /\ loopSwaps = <<>> /\ switched = <<>> /\ listed = {}
      /\ handle = FALSE /\ drives = 0 /\ latest = <<>>
  BY DEF TerminalInit, NoSession, Dead
<1>2. PICK p : checks = [a \in Answer |-> [at |-> "none", in |-> 0, to |-> p]]
  BY DEF TerminalInit, NoSession
<1>3. checks = [a \in Answer |-> checks[a]] /\ \A a \in Answer : IsCheck(checks[a])
  BY <1>2 DEF IsCheck
<1>4. \A a \in Answer : checks[a].in \in 0..drives /\ checks[a].at = "none"
  BY <1>1, <1>2
<1>5. Over(switched, loopSwaps) = latest
  BY <1>1 DEF Over
<1> QED
  BY <1>1, <1>3, <1>4, <1>5 DEF PathsAgree, Knows

\* A switch that is put into the first of two maps is in both of them together.
LEMMA OverReplace ==
    ASSUME NEW m, NEW n, NEW a, NEW p
    PROVE  Over(Replace(m, a, p), n) = Replace(Over(m, n), a, p)
BY DEF Over, Replace

\* An empty map adds nothing.
LEMMA OverNothing ==
    ASSUME NEW n, n = [b \in DOMAIN n |-> n[b]]
    PROVE  Over(<<>>, n) = n
BY DEF Over

-----------------------------------------------------------------------------
(* One session is driven.                                                  *)

\* drive returns, for a session that has ended or for good.
LEMMA ReturnDriven ==
    ASSUME OneDriven, NEW n, Return(n), at = "drive", live.phase = "ended" \/ n.quit,
           IsSession(live)'
    PROVE  OneDriven'
BY DEF OneDriven, Return

\* A step within drive, or of a session.
LEMMA StayDriven ==
    ASSUME OneDriven, UNCHANGED <<at, next, strays>>, IsSession(live)',
           live'.phase = live.phase \/ live'.phase = "ended",
           done' = done \/ live'.phase = "ended", running' = running
    PROVE  OneDriven'
BY DEF OneDriven

LEMMA StopThenDriven ==
    ASSUME OneDriven, NEW n, StopThen(n), at = "drive", UNCHANGED <<done, running>>
    PROVE  OneDriven'
<1>1. CASE ~running
  BY <1>1, ReturnDriven DEF StopThen, OneDriven, IsSession
<1>2. CASE running
  <2>1. UNCHANGED <<at, next, strays>> /\ IsSession(live)' /\ live'.phase = live.phase
    BY <1>2 DEF StopThen, OneDriven, IsSession
  <2> QED
    BY <2>1, StayDriven
<1> QED
  BY <1>1, <1>2

\* The steps of a session.
LEMMA SessionDriven == ASSUME OneDriven, SessionStep PROVE OneDriven'
<1>1. CASE Opens
  BY <1>1 DEF Opens, OneDriven, IsSession, loopVars, driveVars
<1>2. CASE Works
  BY <1>2, StayDriven DEF Works, OneDriven, IsSession, loopVars, driveVars
<1>3. ASSUME NEW result, Ends(result) PROVE OneDriven'
  BY <1>3, StayDriven DEF Ends, OneDriven, IsSession, loopVars, driveVars
<1>4. ASSUME NEW a \in Answer, Answers(a) \/ CheckKeeps(a) \/ RecordPaths(a) PROVE OneDriven'
  BY <1>4, StayDriven
     DEF Answers, CheckKeeps, RecordPaths, OneDriven, sessionVars, loopVars, driveVars
<1>5. ASSUME NEW a \in Answer, NEW p \in Path, CheckSwitches(a, p) PROVE OneDriven'
  BY <1>5, StayDriven DEF CheckSwitches, OneDriven, IsSession, loopVars, driveVars
<1> QED
  BY <1>1, <1>2, <1>3, <1>4, <1>5 DEF SessionStep

\* The keys.
LEMMA KeysDriven == ASSUME OneDriven, KeyStep PROVE OneDriven'
<1>1. ASSUME NEW n, Stop(n) PROVE OneDriven'
  BY <1>1, StopThenDriven DEF Stop, Key
<1>2. CASE Send
  <2>1. CASE ~running
    <3>1. live' = live /\ live.phase = "ended" /\ at = "drive"
      BY <1>2, <2>1 DEF Send, Key, OneDriven
    <3> QED
      BY <1>2, <2>1, <3>1, ReturnDriven DEF Send, OneDriven
  <2>2. CASE running
    BY <1>2, <2>2, StayDriven DEF Send, OneDriven, IsSession
  <2> QED
    BY <2>1, <2>2
<1>3. CASE MetaCogCommand
  BY <1>1, <1>3, StayDriven
     DEF MetaCogCommand, Command, OneDriven, sessionVars, driveVars, pathVars
<1>4. ASSUME NEW a \in Answer, NEW p \in Path, ExplorePaths(a, p) PROVE OneDriven'
  BY <1>4, StayDriven DEF ExplorePaths, OneDriven, IsSession, driveVars, loopVars
<1> QED
  BY <1>1, <1>2, <1>3, <1>4 DEF KeyStep, InterruptKey, QuitKey, NewCommand, Command

LEMMA NextDriven == OneDriven /\ [TerminalNext]_termVars => OneDriven'
<1> SUFFICES ASSUME OneDriven, [TerminalNext]_termVars PROVE OneDriven'
  OBVIOUS
<1>1. CASE UNCHANGED termVars
  BY <1>1 DEF termVars, sessionVars, driveVars, loopVars, OneDriven, IsSession
<1>2. CASE StartDrive
  BY <1>2 DEF StartDrive, OneDriven, IsSession, Dead
<1>3. CASE QuitLoop
  BY <1>3 DEF QuitLoop, OneDriven, IsSession, sessionVars, driveVars
<1>4. CASE Ready
  BY <1>4, StayDriven DEF Ready, OneDriven, IsSession
<1>5. CASE Done
  <2>1. live' = live /\ live.phase = "ended" /\ at = "drive" /\ done' = "none"
    BY <1>5 DEF Done, OneDriven
  <2>2. (\E n : Return(n)) \/ UNCHANGED <<at, next, strays>>
    BY <1>5 DEF Done
  <2>3. CASE UNCHANGED <<at, next, strays>>
    BY <2>1, <2>3 DEF OneDriven, IsSession
  <2> QED
    BY <2>1, <2>2, <2>3, ReturnDriven DEF OneDriven, IsSession
<1>6. CASE TimeIsUp
  BY <1>6, StayDriven DEF TimeIsUp, ForceStop, OneDriven, IsSession, loopVars
<1>7. CASE Tick
  BY <1>7, StopThenDriven DEF Tick
<1>8. CASE HangUp
  BY <1>8, ReturnDriven DEF HangUp, Quit, None, OneDriven, IsSession
<1> QED
  BY <1>1, <1>2, <1>3, <1>4, <1>5, <1>6, <1>7, <1>8, SessionDriven, KeysDriven
     DEF TerminalNext

-----------------------------------------------------------------------------
(* What the session replaces is known.                                     *)

\* A step that touches no paths, and takes no handle.
LEMMA SamePaths ==
    ASSUME PathsAgree, UNCHANGED <<pathVars, drives>>, live'.paths = live.paths,
           handle' /\ live'.metacog => handle /\ live.metacog
    PROVE  PathsAgree'
BY DEF PathsAgree, Knows, Known, IsCheck, pathVars, historyVars

LEMMA StopThenPaths ==
    ASSUME OneDriven, PathsAgree, NEW n, StopThen(n),
           UNCHANGED <<pathVars, handle, drives>>
    PROVE  PathsAgree'
<1>1. live'.paths = live.paths /\ live'.metacog = live.metacog
  BY DEF StopThen, Return, OneDriven, IsSession
<1> QED
  BY <1>1, SamePaths

\* A check that begins, keeps the answer, or has its report recorded: the steps of
\* one check that leave the paths of the session alone.
LEMMA CheckPaths ==
    ASSUME PathsAgree, NEW a \in Answer,
           Answers(a) \/ CheckKeeps(a) \/ RecordPaths(a)
    PROVE  PathsAgree'
<1>1. /\ UNCHANGED <<live, handle, loopSwaps, drives>>
      /\ checks = [b \in Answer |-> checks[b]] /\ \A b \in Answer : IsCheck(checks[b])
      /\ drives \in Nat /\ \A b \in Answer : checks[b].in \in 0..drives
  BY DEF Answers, CheckKeeps, RecordPaths, PathsAgree, sessionVars, driveVars, loopVars
<1>2. CASE Answers(a)
  <2>1. CASE checks' = checks
    BY <1>1, <1>2, <2>1, SamePaths DEF Answers, pathVars, historyVars, sessionVars, driveVars
  <2>2. CASE checks' # checks
    <3>1. /\ checks[a].at = "none" /\ UNCHANGED <<switched, listed, latest, missed>>
          /\ checks' = [checks EXCEPT ![a] = [checks[a] EXCEPT !.at = "runs", !.in = drives]]
      BY <1>1, <1>2, <2>2 DEF Answers, historyVars
    <3>2. a \notin Knows \cup listed \cup DOMAIN live.paths
      BY <3>1 DEF PathsAgree
    <3>3. /\ checks' = [b \in Answer |-> checks'[b]]
          /\ \A b \in Answer : IsCheck(checks'[b])
          /\ \A b \in Answer \ {a} : checks'[b] = checks[b]
          /\ checks'[a].at = "runs" /\ checks'[a].in = drives
      <4>1. checks'[a] = [checks[a] EXCEPT !.at = "runs", !.in = drives]
        BY <1>1, <3>1
      <4>2. checks[a] = [at |-> checks[a].at, in |-> checks[a].in, to |-> checks[a].to]
        BY <1>1 DEF IsCheck
      <4>3. checks'[a] = [at |-> "runs", in |-> drives, to |-> checks[a].to]
        BY <4>1, <4>2
      <4> QED
        BY <1>1, <3>1, <4>3 DEF IsCheck
    <3>4. \A b \in Answer : checks'[b].in \in 0..drives
      BY <1>1, <3>3
    <3> QED
      BY <1>1, <3>1, <3>2, <3>3, <3>4, ZenonT(60) DEF PathsAgree, Knows, Known, IsCheck
  <2> QED
    BY <2>1, <2>2
<1>3. CASE CheckKeeps(a)
  <2>1. /\ checks[a].at = "runs" /\ listed' = {a} /\ UNCHANGED <<switched, latest, missed>>
        /\ checks' = [checks EXCEPT ![a] = [checks[a] EXCEPT !.at = "reported"]]
    BY <1>1, <1>3 DEF CheckKeeps, historyVars
  <2>2. a \notin Knows \cup listed \cup DOMAIN live.paths
    BY <2>1 DEF PathsAgree
  <2>3. /\ checks' = [b \in Answer |-> checks'[b]]
        /\ \A b \in Answer : IsCheck(checks'[b]) /\ checks'[b].in = checks[b].in
        /\ \A b \in Answer \ {a} : checks'[b] = checks[b]
        /\ checks'[a].at = "reported"
    BY <1>1, <2>1 DEF IsCheck
  <2>4. \A b \in Answer : checks'[b].in \in 0..drives
    BY <1>1, <2>3
  <2> QED
    BY <1>1, <2>1, <2>2, <2>3, <2>4, ZenonT(60) DEF PathsAgree, Knows, Known, IsCheck
<1>4. CASE RecordPaths(a)
  <2>1. /\ checks[a].at = "reports" /\ listed' = {a}
        /\ switched' = Replace(switched, a, checks[a].to)
        /\ latest' = Replace(latest, a, checks[a].to)
        /\ missed' = IF handle /\ checks[a].in # drives THEN missed \cup {a} ELSE missed
        /\ checks' = [checks EXCEPT ![a] = [checks[a] EXCEPT !.at = "reported"]]
    BY <1>1, <1>4 DEF RecordPaths
  <2>2. a \notin Knows \cup listed
    BY <2>1 DEF PathsAgree
  <2>3. /\ checks' = [b \in Answer |-> checks'[b]]
        /\ \A b \in Answer : IsCheck(checks'[b]) /\ checks'[b].in = checks[b].in
        /\ \A b \in Answer \ {a} : checks'[b] = checks[b]
        /\ checks'[a].at = "reported"
    BY <1>1, <2>1 DEF IsCheck
  <2>4. /\ Knows' = Knows \cup {a}
        /\ Known(a)' = checks[a].to
        /\ \A b \in Answer \ {a} : Known(b)' = Known(b)
    BY <1>1, <2>1 DEF Knows, Known, Replace
  <2>5. Over(switched, loopSwaps)' = latest'
    BY <1>1, <2>1, OverReplace DEF PathsAgree
  <2>6. /\ Knows' \cup listed' \cup DOMAIN live'.paths \subseteq Answer
        /\ \A b \in Knows' \cup listed' : checks'[b].at = "reported"
        /\ \A b \in Answer : checks'[b].in \in 0..drives
    BY <1>1, <2>1, <2>3, <2>4 DEF PathsAgree
  <2>7. ASSUME NEW b \in DOMAIN live'.paths
        PROVE  checks'[b].at = "reports" \/ b \in Knows'
    BY <1>1, <2>3, <2>4 DEF PathsAgree
  <2>8. ASSUME NEW b \in Answer, checks'[b].at = "reports", checks'[b].in = drives'
        PROVE  b \in DOMAIN live'.paths /\ live'.paths[b] = checks'[b].to
    BY <1>1, <2>3, <2>8 DEF PathsAgree
  <2>9. ASSUME handle', live'.metacog, NEW b \in Knows' \ missed'
        PROVE  b \in DOMAIN live'.paths /\ live'.paths[b] = Known(b)'
    <3>1. CASE b = a
      <4>1. checks[a].in = drives
        BY <1>1, <2>1, <2>9, <3>1
      <4> QED
        BY <1>1, <2>1, <2>4, <3>1, <4>1 DEF PathsAgree
    <3>2. CASE b # a
      BY <1>1, <2>1, <2>4, <2>6, <2>9, <3>2 DEF PathsAgree
    <3> QED
      BY <3>1, <3>2
  <2> QED
    BY <1>1, <2>3, <2>5, <2>6, <2>7, <2>8, <2>9 DEF PathsAgree
<1> QED
  BY <1>2, <1>3, <1>4

\* A check switches, in the session that runs or in one that is gone.
LEMMA CheckSwitchesPaths ==
    ASSUME OneDriven, PathsAgree, NEW a \in Answer, NEW p \in Path, CheckSwitches(a, p)
    PROVE  PathsAgree'
<1>1. /\ checks[a].at = "runs"
      /\ UNCHANGED <<handle, loopSwaps, switched, listed, latest, missed, drives>>
      /\ checks' = [checks EXCEPT ![a] = [checks[a] EXCEPT !.at = "reports", !.to = p]]
      /\ a \notin Knows \cup listed \cup DOMAIN live.paths
  BY DEF CheckSwitches, PathsAgree, driveVars, loopVars, historyVars
<1>2. /\ checks' = [b \in Answer |-> checks'[b]]
      /\ \A b \in Answer : IsCheck(checks'[b]) /\ checks'[b].in = checks[b].in
      /\ \A b \in Answer \ {a} : checks'[b] = checks[b]
      /\ checks'[a].at = "reports" /\ checks'[a].to = p
  <2>1. checks = [b \in Answer |-> checks[b]] /\ \A b \in Answer : IsCheck(checks[b])
    BY DEF PathsAgree
  <2>2. checks'[a] = [checks[a] EXCEPT !.at = "reports", !.to = p]
    BY <1>1, <2>1
  <2>3. checks[a] = [at |-> checks[a].at, in |-> checks[a].in, to |-> checks[a].to]
    BY <2>1 DEF IsCheck
  <2>4. checks'[a] = [at |-> "reports", in |-> checks[a].in, to |-> p]
    BY <2>2, <2>3
  <2> QED
    BY <1>1, <2>1, <2>4 DEF IsCheck
<1>3. /\ live'.metacog = live.metacog
      /\ live'.paths = IF checks[a].in = drives THEN Replace(live.paths, a, p) ELSE live.paths
  BY DEF CheckSwitches, OneDriven, IsSession
<1>4. /\ DOMAIN live'.paths \subseteq DOMAIN live.paths \cup {a}
      /\ checks[a].in = drives => a \in DOMAIN live'.paths /\ live'.paths[a] = p
      /\ DOMAIN live.paths \subseteq DOMAIN live'.paths
      /\ \A b \in DOMAIN live.paths : live'.paths[b] = live.paths[b]
  BY <1>1, <1>3 DEF Replace
<1>5. /\ Knows' = Knows /\ \A b \in Answer : Known(b)' = Known(b)
      /\ Over(switched, loopSwaps)' = latest'
  BY <1>1 DEF Knows, Known, PathsAgree
<1>6. /\ Knows' \cup listed' \cup DOMAIN live'.paths \subseteq Answer
      /\ \A b \in Knows' \cup listed' : checks'[b].at = "reported"
  BY <1>1, <1>2, <1>4, <1>5 DEF PathsAgree
<1>7. ASSUME NEW b \in DOMAIN live'.paths
      PROVE  checks'[b].at = "reports" \/ b \in Knows'
  BY <1>2, <1>4, <1>5 DEF PathsAgree
<1>8. ASSUME NEW b \in Answer, checks'[b].at = "reports", checks'[b].in = drives'
      PROVE  b \in DOMAIN live'.paths /\ live'.paths[b] = checks'[b].to
  BY <1>1, <1>2, <1>4, <1>8 DEF PathsAgree
<1>9. ASSUME handle', live'.metacog, NEW b \in Knows' \ missed'
      PROVE  b \in DOMAIN live'.paths /\ live'.paths[b] = Known(b)'
  <2>1. b \in Knows \ missed /\ b \in Answer /\ handle /\ live.metacog
    BY <1>1, <1>3, <1>5, <1>9 DEF PathsAgree
  <2> QED
    BY <1>4, <1>5, <2>1 DEF PathsAgree
<1>10. drives' \in Nat /\ \A b \in Answer : checks'[b].in \in 0..drives'
  BY <1>1, <1>2 DEF PathsAgree
<1> QED
  BY <1>2, <1>5, <1>6, <1>7, <1>8, <1>9, <1>10 DEF PathsAgree

\* A new session is given what the loop and the terminal know.
LEMMA ReadyPaths == ASSUME OneDriven, PathsAgree, Ready PROVE PathsAgree'
<1>1. /\ UNCHANGED <<checks, listed, latest, drives>> /\ loopSwaps' = Over(switched, loopSwaps)
      /\ switched' = <<>> /\ live'.metacog = live.metacog
      /\ live'.paths = IF live.metacog THEN Over(loopSwaps', live.paths) ELSE live.paths
  BY DEF Ready, GivenSwitches, OneDriven, IsSession
<1>2. /\ Knows' = Knows /\ DOMAIN loopSwaps' = Knows
      /\ \A b \in Knows : Known(b)' = Known(b) /\ loopSwaps'[b] = Known(b)
  BY <1>1 DEF Knows, Known, Over
<1>3. Over(switched, loopSwaps)' = latest'
  <2>1. loopSwaps' = [b \in DOMAIN loopSwaps' |-> loopSwaps'[b]]
    BY <1>1 DEF Over
  <2>2. Over(<<>>, loopSwaps') = loopSwaps'
    BY <2>1, OverNothing
  <2> QED
    BY <1>1, <2>2 DEF PathsAgree
<1>4. CASE live.metacog
  <2>1. /\ DOMAIN live'.paths = Knows \cup DOMAIN live.paths
        /\ \A b \in Knows : live'.paths[b] = Known(b)'
        /\ \A b \in DOMAIN live.paths \ Knows : live'.paths[b] = live.paths[b]
    BY <1>1, <1>2, <1>4, ZenonT(60) DEF Over
  <2>2. \A b \in Answer : checks[b].at = "reports" => b \notin Knows
    BY DEF PathsAgree
  <2> QED
    BY <1>1, <1>2, <1>3, <2>1, <2>2 DEF PathsAgree, IsCheck
<1>5. CASE ~live.metacog
  BY <1>1, <1>2, <1>3, <1>5 DEF PathsAgree, IsCheck
<1> QED
  BY <1>4, <1>5

\* The user switches, in the loop and in the session if its handle is there.
LEMMA UserPaths ==
    ASSUME OneDriven, PathsAgree, NEW a \in Answer, NEW p \in Path, ExplorePaths(a, p)
    PROVE  PathsAgree'
<1>1. /\ UNCHANGED <<checks, listed, handle, drives>> /\ a \in listed
      /\ loopSwaps' = Replace(Over(switched, loopSwaps), a, p) /\ switched' = <<>>
      /\ latest' = Replace(latest, a, p) /\ missed' = missed \ {a}
      /\ live'.metacog = live.metacog
      /\ live'.paths = IF handle /\ live.metacog THEN Replace(live.paths, a, p)
                       ELSE live.paths
  BY DEF ExplorePaths, Merge, OneDriven, IsSession, driveVars, loopVars
<1>2. checks[a].at = "reported"
  BY <1>1 DEF PathsAgree
<1>3. /\ Knows' = Knows \cup {a} /\ Known(a)' = p
      /\ \A b \in Knows \ {a} : Known(b)' = Known(b)
  BY <1>1 DEF Knows, Known, Over, Replace
<1>4. Over(switched, loopSwaps)' = latest'
  <2>1. loopSwaps' = [b \in DOMAIN loopSwaps' |-> loopSwaps'[b]]
    BY <1>1 DEF Replace
  <2>2. Over(<<>>, loopSwaps') = loopSwaps'
    BY <2>1, OverNothing
  <2> QED
    BY <1>1, <2>2 DEF PathsAgree
<1>5. CASE handle /\ live.metacog
  <2>1. /\ DOMAIN live'.paths = DOMAIN live.paths \cup {a} /\ live'.paths[a] = p
        /\ \A b \in DOMAIN live.paths \ {a} : live'.paths[b] = live.paths[b]
    BY <1>1, <1>5 DEF Replace
  <2> QED
    BY <1>1, <1>2, <1>3, <1>4, <1>5, <2>1 DEF PathsAgree, IsCheck
<1>6. CASE ~(handle /\ live.metacog)
  BY <1>1, <1>2, <1>3, <1>4, <1>6 DEF PathsAgree, IsCheck
<1> QED
  BY <1>5, <1>6

LEMMA SessionPaths == ASSUME OneDriven, PathsAgree, SessionStep PROVE PathsAgree'
<1>1. CASE Opens \/ Works \/ \E result \in {"clean", "error", "auth"} : Ends(result)
  <2>1. /\ UNCHANGED <<pathVars, handle, drives>>
        /\ live'.paths = live.paths /\ live'.metacog = live.metacog
    BY <1>1 DEF Opens, Works, Ends, OneDriven, IsSession, driveVars, loopVars
  <2> QED
    BY <2>1, SamePaths
<1> QED
  BY <1>1, CheckPaths, CheckSwitchesPaths DEF SessionStep

LEMMA KeysPaths == ASSUME OneDriven, PathsAgree, KeyStep PROVE PathsAgree'
<1>1. ASSUME NEW n, Stop(n) PROVE PathsAgree'
  BY <1>1, StopThenPaths DEF Stop
<1>2. CASE Send
  <2>1. /\ UNCHANGED <<pathVars, handle, drives>>
        /\ live'.paths = live.paths /\ live'.metacog = live.metacog
    BY <1>2 DEF Send, OneDriven, IsSession
  <2> QED
    BY <2>1, SamePaths
<1>3. CASE MetaCogCommand
  BY <1>1, <1>3, SamePaths DEF MetaCogCommand, Command, sessionVars, driveVars, loopVars
<1> QED
  BY <1>1, <1>2, <1>3, UserPaths DEF KeyStep, InterruptKey, QuitKey, NewCommand, Command

LEMMA NextPaths == OneDriven /\ PathsAgree /\ [TerminalNext]_termVars => PathsAgree'
<1> SUFFICES ASSUME OneDriven, PathsAgree, [TerminalNext]_termVars PROVE PathsAgree'
  OBVIOUS
<1>1. CASE UNCHANGED termVars
  BY <1>1, SamePaths DEF termVars, sessionVars, driveVars, loopVars
<1>2. CASE StartDrive
  <2>1. live'.paths = <<>> /\ handle' = FALSE /\ drives' = drives + 1 /\ UNCHANGED <<pathVars>>
    BY <1>2 DEF StartDrive, Dead
  <2>2. drives' \in Nat /\ \A a \in Answer : checks[a].in \in 0..drives' /\ checks[a].in # drives'
    BY <2>1 DEF PathsAgree
  <2>3. UNCHANGED <<checks, listed, latest, Knows, Over(switched, loopSwaps)>>
    BY <2>1 DEF pathVars, historyVars, Knows
  <2> QED
    BY <2>1, <2>2, <2>3 DEF PathsAgree
<1>3. CASE QuitLoop \/ Done
  BY <1>3, SamePaths DEF QuitLoop, Done, sessionVars, driveVars
<1>4. CASE TimeIsUp \/ HangUp
  <2>1. /\ UNCHANGED <<pathVars, handle, drives>>
        /\ live'.paths = live.paths /\ live'.metacog = live.metacog
    BY <1>4 DEF TimeIsUp, ForceStop, HangUp, OneDriven, IsSession, loopVars
  <2> QED
    BY <2>1, SamePaths
<1>5. CASE Tick
  BY <1>5, StopThenPaths DEF Tick
<1> QED
  BY <1>1, <1>2, <1>3, <1>4, <1>5, ReadyPaths, SessionPaths, KeysPaths DEF TerminalNext

-----------------------------------------------------------------------------
(* The program without its terminal: types, what is open, what is written. *)

\* What the inbox and the session hold.
Thing ==
    {Control("settings"), Control("stop"), Reply, External("none")}
        \cup {External(called.request.messages[n].id) : n \in DOMAIN called.request.messages}

Past(name) == \E n \in 1..stage : Stages[n] = name

RunTypes ==
    /\ called.request.messages \in Seq(Range(called.request.messages))
    /\ program \in {"off", "opening", "running", "closing", "exited", "killed"}
    /\ stage \in 0..Len(Stages) /\ opened \in Seq(Closers)
    /\ user \in {"live", "canceled"} /\ context \in {"live", "canceled"}
    /\ sent \in Seq(Thing) /\ inputs \in Seq(Thing) /\ session \in Seq(Thing)
    /\ before \in 0..Len(session) /\ log \in Seq(Thing) /\ broken \in BOOLEAN

\* Nobody changes what the program is called with.
LEMMA SameCalled == ASSUME RunNext PROVE called' = called /\ Thing' = Thing
BY DEF RunNext, Call, OpenStage, OpenFails, SubmitInput, BeginRun, Close, Exit, SubmitLine,
       TakeInput, GiveAnswer, RunReturns, Signal, Kill, Thing

\* What is submitted: the settings, the messages, and perhaps a stop.
LEMMA SubmissionsAre ==
    ASSUME RunTypes
    PROVE  LET messages == MessagesOf(called.request)
               all == Submissions(called)
           IN  /\ messages \in Seq(Thing) /\ all \in Seq(Thing)
               /\ Len(all) \in {Len(messages) + 1, Len(messages) + 2}
               /\ all[1] = Control("settings")
               /\ \A n \in 1..Len(messages) : all[n + 1] = messages[n]
               /\ Len(all) = Len(messages) + 2 => all[Len(messages) + 2] = Control("stop")
<1> DEFINE messages == MessagesOf(called.request)
           all == Submissions(called)
           given == called.request.messages
           end == IF OneShot(called) THEN <<Control("stop")>> ELSE <<>>
<1>1. given \in Seq(Range(given)) /\ Len(given) \in Nat /\ DOMAIN given = 1..Len(given)
  BY DEF RunTypes
<1>2. messages \in Seq(Thing)
  <2>1. CASE called.request.listed
    <3>1. messages = [n \in 1..Len(given) |-> External(given[n].id)]
      BY <1>1, <2>1 DEF MessagesOf
    <3>2. \A n \in 1..Len(given) : External(given[n].id) \in Thing
      BY <1>1 DEF Thing
    <3> QED
      BY <1>1, <3>1, <3>2
  <2>2. CASE ~called.request.listed
    <3>1. External("none") \in Thing
      BY DEF Thing
    <3> QED
      BY <2>2, <3>1 DEF MessagesOf
  <2> QED
    BY <2>1, <2>2
<1> HIDE DEF messages
<1>3. all = (<<Control("settings")>> \o messages) \o end
  BY DEF Submissions, messages
<1>4. Control("settings") \in Thing /\ Control("stop") \in Thing
  BY DEF Thing
<1>5. CASE end = <<>>
  <2>1. all = <<Control("settings")>> \o messages
    BY <1>2, <1>3, <1>4, <1>5
  <2> QED
    BY <1>2, <1>4, <2>1 DEF messages
<1>6. CASE end = <<Control("stop")>>
  <2>1. all = (<<Control("settings")>> \o messages) \o <<Control("stop")>>
    BY <1>3, <1>6
  <2> QED
    BY <1>2, <1>4, <2>1 DEF messages
<1> QED
  BY <1>5, <1>6

\* What a line of the input may do.
LEMMA LineDoes ==
    ASSUME SubmitLine
    PROVE  /\ typing = "reads" /\ program \in {"running", "closing"}
           /\ typing' \in {"reads", "done"}
           /\ inputs' \in {inputs, Append(inputs, Control("stop")),
                           Append(inputs, External("none"))}
           /\ UNCHANGED <<called, calls, program, stage, opened, user, context, sent, session,
                          before, log, out, broken, errors, code>>
BY DEF SubmitLine

\* What an item that is recorded does to what is written.
LEMMA ItemDoes ==
    ASSUME NEW item, RecordItem(item)
    PROVE  /\ session' = Append(session, item)
           /\ log' = log \/ log' = Append(log, item)
           /\ context' = context \/ context' = "canceled"
           /\ broken' \in {broken, TRUE}
           /\ broken => UNCHANGED <<log, out, broken>>
           /\ ~broken /\ ~broken' =>
                 /\ log' = Append(log, item)
                 /\ out' = IF called.interactive THEN out ELSE Append(out, item)
           /\ ~broken /\ broken' => out' = out
BY DEF RecordItem, Observe

\* The steps that record.
Records(item) ==
    /\ RecordItem(item) /\ item \in Thing /\ program = "running"
    /\ UNCHANGED <<called, program, stage, opened, user, sent, typing, before, errors, code>>

LEMMA RecordSteps ==
    /\ RunTypes /\ TakeInput => Records(Head(inputs)) /\ inputs # <<>> /\ inputs' = Tail(inputs)
    /\ GiveAnswer => Records(Reply) /\ UNCHANGED inputs
<1>1. ASSUME RunTypes, TakeInput PROVE Head(inputs) \in Thing
  BY <1>1 DEF RunTypes, TakeInput
<1> QED
  BY <1>1 DEF TakeInput, GiveAnswer, Records, Thing

LEMMA TypesStep == ASSUME RunTypes, RunNext PROVE RunTypes'
<1>1. called' = called /\ Thing' = Thing
  BY SameCalled
<1>2. /\ Len(Stages) = 13 /\ Control("stop") \in Thing /\ External("none") \in Thing
      /\ inputs \in Seq(Thing) /\ sent \in Seq(Thing)
  BY DEF Stages, Thing, RunTypes
<1>3. ASSUME NEW item, Records(item), inputs' \in Seq(Thing) PROVE RunTypes'
  <2>1. session' \in Seq(Thing) /\ before' \in 0..Len(session')
    <3>1. /\ session \in Seq(Thing) /\ session' = Append(session, item) /\ item \in Thing
          /\ before \in 0..Len(session) /\ before' = before
      BY <1>3, ItemDoes DEF Records, RunTypes
    <3> QED
      BY <3>1
  <2>2. log' \in Seq(Thing)
    <3>1. log \in Seq(Thing) /\ item \in Thing /\ (log' = log \/ log' = Append(log, item))
      BY <1>3, ItemDoes DEF Records, RunTypes
    <3> QED
      BY <3>1
  <2> QED
    BY <1>1, <1>3, <2>1, <2>2, ItemDoes DEF Records, RunTypes
<1>4. CASE Call
  <2>1. Submissions(called) \in Seq(Thing) /\ Len(session) \in 0..Len(session)
    BY SubmissionsAre DEF RunTypes
  <2>2. <<>> \in Seq(Thing) /\ <<>> \in Seq(Closers) /\ 0 \in 0..Len(Stages)
    BY <1>2
  <2>3. /\ stage' = 0 /\ opened' = <<>> /\ sent' = Submissions(called) /\ inputs' = <<>>
        /\ session' = session /\ before' = Len(session) /\ log' = <<>> /\ broken' = FALSE
        /\ program' \in {"opening", "closing"} /\ user' = "live" /\ context' = "live"
    BY <1>4 DEF Call
  <2> QED
    BY <1>1, <2>1, <2>2, <2>3 DEF RunTypes
<1>5. CASE OpenStage
  BY <1>1, <1>5 DEF OpenStage, RunTypes
<1>6. CASE OpenFails \/ BeginRun \/ Exit \/ RunReturns \/ Signal
  BY <1>1, <1>6 DEF OpenFails, BeginRun, Exit, RunReturns, Signal, RunTypes
<1>7. CASE SubmitInput
  <2>1. Head(sent) \in Thing /\ Tail(sent) \in Seq(Thing)
    BY <1>2, <1>7 DEF SubmitInput
  <2>2. Submitted(Head(sent)) \in Seq(Thing)
    BY <1>2, <2>1 DEF Submitted
  <2> QED
    BY <1>1, <1>7, <2>1, <2>2 DEF SubmitInput, RunTypes
<1>8. CASE Close
  BY <1>1, <1>8 DEF Close, AfterClose, RunTypes
<1>9. CASE SubmitLine
  <2>1. inputs' \in Seq(Thing)
    BY <1>2, <1>9, LineDoes
  <2> QED
    BY <1>1, <1>9, <2>1, LineDoes DEF RunTypes
<1>10. CASE TakeInput
  <2>1. inputs' \in Seq(Thing)
    BY <1>2, <1>10, RecordSteps
  <2> QED
    BY <1>3, <1>10, <2>1, RecordSteps
<1>11. CASE GiveAnswer
  BY <1>3, <1>11, RecordSteps DEF RunTypes
<1>12. CASE Kill
  BY <1>1, <1>12 DEF Kill, RunTypes
<1> QED
  BY <1>4, <1>5, <1>6, <1>7, <1>8, <1>9, <1>10, <1>11, <1>12 DEF RunNext

\* While the context of a run is live, what depends on it is open.
OpenInv ==
    /\ program = "exited" => opened = <<>>
    /\ program \in {"opening", "running", "closing", "exited"} /\ context = "live" =>
          \A name \in {"context", "tools"} : Past(name) => name \in Range(opened)

\* What leaves open what is open.
LEMMA StaysOpenStep ==
    ASSUME OpenInv, UNCHANGED <<opened, stage>>, context' \in {context, "canceled"},
           program \in {"opening", "running", "closing"},
           program' \in {"opening", "running", "closing"}
    PROVE  OpenInv'
BY DEF OpenInv, Past

LEMMA OpenStep == ASSUME RunTypes, OpenInv, RunNext PROVE OpenInv'
<1>1. CASE Call
  BY <1>1 DEF Call, OpenInv, Past
<1>2. CASE OpenStage
  <2> DEFINE name == Stages[stage + 1]
  <2>1. /\ stage' = stage + 1 /\ stage \in Nat /\ UNCHANGED <<context, program>>
        /\ program = "opening" /\ opened \in Seq(Closers)
        /\ opened' = IF name \in Closers /\ (name = "config" => called.interactive)
                     THEN Append(opened, name) ELSE opened
    BY <1>2 DEF OpenStage, RunTypes
  <2>2. Range(opened) \subseteq Range(opened')
    BY <2>1 DEF Range
  <2>3. name \in {"context", "tools"} => name \in Range(opened')
    <3>1. ASSUME name \in {"context", "tools"} PROVE opened' = Append(opened, name)
      BY <2>1, <3>1 DEF Closers
    <3>2. \A x : Append(opened, x)[Len(opened) + 1] = x
                    /\ Len(opened) + 1 \in DOMAIN Append(opened, x)
      BY <2>1
    <3> QED
      BY <3>1, <3>2 DEF Range
  <2>4. \A other : Past(other)' => Past(other) \/ other = name
    BY <2>1 DEF Past
  <2> QED
    BY <2>1, <2>2, <2>3, <2>4 DEF OpenInv
<1>3. CASE OpenFails \/ SubmitInput \/ BeginRun \/ RunReturns \/ Signal
  BY <1>3, StaysOpenStep DEF OpenFails, SubmitInput, BeginRun, RunReturns, Signal
<1>4. CASE Close
  <2> DEFINE last == opened[Len(opened)]
  <2>1. /\ opened \in Seq(Closers) /\ opened # <<>> /\ program = "closing"
        /\ opened' = SubSeq(opened, 1, Len(opened) - 1) /\ context' = AfterClose(last)
        /\ UNCHANGED <<program, stage>>
    BY <1>4 DEF Close, RunTypes
  <2>2. Range(opened) \subseteq Range(opened') \cup {last}
    <3>1. ASSUME NEW n \in DOMAIN opened, opened[n] # last PROVE opened[n] \in Range(opened')
      <4>1. n \in DOMAIN opened' /\ opened'[n] = opened[n]
        BY <2>1, <3>1
      <4> QED
        BY <4>1 DEF Range
    <3> QED
      BY <3>1 DEF Range
  <2>3. context' = "live" => context = "live" /\ last \notin {"context", "tools"}
    BY <2>1 DEF AfterClose
  <2>4. \A name : Past(name)' <=> Past(name)
    BY <2>1 DEF Past
  <2> QED
    BY <2>1, <2>2, <2>3, <2>4 DEF OpenInv
<1>5. CASE Exit
  BY <1>5 DEF Exit, OpenInv, Past
<1>6. CASE SubmitLine
  BY <1>6, LineDoes, StaysOpenStep
<1>7. CASE TakeInput \/ GiveAnswer
  BY <1>7, RecordSteps, ItemDoes, StaysOpenStep DEF Records
<1>8. CASE Kill
  BY <1>8 DEF Kill, OpenInv
<1> QED
  BY <1>1, <1>2, <1>3, <1>4, <1>5, <1>6, <1>7, <1>8 DEF RunNext

LEMMA NothingOpen == RunTypes /\ OpenInv => NothingStaysOpen
<1> SUFFICES ASSUME RunTypes, OpenInv PROVE NothingStaysOpen
  OBVIOUS
<1>1. context = "live" \/ context = "canceled"
  BY DEF RunTypes
<1>2. Range(<<>>) = {}
  BY DEF Range
<1> QED
  BY <1>1, <1>2 DEF OpenInv, NothingStaysOpen, Past

\* What a prefix is.
LEMMA PrefixIs ==
    ASSUME NEW S, NEW a \in Seq(S), NEW b \in Seq(S)
    PROVE  IsPrefix(a, b) <=> Len(a) <= Len(b) /\ \A n \in 1..Len(a) : a[n] = b[n]
<1>1. CASE Len(a) <= Len(b)
  <2>1. /\ SubSeq(a, 1, Len(a)) = a
        /\ SubSeq(b, 1, Len(a)) = [n \in 1..Len(a) |-> b[n]]
        /\ a = [n \in 1..Len(a) |-> a[n]]
    BY <1>1
  <2> QED
    BY <1>1, <2>1 DEF IsPrefix
<1>2. CASE ~(Len(a) <= Len(b))
  BY <1>2 DEF IsPrefix
<1> QED
  BY <1>1, <1>2

LEMMA PrefixGrows ==
    ASSUME NEW S, NEW a \in Seq(S), NEW b \in Seq(S), NEW x \in S
    PROVE  IsPrefix(a, a) /\ (IsPrefix(a, b) => IsPrefix(a, Append(b, x)))
<1>1. /\ Append(b, x) \in Seq(S) /\ Len(Append(b, x)) = Len(b) + 1 /\ Len(b) \in Nat
      /\ \A n \in 1..Len(b) : Append(b, x)[n] = b[n]
  OBVIOUS
<1>2. IsPrefix(a, a)
  <2>1. Len(a) \in Nat
    OBVIOUS
  <2> QED
    BY <2>1, PrefixIs
<1>3. ASSUME IsPrefix(a, b) PROVE IsPrefix(a, Append(b, x))
  <2> DEFINE c == Append(b, x)
  <2>1. Len(a) <= Len(b) /\ (\A n \in 1..Len(a) : a[n] = b[n]) /\ Len(a) \in Nat
    BY <1>3, PrefixIs
  <2>2. Len(a) <= Len(c) /\ \A n \in 1..Len(a) : a[n] = c[n]
    BY <1>1, <2>1
  <2>3. c \in Seq(S)
    BY <1>1
  <2> HIDE DEF c
  <2>4. IsPrefix(a, c)
    BY <2>2, <2>3, PrefixIs
  <2> QED
    BY <2>4 DEF c
<1> QED
  BY <1>2, <1>3

\* A sequence over one set is one over a larger one.
LEMMA SeqWider ==
    ASSUME NEW S, NEW T, S \subseteq T, NEW s \in Seq(S)
    PROVE  s \in Seq(T)
<1>1. s = [n \in 1..Len(s) |-> s[n]] /\ Len(s) \in Nat /\ \A n \in 1..Len(s) : s[n] \in T
  OBVIOUS
<1> QED
  BY <1>1

\* What this process has recorded grows by what it records.
LEMMA NowGrows ==
    ASSUME RunTypes, NEW item \in Thing, session' = Append(session, item), before' = before
    PROVE  RecordedNow \in Seq(Thing) /\ RecordedNow' = Append(RecordedNow, item)
<1>1. session \in Seq(Thing) /\ before \in Nat /\ before <= Len(session)
  BY DEF RunTypes
<1>2. SubSeq(session, before + 1, Len(session)) \in Seq(Thing)
  BY <1>1
<1>3. SubSeq(session', before + 1, Len(session'))
         = Append(SubSeq(session, before + 1, Len(session)), item)
  <2> DEFINE old == SubSeq(session, before + 1, Len(session))
             new == SubSeq(session', before + 1, Len(session'))
  <2>1. /\ session' \in Seq(Thing) /\ Len(session') = Len(session) + 1
        /\ Len(session) \in Nat /\ session'[Len(session) + 1] = item
        /\ \A n \in 1..Len(session) : session'[n] = session[n]
    BY <1>1
  <2>2. new = [n \in 1..(Len(session) + 1 - before) |-> session'[n + before]]
    BY <1>1, <2>1
  <2>3. old = [n \in 1..(Len(session) - before) |-> session[n + before]]
    BY <1>1, <2>1
  <2>4. Append(old, item) = [n \in 1..(Len(session) - before + 1) |->
                                IF n = Len(session) - before + 1 THEN item
                                ELSE session[n + before]]
    BY <1>1, <2>1, <2>3
  <2> DEFINE last == Len(session) - before + 1
  <2>5. Len(session) + 1 - before = last /\ last \in Nat /\ last + before = Len(session) + 1
    BY <1>1, <2>1
  <2>6. \A n \in 1..last :
           session'[n + before] = IF n = last THEN item ELSE session[n + before]
    BY <1>1, <2>1
  <2>7. new = [n \in 1..last |-> session'[n + before]]
    BY <2>2, <2>5
  <2>8. Append(old, item) = [n \in 1..last |-> IF n = last THEN item ELSE session[n + before]]
    BY <2>4
  <2> HIDE DEF last, new, old
  <2>9. new = Append(old, item)
    BY <2>6, <2>7, <2>8
  <2> QED
    BY <2>9 DEF new, old
<1> QED
  BY <1>2, <1>3 DEF RecordedNow

\* The output without the error that may end it.
Told == IF out # <<>> /\ out[Len(out)].kind = "error" THEN Front(out) ELSE out

\* What is written is what is recorded, until a write fails, which is an error.
WrittenInv ==
    /\ program # "exited" => code = "none" /\ out \in Seq(Thing)
    /\ IsPrefix(log, RecordedNow) /\ IsPrefix(Told, log)
    /\ ~broken => log = RecordedNow /\ (called.interactive \/ Told = log)
    /\ program \in {"off", "opening"} => ~broken
    /\ program \in {"closing", "exited"} /\ errors = {} => ~broken
    /\ code = "0" => program = "exited" /\ errors = {}

\* Until the program exits, it has told of no error.
LEMMA ToldIsOut == ASSUME NEW list \in Seq(Thing)
                   PROVE  list # <<>> => list[Len(list)].kind # "error"
<1>1. \A x \in Thing : x.kind # "error"
  <2>1. \A id : External(id).kind = "external" /\ Control(id).kind = "control"
    BY DEF External, Control
  <2>2. Reply.kind = "answer"
    BY DEF Reply
  <2> QED
    BY <2>1, <2>2 DEF Thing
<1>2. list # <<>> => list[Len(list)] \in Thing
  OBVIOUS
<1> QED
  BY <1>1, <1>2

\* Steps that record and write nothing.
LEMMA WrittenSame ==
    ASSUME WrittenInv, UNCHANGED <<called, session, before, log, out, broken, code>>,
           program # "exited", program' # "exited",
           program' \in {"off", "opening"} => program \in {"off", "opening"},
           program' = "closing" /\ errors' = {} => ~broken
    PROVE  WrittenInv'
<1>1. Told' = Told /\ RecordedNow' = RecordedNow /\ Thing' = Thing
  BY DEF Told, RecordedNow, Thing
<1> QED
  BY <1>1 DEF WrittenInv

LEMMA WrittenStep == ASSUME RunTypes, WrittenInv, RunNext PROVE WrittenInv'
<1>1. called' = called /\ Thing' = Thing
  BY SameCalled
<1>2. CASE Call
  <2>1. /\ session' = session /\ before' = Len(session) /\ log' = <<>> /\ out' = <<>>
        /\ broken' = FALSE /\ program' \in {"opening", "closing"} /\ code' = "none"
    BY <1>2 DEF Call, WrittenInv
  <2>2. RecordedNow' = <<>>
    <3>1. session \in Seq(Thing)
      BY DEF RunTypes
    <3> QED
      BY <2>1, <3>1 DEF RecordedNow
  <2>3. Told' = <<>> /\ <<>> \in Seq(Thing)
    BY <2>1 DEF Told
  <2>4. IsPrefix(<<>>, <<>>)
    <3>1. Control("stop") \in Thing
      BY DEF Thing
    <3> QED
      BY <2>3, <3>1, PrefixGrows
  <2> QED
    BY <2>1, <2>2, <2>3, <2>4, <1>1 DEF WrittenInv
<1>3. CASE OpenStage \/ OpenFails \/ SubmitInput \/ BeginRun \/ Close \/ Signal \/ Kill
  BY <1>3, WrittenSame
     DEF OpenStage, OpenFails, SubmitInput, BeginRun, Close, Signal, Kill, WrittenInv
<1>4. CASE SubmitLine
  BY <1>4, LineDoes, WrittenSame DEF WrittenInv
<1>5. CASE RunReturns
  <2>1. broken => errors' = {"observer"}
    BY <1>5 DEF RunReturns
  <2>2. program' = "closing" /\ errors' = {} => ~broken
    BY <2>1
  <2> QED
    BY <1>5, <2>2, WrittenSame DEF RunReturns
<1>6. CASE Exit
  <2>1. /\ program = "closing" /\ program' = "exited"
        /\ UNCHANGED <<session, before, log, broken, errors>>
        /\ code' = "0" => errors = {}
        /\ out' = out \/ out' = Append(out, [kind |-> "error", id |-> ""])
    BY <1>6 DEF Exit
  <2>2. out \in Seq(Thing) /\ Told = out
    BY <2>1, ToldIsOut DEF WrittenInv, Told
  <2>3. Told' = Told
    <3>1. CASE out' = out
      BY <3>1 DEF Told
    <3>2. CASE out' = Append(out, [kind |-> "error", id |-> ""])
      <4> DEFINE e == [kind |-> "error", id |-> ""]
      <4>1. out \in Seq(Thing \cup {e}) /\ e \in Thing \cup {e}
        BY <2>2, SeqWider
      <4> HIDE DEF e
      <4>2. out' = Append(out, e)
        BY <3>2 DEF e
      <4>3. out' # <<>> /\ out'[Len(out')] = e
        BY <4>1, <4>2
      <4>4. SubSeq(out', 1, Len(out') - 1) = out
        BY <4>1, <4>2
      <4>5. e.kind = "error"
        BY DEF e
      <4> QED
        BY <2>2, <4>3, <4>4, <4>5 DEF Told, Front
    <3> QED
      BY <2>1, <3>1, <3>2
  <2>4. RecordedNow' = RecordedNow
    BY <2>1 DEF RecordedNow
  <2> QED
    BY <1>1, <2>1, <2>3, <2>4 DEF WrittenInv
<1>7. ASSUME NEW item, Records(item) PROVE WrittenInv'
  <2>1. /\ program = "running" /\ item \in Thing /\ RecordItem(item)
        /\ UNCHANGED <<program, before, errors, code>>
    BY <1>7 DEF Records
  <2>9. /\ log' = log \/ log' = Append(log, item)
        /\ broken \in BOOLEAN /\ broken' \in {broken, TRUE}
        /\ broken => UNCHANGED <<log, out, broken>>
        /\ ~broken /\ ~broken' =>
              /\ log' = Append(log, item)
              /\ out' = IF called.interactive THEN out ELSE Append(out, item)
        /\ ~broken /\ broken' => out' = out
    BY <2>1, ItemDoes DEF RunTypes
  <2>2. /\ RecordedNow \in Seq(Thing) /\ RecordedNow' = Append(RecordedNow, item)
    BY <2>1, NowGrows, ItemDoes
  <2>3. /\ out \in Seq(Thing) /\ Told = out /\ log \in Seq(Thing)
        /\ IsPrefix(log, RecordedNow) /\ IsPrefix(out, log)
        /\ ~broken => log = RecordedNow /\ (called.interactive \/ out = log)
    BY <2>1, ToldIsOut DEF WrittenInv, RunTypes, Told
  <2>4. out' \in Seq(Thing) /\ Told' = out'
    <3>1. out' = out \/ out' = Append(out, item)
      BY <2>9
    <3>2. out' \in Seq(Thing)
      <4>1. Append(out, item) \in Seq(Thing)
        BY <2>1, <2>3
      <4> QED
        BY <2>3, <3>1, <4>1
    <3> QED
      BY <1>1, <3>2, ToldIsOut DEF Told
  <2>5. IsPrefix(log', RecordedNow')
    <3>1. CASE log' = log
      BY <2>1, <2>2, <2>3, <3>1, PrefixGrows
    <3>2. CASE log' = Append(log, item) /\ ~broken
      <4>1. log' = RecordedNow' /\ log' \in Seq(Thing)
        BY <2>1, <2>2, <2>3, <3>2
      <4> QED
        BY <2>1, <4>1, PrefixGrows
    <3> QED
      BY <2>9, <3>1, <3>2
  <2>6. IsPrefix(out', log')
    <3>1. CASE out' = out /\ log' = log
      BY <2>3, <3>1
    <3>2. CASE out' = out /\ log' = Append(log, item)
      BY <2>1, <2>3, <3>2, PrefixGrows
    <3>3. CASE out' = Append(out, item) /\ log' = Append(log, item) /\ out = log
      <4>1. Append(log, item) \in Seq(Thing)
        BY <2>1, <2>3
      <4> QED
        BY <3>3, <4>1, PrefixGrows, <2>1
    <3> QED
      BY <2>3, <2>9, <3>1, <3>2, <3>3
  <2>7. ~broken' => log' = RecordedNow' /\ (called.interactive \/ out' = log')
    BY <2>1, <2>2, <2>3, <2>9
  <2> QED
    BY <1>1, <2>1, <2>4, <2>5, <2>6, <2>7 DEF WrittenInv
<1>8. CASE TakeInput \/ GiveAnswer
  BY <1>7, <1>8, RecordSteps
<1> QED
  BY <1>2, <1>3, <1>4, <1>5, <1>6, <1>8 DEF RunNext

LEMMA Written == WrittenInv => OutputIsRecord
BY DEF WrittenInv, OutputIsRecord, Told

\* A run that ends with no error, and was not interrupted, was idle after a stop.
AnsweredInv ==
    program \in {"closing", "exited"} /\ errors = {} /\ user = "live" =>
        ~Unanswered /\ Control("stop") \in Range(RecordedNow)

LEMMA AnsweredStep == ASSUME RunTypes, AnsweredInv, RunNext PROVE AnsweredInv'
<1>1. ASSUME UNCHANGED <<session, before>>, program' \in {"closing", "exited"},
             user' = "live" /\ errors' = {} =>
                 program \in {"closing", "exited"} /\ user = "live" /\ errors = {}
      PROVE  AnsweredInv'
  <2>1. Unanswered' = Unanswered /\ RecordedNow' = RecordedNow
    BY <1>1 DEF Unanswered, RecordedNow
  <2> QED
    BY <1>1, <2>1 DEF AnsweredInv
<1>2. ASSUME program' \notin {"closing", "exited"} PROVE AnsweredInv'
  BY <1>2 DEF AnsweredInv
<1>3. CASE Call
  <2>1. program' = "opening" \/ (program' = "closing" /\ errors' = {"refused"})
    BY <1>3 DEF Call
  <2> QED
    BY <2>1 DEF AnsweredInv
<1>4. CASE OpenStage
  BY <1>2, <1>4 DEF OpenStage
<1>5. CASE OpenFails
  <2>1. errors' # {}
    BY <1>5 DEF OpenFails
  <2> QED
    BY <2>1 DEF AnsweredInv
<1>6. CASE SubmitInput
  <2>1. program' = "opening" \/ errors' = {"submit"}
    BY <1>6 DEF SubmitInput
  <2> QED
    BY <2>1 DEF AnsweredInv
<1>7. CASE BeginRun \/ Kill
  BY <1>2, <1>7 DEF BeginRun, Kill
<1>8. CASE Close
  <2>1. errors' = {} => errors = {}
    BY <1>8 DEF Close
  <2> QED
    BY <1>1, <1>8, <2>1 DEF Close
<1>9. CASE Exit
  BY <1>1, <1>9 DEF Exit
<1>10. CASE SubmitLine
  <2>1. program' \in {"closing", "exited"} => program \in {"closing", "exited"}
    BY <1>10, LineDoes
  <2> QED
    BY <1>1, <1>2, <1>10, <2>1, LineDoes
<1>11. CASE TakeInput \/ GiveAnswer
  <2>1. program' = "running"
    BY <1>11 DEF TakeInput, GiveAnswer
  <2> QED
    BY <1>2, <2>1
<1>12. CASE RunReturns
  <2> SUFFICES ASSUME errors' = {}, user' = "live" PROVE AnsweredInv'
    BY DEF AnsweredInv
  <2>1. UNCHANGED <<session, before, user>>
    BY <1>12 DEF RunReturns
  <2>2. Idle
    BY <1>12, <2>1 DEF RunReturns
  <2>3. Unanswered' = Unanswered /\ RecordedNow' = RecordedNow
    BY <2>1 DEF Unanswered, RecordedNow
  <2> QED
    BY <2>2, <2>3 DEF AnsweredInv, Idle, ToSet, Range
<1>13. CASE Signal
  <2>1. user' = "canceled"
    BY <1>13 DEF Signal
  <2> QED
    BY <2>1 DEF AnsweredInv
<1> QED
  BY <1>3, <1>4, <1>5, <1>6, <1>7, <1>8, <1>9, <1>10, <1>11, <1>12, <1>13 DEF RunNext

\* Messages that have names, each its own.
Distinct(messages) ==
    /\ messages \in Seq(Thing)
    /\ \A n \in 1..Len(messages) : IsNamed(messages[n])
    /\ \A m, n \in 1..Len(messages) : messages[m].id = messages[n].id => m = n

LEMMA NamesAreDistinct ==
    ASSUME RunTypes, NamesAll(called.request)
    PROVE  Distinct(MessagesOf(called.request))
<1> DEFINE given == called.request.messages
           messages == MessagesOf(called.request)
<1>1. /\ given \in Seq(Range(given)) /\ Len(given) \in Nat /\ DOMAIN given = 1..Len(given)
      /\ called.request.listed
      /\ \A m, n \in 1..Len(given) :
            given[n].id # "none" /\ (m # n => given[m].id # given[n].id)
  BY DEF RunTypes, NamesAll
<1>2. messages = [n \in 1..Len(given) |-> External(given[n].id)]
  BY <1>1 DEF MessagesOf
<1>3. messages \in Seq(Thing)
  BY SubmissionsAre
<1>4. Len(messages) = Len(given)
  BY <1>1, <1>2, <1>3
<1>5. \A n \in 1..Len(given) : messages[n].kind = "external" /\ messages[n].id = given[n].id
  BY <1>2 DEF External
<1> HIDE DEF messages, given
<1>6. Distinct(messages)
  BY <1>1, <1>3, <1>4, <1>5 DEF Distinct, IsNamed
<1> QED
  BY <1>6 DEF messages

\* What is not named is never looked for.
LEMMA HoldsSkip ==
    ASSUME NEW messages, Distinct(messages), NEW list \in Seq(Thing), NEW x \in Thing,
           ~IsNamed(x), NEW places \in SUBSET (1..Len(messages)), Holds(list, messages, places)
    PROVE  Holds(Append(list, x), messages, places)
<1> DEFINE more == Append(list, x)
<1>1. /\ DOMAIN list = 1..Len(list) /\ DOMAIN more = 1..(Len(list) + 1) /\ Len(list) \in Nat
      /\ \A p \in 1..Len(list) : more[p] = list[p]
      /\ more[Len(list) + 1] = x
  OBVIOUS
<1>2. \A n \in places : x # messages[n]
  BY DEF Distinct
<1> HIDE DEF more
<1>3. \A p \in DOMAIN more : p \in DOMAIN list \/ p = Len(list) + 1
  BY <1>1
<1>4. \A n \in places : \E p \in DOMAIN more : more[p] = messages[n]
  <2>1. \A p \in DOMAIN list : p \in DOMAIN more /\ more[p] = list[p]
    BY <1>1
  <2> QED
    BY <2>1 DEF Holds
<1>5. \A p \in DOMAIN more : IsNamed(more[p]) => \E n \in places : more[p] = messages[n]
  BY <1>1, <1>3 DEF Holds
<1>6. \A p, q \in DOMAIN more, m, n \in places :
         p < q /\ more[p] = messages[m] /\ more[q] = messages[n] => m < n
  <2>1. \A p, q \in DOMAIN more, m, n \in places :
           more[p] = messages[m] /\ more[q] = messages[n] =>
               /\ p \in DOMAIN list /\ list[p] = messages[m]
               /\ q \in DOMAIN list /\ list[q] = messages[n]
    BY <1>1, <1>2, <1>3
  <2> QED
    BY <2>1 DEF Holds
<1>7. Holds(more, messages, places)
  BY <1>4, <1>5, <1>6 DEF Holds
<1> QED
  BY <1>7 DEF more

\* The next message may follow.
LEMMA HoldsAdd ==
    ASSUME NEW messages, Distinct(messages), NEW list \in Seq(Thing),
           NEW k \in Nat, NEW l \in Nat, k <= l, l < Len(messages),
           Holds(list, messages, (k + 1)..l)
    PROVE  Holds(Append(list, messages[l + 1]), messages, (k + 1)..(l + 1))
<1> DEFINE x == messages[l + 1]
           more == Append(list, x)
<1>1. x \in Thing /\ Len(messages) \in Nat
  BY DEF Distinct
<1>2. /\ DOMAIN list = 1..Len(list) /\ DOMAIN more = 1..(Len(list) + 1) /\ Len(list) \in Nat
      /\ \A p \in 1..Len(list) : more[p] = list[p]
      /\ more[Len(list) + 1] = x
  BY <1>1
<1>3. \A n \in (k + 1)..(l + 1) : (n \in (k + 1)..l \/ n = l + 1) /\ n \in 1..Len(messages)
  BY <1>1
<1>4. (k + 1)..l \subseteq (k + 1)..(l + 1) /\ l + 1 \in (k + 1)..(l + 1)
  OBVIOUS
<1>5. \A n \in (k + 1)..(l + 1) : messages[n] = x => n = l + 1
  BY <1>3 DEF Distinct
<1> HIDE DEF more
<1>6. \A n \in (k + 1)..(l + 1) : \E p \in DOMAIN more : more[p] = messages[n]
  <2>1. \A p \in DOMAIN list : p \in DOMAIN more /\ more[p] = list[p]
    BY <1>2
  <2>2. Len(list) + 1 \in DOMAIN more
    BY <1>2
  <2> QED
    BY <1>2, <1>3, <2>1, <2>2 DEF Holds
<1>7. \A p \in DOMAIN more : IsNamed(more[p]) => \E n \in (k + 1)..(l + 1) : more[p] = messages[n]
  <2> SUFFICES ASSUME NEW p \in DOMAIN more, IsNamed(more[p])
               PROVE  \E n \in (k + 1)..(l + 1) : more[p] = messages[n]
    OBVIOUS
  <2>1. CASE p \in DOMAIN list
    BY <1>2, <1>4, <2>1 DEF Holds
  <2>2. CASE p = Len(list) + 1
    BY <1>2, <1>4, <2>2
  <2> QED
    BY <1>2, <2>1, <2>2
<1>8. \A p, q \in DOMAIN more, m, n \in (k + 1)..(l + 1) :
         p < q /\ more[p] = messages[m] /\ more[q] = messages[n] => m < n
  <2> SUFFICES ASSUME NEW p \in DOMAIN more, NEW q \in DOMAIN more,
                      NEW m \in (k + 1)..(l + 1), NEW n \in (k + 1)..(l + 1),
                      p < q, more[p] = messages[m], more[q] = messages[n]
               PROVE  m < n
    OBVIOUS
  <2>1. p \in 1..Len(list) /\ more[p] = list[p]
    BY <1>2
  <2>2. IsNamed(messages[m]) /\ \A o \in (k + 1)..l : messages[o].id = messages[m].id => o = m
    BY <1>3, <1>4 DEF Distinct
  <2>3. m \in (k + 1)..l
    <3>1. PICK o \in (k + 1)..l : list[p] = messages[o]
      BY <1>2, <2>1, <2>2 DEF Holds
    <3> QED
      BY <2>1, <2>2, <3>1
  <2>4. CASE n = l + 1
    BY <2>3, <2>4
  <2>5. CASE n # l + 1
    <3>1. n \in (k + 1)..l /\ q \in 1..Len(list) /\ more[q] = list[q]
      BY <1>2, <1>3, <1>5, <2>5
    <3> QED
      BY <1>2, <2>1, <2>3, <3>1 DEF Holds
  <2> QED
    BY <2>4, <2>5
<1>9. Holds(more, messages, (k + 1)..(l + 1))
  BY <1>6, <1>7, <1>8 DEF Holds
<1> QED
  BY <1>9 DEF more

\* What is taken away first is not named, or is the first of the messages.
LEMMA HoldsTail ==
    ASSUME NEW messages, Distinct(messages), NEW list \in Seq(Thing), list # <<>>,
           NEW places \in SUBSET (1..Len(messages)), Holds(list, messages, places),
           NEW rest \in SUBSET places,
           \A n \in places : n \in rest <=> Head(list) # messages[n]
    PROVE  Holds(Tail(list), messages, rest)
<1> DEFINE less == Tail(list)
<1>1. /\ DOMAIN list = 1..Len(list) /\ Len(list) \in Nat \ {0}
      /\ DOMAIN less = 1..(Len(list) - 1) /\ less \in Seq(Thing)
      /\ \A p \in 1..(Len(list) - 1) : less[p] = list[p + 1]
      /\ Head(list) = list[1]
  OBVIOUS
<1>2. \A p \in DOMAIN less : p + 1 \in DOMAIN list /\ p + 1 # 1 /\ p \in Nat
  BY <1>1
<1>3. \A p \in DOMAIN list : p = 1 \/ (p - 1 \in DOMAIN less /\ less[p - 1] = list[p])
  BY <1>1
<1> HIDE DEF less
<1>4. \A n \in rest : \E p \in DOMAIN less : less[p] = messages[n]
  <2> SUFFICES ASSUME NEW n \in rest PROVE \E p \in DOMAIN less : less[p] = messages[n]
    OBVIOUS
  <2>1. PICK p \in DOMAIN list : list[p] = messages[n]
    BY DEF Holds
  <2>2. p # 1
    BY <1>1, <2>1
  <2> QED
    BY <1>3, <2>1, <2>2
<1>5. \A p \in DOMAIN less : IsNamed(less[p]) => \E n \in rest : less[p] = messages[n]
  <2> SUFFICES ASSUME NEW p \in DOMAIN less, IsNamed(less[p])
               PROVE  \E n \in rest : less[p] = messages[n]
    OBVIOUS
  <2>1. p + 1 \in DOMAIN list /\ list[p + 1] = less[p] /\ 1 \in DOMAIN list /\ 1 < p + 1
    BY <1>1, <1>2
  <2>2. PICK n \in places : less[p] = messages[n]
    BY <2>1 DEF Holds
  <2>3. list[1] # messages[n]
    <3>1. \A m \in places : list[1] = messages[m] => m < n
      BY <2>1, <2>2 DEF Holds
    <3> QED
      BY <3>1
  <2> QED
    BY <1>1, <2>2, <2>3
<1>6. \A p, q \in DOMAIN less, m, n \in rest :
         p < q /\ less[p] = messages[m] /\ less[q] = messages[n] => m < n
  <2>1. \A p, q \in DOMAIN less : p < q => p + 1 < q + 1
    BY <1>2
  <2>2. \A p \in DOMAIN less : less[p] = list[p + 1]
    BY <1>1
  <2> QED
    BY <1>2, <2>1, <2>2 DEF Holds
<1>7. Holds(less, messages, rest)
  BY <1>4, <1>5, <1>6 DEF Holds
<1> QED
  BY <1>7 DEF less

LEMMA HoldsHead ==
    ASSUME NEW messages, Distinct(messages), NEW list \in Seq(Thing), list # <<>>,
           NEW k \in Nat, NEW l \in Nat, k <= l, l <= Len(messages),
           Holds(list, messages, (k + 1)..l)
    PROVE  IF IsNamed(Head(list))
           THEN k < l /\ Head(list) = messages[k + 1]
                      /\ Holds(Tail(list), messages, (k + 2)..l)
           ELSE Holds(Tail(list), messages, (k + 1)..l)
<1>1. (k + 1)..l \in SUBSET (1..Len(messages)) /\ Len(messages) \in Nat
  BY DEF Distinct
<1>2. 1 \in DOMAIN list /\ Head(list) = list[1] /\ DOMAIN list = 1..Len(list) /\ Len(list) \in Nat
  OBVIOUS
<1>3. CASE ~IsNamed(Head(list))
  <2>1. \A n \in (k + 1)..l : Head(list) # messages[n]
    BY <1>1, <1>3 DEF Distinct
  <2> QED
    BY <1>1, <1>3, <2>1, HoldsTail
<1>4. CASE IsNamed(Head(list))
  <2>1. PICK m \in (k + 1)..l : Head(list) = messages[m]
    BY <1>2, <1>4 DEF Holds
  <2>2. k + 1 \in (k + 1)..l /\ k < l /\ m \in Nat /\ k + 1 <= m
    BY <2>1
  <2>3. PICK p \in DOMAIN list : list[p] = messages[k + 1]
    BY <2>2 DEF Holds
  <2>4. p = 1
    <3>1. p > 1 => m < k + 1
      BY <1>2, <2>1, <2>2, <2>3 DEF Holds
    <3> QED
      BY <1>2, <2>2, <3>1
  <2>5. Head(list) = messages[k + 1]
    BY <1>2, <2>3, <2>4
  <2>6. \A n \in (k + 1)..l : n \in (k + 2)..l <=> Head(list) # messages[n]
    <3>1. \A n \in (k + 1)..l : messages[n] = messages[k + 1] => n = k + 1
      BY <1>1, <2>2 DEF Distinct
    <3> QED
      BY <2>5, <3>1
  <2>7. (k + 2)..l \in SUBSET ((k + 1)..l)
    OBVIOUS
  <2>8. Holds(Tail(list), messages, (k + 2)..l)
    BY <1>1, <2>6, <2>7, HoldsTail
  <2> QED
    BY <1>4, <2>2, <2>5, <2>8
<1> QED
  BY <1>3, <1>4

LEMMA HoldsNone == ASSUME NEW messages, NEW k \in Nat PROVE Holds(<<>>, messages, (k + 1)..k)
<1>1. DOMAIN <<>> = {} /\ (k + 1)..k = {}
  OBVIOUS
<1> QED
  BY <1>1 DEF Holds

\* The first k messages are recorded, and the next ones, up to l, are in the inbox; a
\* stop comes after all of them, and nobody else is heard before.
Delivered(k, l) ==
    LET messages == MessagesOf(called.request)
        all == Submissions(called)
    IN  /\ Holds(session, messages, 1..k) /\ Holds(inputs, messages, (k + 1)..l)
        /\ program = "opening" =>
              \E i \in 0..Len(all) :
                  sent = SubSeq(all, i + 1, Len(all)) /\ (i <= l + 1 \/ l = Len(messages))
        /\ typing # "none" => l = Len(messages)
        /\ \A p, q \in DOMAIN inputs :
              inputs[p] = Control("stop") /\ p < q => ~IsNamed(inputs[q])
        /\ Control("stop") \in Range(inputs) => l = Len(messages)
        /\ Control("stop") \in Range(RecordedNow) => k = Len(messages)

DeliveryInv ==
    /\ program = "opening" /\ Past("submit") => sent = <<>>
    /\ NamesAll(called.request) =>
          \E k \in 0..Len(MessagesOf(called.request)) :
              \E l \in k..Len(MessagesOf(called.request)) : Delivered(k, l)

\* What a new item does to a list of which one item is last.
LEMMA StopIsLast ==
    ASSUME NEW list \in Seq(Thing), NEW x \in Thing, ~IsNamed(x),
           \A p, q \in DOMAIN list : list[p] = Control("stop") /\ p < q => ~IsNamed(list[q])
    PROVE  LET more == Append(list, x)
           IN  /\ \A p, q \in DOMAIN more :
                     more[p] = Control("stop") /\ p < q => ~IsNamed(more[q])
               /\ Range(more) = Range(list) \cup {x}
<1> DEFINE more == Append(list, x)
<1>1. /\ DOMAIN list = 1..Len(list) /\ DOMAIN more = 1..(Len(list) + 1) /\ Len(list) \in Nat
      /\ \A p \in 1..Len(list) : more[p] = list[p]
      /\ more[Len(list) + 1] = x
  OBVIOUS
<1> HIDE DEF more
<1>2. \A p, q \in DOMAIN more : more[p] = Control("stop") /\ p < q => ~IsNamed(more[q])
  BY <1>1
<1>3. Range(more) = Range(list) \cup {x}
  BY <1>1 DEF Range
<1> QED
  BY <1>2, <1>3 DEF more

LEMMA RangeGrows ==
    ASSUME NEW list \in Seq(Thing), NEW x \in Thing
    PROVE  Range(Append(list, x)) = Range(list) \cup {x}
<1> DEFINE more == Append(list, x)
<1>1. /\ DOMAIN list = 1..Len(list) /\ DOMAIN more = 1..(Len(list) + 1) /\ Len(list) \in Nat
      /\ \A p \in 1..Len(list) : more[p] = list[p]
      /\ more[Len(list) + 1] = x
  OBVIOUS
<1> HIDE DEF more
<1>2. Range(more) = Range(list) \cup {x}
  BY <1>1 DEF Range
<1> QED
  BY <1>2 DEF more

\* Whatever names a thing by its kind tells them apart.
LEMMA Kinds ==
    /\ ~IsNamed(Control("settings")) /\ ~IsNamed(Control("stop")) /\ ~IsNamed(Reply)
    /\ ~IsNamed(External("none")) /\ External("none") # Control("stop")
    /\ Control("settings") # Control("stop") /\ Reply # Control("stop")
    /\ \A x : IsNamed(x) => x # Control("stop")
<1>1. \A id : /\ Control(id).kind = "control" /\ Control(id).id = id
              /\ External(id).kind = "external" /\ External(id).id = id
  BY DEF Control, External
<1>2. Reply.kind = "answer"
  BY DEF Reply
<1>3. "control" # "external" /\ "answer" # "external" /\ "answer" # "control"
      /\ "settings" # "stop"
  OBVIOUS
<1> QED
  BY <1>1, <1>2, <1>3 DEF IsNamed

\* Steps that disturb neither the session nor the inbox.
LEMMA DeliveredSame ==
    ASSUME NEW k, NEW l, Delivered(k, l),
           UNCHANGED <<called, sent, inputs, session, before>>,
           program' = "opening" => program = "opening",
           typing' = typing \/ l = Len(MessagesOf(called.request))
    PROVE  Delivered(k, l)'
<1>1. RecordedNow' = RecordedNow
  BY DEF RecordedNow
<1>2. MessagesOf(called.request)' = MessagesOf(called.request)
         /\ Submissions(called)' = Submissions(called)
  OBVIOUS
<1> QED
  BY <1>1, <1>2 DEF Delivered

\* An inbox that was emptied: what was recorded stays.
LEMMA DeliveredEmpty ==
    ASSUME RunTypes, NamesAll(called.request), NEW k \in Nat, NEW l, Delivered(k, l),
           called' = called, inputs' = <<>>, session' = session, typing' = "none",
           before' = before \/ before' = Len(session),
           program' # "opening" \/ sent' = Submissions(called)
    PROVE  Delivered(k, k)'
<1> DEFINE messages == MessagesOf(called.request)
           all == Submissions(called)
<1>1. messages' = messages /\ all' = all
  OBVIOUS
<1>2. all = SubSeq(all, 1, Len(all)) /\ 0 \in 0..Len(all)
  BY SubmissionsAre DEF RunTypes
<1>3. Holds(session, messages, 1..k)' /\ Holds(inputs, messages, (k + 1)..k)'
  BY <1>1, HoldsNone DEF Delivered
<1>4. DOMAIN inputs' = {} /\ Range(inputs)' = {}
  BY DEF Range
<1>5. Control("stop") \in Range(RecordedNow)' => k = Len(messages)
  <2>1. CASE before' = before
    BY <2>1 DEF RecordedNow, Delivered
  <2>2. CASE before' = Len(session)
    <3>1. RecordedNow' = <<>>
      BY <2>2 DEF RecordedNow, RunTypes
    <3> QED
      BY <3>1 DEF Range
  <2> QED
    BY <2>1, <2>2
<1>6. program' = "opening" =>
         \E i \in 0..Len(all) : sent' = SubSeq(all, i + 1, Len(all)) /\ i <= k + 1
  <2>1. 0 <= k + 1 /\ 0 + 1 = 1
    OBVIOUS
  <2> QED
    BY <1>2, <2>1
<1> HIDE DEF messages, all
<1> QED
  BY <1>1, <1>3, <1>4, <1>5, <1>6 DEF Delivered, messages, all

\* Something that is not named is put into the inbox: a stop only after all messages.
LEMMA DeliveredMore ==
    ASSUME RunTypes, NamesAll(called.request),
           NEW k \in Nat, NEW l \in k..Len(MessagesOf(called.request)), Delivered(k, l),
           UNCHANGED <<called, session, before>>,
           NEW x \in Thing, ~IsNamed(x), inputs' = Append(inputs, x),
           x = Control("stop") => l = Len(MessagesOf(called.request)),
           typing' # "none" => l = Len(MessagesOf(called.request)),
           program' = "opening" =>
               \E i \in 0..Len(Submissions(called)) :
                   /\ sent' = SubSeq(Submissions(called), i + 1, Len(Submissions(called)))
                   /\ i <= l + 1 \/ l = Len(MessagesOf(called.request))
    PROVE  Delivered(k, l)'
<1> DEFINE messages == MessagesOf(called.request)
           all == Submissions(called)
<1>1. messages' = messages /\ all' = all /\ RecordedNow' = RecordedNow
  BY DEF RecordedNow
<1>2. inputs \in Seq(Thing) /\ Distinct(messages) /\ Len(messages) \in Nat
  BY NamesAreDistinct DEF RunTypes, Distinct
<1>3. (k + 1)..l \in SUBSET (1..Len(messages))
  BY <1>2
<1>4. /\ Holds(session, messages, 1..k) /\ Holds(inputs, messages, (k + 1)..l)
      /\ \A p, q \in DOMAIN inputs :
            inputs[p] = Control("stop") /\ p < q => ~IsNamed(inputs[q])
      /\ Control("stop") \in Range(inputs) => l = Len(messages)
      /\ Control("stop") \in Range(RecordedNow) => k = Len(messages)
  BY DEF Delivered
<1>5. Holds(session, messages, 1..k)' /\ Holds(inputs, messages, (k + 1)..l)'
  <2> HIDE DEF messages
  <2>1. Holds(Append(inputs, x), messages, (k + 1)..l)
    BY <1>2, <1>3, <1>4, HoldsSkip
  <2> QED
    BY <1>1, <1>4, <2>1
<1>6. /\ \A p, q \in DOMAIN inputs' :
            inputs'[p] = Control("stop") /\ p < q => ~IsNamed(inputs'[q])
      /\ Control("stop") \in Range(inputs') => l = Len(messages)
  BY <1>2, <1>4, StopIsLast
<1> HIDE DEF messages, all
<1> QED
  BY <1>1, <1>4, <1>5, <1>6 DEF Delivered, messages, all

\* What is left of a sequence when its first item is taken.
LEMMA DropFirst ==
    ASSUME NEW S, NEW s \in Seq(S), NEW i \in Nat, i <= Len(s),
           SubSeq(s, i + 1, Len(s)) # <<>>
    PROVE  LET left == SubSeq(s, i + 1, Len(s))
           IN  i < Len(s) /\ Head(left) = s[i + 1] /\ Tail(left) = SubSeq(s, i + 2, Len(s))
<1> DEFINE left == SubSeq(s, i + 1, Len(s))
<1>1. left \in Seq(S) /\ Len(left) = Len(s) - i /\ Len(s) \in Nat
      /\ \A n \in 1..(Len(s) - i) : left[n] = s[n + i]
  OBVIOUS
<1>2. i < Len(s)
  BY <1>1
<1>3. Head(left) = s[i + 1]
  BY <1>1, <1>2
<1> DEFINE less == Len(s) - i - 1
           end == SubSeq(s, i + 2, Len(s))
<1>4. less \in Nat /\ less + 1 = Len(s) - i
  BY <1>1, <1>2
<1>5. Tail(left) \in Seq(S) /\ Len(Tail(left)) = less
      /\ \A n \in 1..less : Tail(left)[n] = s[n + 1 + i]
  <2>0. left # <<>>
    OBVIOUS
  <2> HIDE DEF left, less
  <2>1. left # <<>> /\ Len(left) = less + 1
    BY <1>1, <1>4, <2>0
  <2>2. Tail(left) \in Seq(S) /\ Len(Tail(left)) = less
        /\ \A n \in 1..less : Tail(left)[n] = left[n + 1]
    BY <1>1, <1>4, <2>1
  <2>3. \A n \in 1..less : n + 1 \in 1..(Len(s) - i)
    BY <1>4
  <2> QED
    BY <1>1, <2>2, <2>3
<1>6. end \in Seq(S) /\ Len(end) = less /\ \A n \in 1..less : end[n] = s[n + 1 + i]
  BY <1>1, <1>2
<1> HIDE DEF end, left, less
<1>7. Tail(left) = end
  <2>1. \A t \in Seq(S) : t = [n \in 1..Len(t) |-> t[n]]
    OBVIOUS
  <2>2. Tail(left) = [n \in 1..less |-> Tail(left)[n]]
    BY <1>5, <2>1
  <2>3. end = [n \in 1..less |-> end[n]]
    BY <1>6, <2>1
  <2> QED
    BY <1>5, <1>6, <2>2, <2>3
<1> QED
  BY <1>2, <1>3, <1>7 DEF end, left

\* One more of the submissions: a message that is known is dropped.
LEMMA DeliveredSubmit ==
    ASSUME RunTypes, NamesAll(called.request), SubmitInput,
           NEW k \in Nat, NEW l \in k..Len(MessagesOf(called.request)), Delivered(k, l)
    PROVE  \E n \in k..Len(MessagesOf(called.request)) : Delivered(k, n)'
<1> DEFINE messages == MessagesOf(called.request)
           all == Submissions(called)
<1>1. messages' = messages /\ all' = all /\ RecordedNow' = RecordedNow
  BY DEF SubmitInput, RecordedNow
<1>2. /\ Distinct(messages) /\ messages \in Seq(Thing) /\ Len(messages) \in Nat
      /\ all \in Seq(Thing) /\ Len(all) \in {Len(messages) + 1, Len(messages) + 2}
      /\ all[1] = Control("settings")
      /\ \A n \in 1..Len(messages) : all[n + 1] = messages[n]
      /\ Len(all) = Len(messages) + 2 => all[Len(messages) + 2] = Control("stop")
      /\ inputs \in Seq(Thing) /\ session \in Seq(Thing) /\ sent \in Seq(Thing)
  BY NamesAreDistinct, SubmissionsAre DEF RunTypes
<1>3. /\ program = "opening" /\ sent # <<>> /\ sent' = Tail(sent)
      /\ UNCHANGED <<called, session, before, typing>>
  BY DEF SubmitInput
<1>4. PICK i \in 0..Len(all) :
         sent = SubSeq(all, i + 1, Len(all)) /\ (i <= l + 1 \/ l = Len(messages))
  BY <1>3 DEF Delivered
<1>5. /\ i < Len(all) /\ Head(sent) = all[i + 1]
      /\ sent' = SubSeq(all, (i + 1) + 1, Len(all)) /\ i + 1 \in 0..Len(all)
  <2> HIDE DEF all, messages
  <2>1. Len(all) \in Nat /\ i \in Nat /\ i <= Len(all)
    BY <1>2
  <2>2. i < Len(all) /\ Head(sent) = all[i + 1] /\ Tail(sent) = SubSeq(all, i + 2, Len(all))
    BY <1>2, <1>3, <1>4, <2>1, DropFirst
  <2>3. (i + 1) + 1 = i + 2 /\ i + 1 \in 0..Len(all)
    BY <2>1, <2>2
  <2> QED
    BY <1>3, <2>2, <2>3
<1>6. CASE program' = "closing" /\ inputs' = inputs
  <2>1. Delivered(k, l)'
    BY <1>1, <1>3, <1>6 DEF Delivered
  <2> QED
    BY <2>1
<1>7. CASE inputs' = Submitted(Head(sent)) /\ (i = 0 \/ i = Len(messages) + 1)
  <2> DEFINE x == Head(sent)
  <2>1. x \in Thing /\ ~IsNamed(x) /\ (x = Control("stop") => l = Len(messages))
    <3>1. CASE i = 0
      BY <1>2, <1>5, <3>1, Kinds DEF Thing
    <3>2. CASE i = Len(messages) + 1
      BY <1>2, <1>4, <1>5, <3>2, Kinds DEF Thing
    <3> QED
      BY <1>7, <3>1, <3>2
  <2>2. inputs' = Append(inputs, x)
    BY <1>7, <2>1 DEF Submitted, IsNamed
  <2>3. i + 1 <= l + 1 \/ l = Len(messages)
    BY <1>2, <1>4, <1>7
  <2>4. typing' # "none" => l = Len(messages)
    BY <1>3 DEF Delivered
  <2>5. Delivered(k, l)'
    BY <1>3, <1>5, <2>1, <2>2, <2>3, <2>4, DeliveredMore
  <2> QED
    BY <2>5
<1>8. CASE inputs' = Submitted(Head(sent)) /\ i \in 1..Len(messages)
  <2> DEFINE x == messages[i]
  <2>1. Head(sent) = x /\ IsNamed(x) /\ x \in Thing
    BY <1>2, <1>5, <1>8 DEF Distinct
  <2>2. CASE i <= l
    <3>1. x.id \in IDsIn(session) \cup IDsIn(inputs)
      <4>1. (\E p \in DOMAIN session : session[p] = x) \/ (\E p \in DOMAIN inputs : inputs[p] = x)
        <5>1. CASE i <= k
          <6>1. i \in 1..k
            BY <1>8, <5>1
          <6> QED
            BY <6>1 DEF Delivered, Holds
        <5>2. CASE i > k
          <6>1. i \in (k + 1)..l
            BY <1>8, <2>2, <5>2
          <6> QED
            BY <6>1 DEF Delivered, Holds
        <5> QED
          BY <1>8, <5>1, <5>2
      <4> QED
        BY <2>1, <4>1 DEF IDsIn, IsNamed
    <3>2. inputs' = inputs
      BY <1>8, <2>1, <3>1 DEF Submitted, IsNamed
    <3>3. i + 1 <= l + 1
      BY <1>8, <2>2
    <3>4. Delivered(k, l)'
      BY <1>1, <1>3, <1>5, <3>2, <3>3 DEF Delivered
    <3> QED
      BY <3>4
  <2>3. CASE i = l + 1
    <3>1. x.id \notin IDsIn(session) \cup IDsIn(inputs)
      <4> SUFFICES ASSUME NEW list \in {session, inputs}, NEW p \in DOMAIN list,
                          list[p].kind = "external", list[p].id = x.id
                   PROVE  FALSE
        BY DEF IDsIn
      <4>1. IsNamed(list[p])
        BY <2>1 DEF IsNamed
      <4>2. PICK n \in 1..l : list[p] = messages[n]
        <5>1. Holds(session, messages, 1..k) /\ Holds(inputs, messages, (k + 1)..l)
          BY DEF Delivered
        <5>2. 1..k \subseteq 1..l /\ (k + 1)..l \subseteq 1..l
          OBVIOUS
        <5> HIDE DEF messages
        <5> QED
          BY <4>1, <5>1, <5>2 DEF Holds
      <4>3. n = i
        <5>1. n \in 1..Len(messages)
          BY <1>2
        <5> HIDE DEF messages
        <5> QED
          BY <1>2, <1>8, <4>2, <5>1 DEF Distinct
      <4> QED
        BY <2>3, <4>3
    <3>2. inputs' = Append(inputs, x)
      BY <1>8, <2>1, <3>1 DEF Submitted, IsNamed
    <3>3. l < Len(messages) /\ l + 1 \in k..Len(messages) /\ l \in Nat /\ k <= l
      BY <1>2, <1>8, <2>3
    <3>4. Control("stop") \notin Range(inputs)
      BY <3>3 DEF Delivered
    <3>5. Holds(inputs', messages, (k + 1)..(l + 1))
      <4>1. Holds(inputs, messages, (k + 1)..l)
        BY DEF Delivered
      <4> HIDE DEF messages
      <4>2. Holds(Append(inputs, messages[l + 1]), messages, (k + 1)..(l + 1))
        BY <1>2, <3>3, <4>1, HoldsAdd
      <4> QED
        BY <2>3, <3>2, <4>2
    <3>6. Control("stop") \notin Range(inputs')
      BY <1>2, <2>1, <3>2, <3>4, Kinds, RangeGrows
    <3>7. \A p \in DOMAIN inputs' : inputs'[p] # Control("stop")
      BY <3>6 DEF Range
    <3>8. /\ Holds(session, messages, 1..k)
          /\ Control("stop") \in Range(RecordedNow) => k = Len(messages)
          /\ typing # "none" => l = Len(messages)
      BY DEF Delivered
    <3>9. typing = "none" /\ i + 1 <= (l + 1) + 1
      BY <1>8, <2>3, <3>3, <3>8
    <3> HIDE DEF messages, all
    <3>10. Delivered(k, l + 1)'
      BY <1>1, <1>3, <1>5, <3>5, <3>6, <3>7, <3>8, <3>9 DEF Delivered, messages, all
    <3> QED
      BY <3>3, <3>10 DEF messages
  <2> QED
    BY <1>2, <1>4, <1>8, <2>2, <2>3
<1> HIDE DEF messages, all
<1>9. i = 0 \/ i = Len(messages) + 1 \/ i \in 1..Len(messages)
  <2>1. Len(all) <= Len(messages) + 2 /\ Len(messages) \in Nat /\ Len(all) \in Nat
    BY <1>2
  <2>2. i \in Nat /\ i < Len(all)
    BY <1>5, <2>1
  <2> QED
    BY <2>1, <2>2
<1>10. inputs' = Submitted(Head(sent)) \/ (program' = "closing" /\ inputs' = inputs)
  BY DEF SubmitInput
<1> QED
  BY <1>6, <1>7, <1>8, <1>9, <1>10 DEF messages

\* The first thing in the inbox is recorded.
LEMMA DeliveredTake ==
    ASSUME RunTypes, NamesAll(called.request), TakeInput,
           NEW k \in 0..Len(MessagesOf(called.request)),
           NEW l \in k..Len(MessagesOf(called.request)), Delivered(k, l)
    PROVE  \E n \in 0..l : Delivered(n, l)'
<1> DEFINE messages == MessagesOf(called.request)
           item == Head(inputs)
<1>1. /\ Distinct(messages) /\ messages \in Seq(Thing) /\ Len(messages) \in Nat
      /\ inputs \in Seq(Thing) /\ session \in Seq(Thing)
  BY NamesAreDistinct, SubmissionsAre DEF RunTypes
<1>2. /\ inputs # <<>> /\ inputs' = Tail(inputs) /\ session' = Append(session, item)
      /\ item \in Thing /\ program' = "running" /\ UNCHANGED <<called, typing, before>>
  BY RecordSteps, ItemDoes DEF Records
<1>3. RecordedNow \in Seq(Thing) /\ RecordedNow' = Append(RecordedNow, item)
  BY <1>2, NowGrows
<1>4. Range(RecordedNow') = Range(RecordedNow) \cup {item}
  BY <1>2, <1>3, RangeGrows
<1>5. /\ Holds(session, messages, 1..k) /\ Holds(inputs, messages, (k + 1)..l)
      /\ typing # "none" => l = Len(messages)
      /\ \A p, q \in DOMAIN inputs :
            inputs[p] = Control("stop") /\ p < q => ~IsNamed(inputs[q])
      /\ Control("stop") \in Range(inputs) => l = Len(messages)
      /\ Control("stop") \in Range(RecordedNow) => k = Len(messages)
  BY DEF Delivered
<1>6. /\ 1 \in DOMAIN inputs /\ inputs[1] = item /\ DOMAIN inputs = 1..Len(inputs)
      /\ Len(inputs) \in Nat /\ DOMAIN inputs' = 1..(Len(inputs) - 1)
      /\ \A p \in DOMAIN inputs' : p + 1 \in DOMAIN inputs /\ inputs'[p] = inputs[p + 1]
  BY <1>1, <1>2
<1>7. /\ \A p, q \in DOMAIN inputs' :
            inputs'[p] = Control("stop") /\ p < q => ~IsNamed(inputs'[q])
      /\ Control("stop") \in Range(inputs') => Control("stop") \in Range(inputs)
  <2>1. \A p, q \in DOMAIN inputs' : p < q => p + 1 < q + 1
    BY <1>6
  <2> QED
    BY <1>5, <1>6, <2>1 DEF Range
<1>8. messages' = messages /\ k \in Nat /\ l \in Nat /\ k <= l /\ l <= Len(messages)
  BY <1>1, <1>2
<1> HIDE DEF messages
<1>9. CASE IsNamed(item)
  <2>1. /\ k < l /\ item = messages[k + 1] /\ Holds(Tail(inputs), messages, (k + 2)..l)
    BY <1>1, <1>2, <1>5, <1>8, <1>9, HoldsHead
  <2>2. Holds(session', messages, 1..(k + 1))
    <3>1. Holds(session, messages, (0 + 1)..k)
      BY <1>5
    <3>2. Holds(Append(session, messages[k + 1]), messages, (0 + 1)..(k + 1))
      <4>1. 0 \in Nat /\ 0 <= k /\ k < Len(messages)
        BY <1>1, <1>8, <2>1
      <4> QED
        BY <1>1, <1>8, <3>1, <4>1, HoldsAdd
    <3> QED
      BY <1>2, <2>1, <3>2
  <2>3. Control("stop") \notin Range(RecordedNow')
    BY <1>1, <1>4, <1>5, <1>8, <1>9, <2>1, Kinds
  <2>4. k + 1 \in 0..l /\ (k + 1) + 1 = k + 2
    BY <1>8, <2>1
  <2>5. Delivered(k + 1, l)'
    BY <1>2, <1>5, <1>7, <1>8, <2>1, <2>2, <2>3, <2>4 DEF Delivered, messages
  <2> QED
    BY <2>4, <2>5
<1>10. CASE ~IsNamed(item)
  <2>1. Holds(Tail(inputs), messages, (k + 1)..l)
    BY <1>1, <1>2, <1>5, <1>8, <1>10, HoldsHead
  <2>2. Holds(session', messages, 1..k)
    <3>1. 1..k \in SUBSET (1..Len(messages))
      BY <1>1, <1>8
    <3> QED
      BY <1>1, <1>2, <1>5, <1>10, <3>1, HoldsSkip
  <2>3. item = Control("stop") => k = Len(messages)
    <3> SUFFICES ASSUME item = Control("stop") PROVE k = Len(messages)
      OBVIOUS
    <3>1. l = Len(messages)
      BY <1>5, <1>6 DEF Range
    <3>2. \A q \in DOMAIN inputs : ~IsNamed(inputs[q])
      <4>1. \A q \in DOMAIN inputs : q = 1 \/ 1 < q
        BY <1>6
      <4> QED
        BY <1>5, <1>6, <1>10, <4>1
    <3>3. ASSUME k < l PROVE FALSE
      <4>1. k + 1 \in (k + 1)..l /\ k + 1 \in 1..Len(messages)
        BY <1>1, <1>8, <3>3
      <4>2. PICK p \in DOMAIN inputs : inputs[p] = messages[k + 1]
        BY <1>5, <4>1 DEF Holds
      <4> QED
        BY <1>1, <3>2, <4>1, <4>2 DEF Distinct
    <3> QED
      BY <1>8, <3>1, <3>3
  <2>4. Control("stop") \in Range(RecordedNow') => k = Len(messages)
    BY <1>4, <1>5, <2>3
  <2>5. Delivered(k, l)'
    BY <1>2, <1>5, <1>7, <1>8, <2>1, <2>2, <2>4 DEF Delivered, messages
  <2> QED
    BY <1>8, <2>5
<1> QED
  BY <1>9, <1>10

\* An answer is not a message.
LEMMA DeliveredAnswer ==
    ASSUME RunTypes, NamesAll(called.request), GiveAnswer,
           NEW k \in 0..Len(MessagesOf(called.request)),
           NEW l \in k..Len(MessagesOf(called.request)), Delivered(k, l)
    PROVE  Delivered(k, l)'
<1> DEFINE messages == MessagesOf(called.request)
<1>1. Distinct(messages) /\ Len(messages) \in Nat /\ session \in Seq(Thing)
  BY NamesAreDistinct DEF RunTypes, Distinct
<1>2. /\ session' = Append(session, Reply) /\ Reply \in Thing /\ program' = "running"
      /\ UNCHANGED <<called, inputs, typing, before>>
  BY RecordSteps, ItemDoes DEF Records
<1>3. Range(RecordedNow') = Range(RecordedNow) \cup {Reply}
  BY <1>2, NowGrows, RangeGrows
<1>4. messages' = messages /\ 1..k \in SUBSET (1..Len(messages))
  BY <1>1, <1>2
<1>5. Holds(session, messages, 1..k)
  BY DEF Delivered
<1> HIDE DEF messages
<1>6. Holds(session', messages, 1..k)
  BY <1>1, <1>2, <1>4, <1>5, Kinds, HoldsSkip
<1> QED
  BY <1>2, <1>3, <1>4, <1>6, Kinds DEF Delivered, messages

LEMMA DeliveryStep == ASSUME RunTypes, DeliveryInv, RunNext PROVE DeliveryInv'
<1> DEFINE messages == MessagesOf(called.request)
           Some == \E k \in 0..Len(messages) : \E l \in k..Len(messages) : Delivered(k, l)
<1>1. called' = called /\ messages' = messages
  BY SameCalled
<1>2. program' = "opening" /\ Past("submit")' => sent' = <<>>
  <2> SUFFICES ASSUME program' = "opening", Past("submit")' PROVE sent' = <<>>
    OBVIOUS
  <2>1. \A n \in 1..Len(Stages) : Stages[n] = "submit" <=> n = 11
    BY DEF Stages
  <2>2. Len(Stages) = 13 /\ stage \in 0..Len(Stages)
    BY DEF Stages, RunTypes
  <2>3. CASE Call
    BY <2>3 DEF Call, Past
  <2>4. CASE OpenStage
    <3>1. /\ program = "opening" /\ stage < Len(Stages) /\ stage' = stage + 1 /\ sent' = sent
          /\ Stages[stage + 1] = "submit" => sent = <<>>
      BY <2>4 DEF OpenStage
    <3>2. Past("submit") \/ Stages[stage + 1] = "submit"
      BY <2>2, <3>1 DEF Past
    <3> QED
      BY <3>1, <3>2 DEF DeliveryInv
  <2>5. CASE SubmitInput
    <3>1. stage < Len(Stages) /\ Stages[stage + 1] = "submit" /\ stage' = stage
      BY <2>5 DEF SubmitInput
    <3>2. stage = 10
      BY <2>1, <2>2, <3>1
    <3> QED
      BY <2>1, <2>2, <3>1, <3>2 DEF Past
  <2>6. UNCHANGED <<program, stage, sent>> => sent' = <<>>
    BY DEF DeliveryInv, Past
  <2>7. CASE Signal \/ Close \/ SubmitLine
    BY <2>6, <2>7, LineDoes DEF Signal, Close
  <2> QED
    BY <2>3, <2>4, <2>5, <2>7
       DEF RunNext, OpenFails, BeginRun, Exit, TakeInput, GiveAnswer, RunReturns, Kill
<1>3. ASSUME NamesAll(called.request) PROVE Some'
  <2>1. Len(messages) \in Nat /\ messages \in Seq(Thing)
    BY SubmissionsAre DEF RunTypes
  <2>0. PICK k \in 0..Len(messages) : \E l \in k..Len(messages) : Delivered(k, l)
    BY <1>3 DEF DeliveryInv
  <2>2. PICK l \in k..Len(messages) : Delivered(k, l)
    BY <2>0
  <2>3. /\ k \in Nat /\ l \in Nat /\ k <= l /\ l <= Len(messages)
        /\ k \in k..Len(messages) /\ l \in 0..Len(messages)
    BY <2>1, <2>2
  <2> HIDE DEF messages
  <2>4. \A n \in 0..l : n \in 0..Len(messages) /\ l \in n..Len(messages)
    BY <2>1, <2>3
  <2>5. Delivered(k, l)' => Some'
    BY <1>1, <2>2
  <2>6. Delivered(k, k)' => Some'
    BY <1>1, <2>2, <2>3
  <2> HIDE DEF Some
  <2>7. CASE Call
    <3>1. /\ called' = called /\ inputs' = <<>> /\ session' = session /\ typing' = "none"
          /\ before' = Len(session) /\ sent' = Submissions(called)
      BY <2>7 DEF Call
    <3>2. Delivered(k, k)'
      BY <1>3, <2>2, <2>3, <3>1, DeliveredEmpty
    <3> QED
      BY <2>6, <3>2
  <2>8. CASE Kill
    <3>1. /\ called' = called /\ inputs' = <<>> /\ session' = session /\ typing' = "none"
          /\ before' = before /\ program' # "opening"
      BY <2>8 DEF Kill
    <3>2. Delivered(k, k)'
      BY <1>3, <2>2, <2>3, <3>1, DeliveredEmpty
    <3> QED
      BY <2>6, <3>2
  <2>9. CASE OpenStage \/ OpenFails \/ Close \/ Exit \/ RunReturns \/ Signal
    <3>1. /\ UNCHANGED <<called, sent, inputs, session, before, typing>>
          /\ program' = "opening" => program = "opening"
      BY <2>9 DEF OpenStage, OpenFails, Close, Exit, RunReturns, Signal
    <3> QED
      BY <2>2, <2>5, <3>1, DeliveredSame
  <2>10. CASE SubmitInput
    <3>1. PICK n \in k..Len(messages) : Delivered(k, n)'
      BY <1>3, <2>2, <2>3, <2>10, DeliveredSubmit DEF messages
    <3> QED
      BY <1>1, <2>2, <3>1 DEF Some
  <2>11. CASE BeginRun
    <3>1. UNCHANGED <<called, sent, inputs, session, before>> /\ program' # "opening"
      BY <2>11 DEF BeginRun
    <3>2. l = Len(messages)
      <4>1. program = "opening" /\ stage = Len(Stages)
        BY <2>11 DEF BeginRun
      <4>2. sent = <<>>
        BY <4>1 DEF DeliveryInv, Past, Stages
      <4>3. PICK i \in 0..Len(Submissions(called)) :
               /\ sent = SubSeq(Submissions(called), i + 1, Len(Submissions(called)))
               /\ i <= l + 1 \/ l = Len(messages)
        BY <2>2, <4>1 DEF Delivered, messages
      <4>4. /\ Submissions(called) \in Seq(Thing)
            /\ Len(Submissions(called)) \in {Len(messages) + 1, Len(messages) + 2}
        BY SubmissionsAre DEF messages
      <4>5. Len(Submissions(called)) \in Nat
        BY <4>4
      <4>6. Len(sent) = Len(Submissions(called)) - i
        BY <4>3, <4>4, <4>5
      <4>7. i = Len(Submissions(called))
        BY <4>2, <4>3, <4>5, <4>6
      <4> QED
        BY <2>1, <2>3, <4>3, <4>4, <4>7
    <3> QED
      BY <2>2, <2>5, <3>1, <3>2, DeliveredSame DEF messages
  <2>12. CASE SubmitLine
    <3>1. /\ UNCHANGED <<called, sent, session, before>> /\ program' # "opening"
          /\ typing # "none"
          /\ inputs' \in {inputs, Append(inputs, Control("stop")),
                          Append(inputs, External("none"))}
      BY <2>12, LineDoes
    <3>2. l = Len(messages)
      BY <2>2, <3>1 DEF Delivered, messages
    <3>3. CASE inputs' = inputs
      BY <2>2, <2>5, <3>1, <3>2, <3>3, DeliveredSame DEF messages
    <3>4. ASSUME NEW x \in Thing, ~IsNamed(x), inputs' = Append(inputs, x) PROVE Some'
      BY <1>3, <2>2, <2>3, <2>5, <3>1, <3>2, <3>4, DeliveredMore DEF messages
    <3> QED
      BY <3>1, <3>3, <3>4, Kinds DEF Thing
  <2>13. CASE TakeInput
    <3>1. PICK n \in 0..l : Delivered(n, l)'
      BY <1>3, <2>2, <2>13, DeliveredTake DEF messages
    <3> QED
      BY <1>1, <2>4, <3>1 DEF Some
  <2>14. CASE GiveAnswer
    BY <1>3, <2>2, <2>5, <2>14, DeliveredAnswer DEF messages
  <2> QED
    BY <2>7, <2>8, <2>9, <2>10, <2>11, <2>12, <2>13, <2>14 DEF RunNext
<1> HIDE DEF messages
<1>4. NamesAll(called.request)' => NamesAll(called.request)
  BY <1>1
<1> QED
  BY <1>1, <1>2, <1>3, <1>4 DEF DeliveryInv, messages

RunInv == RunTypes /\ OpenInv /\ WrittenInv /\ AnsweredInv /\ DeliveryInv

\* A program that was never called.
LEMMA NeverRunInv ==
    ASSUME NeverRun, called.request.messages \in Seq(Range(called.request.messages))
    PROVE  RunInv
<1>1. /\ program = "off" /\ stage = 0 /\ opened = <<>> /\ user = "live" /\ context = "live"
      /\ sent = <<>> /\ typing = "none" /\ inputs = <<>> /\ session = <<>> /\ before = 0
      /\ log = <<>> /\ out = <<>> /\ broken = FALSE /\ code = "none"
  BY DEF NeverRun
<1>2. /\ <<>> \in Seq(Thing) /\ <<>> \in Seq(Closers) /\ 0 \in 0..Len(Stages)
      /\ Len(<<>>) = 0 /\ DOMAIN <<>> = {} /\ Range(<<>>) = {} /\ SubSeq(<<>>, 1, 0) = <<>>
  BY DEF Stages, Range
<1>3. RunTypes
  <2>1. 0 \in 0..Len(<<>>)
    BY <1>2
  <2>2. /\ sent \in Seq(Thing) /\ inputs \in Seq(Thing) /\ session \in Seq(Thing)
        /\ log \in Seq(Thing) /\ opened \in Seq(Closers) /\ stage \in 0..Len(Stages)
        /\ before \in 0..Len(session)
    BY <1>1, <1>2, <2>1
  <2> QED
    BY <1>1, <2>2 DEF RunTypes
<1>4. RecordedNow = <<>>
  BY <1>1, <1>2 DEF RecordedNow
<1>5. OpenInv /\ AnsweredInv
  BY <1>1 DEF OpenInv, AnsweredInv
<1>6. WrittenInv
  <2>1. Control("stop") \in Thing
    BY DEF Thing
  <2>2. IsPrefix(<<>>, <<>>)
    BY <1>2, <2>1, PrefixGrows
  <2> QED
    BY <1>1, <1>2, <1>4, <2>2 DEF WrittenInv, Told
<1>7. DeliveryInv
  <2> DEFINE messages == MessagesOf(called.request)
  <2>1. Len(messages) \in Nat
    BY <1>3, SubmissionsAre
  <2>2. 0 \in 0..Len(messages) /\ 1..0 = (0 + 1)..0
    BY <2>1
  <2>3. Holds(<<>>, messages, (0 + 1)..0)
    BY HoldsNone
  <2>4. Delivered(0, 0)
    BY <1>1, <1>2, <1>4, <2>2, <2>3 DEF Delivered
  <2> QED
    BY <1>1, <2>2, <2>4 DEF DeliveryInv
<1> QED
  BY <1>3, <1>5, <1>6, <1>7 DEF RunInv

LEMMA RunInvStep == RunInv /\ [RunNext]_runVars => RunInv'
<1> SUFFICES ASSUME RunInv, [RunNext]_runVars PROVE RunInv'
  OBVIOUS
<1>1. CASE RunNext
  BY <1>1, TypesStep, OpenStep, WrittenStep, AnsweredStep, DeliveryStep DEF RunInv
<1>2. CASE UNCHANGED runVars
  <2>1. UNCHANGED <<RunTypes, OpenInv>>
    BY <1>2 DEF runVars, RunTypes, OpenInv, Thing, Past
  <2>2. UNCHANGED <<WrittenInv, AnsweredInv>>
    BY <1>2 DEF runVars, WrittenInv, AnsweredInv, Told, RecordedNow, Unanswered, Thing
  <2>3. UNCHANGED DeliveryInv
    BY <1>2 DEF runVars, DeliveryInv, Delivered, RecordedNow, Past
  <2> QED
    BY <2>1, <2>2, <2>3 DEF RunInv
<1> QED
  BY <1>1, <1>2

\* A program that reports success has had everything answered.
LEMMA AllAnswered == ASSUME RunInv PROVE RequestIsAnswered
<1> DEFINE messages == MessagesOf(called.request)
<1> SUFFICES ASSUME code = "0", user = "live"
             PROVE  ~Unanswered /\ (NamesAll(called.request) => Holds(session, messages, DOMAIN messages))
  BY DEF RequestIsAnswered
<1>1. program = "exited" /\ errors = {}
  BY DEF RunInv, WrittenInv
<1>2. ~Unanswered /\ Control("stop") \in Range(RecordedNow)
  BY <1>1 DEF RunInv, AnsweredInv
<1>3. messages \in Seq(Thing) /\ DOMAIN messages = 1..Len(messages)
  BY SubmissionsAre DEF RunInv
<1>4. ASSUME NamesAll(called.request) PROVE Holds(session, messages, DOMAIN messages)
  <2>1. PICK k \in 0..Len(messages) : \E l \in k..Len(messages) : Delivered(k, l)
    BY <1>4 DEF RunInv, DeliveryInv
  <2>2. Holds(session, messages, 1..k) /\ k = Len(messages)
    BY <1>2, <2>1 DEF Delivered
  <2> QED
    BY <1>3, <2>2
<1> QED
  BY <1>2, <1>4

-----------------------------------------------------------------------------
(* Both of them, beside the other parts.                                   *)

LEMMA InitOrderly == Init => RunInv /\ OneDriven
<1> SUFFICES ASSUME Init PROVE RunInv /\ OneDriven
  OBVIOUS
<1>1. RunInv
  <2>1. CASE RunInit
    BY <2>1, NeverRunInv, RunAssumption DEF RunInit
  <2>2. CASE RunIdle
    <3>1. called.request.messages = <<>>
      BY <2>2 DEF RunIdle, Program, Ask
    <3>2. <<>> \in Seq(Range(<<>>))
      OBVIOUS
    <3> QED
      BY <2>2, <3>1, <3>2, NeverRunInv DEF RunIdle
  <2> QED
    BY <2>1, <2>2 DEF Init
<1>2. OneDriven
  <2>1. live = Dead /\ strays = 0
    BY DEF Init, TerminalInit, TerminalIdle, NoSession
  <2> QED
    BY <2>1 DEF OneDriven, IsSession, Dead
<1> QED
  BY <1>1, <1>2

LEMMA NextOrderly == RunInv /\ OneDriven /\ [Next]_vars => RunInv' /\ OneDriven'
<1> SUFFICES ASSUME RunInv, OneDriven, [Next]_vars PROVE RunInv' /\ OneDriven'
  OBVIOUS
<1>1. [RunNext]_runVars /\ [TerminalNext]_termVars
  BY DEF Next, vars
<1> QED
  BY <1>1, RunInvStep, NextDriven

-----------------------------------------------------------------------------
(* The theorems.                                                           *)

\* However the sessions end, and whatever the user does meanwhile, the loop never
\* drives a session while an earlier one runs.
THEOREM OneSession == TerminalInit /\ [][TerminalNext]_termVars => []OneSessionAtATime
<1>1. OneDriven => OneSessionAtATime
  BY DEF OneDriven, OneSessionAtATime
<1> QED
  BY <1>1, InitDriven, NextDriven, PTL

\* Whatever a program without its terminal is called with, whatever fails, and
\* whenever it is interrupted or killed and called again: what it writes is what it
\* records, success means that every message was answered, each message recorded
\* once and in order, and nothing that it opened stays open.
THEOREM Orderly == Spec => []SessionsAreOrderly
<1>1. RunInv /\ OneDriven => SessionsAreOrderly
  <2> SUFFICES ASSUME RunInv, OneDriven PROVE SessionsAreOrderly
    OBVIOUS
  <2>1. OutputIsRecord /\ RequestIsAnswered /\ NothingStaysOpen
    BY Written, AllAnswered, NothingOpen DEF RunInv
  <2>2. OneSessionAtATime
    BY DEF OneDriven, OneSessionAtATime
  <2> QED
    BY <2>1, <2>2 DEF SessionsAreOrderly
<1> QED
  BY <1>1, InitOrderly, NextOrderly, PTL DEF Spec

\* Whatever sessions start and end, and whatever checks outlive them: the loop and the
\* terminal hold the last switch of each answer that was made by the user or reported
\* by MetaCog, every session with MetaCog that becomes ready replaces by all those that
\* were held then, and by no other path, and none is lost to the next.
THEOREM Replaying == TerminalInit /\ [][TerminalNext]_termVars => []SwitchesSurvive
<1>1. PathsAgree => SwitchesSurvive
  <2> SUFFICES ASSUME PathsAgree PROVE SwitchesSurvive
    OBVIOUS
  <2>1. Over(switched, loopSwaps) = latest
    BY DEF PathsAgree
  <2>2. DOMAIN latest = Knows /\ \A a \in Knows : latest[a] = Known(a)
    <3>1. /\ DOMAIN Over(switched, loopSwaps) = Knows
          /\ \A a \in Knows : Over(switched, loopSwaps)[a] = Known(a)
      BY DEF Over, Knows, Known
    <3> QED
      BY <2>1, <3>1
  <2> QED
    BY <2>1, <2>2 DEF PathsAgree, SwitchesSurvive
<1> QED
  BY <1>1, InitDriven, InitAgree, NextDriven, NextPaths, PTL
=============================================================================
