--------------------------- MODULE TerminalSession ---------------------------
(***************************************************************************)
(* The loop of the terminal (src/cmd/internal/agentrunner/tui_session.go): *)
(* it drives one agent session after another, each in a goroutine of its   *)
(* own, and turns keys into messages, stops and restarts.  A conversation  *)
(* is a number; 0 stands for one that is still to be created.  The switches *)
(* between thought paths are maps from an answer to the path that replaces *)
(* it, kept in three places: by the loop, by the terminal for what MetaCog *)
(* did on its own, and by the MetaCog adapter of the running session.      *)
(***************************************************************************)
EXTENDS Naturals, FiniteSets

CONSTANTS Requested,   \* Request.SessionID: the conversation asked for, or 0
          Answer,      \* answers that MetaCog checks in the background
          Path,        \* paths that may replace them
          MaxKeys,     \* what the user types
          MaxDrives    \* sessions that are started

VARIABLES
    at,         \* where the loop is: "between" sessions, in "drive", "ended"
    next,       \* the nextSession of run, while between sessions
    drives,     \* the sessions started so far
    live,       \* the goroutine of runSession
    strays,     \* goroutines of earlier sessions that the loop did not wait for
    ready,      \* a handle is in the channel ready
    done,       \* the result in the channel done, or "none"
    running, handle, currentID, queued, pending,   \* locals of drive
    force,      \* forceStop: "off" or "armed"
    deferred,   \* tuiLoop.deferred
    loopSwaps,      \* tuiLoop.swaps
    working,    \* tui.working
    switched,   \* tui.switched
    listed,     \* the answers whose paths tui.paths has shown
    checks,     \* where the background check of each answer is
    latest,     \* history: the last switch of each answer that the terminal has heard of
    missed,     \* history: the answers whose switch was reported by a check of an earlier
                \* session, after the session that runs was given the switches
    metacog,    \* MetaCog is configured
    chosen,     \* the conversation that the user is in
    keys        \* keys pressed

sessionVars == <<live, strays, ready, done>>
driveVars   == <<running, handle, currentID, queued, pending, force>>
historyVars == <<latest, missed>>
pathVars    == <<loopSwaps, switched, listed, checks, historyVars>>
loopVars    == <<at, next, drives, deferred, metacog, chosen>>
termVars    == <<sessionVars, driveVars, pathVars, loopVars, working, keys>>

None == [quit |-> FALSE, id |-> 0, message |-> FALSE, after |-> "none"]
NoNext == [None EXCEPT !.after = "no next"]

To(id, after) == [None EXCEPT !.id = id, !.after = after]
Quit == [None EXCEPT !.quit = TRUE]

\* A map with the entries of m, which win, and those of n.
Over(m, n) == [a \in DOMAIN m \cup DOMAIN n |-> IF a \in DOMAIN m THEN m[a] ELSE n[a]]

\* A map in which p replaces the answer a.
Replace(m, a, p) == [b \in DOMAIN m \cup {a} |-> IF b = a THEN p ELSE m[b]]

Dead == [phase |-> "ended", conv |-> 0, ctx |-> "live", stop |-> FALSE, inbox |-> 0,
         metacog |-> FALSE, paths |-> <<>>]

\* Before the first session.
NoSession ==
    /\ drives = 0
    /\ \E asked \in BOOLEAN : next = [To(Requested, "none") EXCEPT !.message = asked]
    /\ live = Dead /\ strays = 0 /\ ready = FALSE /\ done = "none"
    /\ running = FALSE /\ handle = FALSE /\ currentID = 0 /\ queued = 0
    /\ pending = NoNext /\ force = "off" /\ deferred = NoNext
    /\ loopSwaps = <<>> /\ switched = <<>> /\ listed = {}
    /\ checks = [a \in Answer |-> [at |-> "none", in |-> 0, to |-> CHOOSE p \in Path : TRUE]]
    /\ latest = <<>> /\ missed = {}
    /\ working = FALSE /\ metacog = TRUE /\ chosen = Requested /\ keys = 0

TerminalInit == at = "between" /\ NoSession

\* An earlier one, and those that this loop has created.
Conversations == 1..(drives + 1)

-----------------------------------------------------------------------------
(* run: between two sessions.                                              *)

\* The pickers that change the settings or the conversation run while there is
\* no session; the user may back out of each.
After(n, id, on) ==
    CASE n.after = "resume"  -> id \in Conversations \cup {n.id} /\ on = metacog
      [] n.after = "metacog" -> id = n.id
      [] OTHER               -> id = n.id /\ on = metacog

StartDrive ==
    /\ at = "between" /\ ~next.quit /\ drives < MaxDrives
    /\ \E id \in Conversations \cup {0}, on \in BOOLEAN :
         /\ After(next, id, on)
         /\ metacog' = on
         /\ live' = [Dead EXCEPT !.phase = "starting", !.conv = id, !.metacog = on,
                                 !.inbox = IF next.message THEN 1 ELSE 0]
         /\ currentID' = id
         /\ chosen' = IF next.after = "resume" /\ id # next.id THEN id ELSE chosen
    /\ at' = "drive" /\ drives' = drives + 1 /\ next' = NoNext
    /\ ready' = FALSE /\ done' = "none"
    /\ running' = TRUE /\ handle' = FALSE /\ queued' = 0 /\ pending' = NoNext
    /\ force' = "off"
    /\ UNCHANGED <<strays, deferred, pathVars, working, keys>>

QuitLoop ==
    /\ at = "between" /\ next.quit
    /\ at' = "ended"
    /\ UNCHANGED <<sessionVars, driveVars, pathVars, next, drives, deferred, metacog,
                   chosen, working, keys>>

\* drive returns n.
Return(n) ==
    /\ at' = "between" /\ next' = n
    /\ strays' = IF live.phase = "ended" THEN strays ELSE strays + 1
    /\ pending' = NoNext

\* stopThen: n follows at once where nothing runs, else the session is asked to
\* stop, and is canceled when it has not stopped in time.
StopThen(n) ==
    IF ~running THEN Return(n) /\ UNCHANGED <<live, force>>
    ELSE /\ pending' = n
         /\ live' = IF handle THEN [live EXCEPT !.stop = TRUE] ELSE live
         /\ force' = "armed"
         /\ UNCHANGED <<at, next, strays>>

-----------------------------------------------------------------------------
(* runSession, and the checks of its MetaCog adapter.                      *)

NewID == drives + 1

Opens ==
    /\ live.phase = "starting"
    /\ live' = [live EXCEPT !.phase = "running", !.conv = IF @ = 0 THEN NewID ELSE @]
    /\ ready' = TRUE
    /\ UNCHANGED <<strays, done, driveVars, pathVars, loopVars, working, keys>>

\* It fails, or it obeys a stop or a canceled context.
Ends(result) ==
    /\ live.phase \in {"starting", "running"}
    /\ result = "clean" => live.stop
    /\ live' = [live EXCEPT !.phase = "ended", !.inbox = 0, !.stop = FALSE, !.ctx = "live"]
    /\ done' = result
    /\ UNCHANGED <<strays, ready, driveVars, pathVars, loopVars, working, keys>>

\* The observers see a message that is recorded, or an answer that ends the work;
\* an answer of the model may start a check in the background.
Works ==
    /\ live.phase = "running" /\ live.inbox > 0 /\ ~live.stop
    /\ live' = [live EXCEPT !.inbox = @ - 1]
    /\ working' = TRUE
    /\ UNCHANGED <<strays, ready, done, driveVars, pathVars, loopVars, keys>>

Answers(a) ==
    /\ live.phase = "running" /\ working
    /\ checks' = [checks EXCEPT ![a] =
                    IF live.metacog /\ @.at = "none"
                    THEN [@ EXCEPT !.at = "runs", !.in = drives] ELSE @]
    /\ working' = FALSE
    /\ UNCHANGED <<sessionVars, driveVars, loopSwaps, switched, listed, historyVars, loopVars,
                   keys>>

\* A check keeps the answer, and its paths are listed.
CheckKeeps(a) ==
    /\ checks[a].at = "runs"
    /\ checks' = [checks EXCEPT ![a].at = "reported"]
    /\ listed' = {a}
    /\ UNCHANGED <<sessionVars, driveVars, loopSwaps, switched, historyVars, loopVars,
                   working, keys>>

\* A check switches to another path in the adapter of its session, dead or alive,
\* and reports that afterwards.
CheckSwitches(a, p) ==
    /\ checks[a].at = "runs"
    /\ live' = IF checks[a].in = drives THEN [live EXCEPT !.paths = Replace(@, a, p)] ELSE live
    /\ checks' = [checks EXCEPT ![a].at = "reports", ![a].to = p]
    /\ UNCHANGED <<strays, ready, done, driveVars, loopSwaps, switched, listed, historyVars,
                   loopVars, working, keys>>

\* recordPaths.  Nothing tells a session of the switch of another one.
RecordPaths(a) ==
    /\ checks[a].at = "reports"
    /\ latest' = Replace(latest, a, checks[a].to)
    /\ missed' = IF handle /\ checks[a].in # drives THEN missed \cup {a} ELSE missed
    /\ checks' = [checks EXCEPT ![a].at = "reported"]
    /\ switched' = Replace(switched, a, checks[a].to)
    /\ listed' = {a}
    /\ UNCHANGED <<sessionVars, driveVars, loopSwaps, loopVars, working, keys>>

-----------------------------------------------------------------------------
(* drive.                                                                  *)

\* Mutant: the switches of MetaCog are taken when the session has been given those of the loop.
MutGivenSwitches == loopSwaps

\* The switches that a new session is given: those of MetaCog are taken first.
GivenSwitches == Over(switched, loopSwaps)

\* The switches reported so far are applied to the adapter of the new session, and
\* the messages that waited for it are submitted.
Ready ==
    /\ at = "drive" /\ ready
    /\ ready' = FALSE /\ handle' = TRUE /\ currentID' = live.conv
    /\ chosen' = IF chosen = 0 THEN live.conv ELSE chosen
    /\ loopSwaps' = Over(switched, loopSwaps) /\ switched' = <<>>
    /\ live' = [live EXCEPT !.inbox = @ + queued,
                            !.paths = IF live.metacog THEN Over(GivenSwitches, @) ELSE @]
    /\ queued' = 0 /\ missed' = {}
    /\ UNCHANGED <<strays, done, running, pending, force, listed, checks, latest, at, next,
                   drives, deferred, metacog, working, keys>>

\* A session has ended: on request, for a restart that waited for it, because the
\* user has to sign in again, or by an error that leaves the terminal usable.
Done ==
    /\ at = "drive" /\ done # "none"
    /\ done' = "none" /\ running' = FALSE /\ handle' = FALSE /\ working' = FALSE
    /\ CASE pending # NoNext  -> Return(pending) /\ deferred' = deferred
         [] pending = NoNext /\ deferred # NoNext
                              -> Return(deferred) /\ deferred' = NoNext
         [] pending = NoNext /\ deferred = NoNext /\ done = "auth"
                              -> Return(To(currentID, "login")) /\ deferred' = deferred
         [] OTHER             -> UNCHANGED <<at, next, strays, pending, deferred>>
    /\ UNCHANGED <<live, ready, currentID, queued, force, pathVars, drives, metacog, chosen,
                   keys>>

\* Mutant: a session that does not stop is left alone.
MutForceStop == force = "armed" /\ force' = "off" /\ UNCHANGED live

ForceStop ==
    /\ force = "armed"
    /\ force' = "off" /\ live' = [live EXCEPT !.ctx = "canceled"]

TimeIsUp ==
    /\ at = "drive" /\ ForceStop
    /\ UNCHANGED <<strays, ready, done, running, handle, currentID, queued, pending,
                   pathVars, loopVars, working, keys>>

\* The restart that waited for the turn to finish.
Tick ==
    /\ at = "drive" /\ deferred # NoNext /\ pending = NoNext /\ ~working
    /\ StopThen(deferred) /\ deferred' = NoNext
    /\ UNCHANGED <<ready, done, running, handle, currentID, queued, pathVars, drives, metacog,
                   chosen, working, keys>>

Key ==
    /\ at = "drive" /\ keys < MaxKeys
    /\ keys' = keys + 1

Send ==
    /\ Key
    /\ CASE ~running -> /\ Return([To(currentID, "none") EXCEPT !.message = TRUE])
                        /\ UNCHANGED <<live, queued>>
         [] running /\ ~handle -> /\ queued' = queued + 1
                                  /\ UNCHANGED <<at, next, strays, live, pending>>
         [] OTHER -> /\ live' = [live EXCEPT !.inbox = @ + 1]
                     /\ UNCHANGED <<at, next, strays, queued, pending>>
    /\ UNCHANGED <<ready, done, running, handle, currentID, force, pathVars, drives, deferred,
                   metacog, chosen, working>>

Busy == running /\ working

\* A key or command that stops the session for n.
Stop(n) ==
    /\ Key /\ StopThen(n)
    /\ UNCHANGED <<ready, done, running, handle, currentID, queued, pathVars, drives,
                   metacog, working>>

InterruptKey == Busy /\ handle /\ Stop(To(currentID, "none")) /\ UNCHANGED <<deferred, chosen>>

QuitKey == Stop(Quit) /\ UNCHANGED <<deferred, chosen>>

\* The conversation that a command is about.
CommandID == IF handle THEN live.conv ELSE Requested

NewCommand == ~Busy /\ Stop(None) /\ chosen' = 0 /\ UNCHANGED deferred

Command(name) ==
    /\ ~Busy /\ Stop(To(CommandID, name))
    /\ UNCHANGED <<deferred, chosen>>

\* /metacog waits for a busy turn.
MetaCogCommand ==
    \/ Command("metacog")
    \/ /\ Busy /\ Key /\ deferred' = To(CommandID, "metacog")
       /\ UNCHANGED <<sessionVars, driveVars, pathVars, at, next, drives, metacog, chosen,
                      working>>

\* The switches that MetaCog made on its own come first, so that they do not
\* replace a later one of the user.
Merge(a, p) == loopSwaps' = Replace(Over(switched, loopSwaps), a, p) /\ switched' = <<>>

ExplorePaths(a, p) ==
    /\ Key /\ ~Busy /\ a \in listed
    /\ Merge(a, p) /\ latest' = Replace(latest, a, p) /\ missed' = missed \ {a}
    /\ live' = IF handle /\ live.metacog THEN [live EXCEPT !.paths = Replace(@, a, p)]
               ELSE live
    /\ UNCHANGED <<strays, ready, done, driveVars, listed, checks, loopVars, working>>

\* The context of the program is canceled, and the loop sees it.
HangUp ==
    /\ at = "drive" /\ Return(Quit)
    /\ live' = [live EXCEPT !.ctx = "canceled"]
    /\ UNCHANGED <<ready, done, running, handle, currentID, queued, force, pathVars, drives,
                   deferred, metacog, chosen, working, keys>>

-----------------------------------------------------------------------------
SessionStep ==
    \/ Opens \/ Works
    \/ \E result \in {"clean", "error", "auth"} : Ends(result)
    \/ \E a \in Answer : Answers(a) \/ CheckKeeps(a) \/ RecordPaths(a)
    \/ \E a \in Answer, p \in Path : CheckSwitches(a, p)

KeyStep ==
    \/ Send \/ InterruptKey \/ QuitKey \/ NewCommand \/ MetaCogCommand
    \/ Command("model") \/ Command("login") \/ Command("resume")
    \/ \E a \in Answer, p \in Path : ExplorePaths(a, p)

TerminalNext ==
    \/ StartDrive \/ QuitLoop \/ Ready \/ Done \/ TimeIsUp \/ Tick \/ HangUp
    \/ SessionStep \/ KeyStep

\* The loop takes what its channels hold, time passes, and a session ends once
\* its context is canceled; nothing says that it obeys a stop.
TerminalFairness ==
    /\ WF_termVars(StartDrive) /\ WF_termVars(Ready) /\ WF_termVars(Done)
    /\ WF_termVars(TimeIsUp)
    /\ WF_termVars(live.ctx = "canceled" /\ Ends("error"))

-----------------------------------------------------------------------------
(* Properties.                                                             *)

\* While the loop drives a session, no session that it drove before still runs:
\* two of them would record one conversation at the same time.
OneSessionAtATime == at = "drive" => strays = 0

\* A switch of paths outlives its session, and the later of two switches wins: the
\* session that runs, if it has MetaCog, replaces every answer by the path of the last
\* switch that the terminal has heard of, and nothing else but an answer whose switch
\* is about to be reported; and the next session will be given all those switches.
\* One switch has to wait for the next session: that of a check which outlives its
\* session and reports after the session that runs was given the switches.
SwitchesSurvive ==
    /\ Over(switched, loopSwaps) = latest
    /\ handle /\ live.metacog =>
          /\ \A a \in DOMAIN latest \ missed :
                a \in DOMAIN live.paths /\ live.paths[a] = latest[a]
          /\ \A a \in DOMAIN live.paths : a \in DOMAIN latest \/ checks[a].at = "reports"
=============================================================================
