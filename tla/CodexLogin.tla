----------------------------- MODULE CodexLogin -----------------------------
(***************************************************************************)
(* The sign-ins with ChatGPT (codex_login.go).  In the browser one, a      *)
(* local server may receive the code while a goroutine waits for the user  *)
(* to paste it; whichever is first wins, and the goroutine is waited for,  *)
(* because it reads the keys that the next widget needs.                   *)
(***************************************************************************)
EXTENDS Configuration

VARIABLE login

loginVars == <<login>>

\* The channels codeCh and errCh hold one value at most.
NoLogin == [pc |-> "off", code |-> FALSE, err |-> "none", paste |-> "done",
            canceled |-> FALSE, result |-> "none"]

LoginInit == login = NoLogin

BeginBrowser == login' = [NoLogin EXCEPT !.pc = "waiting", !.paste = "reading"]
BeginDevice  == login' = [NoLogin EXCEPT !.pc = "polling"]

-----------------------------------------------------------------------------
(* The handler of /auth/callback: a value that finds its channel full is   *)
(* dropped, and nobody receives what comes after the select.               *)

Callback ==
    /\ login.pc = "waiting"
    /\ \/ login' = [login EXCEPT !.code = TRUE]
       \/ login' = [login EXCEPT !.err = IF @ = "none" THEN "refused" ELSE @]
    /\ UNCHANGED configVars

-----------------------------------------------------------------------------
(* The goroutine that reads what the user pastes.                          *)

\* input returns: a code, a line that holds none, Esc or Ctrl-C.
PasteReads ==
    /\ login.paste = "reading"
    /\ \E got \in {"code", "nothing", "back", "cancelled"} : login' = [login EXCEPT !.paste = got]
    /\ UNCHANGED configVars

PasteSeesCancel ==
    /\ login.paste = "reading" /\ login.canceled
    /\ login' = [login EXCEPT !.paste = "done"]
    /\ UNCHANGED configVars

PasteHandles ==
    /\ login.paste \in {"code", "nothing", "back", "cancelled"}
    /\ login' =
         IF login.canceled THEN [login EXCEPT !.paste = "done"]
         ELSE CASE login.paste = "code"    -> [login EXCEPT !.paste = "done", !.code = TRUE]
                [] login.paste = "nothing" -> [login EXCEPT !.paste = "reading"]
                [] OTHER -> [login EXCEPT !.paste = "done",
                                          !.err = IF @ = "none" THEN login.paste ELSE @]
    /\ UNCHANGED configVars

-----------------------------------------------------------------------------
(* codexLogin.                                                             *)

\* The select: the first code, the first error, or the ten minutes are over.
Stop(result) ==
    login' = [login EXCEPT !.pc = "stopping", !.canceled = TRUE, !.code = FALSE,
                           !.err = "none", !.result = result]

Answered ==
    /\ login.pc = "waiting"
    /\ \/ login.code /\ Stop("none")
       \/ login.err # "none" /\ Stop(login.err)
       \/ Stop("timeout")
    /\ UNCHANGED configVars

\* Mutant: the goroutine is told to stop, and not waited for.
MutJoined ==
    /\ login.pc = "stopping"
    /\ login' = [login EXCEPT !.pc = IF login.result = "none" THEN "exchanging" ELSE "ended"]
    /\ UNCHANGED configVars

Joined ==
    /\ login.pc = "stopping" /\ login.paste = "done"
    /\ login' = [login EXCEPT !.pc = IF login.result = "none" THEN "exchanging" ELSE "ended"]
    /\ UNCHANGED configVars

\* saveCodexTokens, if the tokens have an access token and can be written.
SaveTokens ==
    \/ /\ login' = [login EXCEPT !.pc = "ended", !.result = "failed"]
       /\ UNCHANGED configVars
    \/ \E w \in Written :
         /\ auth' = [auth EXCEPT !["own"] = w.state]
         /\ login' = [login EXCEPT !.pc = "ended", !.result = "ok"]
         /\ UNCHANGED <<environ, env, scopes, overrides, config, workspace>>

EndLogin(result) ==
    /\ login' = [login EXCEPT !.pc = "ended", !.result = result]
    /\ UNCHANGED configVars

\* exchangeCode while busy reads the keys, of which only Ctrl-C counts.
Exchanged ==
    /\ login.pc = "exchanging"
    /\ SaveTokens \/ EndLogin("failed") \/ EndLogin("cancelled")

\* codexDeviceLogin: the answers "not yet" change nothing; in the end the code is
\* granted and exchanged, refused, out of date, or the user cancels.
Granted ==
    /\ login.pc = "polling"
    /\ SaveTokens \/ EndLogin("failed") \/ EndLogin("cancelled")

LoginStep ==
    \/ Callback \/ PasteReads \/ PasteSeesCancel \/ PasteHandles
    \/ Answered \/ Joined \/ Exchanged \/ Granted
=============================================================================
