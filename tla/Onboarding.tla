----------------------------- MODULE Onboarding -----------------------------
(***************************************************************************)
(* A process from its start to its end, as far as its settings go: Run     *)
(* loads the files into the environment, the terminal asks for a           *)
(* connection where there is none (runSetupWizard), sessions are started,  *)
(* and the user changes the settings between them.  Processes follow each  *)
(* other over the same files, and may die.                                 *)
(***************************************************************************)
EXTENDS CodexLogin

CONSTANTS
    Offered,        \* the entries of the catalog the user considers
    Keys, Models, Servers,      \* what the user types
    Places,         \* environments and contents of .env that processes start with
    MaxEvents, MaxDetours   \* processes and saved settings; steps back in wizards

\* providerCatalog, and the name of the key in the environment.
Catalog ==
    [chatgpt     |-> [provider |-> "openai_codex", base |-> ""],
     commandcode |-> [provider |-> "openai", base |-> "commandcode"],
     openai      |-> [provider |-> "openai", base |-> ""],
     openrouter  |-> [provider |-> "openrouter", base |-> ""],
     fireworks   |-> [provider |-> "fireworks", base |-> ""],
     ollama      |-> [provider |-> "ollama", base |-> ""],
     custom      |-> [provider |-> "openai", base |-> ""]]

ASSUME OnboardingAssumption ==
    /\ Offered \subseteq DOMAIN Catalog
    /\ "" \notin Keys \cup Models \cup Servers
    /\ \A place \in Places : IsEnvironment(place.environ) /\ IsEnvironment(place.workspace)
    /\ MaxEvents \in Nat /\ MaxDetours \in Nat

VARIABLES
    pc,         \* where the process is
    wiz,        \* the locals of runSetupWizard and of its caller
    session,    \* the connection the running session uses
    chosen,     \* history: the connection last accepted by a check and saved,
                \*   for this process and in the file
    events, detours     \* what the bounds count

onboardingVars == <<configVars, login, pc, wiz, session, chosen, events,
                    detours>>

NoConn == [id |-> "none", base |-> "", key |-> "", model |-> "", auth |-> ""]
NoWizard == [step |-> 0, conn |-> NoConn, accepted |-> FALSE,
             caller |-> "none"]

\* The settings as the process sees them: tuiLoop.spec.getenv.
Sees == OverlayEnv(env, overrides)

OnboardingInit ==
    /\ \E place \in Places : environ = place.environ /\ workspace = place.workspace
    /\ env = environ
    /\ scopes = <<>> /\ overrides = <<>> /\ config = <<>>
    /\ auth = [own |-> "none", cli |-> "none"]
    /\ LoginInit
    /\ pc = "off" /\ wiz = NoWizard /\ session = NoConnection
    /\ chosen = [live |-> NoConnection, file |-> NoConnection]
    /\ events = 0 /\ detours = 0

-----------------------------------------------------------------------------
(* Run: the files, the first look for a connection, and the end.           *)

OnlyAt(next) ==
    /\ pc' = next
    /\ UNCHANGED <<login, wiz, session, chosen, events, detours>>

\* `heu setup' runs the wizard before it loads anything.
Start ==
    /\ pc = "off" /\ events < MaxEvents
    /\ events' = events + 1
    /\ \/ pc' = "loading" /\ wiz' = NoWizard
       \/ pc' = "wizard" /\ wiz' = [NoWizard EXCEPT !.caller = "setup"]
    /\ UNCHANGED <<configVars, login, session, chosen, detours>>

LoadUserConfig ==
    /\ pc = "loading" /\ scopes = <<>>
    /\ \E s \in Loads(env, config, {}) : env' = s.env /\ scopes' = <<s.changes>>
    /\ UNCHANGED <<environ, overrides, config, workspace, auth>>
    /\ OnlyAt("loading")

LoadWorkspace ==
    /\ pc = "loading" /\ Len(scopes) = 1
    /\ \E s \in Loads(env, workspace, NamesOf(scopes[1])) :
         env' = s.env /\ scopes' = Append(scopes, s.changes)
    /\ UNCHANGED <<environ, overrides, config, workspace, auth>>
    /\ OnlyAt("probing")

\* A variable that cannot be set: those of its file that were are undone, and Run ends.
LoadFails ==
    /\ pc = "loading"
    /\ LET values      == IF scopes = <<>> THEN config ELSE workspace
           overridable == IF scopes = <<>> THEN {} ELSE NamesOf(scopes[1])
       IN  \E names \in SUBSET Assigns(env, DOMAIN values, overridable) :
             LET s == Lines(env, values, names) IN env' = Closed(s.env, s.changes)
    /\ UNCHANGED <<environ, scopes, overrides, config, workspace, auth>>
    /\ OnlyAt("closing")

\* The deferred calls of Run, last one first.
CloseScope ==
    /\ pc = "closing" /\ scopes # <<>>
    /\ env' = Closed(env, scopes[Len(scopes)])
    /\ scopes' = SubSeq(scopes, 1, Len(scopes) - 1)
    /\ UNCHANGED <<environ, overrides, config, workspace, auth>>
    /\ OnlyAt("closing")

Close ==
    /\ pc = "closing" /\ scopes = <<>>
    /\ overrides' = <<>>
    /\ chosen' = [chosen EXCEPT !.live = NoConnection]
    /\ pc' = "off"
    /\ UNCHANGED <<environ, env, scopes, config, workspace, auth, login, wiz, session, events,
                   detours>>

\* The process dies; the next one has the environment it is given.
Die ==
    /\ pc # "off"
    /\ env' = environ /\ scopes' = <<>> /\ overrides' = <<>>
    /\ session' = NoConnection /\ login' = NoLogin /\ wiz' = NoWizard
    /\ chosen' = [chosen EXCEPT !.live = NoConnection]
    /\ pc' = "off"
    /\ UNCHANGED <<environ, config, workspace, auth, events, detours>>

\* The access tokens of a sign-in run out.
Expire ==
    /\ \E file \in DOMAIN auth : auth[file] = "fresh" /\ auth' = [auth EXCEPT ![file] = "stale"]
    /\ UNCHANGED <<environ, env, scopes, overrides, config, workspace, login, pc, wiz,
                   session, chosen, events, detours>>

\* runTUI asks for a connection at once when the settings do not give a client.
Probe ==
    /\ pc = "probing"
    /\ \E c \in Clients(Resolved(Sees)) :
         /\ auth' = c.auth
         /\ IF c.ok THEN pc' = "starting" /\ wiz' = NoWizard
            ELSE pc' = "wizard" /\ wiz' = [NoWizard EXCEPT !.caller = "probe"]
    /\ UNCHANGED <<environ, env, scopes, overrides, config, workspace, login, session,
                   chosen, events, detours>>

\* runSession resolves again; without a client the terminal has no session, and
\* the user may still change the settings.
StartSession ==
    /\ pc = "starting"
    /\ \E c \in Clients(Resolved(Sees)) :
         /\ auth' = c.auth
         /\ session' = IF c.ok THEN Resolved(Sees) ELSE NoConnection
    /\ pc' = "session"
    /\ UNCHANGED <<environ, env, scopes, overrides, config, workspace, login, wiz, chosen,
                   events, detours>>

Quit ==
    /\ pc = "session"
    /\ session' = NoConnection
    /\ pc' = "closing"
    /\ UNCHANGED <<configVars, login, wiz, chosen, events, detours>>

-----------------------------------------------------------------------------
(* runSetupWizard.                                                         *)

\* From the judge back to the model: its check would only be shown again.
NextStep(step, err) ==
    CASE err = "back" /\ step = 4 -> 2
      [] err = "back" /\ step # 4 -> IF step > 0 THEN step - 1 ELSE 0
      [] err = "retry" -> 1
      [] OTHER         -> step + 1

At(step) ==
    pc = "wizard" /\ wiz.step = step /\ login.pc = "off"

Detour == detours < MaxDetours /\ detours' = detours + 1

\* A step of the wizard returns, with `w' as its effect on the locals.
Goes(w, err) ==
    /\ wiz' = [w EXCEPT !.step = NextStep(wiz.step, err)]
    /\ IF err = "none" THEN detours' = detours ELSE Detour

Unsaved == UNCHANGED <<environ, env, scopes, overrides, config, workspace, session, chosen,
                       events>>

ChooseProvider ==
    /\ At(0)
    /\ \E id \in Offered :
         Goes([wiz EXCEPT !.conn = [NoConn EXCEPT !.id = id, !.base = Catalog[id].base]], "none")
    /\ Unsaved /\ UNCHANGED <<auth, login, pc>>

\* Esc at the first step and Ctrl-C at any: a caller that has no connection ends.
CancelWizard ==
    /\ pc = "wizard" /\ login.pc = "off"
    /\ pc' = IF wiz.caller = "login" THEN "starting" ELSE "closing"
    /\ wiz' = NoWizard
    /\ Unsaved /\ UNCHANGED <<auth, login, detours>>

\* An entry with a key: the one in the environment, or one that is pasted.
UseKey ==
    /\ At(1) /\ wiz.conn.id \notin {"chatgpt", "ollama", "custom"}
    /\ \/ \E key \in Keys \cup ({Getenv(Sees, KeyName(wiz.conn.id))} \ {""}) :
            Goes([wiz EXCEPT !.conn.key = key], "none")
       \/ Goes(wiz, "back")
    /\ Unsaved /\ UNCHANGED <<auth, login, pc>>

UseServer ==
    /\ At(1) /\ wiz.conn.id = "custom"
    /\ \/ \E url \in Servers, key \in Keys \cup {""} :
            Goes([wiz EXCEPT !.conn.base = url, !.conn.key = key], "none")
       \/ Goes(wiz, "back")
    /\ Unsaved /\ UNCHANGED <<auth, login, pc>>

\* Ollama is up, or the user waits no longer.
UseOllama ==
    /\ At(1) /\ wiz.conn.id = "ollama"
    /\ \E err \in {"none", "back"} : Goes(wiz, err)
    /\ Unsaved /\ UNCHANGED <<auth, login, pc>>

UseExistingLogin ==
    /\ At(1) /\ wiz.conn.id = "chatgpt"
    /\ \/ ExistingLogin # "" /\ Goes([wiz EXCEPT !.conn.auth = ExistingLogin], "none")
       \/ Goes(wiz, "back")
    /\ Unsaved /\ UNCHANGED <<auth, login, pc>>

SignIn ==
    /\ At(1) /\ wiz.conn.id = "chatgpt"
    /\ BeginBrowser \/ BeginDevice
    /\ Unsaved /\ UNCHANGED <<auth, pc, wiz, detours>>

\* authenticate shows the choice again unless the sign-in worked or was canceled.
SignedIn ==
    /\ pc = "wizard" /\ login.pc = "ended"
    /\ login' = [NoLogin EXCEPT !.paste = login.paste]
    /\ CASE login.result = "ok" ->
              pc' = pc /\ Goes([wiz EXCEPT !.conn.auth = "own"], "none")
         [] login.result = "cancelled" ->
              /\ pc' = IF wiz.caller = "login" THEN "starting" ELSE "closing"
              /\ wiz' = NoWizard /\ detours' = detours
         [] OTHER -> pc' = pc /\ wiz' = wiz /\ Detour
    /\ Unsaved /\ UNCHANGED auth

\* From the list, which may have failed to load, or typed.
ChooseModel ==
    /\ At(2)
    /\ \/ \E m \in Models : Goes([wiz EXCEPT !.conn.model = m], "none")
       \/ Goes([wiz EXCEPT !.conn.model = ""], "back")
    /\ Unsaved /\ UNCHANGED <<auth, login, pc>>

\* What checkConnection sends its request with.
Checked(conn) ==
    Connection(Catalog[conn.id].provider, conn.base, conn.model, conn.key,
               IF conn.auth # "" THEN conn.auth ELSE AuthFileOf(Sees))

Verify ==
    /\ At(3)
    /\ \E c \in Clients(Checked(wiz.conn)) :
         /\ auth' = c.auth
         /\ \/ c.ok /\ Goes([wiz EXCEPT !.accepted = TRUE], "none")
            \/ Goes([wiz EXCEPT !.accepted = FALSE], "none")    \* save anyway
            \/ Goes(wiz, "back")
            \/ wiz.conn.id \notin {"chatgpt", "ollama"} /\ Goes(wiz, "retry")
    /\ Unsaved /\ UNCHANGED <<login, pc>>

\* The settings of the judge are left out.
ChooseJudge ==
    /\ At(4)
    /\ \E err \in {"none", "back"} : Goes(wiz, err)
    /\ Unsaved /\ UNCHANGED <<auth, login, pc>>

-----------------------------------------------------------------------------
(* Settings that are saved.                                                *)

\* What /logout removes, and the wizard writes.
Cleared == {Ours(s) : s \in {"provider", "model", "base", "key"}} \cup {AuthName}

ConnectionValue(conn, name) ==
    CASE name = Ours("provider") -> Catalog[conn.id].provider
      [] name = Ours("model")    -> conn.model
      [] name = Ours("base")     -> conn.base
      [] name = Ours("key")      -> conn.key
      [] name = AuthName         -> conn.auth

\* Mutant: what is empty is left as it is.
MutConnectionValues(conn) ==
    [n \in {m \in Cleared : ConnectionValue(conn, m) # ""} |-> ConnectionValue(conn, n)]

ConnectionValues(conn) == [n \in Cleared |-> ConnectionValue(conn, n)]

\* The file is written, or is not, or only some of it is; `ok' says which.
WriteConfig(values, ok) ==
    /\ events < MaxEvents /\ events' = events + 1
    /\ IF ok THEN config' = Merged(values) ELSE config' \in {config} \cup Torn(Merged(values))

Accepted(w) == IF w.accepted THEN Checked(w.conn) ELSE NoConnection

\* The wizard ends; without an error its caller takes the values over.
SaveSetup ==
    /\ pc = "wizard" /\ wiz.step = 5
    /\ \E ok \in BOOLEAN :
         LET values == ConnectionValues(wiz.conn)
         IN  /\ WriteConfig(values, ok)
             /\ overrides' = IF ok /\ wiz.caller # "setup" THEN OverlayEnv(overrides, values)
                             ELSE overrides
             /\ chosen' =
                  [live |-> IF ~ok \/ wiz.caller = "setup" THEN chosen.live ELSE Accepted(wiz),
                   file |-> IF ok THEN Accepted(wiz) ELSE NoConnection]
             /\ pc' = IF wiz.caller = "login" \/ (ok /\ wiz.caller = "probe")
                      THEN "starting" ELSE "closing"
    /\ wiz' = NoWizard
    /\ UNCHANGED <<environ, env, scopes, workspace, auth, login, session, detours>>

\* tuiLoop.apply: the values hold for this process whether they can be saved or not.
ApplyValues(values) ==
    /\ overrides' = OverlayEnv(overrides, values)
    /\ \E ok \in BOOLEAN :
         /\ WriteConfig(values, ok)
         /\ chosen' =
              [live |-> IF chosen.live = NoConnection THEN NoConnection
                        ELSE [chosen.live EXCEPT !.model = values[Ours("model")]],
               file |-> IF ~ok \/ chosen.file = NoConnection THEN NoConnection
                        ELSE [chosen.file EXCEPT !.model = values[Ours("model")]]]

\* /model; the session has stopped meanwhile.
PickModel ==
    /\ pc = "session"
    /\ \E m \in Models : ApplyValues([n \in {Ours("model")} |-> m])
    /\ session' = NoConnection /\ pc' = "starting"
    /\ UNCHANGED <<environ, env, scopes, workspace, auth, login, wiz, detours>>

\* /login
LogIn ==
    /\ pc = "session"
    /\ session' = NoConnection
    /\ pc' = "wizard" /\ wiz' = [NoWizard EXCEPT !.caller = "login"]
    /\ UNCHANGED <<configVars, login, chosen, events, detours>>

\* /logout: the settings and the sign-in are removed, and the wizard follows.
LogOut ==
    /\ pc = "session"
    /\ LET values == [n \in Cleared |-> ""]
       IN  /\ overrides' = OverlayEnv(overrides, values)
           /\ \E ok \in BOOLEAN : WriteConfig(values, ok)
    /\ auth' = [auth EXCEPT !["own"] = "none"]
    /\ chosen' = [live |-> NoConnection, file |-> NoConnection]
    /\ session' = NoConnection
    /\ pc' = "wizard" /\ wiz' = [NoWizard EXCEPT !.caller = "login"]
    /\ UNCHANGED <<environ, env, scopes, workspace, login, detours>>

SignInStep ==
    /\ login.pc \notin {"off", "ended"}
    /\ LoginStep
    /\ UNCHANGED <<pc, wiz, session, chosen, events, detours>>

OnboardingNext ==
    \/ Start \/ LoadUserConfig \/ LoadWorkspace \/ LoadFails
    \/ CloseScope \/ Close \/ Die \/ Expire \/ Probe \/ StartSession \/ Quit
    \/ ChooseProvider \/ CancelWizard \/ UseKey \/ UseServer \/ UseOllama
    \/ UseExistingLogin \/ SignIn \/ SignedIn \/ SignInStep
    \/ ChooseModel \/ Verify \/ ChooseJudge \/ SaveSetup
    \/ PickModel \/ LogIn \/ LogOut

-----------------------------------------------------------------------------
(* Properties.                                                             *)

\* A legacy variable that stands in where the user chose the default.
LegacyStandsIn(e) == \E s \in {"base", "key", "model", "provider"} : Getenv(e, Legacy(s)) # ""

SettingNames == Cleared \cup {Legacy(s) : s \in {"provider", "model", "base", "key"}}

\* The connection that a check has accepted is the one that sessions use: those of
\* the process that asked for it, and those of later processes unless their
\* environment or workspace name settings of their own.
SetupTakesEffect ==
    session # NoConnection =>
        /\ chosen.live # NoConnection /\ ~LegacyStandsIn(env) => session = chosen.live
        /\ /\ overrides = <<>> /\ chosen.file # NoConnection
           /\ SettingNames \cap (DOMAIN environ \cup DOMAIN workspace) = {}
           => session = chosen.file

\* When Run has returned the environment is the one that it was called in.
EnvironmentIsRestored == pc = "off" => env = environ

\* The keys have one reader: a widget is shown only when the goroutine that waits
\* for a pasted code has returned.
KeysHaveOneReader ==
    login.paste = "reading" => login.pc \in {"waiting", "stopping"}
=============================================================================
