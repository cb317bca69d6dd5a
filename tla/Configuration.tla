---------------------------- MODULE Configuration ----------------------------
(***************************************************************************)
(* Where the program takes its settings from: the environment, which the   *)
(* user's config.env and the workspace's .env are loaded into for as long  *)
(* as Run lasts; the choices of this process, laid over it; and the files  *)
(* with the sign-ins of Codex.  From these, the connection of a session.   *)
(*                                                                         *)
(* An environment is a function from the names that are present, pairs of  *)
(* a prefix and the rest, to values; "" is the empty value.                *)
(***************************************************************************)
EXTENDS Naturals, Sequences, FiniteSets, SequencesExt

Ours(s)    == <<"HEURISTIC", s>>
Legacy(s)  == <<"UNREAL_HARNESS", s>>
KeyName(p) == <<"API_KEY", p>>
AuthName   == <<"OPENAI_CODEX", "auth_file">>
Proxy      == <<"SANDBOX_EGRESS", "proxy">>
HTTPS      == <<"HTTPS", "proxy">>

VARIABLES
    environ,    \* the environment the process was started with
    env,        \* the environment of the process
    scopes,     \* the changes made by loading the user's and the workspace's file
    overrides,  \* tuiLoop.overrides
    config,     \* config.env
    workspace,  \* the .env of the workspace
    auth        \* the files with sign-ins, of Heuristic and of the Codex CLI

configVars == <<environ, env, scopes, overrides, config, workspace, auth>>

-----------------------------------------------------------------------------
(* The environment.                                                        *)

Getenv(e, name) == IF name \in DOMAIN e THEN e[name] ELSE ""

LookupEnv(e, s) == IF Getenv(e, Ours(s)) # "" THEN Getenv(e, Ours(s)) ELSE Getenv(e, Legacy(s))

IsEnvironment(e) == IsFiniteSet(DOMAIN e) /\ e = [n \in DOMAIN e |-> e[n]]

OverlayEnv(e, values) ==
    [n \in DOMAIN e \cup DOMAIN values |-> IF n \in DOMAIN values THEN values[n] ELSE e[n]]

With(e, name, value) == [n \in DOMAIN e \cup {name} |-> IF n = name THEN value ELSE e[n]]

Without(e, name) == [n \in DOMAIN e \ {name} |-> e[n]]

NamesOf(changes) == {changes[i].name : i \in DOMAIN changes}

\* What a scope remembers of a variable before it is set.
Change(e, name) == [name |-> name, present |-> name \in DOMAIN e, value |-> Getenv(e, name)]

Set(scope, name, value) ==
    [env |-> With(scope.env, name, value),
     changes |-> Append(scope.changes, Change(scope.env, name))]

Restore(e, change) ==
    IF change.present THEN With(e, change.name, change.value) ELSE Without(e, change.name)

\* Mutant: the changes are undone in the order they were made.
MutClosed(e, changes) ==
    LET undone[n \in 0 .. Len(changes)] ==
          IF n = 0 THEN e ELSE Restore(undone[n - 1], changes[n])
    IN  undone[Len(changes)]

\* The last change is undone first.
Closed(e, changes) ==
    LET undone[n \in 0 .. Len(changes)] ==
          IF n = 0 THEN e ELSE Restore(undone[n - 1], changes[Len(changes) + 1 - n])
    IN  undone[Len(changes)]

\* The lines of a file that count: variables of the process win, unless an earlier
\* file of this run has set them.
Assigns(e, names, overridable) ==
    {n \in names : n \notin DOMAIN e \/ n = Proxy \/ n \in overridable}

\* These lines are set.  The names of a file's map are distinct: none sees what
\* another has set, and their order is no matter.
Lines(e, values, names) ==
    LET order == SetToSeq(names)
    IN  [env |-> OverlayEnv(e, [n \in names |-> values[n]]),
         changes |-> [i \in DOMAIN order |-> Change(e, order[i])]]

\* loadDotEnvInto.
Load(e, values, overridable) ==
    LET lines == Lines(e, values, Assigns(e, DOMAIN values, overridable))
        proxy == Getenv(lines.env, Proxy)
    IN  IF proxy = "" THEN lines ELSE Set(lines, HTTPS, proxy)

\* A file without lines may not be there, and then nothing is done for the proxy.
Loads(e, values, overridable) ==
    {Load(e, values, overridable)}
      \cup (IF values = <<>> THEN {[env |-> e, changes |-> <<>>]} ELSE {})

-----------------------------------------------------------------------------
(* The providers, and the connection that a session is resolved to.        *)

\* A model of its own if none is named, and whether its client wants a key.
OpenAI     == [model |-> "gpt-6-astra", keyed |-> TRUE]
OpenRouter == [model |-> "", keyed |-> TRUE]
Fireworks  == [model |-> "", keyed |-> TRUE]
Ollama     == [model |-> "", keyed |-> FALSE]
Codex      == [model |-> "", keyed |-> FALSE]

Provider == [openai |-> OpenAI, openrouter |-> OpenRouter, fireworks |-> Fireworks,
             ollama |-> Ollama, openai_codex |-> Codex]

\* What of a connection its client uses; `auth' is a file of auth.
Connection(provider, base, model, key, file) ==
    [provider |-> provider,
     base  |-> IF base = "" THEN "default" ELSE base,
     model |-> model,
     key   |-> IF Provider[provider].keyed THEN key ELSE "",
     auth  |-> IF provider = "openai_codex" THEN file ELSE ""]

NoConnection == [provider |-> "none"]

\* EnvironmentConfig: the file that is named, or that of the Codex CLI.
AuthFileOf(e) == IF Getenv(e, AuthName) # "" THEN Getenv(e, AuthName) ELSE "cli"

\* resolveClient, up to the client: what the settings name, or no connection.
Resolved(e) ==
    LET named    == LookupEnv(e, "provider")
        provider == IF named = "" THEN "openai" ELSE named
        asked    == LookupEnv(e, "model")
        model    == IF asked # "" THEN asked
                    ELSE IF provider \in DOMAIN Provider THEN Provider[provider].model ELSE ""
        own      == LookupEnv(e, "key")
        key      == IF own = "" THEN Getenv(e, KeyName(provider)) ELSE own
    IN  IF \/ provider \notin DOMAIN Provider
           \/ model = ""
           \/ Provider[provider].keyed /\ key = ""
        THEN NoConnection
        ELSE Connection(provider, LookupEnv(e, "base"), model, key, AuthFileOf(e))

-----------------------------------------------------------------------------
(* The files of sign-ins.  A file is "fresh", "stale" when its access token *)
(* is due to be refreshed, "spent" when its refresh token has been used, or *)
(* "torn".                                                                 *)

AuthState == {"none", "fresh", "stale", "spent", "torn"}

\* ReadAuthFile, fileParsesAsCodexAuth.
Parses(file) == auth[file] \in {"fresh", "stale", "spent"}

\* existingCodexLogin.
ExistingLogin == IF Parses("own") THEN "own" ELSE IF Parses("cli") THEN "cli" ELSE ""

\* WriteAuthFile(fresh tokens): what the file is afterwards, and whether an error
\* is returned.  A write that fails after the temporary file was made is not
\* noticed, and what there is of it is renamed over the old file.
Written == [state : {"fresh", "torn"}, ok : {TRUE}]

\* credentials: a token that is due is exchanged first, which may be refused, or
\* may succeed without a new file.
Refreshed(state) ==
    CASE state = "stale" -> Written \cup {[state |-> s, ok |-> FALSE] : s \in {"stale", "spent"}}
      [] state = "fresh" -> {[state |-> "fresh", ok |-> TRUE]}
      [] OTHER           -> {[state |-> state, ok |-> FALSE]}

\* The client of Codex takes no other server (none here is a loopback address).
ValidBase(c) == c.provider = "openai_codex" => c.base = "default"

\* Provider.NewClient: whether there is a client, and the files then.
Clients(c) ==
    CASE c.provider = "none" \/ ~ValidBase(c) -> {[ok |-> FALSE, auth |-> auth]}
      [] c.provider # "none" /\ ValidBase(c) /\ c.auth \in DOMAIN auth ->
            {[ok |-> r.ok, auth |-> [auth EXCEPT ![c.auth] = r.state]] :
                r \in Refreshed(auth[c.auth])}
      [] OTHER ->
            {[ok |-> c.auth = "" /\ (Provider[c.provider].keyed => c.key # ""),
              auth |-> auth]}

-----------------------------------------------------------------------------
(* config.env.                                                             *)

\* writeConfigFile's merge: the entries win over those of the file, and an empty
\* one removes the line.
Merged(values) ==
    LET all == OverlayEnv(config, values) IN [n \in {m \in DOMAIN all : all[m] # ""} |-> all[n]]

\* What a failing os.WriteFile may leave, when the old content is gone: nothing, or
\* all but the last line.
Torn(content) == {<<>>} \cup {Without(content, n) : n \in DOMAIN content}
=============================================================================
