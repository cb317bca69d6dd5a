---------------------------- MODULE MCLocalStore ----------------------------
(***************************************************************************)
(* Small instances for TLC of what the program keeps on disk: its sessions *)
(* or its settings and sign-ins, which do not touch each other.            *)
(***************************************************************************)
EXTENDS LocalStore, Onboarding

CONSTANTS i1, c1, s1, s2

\* A key in the environment, and a workspace that sends the traffic through a proxy;
\* a server in the environment, and a workspace that names the model; or a server in
\* a legacy variable.
MCPlaces ==
    {[environ |-> KeyName("openai") :> "k2",
      workspace |-> Proxy :> "h2" @@ HTTPS :> "h3"],
     [environ |-> Ours("base") :> "u2", workspace |-> Ours("model") :> "m2"],
     [environ |-> Legacy("base") :> "u2", workspace |-> <<>>]}

VARIABLE kept   \* which of the two this behaviour is about

DiskInit ==
    /\ Init /\ OnboardingInit
    /\ kept \in {"sessions", "settings"}
    /\ kept = "sessions" => environ = KeyName("openai") :> "k2"

KeepSessions == kept = "sessions" /\ Next /\ UNCHANGED <<onboardingVars, kept>>
KeepSettings == kept = "settings" /\ OnboardingNext /\ UNCHANGED <<vars, kept>>

DiskSpec == DiskInit /\ [][KeepSessions \/ KeepSettings]_<<vars, onboardingVars, kept>>
=============================================================================
