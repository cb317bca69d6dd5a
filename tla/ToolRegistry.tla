---------------------------- MODULE ToolRegistry ----------------------------
(***************************************************************************)
(* The tools of a session: the skills it discovers, the registry that      *)
(* offers and resolves tools, the list of skills in the prompt, and what   *)
(* Bash, ViewImage and SkillUse make of the calls of a model.  An embedder *)
(* of the package may register and unregister skills at any time; the      *)
(* program registers the ones it discovers, once, before the session.      *)
(***************************************************************************)
EXTENDS Integers, Sequences, SequencesExt, FiniteSets, FiniteSetsExt

CONSTANTS Directories,   \* .harness/skills: files in the order of their paths; one that
                         \* cannot be read has no lines, like one that is empty
          Calls,         \* the calls a model makes
          AnySkills,     \* the skills an embedder registers
          MaxIDs,        \* the registrations of an embedder
          DefaultLength, \* operation.DefaultMaxOutputLength
          MaxLength      \* operation.MaxOutputLength

VARIABLES stage,      \* "discover", "register", "ready", "failed", or "embedded"
          setup,      \* the directory, DisallowedTools and whether SHELL is absolute
          waiting,    \* the skills discovered and not yet registered
          reported,   \* the errors of the discovery
          registry,   \* the registry
          prompt,     \* the skills in the system prompt; all an embedder ever registered
          toolCall,   \* the call the model made
          response    \* its CallStatus, and the Spec it submitted

toolVars == <<stage, setup, waiting, reported, registry, prompt, toolCall, response>>

BashName == "Bash"
ViewImageName == "ViewImage"
SkillUseName == "SkillUse"
StaticNames == <<BashName, ViewImageName, SkillUseName>>

-----------------------------------------------------------------------------
(* The registry.                                                           *)

NewRegistry(names) ==
    [enabled |-> names, skills |-> <<>>, byPath |-> <<>>, order |-> <<>>]

StaticDefinitions(r) == SelectSeq(StaticNames, LAMBDA name : name \in r.enabled)

CanResolve(r, name) == name \in ToSet(StaticNames) /\ name \in r.enabled

\* A value that is blank stands for "".
ValidSkill(skill) == skill.path # "" /\ skill.name # "" /\ skill.description # ""

CanRegister(r, skill) ==
    /\ ValidSkill(skill)
    /\ skill.path \notin DOMAIN r.byPath
    /\ \A id \in DOMAIN r.skills : r.skills[id].name # skill.name

Put(f, key, value) == [k \in DOMAIN f \union {key} |-> IF k = key THEN value ELSE f[k]]
Without(f, key) == [k \in DOMAIN f \ {key} |-> f[k]]

RegisterSkill(r, skill, id) ==
    [r EXCEPT !.skills = Put(@, id, skill), !.byPath = Put(@, skill.path, id),
              !.order = Append(@, id)]

UnregisterSkill(r, id) ==
    [r EXCEPT !.skills = Without(@, id), !.byPath = Without(@, r.skills[id].path),
              !.order = SelectSeq(@, LAMBDA other : other # id)]

RegisteredSkills(r) == [n \in DOMAIN r.order |-> r.skills[r.order[n]]]

\* The skills of that name: at most one.
ResolveSkill(r, name) == SelectSeq(RegisteredSkills(r), LAMBDA skill : skill.name = name)

-----------------------------------------------------------------------------
(* DiscoverSkills.                                                         *)

\* The value of a key in the lines between the delimiters; a later one wins.
Frontmatter(lines, key) ==
    LET close == CHOOSE n \in 2..Len(lines) :
                    lines[n].key = "---" /\ \A m \in 2..(n - 1) : lines[m].key # "---"
        given == SelectSeq(SubSeq(lines, 2, close - 1), LAMBDA line : line.key = key)
    IN  IF given = <<>> THEN "" ELSE Last(given).value

HasFrontmatter(file) ==
    /\ file.lines # <<>> /\ file.lines[1].key = "---"
    /\ \E n \in 2..Len(file.lines) : file.lines[n].key = "---"

\* A file whose skill has the name of another is not passed over.
MutDiscover(found, file) ==
    IF HasFrontmatter(file) /\ Frontmatter(file.lines, "name") # ""
       /\ Frontmatter(file.lines, "description") # ""
    THEN [found EXCEPT !.skills = Append(@, [path |-> file.path,
              name |-> Frontmatter(file.lines, "name"),
              description |-> Frontmatter(file.lines, "description")])]
    ELSE [found EXCEPT !.errors = Append(@, file.path)]

\* One file: a skill, or an error that is reported and passed over.
Discover(found, file) ==
    LET skill == [path |-> file.path, name |-> Frontmatter(file.lines, "name"),
                  description |-> Frontmatter(file.lines, "description")]
    IN  IF /\ HasFrontmatter(file) /\ ValidSkill(skill)
           /\ \A n \in DOMAIN found.skills : found.skills[n].name # skill.name
        THEN [found EXCEPT !.skills = Append(@, skill)]
        ELSE [found EXCEPT !.errors = Append(@, file.path)]

DiscoverSkills(directory) ==
    FoldLeft(Discover, [skills |-> <<>>, errors |-> <<>>], directory)

-----------------------------------------------------------------------------
(* Translate: the error of a call, or the operation it submits.            *)

Refuse(why) == [error |-> why, submitted |-> <<>>]
Submit(type, of) == [error |-> "", submitted |-> <<[type |-> type, of |-> of]>>]

\* ParseMaxOutputLength; a limit that is not a number counts as zero.
LengthFits(limit) == limit = <<>> \/ (limit[1] > 0 /\ limit[1] <= MaxLength)

TranslateBash(args, shell) ==
    CASE args.form # "object"       -> Refuse("decode")
      [] ~LengthFits(args.limit)    -> Refuse("limit")
      [] args.command = "absent"    -> Refuse("missing")
      [] args.command \in {"null", "number", "nul byte"} -> Refuse(args.command)
      [] shell = "relative"         -> Refuse("shell path")
      [] OTHER -> Submit("shell", IF args.limit = <<>> THEN DefaultLength ELSE args.limit[1])

\* A relative path is resolved from the workspace, without cleaning it.
TranslateViewImage(args) ==
    CASE args.form # "object"       -> Refuse("decode")
      [] args.path \in {"", "nul byte"} -> Refuse("path")
      [] OTHER -> Submit("view_image", IF args.path = "absolute" THEN <<"/">>
                                       ELSE <<"workspace", args.path>>)

\* Blank arguments are read as an empty object.
TranslateSkillUse(r, args) ==
    LET skill == ResolveSkill(r, args.name)
    IN  CASE args.form = "broken"   -> Refuse("decode")
          [] args.form = "blank" \/ args.name = "" -> Refuse("missing")
          [] skill = <<>>           -> Refuse("not registered")
          [] OTHER                  -> Submit("skill_use", skill[1].path)

TranslateCall(r, shell, c) ==
    CASE ~CanResolve(r, c.name)  -> Refuse("not available")
      [] c.name = BashName       -> TranslateBash(c.args, shell)
      [] c.name = ViewImageName  -> TranslateViewImage(c.args)
      [] c.name = SkillUseName   -> TranslateSkillUse(r, c.args)

-----------------------------------------------------------------------------
NoCall == [name |-> "", args |-> <<>>]

ToolsIdle ==
    /\ waiting = <<>> /\ reported = <<>> /\ registry = NewRegistry({}) /\ prompt = <<>>
    /\ toolCall = NoCall /\ response = Refuse("")

ToolsInit ==
    /\ stage \in {"discover", "embedded"}
    /\ setup \in [directory : Directories, shell : {"absolute", "relative"},
                  disallowed : {{}, {BashName}, {SkillUseName}}]
    /\ stage = "embedded" => setup.directory = <<>> /\ setup.disallowed = {}
    /\ ToolsIdle

\* run.go: SkillUse is a tool of the session only if there is a skill, and every
\* tool may be disallowed.
DiscoverTools ==
    LET found == DiscoverSkills(setup.directory)
        names == {BashName, ViewImageName} \union
                 (IF found.skills = <<>> THEN {} ELSE {SkillUseName})
        r     == NewRegistry(names \ setup.disallowed)
    IN  /\ stage = "discover" /\ stage' = "register"
        /\ registry' = r
        /\ waiting' = IF CanResolve(r, SkillUseName) THEN found.skills ELSE <<>>
        /\ reported' = found.errors
        /\ UNCHANGED <<setup, prompt, toolCall, response>>

\* A registration that fails ends the run before its session begins.
RegisterNext ==
    /\ stage = "register" /\ waiting # <<>>
    /\ IF CanRegister(registry, Head(waiting))
       THEN /\ registry' = RegisterSkill(registry, Head(waiting), Len(registry.order) + 1)
            /\ waiting' = Tail(waiting) /\ UNCHANGED stage
       ELSE stage' = "failed" /\ UNCHANGED <<registry, waiting>>
    /\ UNCHANGED <<setup, reported, prompt, toolCall, response>>

\* NewBuilder takes the list of the registry once.
BuildPrompt ==
    /\ stage = "register" /\ waiting = <<>>
    /\ stage' = "ready" /\ prompt' = RegisteredSkills(registry)
    /\ UNCHANGED <<setup, waiting, reported, registry, toolCall, response>>

\* One call stands for all: no call changes the registry.
Ask ==
    /\ stage = "ready" /\ toolCall = NoCall
    /\ toolCall' \in Calls /\ response' = TranslateCall(registry, setup.shell, toolCall')
    /\ UNCHANGED <<stage, setup, waiting, reported, registry, prompt>>

\* An embedder registers and unregisters skills; a refused one changes nothing.
\* IDs are never used again.
Embed ==
    /\ stage = "embedded"
    /\ \/ \E skill \in AnySkills :
             /\ Len(prompt) < MaxIDs
             /\ CanRegister(registry, skill)
             /\ registry' = RegisterSkill(registry, skill, Len(prompt) + 1)
             /\ prompt' = Append(prompt, skill)
       \/ \E id \in DOMAIN registry.skills :
             registry' = UnregisterSkill(registry, id) /\ UNCHANGED prompt
    /\ UNCHANGED <<stage, setup, waiting, reported, toolCall, response>>

ToolsNext == DiscoverTools \/ RegisterNext \/ BuildPrompt \/ Ask \/ Embed

-----------------------------------------------------------------------------
(* Properties.                                                             *)

\* What a file declares: the last value before the first closing delimiter.
Declares(file, key) ==
    LET ends == {n \in 2..Len(file.lines) : file.lines[n].key = "---"}
        said == {n \in 2..(Min(ends) - 1) : file.lines[n].key = key}
    IN  IF ends = {} \/ said = {} THEN "" ELSE file.lines[Max(said)].value

DeclaresSkill(file) ==
    /\ file.lines # <<>> /\ file.lines[1].key = "---"
    /\ Declares(file, "name") # "" /\ Declares(file, "description") # ""

\* The files that are skills: of two with one name, the first is.
SkillFiles ==
    LET d == setup.directory
    IN  {n \in DOMAIN d : /\ DeclaresSkill(d[n])
                          /\ \A m \in 1..(n - 1) : DeclaresSkill(d[m]) =>
                                Declares(d[m], "name") # Declares(d[n], "name")}

Loads(skill) ==
    LET args == [form |-> "object", limit |-> <<>>, command |-> "absent", path |-> "",
                 name |-> skill.name]
    IN  TranslateCall(registry, setup.shell, [name |-> SkillUseName, args |-> args])
            = Submit("skill_use", skill.path)

\* The three parts of the registry agree, and names and paths are unique.
RegistryIsSound ==
    LET ids == DOMAIN registry.skills
    IN  /\ ToSet(registry.order) = ids /\ Len(registry.order) = Cardinality(ids)
        /\ DOMAIN registry.byPath = {registry.skills[id].path : id \in ids}
        /\ \A id \in ids : registry.byPath[registry.skills[id].path] = id
        /\ \A i, j \in ids : registry.skills[i].name = registry.skills[j].name => i = j

\* However broken the directory is, the session begins; every file is a skill or is
\* reported; and the prompt lists exactly the skills that a call can load.
SkillsAreUsable ==
    /\ stage # "failed"
    /\ stage = "ready" =>
          /\ Len(reported) + Cardinality(SkillFiles) = Len(setup.directory)
          /\ [n \in DOMAIN prompt |-> prompt[n].path] =
                 IF SkillUseName \in setup.disallowed THEN <<>>
                 ELSE [n \in 1..Cardinality(SkillFiles) |-> setup.directory[
                         CHOOSE f \in SkillFiles :
                             Cardinality({g \in SkillFiles : g < f}) = n - 1].path]
          /\ \A n \in DOMAIN prompt : Loads(prompt[n])
          /\ CanResolve(registry, SkillUseName) = (prompt # <<>>)

\* A call is refused with a reason or submits one operation of an offered tool.
CallsAreTranslated ==
    toolCall # NoCall =>
        /\ (response.error = "") = (Len(response.submitted) = 1)
        /\ response.error = "" => toolCall.name \in ToSet(StaticDefinitions(registry)) \ setup.disallowed
=============================================================================
