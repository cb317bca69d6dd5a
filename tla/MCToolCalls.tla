---------------------------- MODULE MCToolCalls -----------------------------
(***************************************************************************)
(* The calls of tools for TLC, in three kinds of behaviours: the tools a   *)
(* session has and what they make of a call; the operation a call waits    *)
(* for, with its manager, its primitives and the store; and what one that  *)
(* has ended tells the model.  The three share no state: a call submits    *)
(* the operation that the second kind runs, and the third begins where its *)
(* phases read the output.                                                 *)
(***************************************************************************)
EXTENDS MCDurableOperations, ToolRegistry, ToolOutputs

VARIABLE part   \* "tools", "operations" or "outputs"

allVars == <<vars, toolVars, outputVars, part>>

\* Two skill files of which any may be broken in any way, or have the name of
\* another; calls that are right for some tools and wrong for others.
Line(key, value) == [key |-> key, value |-> value]
Cut == Line("---", "")
File(path, lines) == [path |-> path, lines |-> lines]
MCTexts ==
    {<<>>, <<Cut, Line("name", "pdf"), Line("description", "d"), Cut>>,
     <<Cut, Line("name", "xls"), Line("tags", "t"), Line("name", "pdf"),
       Line("description", "e"), Cut, Line("name", "late")>>,
     <<Cut, Line("name", "xls"), Line("description", "d"), Cut>>,
     <<Cut, Line("name", "xls"), Cut, Line("description", "d")>>,
     <<Line("name", "xls"), Line("description", "d"), Cut>>,
     <<Cut, Line("name", "xls"), Line("description", "d")>>}
MCDirectories ==
    {<<>>} \union {<<File("p", a), File("q", b)>> : a, b \in MCTexts}

Arguments(form, limit, command, path, name) ==
    [form |-> form, limit |-> limit, command |-> command, path |-> path, name |-> name]
MCArguments ==
    {Arguments(form, <<>>, "text", "relative", "pdf") : form \in {"object", "blank", "broken"}}
    \union {Arguments("object", limit, "text", "absolute", "xls") : limit \in {<<0>>, <<4>>, <<5>>}}
    \union {Arguments("object", <<>>, "absent", "", ""),
            Arguments("object", <<>>, "null", "nul byte", "late"),
            Arguments("object", <<>>, "nul byte", "relative", "pdf")}
MCCalls == [name : {"Bash", "ViewImage", "SkillUse", "Other"}, args : MCArguments]
MCSkills == [path : {"p", "q"}, name : {"pdf", "xls", ""}, description : {"d"}]

MCImages ==
    [format : {"jpeg", "png", "gif", "unknown"}, width : {0, 1, 3, 5}, height : {0, 1, 4, 6},
     intact : BOOLEAN, bytes : {1, 9}]
MCImageLimits == [MaxWidth : 2..3, MaxHeight : {2}, MaxSize : {2, 6}, MaxPixels : {0, 20}]
MCOtherTexts == {<<>>, <<"a", "first", "second", "first", "a">>}

-----------------------------------------------------------------------------
MCInit ==
    /\ part \in {"tools", "operations", "outputs"}
    /\ Init
    /\ part # "operations" => stored = [op \in Op |-> CHOOSE a \in Submitted : TRUE]
    /\ IF part = "tools" THEN ToolsInit ELSE ToolsIdle /\ stage = "none" /\ setup = <<>>
    /\ IF part = "outputs" THEN OutputsInit
       ELSE written = [s \in Streams |-> <<>>] /\ operation = Operation("skill_use", 1)

Operate == part = "operations" /\ Next /\ UNCHANGED <<toolVars, outputVars, part>>

UseTools == part = "tools" /\ ToolsNext /\ UNCHANGED <<vars, outputVars, part>>

Answer == part = "outputs" /\ OutputsNext /\ UNCHANGED <<vars, toolVars, part>>

MCNext == Operate \/ UseTools \/ Answer

MCSpec == MCInit /\ [][MCNext]_allVars

-----------------------------------------------------------------------------
\* A call is answered: with a reason, or by an operation of a tool the session
\* offers, of which the model can be told whatever it comes to; and while it runs, it
\* never waits for nobody (NothingIsStranded).  A command's output is shown as its
\* file would be if it were read at once, an image is within its limits.  And the
\* skills that are offered are exactly the ones that can be loaded, however broken the
\* others are.
CallsAreAnswered ==
    /\ part = "operations" => NothingIsStranded
    /\ part = "tools" => CallsAreTranslated /\ RegistryIsSound /\ SkillsAreUsable
    /\ part = "outputs" => ResultsAreTold /\ OutputIsWhole /\ ImageFits
=============================================================================
