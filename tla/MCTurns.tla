------------------------------ MODULE MCTurns ------------------------------
(***************************************************************************)
(* The turns of the MetaCog adapter, what it does to a request, one of its *)
(* judging steps, the loop of the terminal that drives sessions, how the   *)
(* terminal hears what is typed, and the program without a terminal: parts *)
(* of which each has its own view of what it shares with the others.  A    *)
(* behaviour is one of one part; the others stay as they start.            *)
(***************************************************************************)
EXTENDS MetaCog, TerminalSession, JudgeCalls, RequestRouting, TerminalKeys, LineEditor, Widgets,
        AgentRun

\* "metacog", "judging", "routing", "terminal", "keys", "editor", "widgets"
\* or "program"
VARIABLE part

inputVars == <<keyVars, editorVars, widgetVars>>
vars == <<metaVars, termVars, judgeVars, routingVars, inputVars, runVars, part>>

Setting(mode, voting, background, same) ==
    [mode |-> mode, voting |-> voting, background |-> background, same |-> same]

\* A vote with a judge in the background, a vote while the caller waits, a judge
\* that also scores calls, and no metacognition.
MCSettings ==
    {Setting("final", TRUE, TRUE, TRUE), Setting("final", TRUE, FALSE, FALSE),
     Setting("all", TRUE, TRUE, FALSE), Setting("off", FALSE, FALSE, FALSE)}

\* What a request asks; its messages have IDs of their own.
Ask(many, messages, prompt) ==
    [session |-> "s", effort |-> "", tools |-> {}, attempts |-> "none",
     listed |-> many, messages |-> messages, prompt |-> prompt]

Say(id) == [role |-> "user", id |-> id]

Program(interactive, p, ask, lines, times) ==
    [interactive |-> interactive, p |-> p, times |-> times, words |-> 0, heartbeat |-> 0,
     mode |-> "", attempts |-> "none", request |-> ask, lines |-> lines]

\* A request of two messages, sent again if its program dies; one that is refused;
\* a prompt with -p; and someone who types.
MCPrograms ==
    {Program(FALSE, FALSE, Ask(TRUE, <<Say("a"), Say("b")>>, FALSE), <<>>, 2),
     Program(FALSE, FALSE, Ask(TRUE, <<Say("a"), Say("odd")>>, FALSE), <<>>, 1),
     Program(TRUE, TRUE, Ask(FALSE, <<>>, TRUE), <<"x">>, 1),
     Program(TRUE, FALSE, Ask(FALSE, <<>>, FALSE), <<"x", "/quit", "y">>, 1)}

MetaCogIdle == MetaCogInit /\ setting = Setting("off", FALSE, FALSE, FALSE)
TerminalIdle == NoSession /\ at = "ended" /\ ~next.message

\* A judging step that is over.
JudgeIdle ==
    /\ judge = "jev" /\ parent = "live" /\ stopped = FALSE
    /\ worker = [c \in Candidate |-> "done"] /\ tries = [c \in Candidate |-> 1]
    /\ scores = [c \in Candidate |-> c] /\ firstErr = 0 /\ scored = "scores"

\* The input has ended.
KeysIdle ==
    /\ typed = <<>> /\ wire = <<>> /\ torn = FALSE /\ chunk = <<>>
    /\ pasting = FALSE /\ pasteBuf = <<>> /\ events = <<>> /\ channel = <<>>
    /\ input = "closed" /\ heard = <<>>

\* The program is not called.
RunIdle == NeverRun /\ called = Program(FALSE, FALSE, Ask(TRUE, <<>>, FALSE), <<>>, 0)

WidgetIdle == WidgetInit /\ widget = "busy" /\ cursor = 0

Init ==
    /\ RoutingInit /\ EditorInit
    /\ part \in {"metacog", "judging", "routing", "terminal", "keys", "editor", "widgets",
                "program"}
    /\ IF part = "metacog" THEN MetaCogInit ELSE MetaCogIdle
    /\ IF part = "judging" THEN JudgeInit ELSE JudgeIdle
    /\ IF part = "terminal" THEN TerminalInit ELSE TerminalIdle
    /\ IF part = "keys" THEN KeysInit ELSE KeysIdle
    /\ IF part = "widgets" THEN WidgetInit ELSE WidgetIdle
    /\ IF part = "program" THEN RunInit ELSE RunIdle

\* What the terminal hears.
InputNext ==
    \/ part = "keys" /\ KeysNext /\ UNCHANGED <<editorVars, widgetVars>>
    \/ part = "editor" /\ EditorNext /\ UNCHANGED <<keyVars, widgetVars>>
    \/ part = "widgets" /\ WidgetNext /\ UNCHANGED <<keyVars, editorVars>>

Next ==
    /\ UNCHANGED part
    /\ \/ /\ part = "metacog" /\ MetaCogNext
          /\ UNCHANGED <<termVars, judgeVars, routingVars, inputVars, runVars>>
       \/ /\ part = "judging" /\ JudgeNext
          /\ UNCHANGED <<metaVars, termVars, routingVars, inputVars, runVars>>
       \/ /\ part = "routing" /\ RoutingNext
          /\ UNCHANGED <<metaVars, termVars, judgeVars, inputVars, runVars>>
       \/ /\ part = "terminal" /\ TerminalNext
          /\ UNCHANGED <<metaVars, judgeVars, routingVars, inputVars, runVars>>
       \/ /\ part = "program" /\ RunNext
          /\ UNCHANGED <<metaVars, termVars, judgeVars, routingVars, inputVars>>
       \/ InputNext /\ UNCHANGED <<metaVars, termVars, judgeVars, routingVars, runVars>>

Spec ==
    /\ Init /\ [][Next]_vars
    /\ MetaCogFairness /\ TerminalFairness /\ JudgeFairness /\ KeysFairness /\ RunFairness

-----------------------------------------------------------------------------
(* MetaCog.                                                                *)

\* The judge is heard as a whole or not at all: a step that ends with scores has one
\* of every candidate, each its own, whichever order the requests ended in, and no
\* request of a step that is over is still under way.
ScoresAreWhole ==
    /\ scored = "scores" => \A c \in Candidate : scores[c] = c
    /\ scored # "none" => Calling = {}

\* What is sent is the conversation, but for bulky results that are neither the
\* system item nor recent; the effort is never raised, and tools are left out only
\* on a verdict about the message that is answered.
RequestsAreKept ==
    phase # "idle" \/ request.items = <<>> \/
        /\ request.effort <= Configured
        /\ request.tools \/ chats[Latest(request.items)] = FALSE
        /\ IsPrefix(Whole(request.items), items)
        /\ \A n \in DOMAIN request.items :
              request.items[n].form # "whole" =>
                  Bulky(request.items[n]) /\ n \in 2..(Len(request.items) - KeepRecent)

\* The vote of think decides as soon as a path agrees with an earlier one: when it
\* leaves the choice to the judge, every two paths in the pool state different
\* answers or one of them states none, in whatever order they came back.
AgreementDecides ==
    setting.voting => \A t \in Turns :
        LET pool == turn[t].pool
        IN  turn[t].think = "pool" /\ Head(pool) \in Final =>
                \A m, n \in DOMAIN pool :
                    m < n => pool[m] = "none" \/ pool[m] # pool[n]

\* MetaCog hears the judge, and nothing but it, about answers, calls and requests.
JudgeIsHeard ==
    CASE part = "metacog" -> AgreementDecides
      [] part = "judging" -> ScoresAreWhole
      [] part = "routing" -> RequestsAreKept
      [] OTHER            -> TRUE

-----------------------------------------------------------------------------
(* The terminal.                                                           *)

\* What is written is what is recorded, in that order, whatever fails; a program that
\* reports success has written all of it.  An error is written last.
OutputIsRecord ==
    LET told == IF out # <<>> /\ out[Len(out)].kind = "error" THEN Front(out) ELSE out
    IN  /\ IsPrefix(log, RecordedNow) /\ IsPrefix(told, log)
        /\ code = "0" => log = RecordedNow /\ (called.interactive \/ told = log)

IsNamed(item) == item.kind = "external" /\ item.id # "none"

\* Each message of a request has an ID of its own.
NamesAll(ask) ==
    /\ ask.listed
    /\ \A m, n \in DOMAIN ask.messages :
          /\ ask.messages[n].id # "none"
          /\ m # n => ask.messages[m].id # ask.messages[n].id

\* Of the messages, exactly those at the given places are among what is recorded or
\* waits to be; each once, in order.
Holds(list, messages, places) ==
    /\ \A n \in places : \E p \in DOMAIN list : list[p] = messages[n]
    /\ \A p \in DOMAIN list : IsNamed(list[p]) => \E n \in places : list[p] = messages[n]
    /\ \A p, q \in DOMAIN list, m, n \in places :
          p < q /\ list[p] = messages[m] /\ list[q] = messages[n] => m < n

\* A program that reports success, and was not interrupted, has had every message
\* answered; one that is called again with the messages of a request that it had
\* begun has each of them recorded once, in order.
RequestIsAnswered ==
    LET messages == MessagesOf(called.request)
    IN  code = "0" /\ user = "live" =>
            /\ ~Unanswered
            /\ NamesAll(called.request) => Holds(session, messages, DOMAIN messages)

\* The tools of a run are closed when nothing can use them any more, and a program
\* leaves nothing open.
NothingStaysOpen ==
    LET past(name) == \E n \in 1..stage : Stages[n] = name
    IN  /\ program = "exited" => opened = <<>> /\ (past("context") => context = "canceled")
        /\ program = "closing" /\ past("tools") /\ "tools" \notin Range(opened) =>
              context = "canceled"

\* A session has one driver, which records and writes all it is given.
SessionsAreOrderly ==
    IF part = "program" THEN OutputIsRecord /\ RequestIsAnswered /\ NothingStaysOpen
    ELSE OneSessionAtATime

Stopping ==
    \/ turn[LastTurn].at = "cancel" \/ part \in {"judging", "keys"} \/ program = "opening"
    \/ at = "drive" /\ pending # NoNext
Stopped ==
    CASE part = "metacog"  -> turn[LastTurn].at = "returned"
      [] part = "judging"  -> scored # "none"
      [] part = "program"  -> program \in {"exited", "killed"}
      [] part = "keys"     -> input = "panic" \/ (input = "closed" /\ channel = <<>>)
      [] OTHER              -> at # "drive"

\* A Respond that waits for a check it has canceled returns, since the time for
\* more paths is limited; a judging step returns, whatever its workers wait for,
\* since the time for it is limited; everything that is typed is heard, unless the
\* terminal changes its size after the end of the input; a session that the user
\* stops gives way to what was asked for, since its context is canceled when it does
\* not stop; and a program without a terminal ends, since its input does.
EverythingEnds == Stopping ~> Stopped

-----------------------------------------------------------------------------
(* What the terminal hears.                                                *)

MCPasted == {<<"CR">>, <<"LF">>}

MCCommands ==
    <<[name |-> <<"/", "x">>, args |-> TRUE], [name |-> <<"/", "x", "x">>, args |-> FALSE]>>

MCOptions == <<<<"a">>, <<"b">>, <<"b", "a">>>>

\* Whatever the chunks that the bytes are read in, the program hears the keys that
\* were pressed, each once and in order, and every paste as one, as long as no read
\* ends within a stroke; where it ends within what is pasted does not matter.
KeysAreHeard ==
    LET soFar == SelectSeq(heard \o channel, LAMBDA key : key # Resize) \o events
    IN  torn \/ /\ IsPrefix(soFar, Meant(typed))
                /\ wire \o chunk = <<>> => soFar = Meant(typed)

\* The lines of the text, from one position of the cursor to another.
TextLines ==
    LET starts == SetToSortSeq({p \in 0..Len(buf) : p = 0 \/ buf[p] = NL}, <)
    IN  [n \in DOMAIN starts |->
            [from |-> starts[n], to |-> IF n = Len(starts) THEN Len(buf) ELSE starts[n + 1] - 1]]

LineOf(p) == CHOOSE n \in DOMAIN TextLines : p \in TextLines[n].from..TextLines[n].to

\* Column c of line n, or its end; where the cursor is if there is no such line.
Place(n, c) ==
    IF n \in DOMAIN TextLines THEN Min({TextLines[n].from + c, TextLines[n].to}) ELSE cur

\* Up and down keep the column, and stay within the line they go to.
MovesFollowLines ==
    LET line == LineOf(cur)
        column == cur - TextLines[line].from
    IN  cur \in 0..Len(buf) /\ Above = Place(line - 1, column) /\ Below = Place(line + 1, column)

\* What is drawn is the text, in lines that fit, with the cursor where it is.
CursorIsShown ==
    LET Runes(text) == SelectSeq(text, LAMBDA rune : rune # NL)
    IN  /\ FlattenSeq(Drawn.lines) = Runes(buf)
        /\ \A n \in DOMAIN Drawn.lines : Len(Drawn.lines[n]) <= Avail
        /\ FlattenSeq(SubSeq(Drawn.lines, 1, Drawn.row - 1))
               \o SubSeq(Drawn.lines[Drawn.row], 1, Drawn.col) = Runes(TextBefore)

\* A search never leaves the cursor of a list on nothing, and what is picked is an
\* option that was shown.
PickIsOffered ==
    /\ Visible # <<>> => cursor < Len(Visible)
    /\ outcome.kind = "picked" => outcome.n \in Range(Visible)

\* What is typed is what is heard, shown and picked.
TypingIsHeard ==
    CASE part = "keys"    -> KeysAreHeard
      [] part = "editor"  -> MovesFollowLines /\ CursorIsShown
      [] part = "widgets" -> PickIsOffered
      [] OTHER            -> TRUE

-----------------------------------------------------------------------------
\* What the comment on the file says: a session that is restarted after a command
\* or an interrupt goes on with the conversation that the user is in.
ConversationIsKept == at = "drive" /\ chosen # 0 /\ live.conv # 0 => live.conv = chosen
=============================================================================
