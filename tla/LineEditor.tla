----------------------------- MODULE LineEditor -----------------------------
(***************************************************************************)
(* The editor of the terminal (tui in src/cmd/internal/agentrunner/tui.go) *)
(* and what the loop of a session makes of the keys (drive in              *)
(* tui_session.go): a text of several lines, a history with a draft, and a *)
(* menu of commands while the text is the beginning of one.                *)
(*                                                                         *)
(* A rune is "x", "/", " ", "\\" or "NL"; a text is a sequence of them.    *)
(***************************************************************************)
EXTENDS Integers, Sequences, FiniteSets, SequencesExt, FiniteSetsExt

CONSTANTS Commands,   \* slashCommands: a sequence of [name, args], args a Boolean
          Avail,      \* runes that fit in a line of the editor
          MaxText,    \* bound on the text
          MaxPressed  \* bound on the keys pressed

VARIABLES
    buf, cur,           \* the text, and the number of runes before the cursor
    history, histPos,   \* the texts sent, and the one shown (Len(history): none)
    draft,              \* the text from before the history was shown
    menuSel,            \* the selected command, from 0
    editor,             \* "open", "quit", or "panic" after an index out of range
    presses             \* keys pressed

editorVars == <<buf, cur, history, histPos, draft, menuSel, editor, presses>>

EditorInit ==
    /\ buf = <<>> /\ cur = 0 /\ history = <<>> /\ histPos = 0 /\ draft = <<>>
    /\ menuSel = 0 /\ editor = "open" /\ presses = 0

NL == "NL"
TextBefore == SubSeq(buf, 1, cur)
TextAfter  == SubSeq(buf, cur + 1, Len(buf))

\* menuMatches
Menu ==
    IF buf = <<>> \/ Head(buf) # "/" \/ Range(buf) \cap {" ", NL} # {} THEN <<>>
    ELSE SelectSeq(Commands, LAMBDA command : IsPrefix(buf, command.name))

Press ==
    /\ editor = "open" /\ presses < MaxPressed /\ presses' = presses + 1

SetText(text, at) == buf' = text /\ cur' = at
SetBuffer(text) == SetText(text, Len(text)) /\ menuSel' = 0

Others == UNCHANGED <<history, histPos, draft, editor>>

-----------------------------------------------------------------------------
(* handleEditKey.                                                          *)

\* Runes and backspace select the first command again, pastes and new lines do not.
Insert(text, resets) ==
    /\ Press /\ Len(buf) + Len(text) <= MaxText
    /\ SetText(TextBefore \o text \o TextAfter, cur + Len(text))
    /\ menuSel' = IF resets THEN 0 ELSE menuSel
    /\ Others

TypeRune == \E rune \in {"x", "/", " ", "\\"} : Insert(<<rune>>, TRUE)
PasteText == \E text \in {<<NL>>, <<"x", NL>>, <<"x", "x">>} : Insert(text, FALSE)

Backspace ==
    /\ Press /\ cur > 0
    /\ SetText(Front(TextBefore) \o TextAfter, cur - 1) /\ menuSel' = 0
    /\ Others

Delete ==
    /\ Press /\ cur < Len(buf)
    /\ SetText(TextBefore \o Tail(TextAfter), cur)
    /\ Others /\ UNCHANGED menuSel

\* The ends of the line that position at is in.
LineStart(at) == Max({p \in 0..at : p = 0 \/ buf[p] = NL})
LineEnd(at) == Min({p \in at..Len(buf) : p = Len(buf) \/ buf[p + 1] = NL})

MoveTo(at) == Press /\ SetText(buf, at) /\ Others /\ UNCHANGED menuSel

Sideways ==
    \/ cur > 0 /\ MoveTo(cur - 1)           \* left
    \/ cur < Len(buf) /\ MoveTo(cur + 1)    \* right
    \/ MoveTo(LineStart(cur))               \* home
    \/ MoveTo(LineEnd(cur))                 \* end

\* Ctrl-U deletes from start to the cursor, Ctrl-W the blanks and the word before it.
DeleteFrom(start) ==
    /\ Press /\ SetText(SubSeq(buf, 1, start) \o TextAfter, start)
    /\ Others /\ UNCHANGED menuSel

WordStart ==
    LET word == Min({p \in 0..cur : \A q \in (p + 1)..cur : buf[q] = " "})
    IN  Min({p \in 0..word : \A q \in (p + 1)..word : buf[q] \notin {" ", NL}})

DeleteBack == DeleteFrom(LineStart(cur)) \/ DeleteFrom(WordStart)

\* Tab completes the selected command; the selection is not checked against a menu
\* that a paste has shortened since.
Complete ==
    /\ Press /\ Menu # <<>>
    /\ IF menuSel < Len(Menu)
       THEN SetBuffer(Append(Menu[menuSel + 1].name, " ")) /\ UNCHANGED editor
       ELSE editor' = "panic" /\ UNCHANGED <<buf, cur, menuSel>>
    /\ UNCHANGED <<history, histPos, draft>>

\* moveVertical: where the cursor goes.
Above ==
    LET start == LineStart(cur)
    IN  IF start = 0 THEN cur
        ELSE Min({LineStart(start - 1) + (cur - start), start - 1})

Below ==
    LET next == LineEnd(cur)
    IN  IF next = Len(buf) THEN cur
        ELSE Min({next + 1 + cur - LineStart(cur), LineEnd(next + 1)})

ShowHistory(at, text) ==
    /\ Press /\ histPos' = at /\ SetText(text, Len(text))
    /\ UNCHANGED <<history, menuSel, editor>>

Select(n) ==
    /\ Press /\ Menu # <<>> /\ menuSel' = n % Len(Menu)
    /\ Others /\ UNCHANGED <<buf, cur>>

Up ==
    \/ Select(menuSel - 1 + Len(Menu))
    \/ /\ Menu = <<>> /\ NL \notin Range(TextBefore) /\ histPos > 0
       /\ ShowHistory(histPos - 1, history[histPos])
       /\ draft' = IF histPos = Len(history) THEN buf ELSE draft
    \/ /\ Menu = <<>> /\ (NL \in Range(TextBefore) \/ histPos = 0)
       /\ MoveTo(Above)

Down ==
    \/ Select(menuSel + 1)
    \/ /\ Menu = <<>> /\ NL \notin Range(TextAfter) /\ histPos < Len(history)
       /\ ShowHistory(histPos + 1, IF histPos + 1 = Len(history) THEN draft
                                   ELSE history[histPos + 2])
       /\ UNCHANGED draft
    \/ /\ Menu = <<>> /\ (NL \in Range(TextAfter) \/ histPos = Len(history))
       /\ MoveTo(Below)

-----------------------------------------------------------------------------
(* drive.                                                                  *)

Blank(text) == Range(text) \subseteq {" ", NL}

\* take
Take(text) ==
    /\ buf' = <<>> /\ cur' = 0 /\ menuSel' = 0
    /\ history' = IF Blank(text) \/ (history # <<>> /\ Last(history) = text)
                  THEN history ELSE Append(history, text)
    /\ histPos' = Len(history')
    /\ UNCHANGED <<draft, editor>>

\* Enter takes the selected command, opens a new line after a backslash, or sends.
Enter ==
    LET command == Menu[Min({menuSel + 1, Len(Menu)})]
        text    == IF Menu # <<>> THEN command.name ELSE buf
        fills   == Menu # <<>> /\ buf # command.name /\ command.args
    IN  /\ Press
        /\ CASE fills -> SetBuffer(Append(command.name, " ")) /\ Others
             [] ~fills /\ text # <<>> /\ Last(text) = "\\" ->
                  SetBuffer(Append(Front(text), NL)) /\ Others
             [] OTHER -> Take(text)

\* Esc, and Ctrl-C while there is a text.
Clear == Press /\ buf # <<>> /\ SetBuffer(<<>>) /\ Others

\* Ctrl-D, and the end of the input, which is taken for one again and again.
Leave ==
    /\ Press /\ buf = <<>> /\ editor' = "quit"
    /\ UNCHANGED <<buf, cur, history, histPos, draft, menuSel>>

EditorNext ==
    \/ TypeRune \/ PasteText \/ Backspace \/ Delete \/ Sideways \/ DeleteBack
    \/ Complete \/ Up \/ Down \/ Enter \/ Clear \/ Leave

-----------------------------------------------------------------------------
(* editorLines: the text in lines of at most Avail runes, and where the    *)
(* cursor is: its line, and the number of runes before it in the line.     *)

Drawn ==
    LET Flush(d) == [d EXCEPT !.lines = Append(@, d.current), !.current = <<>>]
        Here(d, at) ==
            IF at # cur THEN d
            ELSE [d EXCEPT !.row = Len(d.lines) + 1, !.col = Len(d.current)]
        Add(d, at) ==
            LET h == Here(d, at - 1)
            IN  CASE buf[at] = NL -> Flush(h)
                  [] buf[at] # NL /\ Len(h.current) < Avail ->
                       [h EXCEPT !.current = Append(@, buf[at])]
                  [] OTHER -> [Flush(h) EXCEPT !.current = <<buf[at]>>]
        all == FoldLeftDomain(Add, [lines |-> <<>>, current |-> <<>>, row |-> 1, col |-> 0], buf)
        end == IF cur = Len(buf) /\ Len(all.current) >= Avail THEN Flush(all) ELSE all
    IN  Flush(Here(end, Len(buf)))
=============================================================================
