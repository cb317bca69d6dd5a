------------------------------ MODULE Widgets ------------------------------
(***************************************************************************)
(* The questions the program asks in the terminal: a list to choose from,  *)
(* which may be searched, a line of input, and a spinner (ttyAsker), or,   *)
(* without a terminal, lines that are read (lineAsker).                    *)
(* src/cmd/internal/agentrunner/widgets.go                                 *)
(***************************************************************************)
EXTENDS Integers, Sequences, FiniteSets, SequencesExt, FiniteSetsExt

CONSTANTS Options,    \* the options of a list: a sequence of texts of runes
          MaxAnswers  \* bound on the keys pressed or the lines read

VARIABLES
    widget,      \* "list", "search" (a list of more than 8), "field", "busy", "lines"
    filter,      \* what is searched for; the text of a field
    cursor,      \* the place among the options that match, from 0
    outcome,     \* how it ended: [kind, n], n an option from 1
    answers      \* keys pressed and lines read

widgetVars == <<widget, filter, cursor, outcome, answers>>

Ended(kind, n) == [kind |-> kind, n |-> n]
Open == Ended("open", 0)

\* The option that is selected at first.  A list selects the first one in place of
\* one that does not exist; lines have their default unchecked, and every question
\* of the program has an option as its default.
WidgetInit ==
    /\ widget \in {"list", "search", "field", "busy", "lines"}
    /\ filter = <<>> /\ outcome = Open /\ answers = 0
    /\ \E def \in 0..Len(Options) :
          /\ widget = "lines" => def < Len(Options)
          /\ cursor = IF def < Len(Options) THEN def ELSE 0

HasPart(text, part) == \E i \in 0..Len(text) : IsPrefix(part, SubSeq(text, i + 1, Len(text)))

\* matches: the numbers of the options that match the filter.
Visible ==
    SelectSeq([n \in DOMAIN Options |-> n],
              LAMBDA n : widget # "search" \/ HasPart(Options[n], filter))

Answering(widgets) ==
    /\ outcome = Open /\ widget \in widgets
    /\ answers < MaxAnswers /\ answers' = answers + 1 /\ UNCHANGED widget

Closes(result) == outcome' = result /\ UNCHANGED <<filter, cursor>>
Selects(n) == cursor' = n /\ UNCHANGED <<filter, outcome>>
Filters(text, n) == filter' = text /\ cursor' = n /\ UNCHANGED outcome

Lists == {"list", "search"}

MoveUp ==
    /\ Answering(Lists) /\ (cursor > 0 \/ Visible # <<>>)
    /\ Selects(IF cursor > 0 THEN cursor - 1 ELSE Len(Visible) - 1)

MoveDown ==
    Answering(Lists) /\ Selects(IF cursor < Len(Visible) - 1 THEN cursor + 1 ELSE 0)

\* Enter; a field that is empty has its default, which is any text.
Confirm ==
    \/ Answering(Lists) /\ Visible # <<>> /\ Closes(Ended("picked", Visible[cursor + 1]))
    \/ Answering({"field"}) /\ Closes(Ended("text", 0))

\* Esc clears the search first.
GoBack ==
    \/ Answering(Lists) /\ filter # <<>> /\ Filters(<<>>, 0)
    \/ Answering(Lists \cup {"field"}) /\ (widget = "field" \/ filter = <<>>)
       /\ Closes(Ended("back", 0))

\* Ctrl-C; a spinner stops waiting, and what it waits for goes on.
CancelWidget == Answering(Lists \cup {"field", "busy"}) /\ Closes(Ended("cancelled", 0))

Erase ==
    /\ Answering(Lists \cup {"field"}) /\ filter # <<>>
    /\ Filters(Front(filter), IF widget = "field" THEN cursor ELSE 0)

EraseAll == Answering({"field"}) /\ Filters(<<>>, cursor)

\* A rune or a paste is searched for; a digit picks from a list that is not searched.
TypeText ==
    \E text \in {<<"a">>, <<"b">>, <<"a", "b">>} :
        Answering({"search", "field"})
        /\ Filters(filter \o text, IF widget = "field" THEN cursor ELSE 0)

TypeDigit == \E n \in DOMAIN Options : Answering({"list"}) /\ Closes(Ended("picked", n))

\* What the spinner stands for returns.
WorkReturns == Answering({"busy"}) /\ Closes(Ended("done", 0))

\* A line: a number of the list, nothing for the default, "-" to go back, or
\* something else, after which the question is asked again.
ReadLine ==
    \/ \E n \in DOMAIN Options : Answering({"lines"}) /\ Closes(Ended("picked", n))
    \/ Answering({"lines"}) /\ Closes(Ended("picked", cursor + 1))
    \/ Answering({"lines"}) /\ Closes(Ended("back", 0))
    \/ Answering({"lines"}) /\ UNCHANGED <<filter, cursor, outcome>>

\* The input ends: the keys are closed, or no line is left.  A spinner goes on.
NoMoreInput ==
    Answering(Lists \cup {"field", "lines"}) /\ Closes(Ended("eof", 0))

WidgetNext ==
    \/ MoveUp \/ MoveDown \/ Confirm \/ GoBack \/ CancelWidget \/ Erase \/ EraseAll
    \/ TypeText \/ TypeDigit \/ WorkReturns \/ ReadLine \/ NoMoreInput
=============================================================================
