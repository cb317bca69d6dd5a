---------------------------- MODULE TerminalKeys ----------------------------
(***************************************************************************)
(* How what is typed reaches the program (keyDecoder and console in        *)
(* src/cmd/internal/agentrunner/terminal.go): the terminal, in raw mode,   *)
(* writes bytes; a goroutine reads them in chunks, decodes each chunk and  *)
(* sends the keys on a channel, and another one sends the changes of the   *)
(* terminal's size.  Only a paste is carried from one chunk to the next.   *)
(*                                                                         *)
(* A byte is a name; "e1" and "e2" are the bytes of one rune, and the      *)
(* parameter of an escape sequence counts as one byte.                     *)
(***************************************************************************)
EXTENDS Integers, Sequences, FiniteSets, SequencesExt, FiniteSetsExt

CONSTANTS Pasted,      \* pieces of what may be pasted: sequences of bytes
          MaxStrokes,  \* bound on what is typed
          KeyRoom      \* the capacity of the channel (64)

ASSUME KeysAssumption == MaxStrokes \in Nat /\ KeyRoom \in Nat \ {0}

VARIABLES
    typed,      \* what is typed, a sequence of strokes
    wire,       \* its bytes that have not been read
    torn,       \* a read ended within the bytes of a stroke
    chunk,      \* s: what is left of the chunk that is being decoded
    pasting,    \* d.pasting
    pasteBuf,   \* d.pasteBuf
    events,     \* keys that are decoded and not sent
    channel,    \* console.keys
    input,      \* "open", "closed", or "panic" after a send on the closed channel
    heard       \* the keys the program has received

keyVars == <<typed, wire, torn, chunk, pasting, pasteBuf, events, channel, input, heard>>

KeyEvent(kind, text) == [kind |-> kind, text |-> text]
Resize == KeyEvent("resize", <<>>)

-----------------------------------------------------------------------------
(* The keyboard: what each stroke sends, and the keys it stands for.       *)

Stroke(bytes, kind, text) == [bytes |-> bytes, means |-> <<KeyEvent(kind, text)>>]

PasteStart == <<"ESC", "[", "200", "~">>
PasteEnd   == <<"ESC", "[", "201", "~">>

\* The line breaks of a paste, whatever they were, are those of the editor.
Breaks(text) ==
    FoldLeftDomain(LAMBDA done, i :
        CASE text[i] = "CR" -> Append(done, "LF")
          [] text[i] = "LF" /\ i > 1 /\ text[Max({i - 1, 1})] = "CR" -> done
          [] OTHER -> Append(done, text[i]), <<>>, text)

Bodies == {<<>>} \cup Pasted \cup {p \o q : p, q \in Pasted}

Strokes ==
    {Stroke(<<"a">>, "rune", <<"a">>), Stroke(<<"e1", "e2">>, "rune", <<"e1", "e2">>),
     Stroke(<<"CR">>, "enter", <<>>), Stroke(<<"ESC", "CR">>, "newline", <<>>),
     Stroke(<<"ESC">>, "esc", <<>>), Stroke(<<"ESC", "[", "3", "~">>, "delete", <<>>),
     [bytes |-> <<"ESC", "[", "Z">>, means |-> <<>>]}
    \cup {Stroke(PasteStart \o body \o PasteEnd, "paste", Breaks(body)) : body \in Bodies}

Meant(strokes) == FlattenSeq([i \in DOMAIN strokes |-> strokes[i].means])
Sent(strokes)  == FlattenSeq([i \in DOMAIN strokes |-> strokes[i].bytes])

KeysInit ==
    /\ typed \in BoundedSeq(Strokes, MaxStrokes) /\ wire = Sent(typed)
    /\ torn = FALSE /\ chunk = <<>> /\ pasting = FALSE /\ pasteBuf = <<>>
    /\ events = <<>> /\ channel = <<>> /\ input = "open" /\ heard = <<>>

\* Where a read may end without tearing a stroke: between two strokes, or within
\* what is pasted; and where it must, since an escape is only one at the end of a
\* chunk.
MayEnd(strokes, at) ==
    \E n \in 0..Len(strokes) :
        LET before == Len(Sent(SubSeq(strokes, 1, n)))
        IN  \/ at = before
            \/ /\ n < Len(strokes) /\ IsPrefix(PasteStart, strokes[n + 1].bytes)
               /\ at - before \in 4..(Len(strokes[n + 1].bytes) - 4)

Escapes(strokes) ==
    {Len(Sent(SubSeq(strokes, 1, n))) : n \in {m \in DOMAIN strokes : strokes[m].bytes = <<"ESC">>}}

-----------------------------------------------------------------------------
(* readKeys.                                                               *)

Read(n) ==
    LET from == Len(Sent(typed)) - Len(wire)
    IN  /\ input = "open" /\ chunk = <<>> /\ events = <<>>
        /\ torn => n = Len(wire)
        /\ chunk' = SubSeq(wire, 1, n) /\ wire' = SubSeq(wire, n + 1, Len(wire))
        /\ torn' = (torn \/ ~MayEnd(typed, from + n)
                         \/ Escapes(typed) \cap (from + 1)..(from + n - 1) # {})
        /\ UNCHANGED <<typed, pasting, pasteBuf, events, channel, input, heard>>

EndOfInput ==
    /\ input = "open" /\ wire = <<>> /\ chunk = <<>> /\ events = <<>>
    /\ input' = "closed"
    /\ UNCHANGED <<typed, wire, torn, chunk, pasting, pasteBuf, events, channel, heard>>

SendKey ==
    /\ input = "open" /\ chunk = <<>> /\ events # <<>> /\ Len(channel) < KeyRoom
    /\ channel' = Append(channel, Head(events)) /\ events' = Tail(events)
    /\ UNCHANGED <<typed, wire, torn, chunk, pasting, pasteBuf, input, heard>>

\* The goroutine that watches the size of the terminal; one change is enough.
SendResize ==
    /\ input # "panic" /\ Resize \notin Range(channel \o heard)
    /\ \/ /\ input = "open" /\ Len(channel) < KeyRoom
          /\ channel' = Append(channel, Resize) /\ UNCHANGED input
       \/ input = "closed" /\ input' = "panic" /\ UNCHANGED channel
    /\ UNCHANGED <<typed, wire, torn, chunk, pasting, pasteBuf, events, heard>>

ReceiveKey ==
    /\ input # "panic" /\ channel # <<>>
    /\ heard' = Append(heard, Head(channel)) /\ channel' = Tail(channel)
    /\ UNCHANGED <<typed, wire, torn, chunk, pasting, pasteBuf, events, input>>

-----------------------------------------------------------------------------
(* decode: one round of its loop.                                          *)

\* Where seq occurs first in text, 0 if nowhere.
First(seq, text) ==
    LET at == {i \in 1..(Len(text) - Len(seq) + 1) :
                  SubSeq(text, i, i + Len(seq) - 1) = seq}
    IN  IF at = {} THEN 0 ELSE Min(at)

Decoded(keys, size) ==
    /\ events' = events \o keys
    /\ chunk' = SubSeq(chunk, size + 1, Len(chunk))
    /\ UNCHANGED <<pasting, pasteBuf>>

All == Len(chunk)

\* Mutant: a paste ends with the chunk that it begins in.
MutPaste ==
    LET end == First(PasteEnd, chunk)
        size == IF end = 0 THEN All ELSE end + Len(PasteEnd) - 1
    IN  /\ events' = Append(events, KeyEvent("paste", Breaks(SubSeq(chunk, 1, size))))
        /\ chunk' = SubSeq(chunk, size + 1, Len(chunk))
        /\ pasteBuf' = <<>> /\ pasting' = FALSE

\* What is pasted is collected up to the marker, which has to be in one chunk.
Paste ==
    LET end  == First(PasteEnd, chunk)
        text == pasteBuf \o SubSeq(chunk, 1, IF end = 0 THEN All ELSE end - 1)
    IN  /\ chunk' = IF end = 0 THEN <<>> ELSE SubSeq(chunk, end + Len(PasteEnd), All)
        /\ pasteBuf' = IF end = 0 THEN text ELSE <<>>
        /\ pasting' = (end = 0)
        /\ events' = IF end = 0 THEN events ELSE Append(events, KeyEvent("paste", Breaks(text)))

BeginPaste ==
    /\ pasting' = TRUE /\ chunk' = SubSeq(chunk, Len(PasteStart) + 1, All)
    /\ UNCHANGED <<pasteBuf, events>>

\* Bytes 0x40 to 0x7e end a sequence; the others are its parameters.
Finals == {"Z", "a", "~", "["}

\* CSI: a sequence that the chunk does not hold as a whole is dropped.
Sequence ==
    LET ends == {i \in 3..All : chunk[i] \in Finals}
        last == Min(ends)
    IN  IF ends = {} THEN Decoded(<<>>, All)
        ELSE Decoded(IF SubSeq(chunk, 3, last) = <<"3", "~">>
                     THEN <<KeyEvent("delete", <<>>)>> ELSE <<>>, last)

Escape ==
    CASE All = 1                    -> Decoded(<<KeyEvent("esc", <<>>)>>, 1)
      [] All > 1 /\ chunk[2] = "CR" -> Decoded(<<KeyEvent("newline", <<>>)>>, 2)
      [] All > 1 /\ chunk[2] = "["  -> Sequence
      [] OTHER                      -> Decoded(<<>>, 1)

\* Control bytes and runes; the first bytes of a rune at the end of a chunk are
\* dropped, and others that are none become the replacement character.
Plain ==
    LET byte == Head(chunk)
    IN  CASE byte = "CR" -> Decoded(<<KeyEvent("enter", <<>>)>>, 1)
          [] byte = "LF" -> Decoded(<<KeyEvent("newline", <<>>)>>, 1)
          [] byte = "e1" /\ All = 1 -> Decoded(<<>>, 1)
          [] byte = "e1" /\ All > 1 /\ chunk[2] = "e2" ->
               Decoded(<<KeyEvent("rune", <<"e1", "e2">>)>>, 2)
          [] OTHER -> Decoded(<<KeyEvent("rune", <<byte>>)>>, 1)

DecodeKeys ==
    /\ chunk # <<>>
    /\ CASE pasting                                      -> Paste
         [] ~pasting /\ IsPrefix(PasteStart, chunk)      -> BeginPaste
         [] ~pasting /\ ~IsPrefix(PasteStart, chunk) /\ Head(chunk) = "ESC" -> Escape
         [] OTHER                                        -> Plain
    /\ UNCHANGED <<typed, wire, torn, channel, input, heard>>

KeysNext ==
    \/ \E n \in 1..Len(wire) : Read(n)
    \/ DecodeKeys \/ SendKey \/ SendResize \/ ReceiveKey \/ EndOfInput

\* Goroutines run, and the terminal passes on what is typed.
KeysFairness ==
    WF_keyVars(\/ \E n \in 1..Len(wire) : Read(n)
               \/ DecodeKeys \/ SendKey \/ ReceiveKey \/ EndOfInput)
=============================================================================
