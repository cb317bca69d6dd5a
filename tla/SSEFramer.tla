----------------------------- MODULE SSEFramer -----------------------------
(***************************************************************************)
(* The framer that cuts a server-sent event stream into events             *)
(* (src/harness/primitives/remote_sse.go).  Bytes arrive in chunks of any  *)
(* size; a line ends at CR, LF or CR LF, and an empty line ends an event.  *)
(* A byte is "r" (CR), "n" (LF) or "x" (anything else).  The framer is a   *)
(* function of the bytes it was fed, one after the other, and of the       *)
(* frames that the current chunk has completed so far.                     *)
(***************************************************************************)
EXTENDS Naturals, Sequences, SequencesExt

CONSTANTS MaxFrame,    \* the maximum frame size
          MaxBytes,    \* length of the stream
          MaxChunk     \* length of a chunk

VARIABLES mode,        \* "strip" or "pass": what happens to delimiters
          fed,         \* the bytes fed so far
          framer,      \* the remoteSSEFramer
          emitted,     \* the data of the frames returned, in order
          ending       \* "none", "error" (a frame is too large) or "finished"

sseVars == <<mode, fed, framer, emitted, ending>>

Byte == {"x", "r", "n"}

NewFramer ==
    [frame |-> <<>>, size |-> 0, delimiterStart |-> 0, lineHasData |-> FALSE,
     afterCR |-> FALSE, frameEndedAtCR |-> FALSE, endedFrameSize |-> 0]

SSEInit ==
    /\ mode \in {"strip", "pass"}
    /\ fed = <<>> /\ framer = NewFramer /\ emitted = <<>> /\ ending = "none"

SSEIdle ==
    /\ mode = "none"
    /\ fed = <<>> /\ framer = NewFramer /\ emitted = <<>> /\ ending = "finished"

-----------------------------------------------------------------------------
\* One byte: the framer after it, the frames it adds, whether a frame is too
\* large.  frames are those of the same chunk.
Step(f, frames, failed) == [framer |-> f, frames |-> frames, failed |-> failed]

TooLarge(f) == f.size >= MaxFrame

Grow(f, b) == [f EXCEPT !.frame = Append(@, b), !.size = @ + 1]

TakeFrame(f, start) ==
    [data  |-> IF mode = "strip" THEN SubSeq(f.frame, 1, start) ELSE f.frame,
     after |-> [f EXCEPT !.frame = <<>>, !.size = 0, !.delimiterStart = 0]]

\* LF after the CR that ended a frame still belongs to that frame.
FeedSecondHalf(f, frames) ==
    IF f.endedFrameSize >= MaxFrame THEN Step(f, frames, TRUE)
    ELSE Step([f EXCEPT !.afterCR = FALSE, !.frameEndedAtCR = FALSE,
                        !.endedFrameSize = 0],
              CASE mode = "strip" -> frames
                [] frames # <<>>  -> [frames EXCEPT ![Len(frames)] = Append(@, "n")]
                [] OTHER          -> <<<<"n">>>>,
              FALSE)

\* LF after the CR that ended a line only lengthens the frame.
FeedLineFeed(f, frames) ==
    IF TooLarge(f) THEN Step(f, frames, TRUE)
    ELSE Step([Grow(f, "n") EXCEPT !.afterCR = FALSE], frames, FALSE)

FeedOther(old, frames, b) ==
    LET f     == [old EXCEPT !.afterCR = FALSE, !.frameEndedAtCR = FALSE,
                             !.endedFrameSize = 0]
        g     == Grow(f, b)
        line  == [g EXCEPT !.delimiterStart = Len(g.frame) - 1,
                           !.lineHasData = FALSE, !.afterCR = (b = "r")]
        taken == TakeFrame(g, g.delimiterStart)
    IN  CASE TooLarge(f)   -> Step(f, frames, TRUE)
          [] b = "x"       -> Step([g EXCEPT !.lineHasData = TRUE], frames, FALSE)
          [] g.lineHasData -> Step(line, frames, FALSE)
          [] OTHER         ->
               Step([taken.after EXCEPT
                        !.afterCR = (b = "r"),
                        !.frameEndedAtCR = (b = "r"),
                        !.endedFrameSize = IF b = "r" THEN g.size ELSE 0],
                    Append(frames, taken.data), FALSE)

\* Mutant: LF after CR is a line of its own.
MutFeedByte(step, b) ==
    IF step.failed THEN step ELSE FeedOther(step.framer, step.frames, b)

FeedByte(step, b) ==
    LET f == step.framer
    IN  CASE step.failed -> step
          [] f.afterCR /\ b = "n" /\ f.frameEndedAtCR -> FeedSecondHalf(f, step.frames)
          [] f.afterCR /\ b = "n" /\ ~f.frameEndedAtCR -> FeedLineFeed(f, step.frames)
          [] OTHER -> FeedOther(f, step.frames, b)

\* append, on one chunk.
AppendChunk(chunk) ==
    /\ ending = "none"
    /\ Len(fed) + Len(chunk) <= MaxBytes
    /\ LET after == FoldLeft(FeedByte, Step(framer, <<>>, FALSE), chunk)
       IN  /\ framer' = after.framer
           /\ emitted' = emitted \o after.frames
           /\ ending' = IF after.failed THEN "error" ELSE "none"
    /\ fed' = fed \o chunk
    /\ UNCHANGED mode

\* finish: a frame without its end is dropped, or passed through.
FinishStream ==
    /\ ending = "none"
    /\ emitted' = IF framer.frame = <<>> \/ mode = "strip" THEN emitted
                  ELSE Append(emitted, framer.frame)
    /\ ending' = "finished"
    /\ framer' = NewFramer
    /\ UNCHANGED <<mode, fed>>

Chunks == UNION {[1..n -> Byte] : n \in 1..MaxChunk}

SSENext == (\E chunk \in Chunks : AppendChunk(chunk)) \/ FinishStream

-----------------------------------------------------------------------------
\* What the frames of a stream are, from the stream as a whole.

\* The ends of lines: LF, and CR that no LF follows.
LineEnds(s) ==
    {i \in 1..Len(s) : s[i] = "n" \/ (s[i] = "r" /\ (i = Len(s) \/ s[i + 1] # "n"))}

\* Where the line that ends at i starts, and the last byte of its content.
LineStart(s, i) == Max({0} \cup {j \in LineEnds(s) : j < i}) + 1
LineLast(s, i) ==
    IF s[i] = "n" /\ i > LineStart(s, i) /\ s[i - 1] = "r" THEN i - 2 ELSE i - 1

EmptyLines(s) == {i \in LineEnds(s) : LineLast(s, i) < LineStart(s, i)}

\* The stripped frame that the empty line at i ends: the lines since the empty
\* line before it, without the end of the last one.
FrameAt(s, i) ==
    LET before == {j \in EmptyLines(s) : j < i}
        first  == Max({0} \cup before) + 1
        lines  == {j \in LineEnds(s) : first <= j /\ j < i}
    IN  IF lines = {} THEN <<>> ELSE SubSeq(s, first, LineLast(s, Max(lines)))

\* A frame with its end, or what follows the last one, is longer than the limit.
HasLongFrame(s) ==
    \E first \in {0} \cup EmptyLines(s), last \in 0..Len(s) :
        /\ last - first > MaxFrame
        /\ \A i \in EmptyLines(s) : i <= first \/ last <= i

FramesOf(s) ==
    LET ends == SetToSortSeq(EmptyLines(s), <)
    IN  [k \in 1..Len(ends) |-> FrameAt(s, ends[k])]
=============================================================================
