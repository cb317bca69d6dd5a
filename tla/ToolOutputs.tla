----------------------------- MODULE ToolOutputs ----------------------------
(***************************************************************************)
(* What becomes of an operation that a tool call waits for: the output of  *)
(* a command, read from the file it was captured in and bounded; an image  *)
(* that is scaled and encoded; the text of a skill; and what TranslateResult*)
(* tells the model of it, while it runs and when it has ended.             *)
(*                                                                         *)
(* A byte is "a", or the first or the second half of a character of two    *)
(* bytes; a half on its own is a character of its own, as an invalid byte  *)
(* is.  The longest character, utf8.UTFMax, has two bytes here.            *)
(***************************************************************************)
EXTENDS Integers, Sequences, SequencesExt, FiniteSets, FiniteSetsExt

CONSTANTS Limits,      \* values of Operation.MaxOutputLength
          MaxBytes,    \* the longest output of a command
          OtherTexts,  \* what the one of its outputs has that does not vary
          Images,      \* the images that are viewed
          ImageLimits  \* ViewImageConfig: MaxWidth, MaxHeight, MaxSize, MaxPixels

VARIABLES written,     \* the bytes in the two files the command's outputs go to
          operation    \* the operation

outputVars == <<written, operation>>

Streams == {"out", "err"}
Bytes == {"a", "first", "second"}
UTFMax == 2

-----------------------------------------------------------------------------
(* output.go: text of at most a number of characters.                      *)

IsPair(text, n) == n \in 1..(Len(text) - 1) /\ text[n] = "first" /\ text[n + 1] = "second"

\* How many bytes the first or the last characters of a text take.
FrontSize(text, characters) ==
    LET size[n \in 0..characters] ==
            IF n = 0 THEN 0
            ELSE LET s == size[n - 1]
                 IN  IF s = Len(text) THEN s ELSE IF IsPair(text, s + 1) THEN s + 2 ELSE s + 1
    IN  size[characters]

BackSize(text, characters) ==
    LET size[n \in 0..characters] ==
            IF n = 0 THEN 0
            ELSE LET s == size[n - 1]
                     e == Len(text) - s
                 IN  IF e = 0 THEN s ELSE IF IsPair(text, e - 1) THEN s + 2 ELSE s + 1
    IN  size[characters]

\* The first and the last characters, and how many bytes are left out between them.
\* The end of a longer text is in `back'; otherwise `front' is all of it.
BoundOutput(front, back, size, limit) ==
    LET end  == IF back = <<>> THEN front ELSE back
        head == FrontSize(front, limit \div 2)
        tail == BackSize(end, limit - limit \div 2)
    IN  IF back = <<>> /\ FrontSize(front, limit) = Len(front)
        THEN [head |-> front, skipped |-> 0, tail |-> <<>>, truncated |-> FALSE]
        ELSE [head |-> SubSeq(front, 1, head), skipped |-> size - (head + tail),
              tail |-> SubSeq(end, Len(end) - tail + 1, Len(end)), truncated |-> TRUE]

-----------------------------------------------------------------------------
(* shell.go: a file is read from its start, and a longer one also at its   *)
(* end.  A read is one step, of the file as it is then: the primitive fails*)
(* when the size of the file changes while it reads (IOPrimitives).        *)

ReadLimit(o)     == o.limit * UTFMax
TailReadLimit(o) == (o.limit - o.limit \div 2) * UTFMax

CreationPhases == {"create_directory", "create_out", "create_err"}
TailPhases     == {"read_out_tail", "read_err_tail"}
ReadingPhases  == {"read_out", "read_err"} \union TailPhases

StreamOf(phase) == IF phase \in {"create_out", "read_out", "read_out_tail"} THEN "out" ELSE "err"

NoOutput == BoundOutput(<<>>, <<>>, 0, 1)
NoImage  == [content |-> 0, width |-> 0, height |-> 0, type |-> "", encoded |-> "",
             ratio |-> <<1, 1>>, scaled |-> <<0, 0>>, error |-> ""]

\* Everything an operation of the three types keeps; `result' is <<>> or one result.
Operation(type, limit) ==
    [type |-> type, status |-> "awaiting", limit |-> limit,
     phase |-> IF type = "shell" THEN "create_directory" ELSE "", paths |-> {},
     pending |-> <<>>, size |-> [s \in Streams |-> 0], inline |-> [s \in Streams |-> <<>>],
     inlineTail |-> [s \in Streams |-> <<>>], result |-> <<>>, view |-> <<>>, error |-> ""]

FailedWith(o, how, why) == [o EXCEPT !.status = how, !.phase = "", !.error = why]

\* created: the directory, then the two files, and the path of each as it exists.
Created ==
    /\ operation.phase \in CreationPhases /\ operation.status = "awaiting"
    /\ operation' =
          CASE operation.phase = "create_directory" -> [operation EXCEPT !.phase = "create_out"]
            [] operation.phase = "create_out" ->
                  [operation EXCEPT !.phase = "create_err", !.paths = {"out"}]
            [] operation.phase = "create_err" ->
                  [operation EXCEPT !.phase = "process", !.paths = Streams]
    /\ UNCHANGED written

\* The bound on what a command writes: one of its outputs is any of at most MaxBytes
\* bytes, and the other one of OtherTexts.
Texts == UNION {[1..n -> Bytes] : n \in 0..MaxBytes}
OneVaries(texts) == \E s \in Streams : texts[s] \in OtherTexts

\* processEvent: the process has ended, with an exit status and all it wrote.
Exit ==
    /\ operation.phase = "process" /\ operation.status = "awaiting"
    /\ \E code \in {0, 1}, texts \in [Streams -> Texts] :
          /\ OneVaries(texts)
          /\ operation' = [operation EXCEPT !.phase = "read_out", !.pending = <<code>>]
          /\ written' = texts

\* What a phase asks for: the start, of which a longer file's head is kept, or the
\* end of the size that was read before.
ReadRequest(o) ==
    LET s == StreamOf(o.phase)
    IN  IF o.phase \in TailPhases
        THEN [offset |-> o.size[s] - TailReadLimit(o), count |-> TailReadLimit(o)]
        ELSE [offset |-> 0, count |-> ReadLimit(o)]

\* finish: both outputs are bounded, and nothing else that was read is kept.  An
\* output without a tail that is not all of it is boundOutput's panic.
WithResult(o) ==
    IF o.pending = <<>> THEN FailedWith(o, "failed", "no exit status")
    ELSE IF \E s \in Streams : o.inlineTail[s] = <<>> /\ o.size[s] # Len(o.inline[s])
    THEN FailedWith(o, "panic", "bound output")
    ELSE [o EXCEPT
             !.status = "completed", !.phase = "", !.pending = <<>>, !.paths = Streams,
             !.inline = [s \in Streams |-> <<>>], !.inlineTail = [s \in Streams |-> <<>>],
             !.result = <<[code |-> Head(o.pending),
                           shown |-> [s \in Streams |->
                               BoundOutput(o.inline[s], o.inlineTail[s], o.size[s], o.limit)]]>>]

\* The phase after both parts of a stream are there.
AfterStream(o) == IF StreamOf(o.phase) = "out" THEN [o EXCEPT !.phase = "read_err"] ELSE WithResult(o)

\* readCompleted: to the end of the file when it is longer than is read of it.
ReadHead ==
    LET s    == StreamOf(operation.phase)
        size == Len(written[s])
        read == [operation EXCEPT !.size[s] = size, !.inlineTail[s] = <<>>]
        kept == ReadLimit(operation) - TailReadLimit(operation)
    IN  /\ operation.phase \in ReadingPhases \ TailPhases /\ operation.status = "awaiting"
        /\ operation' = IF size > ReadRequest(operation).count
                        THEN [read EXCEPT !.inline[s] = SubSeq(written[s], 1, kept),
                                 !.phase = IF s = "out" THEN "read_out_tail" ELSE "read_err_tail"]
                        ELSE AfterStream([read EXCEPT !.inline[s] = written[s]])
        /\ UNCHANGED written

\* readEvent: a size that is not the one of the first read is an error.
ReadTail ==
    LET s       == StreamOf(operation.phase)
        request == ReadRequest(operation)
        end     == request.offset + request.count
    IN  /\ operation.phase \in TailPhases /\ operation.status = "awaiting"
        /\ operation' = IF operation.size[s] <= ReadLimit(operation)
                        THEN FailedWith(operation, "failed", "tail read size")
                        ELSE IF Len(written[s]) # end
                        THEN FailedWith(operation, "failed", "capture size changed")
                        ELSE AfterStream([operation EXCEPT !.inlineTail[s] =
                                              SubSeq(written[s], request.offset + 1, end)])
        /\ UNCHANGED written

\* A process that left the group of its shell goes on writing.  It matters between the
\* two reads of a file: before, it is as if the command had written more; after, nobody
\* looks.
WriteOn ==
    LET s == StreamOf(operation.phase)
    IN  /\ operation.phase \in TailPhases /\ operation.status = "awaiting"
        /\ \E byte \in Bytes : written' = [written EXCEPT ![s] = Append(@, byte)]
        /\ Len(written'[s]) <= MaxBytes /\ OneVaries(written')
        /\ UNCHANGED operation

-----------------------------------------------------------------------------
(* image.go.                                                               *)

Formats == {"jpeg", "png", "bmp", "tiff", "webp"}

\* A fraction is a pair; math.Round rounds a half up.
Less(f, g)  == f[1] * g[2] < g[1] * f[2]
Rounded(f)  == (2 * f[1] + f[2]) \div (2 * f[2])
Ratio(image, limits) ==
    CHOOSE f \in {<<1, 1>>, <<limits.MaxWidth, image.width>>, <<limits.MaxHeight, image.height>>} :
        \A g \in {<<1, 1>>, <<limits.MaxWidth, image.width>>, <<limits.MaxHeight, image.height>>} :
            ~Less(g, f)

Scaled(length, ratio) == Max({1, Rounded(<<length * ratio[1], ratio[2]>>)})

\* inspectViewImage: what the header says, and what is wrong with it.
Inspected(image) ==
    CASE image.format = "unknown" -> [NoImage EXCEPT !.error = "header"]
      [] image.format # "unknown" /\ (image.width = 0 \/ image.height = 0) ->
            [NoImage EXCEPT !.width = image.width, !.height = image.height, !.error = "dimensions"]
      [] OTHER -> [NoImage EXCEPT !.width = image.width, !.height = image.height,
                                  !.type = image.format,
                                  !.error = IF image.format \in Formats THEN "" ELSE "format"]

DefaultPixels == 32000000
MaxPixels(limits) == IF limits.MaxPixels = 0 THEN DefaultPixels ELSE limits.MaxPixels

\* What the encoder writes, in bytes; a JPEG that is not scaled is passed on as it is.
EncodedSize(image, ratio) ==
    IF image.format = "jpeg" /\ ~Less(ratio, <<1, 1>>) THEN image.bytes
    ELSE Scaled(image.width, ratio) * Scaled(image.height, ratio)

\* imageContentWriter: it counts all that is written and keeps none past its limit.
ContentKept(size, limit) == IF size > limit THEN 0 ELSE size

\* prepareViewImage: decode, scale and encode, and stop at the first thing that is
\* wrong.  `cause' is what was wrong with the read before.
Prepared(image, limits, cause) ==
    LET seen  == Inspected(image)
        ratio == Ratio(image, limits)
        size  == EncodedSize(image, ratio)
        done  == [seen EXCEPT !.ratio = ratio, !.content = ContentKept(size, limits.MaxSize),
                      !.scaled = <<Scaled(image.width, ratio), Scaled(image.height, ratio)>>,
                      !.encoded = IF image.format = "jpeg" THEN "jpeg" ELSE "png"]
    IN  IF cause # "" THEN [seen EXCEPT !.error = cause]
        ELSE IF seen.error # "" THEN seen
        ELSE IF image.width > MaxPixels(limits) \div image.height
             THEN [seen EXCEPT !.error = "pixels"]
        ELSE IF ~image.intact THEN [seen EXCEPT !.error = "decode"]
        ELSE IF size > limits.MaxSize THEN [done EXCEPT !.error = "size", !.content = 0]
        ELSE done

\* processed: the result of the computation, which may begin with the error of a read
\* that failed after its first bytes - with the header or without - or with a source
\* that has too many bytes.
ViewImage ==
    \E cause \in {"", "read", "source size"}, header \in BOOLEAN :
        LET image  == IF cause = "read" /\ ~header
                      THEN [operation.view[1] EXCEPT !.format = "unknown"] ELSE operation.view[1]
            result == Prepared(image, operation.view[2], cause)
        IN  /\ operation.type = "view_image" /\ operation.status = "awaiting"
            /\ operation' = [operation EXCEPT !.result = <<result>>,
                                 !.status = IF result.error = "" THEN "completed" ELSE "failed"]
            /\ UNCHANGED written

-----------------------------------------------------------------------------
(* Operations end early, or have nothing to read but a text.               *)

\* fail and cancel of a command and of a skill keep what there is; those of an image
\* give a result that says nothing of it.
EndEarly(how) ==
    /\ operation.status = "awaiting"
    /\ operation' = IF operation.type = "view_image"
                    THEN [operation EXCEPT !.status = how,
                                           !.result = <<[NoImage EXCEPT !.error = how]>>]
                    ELSE FailedWith(operation, how, how)
    /\ UNCHANGED written

LoadSkill ==
    /\ operation.type = "skill_use" /\ operation.status = "awaiting"
    /\ operation' = [operation EXCEPT !.status = "completed"]
    /\ UNCHANGED written

-----------------------------------------------------------------------------
(* TranslateResult: the parts of the tool's output; <<>> is the error that *)
(* ends Run.                                                               *)

If(condition, part) == IF condition THEN <<part>> ELSE <<>>

Unended == {"ready", "awaiting", "canceling"}

\* translateOperationResult.
ShellParts(o) ==
    IF o.result # <<>>
    THEN LET result == o.result[1]
         IN  If(result.shown["out"] # NoOutput, "out") \o If(result.shown["err"] # NoOutput, "stderr")
             \o If(result.code # 0, "exit code")
    ELSE If("out" \in o.paths, "stdout capture") \o If("err" \in o.paths, "stderr capture")

TranslateShell(o) ==
    LET parts == ShellParts(o) \o If(o.error # "" \/ o.status # "completed", "error")
    IN  CASE o.status \in Unended -> <<"running">>
          [] o.status = "completed" /\ o.result = <<>> -> <<>>
          [] (o.status = "completed" /\ o.result # <<>>) \/ o.status \in {"failed", "canceled"} ->
                IF parts = <<>> THEN <<"no output">> ELSE parts
          [] OTHER -> <<>>

\* imageMetadata.
Metadata(image, failed) ==
    If(image.type # "" /\ (failed \/ image.type # image.encoded), "type")
    \o If(image.width > 0 /\ image.height > 0 /\ (failed \/ Less(image.ratio, <<1, 1>>)), "dimensions")

TranslateImage(o) ==
    LET image == o.result[1]
        ok == /\ o.result # <<>>
              /\ image.content > 0 /\ image.encoded # "" /\ image.error = ""
              /\ Less(<<0, 1>>, image.ratio) /\ ~Less(<<1, 1>>, image.ratio)
    IN  CASE o.status \in Unended -> <<"running">>
          [] o.status \in {"failed", "canceled"} ->
                <<"error">> \o (IF o.result = <<>> THEN <<>> ELSE Metadata(image, TRUE))
          [] o.status = "completed" /\ ok ->
                <<"image">> \o Metadata(image, FALSE) \o If(Less(image.ratio, <<1, 1>>), "multiply")
          [] OTHER -> <<>>

TranslateSkill(o) ==
    CASE o.status \in Unended                -> <<"running">>
      [] o.status = "completed"              -> <<"skill">>
      [] o.status \in {"failed", "canceled"} -> If(o.error # "", "error")
      [] OTHER                               -> <<>>

TranslateResult(o) ==
    CASE o.type = "shell"      -> TranslateShell(o)
      [] o.type = "view_image" -> TranslateImage(o)
      [] o.type = "skill_use"  -> TranslateSkill(o)

-----------------------------------------------------------------------------
OutputsInit ==
    /\ written = [s \in Streams |-> <<>>]
    /\ \/ \E limit \in Limits : operation = Operation("shell", limit)
       \/ operation = Operation("skill_use", 1)
       \/ \E image \in Images, limits \in ImageLimits :
             operation = [Operation("view_image", 1) EXCEPT !.view = <<image, limits>>]

OutputsNext ==
    \/ Created \/ Exit \/ ReadHead \/ ReadTail \/ WriteOn
    \/ LoadSkill \/ ViewImage \/ \E how \in {"failed", "canceled"} : EndEarly(how)

-----------------------------------------------------------------------------
(* Properties.                                                             *)

\* The places between two characters, and the one that has k before it.
Cuts(text) == {n \in 0..Len(text) : ~IsPair(text, n)}
CutAt(text, k) == CHOOSE n \in Cuts(text) : Cardinality({m \in Cuts(text) : m < n}) = k

\* The text as it is, or its first and last characters and the bytes between them.
Shown(text, limit) ==
    LET characters == Cardinality(Cuts(text)) - 1
        head       == CutAt(text, limit \div 2)
        tail       == CutAt(text, characters - (limit - limit \div 2))
    IN  IF characters <= limit
        THEN [head |-> text, skipped |-> 0, tail |-> <<>>, truncated |-> FALSE]
        ELSE [head |-> SubSeq(text, 1, head), skipped |-> tail - head,
              tail |-> SubSeq(text, tail + 1, Len(text)), truncated |-> TRUE]

\* Reading only the two ends of the file, at two moments, shows what bounding the
\* whole file at one moment would, whatever bytes it has; and a checkpoint between
\* the two reads is one that a restart accepts.
OutputIsWhole ==
    operation.type = "shell" =>
        /\ operation.status # "panic"
        /\ operation.status = "completed" =>
               \A s \in Streams : operation.result[1].shown[s] =
                   Shown(SubSeq(written[s], 1, operation.size[s]), operation.limit)
        /\ \A s \in Streams :
               Len(operation.inline[s]) + Len(operation.inlineTail[s]) <= ReadLimit(operation)

\* An image that is shown is within every limit, no smaller than it has to be, and
\* its coordinates lead back to the original's, to within a pixel shown; one that
\* is not shown has an error and no content.
ImageFits ==
    LET shown  == operation.result[1]
        image  == operation.view[1]
        limits == operation.view[2]
        sides  == <<image.width, image.height>>
        ratio  == shown.ratio
    IN  operation.type = "view_image" /\ operation.result # <<>> =>
            IF operation.status # "completed" THEN shown.content = 0 /\ shown.error # ""
            ELSE /\ shown.scaled[1] \in 1..limits.MaxWidth /\ shown.scaled[2] \in 1..limits.MaxHeight
                 /\ shown.content \in 1..limits.MaxSize
                 /\ image.width * image.height <= MaxPixels(limits)
                 /\ \/ shown.scaled = sides
                    \/ shown.scaled[1] = limits.MaxWidth \/ shown.scaled[2] = limits.MaxHeight
                 /\ \A d \in 1..2 : shown.scaled[d] * ratio[2] \in
                        (sides[d] * ratio[1] - ratio[2])..(sides[d] * ratio[1] + ratio[2])
                 /\ shown.scaled # sides => "multiply" \in ToSet(TranslateResult(operation))

\* Whatever an operation has come to, the model can be told: an error of
\* TranslateResult would end Run, also in every process that resumes the session.
ResultsAreTold == TranslateResult(operation) # <<>>
=============================================================================
