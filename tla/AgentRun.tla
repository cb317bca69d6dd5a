------------------------------ MODULE AgentRun -------------------------------
(***************************************************************************)
(* One call of the program without its terminal                            *)
(* (src/cmd/internal/agentrunner/run.go): what it refuses, what it opens   *)
(* one after another and closes in reverse order, the inputs it submits,   *)
(* the loop that submits the lines it is given, the observer that writes   *)
(* what is recorded, and the exit code.  The coordinator is abstract: it   *)
(* records inputs and answers until it is idle after a stop, or fails.     *)
(* A process that was killed may be called again for the same session.     *)
(***************************************************************************)
EXTENDS Naturals, Sequences, FiniteSets, SequencesExt

CONSTANT Programs   \* what the program may be called with, and how many times

\* The messages of a request are a list.
ASSUME RunAssumption ==
    \A c \in Programs : c.request.messages \in Seq(Range(c.request.messages))

VARIABLES
    called,     \* what it is called with, a member of Programs
    calls,      \* calls so far
    program,    \* "off", "opening", "running", "closing", "exited" or "killed"
    stage,      \* how many of the stages are done
    opened,     \* what is open, in the order it was opened
    user,       \* the context of the program: "live" or "canceled"
    context,    \* the context of the run
    sent,       \* the inputs that runSession has yet to submit
    typing,     \* runInputLoop: "none", "reads" or "done"
    stdin,      \* the lines it has not read
    inputs,     \* the inputs in the inbox
    session,    \* what is recorded
    before,     \* how much of that an earlier call recorded
    log, out,   \* what the observer has written to its log, and to the output
    broken,     \* sessionObserver.err
    errors,     \* what the result joins
    code        \* the exit code, or "none"

runVars == <<called, calls, program, stage, opened, user, context, sent, typing, stdin,
             inputs, session, before, log, out, broken, errors, code>>

-----------------------------------------------------------------------------
(* What it is called with.                                                 *)

Efforts == {"", "low", "medium", "high", "xhigh", "max"}

\* validateRequest.  The ID of a message is "none" if it has none, and may be blank
\* or no UUID; a request that has no list of messages has a prompt.
Valid(request) ==
    /\ request.session # "blank" /\ request.effort \in Efforts
    /\ "blank" \notin request.tools
    /\ request.messages = <<>> => ~request.listed /\ request.prompt
    /\ \A n \in DOMAIN request.messages :
          LET message == request.messages[n]
          IN  message.role \in {"", "user"} /\ message.id \notin {"blank", "odd"}

\* resolveMaxAttempts: the request, else the environment, else the default.
AttemptsOf(request, named) ==
    IF request.attempts # "none" THEN request.attempts
    ELSE IF named # "none" THEN named ELSE "default"

\* Run, up to the session: what it needs before it opens anything.
Accepted(c) ==
    /\ c.words > 1 => c.interactive
    /\ ~(c.p /\ c.words # 0) /\ c.heartbeat >= 0 /\ c.mode \in {"", "off", "final", "all"}
    /\ (c.interactive /\ ~c.request.prompt) \/ Valid(c.request)
    /\ AttemptsOf(c.request, c.attempts) \notin {"zero", "text"}

\* With -p the program ends by itself, as it does when it is not interactive.
OneShot(c) == c.p \/ ~c.interactive

External(id) == [kind |-> "external", id |-> id]
Control(mode) == [kind |-> "control", id |-> mode]
Reply == [kind |-> "answer", id |-> ""]

\* The messages of a request; a prompt is one without an ID.
MessagesOf(request) ==
    IF request.listed THEN [n \in DOMAIN request.messages |-> External(request.messages[n].id)]
    ELSE IF request.prompt THEN <<External("none")>> ELSE <<>>

\* Mutant: the stop is submitted before the messages.
MutSubmissions(c) ==
    <<Control("settings")>> \o (IF OneShot(c) THEN <<Control("stop")>> ELSE <<>>)
        \o MessagesOf(c.request)

\* The settings come first, and the stop last.
Submissions(c) ==
    <<Control("settings")>> \o MessagesOf(c.request)
        \o (IF OneShot(c) THEN <<Control("stop")>> ELSE <<>>)

-----------------------------------------------------------------------------
(* Opening and closing.                                                    *)

\* Each stage may fail; what it opens is closed in the end.
Stages == <<"config", "workspace", "client", "metacog", "session", "log", "context",
            "tools", "skills", "inbox", "submit", "observer", "greeting">>
Closers == {"config", "workspace", "client", "log", "context", "tools", "observer"}

NeverRun ==
    /\ program = "off" /\ calls = 0 /\ stage = 0 /\ opened = <<>>
    /\ user = "live" /\ context = "live"
    /\ sent = <<>> /\ typing = "none" /\ stdin = <<>> /\ inputs = <<>>
    /\ session = <<>> /\ before = 0 /\ log = <<>> /\ out = <<>>
    /\ broken = FALSE /\ errors = {} /\ code = "none"

RunInit == NeverRun /\ called \in Programs

\* Run, from its flags to the first stage.  Each call has a log of its own.
Call ==
    /\ program \in {"off", "killed"} /\ calls < called.times /\ calls' = calls + 1
    /\ program' = IF Accepted(called) THEN "opening" ELSE "closing"
    /\ errors' = IF Accepted(called) THEN {} ELSE {"refused"}
    /\ stage' = 0 /\ opened' = <<>> /\ user' = "live" /\ context' = "live"
    /\ sent' = Submissions(called) /\ typing' = "none" /\ stdin' = called.lines
    /\ inputs' = <<>> /\ before' = Len(session) /\ log' = <<>> /\ out' = <<>>
    /\ broken' = FALSE /\ UNCHANGED <<called, session, code>>

\* One stage of Run and runSession; the user's file is for the interactive program.
OpenStage ==
    LET name == Stages[stage + 1]
    IN  /\ program = "opening" /\ stage < Len(Stages) /\ (name = "submit" => sent = <<>>)
        /\ stage' = stage + 1
        /\ opened' = IF name \in Closers /\ (name = "config" => called.interactive)
                     THEN Append(opened, name) ELSE opened
        /\ UNCHANGED <<called, calls, program, user, context, sent, typing, stdin, inputs,
                       session, before, log, out, broken, errors, code>>

OpenFails ==
    /\ program = "opening" /\ stage < Len(Stages)
    /\ Stages[stage + 1] \notin {"context", "submit", "observer"}
    /\ Stages[stage + 1] = "config" => called.interactive
    /\ program' = "closing" /\ errors' = {Stages[stage + 1]}
    /\ UNCHANGED <<called, calls, stage, opened, user, context, sent, typing, stdin, inputs,
                   session, before, log, out, broken, code>>

IDsIn(items) == {items[n].id : n \in {m \in DOMAIN items : items[m].kind = "external"}}

\* inbox.New and Inbox.Submit: an ID that was recorded or submitted before is dropped.
Submitted(input) ==
    IF /\ input.kind = "external" /\ input.id # "none"
       /\ input.id \in IDsIn(session) \cup IDsIn(inputs)
    THEN inputs ELSE Append(inputs, input)

\* One submission of runSession; there is none once the context is canceled.
SubmitInput ==
    /\ program = "opening" /\ stage < Len(Stages) /\ Stages[stage + 1] = "submit"
    /\ sent # <<>>
    /\ sent' = Tail(sent)
    /\ IF context = "live" /\ user = "live"
       THEN inputs' = Submitted(Head(sent)) /\ UNCHANGED <<program, errors>>
       ELSE program' = "closing" /\ errors' = {"submit"} /\ UNCHANGED inputs
    /\ UNCHANGED <<called, calls, stage, opened, user, context, typing, stdin, session,
                   before, log, out, broken, code>>

\* runInputLoop starts, unless there is nothing to wait for, and Coordinator.Run.
BeginRun ==
    /\ program = "opening" /\ stage = Len(Stages)
    /\ program' = "running"
    /\ typing' = IF OneShot(called) THEN "none" ELSE "reads"
    /\ UNCHANGED <<called, calls, stage, opened, user, context, sent, stdin, inputs, session,
                   before, log, out, broken, errors, code>>

\* The context of the run after a deferred call.
AfterClose(name) == IF name \in {"context", "tools"} THEN "canceled" ELSE context

\* One deferred call; those of a client, a log, the tools and the files may fail.
Close ==
    /\ program = "closing" /\ opened # <<>>
    /\ opened' = SubSeq(opened, 1, Len(opened) - 1)
    /\ context' = AfterClose(opened[Len(opened)])
    /\ \/ UNCHANGED errors
       \/ /\ opened[Len(opened)] \notin {"context", "observer"}
          /\ errors' = errors \cup {"close"}
    /\ UNCHANGED <<called, calls, program, stage, user, sent, typing, stdin, inputs, session,
                   before, log, out, broken, code>>

\* RunMain: an error is told on the output of a program that is not interactive.
Exit ==
    /\ program = "closing" /\ opened = <<>>
    /\ program' = "exited"
    /\ code' = IF errors = {} THEN "0" ELSE IF user = "canceled" THEN "130" ELSE "1"
    /\ \/ UNCHANGED out
       \/ code' = "1" /\ ~called.interactive /\ out' = Append(out, [kind |-> "error", id |-> ""])
    /\ UNCHANGED <<called, calls, stage, opened, user, context, sent, typing, stdin, inputs,
                   session, before, log, broken, errors>>

-----------------------------------------------------------------------------
(* The session.                                                            *)

\* A line of the input; the end of the input, like /quit, is a stop.  What is read
\* after the context was canceled is dropped.
SubmitLine ==
    LET line == IF stdin = <<>> THEN "/quit" ELSE Head(stdin)
        Accept(input) == IF context = "live" /\ user = "live" THEN Append(inputs, input) ELSE inputs
    IN  /\ typing = "reads" /\ program \in {"running", "closing"}
        /\ stdin' = IF stdin = <<>> THEN stdin ELSE Tail(stdin)
        /\ CASE line = "/quit"           -> typing' = "done" /\ inputs' = Accept(Control("stop"))
             [] line \in {"", "/help"}   -> UNCHANGED <<typing, inputs>>
             [] OTHER                    -> UNCHANGED typing /\ inputs' = Accept(External("none"))
        /\ UNCHANGED <<called, calls, program, stage, opened, user, context, sent, session,
                       before, log, out, broken, errors, code>>

\* sessionObserver.Observe: an item is written to the log and, if the program is not
\* interactive, to the output; after a write that failed none is, and the run is
\* canceled.
Observe(item) ==
    IF broken THEN UNCHANGED <<log, out, broken, context>>
    ELSE \/ /\ log' = Append(log, item)
            /\ out' = IF called.interactive THEN out ELSE Append(out, item)
            /\ UNCHANGED <<broken, context>>
         \/ /\ broken' = TRUE /\ context' = "canceled" /\ out' = out
            /\ log' = log \/ (~called.interactive /\ log' = Append(log, item))

RecordItem(item) == session' = Append(session, item) /\ Observe(item)

\* The inputs that the coordinator of this call has recorded.
RecordedNow == SubSeq(session, before + 1, Len(session))
Unanswered ==
    \E n \in DOMAIN session :
        /\ session[n].kind = "external"
        /\ \A m \in (n + 1)..Len(session) : session[m].kind # "answer"
Idle == ~Unanswered /\ Control("stop") \in ToSet(RecordedNow)

TakeInput ==
    /\ program = "running" /\ inputs # <<>>
    /\ inputs' = Tail(inputs) /\ RecordItem(Head(inputs))
    /\ UNCHANGED <<called, calls, program, stage, opened, user, sent, typing, stdin, before,
                   errors, code>>

\* The model answers what was said.
GiveAnswer ==
    /\ program = "running" /\ Unanswered /\ RecordItem(Reply)
    /\ UNCHANGED <<called, calls, program, stage, opened, user, sent, typing, stdin, inputs,
                   before, errors, code>>

\* Coordinator.Run returns: it is idle after a stop, it fails, or its context is
\* canceled; the error of the observer comes first, and an interrupt is none for
\* someone who types.
RunReturns ==
    /\ program = "running" /\ program' = "closing"
    /\ \E why \in {"idle", "failed", "canceled"} :
          /\ why = "idle" => Idle /\ context = "live" /\ user = "live"
          /\ why = "canceled" => context = "canceled" \/ user = "canceled"
          /\ errors' = IF broken THEN {"observer"}
                       ELSE IF \/ why = "idle"
                               \/ why = "canceled" /\ called.interactive /\ user = "canceled"
                            THEN {} ELSE {why}
    /\ UNCHANGED <<called, calls, stage, opened, user, context, sent, typing, stdin, inputs,
                   session, before, log, out, broken, code>>

\* The signal that cancels the context of main.
Signal ==
    /\ program \in {"opening", "running", "closing"} /\ user = "live" /\ user' = "canceled"
    /\ UNCHANGED <<called, calls, program, stage, opened, context, sent, typing, stdin,
                   inputs, session, before, log, out, broken, errors, code>>

\* The process dies: what is recorded and written stays.
Kill ==
    /\ program \in {"opening", "running", "closing"} /\ program' = "killed"
    /\ opened' = <<>> /\ inputs' = <<>> /\ typing' = "none"
    /\ UNCHANGED <<called, calls, stage, user, context, sent, stdin, session, before, log,
                   out, broken, errors, code>>

RunNext ==
    \/ Call \/ OpenStage \/ OpenFails \/ SubmitInput \/ BeginRun \/ Close \/ Exit
    \/ SubmitLine \/ TakeInput \/ GiveAnswer \/ RunReturns \/ Signal \/ Kill

\* The program goes on, its input ends, and the coordinator records, answers and,
\* when it is idle or canceled, returns.
RunFairness ==
    /\ WF_runVars(OpenStage \/ SubmitInput \/ BeginRun \/ Close \/ Exit)
    /\ WF_runVars(TakeInput \/ GiveAnswer) /\ WF_runVars(SubmitLine)
    /\ WF_runVars(RunReturns)
=============================================================================
