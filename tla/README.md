# Heuristic: a verification project in TLA+

Heuristic (`src/`) is a terminal agent written in Go. A session is a durable
history; a *coordinator* reads the user's inputs from an *inbox*, asks a *model*
for responses, turns the tool calls of a response into *operations*, and has an
*operation manager* run them. Around it are the terminal, the clients of the model providers, a
metacognition layer that checks the model's answers, and the settings and sign-ins of
the user. Any process may die at any moment, and the next one
resumes the session from its file. This directory holds TLA+ modules translated
from that code, the TLC runs that check them on small instances, and proofs that
TLAPS checks for every value of the constants.

## The system

| Component | State it keeps | Operations | Interacts with |
|---|---|---|---|
| Coordinator (`harness/coordinator`) | `loopState` (turn, open tool calls, operations, delivery counters, grace timer), stop request, in-flight model call | `Run`: restore, then a `select` over inputs, updates, heartbeat, grace timer, model responses | receives from the inbox and the manager (channels), appends to the store (calls), calls the model (goroutine) |
| Inbox (`harness/inbox`) | queue of inputs, set of IDs seen | `Submit`, `Output` | one goroutine; filled by the terminal, drained by the coordinator |
| Session store (`harness/sessionstore`, `localfile`) | one append-only file per session, cache of write states | `Create`, `Fork`, `Resume`, the `Append*` calls, `SaveOperation`, `Items` | one lock; called by the coordinator and by `openSession` |
| Operation manager (`operation/local_manager.go`) | accepted IDs, running operations, active primitives, pending updates | `Add`, `Cancel`, `Updates` | one goroutine; starts primitives, talks to remote job handlers |
| Operations (`shell.go`, `image.go`, `skill_use.go`, `value.go`) | phase and result of one operation | `Handle(event)` | run by the manager, one durable checkpoint per step |
| Tools (`harness/tool`) | the registered skills | `DiscoverSkills`, `RegisterSkill`, `Resolve`, `Translate`, `TranslateResult` | called by `runSession` once and by the coordinator for every call |
| Primitives (`harness/primitives`) | a process and its pipes, a file, a timer, an HTTP request | start, write, close, signal, cancel | goroutines that send events on an unbuffered channel |
| Context builder (`harness/contextbuilder`) | committed and staged parts of the request | `Add*`, `Build` | called by the coordinator for every item |
| MetaCog (`harness/llm/metacog`) | switches of answers, background check, cached verdicts | `Respond`: draft, more paths, vote, judge, prune | wraps a model adapter; asks a judge over HTTP; reports switches to the terminal |
| Responses API (`harness/llm/responsesapi`), clients | the attempt under way, the items of its stream | `Respond` with retries | runs the remote primitive; called by MetaCog or the coordinator's model goroutine |
| Agent runner (`cmd/internal/agentrunner/run.go`) | what it has opened | `Run`: settings, store, tools, session, observer, exit code | creates all of the above |
| Terminal (`tui_session.go`, `tui.go`, `terminal.go`, `widgets.go`) | the session it drives, queued messages, the switches, the edited text | keys, commands, stops, restarts | reads keys in a goroutine, runs each session in another |
| Settings (`onboarding.go`, `codex_login.go`, `setup.go`, `metacog.go`) | environment, `config.env`, sign-in files | the wizard, `/login`, `/model`, loading and saving | before the first session and between sessions |

The behaviours that are hard here: three channels, two timers and a model
goroutine race in one `select`; every step of the coordinator changes memory and
then the file, and may die in between; a session can be resumed any number of
times, with operations that were running, finished or canceled when the last
process died; inputs are retried by clients; appends can fail after part of a
record, or all of it, has reached the file; processes leave descendants that hold
their pipes open; servers stall, break off and repeat; a check of an answer runs
on while the next turn is prepared; the terminal hears bytes in chunks of any size;
and the user goes back and forth between steps that have already saved something.

What makes each component correct:

* **Coordinator**: the delivery counters agree with the history; every call gets
  one result; a request shows the history as the model saw it; a message or a
  result is eventually answered even while other calls run; stopping is complete;
  replay rebuilds the state.
* **Inbox**: order, and each external ID once, across resumes.
* **Session store**: acknowledged records survive crashes and power losses; the
  cache agrees with the file; whatever failed before, a session opens again; a
  resume returns what the coordinator needs.
* **Operation manager**: at most one start per ID, updates in order, a finished
  status last, and no goroutine left behind by a shutdown.
* **Operations and primitives**: no process is started twice, one final event
  per primitive, a result that matches what happened, and no process, pipe or
  goroutine left when it has been reported.
* **Tools**: what is offered can be called, what a call submits can be told about
  in every state it can end in, and long outputs are cut without losing count.
* **MetaCog**: no check changes anything once the turn that canceled it goes on;
  only answers replace answers; the judge is heard as a whole or not at all.
* **Responses API**: an answer is returned once, whole, and as the provider sent it,
  in this process and in those that resume the session.
* **Terminal and runner**: one session at a time; what is recorded is what is
  written; what is typed is what is heard; the conversation and the switches are
  kept over restarts; every call of the program ends.
* **Settings**: a connection that was checked is the one that is used, now and by
  the next process, and the environment is given back as it was.

## Modules

| Module | Models | Built on |
|---|---|---|
| `SessionTypes` | turns, calls, operations, statuses, inputs, history items; what a fork has of the history of its parent | |
| `Inbox` | `inbox.Local`: the queue and the IDs it has seen | `SessionTypes` |
| `SessionStore` | the store as the coordinator uses it: history, saved operations, what an append accepts, what a resume and a fork return | `SessionTypes` |
| `OperationManager` | what `operation.Manager` promises; `ManagerSpec` is that promise as a specification of its own | `SessionTypes` |
| `ContextBuilder` | the requests made of the history | `SessionTypes` |
| `Coordinator` | `coordinator.Run` with its crashes and restarts | the four above |
| `DurableLog` | abstract: one log per session, whose acknowledged prefix survives | |
| `LocalStore` | `localfile`: files, cache, system calls, failures, crashes, power losses; implements `DurableLog` and `SessionStore` | `SessionTypes` |
| `OperationActors` | the value, skill, image and shell operations as functions from checkpoint and event to step | `SessionTypes` |
| `LocalOperationManager` | the event loop of the local manager, its primitives and its remote job handlers | `OperationActors` |
| `DurableOperations` | that manager with a client that stores checkpoints and with crashes; implements `OperationManager` | `LocalOperationManager` |
| `ToolRegistry` | discovery and registration of skills, the prompt's list, `Translate` | |
| `ToolOutputs` | the bounded output of a command, scaled images, `TranslateResult` | |
| `PrimitiveContract` | abstract: output in order, one final event, nothing after it | |
| `ProcessPrimitive` | a process, its group, pipes, readers, supervisor and controls; implements the contract | |
| `IOPrimitives` | reads, creates, computations and timers; implement it too | |
| `SSEFramer` | the framer of event streams, byte by byte | |
| `RemotePrimitive` | an HTTP request with retries, backoff and idle timer | |
| `ResponsesAPI` | `Respond` of the Responses API client | |
| `ModelItems` | the items of a conversation: answered, in memory, stored, sent back | |
| `MetaCog` | turns of the adapter: paths, vote, background check, switches | |
| `JudgeCalls` | one judging step with its workers and its time limit | |
| `RequestRouting` | what MetaCog does to a request before the model sees it | |
| `TerminalSession` | the loop that drives sessions, commands, stops, switches | |
| `TerminalKeys`, `LineEditor`, `Widgets` | bytes to keys; the edited text, its history, menu and drawing; questions | |
| `AgentRun` | a call of the program without its terminal | |
| `Configuration`, `CodexLogin`, `Onboarding` | settings and their files; the sign-ins; a process from its start to its end as far as its settings go | one another, in this order |
| `MCCoordinator`, `MCLocalStore`, `MCDurableOperations`, `MCToolCalls`, `MCPrimitives`, `MCExchange`, `MCTurns` | instances for TLC | |
| `CoordinatorProofs`, `DurableOperationsProofs`, `LocalStoreProofs`, `OnboardingProofs` | theorems about these components | the component, TLAPS |
| `PrimitiveProofs`, `ExchangeProofs` | theorems about the primitives, and about the exchange between `ResponsesAPI` and `RemotePrimitive` | `MCPrimitives`, `MCExchange`, TLAPS |
| `MetaCogProofs`, `TerminalProofs` | theorems about `MetaCog`, `JudgeCalls` and `RequestRouting`; about `TerminalSession` and `AgentRun` | `MCTurns`, TLAPS |

How they compose. `Coordinator` runs on `Inbox`, `SessionStore`, `OperationManager`
and `ContextBuilder`. The contracts among these are implemented: `LocalStore` keeps
what `SessionStore` promises and is a `DurableLog`; `DurableOperations` implements
`OperationManager`; `ProcessPrimitive` and `IOPrimitives` implement
`PrimitiveContract`, the events that `LocalOperationManager` receives. The
coordinator is checked against the contracts and not against the implementations,
which together would be out of TLC's reach. `MCExchange` runs `ResponsesAPI` on
`RemotePrimitive`. `Onboarding` runs on `CodexLogin` and `Configuration`.

Some runs hold components that share no state (the parts of `MCTurns`, of
`MCToolCalls`, of `MCExchange`, of `MCPrimitives` and of `MCLocalStore`). A behaviour
of such a run is a behaviour of one part, named by a variable that never changes
(`part`, `caller`, `kind`, `kept`), while the others stay idle; the state space is the
sum of theirs and not the product.

Two differences between a contract and its implementation. The coordinator's runs let
an operation report progress once (`Report`), `ManagerSpec` any number of times
(`Checkpoint`): an operation that reports more often gives the coordinator the same
step again. And `OperationManager` accepts every operation, as the local one does for
every type the program submits.

## How state and actions correspond to the code

**SessionTypes** has the vocabulary. Random identifiers are positions: turn *n* is
the *n*-th turn, a tool call is a turn with a call ID (`toolCallKey`), and an
operation is a slot of a tool call. The payloads of messages, calls and results
are left out; settings are an input without an effect on the loop.

**Inbox**, **SessionStore** and **OperationManager** are what the coordinator
relies on, as small state machines with one operator per operation.
`SessionStore` states what an append accepts (`AcceptsItem`, `AcceptsOperation`)
separately from its effect, so that a run can check that the coordinator never
makes an append the store refuses. `ForkSession` puts the history of the fork in the
place of its parent's, without the saved operations; `ForkedItems`, the items a
fork begins with, is shared with `LocalStore`. A status that is inherited names the operations it
waits for and has none (`"inherited"`), and the store accepts responses and
statuses for the turns that the session itself has recorded (`OwnsTurn`).

**Coordinator** is `loop.go`. `state` is `loopState`, `pc` is the place in `Run`
(restore, scheduling, the `select`, the three parts of `processEvents`, the
decision at the end of the loop body). Each action is a handler with every
append it makes: the code changes memory first and the store second, but a crash
between the two loses the memory, which is the same as a crash before the step;
and an append that fails ends `Run`, which is `Crash`. A model request is a member
of `inflight` until its goroutine hands over the result, even when `model`
(`cancelModel != nil`) says that nobody waits for it any more. `slurpChannel`'s
quiet period and item limit are one nondeterministic choice to stop.
`Crash` and `Restart` may happen at every step; `Restart` builds a new inbox with
the recorded IDs, a new manager, and replays the history item by item
(`RestoreItem`) before `RestoreOperations` puts in the resumed operations. `OpenFork`
is a `Restart` that goes on in a fork: a client has forked the session at a turn, and
the run follows the new session. Where the replay meets the fork item, `AddFork` forgets the
calls, the operations and the grace period and keeps the counts of deliveries. `Replayed` is
that replay in one piece, as a recursive function over the history (`StateAfter`), for
`ReplayRebuildsState`.

**LocalStore** is `localfile`: `files` holds the records each file has, whether an
incomplete line follows them and how much of it is synced; `cache` is
`writeStateCache`; `call` is the system call the current store call has reached.
The code changes the maps of a cached head in place before it writes, and
`StartAppend` does the same. Every system call may fail, a write after any number
of bytes; `Crash` loses the memory, `PowerLoss` any unsynced suffix and an
unsynced name. `Replay` is `decodeLog`: the heads of the header and of each record after
it (`InheritedHeads`, `Heads`, `DecodeRecord`), and the items they hold (`Items`).
**DurableLog** is the abstract
specification of the files: one log per session, that is published, grows by a
record, is acknowledged as a whole, or loses records that are not acknowledged.
`IsDurable` says that the files of `LocalStore` implement it, and `KeepsPromise` that what
a resume computes from the records is what `SessionStore`
promises the coordinator.

**OperationActors** has one operator per method of `Shell`, `ViewImage`, skill use and
value: from a checkpoint and an event, the `Step` with the next checkpoint and the
primitive to dispatch. What has been read is a number of chunks. The fields that
live in memory only (`readSize`, `processing`) are reset by `Checkpointed`.

**LocalOperationManager** is `run`: one action per case of the `select`, and one for
each place where the loop is in the middle of a case and other goroutines can still
act (`StartOperation` after an `Add`, `FailJob` for each job of a handler that
stopped). A primitive is a record in `primitives` until it has handed over its last
event; `EventTypes` says which events it may hand over, depending on what it is
doing and on the context. A handler's forwarder is what it holds (`forwarding`).
`closed` is the mark the loop makes. The handlers themselves are external: they may
send any status, for any running operation, and close at any time.

**DurableOperations** adds the client: `stored` is what the session store has of each
operation, `AddStored` hands over what is unfinished, `StoreCheckpoint` receives and
stores. The coordinator receives several updates before it handles them; a crash
loses them like those it has not received. `starts` and `unrecorded` are history
variables for the properties.

A resumed manager knows nothing of the processes of the one that died
(`NewLocalOperationManager` starts empty), and the model forgets them too.

**ContextBuilder** is `builder.go`: `committed` is what the last requests showed,
`staged` what waits for the next `Build`; a staged status that says a call
runs gives way to a newer one, and one that was sent stays, with the result behind it.
The coordinator feeds it item by item, live and in the replay. It keeps what a fork
inherits, but no later status answers a call from before the fork item, which the
coordinator has forgotten (`AddForkToContext`); and an inherited status gives no result
while the operations it waits for are missing.

**ToolRegistry** follows `runSession` from the discovery of the skill files
(`DiscoverSkills`, one `Discover` per file) to the registrations and the prompt. A
file is its lines; a file that cannot be read has none, like an empty one. Since no
call changes the registry, one call stands for any. The package also lets an
embedder register and unregister skills at any time (`Embed`): these behaviours have
no session. **ToolOutputs** follows one shell operation through its phases: the
directory and the two files are created (`Created`), the process ends (`Exit`), and each
file is read at its start and, if it is longer, at its end (`ReadHead`, `ReadTail`,
which are `readCompleted` and `finish`), with a surviving process that appends in between
(`WriteOn`); `BoundOutput` counts characters as the code does, from both ends. Bytes are
`"a"` and the two halves of a character of two bytes. Of an image, the
numbers are kept: the ratio is a fraction, and the encoded size of a scaled image is
its number of pixels. `TranslateResult` gives the parts of what the model is told;
`<<>>` is the error that would end `Run`.

**ProcessPrimitive** is `process.go`: `pc` is the supervisor of one `StartProcess`
invocation, `reader[s]` the goroutine of a pipe, `control[c]` the goroutine of an
invocation that writes, closes or signals; `child` and `kin` are the process and a
descendant that holds its pipes open. Output is counted in chunks; a progress event
may be dropped once the context is canceled, a final one never. **IOPrimitives** has
the others, with files and entries that change while they run. **PrimitiveContract**
is what all of them promise, and `KeepsContract` the refinement, by a mapping from
the places of the code to the phases of an invocation.

**SSEFramer** is the framer of `remote_sse.go` as a function of the bytes it was fed.
**RemotePrimitive** is the goroutine of one request: prepare, `do`, read, judge, rule
(the retry policy), wait, with the idle timer that may fire in any of its calls.
**ResponsesAPI** is `Respond`: `stream` is what one attempt has told, `result` what
was returned. A response is a sequence of payloads; the code looks at their type,
index, whether the item can be decoded, and the body of the last one, and so do they.
**ModelItems** has the four forms of an item and the conversions between them: a
JSON object is a function from its field names, so that what is left out is absent,
and a text is a sequence of pieces.

**MetaCog** is `adapter.go` with `vote.go`: a turn is a call of `Respond`; `think` is
the goroutine or the inline check of its first answer, `pool` the paths that may be
chosen, in the order of the code; `swaps` replaces answers in later requests,
`reported` is what the terminal was told. A turn begins when the one before has
returned or was interrupted. **JudgeCalls** is `scoreEach` with its semaphore, its
first error and its timeout; **RequestRouting** is `prepare`: effort, tools and old
results, with verdicts cached by text.

Where the guards of a `CASE` overlap, the first one that holds decides, as TLC evaluates
it and as the `switch` it stands for does.

**TerminalSession** is `tui_session.go`. A conversation is a number; the switches are
maps, kept by the loop, by the terminal and by the adapter of the session that runs; a
session is given the first two when it is ready (`GivenSwitches`). `latest` and `missed` are
history variables: the last switch of each answer that the terminal has heard of, and
the answers whose switch came from a check of an earlier session too late for the one that runs.
`live` is that session, `strays` counts sessions the loop no longer drives and that
have not returned. `HangUp` is the end of the program's context, which the loop sees
in the same step; the pickers of commands are choices of their outcome.
**TerminalKeys** decodes bytes in chunks of any size and a resize of the terminal;
**LineEditor** is the text, its history, the menu and the lines that are drawn;
**Widgets** the questions, in a terminal and line by line.

**AgentRun** is `Run` and `runSession` for a program without a terminal: `Stages` are
what it opens one after the other and closes in reverse; the coordinator in it is
abstract, recording inputs and answers until it is idle after a stop, fails or is
canceled. A killed program may be called again with the same request.

**Configuration** has the environment as a function from present names to values,
what is loaded over it and taken back, and `Connection`, which the clients are made
from. `Loads` is one call of `loadDotEnvInto`; what it remembers is undone by `CloseScope`,
one deferred `Close` per step and the last one first, and at once where a variable cannot
be set (`LoadFails`). **CodexLogin** are the two sign-ins with their goroutines, **Onboarding** the
wizard with its steps back, the commands that change settings, and the processes that
follow each other over the same files and may die while they write one.

## What the runs check

| Run | Instance | What it shows |
|---|---|---|
| `safety` | two parallel calls, two submissions (a message, the same again, a stop), a heartbeat, one resume of the session or of a fork of it | `TypeOK`. `PendingMatchesHistory`: the delivery counters always count what the history has unanswered. `OneResultPerCall`: no call gets two final results. `RequestsAreTrue`: each request has every call with its result, but for a call that a fork has inherited without one, in the order providers demand, and what an earlier request showed stays as it was. `UnfinishedAreDispatched`: nothing that is unfinished is left to nobody. `IdleStopIsComplete`: a stop when idle leaves no message or result unanswered, and no call that was made to this session without a result. |
| `recovery` | one call a turn with two operations that report progress, messages and settings, two resumes, each of the session or of a fork | `ReplayRebuildsState`: at every moment a replay of the history and the saved operations gives the loop state in memory. `InputsRecordedOnce`: retried messages are recorded once over all resumes. |
| `stop` | two messages and stops, three submissions in all, that interrupt requests; operations that end as canceled | `HardStopIsComplete`, `NoWorkAfterCancellation`: a hard stop leaves nothing running and no call made to this session without a result, and nothing starts after it. `AppendsAreAccepted`: the store never refuses an append of the coordinator, whatever late response arrives. |
| `live` | two calls, a message, stops, one resume of the session or of a fork, under `FairSpec` | `EverythingIsDelivered`: messages and results are answered although other calls still run. `StopsEnd`: `Run` ends. |
| `local_store` | sessions: one and a fork of it, every system call failing. Settings: four kinds of providers, three environments, processes that save and die | `SessionsReopen`: no failure or crash leaves a session that cannot be opened, and a cached head is the replay of its file. `IsDurable`: refinement of `DurableLog`. `KeepsPromise`: the resume agrees with `SessionStore`. `SetupTakesEffect`: the connection a check accepted is the one sessions use, now and in later processes. `EnvironmentIsRestored`. `KeysHaveOneReader`: no widget is shown while a goroutine still reads the keys. |
| `operations` | one operation of any type, a handler, two updates of its own accord, one crash, under `FairSpec` | `OperationsGoOn`: in every interleaving an operation goes on where it was; its events are the expected ones, the newest checkpoint on its way to the store is what the manager holds, and a command is repeated only if its start was never stored. `StoredNeverGoesBack`: statuses only move forward in the store. `CancellationEnds`: what is canceled ends, and so does a shutdown. |
| `manager` | operations: two, skill reads or jobs of two handlers, one crash. Tools: two skill files that may be broken in six ways, calls that fit some tools and not others, an embedder with three registrations. Outputs of up to five bytes, images of several shapes | `CallsAreAnswered`: the registry is sound and offers exactly the skills that can be loaded; a call is refused with a reason or submits one operation; while that runs it has the one primitive its phase awaits or a handler that still serves it, and the drain waits for exactly those (`NothingIsStranded`); what it comes to can be told, its output cut as if the whole file had been read at once, its image within the limits. `ImplementsManager`: refinement of `OperationManager!ManagerSpec`. |
| `primitives` | a process with two pipes, a descendant and two controls; a read, a create, a computation, a timer; a stream of six bytes in chunks of up to three | `KeepsContract`: refinement of `PrimitiveContract`. `CompletedMeansDone`: what is reported as done is done, all output included. `NothingIsLeftRunning`. `CancellationEnds`. `FramingIgnoresChunks`: frames do not depend on the chunks. |
| `exchange` | twelve kinds of payloads, three per response, two attempts of the adapter, six of the primitive; eight answers in a session of three records and two kinds of clients | `AnswerIsKept`: an answer is returned once and whole, and every later request has it as it was, also after a restart. `ChannelIsQuiet`: no goroutine of an earlier attempt is left that could send. `CompletedIsWhole`: what is reported as completed was received as it was sent. `RespondReturns`. |
| `turns` | two turns with three paths; three candidates of a judge; requests of four items; three drives of a terminal with two keys; strokes, pastes, texts of four runes; four calls of the program | `JudgeIsHeard`: a vote that leaves the choice to the judge had no agreement, scores are whole, requests are pruned only where a verdict says so. `SwitchesAreSafe`: answers are replaced by answers only, and every switch is reported. `CanceledChecksAreQuiet`: a check that was canceled changes nothing. `SessionsAreOrderly`: one session at a time; what is written is what is recorded; success means all was answered; nothing stays open. `SwitchesSurvive`: of the switches that the user makes and MetaCog reports, none is lost and the later of two wins; a session replaces by all that were reported before it was ready, and by no other. `TypingIsHeard`: keys, pastes, cursor and picks. `EverythingEnds`. |
| `started_once`, `conversation` | one shell operation with a crash; the terminal of `turns` | the two findings below |

Every property of a passing run is broken by a mutant of the code, an operator
named `Mut...` next to the definition it changes.

Deadlock is not checked in these runs because the system really stops: `Run`
ends, `Respond` returns, a primitive sends its final event, and the bounds on inputs,
turns, resumes and files end everything else.

### Bounds

* `MaxTurn`, `MaxSubmit`, `MaxHeartbeat`, `MaxRestart` bound turns, submissions,
  heartbeats and resumes. They are guards of the actions that count them. Two
  parallel calls, an input that arrives while they run and a crash are what the
  accounting properties need; a third message only repeats the second.
* `ForkTurns` are the turns at which the session may be forked: the first, whose
  calls may be open, have a status or be finished by then. A fork counts as a resume of
  `MaxRestart`, so that `recovery` also resumes a fork and forks one again. The `stop` run
  resumes nothing and has none.
* `ToolTurns` says which turns may call tools, so that the last turns end the
  conversation; `Submittable` which inputs clients send in this run;
  `Progress` and `Outcome` which statuses operations report.
* `MaxRecords` and `MaxTotal` bound the records of session files. Five records are
  a header, a turn, a response, a status and a saved operation; a fork of it fits
  in the total.
* `MaxTurn` is 6 in the coordinator's runs, more than the turns any
  behaviour within the other bounds asks for: it cuts nothing off.
* `MaxPending` bounds the checkpoints that wait for the client: the manager's `select`
  receives nothing while there are that many. Two are enough for a checkpoint that
  waits behind another's. `MaxJobUpdates` bounds what handlers send or close of
  their own accord, two of which are needed to go forward and back; `MaxCrash` the
  crashes; `FileSize` is the number of chunks a read delivers, two for a chunk that
  follows another.
* `MaxPayloads` and the attempts of `exchange`: a payload that decides an attempt, one
  before it and one after; one retry, because a second finds what the first found.
  With `PolicyAttempts = 6` the backoff (2, 4, 8, 16, 30) reaches its limit, and a
  doubling that were not limited first would wrap around at `MaxDuration = 31`.
  `MaxRecords = 3` (4 checked once): an answer, its tool result, the next answer.
* `MaxOutput`, `MaxSize`: two chunks, the second of which is lost if a reader stops
  early. `MaxMeddling` lets other processes change a file between any two steps.
  `MaxFrame = 4`, `MaxBytes = 6`, `MaxChunk = 3`: a frame that ends at the limit, one
  byte beyond it, and every cut of CR LF.
* `Limits` of one and two characters and `MaxBytes = 5`, for one output at a time, while
  the other has one of `OtherTexts`: texts that fit, that are one
  character too long, and that are read at two ends; `MCTexts` is one file per way to be
  broken. Larger instances (limits to 3, 7 bytes, images of all sizes to 6 by 6, three
  files of eight texts, four registrations) were checked once.
* `LastTurn = 2`, `Vote = 2`, `MediumPaths = 1`: a check and the turn that cancels it; a
  vote with one agreement. `MCSettings` are the settings that take different branches; a
  background check of calls without a vote was checked once.
* `MaxItems = 4` (5 checked once) is the system item, two messages and a bulky result
  beyond `KeepRecent`. `CacheLimit = 1` makes the cache forget.
* `MaxKeys = 2`, `MaxDrives = 3` (3 keys checked once): a command, a stop that is not
  obeyed, a restart. `Tick` re-arms the forced stop as often as there are keys.
* `MaxStrokes = 2`, `KeyRoom = 1`: strokes that follow each other in one chunk or not,
  and a channel that is full. `MaxText`, `MaxPressed`, `MaxAnswers` bound what is typed.
* `MCPrograms`: a request that is killed and called again, one that is refused, a
  prompt with `-p`, and someone who types. `times` bounds the calls.
* `MaxEvents = 3` counts processes and saves, `MaxDetours` the steps back in the wizard:
  a process that sets up, one that starts with what it saved, a change in between.

### Fairness

`FairSpec` assumes weak fairness of the coordinator's own steps (its goroutine is
scheduled, timers fire, a request in flight returns: `modelResponseIdleTimeout` ends one
that is silent, and the context of an interrupted request is canceled) and that an
operation whose context is canceled ends. Operations that are not canceled may
run for ever, so `EverythingIsDelivered` shows that a running call does not
withhold anything else. The second part of `StopsEnd` assumes, in its statement, that
operations end: the code cannot stop idle without it.

In `DurableOperations`, Go's `select` takes a case that is ready at random and serves
waiting senders in order, so that an event which keeps being offered is received:
strong fairness for the events of one operation and for one handler, because the
loop is busy with others in between. A process that is canceled dies (it is
signalled and then killed), the client receives, a handler answers a
cancellation, and forwarders stop with the context. Nothing is assumed about
processes that are not canceled, about clients adding or canceling, or about
handlers making updates.

Elsewhere weak fairness is assumed of goroutines and of what has a time limit, never of
another process or a server on its own. In `ProcessPrimitive`, goroutines go on, the
consumer receives, and a killed process dies; a process that is not killed may run and
keep its pipes for ever. In `RemotePrimitive`, the network may be silent for ever: the
idle timer fires, and a context that is over ends the calls of the transport. A server
that drips is bounded by `MaxPayloads` (each payload resets the timer in the code, so
that `RespondReturns` holds for responses that end). In `MetaCog` and `JudgeCalls`, paths and requests of
the judge may take for ever, the deadline of more paths and `JudgeTimeout` pass, and a
context that is over ends what runs in it. In `TerminalSession`, the loop serves its
channels, the force-stop timer passes, and a session whose context is canceled ends;
none has to obey a stop. In `TerminalKeys` what is typed is passed on. In `AgentRun` the
program goes on, the lines it is given end, and the coordinator ends when it is idle
after a stop, or canceled.

## What is proved

The theorems hold for every value of the constants, under the assumptions named in
the modules (`MaxTurnAssumption`, `OutcomeAssumption`, ...): bounds are naturals,
progress statuses are unfinished and outcomes finished.

* `CoordinatorProofs!Typing`: `Spec => []TypeOK`. `TypeOK` is inductive; the module
  has one type lemma for every helper of the loop (what `AddItem`, `FinishCall`,
  the schedule and the replay return) and one step for every action.
* `CoordinatorProofs!Dispatching`: `Spec => []UnfinishedAreDispatched`. The
  property speaks of the loop, and while a response is scheduled it does not hold:
  `DispatchInv` adds that what is not handed over then belongs to the batch of calls
  that the end of the scheduling hands over, and that updates come only from operations
  that were handed over.
* `CoordinatorProofs!Cancellation`: `Spec => NoWorkAfterCancellation`, an action
  property. It follows from `StopInv`: once the cancellation is requested the loop only
  waits (`OnlyWaiting`), what the manager runs and reports is unfinished in the state
  (`WorkIsUnfinished`), and a new manager has nothing (`ManagerIsNew`); so the only
  steps that change an operation are updates, of operations that are unfinished already.
* `CoordinatorProofs!RecordedOnce`: `Spec => []InputsRecordedOnce`. An ID may be
  in the queue, in the batch the loop has taken, or in the history. `InputInv` says
  that the three never share an ID, that none of them holds one twice, and that the
  inbox has seen all of them; the last part is what a restart rebuilds from the
  history.
* `CoordinatorProofs!OneResult`, `Acceptance` and `HardStop`:
  `Spec => []OneResultPerCall`, `Spec => AppendsAreAccepted` and
  `Spec => []HardStopIsComplete`. The invariant `HistoryInv` says two things. The history
  is in order (`InOrder`): turns grow, a response follows its turn and is its only one, a
  status follows its call, and a result is the last status of its call and has the
  operations of all of them. And the loop state matches the history (`Matches`), in a
  restore as far as it has been replayed: its turn is the latest, its open calls are
  those without a result, its operations those that statuses have mentioned. `NextItem`
  shows that adding an item keeps the match, whether it is replayed or recorded, which is
  why a crash between any two steps does no harm; `Appending` says what every step
  that records an item does, and each of the five is shown to be one. For the hard stop,
  `StageInv` adds how far a round of the loop has come. `Matches` is about the
  calls of this session (`OwnCalls`): those before a fork item belong to its parent,
  whose results may never come.
* `CoordinatorProofs!Accounting` and `IdleStop`: `Spec => []PendingMatchesHistory` and
  `Spec => []IdleStopIsComplete`. `Matches` has a part for the counts (`CountsMatch`):
  `available` is the number of deliveries in the history, and `delivered` that of those an
  answered turn has shown. The lemmas `DeliveriesGrow` and `CountsGrow` say, with the
  cardinalities of finite sets, what each kind of item does to the two numbers. The idle
  stop follows, because the counts and the open calls are all that `isIdle` looks at;
  of a fork's inherited calls it says nothing, as the open calls are this session's own.

* `DurableOperationsProofs`: `GoingOn` (`[]OperationsGoOn`), `NobodyIsStranded`
  (`[]NothingIsStranded`, the part of `CallsAreAnswered` that is about the manager) and
  `StoredGoesOn` (`StoredNeverGoesBack`). One invariant, kept by each of the actions,
  carries them: every checkpoint, stored, queued or held, is one an actor can be in and
  resume from (`ActorsInv`); a running operation has exactly the primitive its phase
  awaits, at the offset it has read to, and `activePrimitives` is their number
  (`PrimitivesInv`); the statuses of the stored, the queued and the held checkpoints
  follow each other (`OrderInv`); and the last one on its way is the current one
  (`CurrentInv`). `PromiseKept`: `Spec => ImplementsManager`, the refinement of
  `OperationManager!ManagerSpec`, with one lemma for every action that says which step
  of the promise it is, or that it is none.
* `PrimitiveProofs`: `Done` (`[]CompletedMeansDone`), `NothingLeft`
  (`[]NothingIsLeftRunning`) and `ContractKept` (`Spec => KeepsContract`, the refinement of
  `PrimitiveContract`). That a reader has drained its pipe when the supervisor joins it
  needs to know how supervisor, child and descendants stand to each other (`ChildInv`,
  `GroupInv`: after the last poll whatever is alive has been killed, or could not be), when
  a reader runs and between which offsets (`ReaderRuns`, `ReaderOffsets`), what was handed
  over of what it sent (`Delivery`), and what it had read when the process was reaped
  (`Drained`). `IOInv` is the same for reads and creates.
* `ExchangeProofs`: `Quiet` (`[]ChannelIsQuiet`) and `Whole` (`[]CompletedIsWhole`, with the
  types of both components). `RemoteInv` says what the goroutine of a request may still
  offer at each of its places, and that an attempt without an error ended properly and
  before its timer; `GotInv`, that the caller has all that was sent except what is on offer
  or was withdrawn; `AdapterInv`, that the primitive is idle unless `Respond` receives.
  A primitive with any retry policy and an adapter with any number of attempts are covered.

* `LocalStoreProofs!Durability`: `Spec => IsDurable`, the refinement of `DurableLog`.
  A file never holds less than what was acknowledged because of two facts that the
  property does not mention, and the inductive invariant `StoreInv` adds: what is
  acknowledged has been synced, under a name that has been synced (`FileInv`), so that a
  power loss cannot take it; and the size that the next append truncates a file to is that
  of the whole file, whether it waits in the cache or in the call under way
  (`IsCurrent`, `Appends`), so that the truncate takes an incomplete line and nothing else.
  Each step of a file is then a `Publish`, `Grow`, `Acknowledge` or `Lose` of
  its log, or changes nothing of it. No assumption about the constants is used.
* `MetaCogProofs!Switching` and `Quieting`:
  `MetaCogInit /\ [][MetaCogNext]_metaVars => []SwitchesAreSafe`, and the same for
  `CanceledChecksAreQuiet`. The invariant follows a check from its first answer to its
  end: it thinks only after the draft has returned, a choice is a member of its pool, a
  choice other than the first is made only among final answers (`ThinksInOrder`), the
  call has no other switch than that one (`SwapsOnce`), and a `Respond` that has gone on
  has seen the end of the check it canceled (`WaitsForEnd`). That the vote chooses a
  member of the pool rests on the existence of a least element, which follows from
  `WellFoundedInduction`.
* `TerminalProofs!OneSession` and `Replaying`: `[]OneSessionAtATime`, the first part of
  `SessionsAreOrderly`, and `[]SwitchesSurvive`. `OneDriven` counts the sessions that were
  abandoned: there is none while the loop drives one or will drive another. `PathsAgree`
  says that the loop and the terminal together hold `latest`; that nothing is known of an
  answer whose check has not been reported; that a switch which its own session's check is about to
  report is in that session already; and that a session which was given the switches has all of
  them but `missed`. Only a check of an earlier session can report one that
  the running session lacks, and so only that enters `missed`.
* `OnboardingProofs!OneReaderOfKeys`: `[]KeysHaveOneReader`, since `codexLogin` goes on
  only after the goroutine that waits for a pasted code has returned (`OneReader`).

Some properties compare what the program has with what a loop over stored data gives
again. Their theorems need an induction over that data. It is done with sets: the
positions up to which the loop does what is claimed contain the first and, with each,
the next one, and so contain all (`NumbersBelow`, from the well-foundedness of `<` on the
naturals).

* `CoordinatorProofs!Rebuilding`: `Spec => []ReplayRebuildsState`. `Matches` says nothing
  of the replay itself; `MatchesAgree` shows that the history and the saved operations
  determine the state it speaks of, `StateAfterMatches` that a replay of any part of the
  history matches that part, and `ReplayInv` that the position of the replay, the
  operations a resume put in and the scheduled turn leave no other state.
* `CoordinatorProofs!Requesting`: `Spec => []RequestsAreTrue`. The requests are those of
  the context that the history leads to (`ContextAfter`), and a turn is the last item of
  a history that satisfies the orders of `HistoryInv`. `Shows` says what the context keeps
  of the items it was made from: which calls are open, that the number of requests is the latest
  turn, that what was sent stays as it is until it is answered, that each answer stands behind its
  request, that calls and statuses show, that results follow a call and committed ones have
  been sent, and that a final result is the last of its call. Each kind of item preserves
  it (`MessageShows`, `TurnShows`, `ResponseShows`, `StatusShows`). Two facts about the order of
  the history had to be added, `CountedInv`: turns are numbered without a gap, and
  when one begins every call has a status, since the loop begins a turn only after it has
  scheduled or reconciled every new call (`StageInv`). Deleting a result that says
  "running" keeps the rest (`WithoutKeeps`). The builder knows a call by its ID
  alone, so the order of results is claimed where the ID is of one call; that every
  call has a result is claimed of all but those whose result stayed with the session that
  this one was forked from (`IsLost`).
* `LocalStoreProofs!Reopening` and `Keeping`: `Spec => []SessionsReopen` and
  `Spec => []KeepsPromise`. The heads of a file are a recursive function of its records
  (`HeadsExist`); `ReopenInv` says that every record of every file was one its head
  accepts, that a fork inherits items that its parent still has, and that a cached
  head is that of the records that count. For the promise, `HeadTells` gives what a
  head knows of the items before it: which turn is the last, which calls are open, which
  operations have been saved.
* `MetaCogProofs!Hearing`: `[]JudgeIsHeard`, stated for the `Spec` of `MCTurns`.
  `VoteInv` says that a choice which is left to the judge had no two paths that agree,
  `JudgeInv` that the scores a step returns with are those of all its workers or none,
  whatever the order of answers, errors and the time limit, and `RequestInv` that a
  request differs from what it was only by an effort, tools or results that a verdict
  names, with any number of items and a cache that forgets.
* `TerminalProofs!Orderly`: `Spec => []SessionsAreOrderly` of `MCTurns`, with the sessions
  of a terminal and the calls of the program. `OpenInv` says what a call has opened at
  each of its stages, failed ones included, and that it is closed in reverse;
  `WrittenInv`, that what is written is a prefix of what is recorded, and all of it once
  the observer has returned; `AnsweredInv` and `DeliveryInv`, that a call ends with
  success only when each input is answered.
* `OnboardingProofs!Restoring`: `[]EnvironmentIsRestored`. A file's lines are undone from
  the last to the first (`LinesAreUndone`), a variable that the file and the proxy both set
  gets back what it was before the first (`SetIsUndone`), and `Restorable` says that the
  scopes that are open, undone in that order, lead back to the environment of the start.
* `OnboardingProofs!TakingEffect`: `[]SetupTakesEffect`. `WizardInv` says what has been
  asked for by the time the wizard is at a step, however often it went back, so that what
  a check accepted can be resolved again; `Says` is that: settings that name one
  connection and need nothing else. `ConnInv` says where they are: in the overrides, in the
  file, and from the loading on in the environment, and that a session is resolved from
  what the terminal sees now.

The strengthened invariants of the coordinator, the operations, the primitives, the
exchange and the settings were checked with TLC before they were proved; of the other
theorems, the properties. Where a theorem speaks of a component's own steps
(`MetaCogInit /\ [][MetaCogNext]_metaVars`, `OnboardingInit /\ ...`), its variables
change by no other step in the run that holds it.

`CallAssumption` says that there are finitely many calls to choose from; every response
has finitely many, and `Requesting` needs that they can be put in an order. Assumptions
that the proofs about primitives and the exchange use: output and sizes are
bounded by naturals (`OutputAssumption`, `IOBoundsAssumption`), standard output is a
stream and the kinds are those of the code (`StdoutAssumption`, `KindsAssumption`), a payload is
one of the events of `StreamEvents` (`AdapterAssumption`), and a retry policy has at least
one attempt (`PolicyAssumption`), which `remote.go:487` demands. `RunAssumption` says that
a program is one of the kinds of `AgentRun` and its inputs are finite;
`OnboardingAssumption`, that the environment a process is given and the `.env` of a workspace
have finitely many variables, that the entries offered are of the catalog, and that what
is typed is not empty, which the prompts do not return.

Only model-checked:

* `FramingIgnoresChunks`, `AnswerIsKept`, the bounded output and the registry of
  `CallsAreAnswered`, and `TypingIsHeard`: what they say is computed by the folds
  (`FoldLeft`, `FoldLeftDomain`) and by `SelectSeq` over sequences of records and bytes. A proof
  would be one about those operators, whose library definitions recurse in ways the
  provers cannot expand, and not about the steps of the program, for which the
  bounds of the runs are wide;
* every liveness property: fairness and `ENABLED` are beyond the prover.

## Findings

* **A command can run twice** (run `started_once`). `Shell.dispatchPhase` makes the
  checkpoint of the process phase and the dispatch of the process in one step, and
  `acceptLocalStep` queues the one and starts the other. If the program dies after the process
  has started and before the coordinator has stored that checkpoint, the stored
  phase is `create_err`; the resumed operation uses the existing files and starts
  the command again. `Shell.resume` and its test
  (`TestShellActorFailsUnknownProcessOutcomeWithoutRestarting`) mean to fail a start
  that was not recorded. `OperationsGoOn` (run `operations`) shows that this window is
  the only way.
* **A command may restart another conversation** (run `conversation`). `command` takes
  the conversation from the handle of the session. Without a handle, after an error or
  while a session starts, it takes the one the program was started with, and `/model`,
  `/login` or `/metacog` leave the conversation the user is in. The comment on
  `tui_session.go` says that a session is restarted.

What the models show besides, and no document of the repository denies:

* A job update that names a running local operation indexes the handlers with -1
  (`failRemoteJobOperation`) and panics; `ReceiveMisdirected` takes this step. No
  handler of the program sends one.
* A read that ends within the end marker of a paste never ends the paste, and one that
  ends within an escape sequence is heard as Esc and runes (`terminal.go` 61-188):
  `torn` excuses these from `KeysAreHeard`. A resize after the end of the input panics
  (`terminal.go:255`); so does Tab after a paste that shortened the menu
  (`tui.go:482`, `editor = "panic"`).
* Messages typed while a session starts are lost if the start fails and the user goes
  on with another (`tui_session.go:170`).
* A relative `SHELL` makes every call of Bash fail (`run.go:556`).
* A fork inherits calls whose result stayed with its parent, or came after the turn it was
  forked at. Its requests show such a call without a result, and an idle stop of the fork
  does not wait for one. The FIXME at `loop.go:552` says so, and `fork_test.go` (88-96) expects it;
  `RequestsAreTrue`, `IdleStopIsComplete` and `HardStopIsComplete` except these calls.
* A background check outlives its session (`adapter.go:211`). If it switches an answer after
  the next session was given the switches (`tui_session.go:187`), that session does not
  replace the answer, although the terminal says that the next message continues from the
  new path (`tui.go:374`). The switch is kept for the session after it. `SwitchesSurvive`
  excepts it (`missed`).
* A session that has recorded a status of a call to a tool that is no longer offered cannot be
  resumed (`restoreItem`, `loop.go:526`), even when the call has finished, unless each
  such status is an error without operations. Where only the call is recorded, the resume gives
  it an error as its result.
* A request whose configuration is invalid is retried like one that failed.

## What is not modelled, and why

* Half of the repository's lines are generated (`internal/openaiapi/types.gen.go`):
  data types without behaviour.
* Contents: prompts, wording, XML and JSON text, timestamps, sums of usage, retry
  hints of servers, text of errors and its own bounding (`ErrorTruncated`). No
  property of the modelled components depends on them.
* Rendering: colours, Markdown, the wrapping of what is printed, the redrawing of the
  live region, wide runes, terminals of less than 13 columns.
* `ListSessions`, store observers other than the runner's, input validation: reads or
  pure checks. Benchmarks: outside the program.
* Two processes that write one session: the code has no lock against it and does
  not claim one.
* Attributes of a process, URLs, headers and authorization of requests. The judge's own
  settings, inline access tokens, the list of models, the usage counts of Fireworks.
* The truncation of a capture by a surviving process: it only appends here. Floats:
  the ratio of an image is a fraction.
* In `MetaCog` all turns belong to one message of the user, and the sizes of the
  cache and of the list of switches are left out; `RequestRouting` keeps a configured
  effort of rank 3, and messages do not count toward a request's size.
* In `Onboarding`, the order of a file's lines, which the code keeps; a write that fails
  leaves nothing or all but a line. The first-run setup of `-p` (run.go 356-372) has the
  effect of the wizard's check. The servers of the instance are not loopback ones, which
  Codex refuses.
* An operation whose `Add` fails: the local manager accepts every type the program
  submits; an error of `CancelRemoteJob`, which ends `Run` in the coordinator, and of
  `AddRemoteJob`, after which nothing has changed in the manager.
* Processes that outlive a program that died, or that returned without waiting for the
  drain (`run.go:715`).
* Files that change while an operation of the manager reads them are in
  `IOPrimitives` and `ToolOutputs`, and not in `DurableOperations`: a read that no longer
  adds up fails the operation.
* Session IDs are fresh (uuid), and `Create` runs only after `Resume` has said that
  there is no such session, as `openSession` does. A synced append is taken to
  make the file's earlier rename durable too, as journaling file systems do. The forms
  of a UUID are one: the code does not canonicalise the IDs of messages.

## Plan

1. Done: the coordinator with its contracts and its theorems; the local session
   store and its durability, proved; the operations, their manager, primitives and tools; the exchange with the
   provider and its items; MetaCog, the terminal, the runner and the settings,
   with theirs.
2. Done, and proved: the accounting and the replay of the coordinator, the operations with the
   refinement of `OperationManager`, the primitives with their contract, the exchange, the
   reopening of sessions, the judge, the sessions of terminal and runner, the settings, and
   the order of the requests.
3. Two turns of MetaCog for different messages of the user, and two processes over one
   session file.
