# Verification of synadia-agent-shim

The shim puts one terminal coding agent on a NATS bus: it registers a service
with prompt and status endpoints, forwards each prompt to an adapter that types
it into the agent's pane, and streams the adapter's chunks back on the reply
subject of the prompt. This directory holds TLA+ models of the shim, the TLC
configurations that check them on small instances, and TLAPS proofs.

Run a check with `tlc -config <name>.cfg <module>.tla`, the proofs with
`tlapm <module>Proofs.tla`. `PROJECT.json` lists every run with its module, the
source lines each definition stands for, a mutant of the code model that breaks
each property, and the hazards the properties are for.

- [1. The system](#1-the-system)
- [2. The modules and the code](#2-the-modules-and-the-code)
- [3. The runs](#3-the-runs)
- [4. Fairness](#4-fairness)
- [5. The proofs](#5-the-proofs)
- [6. Where the code departs from what is said of it](#6-where-the-code-departs-from-what-is-said-of-it)
- [7. What is left out](#7-what-is-left-out)
- [8. Plan](#8-plan)

## 1. The system

| component | its state | its operations | who calls or races it |
|---|---|---|---|
| active-turn slot (`shim/shim.go`) | `activeReply`, `activeTrace` (atomics), `activeCancel`, `activeMu` | `dispatchPrompt` claims it; `clearActive`, `finishStream` and `handleInterrupt` release it | callbacks of two prompt endpoints and of the signal subscription, the event pump, one watchdog per turn |
| event pump | a chunk in hand, the reply and the trace it loaded | receive, publish, terminate, clear | the slot's closers, the adapter |
| signals | the victim `handleInterrupt` took from the slot | interrupt, redirect | prompts, the pump, the watchdogs |
| watchdog | a timer per dispatched turn | fires, or gives up at shutdown | the pump's terminator, interrupts, later turns that reuse the reply subject |
| lifecycle (`RunWithConn`, `start`, `stop`) | service and endpoints, signal subscription, `runCtx`, four kinds of goroutine | start step by step, spawn, stop step by step, return | prompts that arrive while start or stop is at work, the pane, the caller's context |
| pane watchdog (`pane.go`) | – | probes, cancels `runCtx` | the pane |
| adapter lifecycle | `startOnce`, the context its watchers are bound to | `Start`, `OnPrompt`, `Close`, `Abort` | `start`, prompt callbacks, `stop` |
| adapter channel (`emit`, `Close`) | `stopCh`, `events`, `closeOnce` | emit (check, then send), receive, close | two or three watchers, the pump, several callers of `Close` |
| pane input (`OnPrompt`, `engine.go`) | the input line of the pane, what the agent was given | type the text, press Enter, send both, Ctrl-C | handlers of two prompts at once, the interrupt, whoever releases the slot meanwhile |
| transcript tailer | watched file, offset, clock | poll, scan, emit, look for a newer session | the agent that writes, splits lines and changes sessions |
| marker watcher | events of the stop and the notify marker | emits the end of the turn, or the query the marker file holds | the tailer, whoever writes the markers: the hooks that did are retired, the adapters' tests and a user's own hooks are left |
| codex idle query | previous hash, `idleSince`, one-query guard | capture, compare, query | the pane's screen |
| addressing (`main.go`, `engine.go`, `Config`) | the `Config`, the adapter's Locator | flags and environment to a Config, defaults, validation, subjects | – |

Behaviours that are hard here: the slot is written under a mutex and read
without it; five kinds of goroutine may close one stream; a reply subject, not a
turn, is what a closer is matched by; endpoints are live before the adapter is
started and after it is closed; a Go `select` may take a send on a closed
channel; the tailer reads a file while it is written; the end of a turn and its
text come from different goroutines; a prompt is typed by two commands while
nothing but the slot keeps a second typist away; idleness is guessed from
samples; and one surface is named by several sources, more than once.

What makes the components correct, in a sentence each:

- one turn at a time, and a busy slot always has somebody left to release it;
- a turn loses the slot to its own closers only, and its context with it;
- every stream that was opened or refused is terminated, once per closer;
- whoever is refused gets an error and a terminator and nothing of another turn;
- what the agent writes for the turn in flight reaches that turn's stream;
- a shim that serves is whole, and one that returned, for whatever reason, left
  nothing behind;
- `emit`, the pump and `Close` make one bounded queue of the channel, and `Close`
  ends every watcher, parked or not;
- what the agent wrote is emitted, once and in order, each stop marker that is
  written ends a turn, and a notification that stays is asked;
- an accepted prompt reaches the agent exactly once, and alone on its line as
  long as nobody took the slot from it while it was typed; a turn gets one Ctrl-C;
- one query per idle window, and none without one;
- the most explicit surface wins, and the Config does not change any more.

## 2. The modules and the code

| module | models | role |
|---|---|---|
| `TurnSlot` | – | the abstract promise: one turn at a time, none twice |
| `ShimTurn` | slot, prompts, signals, pump, watchdogs | the core |
| `ShimTurnProperties` | – | its invariants, the inductive invariant, the refinement mapping |
| `ShimTurnProofs`, `ShimStreamProofs` | – | theorems about the slot, and about the streams |
| `PaneInput` | the way from the slot to the pane's input line | what the agent is given |
| `PaneInputProperties`, `PaneInputProofs` | – | its properties and theorems; its slot too implements `TurnSlot` |
| `ShimLifecycle` | `RunWithConn`, `start`, `stop`, the pane watchdog, adapter start and close | composes the lifecycle with prompts; the slot is only its holder here |
| `EventQueue` | – | the abstract promise of `Events()`: first in first out, bounded, shut once |
| `AdapterChannel` | `emit`, `Close`, the pump's receive | the `Events()` channel, an `EventQueue` |
| `TranscriptTail` | `transcriptLoop`, `markerLoop`, the agent | what reaches `emit` |
| `CodexIdle` | `idleQueryLoop`, the pane's screen | when codex asks |
| `Addressing` | flags, environment, Config, subjects | which surface and which subjects |
| `ShimLifecycleProofs`, `AdapterChannelProofs`, `TranscriptTailProofs`, `CodexIdleProofs`, `AddressingProofs` | – | theorems about these five |
| `MC...` | – | values of the constants for TLC |

**ShimTurn.** A goroutine is a handler with a place (`pc`), the pump, or a
watchdog. Everything the code does under `activeMu` is one action
(`ClaimSlot`, `ReleaseSlot` with `CancelActive`), everything it does outside is
a step of its own: the ack, `OnPrompt`, arming the watchdog, each publish, the
pump's load of the reply and its later load of the trace. `ClaimSlot` stores the
reply and the trace at once, where the code has two stores (shim.go:1049 and
1052) that the pump's loads can fall between; no property depends on the gap,
in which the adapter does not know of the turn yet. `out[r]` is what was
published on reply subject `r`, with the type, the turn it was produced for, the
trace in its headers and the goroutine that sent it. The model merges the pump's
receive with its load of the reply, which the code does next. The adapter and
the agent behind it are the environment: a turn that was typed may produce
chunks, an error or a Terminator, once or twice, after its abort too, or nothing
at all. Publishing the ack may fail; other publishes ignore their error in the
code and are taken to reach the wire. Each request is delivered once. A turn
stands for its trace and its cancel function.

**PaneInput.** The same handlers, without streams and with the pane: `OnPrompt`
looks at its context once and then types. With tmux the text and the Enter are
two commands (`TypeText`, `PressEnter`), with cmux and zmx one carries both
(`SendLine`); each may fail, and types nothing then. `line` holds the texts
typed since the last Enter, `lines` what the agent was given. `Abort` types a
Ctrl-C after the slot was released; what it does depends on the program in the
pane, so that it may or may not clear the line, and its end may or may not be
reported. The pump appears only as the release of the slot by a Terminator,
which may belong to an earlier turn, and the watchdog as the release of its own.
History variables remember who lost the slot before the text was sent (`cut`),
whose text a Ctrl-C wiped, and whom each Ctrl-C was for. `ShimTurn` and
`PaneInput` overlap in the slot, and both are shown to implement `TurnSlot`: by a
run and a theorem the one, by a theorem alone the other, whose slot is the same
code.

**ShimLifecycle.** `main` is the goroutine of `RunWithConn`; each endpoint
registration, `Adapter.Start`, the subscription, the spawn and the three steps
of `stop` are actions, and every one that returns an error may fail. An endpoint
takes requests from the step that registers it. `svc.Stop` drains its
subscriptions asynchronously, so a queued request is still dispatched after it.
A watcher leaves its loop when its context is done or `stopCh` is closed, but not
while it waits in `emit`: that `select` looks at `stopCh` and at no context
(cc.go:362-365). How full the channel is is `AdapterChannel`'s; here a watcher
may park from the moment no pump is, or will be, there to make room, and then
only `Close` brings it back. The echo adapter has a channel of its own
(`answers`): `OnPrompt` waits when it is full (`EchoAnswers`), and once `Close`
has closed it the send panics and the process dies (`EchoSendsOnClosed`).

**AdapterChannel.** A `select` is one action per ready case, any of which may be
taken, the pump's too: it may receive once more after its context is done.
Parking and the wake-up by `close(stopCh)` follow the Go runtime, and a receive
from a full buffer takes over a parked sender's chunk. As an
`EventQueue`, the log of all chunks is what the pump received followed by what
is in the buffer: a receive that lets a parked sender in is one step of the
queue too (`Pass`).

**TranscriptTail.** A file is a sequence of pieces: a line written at one go, a
head and a tail of one that reached the disk in two writes, or a line above the
scanner's 8 MB. The scanner's token at the end of the file may be half a line;
it fails to parse and the offset moves past it. At a line above 8 MB the scanner
stops, and the offset stands behind what it had read into its buffer.
Modification times are taken to be distinct, and half a line is taken to be no
JSON. The markers
come from outside: the hooks of this repository that wrote them are retired
(section 6), so `WriteStopMarker` and `WriteNotifyMarker` stand for the adapters'
tests, or for a hook a user keeps, and neither need ever happen.
`markerLoop` handles one event per write of a marker, and reads the notify
marker when it handles the event: the marker may hold a later text by then.
`agent` says which of the four adapters this is; they differ in when they look
for a newer session, in pi's query and in who watches the notify marker.

**CodexIdle.** The unit of time is the poll interval. The loop polls once per
unit unless a capture or an emit keeps it busy longer. A hash is the tail of the
screen (no collisions). The test for a zero `idleSince` is left out: no path
reaches it with a previous hash.

**Addressing.** A surface value is its text and whether it began with a percent
sign, which is what `encodePane` and `ParseLocator` look at. `main`'s
`resolveLocator` and `buildAdapter`, then `withDefaults` and `validate` in `Run`
and again in `RunWithConn`, are the steps.

An operator commented "Fault:" is no part of a model: it is the definition after
it with a mistake the code could have made, and takes its place when the
project is tried against its own properties.

## 3. The runs

| run | instance | what it shows | states |
|---|---|---|---|
| `turn_safety` | 3 prompts (one without a reply subject), 2 redirects (one refused), 2 endpoints; any 2 requests or interrupts, with a shutdown, a dropped request, a repeated Terminator or a turn's output | the slot is never lost or stolen (`SlotAgrees`, `NoStaleRelease`), a busy slot has an owner, contexts follow the slot, each closer terminates once, clean streams for whoever was refused, the ack before the turn's own work, output of the turn in flight on its own stream (`LiveOutputFindsItsStream`), no stream left open that nobody is on the way to close (`NoStreamIsForgotten`) | 328 k |
| `turn_liveness` | a prompt and a redirect, an adapter that may close its channel | the slot implements `TurnSlot`; every turn leaves it, every stream and every error is terminated | 57 k |
| `pane_input` | 2 prompts, a redirect, 2 interrupts, 2 endpoints, tmux and cmux, every command free to fail | texts run together only after one was cut off the slot, an accepted prompt is given once, one Ctrl-C per turn | 1.9 M |
| `shim_lifecycle` | 2 prompts; a TUI shim with one watcher in a tmux pane, and an echo shim without a pane whose channel holds one answer; both endpoint pairs | nothing is left behind, a shim that serves is whole, only an early prompt binds the watchers, `Close` comes after everything that brings new work, every goroutine ends but the parked watcher of a failed start, the shim does not outlive its pane, prompts are answered unless echo's channel is closed or full for good | 82 k |
| `adapter_channel` | 2 watchers, 3 chunks each, buffer of 2, 2 callers of `Close` | the channel is an `EventQueue`, no sender parked on the closed channel, `Close` done when it returns, every watcher ends | 62 k |
| `transcript_tail` | 2 sessions, 2 changes of session, 4 events out of writes, stop markers and notifications; one line in three above 8 MB; gemini's rules and pi's | whole lines are emitted, once and in order, the tailer catches up with the newest session, stop markers terminate in order and each does, the last notification is asked | 133 k |
| `codex_idle` | 4 screens, 2 of them with one tail, a pane that may fail, 4 changes, threshold 2 | one query per idle window, only after equal captures, and a resting prompt is reported | 50 k |
| `addressing` | every combination of flags, environment, labels and slugs over 3 values and 5 agents | the most explicit surface wins, subjects agree, defaults are stable | 43 k |
| `find_double_terminator`, `find_send_on_closed`, `find_torn_line`, `find_engine` | the smallest that shows it | section 6 | |

Why the bounds are enough. A conflict over the slot needs a turn in it, another
that wants it and a stale closer: two requests, of whichever kind, or one and an
interrupt, give every pair of them, and a third turn meets a slot that is idle or
busy like the second. `turn_safety` therefore has more requests than it lets
happen: its `Explored` constraint ends a behaviour after two of them and one
disturbance (a shutdown, a drop, a repeated Terminator, output), whichever these
are. The constraint cuts behaviours short and forbids no step before the cut;
the properties of that run are safety properties, and its liveness counterpart
has no constraint. Endpoints matter because each runs one callback at a time:
two let both prompts be inside `dispatchPrompt`. Two prompts (with their reply
subjects) and two endpoints are interchangeable, which the symmetry uses; no
liveness is checked under symmetry.

A channel of one chunk already makes the adapter wait for the pump;
`AdapterChannel`, which is about the channel, has two places, two watchers and
more chunks than places. In the pane a third turn does matter: the end of the
first turn can release the second while it is typed, and the third is then typed
behind it. The life cycle needs a prompt on each side of any of its steps; one watcher
stands for all, as they share nothing but the context and `stopCh`, and with room
for one answer echo's channel is full at the second prompt. The
tailer needs a session left and taken up again (two changes), room for a line
before and after a torn one, and two notifications that meet. claude-code tails
like pi and has gemini's markers, codex tails like gemini. The idle loop needs a
screen to leave and to come back to between two polls. Where a property is also
a theorem (section 5) no bound is left.

The requests run out, a shim that returned rests and so does a closed adapter:
those runs say `CHECK_DEADLOCK FALSE`. `transcript_tail` and `codex_idle` check
for deadlock: their loops never stop.

Each property was tried against at least one fault of the code it is about. The
type invariants are not in these runs: each is a theorem (section 5).

## 4. Fairness

Go runs every goroutine that can run, so each goroutine's step has weak fairness
of its own: one that is enabled for ever is taken. Nothing else is assumed: no
prompt need arrive, no agent need answer, no pane need die, nobody need call
`Close` or cancel a context. Timers are taken to expire some time
(`WatchdogStep`, the tailer's ticks, `GoesQuiet`), never at a particular time:
a watchdog may fire before the agent has done anything.

`shim_lifecycle` is fair to each handler, loop and watcher separately, so no
goroutine's progress relies on another's; no fairness makes a watcher park.
`adapter_channel` is fair to a `Close` that began, and to the pump's receive as
long as its context lives. `codex_idle` assumes that time passes and the loop goes on; that the
pane rests is the hypothesis of `RestingPromptIsReported`.

The liveness properties are TLC's alone: TLAPS does not reason about fairness.

## 5. The proofs

All are for every value of the constants that the named assumptions allow: any
number of prompts, redirects, endpoints, chunks, session files and shims. The
assumptions only say that null values (and the names `run` and `none` of
contexts, and "no screen") are not members of the sets they complete, that the
bounds are numbers and (`ShimTurnAssumption`) that a redirect has a reply
subject, as `handleRedirect` mints one when it is missing. Requests may share a
reply subject unless a statement says otherwise.

**ShimTurnProofs.** The safety invariants are not inductive: that the slot's
fields agree needs to know who may be about to change them. The inductive
invariant is

    IndInv == TypeOK /\ HandlerTurns /\ SlotAgrees /\ TurnsAccounted

`HandlerTurns` says who works on which request: a handler that is dispatching
has a turn, no two handlers have the same, and it is not waiting to be delivered
any more; without it a turn could be claimed twice. `TurnsAccounted` says that
every turn known to a watchdog or to the agent is the one in the slot or one
whose context is cancelled or about to be, and never both; without it the late
watchdog of one turn could be taken for that of another. Each is shown to
survive every action, and then

| theorem | states |
|---|---|
| `TypeCorrect` | types |
| `IndInvCorrect` | the inductive invariant |
| `SlotAgreesCorrect` | reply, trace and cancel function in the slot are always one turn's |
| `ContextFollowsSlotCorrect` | a dispatched turn holds the slot with a live context, or lost it and is cancelled |
| `BusySlotHasOwnerCorrect` | whoever holds the slot, somebody is left who will release it |
| `NoStaleReleaseCorrect` | with distinct reply subjects, a turn loses the slot to its own closers only (an action property) |
| `SlotImplementsTurnSlot` | `ShimTurn` implements `TurnSlot`, the holder being `activeCancel` and the finished turns those whose context is cancelled or about to be |

**ShimStreamProofs.** What is on the wire. A turn is *claimed* from the moment
it took the slot, for good, and *waiting* until it is claimed or refused.
`Served` says that the pump and an interrupt publish for claimed turns only.
With that, and with a reply subject of its own for every request, three
invariants over `out` follow one another:

- `StreamsInv`: a waiting request has an empty stream, a refused one the error
  alone, and no claimed turn's stream holds a refusal. Then a step that
  publishes meets a claimed turn's stream or the stream of the request its
  handler refuses, and `RejectedStreamsAreCleanCorrect` follows.
- `AckInv`: the agent is given a turn after its ack, and every chunk on the way
  is of a turn the agent has. `AckBeforeOwnWorkCorrect` follows; it is the
  chunk's own turn that matters, as a late chunk may land on another's stream.
- `TermInv`: each closer followed by itself. A handler that may still terminate
  has not done so; the pump closes and then clears, and what it clears is what
  it closed; of the watchdog and the interrupts only the one that found the slot
  busy holds the stream (`RacersCloseOnce`), and a slot in use was closed by
  neither. `OneTerminatorPerCloserCorrect` follows. That the pump and the
  watchdog together close twice is the finding of section 6.

Two more invariants hold however requests share reply subjects. `OutputInv`: the
chunk the pump holds is for the stream of its own turn, or its turn has lost the
slot, for good. A chunk's turn is one the agent has (`AckInv`), so it holds the
slot or has lost it (`IndInv`), and what the pump loads is its reply in the first
case; `LiveOutputFindsItsStreamCorrect` follows. `ClosersInv`
follows the duty to close a stream from hand to hand: an acked turn is claimed
(`AcksAreClaimed`); a claimed turn that is no longer in the slot lost it to
somebody who terminated its stream or is about to (`LosersAreOwed`); the pump
clears a turn only after its terminator (`ClearedAfterEnd`); a watchdog closes
after its handler is done (`WatchdogComesLast`); and what follows an error or an
abort notice is a terminator, out or owed (`NoticesAreOwed`).
`NoStreamIsForgottenCorrect` follows: a caller never waits on a stream that
nobody will close. It is the safety half of `EveryStreamTerminated` and
`ErrorThenTerminator`; that who owes a terminator goes on is fairness.

**PaneInputProofs.** `PaneInv` in three parts. `SlotInv`: a turn that is still
being sent holds the slot or is cut. `TextInv`: a turn on the input line is
being sent or cut, one that was not typed yet is nowhere, and with cmux and zmx
nothing stays on the line. At most one text on the line is therefore uncut: the
one whose turn holds the slot (`LinesMixOnlyAfterACutCorrect`), and no text is
anywhere twice (`AcceptedIsSubmittedOnceCorrect`). `AbortInv`: a turn in the
slot, waiting for it, or on its way to its Ctrl-C has not had one
(`OneCtrlCPerTurnCorrect`). `PaneImplementsTurnSlot` is the refinement.

**ShimLifecycleProofs.** `LifeInv` says what exists at each point of
`RunWithConn`: the signal subscription only between the end of `start` and the
first step of `stop`, no endpoint from `svc.Stop` on, a cancelled `runCtx` while
`stop` runs, an error or a closed adapter on the way out. That nothing is left
behind on return depends on which of the steps before it were taken
(`NothingLeftBehindCorrect`). `CloseComesLastCorrect` says what the order of
`stop` gives and what it does not: once the adapter is closed no request
arrives any more, and those that had arrived still reach it; where that kills
the process, the adapter is echo and was closed. `WholeInv` is about a shim that
serves: no path of `start` skips a part of its plan, no goroutine leaves before
`runCtx` is done, and a watcher leaves only when the context it is bound to is
over, so that while `RunWithConn` waits the heartbeat, the pump and the pane
watchdog, all endpoints, the signal subscription, a started adapter and its
watchers are there, unless a turn that is over had bound the watchers
(`ServingShimIsWholeCorrect`). Such a turn met an adapter that `start` had not
started yet, or failed to (`OnlyEarlyPromptsBindCorrect`, an action property).
No request is typed by an adapter nobody started
(`PromptsMeetAStartedAdapterCorrect`).

**AdapterChannelProofs.** `ChannelInv` relates the place of each `Close` to what
it has closed, says that one goroutine closes while all others have not begun,
and that nobody is parked once `stopCh` is closed. From it
`NobodyParkedCorrect`, `CloseIsDoneCorrect` and the action property
`LateEmitCorrect`. `QueueInv` adds that a chunk in hand has a higher number than
its watcher's chunks in the log, with which every step is one of `EventQueue` or
none: `ChannelImplementsQueue`, for any buffer and number of watchers.

**TranscriptTailProofs.** `TailInv` says piece by piece what the offset stands
for: a whole line before it is emitted or in hand, and of the line in hand the
blocks counted are emitted (`WholeLinesEmittedCorrect`). `OrderInv` is about a
single session: its lines ascend in the file, and what was emitted stands before
the offset and not behind the block in hand (`BlocksOnceInOrderCorrect`).
`EndsInv` follows the stop markers: those written are counted, the loop has
the next one in hand or a notification or nothing, and the stop markers still to
be seen are those written after it, each once and ascending
(`TurnEndsInOrderCorrect`). `QueriesInv` compares a query that went out with what
the loop may ask next (`QueriesInOrderCorrect`), and `LastNotificationIsKept`
says that the text in the notify marker is asked, in hand, or still has an event
queued.

**CodexIdleProofs.** `IdleInv` has two halves. The clock: `idleSince` is never
earlier than the first of the captures that look like the last one. The guard:
when it is set, the loop still compares with what the last query was about; when
it is open, the pane has changed since. `OneQueryPerWindowCorrect` and
`QueriesAreStable` are conjuncts of it, which are not inductive alone. The guard
also gives the other direction, an action property: a due prompt the loop passes
over in silence is one it has asked (`SilenceOnlyAfterReportCorrect`).

**AddressingProofs.** The invariant relates a Config to the flags it came from: a
shim past `Run` holds the defaults of what `main` built, and they were valid.
The lemma under it is that `withDefaults` is idempotent. From them
`RunningShimsHaveTheirSurface` (the most explicit surface wins),
`ConfigIsNotChangedAgain` (what `RunWithConn` computes again is what `Run`
validated), `PaneIsTheSurfaceCorrect` and `SubjectsAgreeCorrect`.

**Types.** Every `TypeOK` of the project is proved too, most of them as a part
of the inductive invariant (`TypeCorrect`, `ChannelTypesCorrect`,
`TailTypesCorrect`). `LifeTypesCorrect` also says that the endpoints registered
are at every point a prefix of the list `start` goes through, and
`IdleTypesCorrect` that what is asked about is a screen and never a failed
capture; `AddressTypesCorrect` is the third on its own.

Every invariant and every safety property of the runs is a theorem. Model-checked
only are the liveness properties, which need fairness. What most rest on, short
of fairness, is proved:

| liveness property | the theorem about who is left to do it |
|---|---|
| `EveryTurnEnds` | `BusySlotHasOwnerCorrect` |
| `EveryStreamTerminated`, `ErrorThenTerminator` | `NoStreamIsForgottenCorrect` |
| `Stops`, `PaneGoneStops` | `ServingShimIsWholeCorrect`, `NothingLeftBehindCorrect` |
| `CloseEndsWatchers` | `NobodyParkedCorrect` |
| `EveryStopMarkerTerminates` | `TurnEndsInOrderCorrect` |
| `CatchesUpWithNewest` | `WholeLinesEmittedCorrect` |
| `LastNotificationIsAsked` | `LastNotificationIsKeptCorrect`, `QueriesInOrderCorrect` |
| `RestingPromptIsReported` | `SilenceOnlyAfterReportCorrect` |

## 6. Where the code departs from what is said of it

Four runs end in a counterexample; each quotes the statement in its finding.

- `find_double_terminator`: the pump publishes its terminator and then takes
  `activeMu` to clear the slot. A watchdog that fires in between finds the
  stream active and terminates it again, where the comment on the watchdog says
  that the second closer does nothing.
- `find_send_on_closed`: `emit` looks at `stopCh`, then selects between the send
  and `stopCh`. `Close` may close both channels in between; both cases are then
  ready, and the send panics. The comment says it can never happen.
- `find_torn_line`: a poll that ends inside a line drops the half it read and,
  later, the other half.
- `find_engine`: an adapter is built for `tmux:<--pane>` whatever the engine of
  the shim; with cmux or zmx, or a surface found in the environment, prompts do
  not go to it.

The models have further behaviours a reader of the code should know of, which no
property rules out. Some are contrary to what a document or a comment says:

- live turns do not end by themselves. The hooks that wrote the stop and notify
  markers were retired (`cc.go:287-294`, `gemini.go:11-13` and `424-428`,
  `pi.go:6-10` and `245-249`, `docs/architecture.md:85-92` and `255-263`; the
  comment at `codex.go:228-231` still has its hook). `docs/architecture.md:90-92`
  says that turn-end detection meanwhile relies on the transcripts, but no
  adapter makes a Terminator of a transcript line: without somebody else's
  markers a TUI turn ends by its watchdog or an interrupt, the notify queries of
  claude-code and gemini do not happen, and nor does pi's, which waits for a stop
  marker. `TranscriptTail`'s properties of markers are conditional on somebody
  writing them;
- a prompt that arrives between its endpoint's registration and `Adapter.Start`
  starts the watchers with its own context (`cc.go:195-200`, the same in the other
  TUI adapters), and they end with its turn; `start` then finds the adapter
  started, and the shim serves without them. `adapter.go:113-116` says that
  adapters must not do that, `shim.go:719-722` that the watchers are bound to the
  shim's context, and `gemini.go:177-184` that production callers never get there.
  `ServingShimIsWhole` excepts exactly this case and `OnlyEarlyPromptsBind` says
  when it arises;
- a start that fails after `Adapter.Start` does not close the adapter, although
  `Run`'s comment says that it is closed on return (`shim.go:236-237`); its
  watchers end with `runCtx`, except one that waits in `emit` for room in the full
  channel nobody drains (the exception of `Stops`);
- a request that the service drains reaches the adapter after `Close`. With echo
  that is fatal: it sends (`echo.go:77-78`) on the channel `Close` closed
  (`echo.go:90`), and the process dies of a panic; and after a failed start, when
  nobody empties a full channel, its `OnPrompt` waits for ever. Both are the
  exceptions of `PromptsAreHandled`;
- the usage comment (`main.go:20-21`) lists the environment before `--pane`. The
  code takes `--pane` first, as the comment on `withDefaults` says it must
  (`shim.go:357-367`); `MostExplicitSurfaceWins` follows the latter.

Most of the others are contrary to nothing written, and surprise:

- the slot is visible before the ack is published, so an interrupt, or a late
  chunk of an earlier turn, may be published on the stream before its ack
  (`AckBeforeOwnWork` is what holds);
- the pump loads the reply and the trace separately, so a chunk may carry no
  trace, or that of a turn with which it has nothing to do;
- a chunk or a second Terminator of a turn that ended reaches the stream of the
  turn that is in flight when it is received, and closes it;
- `docs/adapter-sdk.md:94-96` says that a duplicate terminator of a turn is
  ignored: it is when the slot is idle, and otherwise closes the next turn's
  stream; so can the late Terminator of a turn that a redirect killed, whose
  prompt is promised a terminator of its own (`docs/orch-signals.md:61`);
- an interrupt releases the slot before it calls `Abort`: the next prompt can be
  typed, or the agent be at work on it, when the Ctrl-C arrives, although the
  comment on `Abort` (`cc.go:623`) says that it is unaffected; and two interrupts
  that each take a turn not typed yet send two Ctrl-Cs to an agent at rest;
- `OnPrompt` looks at its context once (`cc.go:204`): a prompt interrupted after
  that is still typed, and reaches the agent with nobody in the slot for it, or
  behind or before the text of the next one;
- a text whose Enter failed stays on tmux's input line, and the next prompt is
  typed behind it;
- a pump that finds the adapter's channel closed leaves the stream in flight to
  the watchdog;
- the tailer forgets the offset of a file it leaves: a session taken up again is
  emitted again, from its start; what is written to a session after its last
  scan and before the next one is found is lost; and the newest file is followed
  whoever writes it;
- of two notifications that come close together the first may never be asked,
  and the second twice;
- a line above 8 MB is dropped: the tailer goes on in the middle of it, and reads
  what the scanner had not buffered as a line that fails to parse;
- the directory of the transcripts is resolved once (`cc.go:386-387`), although
  the comment at `cc.go:558-560` says that the poller reconciles when the path
  comes to exist;
- the stop marker is an event and the transcript a poll: the Terminator may
  overtake the last blocks of its turn;
- a screen that changes and changes back between two polls, or changes only
  above the hashed tail, counts as idle;
- `--agent claude` keeps its name in subjects and metadata; the signal subject
  ends in the pane even where the prompt subjects end in a label or slug; and
  panes that differ only in the percent sign or the engine share it.

## 7. What is left out

- The NATS client: dial, reconnects and drain, lost or duplicated messages. The
  shim neither detects nor retries any of them; what `nats.go` does with the
  messages published before the connection is drained is its own affair.
- Payloads: envelopes, headers, heartbeat and status contents, the JSON schemas
  of the four transcripts. A request is valid or refused, a line has a number of
  blocks.
- What tmux, cmux and zmx do inside. A command types all it was given or fails
  and types nothing; what a Ctrl-C does to the line is left open. A text is one
  token: newlines inside a prompt, which cmux and zmx may take for Enter
  (`engine.go:218-230`), are outside the model.
- Files of other panes in the directory that is searched, symbolic links, and
  errors of opening or seeking a transcript.
- `ReadNATSURL` and `resolveCWD`, which keep no state; the conformance kit and
  the packaging.

## 8. Plan

Done: the core (`TurnSlot`, `ShimTurn`) with its slot and its streams proved,
the life cycle, the pane's input line, the channel and the queue it implements,
the tailer with its markers, the idle loop and addressing, each with its proofs.

What would come next:

1. other panes' files in `TranscriptTail`, which needs the property to say which
   lines are the shim's own agent's;
2. a composition of the tailer with `EventQueue` in place of `emit`, and of the
   pump with `EventQueue` in place of its channel in `ShimTurn`;
3. two shims on one bus in `Addressing`: which of them share a subject;
4. the two stores of `dispatchPrompt` as two steps in `ShimTurn`, with a property
   that says which traces a chunk may carry.
