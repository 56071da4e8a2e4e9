# Slight: a TLA+ verification project

Slight lets a phone or a desktop application drive coding agents (Codex, Claude
Code, OpenCode) that run on a host. The host keeps agent sessions alive, numbers
everything that happens in them, and serves a gateway protocol over which clients
attach, follow, answer permission requests and reconnect. This directory models
the parts of host and client whose correctness depends on interleavings, crashes
and order, checks the models with TLC and proves the main results with TLAPS.

Paths below are relative to `src/`; `manager.rs` is
`rust/session-core/src/manager.rs`, `session.rs` and `client.rs` are in
`rust/acp-types/src`, `server.rs` is `rust/gateway-server/src/server.rs`,
`state.rs` is `rust/host-service/src/state.rs`, the store is
`rust/session-store/src/lib.rs`, and the Swift files are in
`clients/apple/SlightKit/Sources/SlightGateway`.

## 1. Inventory

| Part | State | Operations | What makes it correct |
|---|---|---|---|
| Session manager (`manager.rs`) | sessions, recovered sessions, journals, subscribers, all under one mutex | open, import, list, prompt, cancel, answer, mode, option, rename, archive, attach, history, subscribe, pump, recover | a sequence number names one event; replays are complete or say that they are not; status, pending permission, settings and exit follow the agent; recovery classifies every stored session |
| Session store (`session-store`) | tables `sessions` and `events` | upsert, append with pruning, read back | what is read back is what was in memory, within the limit |
| ACP session (`session.rs`) | command channel, event channel, `PermissionGate`, `running` flag, worker thread | handshake, prompt, cancel, respond_permission, set_mode, drain, drop | no lost wake-up; a decision or a cancel reaches the request it was meant for |
| ACP client (`client.rs`) | next id, orphan responses | request, wait_for_response, next_message | a response goes to the request it belongs to |
| Normalisation (`session.rs`, `content.rs`, `metadata.rs`, `session-core/src/types.rs`) | none | wire update to agent event to payload | nothing of a message is lost; an update of a tool call changes what it says and no more |
| Adapters (`rust/acp-adapters`) | child process | resolve, spawn, probe | no process outlives its connection |
| Gateway server (`server.rs`) | connection threads, subscriptions, cache of completed commands | accept, handshake, dispatch, drain loop, heartbeat | no event is lost for good; a retried command runs once; a call gets its own answer |
| Host service (`host.rs`, `state.rs`) | pump thread, devices, pairings, shutdown flag | serve, stop, pair, authenticate, revoke | a code pairs one device; stop stops everything |
| Gateway client, CLI (`gateway-server/src/client.rs`, `host-cli`) | one socket | connect, call | a call returns |
| Apple connection (`GatewayConnection.swift`, `EventJournal.swift`) | cursor, pending requests, deferred events | attach, replay, time-out, reconnect | the cursor catches up |
| Apple view model (`SessionViewModel.swift`) | transcript, loaded history, buffer, metadata | load, page, handle event | the view shows what was said, once, in order |
| User interface | presentation | - | - |

How they interact. Connection threads of the gateway and the pump thread of the
host call the manager; each call holds the mutex from beginning to end. The
manager talks to an agent through a `ClientSession`: commands go into a channel
that one worker thread per session serves, events come back through another
channel that `pump_all` drains, every 25 ms from the pump thread
(`rust/host-service/src/host.rs:196-201`) and at the end of most operations. A
permission request blocks the worker in the gate until `respond_permission` or
`cancel` wakes it. Every visible change is an `append`: journal, event table,
session row, subscribers, in this order. A connection thread moves what its
receiver holds to its outbound queue and writes it. The Apple client keeps the
highest contiguous number per session and asks for a replay when it sees a gap;
the view model above it loads a session with three calls while events arrive.

What is hard: the four parts of `append` against the death of the process and
against store errors that are ignored; numbering after a restart; a worker
thread that races the manager over four shared objects; cancels that overtake
the event they are about; calls that wait with the mutex in hand; attach and
subscribe as two critical sections; time-outs against late acks, retries against
a cache with a limit; a load in three calls against live events. The list, with
lines and the properties aimed at each, is `hazards` in `PROJECT.json`.

## 2. Modules

| Module | Models |
|---|---|
| `EventStream` | abstract: what the gateway may rely on about the events of a session |
| `SessionJournal`, `MCSessionJournal` | journal, store, recovery, subscriptions of one session; implements `EventStream` |
| `AgentTurn` | mutex, pump, worker thread, gate and agent of one open session |
| `AgentOpen` | opening, importing, listing and recovering sessions; ACP requests and their answers |
| `GatewayReplay` | one connection thread, the socket, the cursor of the Apple client, paging of history |
| `Gateway`, `MCGateway` | accept loop, connection threads, handshake, pairing, command cache, shutdown, the blocking client |
| `AcpUpdate` | pure operators: what the host makes of one `session/update` |
| `Transcript`, `MCTranscript` | from the agent's updates through the pump and the journal to the transcript of the view model |
| `SessionJournalProofs`, `SessionReplayProofs` | theorems about `SessionJournal`: under every fault, and as long as nothing was torn or failed |
| `AgentTurnProofs`, `AgentOpenProofs`, `GatewayProofs`, `GatewayReplayProofs`, `TranscriptProofs` | theorems about the module of that name |
| `TranscriptShownProofs` | theorems about `Transcript`: what the view shows of the conversation |

The modules meet at the states they share. `GatewayReplay` starts from what
`EventStream` promises (numbers without gaps, each event sent once to every
receiver), which `SessionJournal` is shown to keep. `AgentOpen` ends where
`AgentTurn` begins: a connection installed with its worker idle. `Transcript`
composes the operators of `AcpUpdate` with the pump, the journal and the view
model; it takes the connection as reliable, which is the subject of
`GatewayReplay`. `Gateway` reduces a session command to the mutex of the manager,
which it holds until it succeeds or fails, and for ever when an agent that it
waits for does not answer (`AgentTurn` and `AgentOpen` show when that happens).

Operators introduced by a comment that starts with "Mutation" are deliberate
faults: each stands for one plausible mistake in the code, and the property it
is listed with in `PROJECT.json` is violated when it takes the place of the
faithful definition. They are not used by any specification.

### SessionJournal

An event is a pair of its sequence number and the run of the host that appended
it; a run gives no number twice, so the pair identifies the event. `phase` says
how far the holder of the mutex is in `append`: `AppendInMemory` (number and
push with trim), `StoreEvent` (one transaction: insert, `DELETE` of old rows),
`PersistSession` (the row), `Publish` (the sends). `rest` counts the appends the
operation still has to do before it gives the mutex back, so an operation with
several events is one `OpenSession(n)` or `BeginOperation(n)` and n rounds.
`Restart` is `SessionManager::new`: it numbers on from the row and rebuilds the
journal from the table, as a live session (the agent resumed it) or a recovered
one that takes no more events. `Shutdown` and `Kill` lose everything but the
two tables. `Faults` selects what the environment may do: `"kill"` lets the
process end between any two parts of an append (a crash, or a shutdown, which does
not join connection threads), `"io"` lets every store call fail. The history
variable `hurt` records whether a write of the store failed (`"io"`) or a kill
fell between event and row (`"torn"`); properties that the code keeps only
without these say so.

`Attach(after)` is `attach` and `events.replay`. A client without a cursor
gets the whole journal and never a resync flag, which is the model's
`AttachReplay(0)` with the flag ignored. Errors of the store are ignored by the
code and therefore are disjuncts in which nothing is stored. `JournalLimit` is
positive: with 0 the code switches pruning of the table off, which is a different
regime that no configuration in the repository uses.

Refinement: `Stream == INSTANCE EventStream WITH log <- published, attached <-
subscribed, queue <- chan, sound <- "io" \notin hurt`. All steps of an append but
`Publish` stutter; `Publish` is one publication of a new number; a failed write
degrades the promise about numbers, never the one about delivery.

### AgentTurn

`holder` is where the thread inside the mutex stands. An operation (`SendInput`,
`Cancel`, `RespondPermission`) acts and goes on to `pump_all`, which is `Drain`,
`CheckRunning`, one `ApplyAgentEvent` per event and `EnsureExited`; `Pump` enters
the same steps for the pump thread. `SetMode` stands for `set_mode` and
`set_config_option`, which wait for the worker in `holder = "reply"`.
The worker runs from `recv` through `turn`; a permission request takes it
through `asked` (gate open, event not sent), `wait`, `parked` (in the condition
variable), `finish`, `respond` and back to `turn`. The agent is external: in a turn
it may ask, answer, report an error, and it may die at any moment; the worker then
sees a failed write or the end of the stream. Only a prompt turns the end of the
stream into the end of the worker, in two steps (event, then flag). `asked`,
`answer`, `resolved`, `cancelHit`, `ops` and `exits` are history.

### AgentOpen

One operation at a time holds the mutex (or runs before the host serves):
`Boot` (bind with recovery of all rows), `Open` (new, load, resume, list),
the capability probe. `step` follows it through spawn, `initialize` and the
request that binds the session; `worker` is the thread that sends a request and
reads frames until the answer comes; `toAgent` and `toHost` are the pipes. The
agent may answer, refuse, replay updates before it answers `session/load`, ask for
a permission, write garbage, repeat an old answer, and die; sessions may vanish
from its own storage. `DropConnection` is part of every way out. `Rehydrate`,
`RejectAgent` and `BindFails` give a recovered row its state.

### GatewayReplay

The loop of a connection thread is `Poll` (or `DispatchAttach`, then
`DispatchSubscribe`: two critical sections), `Drain`, `Write` or `WriteBlocked(k)`.
A write that would block leaves its frame in the WebSocket's buffer and in the
queue, so it is sent twice. The client side is `handleEvent` with the cursor of
`EventJournal`, `handleAck` with `ingestAttachResult` and the deferred events,
`requestReplay` (which sends a parameter name the host does not read),
time-outs, `Disconnect`, `Reconnect` with restored attachments, and
`loadHistoryPage`. `missed` and `forgot` are history.

### Gateway

`Accept`, the loop of a connection thread (`CheckShutdown`, a read, the outbound
queue, `Write`), the handshake with its two critical sections
(`ConsumePairing`, `MintDevice`), the commands that differ in scope or effect
(`Inspect`, `Input`, `BeginPairing`, `RevokeDevice`, `Stop`), the bounded cache
(`Remember`, `AnswerFromCache`), heartbeats, and `serve` with the pump. The client
is `GatewayClient`: one call at a time, a time-out, late acks that it skips.

Session commands go through `EnterManager`: one thread at a time is in the manager
(`Locked`), and the commands of `AskAgent` wait for an agent there. The pump thread
sees the flag only between two passes (`PumpEnds`) and may be held up in `pump()`
behind such a command (`PumpBlocks`, `PumpReturns`); `serve` joins it.

`ScopesOf` is `authorize` as it stands. It has no entry for
`session.set_config_option`, which therefore needs no scope, while the table at
`protocol/gateway-v1.md:159` puts the command under input. No property depends on
it: every credential of the host is granted all scopes (`AuthContext::all`).

A device token is not a credential of the model. `authenticate` accepts it, but
the host tells the token to nobody, so no client can present one, and `revoked` is
a flag that only `device.list` reads.

### AcpUpdate and Transcript

`AcpUpdate` follows `normalize_notification` case by case: unknown content is
dropped, unknown enum values get their fallbacks, `null` raw values vanish, an
update of a tool call gets default values for what it leaves out. An `Option` is
a sequence of length at most one, a text is the number of the update it came with.

In `Transcript` the agent's updates pass through `channel`, `ApplyAgentEvent`,
`log` and `inbox`. Two tasks of the view model share the main actor:
the observer (`HandleEvent`, `HandleReplayCompleted`, `HandleTranscriptReset`)
and the load (`LoadSnapshot`, `ResumeAttach`, `ResumeHistory`, `ResumeInspect`,
`LoadFails`), with `LoadOlder`/`ResumeOlder` beside it; each suspension point of
the Swift code is a step boundary. `said`, `asked`, `want`, `crossed` and
`disturbed` are history: what was said, what was set last, which settings a
command changed over a queued report, what a load met.

## 3. Runs

| Run | Checks | Shows |
|---|---|---|
| `journal_faults` | `TypeOK`, `JournalBounded`, `StreamContiguous`, `PublishedUnique`, `ReplayAgreesWithStream`, `ReplayComplete`, `DurableAtRest`, `StreamSpec` | with crashes inside append and any store error, journal and table keep their limit, a receiver never skips or repeats, numbers are sent once, and while no append was torn or failed, replays are complete and the tables are a copy of the memory |
| `turn` | `TypeOK`, `CancelScoped`, `DeadOnlyWhenGone`, `WaitingHasPending`, `NoStaleUnlessCancelled`, `AnswerFaithful`, `PermissionSurfaces`, `PermissionReleased`, `ExitReported`, `StatusSettles`, `MutexReleasedUnlessBlocked` | all operations, an agent that may die: the gate forgets a cancel, a session is given up only when its worker is through, clients and agent agree on permissions until a cancel meets one; no hidden permission, lost wake-up, unreported exit or endless "working", the deadlock of finding 3 aside |
| `agent_open` | `TypeOK`, `OwnReply`, `ImportWhole`, `StaleForCause`, `NoReplacement`, `OpenReturns`, `RowsSettle` | answers are never mixed up, an import has all its history, every stored row gets a state and "stale" only for a cause, recovery makes no replacement, and the mutex comes back unless the agent asks for a permission during the handshake |
| `replay_sync` | `TypeOK`, `QuietMeansSynced`, `HistoryWhole`, `CatchesUp` | a client at rest lacks only what was appended between attach and subscribe, through lost connections, duplicated frames and races; paging skips nothing while the journal is trimmed |
| `gateway` | `TypeOK`, `PairedOnce`, `RetryWindow`, `AnswerIsOwn`, `CallReturns`, `StopStopsUnlessHeld` | a code pairs one device, a retry inside the window runs once, a call comes back, with its own answer; `host.stop` ends every thread unless a command that waits for an agent keeps the mutex of the manager for ever (finding 3, and the handshake) |
| `transcript` | `TypeOK`, `TranscriptWhole`, `ToolShown`, `SettingsAgree` | for loads that no event crosses: the view shows every piece of every message once and in order, tool calls as ACP reads their updates, and the settings last made |
| `journal_torn` | `SequenceNamesOneEvent`, violated | finding 1 |
| `turn_cancel_stale` | `NoStalePending`, violated | finding 2 |
| `turn_mode_blocks` | `MutexReleased`, violated | finding 3 |
| `replay_stall` | `ReplayCatchesUp`, violated | finding 4 |
| `gateway_retry` | `OncePerRequest`, violated | finding 5 |
| `transcript_lost` | `TranscriptComplete`, violated | finding 6 |

### Findings

1. `append` commits the event and the session row separately
   (`manager.rs:1249-1250`) and recovery numbers on from the row
   (`manager.rs:1323`). When the process ends in between, the restarted host
   holds event n and calls its next event n too; the insert of the new one
   fails on the primary key and the error is ignored.
2. `cancel` clears the pending permission (`manager.rs:715`), and the pump of
   the same call may then apply the request that was still in the channel.
   The cancelled permission stays on offer; nothing but a later cancel or a
   newer request removes it. `PermissionGate::decide` (`session.rs:295`) takes no
   id, so an answer to it is reported as resolved while it is lost, or answers
   the next request of the agent.
3. `set_mode` waits for the worker with the mutex in hand (`manager.rs:665`,
   `693`). A worker blocked in the gate never takes the command, or, when it has
   taken it first, is led into the gate by a permission request that comes before
   the reply (the trace of TLC). The answer or the cancel that would free it needs
   the mutex: all sessions of the host stop. The pump waits for the mutex too,
   so `host.stop` does not return either (`host.rs:206-207` joins the pump).
4. The Apple client asks for a replay with `fromSequence`
   (`GatewayConnection.swift:606`), the host reads `after_sequence` and replays
   the first `max_replay_events` of the journal. A gap behind these is never
   filled, and each new event makes the client ask for the same again.
5. The cache of completed commands belongs to the connection (`server.rs:421`). A
   retry after a reconnect, which `protocol/gateway-v1.md:140` allows, executes
   the command again.
6. An event that arrives while the view loads is put into `replayBuffer`
   (`SessionViewModel.swift:451`), which is cleared before it is read and not
   read again after the load: the message is missing until the next load.

Each has a passing counterpart that holds when the cause is excluded by name:
`ReplayAgreesWithStream` (1), `NoStaleUnlessCancelled` and `AnswerFaithful` (2),
`MutexReleasedUnlessBlocked` and `StopStopsUnlessHeld` (3), `CatchesUp` (4), `RetryWindow` (5),
`TranscriptWhole` (6).

### Bounds

`JournalLimit` 2 with numbers up to 4 makes trimming, pruning and the resync
boundary happen several times; `MaxBatch` 2 gives operations that are interrupted
between their appends; `MaxBoot` 2 gives one restart, and `journal_torn` has a
second one. Clients of the journal do not interact, so one is enough. In
`AgentTurn` five operations and two permission requests cover a stale permission,
its answer and the next request; the gate and the manager forget everything
between two requests. In `AgentOpen` two operations, two runs of the host, two
replayed updates and one fault give an import after a create, and recovery of
both rows with a fault in either. `GatewayReplay` has two faults, so that a
reconnect meets a time-out or a duplicate, and a journal of two events for four
appends; `replay_stall` needs a journal longer than a replay. `Gateway` has two
clients that use the same request ids, a cache of two, and four connects, calls
and faults between them, at most one of them a fault: two hellos race for one
code, a call is retried inside the window after a time-out, and a stop meets a
command that is in the manager. A retry after its entry was evicted needs more
calls; that the window is exactly the size of the cache is theorem
`RetriesAnswered`. `gateway_retry` has five, for a retry after a reconnect. `Transcript` has two inputs (any update
or command, then one that meets what the first left), pages of two events and two
loads: a message or a tool call is split between history and live events in every
way. Symmetry is not used: most runs check liveness, and the model values have
different roles.

Deadlock is not checked where a system may stop: a host that stays down or was
stopped (`journal_*`, `gateway*`, `agent_open`), bounded inputs (`replay_*`,
`transcript*`), and the deadlock of finding 3 (`turn`, `turn_mode_blocks`).

### Fairness

`AgentTurn`: threads that can run do run (`Manager`, `Worker`); the pump thread
takes the mutex again and again, as its 25 ms loop does; and a request that the
agent is not itself holding up ends by an answer, an error or the end of the
stream. `AgentOpen`: caller and worker run, and an agent that is alive answers.
`GatewayReplay`: the connection thread polls, the client reads its socket and
reconnects, and a socket is not blocked for ever (strong fairness of `Write`,
which a blocked socket disables and enables again). `Gateway`: threads of the host
run, except that one in a command that waits for an agent may stay there, and so
does a client inside `connect` or `call`. Its read ends after ten seconds
(`client.rs:49`) when its thread is held up in the manager or in front of it. A
pump that waits for the mutex gets it once the threads that stop have let go of
it: after the flag each of them takes it at most once more. Nobody has to call, to
answer a permission or to append an event, and no other time-out or fault has to
happen. `SessionJournal` and `Transcript` are checked for safety only.

## 4. Theorems

All are proved for every value of the constants that the named assumptions allow:
`JournalAssumption`, `TurnAssumption`, `OpenAssumption`, `GatewayAssumption`,
`ReplayAssumption` and `TranscriptAssumption`. They fix types, make limits
positive and give the updates of an agent the shape that the wire types give them
(`WellTyped`: optional fields are absent or present, content is a list, the modes
reported are modes of the session, and the numbers that stand for texts of the
agent differ from those that stand for prompts). The bounds on counters are
arbitrary naturals, so the results do not depend on them. TLC evaluates each
assumption in the runs of its module.

| Theorem | States | Along |
|---|---|---|
| `SessionJournalProofs` | | |
| `TypeCorrect` | `TypeOK` | `TypeInv` adds that event keys are unique, without which the journal read back need not be a sequence, and that an operation inside `append` has an append left |
| `StreamsContiguous` | `StreamContiguous` | `StreamInv`: a client that is not subscribed, and every client of a host that is down, has an empty channel |
| `PublishedOnce` | `PublishedUnique` | `NumberInv`: while no write has failed, where the row stands against `last` in each phase, and that no published number is above the row |
| `ImplementsStream` | `StreamSpec`: `SessionJournal` implements `EventStream` | one step per action: `Publish` is a publication because `NumberInv` puts the new number above all published ones; everything else is a stutter or the step of the same name |
| `JournalStaysBounded` | `JournalBounded` | `PruneBound` (rows that survive the `DELETE` have distinct keys in a window of `JournalLimit` numbers), `RecoveredJournal` |
| `SessionReplayProofs` | | |
| `ReplayAgrees` | `ReplayAgreesWithStream` | `IntactInv`: until a write fails or an append is torn, the journal has the retained numbers one after the other (`JournalTiled`), the table has all of them and the same events (`TableFilled`, `JournalStored`), and what clients were given is numbered no further than the row and is what the table has under that number |
| `DatabaseIsCopy` | `DurableAtRest` | `IntactInv` at a free mutex: a restart reads back this journal and numbers on |
| `ReplayIsComplete` | `ReplayComplete` | `JournalTiled`: with no gap in the journal, the events after the cursor are all there unless the oldest one is beyond it |
| `AgentTurnProofs` | | |
| `TurnTypeCorrect` | `TypeOK` | `HandlerInv`: the gate is open exactly while the worker is in the handler |
| `CancelHitsOnlyOpen` | `CancelScoped` | `CancelInv`: a cancelled gate or outcome belongs to a permission that a cancel met |
| `NeverGivenUpEarly` | `DeadOnlyWhenGone` | `ExitInv`: the flag, its copy in `pump_all` and every exit event on its way imply a worker that is through |
| `WaitingCanBeAnswered` | `WaitingHasPending` | inductive with the types: every action that sets the status to waiting sets the pending permission in the same step, and every one that clears it changes the status |
| `OfferIsOpen`, `AnswersFaithful` | `NoStaleUnlessCancelled`, `AnswerFaithful` | `InStepInv`: until a cancel meets an open permission, a request is offered once (in the channel, in the batch being applied, or pending), only while its gate is open, a decision in the gate is the one the clients were shown, and the agent was told no other |
| `AgentOpenProofs` | | |
| `OpenTypeCorrect` | `TypeOK` | `OpenTypeInv`: request ids count the steps of a connection, a connection that does not exist is empty, recovery works on a row |
| `RepliesAreOwn` | `OwnReply` | `WireInv`: every frame on the pipes belongs to the operation under way and its id says which of its requests it is; closing a connection empties the pipes |
| `RecoveryMakesNone` | `NoReplacement`, an action property | `WireInv`: all that an agent can be asked during recovery is load or resume |
| `ImportsWhole` | `ImportWhole` | `UpdateInv`: updates read plus updates in the pipe are the updates replayed, and none is behind the answer to `session/load` |
| `StaleOnlyForCause` | `StaleForCause`, an action property | `CauseInv`: while the agent behaves, an error on its way means that it no longer has the session |
| `GatewayProofs` | | |
| `GatewayTypeCorrect` | `TypeOK` | one step per action |
| `PairingMintsOnce` | `PairedOnce` | `PairInv`: between the two critical sections of `authenticate` only a thread about to store a device holds a pairing, and what threads and devices name are pairings of the table |
| `RetriesAnswered` | `RetryWindow` | `WindowInv`: the cache is the end of the list of commands carried out, of the length of the list or of `CacheLimit`, and equal ids in that list are further apart than the limit |
| `CallReturnsOwnAnswer` | `AnswerIsOwn` | `OwnInv`, per connection: the hello comes first and alone, nothing is acknowledged before it is answered, and every ack in queue or socket says what became of a command of this connection |
| `GatewayReplayProofs` | | |
| `ReplayTypeCorrect` | `TypeOK` | deferred events stay finite, so that the run after the cursor has an end (`LeastNatural`, and a count of the deferred events) |
| `HistoryIsWhole` | `HistoryWhole` | `HistInv`: what is loaded is one interval that ends where the first page asked to, and no answer on its way is ahead of the journal |
| `QuietIsSynced` | `QuietMeansSynced` | `SyncInv`: while no request was given up, each event above the cursor, or above the newest number of an answer on its way, is itself still to come behind it, or a later answer that names it is, or it is one of the missed; `LinkInv`: a connection without a receiver has sent nothing, one that is down holds nothing |
| `TranscriptProofs` | | |
| `TranscriptTypeCorrect` | `TypeOK` | `TypeInv`: what the channel, the log, the inbox and the answers of the host can hold |
| `SettingsShown` | `SettingsAgree` | `HostInv`, `ViewInv`: the channel turns the host's settings into those last made, the inbox turns the view's into the host's; channel and inbox are reduced to tags (which setting, which value), and `Follows` is kept by pushing and taking a tag |
| `UpdateIsPatch` | `Merging` after `NormalizeToolCallUpdate` is `Patch` | field by field, for every update `Explicit` admits; the definitions are the ones `ToolShown` uses |
| `TranscriptShownProofs` | | |
| `TranscriptIsWhole` | `TranscriptWhole` | `SaidInv` and `ShownInv`, below |
| `ToolsShown` | `ToolShown` | the same two, then `UpdateIsPatch` along the updates of the call (`ChainPatched`) |

`TranscriptWhole` and `ToolShown` speak of states at rest only, so each needs an
account of every state in between. `SaidInv` is the host's half: journal and
channel together hold the pieces of text and the tool-call updates that were said,
in order and normalised, and the prompts that were asked (`Heard`). `ShownInv` is the
client's half: there is a number `top` such that the inbox holds exactly the events
after `top`, in order (`Waiting`), and, unless a load was disturbed, the transcript
stands for the events of an interval that ends at `top` while the view is idle, or
not before `top` while it loads (`Holds`, `Represents`); an older page on its
way ends just below the interval. An event handled extends the interval above, a
page extends it below. `Represents` says of a transcript and an interval that the texts
are those of the events, and that a call shown in one item is what `Merging` makes
of its events one after the other (`Chained`). It survives putting a page in front
because joining two transcripts joins their texts, and a call with one item in
the result has no event on the side without an item. At rest channel and inbox are
empty, the interval is the whole journal, and the journal holds what was said.

What a definition returns for every sequence (flattening, merging, appending at the
end or in front) is proved without an induction scheme: `LeastOf` gives the
least length at which a fact fails, and that length can neither be zero nor follow
one at which the fact holds. Recursive functions enter these proofs through the
equations that a function on `1..n` satisfies, which determine it.

`RankBijection` and `RecoveredJournal` establish that
`ORDER BY sequence LIMIT n` over rows with distinct keys is a sequence of at most
n events.

Only model-checked:

- the liveness properties (`PermissionSurfaces`, `PermissionReleased`,
  `ExitReported`, `StatusSettles`, `MutexReleasedUnlessBlocked`, `OpenReturns`,
  `RowsSettle`, `CatchesUp`, `CallReturns`, `StopStopsUnlessHeld`), which need fairness and
  ENABLED and are out of the prover's reach.

## 5. Not modelled

- Serialisation of frames and fields of DTOs; the models have the kinds and the
  fields that control or a property depends on.
- Which executable an adapter resolves to, environment and arguments of the child.
- `LegacyAcpSession` and deferred requests of `AcpClient`, which no adapter of the
  host uses; the scripted turns of `fake.rs`; the in-memory store of the tests.
- The log buffer, the configuration file, the output of the CLI.
- Back-off and heartbeat timers of the Apple client (a connection is lost and
  restored at any time instead), the session list, drafts, the local echo of a
  prompt, the permission sheet, and all SwiftUI views.
- Subscribers whose receiver is gone stay in the manager's list; sends to them
  are ignored, so the model drops them.

## 6. What is left

Every safety property of the passing runs is a theorem; liveness rests on TLC and
its bounds. `ToolShown` leaves out a call that is shown in two items, which happens
when a page boundary splits its updates: a client that joined the two would need a
stronger `Represents`. The model could grow towards the session list of the Apple
client.
