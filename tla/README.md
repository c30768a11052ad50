# Kōtui: a TLA+ verification project

Kōtui is a desktop application (Go backend, Svelte frontend, Wails bridge) in
which one person, the *Boss*, talks to a team of local language-model agents
served by Ollama: a *Lead*, throw-away *workers*, hired *specialists*, a
*Watchman* and an optional cloud *Senior Consultant*. One machine runs one
inference at a time, and most of the difficulty is in that: messages wait,
are batched, held, stopped and retried while goroutines share a handful of
locks, flags and single-slot channels.

This directory models that part of the program, and the parts around it that
share its state: approvals, projects and conversations, the agents' identity
files and the commands that come in from a phone. `PROJECT.json` lists, in
machine-readable form, the components, the runs, the mutants that show each
property can fail, the source lines each definition stands for, the hazards
and the theorems.

* [Inventory](#inventory): the parts, their state and how they interact
* [Modules](#modules): what models what
* [Runs](#runs): what TLC shows, with which bounds and fairness
* [Disagreements found](#disagreements-found)
* [Proofs](#proofs): what holds for every value of the constants
* [Not modelled](#not-modelled)

All paths are relative to the repository root, `src/` here.

## Inventory

`internal/orchestrator` is abbreviated to `orch/`.

| part | state | operations | what makes it correct |
|---|---|---|---|
| **Cognition queue** `orch/cogqueue.go` | four buffered channels, `waiting` counters, the dispatcher's current request, throttle state | `Submit`, the dispatcher loop (`dequeue`, context check, throttle, run, reply), shutdown | a blocked caller is answered, truthfully; a function starts at most once and alone; bounded priority inversion; exact counters |
| **War-room inbox** `internal/warroom/service.go` | batch buffers and running flags per stream, the offline queue, `ollamaHealthy`, one cancel slot | `SendBossCommand`, `SendDirectMessage`, batch goroutines, health monitor, `flushPendingDMs`, `CancelCurrentOperation` | no message lost, doubled or stranded; Stop reaches what runs; held messages are delivered |
| **Boss-command pipeline** `orch/orchestrator.go`, `worker.go`, `vram.go`, `internal/store/task.go` | the plan, the task in hand, attempts, `lastOutput`, the worker slot, `parked`/`workerHot`, the tasks table | `HandleBossCommand`, `runWorkerTask`, `AcquireWorkerSlot`/`ReleaseWorkerSlot`, `parkLead`, `CreateTask`, `UpdateTaskStatus` | the slot is always returned; each task has one outcome, the one in the database; workers and Lead share VRAM as the profile says |
| **Background reviews** `orch/optimizer.go`, `curiosity.go` | task counters, `reviewing` flags, review goroutines | `NotifyTaskDone`, `runReview`, `runCritique` | at most one of each at a time |
| **Direct-message turn** `orch/orchestrator.go` `HandleDirectMessage`, `agent_loop.go` | cached agents (`dmAgents`), their histories and pending history entry | get-or-create agent, set the message aside, submit a turn, tool loop, deliver, invalidate | the turn stores the message it is about; the agent remembers what it said |
| **Response parsing** `orch/parse.go` | none | signal, tool-call, task-list and verdict extraction | the signal acted on is the one written, and is not shown |
| **Approvals and sudo gate** `internal/tools/sudogate.go`, `shell.go`, `internal/store/approval.go`, `warroom/service.go`, `gui.go` | pending channels by request id, approval rows | `Request`, `Resolve`, `DecideApproval`, approval by chat | a command runs only on its own yes; a decision reaches the one who waits and never changes |
| **Tool engine** `internal/mcp` | tool registry, clearance | `Execute` with three attempts and recoverable errors | no tool above its clearance; each attempt asks again |
| **Projects and conversations** `warroom/service.go`, `internal/store/project.go`, `message.go`, `config` | the active project in six places, the Lead's history | create, switch, archive, reset, first run, open a conversation, save settings; commands, critiques and broadcasts that post into it | the copies agree; messages have a conversation |
| **Dispatcher, store** `internal/dispatcher`, `internal/store` | the dispatcher's project, SQLite tables | dispatch, persist, wipe | what is dispatched is stored where it belongs |
| **Agent identity** `internal/agent`, `orch/reflect.go`, `tools/selfupdate.go` | brain files, company files, the panel's cache, composed prompts, `leadMu`, `dmAgentsMu` | save, `update_self`, reflect, broadcast, spawn, invalidate, reset | prompts follow the files; no circular wait |
| **Relays** `internal/relay`, `main.go` | poll offset and loop, webhook server, life cycle | poll, deliver, run command, reply, start, shut down | no update is lost; a shutdown ends |
| **Ollama client and monitors** `internal/ollama` | HTTP connections, heartbeat and system-monitor loops | chat, stream, retries, samples | bounded retries |
| **Hiring, escalation** `orch/hiring.go`, `escalation.go` | session map, records | no caller; a worker's escalation is never routed, the Lead's own leaves a notice (in `Workspace`) | |
| **Memory recall** `internal/memory` | embeddings | index, recall | nearest neighbours (floating point) |
| **Tools, logging, frontend, build files** | files, UI state | I/O and presentation | out of scope |

### How they interact

```
 Boss --SendBossCommand----> channel batch --goroutine--> HandleBossCommand
      --SendDirectMessage--> agent batch ---goroutine--> HandleDirectMessage --Submit--> cognition
      \--(offline)---------> offline queue --flush-----> HandleDirectMessage --/          queue
      --Stop---------------> cancel slot (one for all streams)
 HandleBossCommand --> Lead turns, runWorkerTask --> worker slot, VRAM, task rows
                   \-> NotifyTaskDone --> optimizer / curiosity goroutines
 SystemMonitor --pressure--> cognition queue      heartbeat --ollamaHealthy--> inbox
 a turn's tool call --> tool engine --> shell --> sudo gate <--DecideApproval-- Boss
                                    \-> update_self --> brain files
 Boss --saves--> brain files, company files --compose--> prompts of Lead and agents
      --switch--> rows, orchestrator, dispatcher, service, config.toml
 phone --> Telegram poll, Slack and WhatsApp webhooks --> commands --> approval rows
```

Two facts of the code shape the models. Only `HandleDirectMessage` and the
turns it makes go through the cognition queue; `HandleBossCommand` runs its own
Lead and worker turns beside it. And `HandleBossCommand` is called from one
place, the channel's batch goroutine, so commands are sequential, whereas
`HandleDirectMessage` has two callers, the batch goroutine and the flush, and
the second is concurrent even for one agent.

### What is hard here

* Several selects evaluated one after another while senders keep coming
  (`cogqueue.go:283-319`); a caller that leaves while its function runs.
* Flags read under one lock and acted on under another
  (`service.go:1374`, `:389`, `:1460`).
* One cancel slot for several concurrent operations (`service.go:364-391`).
* Error paths that leave a loop early: a slot, a row or a counter must still be
  put right (`worker.go`, `vram.go`).
* Identifiers chosen by a language model and used as primary keys.
* Retries that end in "accept what there is".
* Requests named by a hash of their command, so that two of them share a name
  (`sudogate.go:42`), and a deferred delete that removes by name.
* One pending history entry per agent, set before a turn waits and read when it
  runs (`agent_loop.go:265`).
* A switch of project that is six writes, with commands in flight.
* Files read one by one while another call truncates and fills them, or while a
  reset deletes them.
* The Lead's history, which a switch puts stored messages in front of, a turn
  appends to and a broadcast empties, while messages are stored at other moments.

`PROJECT.json` lists forty such hazards by line, with the properties that
watch them, and what of each no property sees, or why none does.

## Modules

### CogService (abstract)

The contract of the cognition queue as its callers rely on it: requests are
accepted, begin, end, are skipped or withdrawn, and callers return with a
truthful answer; one function runs at a time. `phase`, `cancelled` and `reply`
are all its state. It is used twice: `CogQueue` implements it, and
`WarRoomInbox` uses its actions in place of the queue.

### CogQueue

The queue itself. Variables correspond to the code's data one to one: `chan`
(`p0..p3`), `waiting` (the atomics), per caller the step of `Submit` (`caller`,
`doneCh`, `reply`, `cancelled`, `ran`), and for the dispatcher its step
(`disp`), the request in hand (`cur`), the select it has reached (`pass`) and
the error it is about to send (`verdict`). The scan is split as the Go code is:
three non-blocking selects (`NextPass`), then one blocking select over all
channels, so that sends fall between them. The counter is incremented before
the send (`Submit`), decremented by an abandoning caller (`Abandon`) or by the
dispatcher (`TakeOwnership`), each a step of its own. `Gate`, `Throttle`,
`PressureRelieved` and `ThrottleFails` are the VRAM/CPU throttling of background
requests; `PressureSample` is the system monitor, which may report anything.
`older` is a history variable: the tiers that were non-empty when the scan
began.

### WarRoomInbox

The war room's message paths. A stream is the channel or one agent. `sender`
is the progress of each Send call, split where the code releases
`ollamaHealthyMu` and takes another lock (`SendDirectMessage`, then
`BatchDirectMessage` or `HoldDirectMessage`). `pump` is the batch goroutine:
`Drain`, `Register` (which aborts whatever operation is registered), the
handler, `Clear`, `Recheck`. `StopRequested` reads the cancel slot under the
lock and `StopFires` calls what it read afterwards. `Probe`, `StoreHealth` and
`FlushPendingDMs` are the health monitor. An operation is named by the first
message of its batch; `carried` records which operation took each message.
The turn of a direct message goes through `Queue == INSTANCE CogService`.

### Mailbox (abstract)

What the war room promises of a message, without goroutines, flags and locks:
it is accepted once, behind those of its stream or behind those that wait for
Ollama; the first messages of a stream that is not busy are taken together by
a new operation, those held each by one of its own; an operation ends once and
frees its stream. `WarRoomInbox` implements it: a batch that a goroutine has
taken and not yet handed over is still first in line (`Line`), and a stream is
busy while its goroutine waits for an operation (`Busy`). Two other modules
build on this contract: `WorkPipeline` lets one Boss command follow the other,
and `DMSession` lets the messages of the batch come one at a time.

### WorkPipeline

One command after another: classification and decomposition (`LeadEnds`,
`LeadPlans`), `PersistTasks`, then for every specialist task the slot
(`AcquireSlot`, `AcquireCancelled`), parking (`ParkLead`), `StartTask`, and the
attempt loop of `runWorkerTask` (`SpawnWorker`, `SpawnFails`, `WorkerAnswers`,
`WorkerFails`, `VerifyFails`, `VerdictApproved`, `VerdictCorrection`) to one of
its three ends (`TaskApproved`, `TaskAccepted`, `TaskFailed`), each with the
deferred release of the slot and the notifications that follow. A stopped
command's database calls fail silently, as the code ignores their errors.
`rows` is the status column of the tasks table.
`resident` is what the command's own requests leave in VRAM according to their
`keep_alive`: the Lead for ever, a worker not beyond its request; the loads of
background reviews and direct messages are not tracked. Outputs are abstracted
to *text*, *empty*, *error* (an error message stored as output) and *none*. A
task whose identifier the model left empty gets a random row that no status
update finds; the model gives every task an identifier. The escalation branch
at `orchestrator.go:580-587` is left out because `runWorkerTask` turns every
error of a worker's turn into text, so no escalation ever reaches it.

### Approvals

A call of the shell tool: the engine's checks and its loop of attempts
(`Execute`, `TryFails`, `NextAttempt`), a plain command (`RunPlain`), or the
sudo gate (`Request`, then `Hear` or `TimeOut`, each with the deferred
`Deregister`), and the command itself (`RunEnds`). `pending` is
`SudoGate.pending`, `channel` the one-place channel of each request, `rows` the
approvals table. `OnRequest` is the callback's goroutine, `Decide`,
`SendVerdict` and `Record` are the three moments of `DecideApproval`,
`ApproveByChat` writes the row only. A command stands for its identifier, as
the code derives the one from the other. `Restart` leaves nothing but the rows.
`granted`, `asked` and `byChat` are history variables.

### Signals and DMSession

`Signals` are the operators of `parse.go` over responses that are lines of
items, not of characters: which signals count, what a tool call may look like,
what is left for the Boss. `DMSession` is `HandleDirectMessage` and
`TurnStream` for one agent: `Resolve` (the cached object, or a new one seeded
from the stored conversation), `Prepare` (`InjectHistoryEntry` and the queue),
`StoppedInQueue`, `BeginTurn`, then per iteration an inference that fails or a
response, which the code examines in the order `Consult`, `Escalate`,
`CallTool`, `Reply`, and `ToolDone`, and finally `Deliver`. `log` is the stored
conversation, `hist` and `entry` belong to each object ever made, so that a
call may go on with one that has left the cache (`InvalidateDMAgent`,
`Restart`). A new object remembers the last `HistoryLimit` messages of `log`
that the Boss or the agent said; notices of the system are stored with another
kind, which the query leaves out, and are left out here too. The queries of
`Resolve` run in the context of the call. If Stop has cancelled it while the
call waited for `dmAgentsMu` or `leadMu`, or the database fails, the new object
has no history, is cached all the same and nobody is told: `Resolve` has that
outcome too, and the history variable `blank` keeps such objects. Messages of
the batch come one at a time, those in `Held` at any time, as `WarRoomInbox`
has it.

### Workspace

The calls of the window as the statements, locks and file writes they are:
`CreateProject`, `Activate` ... `WriteConfig` (a switch), `ArchiveProject`,
`SeekDM` and `OpenDM`, `InitFirstRun` and `Greet`, `SaveConfig`, `Wipe` and
`ResetConfig`, each able to `Fail`; `ResetContext` and `Broadcast`, the end of a
save of a company file; `Start` of the application from the configuration on
disk. A project is its name, which is unique: `CreateProject` may meet one that
is archived and fail.

A command of the Boss is stored first (`SendBossCommand`). An inference
classifies it before the Lead's turn begins and its text enters the Lead's
history (`BeginTurn`). The turn ends with an answer (`Answer`, then `Reply`), a
plan (`Plan`) or an error (`Finish`); a command with a plan posts what the Lead
says above it and as it hands tasks over (`HandOver`), may start a critique
(`NotifyTaskDone`, `RunCritique`) and ends with its summary (`Finish`). Each
message takes the orchestrator's project and conversation of its own moment
(`Say`); the critique those it was started with; the notices of broadcasts and
escalations a project only (`Notify`).

The variables are the tables, the service's `activeConv` and `cfg`, the file,
the context of orchestrator and dispatcher, and the Lead's history, of which
the model keeps what is stored as well: commands and the answers to them.
`SeedLead` puts the stored messages before it, or nothing if the query fails.
Other messages of agents (`note`: above a plan, at a hand-over, a critique, a
question) are stored in the conversation and never enter the Lead's history
under that text. `forgotten` is a history variable: what the Lead had been, or
could have been, told when its history was last emptied, and what a failed
query did not give it. The queries are written over positions in a table
(`Said`, `Latest`, `RowsAt`): which rows are meant, and what they hold in order,
so that both can be reasoned about.

### Brain

The identity files. A file is its version; a write truncates it and then fills
it; a prompt is the version of each file it was composed from, read one at a
time. The calls are the brain panel, the Boss's save, `update_self`, the Lead's
summary, a reflection, a save of a company file with its broadcast, the
making of a direct-message agent and a reset; they meet at `leadMu` and
`dmAgentsMu`. The panel and the making of an agent first make the agent's
directory (`MakeDir`) and each missing file, in two steps as `writeIfAbsent`
does (`WriteIfAbsent`, then the write). A reset deletes the agents' directories
(`RemoveAgents`), then the company identity (`RemoveCompany`); the handbook
stays. What another call is filling then is lost (`FillUnlinked`), and calls
that read or write what is gone fail: with their error (`Fails`), with the
prompt as it was (`CannotUpdate`), or with an agent that has the plain prompt of
the fallback (`CannotSpawn`).
`kept` is a history variable: the version of each file the Boss saved last,
from the moment the save has ended. `failed` is another: the last broadcast
could not compose the Lead's prompt.

### Relay

The headless backend: its start (`StartTelegram`, `StartWebhooks`), the poll
loop (`Loop`, `Poll`, `ServePoll`, `GetUpdates`, `PollFails`, `HandleUpdate`,
`SendReply`, `BatchDone`), Slack and WhatsApp deliveries, the shutdown in the
order of the deferred calls, and a crash. The services of Telegram, Slack and
Meta are external, modelled by what the relays rely on: Telegram holds an
update until a poll asks for a later one, the others deliver until they are
acknowledged. What a command does to an approval is in `Approvals`.

### MC modules and proof modules

Each `MC...` module gives the constants of its module their values; each
`...Proofs` module holds theorems. Definitions marked *Mutant* are deliberate
mistakes, each used in place of the definition after it to show that a property
notices.

## Runs

All passing runs explore the complete state space of their instance.

| run | states | shows |
|---|---|---|
| `cogqueue` | 181,980 | `NoLostRequest`, `ReplyHonest`, `WaitingExact`, `BoundedInversion`, `ImplementsCogService`, `EveryRequestAnswered` |
| `inbox` | 291,655 | `EveryMessageAccounted`, `NoStrandedBatch`, `CancelSlotFresh`, `ImplementsMailbox` |
| `inbox_live` | 14,861 | `BatchedHandled`, `HeldHandledOnReturn` |
| `work` | 142,897 | `SlotBalance`, `OutcomesTold`, `ToldAgrees`, `OneReview`, `CommandEnds` |
| `approvals` | 39,634 | `RunNeedsOwnYes`, `ResolverNeverBlocks`, `FirstRequestDecidable`, `DecisionStands` |
| `dm` | 110,185 | `OwnMessageStored`, `RepliesRemembered` |
| `workspace` | 3,048,514 | `SwitchTakesEffect`, `MessageHasConversation`, `ChannelRecalled` |
| `brain` | 395,446 | `SaveReachesWorkers`, `HouseReachesLead`, `CallEnds` |
| `relay` | 229,503 | `NoUpdateLost`, `CommandsRun`, `ShutdownEnds` |
| `inbox_offline`, `work_vram`, `brain_prompt` | until the violation | see below |

Every module's `TypeOK` is checked by its run too.

**Bounds, and why they are enough.**
`CogQueue`: three requests, one slot per channel. Two requests of one tier
compete for the slot, so a sender blocks, is overtaken and abandons; the third
is a background one, so throttling, dropping and both sides of every priority
comparison occur. The code's capacities (4 to 32) only postpone the first
blocked send; the proofs below hold for all capacities.
`WarRoomInbox`: two direct messages to one agent and one channel command. Two
streams are what the cancel slot needs, two messages in one stream what
batching, rechecking and flushing need. Each message is sent once. The liveness
run drops the channel, whose goroutine is the same, because the liveness check
of the whole instance takes minutes.
`WorkPipeline`: two commands (a second one meets the rows, counters and flags
of the first), plans of two tasks with a Lead task or a repeated
identifier among them, two attempts instead of `verifyMaxRetries + 1`, swap
profile (the other one never parks), and thresholds of two so that reviews
become due and overlap with later tasks.
`Approvals`: two calls, so that one command is asked for twice at once or one
after the other; one sudo command and one plain one; two attempts; two
decisions under way, so that they meet in the gate and in the table.
`DMSession`: a message of the batch and a held one, the least that can cross;
nine responses, at least one for each way a turn can go on; two iterations of
the tool loop, so that one ends it and one does not; two invalidations or
restarts; `HistoryLimit = 1`, so that a new object forgets. Three messages are
more than TLC finishes in minutes; the proofs cover them.
`Workspace`: two projects, one command, three calls of the window (a project
made, a broadcast or a switch, and one more), one failure, one start after the
first, one message or critique of a command at work; `HistoryLimit = 1`, so that the window of the
history moves. `Slots = {1}`: one call of the window at a time, as a user makes
them. Two at once do leave the copies of the active project apart
(`SwitchProject` has no lock around its six writes), and can give a new project
two conversations.
`Brain`: the Lead and a worker, two files each and the company identity, two
calls at a time, three calls and restarts in all: one call to prepare a state
and two to meet in it. The safety properties were also checked with the
handbook as a second file of the company (537,796 states) and are proved for
any number of calls and files.
`Relay`: two updates, of which the second is no command, so that the offset
moves past an update of either kind and a batch of two occurs; one delivery
each of Slack and WhatsApp; one failure; one start after the first.

**Fairness.** `CogQueue`: weak fairness of the dispatcher goroutine and of
callers whose select is ready; functions end because every inference runs under
a watchdog; strong fairness of `Enqueue`, because Go hands a freed channel slot
to blocked senders in their order. Nothing is assumed of callers, cancellations
or pressure (`waitPressureRelief` gives up after a minute). `WarRoomInbox`: weak
fairness of every goroutine, of the ticker-driven monitor and of the queue; the
Boss and Ollama owe nothing, so delivery of held messages is stated for an
Ollama that comes back again and again. `WorkPipeline`: weak fairness of the
command's goroutine, since every inference it waits for ends, at the latest
with the thirty-minute watchdog; nothing is assumed of reviews, and nobody
has to stop anything. `Brain`: weak fairness of each call that is under way;
nobody has to make one. A mutex is not assumed to be fair: with finitely many
calls weak fairness is enough. `Relay`: weak fairness of `runHeadless`, the poll
loop and the goroutines of deliveries; nobody has to send, to deliver, to stop
or to start anything. `CHECK_DEADLOCK FALSE` is set everywhere because these
systems rest when the Boss says nothing more.

**What the properties mean.**

* `NoLostRequest`: a caller blocked in `Submit` is in a channel, with the
  dispatcher, or already answered. `ReplyHonest`: a result means the function
  ran, a context error that the context is done, a drop that it never ran.
  `WaitingExact`: the counters shown to the Boss never drift.
  `BoundedInversion`: what the four selects do guarantee, in place of strict
  priority. `ImplementsCogService`: among other things, one function at a time
  and none started twice (`AtMostOnce`, which is proved on its own as well).
  `EveryRequestAnswered`: starvation comes from higher tiers alone.
* `EveryMessageAccounted`: each accepted message is in exactly one place.
  `NoStrandedBatch`: a non-empty batch has a goroutine that will look again.
  `CancelSlotFresh`: the slot never outlives its operation.
  `ImplementsMailbox`: messages are handled once, those of a batch in order,
  one operation after the other.
* `SlotBalance`: the worker slot is taken exactly in the steps that hold it.
  `OutcomesTold`: specialist tasks behind the one in hand have exactly one
  outcome. `ToldAgrees`: what the Boss hears of a task is what its row says,
  unless the command was stopped or the plan uses an identifier twice.
  `OneReview`: reviews do not overlap. `CommandEnds`: every command ends.
* `RunNeedsOwnYes`: a sudo command runs only if the Boss said yes to this very
  request, not to an earlier attempt or to another call of the same command.
  `ResolverNeverBlocks`: the send outside the gate's lock never finds its place
  taken. `FirstRequestDecidable`: while the first request for a command waits
  unheard, there is a pending row and a decision on it reaches the call.
  `DecisionStands`: a recorded decision never changes.
* `OwnMessageStored`: a turn stores its own message, not one left behind by a
  call that was stopped, unless two calls were prepared on one object at once.
  `RepliesRemembered`: the agent that gets the next message remembers every
  reply, unless it was made anew while the reply was under way
  or `HistoryLimit` messages have followed it; an agent whose conversation
  could not be read when it was made remembers what it said itself.
* `SwitchTakesEffect`: after a switch that succeeded the rows, the
  orchestrator, the dispatcher, the window and the configuration in memory name
  the project, whatever failed before. `MessageHasConversation`: no message is
  stored outside a conversation unless a statement or a write has failed, the
  notices of broadcasts and escalations apart.
  `ChannelRecalled`: of the last messages of the channel that the next command
  will be stored in, the Lead remembers every command whose turn has begun and
  every reply, unless a broadcast has made it forget them or the query that
  should have told it failed. Not demanded: a command that is still being
  classified, and what agents say beside the replies. While a switch stands
  before its seeding the property waits for it.
* `SaveReachesWorkers`: once a save has ended no direct-message agent other
  than the Lead's has an older version. `HouseReachesLead`: when no broadcast is
  under way, the Lead's prompt has the present content of each company file that
  is there, unless the last broadcast found no files of the Lead to compose
  from. A file that a reset has deleted is excepted: the prompt keeps it. The
  property is about the Lead alone, since a broadcast reaches no other agent.
  `CallEnds`: no call is stuck at the two locks.
* `NoUpdateLost`: what Telegram has forgotten has run. `CommandsRun`: commands
  run unless the backend stops. `ShutdownEnds`: a shutdown ends.

## Disagreements found

Each run below has a property that states what a comment or a message in the
repository says, and which the code violates.

| run | the code | what it contradicts |
|---|---|---|
| `inbox_offline` | health is read under one lock and the message held under another, after the flush | "It will be delivered automatically" (`service.go:1393`) |
| `work_vram` | a retry in the same slot, or a slot released after verification, loads a worker beside the Lead | "the Lead must be parked before any Worker is loaded" (`vram.go:19`) |
| `brain_prompt` | the Lead's new direct-message agent gets `leadAgent.SystemPrompt()`, composed at the start or at the last broadcast (`orchestrator.go:889`) | "so the next message picks up the updated prompt" (`service.go:1146`) |

Met while modelling, each visible in the model, without a run of its own:

* The queue's last select takes any ready channel (`cogqueue.go:309`), where
  the comment says "P0 always wins" (`:278`); `BoundedInversion` holds.
* One operation's end empties the cancel slot of another (`service.go:378`),
  where Stop "cancels whatever inference is currently running" (`:382`).
* A turn stopped while it waits in the queue is discarded without a message,
  where a comment says that one was dispatched (`service.go:1452`).
* Task identifiers come from the model and are primary keys; the insert error
  of a later command's `t1` is dropped and its updates change the earlier row
  (`orchestrator.go:543`, `store/task.go:12`).
* The error text of a failed turn counts as output and is accepted
  (`worker.go:163`, `:237`). A verdict is searched for "ADEQUATE", which
  "inadequate" contains (`worker.go:307`).
* `ArchiveProject` reads the row back after its active flag is cleared and
  never activates the next project (`service.go:508-522`). `InitFirstRun` after
  archiving asks for a second project of the name "General", which the table
  refuses (`store/migrations/001_initial.sql:10`) while the archived one has it,
  so the first-run screen fails. What a reset wrote to `config.toml` is
  undone by the next save of the configuration in memory.
* Two direct messages prepared at once share one pending entry: one stores the
  other's text and the other its wrapped prompt (`agent_loop.go:265`). A message
  that makes its agent's object is in the history twice: it is stored before
  the object is seeded.
* A second request for a sudo command that was decided before finds its row
  decided, so nothing is shown and it runs into the timeout (`gui.go:141`).
* A handbook proposal is never a row: its kind is not one the table admits
  (`store/migrations/001_initial.sql:62`), and the error is dropped
  (`orchestrator.go:221`).
* `GetOrCreateWarRoomConversation`, "creating one only if none exists"
  (`store/message.go:155`), is a query and an insertion without a transaction,
  and no constraint forbids a second row: a switch to a project that another
  call is still making can insert a second conversation.
* "Seed the new DM agent with its prior conversation history so it can recall
  previous exchanges" (`orchestrator.go:724-725`) runs with the context of the
  call: a Stop that comes while the call waits for the lock leaves a cached agent
  without a memory, until the next invalidation or start.
* "All active agents have received the new handbook" (`orchestrator.go:988`,
  and `:968` for the values; the comments at `:952` and `:973` promise a reset of
  all active agents): a broadcast recomposes the prompt of the Lead and empties
  its history. The agents of direct messages keep prompt and history, the
  Lead's among them.
* The notices of broadcasts (`orchestrator.go:964-969`, `:984-989`) and of
  escalations (`escalation.go:106`, `:118`) name no conversation; they are stored
  outside of any.
* `ResetAppData` deletes the company identity and the agents' files
  (`service.go:1074-1089`) and tells nobody: the prompt in use keeps them, and a
  broadcast before the next start fails, since the Lead's `soul.md` is not there
  (`composer.go:64`).
* `writeIfAbsent` looks and then writes (`identity.go:68-73`): a save in between
  is overwritten by the default.
* What is posted beside a reply, above a plan, at a hand-over, by the Watchman or
  as a question, is in the conversation but not, as it was posted, in the Lead's
  history, until a start or a switch seeds the history with it.
* The goroutine of a Slack command uses the request's context, which ends when
  the handler returns, so the reply may not be sent (`slack.go:113`).
* A fill of the panel's cache that overlaps a save may store what it read
  before it as a clean entry (`registry.go:64`).

## Proofs

All theorems hold for every value of the constants under the named assumptions
of each module.

**`CogQueueProofs`** (requests, priorities, capacities): `TypeCorrect`,
`NoRequestLost`, `RepliesHonest`, `FnStartedOnce`, `InversionBounded`,
`CountersExact`, and `QueueRefinesService`: `CogQueue` implements `CogService`
under the refinement mapping `Service`, step by step. `IInv` adds to the types
what a request's place implies: a buffered request is in its own tier, only
once (`BufferedOK`, `BufferedOnce`), unanswered and not started; the request in
the dispatcher's hand is unanswered, has started exactly from `run` on, and the
verdict about to be sent is true (`OwnedOK`); a request not yet sent has no
history (`FreshOK`); every answer given is true (`AnswersHonest`); and the scan
has passed no tier that was non-empty when it began (`ScanOK`). None of the
properties is inductive alone: that a dequeued function has not run, for
instance, needs that a buffered one has not and that no request is buffered
twice. `CountersExact` adds `CountsOK`: the requests that wait in a tier are
finitely many, and the counter is their number.

**`WorkPipelineProofs`** (plans, commands, retries, profile, thresholds):
`TypeCorrect`, `SlotBalanced`, `OutcomesToldOnce`, `RowsAgreeWithBoss`,
`ReviewsAlone`. `IInv` adds that the task in hand is a specialist's (`HandOK`),
that nothing of the previous command is left when the Lead plans (`LeadOK`),
that the flags say whether a review runs (`FlagsOK`), that unless the command
was stopped every task of the plan has some row (`RowsOK`), and that the row of
the task in hand is `in_progress` while its worker has it (`OpenOK`): without
the last two, `ToldAgrees` does not survive a status update.

**`WarRoomInboxProofs`** (agents, messages, streams): `TypeCorrect`,
`NoBatchStranded`, `SlotFresh`, `MessagesAccounted`. `InboxInv` says that a
goroutine is up exactly while its flag says so, and one about to drain has
something to drain (`PumpsOK`), that a batch holds what was sent to its stream
(`BatchesOK`), and in which one of four places each message is (`PlacesOK`). For
`InboxRefinesMailbox` an operation that has begun must be known to handle its
own first message, and the one a goroutine waits for to have begun
(`HandlersOK`): otherwise two operations could have one name. It also gives
`OneCommandAtATime`: what the Boss writes in the channel never runs beside
itself. `InboxUsesQueue` closes the circle: the war room's steps are steps of
`CogService`, so `CogQueue`, which implements it, may stand in its place.

**`ApprovalsProofs`** (calls, commands, decisions, attempts): `TypeCorrect`,
`SudoNeedsOwnYes`, `DecisionsNeverBlock`, `RecordedStands`, `FirstDecidable`.
`GateInv`: a verdict is only in the channel of a call that waits, and a yes in
it is the Boss's to that call (`ChannelOK`); the call a command leads to waits
for it and is unheard (`PendingOK`); of two decisions only one has taken the
channel (`SenderOK`). `FirstInv` follows the row of a command asked for once.

**`DMSessionProofs`** (messages, responses, invalidations, length of the stored
history): `SessionTypes`, `OwnMessage`, `AgentRemembers`. `SessionInv`: a call
that waits in the queue and shares its object with no other has its own entry
there (`EntryOK`). `MemoryInv`, for `AgentRemembers`: a call whose object is still
cached works on the cached one, a reply about to be dispatched is already in
its object's history, and one the Boss has is in the stored conversation. An
object made without its history adds one case to `Resolve`, in which nobody has
replied on it yet.

**`WorkspaceProofs`** (projects, commands, calls of the window, length of the
history): `WorkspaceTypes`, `LeadRecalls`, `SwitchesTakeEffect`,
`MessagesHaveConversations`. The lemmas on `Nth` and `RowsAt` say that the rows
at a finite set of positions are just these, in order. `LeadRecalls` needs, of
the queries, no more than that a message added to the table moves the window by
one. `RecallInv` then says that what is in the window is known, unless a switch
is about to seed the history, and that the answer of a command about to reply
has been heard, whether or not it was forgotten since: the answer is in the
history before it is in the table. It holds with any number of calls of the
window at once and needs neither hypothesis below.
`SwitchInv` follows a switch through its writes: how far it is says which of the
copies have the project (`Stage`), and the conversation in its hands is the
project's only one (`Looking`, `OneConversation`). It needs one call of the
window at a time (`OneCall`), as a hypothesis: TLC finds `SwitchTakesEffect`
violated with two. Nothing in the code keeps a second call away, and the theorem
says what a user gets who waits for one to end. `HomeInv` carries
`MessageHasConversation` across restarts: an active project is in the
configuration, in the file or about to be, the context of the orchestrator has a
conversation for it whenever a command is under way or the window shows a
channel, and a critique was started in one. Here the application must not stop
inside a call either (`~CrashMidCall`): TLC finds the property violated if it
does, since the row of the active project is written before the configuration
names it. `OneCall` and `~CrashMidCall` hold of the instance the run checks.

**`BrainProofs`** (agents, files, calls at once): `BrainTyped`,
`SavesReachWorkers`, `HouseReaches`, all three with resets and the failures
they cause at any moment. A call is `Formed`: where it is says what it works
on. `BrainInv`: who composes or writes a summary holds the lock for it and
nobody else does (`LocksOK`), which is also what `BrainTyped` needs of the
locks; a broadcast that composes has read the present content of the files that
are there, or another is still to compose (`HouseOK`); no file on disk is older
than its last save (`DiskOK`), and neither are the prompts made or what has
been read for one being made, except for a save that has yet to drop it
(`PromptOK`).

**`RelayProofs`** (updates, events, failures, starts): `TypeCorrect`,
`UpdatesNotLost`. `RelayInv`: what a poll answered is what Telegram still
holds, in order (`AnswerOK`), and every update below the offset has run or is
in the batch as long as nobody has stopped the loop (`OffsetOK`).

Each invariant was first model-checked, then proved by one lemma per action or
group of conjuncts.

**Model-checked only.** The liveness properties, `EveryRequestAnswered`,
`BatchedHandled`, `HeldHandledOnReturn`, `CommandEnds`, `CallEnds`,
`CommandsRun` and `ShutdownEnds`: fairness and ENABLED are out of the prover's
reach. Every invariant and every action property of a passing run is proved.
Induction over data is out of reach too; the modules declare no recursive
operator, and what has to be computed over a sequence is stated pointwise.
`Signals` has no state: its operators are used by `DMSession`, whose theorems
hold for any responses.

## Not modelled

* File, process and network I/O of the tools, HTML and SSRF handling of web
  search, path sandboxing, HTTP retries of the Ollama client: work on strings
  and the operating system; their outcomes are choices of the environment.
* Embedding search: floating-point arithmetic.
* Hiring: nothing in the application calls it. Escalation: the branch that
  routes a worker's is never taken (`orchestrator.go:578-587`); of the Lead's own
  (`:437-440`) only the notice is modelled, not the Senior Consultant's inference
  nor the record.
* The two monitors of `internal/ollama` (started once, never stopped), outbound
  forwarding to chat services, signatures of webhooks, `skills.go`.
* The Svelte frontend, logging, build files, and settings that reach no
  modelled state.
* In the modelled parts: the content of prompts and messages, memory recall,
  events to the frontend, journals and display names, `instruction.md` (written
  with every prompt, read by nothing), the classification of intents,
  pre-warming in dual mode, and the queue-state callback.

Abstractions a reader should know of.

* `Brain`: a file read while another call has truncated it is `Empty`, and a
  prompt with such a reading is outside `SaveReachesWorkers`; so is the fallback
  prompt, which has none of the files. A file that cannot be written or read is
  one whose directory or itself is gone; a full disk is left out. The property
  looks at the agents in the cache: a turn that already waits on an object that
  was dropped may still answer with its old prompt.
* `Approvals`: the project of a row is left out.
* `Workspace`: a conversation is the position of its row; the greeting is not
  part of the Lead's history. Reading and writing that history is one step each,
  although `SetProject`, a turn and `ResetContext` touch the same slice without a
  common lock; the query of `SeedLead` and the prepending are one step too.
  Messages of the raw tier, which no query of the history returns, are left out.
  The Lead's question is stored as a `note`. One command runs at a time, as
  `WarRoomInbox` has it. A start whose statements fail is left out. The tables
  have no foreign keys in force: the driver does not know the `_foreign_keys`
  that `store.go:32` passes.
* `DMSession`: one agent, since agents share nothing but the queue and
  `dmAgentsMu`; thinking tokens and the streaming of chunks are left out.
* `Signals`: prose has no braces, and no control characters stand in strings.
