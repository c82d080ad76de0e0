# A TLA+ model of KamaClaude's core

This directory specifies, model-checks and proves properties of the daemon in
`src/kama_claude/core` and of its two interactive clients: who may run a tool,
what becomes of a message sent to a session, what a run sends to the LLM and
stores, how often a tool takes effect, what clients see of it, what becomes of
subagents, task files and calls to MCP servers, and what a person at the
terminal can still do. Line numbers refer to the files under `src/kama_claude`.

## 1. The system

`kama-core` is one process with one asyncio loop. Clients (`kama run`, `kama
chat`, the TUI) hold TCP connections to it, send JSON-RPC commands and receive
events. Every command is a task of its own (`socket_server.py:139`) and is not
cancelled when its connection ends. Code between two `await`s is atomic; all
concurrency is the interleaving of tasks at their awaits. This is what makes
the models below small and exact: **one action is the code from one await to
the next**, and nothing else may happen inside it.

| Component | State it keeps | Operations | Talks to |
|---|---|---|---|
| Permission manager (`permissions/`) | `_pending` futures, `_session_always`, `_persistent_always`, `policy.toml` | `check_and_wait`, `respond`, `evaluate`, load and save of the file | called by tool invocation; its request event goes through the bus to clients, whose `permission.respond` comes back as a command |
| Session manager (`session/manager.py`) | sessions, their status and run ids, one lock each | `create`, `send_message`, `close`, `compact`, `get_history` | store, runner, event bus |
| Session store (`session/store.py`) | `meta.json`, `thread.jsonl`, backups | write meta, append rows, read and trim, replace by a summary | session manager, runner |
| Agent run (`runner.py`, `loop.py`, `context.py`) | the conversation, step, outcome | one run: history, LLM call, tools, termination, compaction, append to the thread | provider, tools, compactor, store |
| Compactor (`compact/`) | none | summarise a context or a thread | provider |
| Tool invocation (`tools/invocation.py`) | the attempt | look up, ask, invoke under a time limit, retry, publish | permission manager, tools, bus |
| Event bus, event files, IPC events (`events/`, `transport/ipc_broadcaster.py`) | subscribers, subscriptions, `events.jsonl` | publish, subscribe, replay | everything that publishes |
| Socket server and client (`transport/`) | connections | read a line, run the handler, answer | clients, daemon |
| Daemon (`app.py`) | tasks of `agent.run` | handlers, replay, start-up and shutdown | all of the above |
| Subagents (`subagent/`) | nested bus, registry of background tasks | `spawn_agent`, `agent_result` | loop, bus, permission manager |
| Task manager (`task/`) | task files of a run | create, update, list | the task tools |
| MCP client (`mcp/`) | a stream, a lock, the request id | start, list, call, stop | MCP servers |
| Trace writer (`trace/`) | a queue and its drain task | emit, start, stop | bus, IPC, LLM wrapper |
| LLM provider (`llm/`) | none | `chat` with stream retries | Anthropic API |
| Clients (`cli/`, `tui/`) | the approval dialogue, the busy flag | type, answer, wait | socket client |
| Configuration, skills, profiles, memory, logging | none that changes | read files | start-up, each message |

What is hard here, and what correctness means for each part:

* **Permission manager.** An answer can race the deadline, arrive before the
  coroutine waits or after it is gone, come twice or from another client; a
  save can fail; the daemon can die. Correct means: a call is allowed only by
  the policy table, by an answer to itself that came in time, or by a rule that
  somebody made for its tool; commands that leave the working directory are
  always put to a person; rules are made by people only; a call that was asked
  about comes to an end.
* **Session manager and store.** Commands overlap, runs raise, the daemon dies
  between a write and the next or inside one. Correct means: one command at a
  time per session, answers next to their messages, no message lost, memory,
  disk and the last event in agreement whenever the session is free and no
  command failed to write or was cut short, closed is final.
* **Agent run.** Runs are cancelled between a tool_use and its result, rows are
  lost, replies are cut off, contexts are replaced. Correct means: every
  request is one the Messages API accepts, a run works on its own message, its
  outcome is that of its last reply, what it produced is kept but for the runs
  that lost it (and which those are is said), and it ends.
* **Tool invocation.** Tools have effects and then fail. Correct means: one
  decision bounds the effects, nothing runs after a refusal, and the log says
  what the run was told.
* **Event delivery.** Runs share one bus, clients join in the middle and drain
  slowly. Correct means: the file of a run holds its events, whole and in
  order; a client sees each event once and in order, misses only what the gap
  between replay and subscription swallows, and learns the end of a run.
* **Subagents.** Children are cancelled by limits, retried, left in the
  background. Correct means: no foreground child outlives the call that waits
  for it, `agent_result` says how a child ended only when it has, and each call
  ends.
* **MCP client.** Answers come late, for calls that are gone. Correct means: a
  call never gets the answer to another call, and always ends.
* **Task manager.** Any file of a cascade may fail to be written. Correct means:
  a completion releases all who wait, and nothing else gets lost.
* **Clients.** One event stream carries events of all sessions and the replies.
  Correct means: a request somebody waits for can be decided, and a message
  gives the prompt back.

`PROJECT.json` lists the hazards one by one, each at its line with the
properties that would catch it.

## 2. The modules

| Module | What it is |
|---|---|
| `PermissionGate` | abstract: a call is submitted, perhaps answered, decided once |
| `PermissionManager` | `check_and_wait`, `respond`, the tiers, the file, clients, restarts; implements `PermissionGate` |
| `MCPermission` | the tables and requests of the TLC runs |
| `PermissionProofs` | theorems about `PermissionManager` |
| `SessionTurns` | abstract: messages are taken and worked on one at a time |
| `Session` | the commands on one session, with `meta.json` and `thread.jsonl`; implements `SessionTurns` |
| `MCSession` | the order in which the commands of the run `session` take their names |
| `SessionProofs` | theorems about `Session` |
| `AgentRun` | runs of one session on its thread |
| `AgentRunProofs` | theorems about `AgentRun` |
| `ToolInvocation` | `invoke_tool` |
| `ToolInvocationProofs` | theorems about `ToolInvocation` |
| `EventDelivery` | bus, run files, broadcaster, replay and subscription, with the event side of runs |
| `EventProofs` | theorems about `EventDelivery` |
| `Subagents` | `spawn_agent`, `agent_result` and the calls that hold children |
| `SubagentsProofs` | theorems about `Subagents` |
| `McpClient` | one MCP connection and the calls that share it |
| `TaskManager` | the task files of a run (its definitions are named `Task...` so that it can be extended together with `McpClient`) |
| `ServiceProofs` | theorems about what stands behind tools: `McpClient` and `TaskManager` |
| `Tui` | the terminal interface, its socket client and the daemon as it sees it |
| `TuiProofs` | theorems about `Tui` |
| `Chat` | the loop of `kama chat` and the daemon as it sees it |

They meet at named interfaces. `ToolInvocation` takes from the permission
manager what `PermissionGate` promises (one decision, or none). `Session`
takes a run as something that returns or raises after it appended its rows;
`AgentRun` is that something, and takes from `Session` that one command at a
time touches the thread (`OneAtATime`). `EventDelivery` takes from `AgentRun`
that a run comes to its end. `Subagents` makes its calls the way
`ToolInvocation` does: bounded attempts under one time limit. `McpClient` is
what such a call does inside its time limit. `Tui` and `Chat` take from
`PermissionManager` that a request is answered once or times out, and from
`Session` that a busy session refuses.

### PermissionManager

`req`, `pc` and `result` describe each call, `future` and `pending` are the
Future and the key of `_pending`, `expired` says that the deadline of
`wait_for` has passed. `Check` is `check_and_wait` up to its first await: the
tiers answer, or the request is registered. `EmitDone` ends the publication of
`permission.requested`; if the Future was answered meanwhile, the coroutine
goes straight on. `TimerFires` is the deadline: it cancels an open Future, and
wakes the task cancelled even if the Future has just been answered. `Wake`
resumes the coroutine. `Abort` is any other exception in between; it leaves the
entry in `_pending`, as the code does. `Respond` pops and resolves.
`SavePolicyFile` may fail and leave the old file or one that lost entries.
`Restart` loads the file and nothing else.

A command is the set of pattern lists it hits; `Policy` and `DefaultPolicy` are
the manager's table and the module's. `consent` and `diskFailed` are history.

### Session

Each command has a program counter that stands at one of its awaits: publishing
an event ("resuming", "received", "ending", "closing"), running ("running"), or
summarising ("compacting"). `Refuse`, `Send`, `Close` and `Compact` look at the
lock and take it in one step, because `async with` on a free lock does not
suspend. `RunReturns` changes the status and publishes it, `EndSend` writes
`meta.json` and releases: the order of the code. `StartRun` contains the
failure of the message "/".

What goes wrong comes with `MayFail`. `RunRaises` is a run that is cancelled or
raises, before or after it appended its rows; `Cancel` is a cancellation at any
other await, that of the last event included: the status has changed and the
event is out, `write_meta` is skipped and the lock comes free. `WriteMetaFails`
stands in `StartRun`, `EndSend` and `Close`, wherever `write_meta` does, and
leaves the old file or an unreadable one (`NoMeta`), since `write_text`
truncates first. `unsaved` remembers the commands that left `meta.json` behind
memory until the next write. A kill strikes between steps (`DieBetween`), in a
write of `meta.json` (`DieWriting`), or between the rename and the rewrite in
`write_compacted` (`DieInRename`); the rewrite may also fail and leave the
thread in the backup only.

The rows a run appends are one row here, "cut" if a tool call in it has no
result: `read_messages` gives nothing from such a row on (`Readable`), so a
summary is made of what stands before it (`Summarised`). How rows are written
one by one is `AgentRun`'s subject.

### AgentRun

A message is a kind, the set of tool_use ids it requests or answers, and its
run. `Submit` appends the message and reads the thread back; `ReadMessages` is
the trimming of orphaned tool_use blocks. `BeginStep`, `ChatReplies`,
`StreamDrops`, `ChatFails`, `Act`, `Check` and `Compact` are one turn of the
loop; a dropped stream is read again up to `MaxStreams` times, and the reply is
that of the stream that came to its end. `Cancel` may strike where the loop
awaits: the run goes on to its end. `CancelPublish` strikes while
`run.started` or `run.finished` is published, outside the `try`: nothing is
appended. Both concern runs of `agent.run` only, the tasks the daemon cancels.
`Persist` appends `context.messages[prefill_len:]`, `PersistFails` some of it;
`lost` remembers the runs of which something is missing.

### ToolInvocation

`events` is the log of each call in order, `effects` counts how often the tool
ran to an end of its own. `Decide` follows the permission manager's decision,
`ToolFails` retries or gives up, `ToolTimesOut` never retries, `Cancel` leaves
without an event.

### EventDelivery

An event is its number in its run: 1 is `run.started`, `Finished` is
`run.finished`, and one more is the session's `waiting_for_input`. `Take` hands
it to the bus; `Push` is one subscriber's write and drain, `Deliver` the return
of the last drain, the cleaning of dead connections (`Keep` is the list that is
left) and the rows in every open file, all of which need no further await.
`Deliver` of `run.finished` also closes the file and appends the messages.
`Subscribe` writes the replay and awaits a drain only if there was something to
write; `Subscribed` follows. `racing` records what was on the bus in that gap.
`CancelRun` takes the event under way with it and lets `run.finished` come
after it, as `run_and_capture` does, unless the event was `run.started` or
`run.finished` itself: the broadcaster comes before the run's writer in the
list of subscribers, so the file is closed without that event (`Silenced`).
After `run.finished` a cancellation of the session's last event is one more
case.

### Subagents

`at` is where an agent's loop or the call that runs it stands. `Call` reaches
`check_and_wait` and stands there ("asking") until `Grant` or `Deny`; `Spawn`
and `Launch` are an attempt up to the child's first turn, each ending at an
await; `NoTasks` is an attempt that raises before there is a child, because the
directory of its tasks cannot be made (an unknown profile raises nothing). The
error of the nesting limit is left out: it changes nothing but the count of
attempts. `CallFails` is what `invoke_tool` does with a failed attempt.
`TimeOut` cancels the chain of foreground descendants, `Reached`, a descendant
that waits for permission included. `Tell` publishes `subagent.finished` and
returns the result. `Ask` is `agent_result`. `Limited` says whether
`permissions.timeout_s` is positive.

### McpClient

`stream` holds the lines the server has sent and nobody has read. `Start`
numbers the request and takes or queues for the lock; `Drained` and `ReadLine`
are the awaits inside it. A call leaves by its answer, an error line, a
disconnection, the time limit of the handshake (`ReadTimesOut`) or
`invoke_tool`'s limit (`GiveUp`), which may strike anywhere. The server answers
what it was asked, late or never, sends requests of its own with ids of its own
(`ServerRequests`; `ServerIds` bounds them), says other things, and may go. A
line is the call's answer if its id is the call's (`IsOwnAnswer`), as in the
code, also if it is such a request.

### TaskManager

The manager awaits nothing, so one call is one step; its failing variants leave
some files rewritten and one truncated, which is what `write_text` leaves.
`late` remembers which dependencies were added when what they wait for was
already completed: those the code does not clear.

### Tui and Chat

Both have `inbox`, the one ordered stream of events and replies. In `Tui`,
`awaited` is `SocketClient._pending`. Messages and compactions await their
reply in a worker, decisions and the closing in the message pump, which stops
all keys (`PumpWaits`); `Lose` follows what each await does with a future that
is cancelled. The daemon's side is one lock (`holder`), the open requests and
the events it sends. `AnsweredElsewhere` is another client that decides a
request, in any order: a denial comes as `permission.denied`, an allowance as
`permission.granted`, which the interface does not handle, so that the widget
stays. `overtaken` remembers the denials told of while an older request was
open: only these can take the widget of an open request. In `Chat` one
coroutine reads a line and awaits what it sent.

## 3. The runs

| Run | Instance | Shows |
|---|---|---|
| `permission` | 2 calls, 1 client that comes and goes, 2 sessions, 2 tools, a request for each tier, saves that may fail, restarts | consent, forced asking, timely answers, rules, the two copies of the tiers, the end of every asked call, refinement of `PermissionGate` |
| `permission_disconnect` | the same with `timeout_s = 0` | *violation*: requests of clients that are gone hang |
| `session` | 4 commands of any kind, a chat or a one_shot session; cancellations, failing writes, kills | mutual exclusion, order and safety of messages, agreement of memory, disk and events, one answer of a one_shot, refinement of `SessionTurns`, the lock comes free |
| `agent_run` | 2 messages, 3 steps, 2 calls a reply, 2 streams; the first run cancellable, the second compacting, appends may fail | well-formed requests after damage, own message, outcome, compaction only between exchanges, kept messages, termination |
| `agent_replay` | 2 runs of 3 steps with auto-compaction | *violation*: the thread holds results without their calls |
| `invocation` | 2 calls, 2 retries | effects, log and result, termination |
| `events` | 2 runs of 4 events, 1 client with any scope and replay | complete files, order, what a replay may miss, the end is told |
| `subagents` | 1 run, 3 subagents, 2 steps, 1 retry, limited permission waits | foreground children are held, ends are told, calls end |
| `mcp` | handshake and 3 tool calls, 2 unread lines, a request of the server with the id of one of them | no answer but a call's own, no answer stolen, calls end |
| `tasks` | 3 tasks, lists of at most one id | nobody forgotten, nothing lost |
| `clients` | 3 requests that another client may answer too, a message, a compaction, a loss, an event of another session | open requests are shown, the prompt comes back |
| `chat` | 2 requests, 2 messages | *violation*: a request of the chat's own run times out undecided |

Why the bounds are enough. Two calls interleave every pair of steps of
`check_and_wait`; they share a tool across sessions, so that one call's rule is
met by the other, and every tier decides some request. Four commands let a
message, another message, a compaction and a close meet in every order, before
and after each other. Nothing tells commands apart but what they do, so they
take their names in the order in which they come (`InOrder`, an action
constraint). This cuts off no other behaviour and no step of `Proceed`, so that
liveness is checked as well, which symmetry would not allow. Two messages make
a second run that reads what the first one left, with up to two calls in a
reply and three steps: an orphan in the middle or at the end, with or without
other results in the same message, and a compaction with a step after it. Two
overlapping runs put their events in each other's files and between a client's
replay and its subscription; a second client would only lengthen the pushes,
whose order `todo` already leaves open to the other run. Three subagents make a
chain of two below the run (the depth the code allows) and a sibling. Three
calls after the handshake leave an answer of a lost call, one of a waiting call
and noise in the stream. Three tasks make a chain, a cycle and a
self-dependency. Three requests are needed for a first, a middle and a last
widget, and for two denials out of turn. `MaxBacklog` limits only what the
daemon adds of itself; replies are never held back. A bound on steps is in the
code (`max_steps`), as is the one on attempts. Where a constant is larger in
the code (20 steps, 60 s), only its being reached matters.

Each property of a passing run has a mutant in `PROJECT.json`: a definition
replaced by a plausible bug (named `Mutant:` in the module) under which the
property fails in the same run.

**Fairness.** The loop runs what is ready: steps of coroutines are weakly fair,
and so are the timers of `wait_for` and of the back-off. Nothing is assumed of
people: nobody need answer, send, close or reconnect. A run ends
(`AgentRun!RunEnds`), tools and LLM calls have time limits, and publication
ends because a client that does not read is taken to disconnect sooner or later
(nothing in the code makes it: `ipc_broadcaster.py:68` awaits `drain` without a
limit); hence `Proceed` in `Session` and `Push` in `EventDelivery` are fair.
`SpawnEnds` rests on the limit of 120 s (`TimeOut`) and, before the first
attempt, on that of the permission wait (`Grant \/ Deny` is fair if `Limited`
only), not on the model or a person ever answering; `McpClient!CallEnds` on the
hand-over of the lock and `invoke_tool`'s limit, not on the server.
`PromptComesBack` needs the interface to hear its stream and the daemon to
serve commands and end runs. Disconnects, restarts, cancellations and failing
writes are never fair. `SessionComesFree` depends on runs ending and holds for
runs whose permission requests have a deadline; `permission_disconnect` shows
what happens without.

## 4. Findings

* `permission_disconnect`: `permissions/manager.py:192` says that requests are
  refused on disconnect so that no Future hangs. `cancel_session` has no
  caller. `tests/unit/test_permission_manager.py:207-208` tests the method
  alone.
* `agent_replay`: `session/store.py:80` says that what `read_messages` returns
  can be passed to the API. `runner.py:253` slices the context at a position
  taken before the compactor replaced it, so the thread can keep a tool_result
  without its tool_use, which trimming does not look for. In the same way the
  first messages a compacted run produced are not stored, and that is why
  `ProducedIsKept` is checked without auto-compaction.
* `chat`: `cli/commands/chat.py:62` and `:96` say that a pending permission
  request is handled before anything else and that input is then the decision.
  The loop awaits the reply to `session.send_message`, which comes after the
  run. A run of the chat's own that asks therefore waits for its time limit; the
  line that was meant as the decision is taken as the next message.

Met while modelling, as coded and promised nowhere, so not runs of their own
(each is a hazard in `PROJECT.json`): a client that replays and subscribes can
miss `run.finished`; `kama run` ends with the first run that ends, and its exit
code; `agent_result` reports a failed child's text as a success; the registry
of background tasks belongs to the runner of one message; the TUI's `_busy`
outlives the connection; a request that another client allows keeps its widget,
and a denial out of turn takes that of another (`OpenRequestsShown` says how
many); a run cancelled while `run.finished` is published loses all it produced
(`ProducedIsKept` names it), and its event file that event. `mcp/client.py:147`
says that `_call` waits for the response, but `client.py:162-174` compares ids
only: a request of the server's own (a ping) with the id of the pending call is
returned as an empty result, and the response is skipped when it comes
(`OwnAnswer` says that this is the only way to return without it).

## 5. What is proved

The proofs hold for every value of the constants under the modules' `ASSUME`s
(any finite or infinite set of calls, clients, sessions, runs, tools and
commands; any number of events, subagents, tasks and requests; any policy table;
any limit on steps and retries), and use nothing else. Each inductive invariant
was checked by TLC on the run of its module before it was proved. **Every
safety and action property and every refinement that a passing run checks is
stated by a theorem.**

* **PermissionProofs.** The inductive invariant `IInv` joins the safety
  invariants with `CallInv`, which says what each stage of a call knows: a call
  not yet made has no Future, an answered Future is never open again, a call
  that is done has left `_pending`, a call before its `wait_for` has no
  deadline. None of the properties is inductive alone: `NothingBeyondConsent`
  says nothing of the caches the next call will read, which is what
  `RulesAreSound` supplies, and `DecisionSource` nothing of answers still on their way. From
  `IInv` follow `PermissionTypeCorrect`, `ConsentHolds`,
  `DecisionSourceHolds`, `AnswerableHolds`, `RulesHold`, the action property
  `RulesChangeInTime`, and `GateRefined`: each step maps to one of `Submit`,
  `Say`, `Follow`, `Refuse` or a stutter. `StaticTiersAgree` needs no
  induction.
* **SessionProofs.** Everything about the thread rests on `OneAtATime`.
  `StageInv` adds what the holder of the lock knows: while a message is
  "received" or "running", its row is the last one, and while it runs,
  `meta.json` names it; while a compaction waits, its snapshot is what can be
  read of the thread. `LifeInv` says what holds whatever failed: `meta.json`
  names no run that memory does not, and nobody was told closed of an open
  session. `SavedInv` says what holds as long as no write is missing
  (`unsaved`): the runs on disk are those in memory, and the status is too, but
  for the gap between `RunReturns` and `EndSend`. `ThreadInv` gives
  `NothingForgotten` its second half: where no command failed no row is cut off,
  so the summary of a thread records all of it (`SummarisedRecorded`). The
  theorems hold whether `MayFail` or not. The one thing taken for granted is
  that two compactions do not end in the same second, whose backups would have
  the same name (`KeepThread`).
* **ToolInvocationProofs.** `CallOK` bounds attempts and effects by the stage a
  call stands at (an attempt under way has not taken effect yet, a pause is
  followed by one more attempt) and says that a call that has not asked has no
  question in its log. The bound of `ConsentBoundsEffects` is not inductive
  without the stages. `ResultIsLogged` needs to know the log at each stage
  (`TellInv`): before the first attempt it tells no outcome (`Calm`); while
  attempt n is under way its failures are the rows of the attempts before n, in
  order (`Graded`), and in a pause also that of n; when the call has returned,
  one more row says what the result is, and no row does so before it (`Told`).
* **AgentRunProofs.** The theorems follow from one invariant over three lists
  of rows. `RowsInv` holds of the context and of what the run produced: results
  follow the reply they belong to, no two replies request the same tool_use,
  ids of this run are of steps already begun (so the next reply is fresh), and
  between steps every reply is balanced, while tools are invoked all but the
  last (`Acting`). `ThreadInv` says what is left of this on disk once runs were
  cut off: the pairs, not the balance. `ReadIsPrefix` shows that
  `read_messages` keeps a prefix with no open id, and `ClosedIsBalanced` that
  such a prefix of paired rows is balanced, hence `RequestsAccepted`. For
  `WhatIsProducedIsKept`, `TailInv` says that what was produced is the end of
  the context, from `prefill_len` on; a run that is cancelled while one of its
  own events is published, or cannot append a row, is in `lost`, and of no other
  is anything missing. Earlier runs that filled their context
  are excluded by the properties themselves (`Clean`): what they append is the
  subject of the finding on `ThreadReplayable`.
* **EventProofs.** Each property is inductive only with what is on its way.
  `SubsInv` and `BusInv`: a connection is in the list of subscribers at most
  once and in it as long as it is subscribed, and the subscribers an event has
  still to be pushed to have nothing of its run that is as new, so a push keeps
  the order (`EventsAreSeenInOrder`); what a replay writes is what is out
  already (`FileInv`, `InboxInv`). `StageInv` tells from the last event of a run
  whether its file is open, its messages are in the thread and `run.finished` is
  out, for cancelled runs too, and which cancelled runs were `Silenced`; with
  `OwnFile`, that the file of a run has just
  what is out of the run's own, this gives `FilesAreComplete`. `RaceInv` gives
  `NothingElseIsMissed`: a row of the file that a replaying client does not have
  was on the bus in the gap, and the event on the bus now is either on its way
  to the client, seen by it, or one of those.
* **SubagentsProofs.** `ForegroundIsHeld` speaks of children at work and is not
  inductive: a child on its way into its loop ("starting") is no such child
  yet, and a time-out must take it along. `HeldInv` says the same of all
  children a call waits for, started or starting. `FamilyInv` says that callers
  are runs or children of runs; so the descendants a time-out cancels
  (`Reached`, which follows two generations) are all there are, and nobody who is left waited
  for one of them (`Quiet`, `OthersQuiet`). `LogInv` relates each child's events
  to where it stands, how it ended and what `agent_result` told of it (`Fits`),
  which gives `ChildrenAreTold`; `StepInv` supplies that a child that goes on
  has steps left.
* **TuiProofs.** `RequestsStayOnScreen` has to survive that a denial takes the
  first widget, whoever's it is (`tui/app.py:1036`). `AskedInv` and
  `SelectsInv`: requests are told of in the order they were asked, so widgets
  stand in that order. `DeniedInv`: a denial still on its way that no other
  client gave out of turn is that of a request older than all that are open, so
  the first widget belongs to the denied request or to an older one, which is
  over. Of a denial in `overtaken` it says only that each comes once. `Lost` are
  the pending requests without a widget that are open or whose own denial is
  still to be heard, `Told` the denials out of turn that are not on their way
  any more. `PendingInv` is the count: each of `Told` has made at most one
  `Lost`. It speaks of pending requests rather than of open ones because a
  request that ends stays pending until its denial is heard, and that denial
  then takes somebody's widget. `TakesOne`, `EndedKeeps` and `CountKeeps` are
  the counting lemmas, one for each way the two sides change.
* **ServiceProofs, `McpClient`.** `AnswersMatch` and `AnswersKept` rest on the numbering: ids
  are given out once, each answer in the stream carries the id of the call it
  answers and each request of the server's an id in `served`, and a call inside
  the lock holds it alone.
* **ServiceProofs, `TaskManager`.** `ForgottenByNone` is inductive with the typing of the
  files and of `late`; `LostByNone` follows step by step from what each call,
  failing or not, rewrites.

Only model-checked: all liveness (`AskedCallEnds`, `SessionComesFree`,
`RunEnds`, both `CallEnds`, `EndIsTold`, `SpawnEnds`, `PromptComesBack`, and
`NoHangWhenClientsGone`, which fails), which like `ENABLED` is beyond the
prover, and the state invariants that the runs show violated (`ThreadReplayable`,
`OwnRequestsDecidable`). No module uses a RECURSIVE operator. TLC also looks for
deadlock in `permission`, where a restart is always possible; in the others the
commands, messages or ids are used up and the system rightly stops.

## 6. What the models leave out or take for granted

* tool_use ids are unique. Clients send one of the four decisions; the command
  admits any string (`bus/commands.py:85`), and `_apply_response` treats another
  one as it treats `deny_once`.
* The order in which ready coroutines of one pass of the loop run is left open,
  which allows more behaviours than asyncio's queue.
* A failed save of `policy.toml` leaves any subset of its entries, also more
  than truncation would give.
* Event handlers do not raise: the writer logs its errors, and the broadcaster
  drops dead connections. An emitter that does raise is `Abort`.
* The LLM requests tools only with stop reasons `tool_use` and `max_tokens`.
* `Session` keeps every backup: two compactions that end in the same second,
  the second of which would overwrite the first one's, are left out. It knows
  no torn rows: a row that is not JSON is skipped when read. A session whose
  first `meta.json` cannot be written is left out; no client learns its id.
* A `wait_for` that expires cancels the tool at once; a tool's own effects
  before that are not counted as an end of its own.
  A tool that gives up by itself (the bash tool's own limit) answers the error
  type `timeout` like any other of its answers: one of `ToolErrors`.
* Titles, time stamps, previews, token counts, prompts and log lines are not
  represented, except where a branch depends on them: the compaction threshold
  is a nondeterministic choice.

* `EventDelivery` publishes one event of a run at a time and counts a run's
  events instead of telling them apart; the trace's copy of each is left out.
* `Subagents` leaves out the cancellation by the stop of the daemon, and profiles:
  they choose prompts and tools.
* `TaskManager`: a write that fails has truncated its file. One that could not
  open it is left out: a completion that fails so has released others before it
  was recorded, and no unreadable file shows it, so `NothingLost`, which excepts
  failing writes by what they truncate, would not hold of it as it stands.
* `McpClient`: the answer to a request the server sends is never sent (the code
  sends none), and the server is not modelled as waiting for it.
* In `Tui` a command reaches the daemon at once, and requests, which share one
  limit, time out in the order they were asked. Other clients may decide in any
  order.

## 7. Not modelled

* Built-in tools: each is one operation on files or a process with its
  formatting; `ToolInvocation` enumerates its outcomes.
* Configuration, skills, profiles, memory and logging read and merge files and
  keep no state that changes; the settings that matter are constants.
* The trace writer: an unbounded queue, one task that writes, nothing that reads.
  Its one hazard, the stop that waits for a dead task, is listed.
* `kama run` and the other commands of the CLI: one subscription, one command
  and a wait, or the start of a process.
* Rendering in both clients, and events that only print; token and usage events.
* Parsing and framing of lines, and the replies to malformed ones.
* The order of start-up and of shutdown, and the start of MCP server processes:
  straight-line code that runs once, before or after everything else. What a
  shutdown does to runs is in `Session`, `AgentRun` and `EventDelivery`.

## 8. What is left to do

1. Proofs: what the loops of `AgentRun` and `Subagents` count down, which is
   the safety half of their termination.
2. The composition of `ToolInvocation` with `PermissionManager` in place of the
   gate's promise.
3. A trace writer whose file fails.
