# A verification development for agentwire-core

TLA+ models of AgentWire CORE, the TLC configurations that check them on small
instances, and theorems about them checked by TLAPS.  Line numbers refer to
the files under `src/`.

## 1. The system

AgentWire CORE moves messages between agents over the A2A protocol (JSON-RPC
on HTTP) and keeps what passed.  The repository holds two generations of it
and some parts around them.

| Component | Source | State | Operations |
|---|---|---|---|
| Gateway executor (v2) | `server_v2/gateway_executor.py` | one coroutine per message; metrics | `execute`, `cancel` |
| Agent router (v2) | `server_v2/agent_router.py` | rules, read once | `route` |
| Task store (v2) | `server_v2/task_store.py` | `tasks.db`, one row per task | `save`, `get`, `list`, `delete` |
| Request handler, event queues | a2a-sdk, set up in `server_v2/start.py:328-333` | queues in memory | applies events to the store, starts and cancels executions |
| Start-up, middleware, normalisation | `server_v2/start.py` | none between requests | |
| Agent card, configuration | `server_v2/agent_card.py`, `config.yaml` | none | |
| History manager (v1) | `server/history.py` | index in memory, `index.json`, one JSONL file per peer | `record_outbound`, `record_inbound`, `import_messages`, reads |
| Message server (v1) | `server/start.py` | `tasks` map in memory | `message/send` (also as REST), `tasks/*`, `messages/*` |
| CUE forward, workflow hook | `server/start.py:385-416`, `:595-` | background tasks, a child process | one post, or one process, per message |
| Redaction | `server/redact.py` | a catalogue of patterns | |
| Reverse proxy | `server/proxy.py` | none | forwards with a timeout of 30 s |
| OpenClaw plugin | `plugin/src/*.ts` | none between requests | `SendMessage` runs one command |
| Legacy sidecar | `designs/v2.3/legacy-sidecar/server.py` | task map shared by threads, append-only JSONL | `SendMessage`, `GetTask`, `ListTasks`, `CancelTask` |

How they interact.  In v2 a client's message reaches the SDK's request
handler, which runs `execute`; `execute` publishes events into a queue, asks
the router for a peer, and posts the message to it (for OpenClaw: to the
plugin).  The SDK consumes the queue and saves the task in the store, where
`GetTask` reads it; `CancelTask` makes it run `cancel`, in a request of its
own, which publishes into the same stream of events.  In v1 the message
handlers call the history manager synchronously on one event loop; what
interrupts them is an exception or the end of the process.  A JSON-RPC send
starts a background post of its message to the CUE listener.  The sidecar, the
predecessor of the plugin, runs a thread per request and one per dispatch.

What is hard: the order of verdict, cancellation and restart of a task; a
dispatch that ends in any of eight ways; a crash or a failed write between the
steps of a history operation, whose state lies in three places (memory, index
file, JSONL file); a trimming that rewrites the file by line numbers; and
background work that nobody waits for.  `PROJECT.json` lists each hazard at
its line ("hazards"), with the properties that would catch it or why there is
none.

What makes the parts correct:

* history: what was answered is on file; a round told to a caller belongs to
  one message for ever; the saved index never goes back; the cap forgets the
  oldest first and keeps files short;
* gateway: a task goes from working to one final state and keeps it; each
  execution gives one verdict; the task settles; the metrics account for the
  stored verdicts;
* router: the documented precedence;
* relay: no answer is lost to a timeout, and what a client was told stays true;
* message server: what CUE is sent, a task stands for, an export returns or a
  poll reports is what the history holds;
* sidecar: the file catches up with the tasks in memory, a failed append costs
  little, and a cancellation is undone only where nothing could prevent it.

## 2. Modules

| Module | What it is |
|---|---|
| `Rounds` | abstract: every peer is granted ranges of rounds, each after all granted before |
| `History` | `server/history.py` and the handlers that write with it; implements `Rounds` |
| `MCHistory` | instance for TLC: the symmetry of peers |
| `HistoryProofs` | theorems about `History`: types, the bookkeeping of rounds, the refinement |
| `HistoryFileProofs` | theorems about the files of `History` without a cap |
| `HistoryCapProofs` | theorems about the files of `History` with and without a cap |
| `TaskLifecycle` | abstract: unknown, working, one final state |
| `Gateway` | `gateway_executor.py` with the SDK and the store; implements `TaskLifecycle` |
| `GatewayProofs` | theorems about `Gateway` |
| `AgentRouter` | `server_v2/agent_router.py` |
| `MCRouter` | instances for TLC: a menu of rules, and the shipped file |
| `RouterProofs` | theorems about `AgentRouter` |
| `Relay` | `server/proxy.py` and `plugin/src` around `Gateway`: a message end to end, with timers |
| `RelayProofs` | theorems about `Relay`, on top of `GatewayProofs` |
| `MessageServer` | `server/start.py` around `History`: tasks, forwards to CUE, readers of the history |
| `ServerProofs` | theorems about `MessageServer`, on top of `HistoryFileProofs` |
| `Sidecar` | `designs/v2.3/legacy-sidecar/server.py` |
| `SidecarProofs` | theorems about `Sidecar` |

### History

Variables: `mem` is `self._index` reduced to `last_round`, `first_round` and
`total_rounds`; `idx` is `index.json`; `file` the JSONL files; `op` the
operation in progress with its stage; `acks` what callers were told, kept to
state properties.

The handlers hold the lock and never await while they write
(`start.py:439-479`), so one operation runs at a time.  Its steps are separate
actions because a crash or an exception can come between them:

| Action | Code |
|---|---|
| `RecordOutbound`, `ImportMessages` | the bookkeeping in memory, `history.py:154-159`, `:214-218` |
| `AppendLine` | `_append_line`, `:112-115`, for a message or for its reply |
| `EnforceCap` | `_enforce_cap`, `:124-141`; an import then goes on with its next message |
| `SaveIndex` | `_save_index`, `:49-52`; the operation returns |
| `ReadContext` | `get_context_for_peer`, then `record_inbound`, `start.py:458-475` |
| `ImportNothing` | an import of an empty batch |
| `Fault` | an exception, answered by "Internal error" (`start.py:301-303`); an append in progress may leave half a line |
| `Crash` | the process dies, memory is read back from `index.json` |

A line is its round, its role and whether its text holds a character that
`str.splitlines` breaks at.  Message text, redaction, time stamps and peer
names are left out.  `index.json` and the trimmed file are replaced by a
rename, so they change as a whole.  That is so while the machine stays up:
what a power loss leaves of files that were never synced, an `index.json` that
does not parse among it (`history.py:45-46`), is left out.

### Gateway

Variables: `task` the task a message is given or names; `pc` where the
execution of the message is, and `outcome` how its dispatch ended; `published`
all events published for a task and `applied` how many the SDK has taken (the
rest is the queue); `store` the row in `tasks.db`; `dispatched` the counter
`a2a_dispatch_total`.

| Action | Code |
|---|---|
| `Start` | `execute` up to the first `enqueue_event`, `gateway_executor.py:113-142` |
| `RouteToPeer`, `RouteToNobody` | `route` and `_dispatch_to_agent`, `:144-157`, `:213-232` |
| `RouteRaises` | `route` raises (`agent_router.py:183`) outside the `try` |
| `Reply` | the post ends (`:268-303`) and `execute` counts it (`:158-163`) |
| `Publish` | `execute` publishes its verdict, `:160-202` |
| `Cancel` | `cancel`, `:305-318` |
| `Apply`, `StopExecution` | the SDK (external) and `SqliteTaskStore.save` |
| `Crash` | restart on the stored tasks |

`execute` takes the id of its task from the request (`:124`), so messages may
share one: each runs an execution of its own, which announces the task again,
is counted, and gives a verdict.  Counting and publishing are two actions,
since `enqueue_event` is awaited between them: a cancellation, a stop or a
restart can come there.

The SDK is not in the repository.  What is assumed of it is what the code
relies on.  It applies the events of a task in the order published and stops at
a final state (`skill/PROTOCOL_QUICK_REF.md:113`).  It takes a message for a
new task or for one on record (`Admitted`); that it turns away a message to a
final task or lets it in is left open, and so is whether it runs two executions
of a task at a time, so the model has both.  It calls `cancel` for tasks that
are stored and not final; after `cancel` it may or may not stop the execution,
wherever that awaits.  Nothing is assumed of what it does with an execution
that raised.  `enqueue_event` is taken not to fail.

### AgentRouter

Variables: `config` the rules of the file in its order; `rules` is
`self._rules`; `message` the message being routed and `outcome` where it goes.

| Operator | Code |
|---|---|
| `Init` | `load_rules`, `agent_router.py:77-110`; a missing or unreadable file is the empty one |
| `Sorted` | the stable sort by priority, done by `load_rules` (line 108) and again by `route` (line 131) |
| `MatchesMetadata` | `_rule_matches_metadata`, `:209-241` |
| `MatchesText` | a pattern or a tag, `:148-176`; an invalid pattern is skipped |
| `Explicit` | what is left when no rule matches, `:178-207`, the exception on a workflow pointer that is a string included |
| `Choice` | the whole of `route` |

A text is the set of words of interest in it, and a word may be part of
another one (`PartOf`), since tags match as substrings.  The metrics and the
`skills` of a rule, which nothing reads, are left out.  `Gateway` takes the
three kinds of outcome as `RouteToPeer`, `RouteToNobody` and `RouteRaises`;
`CatchAllAnswersAll` tells when the last can happen.

### Relay

`Relay` extends `Gateway` and adds the hops before and behind it.  A message of
`Gateway` is here one sending of the client's message, with a task of its own:
an error that makes the client send again names no task.  Variables: `client` what the client has of a
sending; `command` the command that runs the agent and `answer` what the
plugin answers; `held`, `posted` and `run` the timers of the proxy, of the
post to the plugin and of the command.  In place of `Gateway!Reply`, which can
end a post in any way, a post ends by what the plugin does.

| Action | Code |
|---|---|
| `Send`, `Forward`, `GiveUp` | `proxy_handler`, `proxy.py:52-73`: forward, pass the answer on, give up after 30 s |
| `Post`, `Collect`, `PostRejected`, `PostExpires` | `_dispatch_via_a2a`, `gateway_executor.py:234-303` |
| `StartCommand`, `Refuse` | the handler of `/a2a/jsonrpc`, `index.ts:68-124` |
| `CommandEnds` | `callAgent` returns or throws, `dispatch.ts:84-135`; the handler answers completed or failed, `index.ts:132-184` |
| `Kill` | `execFile` kills the command after 120 + 15 s, `dispatch.ts:80-98` |
| `PublishVerdict`, `CancelTask`, `Stop`, `Save`, `Restart` | those of `Gateway`; a restart breaks the connections of waiting clients |
| `Tick` | time, for every timer that is going |

`Tick` waits for whatever is due, so a timer is never overrun.  Assumed of
what is outside `src/`: the client sends again only after an error; the SDK
answers `SendMessage` when the task is final; a command ends on SIGTERM; the
process of OpenClaw, in which the plugin runs, stays up; it takes up a post
within `Latency` ticks or never.  A sending by the proxy is executed even if
the proxy has gone since.  `RouteToNobody` and `RouteRaises` are left to the
run `gateway`: nothing is relayed in them.

### MessageServer

`MessageServer` extends `History` and wraps its actions.  Variables: `via` how
the send in progress came in; `forwards` the posts to CUE in the order they
were started, each posting, received or lost; `tasks` is `self.tasks`;
`export` and `poll` two clients that read.

| Action | Code |
|---|---|
| `SendRpc`, `SendRest` | `_handle_message_send`, `_handle_rest_send`: the same calls of the history, but only the first forwards and keeps a task |
| `Import`, `Record` | the actions of `History` that concern nothing else |
| `Save` | `History!SaveIndex`; then the forward is started (`start.py:444`) or the task kept (`:478`) |
| `EndForward` | `_forward_to_cue`, `:385-416` |
| `CancelTask` | `tasks/cancel`, `:279-283` |
| `StartExport`, `ExportPage` | a client of `messages/export`, `:327-357`, and `export_page`, `history.py:338-345` |
| `Poll` | a client of `messages/list` for one peer, `history.py:264-284` |
| `Fail` | `History!Fault`: an exception ends the request |
| `Restart` | `History!Crash`: tasks and forwards are gone, clients stay |

A forward does not carry the round of its message; the model labels it with
it.  `trigger_workflow_if_match`, awaited before the history is written, awaits
nothing itself, so it lets no other handler in.  A post that is on its way when
the process dies is lost; that it was received before is the other order of
the same two steps.  What a client does with the answers is assumed: the
exporting one asks for `offset + limit` while `has_more`, the polling one for
`since_round = last_round + 1`.

### Sidecar

Variables: `mem` is `_tasks`, each task reduced to its state; `file` the lines of
`tasks.jsonl`; `sending`, `dispatch` and `cancel` where the threads are.

| Action | Code |
|---|---|
| `NewTask` | `_new_task` and its entry in `_tasks`, `server.py:257-267` |
| `PersistNew` | the append, the start of the background thread or its failure, and the answer, `:268-281` |
| `Dispatch`, `PersistDispatched` | the background thread, `:181-227`, `:271-277` |
| `CancelTask`, `PersistCancel` | `handle_cancel_task`, `:301-311` |
| `Restart` | the process dies, within an append or not; `_load_tasks`, `:76-92` |

`Persist` serialises the task when it gets the lock, not when the thread
changed it, and swallows its own failure.  Serialising is one step: the C
encoder of `json` does not let another thread run.  Half a line is `torn`, or
`cut` if it ends within a UTF-8 character; the line written next is glued to
it.  A second half line behind a cut one leaves it `broken`: still unfinished,
but undecodable in its middle.  A line that does not decode ends the loading (`:81` is outside the inner
`try`), possibly with lines before it, since the file is decoded in blocks.
That a line loses only its newline is left out: it costs no more than half a
line does.

## 3. Runs

| Run | Shows |
|---|---|
| `history` | unlimited history, two peers: `NoSilentLoss`, `OnlyRestartsRewind`, `ContextHasCurrent`, `IndexAgrees`; it refines `Rounds`; `IndexNeverGoesBack` |
| `history_cap` | a cap of one round, one peer, up to five rounds: `TypeOK`, `AckedRoundsNeverReused`, `CapBound`, `ForgetsOldestFirst` |
| `gateway` | two messages for one task or for two, a cancellation, a restart: `TypeOK`, `OneVerdict`, `MetricsAgree`; it refines `TaskLifecycle`; `EveryTaskSettles`, `CancelSettles` |
| `router` | files of up to three rules out of a menu of nine, every message: `PrecedenceKept`, `FileOrderIrrelevant`, `CatchAllAnswersAll` |
| `relay` | a message sent twice, a cancellation, a restart: `NothingLostToTimeout`, `ClientToldStore`, `WorkIsRecorded`, `CommandsEnd` |
| `server` | one peer, two rounds, an exception, a restart: `ForwardedOnFile`, `ForwardsRise`, `TaskIsOneExchange`, `ExportComplete`, `PollMissesNothing` |
| `sidecar` | two tasks, a cancellation, a failed append, two restarts: `TypeOK`, `CaughtUp`, `LossBounded`, `CancelUndone`, `SubmittedMovesOn` |
| `history_fifo`, `history_jsonl`, `gateway_http_error`, `gateway_silent`, `router_shipped` | what a document says and the code does not do (section 6) |

Bounds.  Peers do not share state but for the order of operations and the
index file, so two show any effect of one on the other, and they are
symmetric.  Two rounds per peer with one fault and two crashes give: a crash
before and after each step, a failed write followed by a good one, a round
lost by a crash and opened again, and a second crash on top of it.  Five rounds
under a cap of one are trimmed up to four times, the later trimmings larger
than the file.  Batches of one and two messages (`ImportMax` 2) tell the first, a middle and
the last message of an import apart.  In `gateway` two messages go to the tasks in
every way: one each, or both to one.  So a second execution can start before,
during and after the first, with the cancellation anywhere between, and the
restart separates what was before from what comes after.  The actions that stop at a bound
do so in their guards: `RoundBound`, `FaultBound`, `CrashBound`, `CancelBound`.

The menu of `router` has a rule for every kind of condition, for two kinds
together, for a pattern that is invalid and one that matches all, and a rule
with no condition, on three priorities.  Three rules show any precedence of one
over another with a third around them; longer files are covered by the proofs.  `router_shipped` has
the rules of `server_v2/config.yaml`, one tag standing for those of its rule
that differ in nothing.

In `relay` only the order of the timeouts matters, and one or two ticks each
keep it: proxy (1, for 30 s) < command and grace (1 + 1, for 120 + 15 s) < post
(3, for 300 s).  A command can so outlive the proxy's wait, and end before,
at, or be killed at its limit.  `Latency` 0 lets a post be taken up before the
first tick or not at all; the proofs are for any latency the limits leave room for.
Two sendings give one that the client gave up beside the one it sent then.

In `server` two rounds on file, and a third message that opens a round again
after the restart, make the clients' limits bite: pages of two lines end within an
exchange and at the end of the file, and a poll that takes one round at a time
is late when it misses one chance.  One peer is enough, since the second would
only hold the lock at times.  The cap is off: what it does is `history_cap`'s.
In `sidecar` two tasks show one that loses its line to the other; the first
restart can leave half a line and the second read what was glued to it.
`LossBounded` says something there as long as no append failed, when it allows one
task per restart; with a failed append it allows both tasks and nothing can
exceed it.  The general case is the theorem `LossIsBounded`.

Deadlock is checked for `AgentRouter`, and for `History` and `MessageServer`,
which can always import an empty batch.  `Gateway`, `Relay` and `Sidecar` stop
when every task has had its message and settled, so
their runs do not check it; what must happen is stated by its liveness properties.

Fairness (`Gateway!Fairness`), weak throughout: the coroutine of a message
goes on when it can (the event loop), from routing to its verdict, the post to
a peer included (timeout of 300 s, line 282); the SDK drains the queues.  None
for messages, cancellations, stopped executions or crashes.
`Relay!RelayFairness` gives the same to `Post`, to the ends of a post, to
`PublishVerdict` and to `Save`, and besides to `Tick` (time goes on), to `Kill`
(the timer of `execFile`) and to the proxy; no command has to end by itself and
no post has to be taken up.  `Sidecar!Fairness` says that a thread which can go
on does, because the lock is held for an append only and `urlopen` gives up
after ten silent seconds (`server.py:202`).  `History` and `MessageServer` have
no liveness properties and no fairness: a handler that writes never awaits, so
that it ends is not in question.

`EveryTaskSettles` excepts tasks lost by a later crash and tasks whose routing
raised: nobody ends them.  `CancelSettles` says that a cancellation does, if
no later crash loses it.  Both, and `WorkIsRecorded`, look at the last life of
the gateway (`crashes = CrashBound`); as a crash may come before anything else,
or after anything, a life that starts on whatever was stored is among them.
`SubmittedMovesOn` excepts tasks whose threads a restart took and those for
which no thread could be started.

## 4. Proofs

TLAPS proves, for every value of the constants:

| Module | Theorem | States |
|---|---|---|
| `HistoryProofs` | `TypeCorrect` | `History` keeps `TypeOK` |
| | `NeverReused` | a round told to a caller is never granted again |
| | `IndexMonotone` | the saved index never goes back |
| | `ImplementsRounds` | `History` implements `Rounds` |
| `HistoryFileProofs` | `AnsweredIsOnFile` | without a cap, what was answered is on file (`NoSilentLoss`) |
| | `ReplySeesItsMessage` | without a cap, a reply is made with its message in its context (`ContextHasCurrent`) |
| | `IndexMatchesFile` | index and file agree before any failure |
| `HistoryCapProofs` | `OldestForgottenFirst` | the cap forgets the oldest rounds first |
| | `CappedFilesStayShort` | a capped file stays short (`CapBound`) |
| | `OnlyRestartsLowerRounds` | only restarts let the rounds on file fall, each once |
| `GatewayProofs` | `GatewayTypeCorrect` | `Gateway` keeps `TypeOK` |
| | `ImplementsLifecycle` | `Gateway` implements `TaskLifecycle` |
| | `OneVerdictEach` | a task has as many verdicts as executions that are over |
| | `MetricsAccount` | the metrics are never behind the stored verdicts, and equal when nothing is between (`MetricsAgree`) |
| `RouterProofs` | `Precedence` | routing keeps the documented precedence |
| | `CatchAll` | with a catch-all rule every message goes to the target of a rule |
| | `FileOrder` | the order of rules with different priorities does not matter |
| `RelayProofs` | `RelayRunsGateway` | `Relay` does only what `Gateway` allows |
| | `PostOutlastsCommand` | the gateway gives up on no command that runs or has answered |
| | `AnswersStand` | what a client was told is what the store says from then on |
| `ServerProofs` | `ServerRunsHistory` | `MessageServer` implements `History` |
| | `CueGetsWhatIsSaved` | what CUE is sent is saved, and on file (`ForwardedOnFile`) |
| | `CueGetsNewRounds` | forwards of a peer bear rising rounds (`ForwardsRise`) |
| | `TasksAreExchanges` | a task is one exchange on file |
| | `ExportsAreHistories` | an export in pages is a history, none of it missing |
| | `PollsSeeAnswers` | a client that polls in time misses nothing |
| `SidecarProofs` | `SidecarTypeCorrect` | `Sidecar` keeps `TypeOK` |
| | `FileCatchesUp` | the file catches up with the tasks in memory |
| | `LossIsBounded` | what failed appends and restarts can cost |
| | `CancellationStands` | what can undo a cancellation in the sidecar |

The assumptions are those named in the modules (`HistoryAssumption`,
`GatewayAssumption`, `RouterAssumption`, `SidecarAssumption`): types of the
constants, and that no import is larger than `ImportMax`, which
`start.py:368` sees to.  `RelayAssumption` adds that the post outlasts the command,
`Latency + CommandTimeout + Grace < PostTimeout`, which is 120 + 15 < 300 in
the code and leaves 164 s for the plugin to take up a post.

*History.*  `AckedRoundsNeverReused` is not inductive: it says nothing of the
rounds in memory, in the saved index or in the operation in progress.  The
inductive invariant `IInv` adds that the saved index is at most the one in
memory (`IndexBehind`); that no acknowledged round is above the saved
`last_round` (`AckedIsSaved`), which is why a crash, which takes memory back
to the saved index, cannot fall below it; and that the rounds of the operation
in progress are counted in memory and lie above all those its peer was told of
(`OpIsFresh`).  The order of `record_outbound`, save and then answer, is what
the proof turns on.
`IndexMonotone` follows because only a save changes the index and it copies a
memory that is not behind; `ImplementsRounds` because only `Acknowledge`
changes `acks`, by a range above the others.

*History, files without a cap.*  Then a file only ever grows (`Grows`): a step
appends the line of the operation in progress, or spoils the end, and what can
be read afterwards could be read before.  `NoSilentLoss` and
`ContextHasCurrent` are about moments; the invariant `FInv` follows the
operation through its stages instead.  `OpOnFile` says what it has on file by
each of them: the context is read only from a file that parses, so a torn line
before the message stops the send there, and with a reply to be recorded the
message is known to be whole before anybody is answered.  `SavedInv` says when
the saved index is the one in memory, `AgreeInv` that before any failure every
round but the one in progress is on file.

*History, files under a cap.*  All that is used of `_enforce_cap` is that it
keeps lines in order, may turn some into garbage, and drops what was in front
(`Trims`, proved of `SplitLines` and `SubSeq` in `SplitTrims`, `DropLines` and
`CapTrims`).  For `ForgetsOldestFirst` each round that was acknowledged has a
bar in the file (`Barred`): the lines of rounds up to it end at one that opens
it or does not parse.  Trimming keeps a bar or drops all that is in front of it
with it; so does every other step, since only newer rounds are written.
`CapBound` needs the length of a file at each stage of an operation
(`LengthInv`).  It is bounded by the *saved* `total_rounds`, two lines for
each of them up to the cap: a restart takes the count back to that, and then
the file may hold the lines of the batch that was lost, which is what a
failure or restart can add.  While `_enforce_cap` runs, two lines are dropped
for every round above the cap, which leaves room for the message just written
and its reply.  `CapBound` is stated for messages without separators: where
there are some, trimming makes two lines of one, and a file can grow longer.
`OnlyRestartsRewind` counts falls, and counting is not
inductive; the invariant `EraInv` says instead that the lines can be labelled
with the number of restarts before they were written, such that labels never
fall and rounds rise within a label.  Every line before a fall has a label of
its own, and none of them has the last one, so there are at most as many falls
as restarts.

*Message server.*  Every step of the server is one of `History` or leaves it
alone (`HistoryStep`), so `FInv` is taken over.  `ForwardedOnFile` and
`ForwardsRise` come from one invariant (`ForwardsInv`): a forward is started
after the save, so its round is at most the saved one, which no restart
undoes, and the next message opens a later round.  `TaskIsOneExchange` is
about where replies stand (`RepliesInv`): behind their message, of a saved
round, and older than the operation in progress unless they are its own.
`ExportComplete` holds because what the client has is the beginning of the
file (`ExportInv`) and files only grow; a page is never taken from a file that
does not parse, so nothing it has is replaced later.  `PollMissesNothing` is
the hardest: `PollInv` says that every line of a round up to the last one
polled was seen, that none of those rounds is written again, and that their
answered messages are on file.  It fails when both a write failed and the
process was restarted, which the property excepts.

*Gateway.*  `ImplementsLifecycle` needs that what is stored is what was
published, and that the first event applied to a task without a row is
`Working`.  `QueueInv` says so: the events of a task begin with `Working`, and
of a task without a row either nothing has been applied or all was lost with a
crash; only in the first case can anybody still publish for it.
`OneVerdict` is a count over events and over executions.  `VerdictStep` keeps
the two in balance: `Publish` is the only step to add a verdict, adds exactly
one (`VerdictIsOne`), and is the only one by which an execution comes to be over.

`MetricsAgree` relates three things that change at different times: the
counters, the executions, and the rows.  `CountInv` ties the counters to the
dispatches that have an outcome.  `VerdictsMatched` names, for every verdict
published and for every row with one, an execution of that task that is over
with that outcome.  Different tasks have different executions, so the rows with
a verdict map one to one into the dispatches counted for it (`NoLarger`), which
is the inequality (`StoredWereCounted`).  In a quiet state the map goes the
other way as well (`CountedAreStored`): a dispatch that was counted has
published, its verdict was taken from the queue, and no cancellation
(`CancelInv`) and no other execution of its task got there first.

*Router.*  The invariant is short (`RInv`: the rules are the sorted file and
the outcome is the choice among them); the work is in sorting.  `Sorted` puts
each rule at the place that counts the rules before it.  `Before` is a strict
total order, so these places are all different (`RankOrder`) and, by
counting, all taken (`RankOnto`); hence sorting a sorted file changes nothing
(`SortedTwice`), and the first match in sorted order is the best of the file
(`FirstIsBest`, `ChoiceIsBest`).  All three theorems follow from the last.

*Relay.*  Every step of `Relay` is one of `Gateway` or does not touch it
(`RelayIsGateway`), so the invariant of the gateway is taken over as it is.
`PostOutlastsCommand` is a race of two timers that start at different times.
The invariant `Timely` ties them: while a command runs, the timer of its post
is ahead of its own by at most `Latency`; once the command has ended the post
is not older than the longest command can make it, because its answer is
collected before the next tick.  `OwnTask` and `OutcomeInv` carry over what
the gateway knows of the one sending that a task has.  `AnswersStand` follows because the proxy only
passes on a final state and `Apply` leaves a final row alone.

*Sidecar.*  `CaughtUp` is nearly inductive: whoever changes a task is about to
write it, and whoever writes it writes it as it is by then, so the last of them
leaves the file right.  `Bound` adds that only known tasks are written, and
that a task whose message has not arrived has no line.  Most of the work is in
the file: an append adds its line or spoils one (`AppendedFile`,
`InterruptedFile`), so a file that is intact was never spoiled, and a restart
reads all of it (`LoadsType`).  `CancelUndone` follows, as a restart that finds
an intact file and no thread writing a task loads the state it had.
`LossBounded` is not inductive, since the harm of half a line comes later: the
line written next is lost in it.  `LossInv` counts a pending half line as one
more task.  A failed append then adds two at most and a restart within an
append one, while the line that is lost in half a line takes the pending one's
place.

Every safety property and every action property that a run checks is so stated
by a theorem.  Only model-checked are the liveness properties
(`EveryTaskSettles`, `CancelSettles`, `WorkIsRecorded`, `CommandsEnd`,
`SubmittedMovesOn`), which rest on fairness and so on
ENABLED, out of the prover's reach; and the counterexamples of section 6, which
are about particular behaviours.  No module uses RECURSIVE operators:
`SplitLines`, `Trimmed` and `Sorted` say where each line or rule comes from.

## 5. Plan

Modelled, in this order of importance: `History`, `Gateway`, `AgentRouter` and
`Relay`, each with its proofs; `MessageServer`; `Sidecar` with its proofs.

Proved: all safety and action properties of the runs.  What could be added:

1. How far `PollMissesNothing` and `TaskIsOneExchange` hold under a cap.
2. Which rounds a capped file still has, as a function of the rounds ever
   opened: `history_fifo` shows that they are not the newest `MaxRounds`.
3. The type invariants of `Relay` and `MessageServer`, which their proofs use
   (`RelayTypes`, `ServerTypes`), as properties of the runs.

## 6. Where code and documents differ

* The cap (`history_fifo`).  `total_rounds` counts every round ever opened and
  is not lowered by trimming, so each trimming drops one pair more than the
  last.  From the second on it erases newer messages than the cap says; soon
  the message just recorded.
* Round numbers.  `history.py:12-13` says that they never recycle.  A crash
  after the append and before the save makes the next message open the same
  round; `OnlyRestartsRewind` shows that nothing else does.  Callers never see
  it, as `NeverReused` proves: the number was not told to anybody yet.  Readers
  do: after a failed write and a crash, a client that polls by rounds misses a
  message, the exception made in `PollMissesNothing`.
* JSONL (`history_jsonl`).  Trimming breaks lines at U+2028, U+2029 and
  U+0085; from then on every read of the peer fails.
* Metrics (`gateway_http_error`).  A peer that answers with an HTTP error
  counts as a success and completes the task.
* Silent end (`gateway_silent`).  When routing raises, no verdict is
  published.  This needs a routing file without a catch-all rule, or none:
  `CatchAllAnswersAll` shows that the shipped one never raises.
* A dead rule (`router_shipped`).  No message reaches `vidforge_create` of the
  shipped configuration.
* `proxy.py:53` calls the proxy transparent.  It is, up to 30 s: after that the
  client gets an error for a task that goes on, and a message that it sends
  again runs a second command in the same session (`index.ts:110`).
  `WorkIsRecorded` shows that the first one's result is stored all the same.
* `designs/v2.3/legacy-sidecar/server.py:70` calls the task store thread-safe.
  Its file is; but a task that was cancelled, and told so, is working again when
  its dispatch returns (`CancelUndone` lists when).
* Precedence.  `server_v2/config.yaml:16` ("explicit agentId > rule-based >
  default"), `README.md:37` and `skill/SKILL.md:197` put an explicit agent id
  before the rules, so that no catch-all rule could take a message which names
  its agent.  The code, its docstring (`agent_router.py:115-119`) and `PrecedenceKept`
  have the rules first.

## 7. Not modelled

Authentication, TLS, token files, CORS, agent cards and message normalisation
decide whether a request is let in and what it looks like; they keep no state
and their tests cover them.  Redaction and markdown export are text
conversions; that redacted metadata may not parse is one cause of
`History!Fault`.  The extraction of the reply from a command's output
(`dispatch.ts:107`) is text processing without state.  The workflow hook
(`start.py:595-655`) launches a process that nothing else hears of.
`SqliteTaskStore.list` and the listing of all peers only read, and `delete` is
called by nothing under `src/`.
