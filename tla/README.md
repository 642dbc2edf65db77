# monitor-control-plane: TLA+ models, checks and proofs

monitor-control-plane is one server (FastAPI, SQLite, WebUI) and many agents. An
agent connects to the server over a WebSocket, streams metrics and container
inventories, and executes container commands that users create through the
server's API. This directory holds TLA+ modules of that system, the TLC
configurations that check them on small instances, and theorems that TLAPS
proves for every instance.

Source paths below are short: `app.py`, `db.py`, `hub.py` and
`notifications.py` are in `src/server/monitor_server/`, `client.py` in
`src/agent/monitor_agent/`. `PROJECT.json` maps every definition to its lines.

## 1. Inventory of the system

The server is **one asyncio event loop** in one process. Database calls are
synchronous (`Database._lock` around one SQLite connection), so what happens
between two `await`s is atomic. The only threads are the metrics maintenance
(`asyncio.to_thread`, its own connection) and, in the agent, the executors of
collectors and of commands. The sections under `hub._lock` contain no `await`,
so that lock is never contended.

| Component | State | Operations | Talks to |
|---|---|---|---|
| **Commands** (`app.py` 521-575, 1256-1346; `db.py` 936-1029, 1463-1508) | `commands` table: status, acknowledged_at, result_message | create, mark_sent, mark_send_failed, acknowledged, running, result, expire | hub, agent handler, watcher |
| **Hub, agents** (`hub.py` 9-60, 80-114) | `_agents`: node → connection | register, unregister, disconnect, send_command | handlers, create_command, reload, revoke |
| **Hub, UI clients** (`hub.py` 62-75, 116-166) | `_ui_clients`, `_ui_send_locks` | register, unregister, broadcast | every handler |
| **Agent handler** (`app.py` 577-697, 1110-1346) | one coroutine per WebSocket | authenticate, register, auth_ok, receive loop, unregister | hub, database, notifier |
| **Agent session** (`client.py` 61-199, 291-361) | connection, handshake, command in hand, execution thread | connect, authenticate, acknowledge, run, report, reconnect with back-off | server, Docker |
| **Agent collectors** (`client.py` 201-289) | `_collector_futures`, thread pool | collect with a timeout, skip while busy | session |
| **Status watcher** (`app.py` 1454-1549) | health record, retry delay, `last_rollup_at` | cycle: node statuses, command expiry, maintenance; back-off after a failure | database, hub |
| **Metrics** (`db.py` 1146-1264, 1510-1552; `app.py` 1349-1451) | raw rows, hourly and daily rollups, watermarks | insert, roll up, prune | watcher |
| **Inventory** (`db.py` 842-934) | containers per node, stale mark | replace, mark failed, update stats | agent handler |
| **Alerts** (`db.py` 754-836, `app.py` 1156-1173) | `alerts` table | evaluate a metric sample against thresholds | agent handler, notifier |
| **Alert notifier** (`notifications.py`) | bounded queue, workers, counters | start, stop, enqueue, deliver with retries | webhooks, audit log, reload |
| **Credentials** (`app.py` 600-660, 964-1103; `db.py` 574-630) | agents of the configuration, revocations | check at connect, reload, revoke | hub |
| **Login limiter** (`app.py` 138-162) | failures per key in a window | check, record, clear | login, WebSockets |
| **WebUI** (`src/web/app.js`) | socket, refresh timers, view state | connect, reconnect, refresh | server |
| Configuration, wizard, doctor, password and token helpers | none that changes | parse, validate, print | — |

What is hard here, and where it bites, is the list `hazards` of `PROJECT.json`.
In short:

- the coroutine that sends a command is suspended in `send_json` while the
  agent may already answer on the same connection, so **the acknowledgement can
  be recorded before the delivery**, and the record of the delivery has no
  condition on what it overwrites (`db.py` 959);
- a **send timeout does not mean that nothing was sent** (`hub.py` 95-100);
- connections **overlap**: a dismissed connection's handler is still alive when
  its node registers again, and a send coroutine holds a connection object
  across awaits;
- the hub offers a connection to `send_command` **before** `auth_ok` is sent,
  and there is a stretch of the handler, after the registration, that no
  `try ... finally` protects (`app.py` 660-690);
- sockets break with frames in flight, the agent's thread goes on without its
  session, the server restarts between any two steps; nothing is sent twice
  and nothing is acknowledged at the protocol level;
- several parts work in cycles that can fail half-way (watcher, maintenance,
  notifier, reload), and bounded resources refuse work (queue of the notifier,
  pool of the collectors);
- a **reload awaits** while agents connect, leave and are revoked, and
  credentials live in three places (file, running configuration, revocations);
- the rollup **replaces** aggregates by new ones of whatever raw rows are left,
  so cutoff, retention, late samples and clocks must fit together;
- the agent's collections **outlive their callers and sessions**, and their
  callbacks can run after a successor was registered;
- broadcasts to the WebUI overlap, and the page's refreshes overtake each other.

## 2. Plan

Modules, in the order in which they were written; each component is a module of
its own, and what two components share is named in section 3.

| | Modules | Subject | State |
|---|---|---|---|
| 1 | `CommandTable`, `CommandFlow`, `CommandLifecycle` | a command over all processes; what the table promises its readers | checked, proved |
| 2 | `AlertNotifier` | queue, workers, retries, counters, reload and shutdown | checked, proved |
| 3 | `StatusWatcher` | cycle, back-off, maintenance thread, shutdown | checked, proved |
| 4 | `MetricsRollup` | samples, incremental rollup, pruning, charts | checked, proved |
| 5 | `Credentials` | handshake, reload, revoke and restart against the hub; the failure limit | checked, proved |
| 6 | `Alerts`, `AlertStream` | evaluation of samples, and the events on their way to 2; what the events promise | checked, proved |
| 7 | `DockerLists`, `Inventory`, `ContainerTable` | lists of Docker; collections in the agent's pool, connections that overlap, the containers table; what the table promises | checked, proved |
| 8 | `UiFeed` | broadcasts to sockets that come and go; the page's refreshes | checked, proved |

Every invariant and every action property of the passing runs is a theorem, and so
are the three refinements; liveness stays with TLC. What is left: an abstract
specification of the notifier (an event and a webhook: posted, given up or dropped,
in the order of the events where there is one worker), and one of the credentials
(who may be connected), with their refinements.

## 3. The modules and the code

Three conventions hold in all modules. What the event loop does between two
`await`s is **one action**, and an action has a disjunct for every way in which
it can end. A database call is atomic. Definitions that carry the comment *A
wrong variant* are plausible bugs; no specification uses them, and `mutants` of
`PROJECT.json` says which property each of them breaks when it takes the place
of the definition after it.

### CommandTable

A row is its status, whether `acknowledged_at` is set, and the kind of its
`result_message`. Each operator is one UPDATE of `db.py` with its WHERE clause:
a statement that matches nothing leaves the row alone.

### CommandFlow

One node, its successive connections `Conns`, and the users' `Commands`.

| Variable | Code |
|---|---|
| `exists`, `rows` | the `commands` table |
| `sender`, `target` | where the `create_command` coroutine of a command stands, and the `AgentConnection` it holds across its awaits |
| `hub` | `hub._agents[node_id]` |
| `handler`, `socket` | the `agent_ws` coroutine of each connection; whether the server's end is open |
| `down`, `up` | frames in flight, in order, per connection and direction |
| `agent` | `MonitorAgent`: connection, position in `_receive_loop` and `_handle_command`, command in hand |
| `starts`, `outcome` | executions of `docker.execute` and what they did |

| Actions | Code |
|---|---|
| `CreateCommand`, `WriteCommand`, `SendReturns`, `SendFails`, `CloseReturns` | `create_command` and `hub.send_command`: insert, frame handed to the transport, `sent` recorded; or the send fails or times out *before or after* the frame went out, the connection is removed if it is still the registered one, closed, and `send_failed` recorded |
| `CreateRaises`, `RecordRaises` | a database or audit call of `create_command` raises: the coroutine ends and leaves the row as it is |
| `Connect`, `Greet`, `GreetFails`, `ServerReceives`, `HandlerEnds` | `agent_ws`: registration, broadcast and `auth_ok`, receive loop, `finally` |
| `DisconnectAgent`, `CloseSocket` | removal by an administrator; the transport breaks (frames may be lost) |
| `AgentAuthenticates`, `AgentAcknowledges`, `AgentStarts`, `AgentReports`, `AgentGoesOffline` | `client.py`: handshake, acknowledgement, `running` and the thread, result, loss of the session |
| `ExecutionEnds` | the thread, which ends whether or not its session is still there |
| `Expire` | `expire_stale_commands`, for any set of open commands: time is not modelled, so every expiry the clock allows is |
| `ServerRestarts` | the process ends between any two steps; the table survives |

`CloseSocket` is external: it stands for uvicorn, `websockets` and the network.

### CommandLifecycle

What a reader of the table may rely on, without connections, frames and agent:
less than `docs/architecture.md` says. A status moves forward, but **one** step per
command, the record of its delivery, may set it back to `sent`, from wherever it
is; after that step a final status is final. That the promise of the documents
itself is not kept is the run `command_status_order` (section 6). `CommandFlow` implements it under
`status <- rows[c].status`, `delivering <-` the commands whose sender is between
its insert and its record.

### AlertNotifier

The notifiers that successive configurations create (`Notifiers`), each with
worker tasks, a bounded queue and an HTTP client.

| Variable | Code |
|---|---|
| `current` | `app.state.alert_notifier` |
| `reloading` | the notifier whose `stop()` the running reload awaits (the reload lock is held) |
| `phase`, `client` | `_tasks` and how far `stop()` is; `_client` |
| `queue`, `worker` | `_queue`; where each `_worker` task stands, and the attempt |
| `tally` | the counters of `status()`, the local `abandoned` of `stop()`, and what they are measured against |
| `events` | history: the number of events raised |

`Enqueue`, `TakeJob`, `Deliver`, `Retry`, `Wake`, `Fail` follow `enqueue`,
`_worker` and `_deliver`; an audit record that raises after the counter was
increased is a disjunct of its own. `Reload` and `Shutdown` run `stop()` up to
its await; `Cancelled` ends one task wherever it stands; `StopEnds` is the rest
of `stop()`. Signature, body and the target's URL are left out.

### StatusWatcher

`task` is the await at which `_status_watcher` stands, or how it ended;
`failures` and `retry` its back-off; `row`, `audited`, `todo` the commands a
cycle expires; `due` and `thread` the maintenance; `lifespan` the end of the
server. `Wake`, `NodesTold`, `CommandTold` and `MaintenanceEnds` are the
stretches of a cycle between its awaits, `ThreadEnds` the end of the thread,
`Shutdown` the `task.cancel()` of the lifespan, which ends the watcher at once
except behind the shield (`WaitEnds`), and `Closes` what the lifespan does after
it. Every database call may raise. Which node changes its status, and the
health record of the Admin page, are left out.

### MetricsRollup

The raw rows are a set of samples `[node, at]`, and the rollup table is the set
of the samples its rows count: an aggregate is what it aggregates. `Bucket` is
the length of a bucket, so one instance is the hourly table and another one the
daily table; they share nothing but the raw rows.

| Actions | Code |
|---|---|
| `SaveMetrics` | `save_metrics`; the time stamp is the agent's, so it may be late, or ahead by what its clock is |
| `Rollup` | `_rollup_metric_table`: the cutoff of `RollsUp`, and the upsert that replaces the rows it has samples for |
| `PruneRollups`, `PruneMetrics` | the oldest rows past the retention, a batch of them, each in a transaction of its own |
| `Fails` | a transaction raises and ends the thread between two of them |
| `Tick` | time; a rollup succeeds at least every `RollupWithin` ticks, whatever rows its cutoff lets it see, and no silence of all nodes is longer than `MaxSilence` |

`last` is the time of the last rollup that succeeded; it is a history variable, and
says nothing of what that rollup covered. That no raw row is pruned unseen is
therefore left to the cutoff, the delay of samples and the retention.

`Chart` is `list_metric_series`: the rollup if it has a row of the node in range,
else the raw rows. Averages and extremes are left out: they are right as long as
the set is.

### Credentials

`file`, `config`, `revoked` are the three places a credential is recorded in,
`hub` the credential a node is connected with; `reload` and `todo` the reload
that awaits the old notifier's end and then closes stale connections one by one;
`open` and `failures` the handshakes and the limiter of each host.

| Actions | Code |
|---|---|
| `Accept`, `Refuse`, `Abandon`, `Authenticate`, `Leave` | `agent_ws`: the limiter is asked, the first message is awaited, and then nothing is awaited from the check of the credential to the entry in the hub |
| `Forget` | the sliding window of `FailureRateLimiter` |
| `Revoke` | `_revoke_agent_runtime`: rows, running configuration, entry in the hub |
| `Reload`, `NotifierStopped`, `SocketClosed` | `_reload_runtime_config` up to and after each of its awaits; any of its audit records may raise |
| `Edit`, `Restart` | the file is edited; the server starts again with file and table |

A secret is the pair of node and fingerprint. The file may give it another token id
at any time, or none (`NoTokenId`, which matches no revocation); a revocation
writes one row per secret, and the upsert replaces the token id of a row that is
there (`RevocationRows`). `Fine`, the check of a reload, looks for the fingerprint
only, as the code does.

`CommandFlow.DisconnectAgent` is what a revocation or a reload does to a
connection; the credentials behind it are only here.

### Alerts

`alerts` are the rows per metric, `hand` the events a handler has raised and not
told yet, `told` those the notifier was given, `lost` those whose handler ended.
`Receive` saves and evaluates a sample in one piece (there is no await between
`save_metrics` and `evaluate_metric_alerts`); `Tell` is one round of the loop
over the events, whose broadcast is the await; an audit record that raises ends
the handler (`Goes`). `Dismiss` takes the entry out of the hub while the handler
is at work; it goes on receiving whatever has arrived, and another one can connect. `told` is what enters
`AlertNotifier` as its events.

### AlertStream

What the users of the notifier may rely on, without values, rows and handlers: the
alert of a metric goes on and off by turns, every turn is one event, an event is
told once at most, and one that is lost is never told. `Alerts` implements it under
`number <- ` the number of rows of each metric, `on <- ` the metrics with an active
row, `open <- ` what all handlers have in hand; `told` and `lost` are the same.

### DockerLists

What Docker holds (`Contents`, one after the other) and the lists an agent can get of
it: `containers.list` asks for the ids and then for one container after the other, so
a list has the ids of one content and each container as it was then or later
(`Readings`); one that is removed meanwhile makes the collection fail (`Removed`).

### Inventory

| Variable | Code |
|---|---|
| `docker` | which of its `Contents` Docker holds |
| `future`, `late` | `_collector_futures[key]`, and a future that is done and replaced but whose callback is still to run |
| `pool` | the jobs of the `ThreadPoolExecutor`; the first `Workers` run |
| `session`, `phase`, `opened` | the agent's connection; whether its hello is out; how many there were |
| `hub`, `handler`, `wire` | `hub._agents[node_id]`, the `agent_ws` coroutine of each connection, and the messages on the way to it |
| `rows`, `status` | the `containers` rows of the node and `docker_inventory_status` |
| `seen`, `faults` | history: the content whose ids the table shows; a bound |

`Turn` is a caller of `_run_blocking_collection` (a loop, the hello, or the
inventory after a command), `List`, `Return`, `Fail` a thread, `Timeout`,
`Called`, `CalledLate` the ends of a wait and the callbacks. `Connect` is the entry in
the hub, which is refused only while there is one (`Refused`), `Greet` and
`GreetFails` the stretch up to `auth_ok`, before the `try` of the handler. `Break`
cancels the tasks of a session and leaves the futures. `Dismiss` takes the entry
out of the hub and leaves the handler, which goes on with `ReceiveList` and
`ReceiveFailure` until `Leave`: handlers of several connections can be at work at
once. `Change` is Docker, and external.

### ContainerTable

What the readers of the `containers` table may rely on, without agent and sessions:
it is always one list that Docker gave, never a mixture of two; it changes by the
step that marks it current, to a list of the same or a later content, and to an
earlier one only while connections of the node overlap; a failure marks it stale
and leaves the rows alone. `Inventory` implements it under `shown <- seen` and
`overlap <- ` there is a handler alive of a connection before the newest.

### UiFeed

`db` counts the changes, and change number b has broadcast number b: `waiting[b]`
are the sockets it still has to send to, `failed[b]` those it could not.
`Broadcast` takes the clients of the moment, `Send` and `SendFails` run per socket
in the order of the broadcasts (its lock), and only `BroadcastEnds`, when the
slowest send is over, removes and closes what failed. `Register` and `Unregister`
are the handler `ui_ws`, `Reconnect`, `Refresh` and `Arrive` the page: every
message, and a timer, make it read the database again, and nothing keeps two such
reads in order.

## 4. The runs

| Run | Instance | Distinct states | Shows |
|---|---|---|---|
| `command_flow` | 2 commands on 1 connection, or 1 command over 3 connections, fair | 514,428 | results are true, `send_failed` never hides an acknowledgement, final rows stay, at most one execution, a newer connection is never unregistered for an older one, `CommandLifecycle` is implemented, every command ends |
| `notifier` | 2 notifiers, 2 workers, 2 webhooks, queue 2, 2 attempts, 2 events, fair | 302,204 | every job accounted for, counters true, no task without a client, jobs in the order of their events, every `stop()` ends |
| `watcher` | 2 commands, 8 failures at most, fair | 4,288 | one thread at a time and never without a waiter, closing comes last, no timeout is skipped by a cycle that does not fail, due work is done |
| `rollup` | 2 nodes, buckets of 2, retentions 8 and 10, batch 1, samples late by 1, 5 raw rows, 12 ticks, symmetry | 1,326,240 | no rollup loses a sample, nothing is pruned before it is rolled up, charts keep what they showed |
| `credentials` | 2 nodes, 4 credentials, one secret under two names, 1 host, limit 2, 2 open handshakes, fair | 247,680 | the secrets of connections are enabled, revocations hold and last, the limit, reloads end |
| `alerts` | 2 metrics, 2 values, 2 connections, 2 alerts per metric | 1,851,543 | one active alert per metric with its reason, ends after beginnings, `AlertStream` is implemented |
| `inventory` | 3 contents of Docker, 2 keys of which one is stuck, 2 threads, 2 faults, 3 connections, fair | 656,788 | one job per key, fresh lists, `ContainerTable` is implemented, the table ends up with what Docker holds |
| `ui_feed` | 2 changes, 3 sockets, fair | 248,900 | no client misses a broadcast, the page converges |
| `command_status_order`, `command_hub_entry`, `watcher_stays_alive`, `rollup_skew` | as small as the case allows | — | the deviations of section 6 |

**Why these bounds are enough.** Commands interact in pairs (both in one
connection's buffers, one in hand while the other arrives), so two of them on
one connection meet every case of `CommandFlow` except those of a new
connection; these need an old handler, a send that holds the old connection, and
a successor that is itself replaced, hence three connections. `Bound` of
`MCCommandFlow` takes the two together: it refuses a second command when there was a
second connection, and the other way round, and cuts off nothing that has begun.
The theorems of section 5 do not depend on these numbers. The notifier's queue of two overflows
with two webhooks and a busy worker, also for one webhook of an event only; two
attempts give one retry with its sleep; two notifiers give one reload that
overlaps with events and with the shutdown. The watcher's delay reaches its
bound of 30 seconds at the third failure in a row (5, 10, 20, 30), so
`FloatLimit` 8 passes through every delay; the real value 1024 is used by the
runs of the deviations.

`rollup`: buckets of two ticks have an inside, on which an unaligned cutoff would
show; the retentions are the smallest that satisfy `Exact`, so pruning starts as
early as it may, and twelve ticks let the first bucket pass both retentions; a batch
of one leaves expired rows behind. `credentials`: one secret with and without a token
id, another secret of its node under the same token id, and a second node, so every
way in which secret and token id can differ occurs, and renaming before, between and
after revocations.
`alerts`: two alerts per metric give an end with a successor, two values all
outcomes of a comparison. `inventory`: the three contents stop one
container and replace another, so a list can mix all three; two threads of which one
is stuck leave one; two faults are enough for a dismissal and a second overlap, or
for a time-out and the end of a session around one late callback. `ui_feed`:
two broadcasts overlap on one socket, and of three sockets two may fail.

**Deadlock.** `CommandFlow`, `Credentials`, `Alerts`, `Inventory` and `UiFeed`
never stop and are checked for it. The server of `AlertNotifier` and
`StatusWatcher` may be shut down or out of events, and time ends in
`MetricsRollup`, so their runs do not check it; what must not get stuck there are
liveness properties.

**Fairness.** Only what the code itself bounds is fair.
`CommandFlow`: the steps of a sender, because `send_timeout_seconds` (1 to 60)
bounds each of its awaits, and the expiry of an open command, because the
watcher repeats its cycle; nothing of the agent or the network. That the watcher
repeats is what `StatusWatcher` examines: it holds unless 1024 cycles fail in a
row (section 6). `AlertNotifier`: a task whose request, sleep or cancellation
can end gets on, for they have timeouts; webhooks may fail for ever.
`StatusWatcher`: sleeps, bounded broadcasts and the batch of the thread end;
`DueWorkIsDone` does not assume that any database call ever succeeds: a watcher
that always fails is dead in the end, and the property says so.
`Credentials`: the stop of a notifier (`EveryJobSettles`) and the close of a socket
(its time limit) end. `Inventory`: loops go on, threads return unless their key is
stuck, `collection_timeout_seconds` ends the wait for a stuck one, callbacks run, a
greeting ends one way or the other (its broadcast and its send are bounded or
fail), both ends of a connection notice its end; the agent tries to connect again,
which is of no use while the hub keeps an entry without a handler, and
`TableConverges` makes an exception of that. Faults are bounded, because a table
converges only once Docker and the network are left alone. `UiFeed`: sends have a time limit, the page reconnects and asks on a timer,
and **strong** fairness for one thing only, that a refresh showing the last
change succeeds now and then, although others fail. All the rest is weak fairness.

## 5. What is proved

Each theorem holds for every value of the constants that the named assumption
of its module allows: `ConstantsAssumption` (the model values `NoConn`,
`NoCommand` and `AuthOk` are none of the others), `NotifierAssumption` (finitely
many workers; positive bounds), `WatcherAssumption` (`0 < Interval <=
MaxRetry`, a positive limit of the floats), `RollupAssumption` (a sample is late by two buckets at most; a chart is
not longer than its table is kept), `CredentialsAssumption` (credentials are of the
nodes; the bounds are numbers), `AlertsAssumption` (values are
numbers, and no value is none of them), `DockerAssumption` (Docker gives no id
to two containers at once), `InventoryAssumption` (positive bounds) and
`FeedAssumption` (bounds are numbers).

| Theorem | Says |
|---|---|
| `TypeCorrect` | `TypeOK` of `CommandFlow` |
| `AtMostOnce` | `ExecutedAtMostOnce` |
| `ResultsAreTrue` | `ResultIsTrue` |
| `FinalStays` | `FinalAfterDelivery` |
| `SendFailedRows` | `SendFailedUnacknowledged` |
| `ServedStays` | `ServedStaysRegistered` |
| `Refinement` | `CommandFlow` implements `CommandLifecycle` |
| `NotifierTypes`, `InflightCounts` | `TypeOK` and `InflightIsHeld` of `AlertNotifier` |
| `EveryJobAccounted` | `Accounted` |
| `HeldJobs` | `HeldJobHasClient` |
| `OrderIsKept` | `JobsInOrder` |
| `OneNotifierWorks` | only the current notifier is running, no queue outgrows its bound |
| `WatcherTypes` | `TypeOK` of `StatusWatcher` |
| `DelayDoubles` | a failure doubles the delay up to its bound, a success resets it, nothing else changes it |
| `DiesAtTheLimit` | the watcher dies at the last failure before the limit of the floats, and at no other |
| `ThreadsAreAwaited`, `CloseComesLast`, `NoTimeoutIsSkipped` | `ThreadHasWaiter`, `NothingRunsAfterClose`, `TimeoutsAreTold` of `StatusWatcher` |
| `RollupTypes` | `TypeOK` of `MetricsRollup` |
| `NoRollupLosesSamples`, `RowsArePrunedAfterRollup`, `ChartsKeepSamples` | `RollupKeepsSamples`, `PrunedAfterRollup`, `ChartKeepsSamples`, where `Exact` holds |
| `CredentialsTypes`, `ConnectionsAreEnabled`, `NobodyRevokedIsConnected` | `TypeOK`, `ServedIsEnabled`, `RevokedStaysOut` of `Credentials` |
| `RevokedForGood`, `FailuresStayLimited` | `RevokedSecretStaysOut`, `FailuresAreLimited` |
| `AlertTypes`, `AlertsHaveReasons` | `TypeOK`, `AlertsAreJustified` of `Alerts` |
| `EndsAfterBeginnings` | `ResolvedFollowsCreated` |
| `EveryEventAccounted` | every event of the table is told, in one hand, or lost, and in one of these places only |
| `EventsFollowStream` | `Alerts` implements `AlertStream` |
| `InventoryTypes`, `KeysTakeOneThread`, `FreshnessHolds` | `TypeOK`, `OneJobPerKey`, `ListsAreFresh` of `Inventory` |
| `TableIsCopy` | `Inventory` implements `ContainerTable` |
| `NothingIsMissed` | `ClientsMissNothing` of `UiFeed` |

**CommandFlow.** That a command is started at most once is not inductive: a
state with a frame under way for a command that was already started satisfies it
and its successor does not. The invariant follows a command on its way, in three
groups. `TInv` are the types. `Custody` says that a command is at one place only:
nothing is known of it before it is written (`UnwrittenIsUnknown`), its frame is
in one position of one buffer (`QueuedOnce`), a queued one is neither in hand nor
started, an acknowledged one is not started. `Truth` says that what comes back is
what happened: there is an outcome exactly for what was started, a report under
way agrees with it, and so does the row. Two lemmas (`CustodyKept`,
`CustodyKeptOnLoss`) cover all actions that only read or lose frames; what is
left is to write a frame, to take a command in hand and to start it.
`SendFailedRows` needs one fact more, that an undelivered row is unacknowledged;
the refinement needs that reports name rows that exist (`ReportsNameRows`).

**AlertNotifier.** `NotifierInv` adds to the types that a task sleeps only before
its last attempt (or its next attempt would leave the type), that the queue keeps
its bound, that an unused notifier has nothing to do (or a reload would start one
with counters that do not balance), and `InflightIsHeld`, on which the balance
rests: when `stop()` turns the count of jobs in flight into `abandoned`, the
tasks that hold them must be exactly those that `Cancelled` will end.
`JobsInOrder` compares the jobs that are queued and in hand with each other; for
`Enqueue` to keep it each of them must be of an event that has happened, so that the
new ones, which have the number of the newest event, belong behind them (`OrderInv`).
`OneNotifierWorks` needs that a reload starts a notifier that was never used.

**StatusWatcher.** `WatcherInv` adds `EndedForGood`: a closed server has an ended
watcher. Then `ThreadHasWaiter` gives `NothingRunsAfterClose`. For `TimeoutsAreTold`
no invariant is needed but the types of the rows: every stretch of a cycle hands the
rest of its commands to the next one (`AuditsTell`). The delay is a power of two, and
the provers neither have powers nor an induction rule that could be instantiated.
`Power` is therefore a recursive function, and what the induction would give is
proved with least elements: if the equation of `Power` had no solution up to some
number, there would be a least such number (`LeastNumber`, from the library's
theorem that `<` is well-founded), and its predecessor has a solution that can be
extended (`PowersExist`); two solutions cannot differ at a least place
(`PowersAgree`). So `Power` is what its definition says (`PowerIsDefined`), it doubles
(`PowerSteps`), and the delay doubles up to its bound (`DelaySteps`), which makes
`retry = Delay(failures)` inductive together with the types. A consequence is
`DiesAtTheLimit`, the exact extent of the deviation `watcher_stays_alive`.

**MetricsRollup.** `Exact` is the condition under which the rollup is right: no
clock is ahead, and both retentions are at least the two buckets that are
recomputed plus the time between rollups and the longest silence, and plus one
bucket, the time between rollups and the delay of a sample. The invariant says why
it is enough: what is rolled up and no longer raw lies before the cutoff for good
(`RecomputedAreRaw`); what is raw and not rolled up is in the next rollup
(`UnrolledAreSource`), because the table always has a recent bucket (`Fresh`) from
which the cutoff is counted; and so it is not older than the last rollup and the delay
of a sample (`UnrolledIsNew`). From the last fact pruning is right: that rollups
happen (`Timely`) is the environment's, that none of them misses a row is the
cutoff's.

**Credentials.** `ServedIsEnabled` and `RevokedStaysOut` are inductive together; the
check of a reload looks for the fingerprint only, which is enough for both: it leaves
a connection whose secret has been renamed, and never one whose secret is revoked.
`RevokedSecretStaysOut` follows from the second: each secret keeps a row, because the
rows that an upsert replaces are of the same secret (`RevokeRows`), and no step
connects a secret that has one.

**Alerts.** An active alert is the newest row of its metric, so the row the
`SELECT` finds is the last one (`NewestIsActive`), and an evaluation has three
outcomes (`JudgeCases`). `RaisedIsNew` says that its events are what its rows have
and the old ones had not, which makes `EventsAccounted` inductive with
`HandsAreBusy`. The order of beginnings and ends needs one fact more, that a
handler has one event of a metric in hand at most, since all are of one message
(`HandsAreOfOneMessage`): so it never holds the end of an alert together with its
beginning, and if the end is told first, the beginning is lost or in another hand. For the refinement an evaluation
either leaves the alert of a metric as it is, turns it on, or turns it off
(`EvaluationTurnsOnce`); its events are the turns, and they leave the open ones as
`AlertStream` has it because no two handlers have the same event.

**Inventory.** `OneJobPerKey` is inductive with the types: a turn submits a job only
for a key without one. It gives `Fresh`: a list in the pool or in a future is
between the content when it was asked for and the content now. Order rests on the
moment of asking: what was shown or on the way when a caller asked is not later
than that moment, and so not later than its list (`AskedAfter`); a caller that is
answered late was asked before its successor, which is why the order survives a
replaced future. Only the newest connection is ordered (`Ordered`): its lists are not
earlier than what is shown, what is in front of them, and what the handlers of older
connections may still receive, because the callers of an old session are gone
before the next one starts (`CallersHaveFutures`). So a list of the newest
connection never moves the table back, and one of another connection needs a
handler that overlaps. `ListsGiven` says that each list on the way is one that
Docker has given (`Readings` only grow); with it a list that is received is what
`ContainerTable` asks of a copy (`ListCopies`); every other step leaves the table
alone or marks it.

**UiFeed.** `ClientsMissNothing` says of a registered socket that each broadcast since
its registration was received, is still to be sent to it, or has failed in a
broadcast that has not ended, which will remove it. `FeedInv` adds that a broadcast
which waits for somebody has not ended (`WaitingIsRunning`); without that a failing
send could be recorded in a broadcast that never looks at its failures again.

**Only model-checked.** Liveness (`EveryCommandEnds`, `EveryJobSettles`,
`DueWorkIsDone`, `ReloadEnds`, `TableConverges`, `FeedConverges`) is out of the
prover's reach. `UiFeed` states no type invariant of its own: `HubTypes`, which is a
part of `FeedInv`, is what the proof needs of one.

## 6. Where the code does not do what is said of it

| Run | Deviation |
|---|---|
| `command_status_order` | The acknowledgement, or any later report, can be recorded before the sender's coroutine records the delivery, whose UPDATE has no condition (`db.py` 959): the status goes back to `sent`, against the order that `docs/architecture.md` gives. An acknowledged command may then expire as not acknowledged. |
| `command_hub_entry` | A socket lost between the registration and the `try` of `agent_ws` (`app.py` 685) leaves its hub entry without a handler, and reconnects of the node are refused as duplicates until a command is sent to it or an administrator removes it. |
| `watcher_stays_alive` | The delay is a float times `2**failures`; with 1024 failures in a row the product raises `OverflowError` inside the exception handler (`app.py` 1520), and the watcher is gone until a restart. |
| `rollup_skew` | A newest bucket that lies in the future, because the clock of one agent is ahead, makes the cutoff `now` minus two buckets, which is not aligned (`db.py` 1159): the bucket it falls into is recomputed from its later rows only, for every node, and its row counts fewer samples than before. |

More of them are part of the models without a run of their own:

- `CommandLifecycle` allows the step back to `sent` once per command, and
  `ImplementsLifecycle` says that it is the only one.
- A database or audit call of `create_command` that raises leaves the row pending or
  sent, and the user an error (`CreateRaises`, `RecordRaises`); the expiry ends it.
- A maintenance that raises while the watcher is being cancelled replaces the
  cancellation by its own exception (`app.py` 1406); the watcher goes on and the
  lifespan waits for it (`WaitEnds`).
- All overdue rows are committed as `timeout` before the first is audited
  (`app.py` 1463); an audit record that raises leaves the others without one for
  good. `TimeoutsAreTold` says that nothing else does.
- The rollup is exact only where `Exact` holds. `raw_metrics_days` has no lower
  bound (`config.py` 506): with one or two days, or after a silence of all nodes of
  about its length, the daily rollup recomputes a bucket whose raw rows are partly
  gone.
- A dismissed handler goes on receiving frames that have arrived (`app.py` 691), so
  the notifier can hear of the end of an alert before its beginning;
  `ResolvedFollowsCreated` says when. For the same reason the containers table can go
  back to an earlier list while connections overlap (`ContainerTable`).
- A hub entry without a handler (`command_hub_entry`) also keeps the inventory of its
  node from being updated; `TableConverges` makes an exception of it.
- A reload that fails at an audit record leaves the connections it has not
  checked (`ServedIsEnabled`, `reload = "failed"`).
- A reload keeps a connection whose secret the file has given a token id that is
  revoked (`app.py` 1037-1042), although a new connection with it would be refused
  (641-645); `ServedIsEnabled` and `RevokedStaysOut` speak of the name a connection
  came with.
- Revoking a secret again after it was renamed overwrites the token id of its row
  (`db.py` 598): another secret under the first token id is not refused any more.
  `RevokedSecretStaysOut` says that the secret itself is.
- A list of containers need not be what Docker held at any one moment (`Readings`);
  the next collection puts it right.
- The inventory after a command and the loop share a key, so one of them can fail
  as busy and mark the node stale although Docker answers (`Collect`); the next
  list ends it (`TableConverges`).
- An answer of the page can overwrite a newer one until the next refresh
  (`Arrive`).

One limit is inherent and no deviation: a send that times out may have been
delivered, so a command recorded `send_failed` can still be executed. What holds
instead is in `SendFailedUnacknowledged` and `ExecutedAtMostOnce`.

## 7. What is not modelled

- **Configuration, wizard, doctor**: sequential parsing, validation and output
  without state that several actors share; their bounds are used as assumptions.
- **Passwords, session tokens, signatures of requests**: library calls and signed
  cookies. The limiter of the login is the class that `Credentials` models for the
  handshakes; the login checks and counts without an await between.
- **The status of a node** (online, offline) and the health record of the watcher:
  each is derived from the last message or cycle and decides nothing else.
- **Container statistics** (`update_container_stats` updates columns of rows that
  exist) and the truncation of lists beyond `max_containers`.
- **The arithmetic of the agent's back-off and its jitter**; reconnecting itself is in
  `CommandFlow` and `Inventory`. What the system collector reads.
- **Login, logout and rendering of the WebUI**; `UiFeed` is a page that is logged in.

Inside the modelled parts: the contents of metrics beyond their comparison with a
threshold, audit details, payloads and texts beyond the kinds named above. Clocks
appear in `MetricsRollup` only; elsewhere the order of events is what is kept.
