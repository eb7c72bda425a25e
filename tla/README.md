# TLA+ verification of vc-operator

TLA+ models of this repository, TLC configurations that check them on small
instances, and TLAPS proofs, for every value of the constants, of the safety properties
of every component modelled and of the refinement of the abstract specification.

The core is **rust-mux** (`mux-agent`): a Tokio daemon that lets many MCP clients
share one child MCP server. It renumbers JSON-RPC ids, caches `initialize`,
holds back messages until a client finished its handshake, restarts the child
when it dies or hangs, and promises every client an answer. Everything that is
hard about it happens between the critical sections of one Mutex. Around it are the
ways in and out of the daemon (stdio proxies, control socket, status file, service
sockets), the **setup wizard** that rewrites the configuration files of MCP clients,
and the **operator cockpit** (`tui-agent`), a terminal program that follows runs on
disk and launches new ones.

## 1. Inventory

| Component | Code | State | Operations | Hard behaviour | Correct when |
|---|---|---|---|---|---|
| Request path | `mux-agent/src/runtime/client.rs`, `state.rs` | `MuxState`: clients, handshakes with buffered messages, pending table, id counters, cached initialize | accept, read a frame, answer from the cache, buffer, forward, complete handshake, disconnect, handshake timeout | each handler leaves the Mutex between looking and acting; bounded channel to the manager | every request gets exactly one answer, the right one; calls follow the handshake and keep their order |
| Event router | `runtime/mod.rs`, `runtime/server.rs` (`handle_server_message`), `state.rs` (`reset_state`) | the response in hand | route response, notification, Reset | three sections per response; Reset handled later than the manager's own clean-up | answers reach their requests; a dead child's answers are not cached for long |
| Timeout reaper | `runtime/mod.rs` (`reap_timeouts`) | expired ids in hand | expire, answer | races the router and resets | no second answer |
| Server manager | `runtime/server.rs` (`server_manager`) | child, backoff, restart count | lazy start, spawn, write, notice exit, restart, stop | four-armed select, fail paths, restart limit, shutdown at any point | the child is replaced; status tells the truth; lost requests are failed |
| Heartbeat inspector | `runtime/heartbeat.rs` | probe in flight, consecutive failures | tick, send, wait, report, deliver response | timeout against late response | hung servers are restarted, healthy ones are not |
| Status publishing | `runtime/status.rs`, `state.rs` | last snapshot (watch channel), status file | snapshot, write, listen | snapshot sent after the Mutex is released | a file or a subscriber at rest has the latest state |
| Stdio proxy | `runtime/proxy.rs`, `bin/rust-mux-proxy.rs` | pending count, stdin-closed flag | copy either way, half-close | end of input against outstanding answers | no answer is cut off; the proxy ends |
| Control socket | `ipc/*`, `multi.rs` | listener, permits, connections, subscriptions | start, accept, command, subscribe | several services race for one path, lagging subscribers, permits held for ever | the socket is reachable, commands end, subscribers get the last event |
| Configuration and start | `config.rs`, `bin/rust-mux.rs`, `lib.rs`, `runtime/mod.rs` | resolved parameters, service sockets | resolve defaults, file and command line; bind, unbind | two daemons on one path, files left by a kill | a service is reached at its socket and runs its own command |
| Scan, rewire, danger | `scan.rs`, `mux_gen.rs`, `danger.rs` | host configuration files, backups | scan, merge, generate, rewrite | conflicting names, the same second or file twice, partial writes | nothing the owner wrote is lost; client entries lead to their servers |
| Setup wizard | `wizard/*` | step, sources, services, strategy | keys, generate, confirm, rewrite | files change between the steps | nothing is written without confirmation, only what was ticked |
| Mux dashboards | `tray.rs`, `tray_dashboard.rs`, `multi_tui.rs` | last snapshot | draw | - | show what was published |
| Operator cockpit | `tui-agent/src/*` | runs, filter, selection, launch form, deep actions | refresh, filter, search, select, archive, launch with readiness probe | run lists that change under a selection; launches that never become visible | the selection names a run of the list, launches are reported truthfully |
| Tray agent | `tray-agent/src/*` | connection, menu state | subscribe, reconnect, command | daemon restarts, a full daemon | it subscribes or says that it gave up |
| macOS shell | `shell-agent/*` | none | bridge, subscription | - | - |
| Entry points | `main.rs`, `bin/*` | none | argument parsing | - | - |

How they interact: handlers send to the manager through the bounded channel
`to_server`; the manager's reader task sends child output to the router through
the unbounded `server_events`; the router, the reaper and the handlers send to each
client's unbounded channel; the inspector puts probes into `to_server`, gets their
answers from the router and sends restart signals to the manager. All of them share
`MuxState` under one `tokio::sync::Mutex`; one `CancellationToken` ends them. Each of
them publishes snapshots into a watch channel (status file, tray) and events into a
broadcast channel (control socket). MCP clients reach a service socket through a
stdio proxy; tray, cockpit and shell subscribe at the control socket. The wizard
writes the configuration that daemons read and the client entries that start proxies.
The cockpit shares only files with the rest: run snapshots, markers, status files.
The hazards of this structure are listed, each at its line, in `PROJECT.json`.

## 2. Modules

| Module | Role |
|---|---|
| `MuxRuntime` | request path, router, reaper, and the manager's message flow, with a nondeterministic child |
| `ServerSupervisor` | manager life cycle, heartbeat inspector, status and shutdown |
| `RequestBroker`, `MuxRefinement` | the abstract promise of the request path, and the mapping under which `MuxRuntime` implements it |
| `StatusPublish` | publishing of snapshots and events, the status file |
| `ControlSocket` | control socket and its clients; extends `StatusPublish` |
| `StdioProxy` | both stdio proxies against the mux |
| `DaemonStart` | configuration, command line, service sockets of several daemons |
| `Tables` | pure: inserting into a table, sorting and filtering a list |
| `HostConfig` | pure: scan, merge, generated files, rewritten files |
| `Wizard` | the wizard's steps and writes, rewire and scan subcommands; extends `HostConfig` |
| `RunBoard` | pure: classification, order, filters and actions of the cockpit |
| `Cockpit` | the cockpit's state, keys and loop; extends `RunBoard` |
| `Launch` | a command in the foreground of the cockpit and its readiness probe |
| `MCMuxRuntime`, `MCServerSupervisor`, `MCControl`, `MCWizard`, `MCCockpit` | instances for TLC: idle steps, symmetry, inputs, scenes |
| `MuxRuntimeProofs` | type correctness and bookkeeping of `MuxRuntime` |
| `MuxReplyProofs` | one owner, at most one reply, no request dropped, responses match requests |
| `MuxFlowProofs` | handshake and order of calls, restarts, the refinement |
| `ServerSupervisorProofs` | types, status and restart invariants |
| `ControlProofs` | publishing and control socket, proxies, daemons; the instance of `MCControl` |
| `TablesProofs` | lemmas: what the operators of `Tables` return |
| `WizardProofs` | backups, plans and generated files of the wizard |
| `CockpitProofs` | board, selection and archive of the cockpit; launches |

### MuxRuntime

One action is one critical section of the Mutex, or one channel operation between
two sections; tasks interleave between actions as Tokio may interleave them.
Locals that live across sections are variables: `out` (the message a handler is
about to send), `work` (the calls a handler is forwarding), `held` and `resp` (the
request and response in the router's hands), `expired` (the reaper's), `mheld` (the
message the manager took from the queue). `pc`, `rpc` and `mpc` say between which
sections a task is. The Mutex itself needs no variable, because every section is
one step - except in `MaxRestartsReached`, where the code awaits
`publish_status` with the guard alive; from then on (`mpc = "stuck"`) the lock is
never free, and `LockFree` guards every section.

- A handler: `Connect`, then `ReadTooLarge`, `ReadInitialize`, `ReadCall`,
  `ReadNote` or `ReadInitialized` for a frame; `BufferMessage`, `Forward`,
  `SendToServer`, `Announce`, `CompleteHandshake` for the sections that follow;
  `Disconnect`, `HandshakeTimeout`, `DecodeError` and `Cleanup` for its end.
  `WriterFails` is the client's writer task, which unregisters the client while
  the handler still runs.
- The router: `RouteReset`, `RouteNotification`, and a response in up to three
  sections, `RouteResponse`, `RouteCache`, `RouteReply`.
- The reaper: `ReapExpire` takes any nonempty set of pending requests (time is
  abstract, so a request may be overdue at any moment), `ReapReply` answers them.
- The manager: `LazyReceive`, `Spawn`, `SpawnFails`, `WriteFirst`,
  `ReceiveForChild`, `Write`, `ExitNoticed`, `HeartbeatRestart`, then `SendReset`
  and `ClearCache`; `MaxRestartsReached` at the limit.
- The child answers what it was sent in any order, more than once if it likes,
  never, or dies. Its reader task may still deliver output after the Reset,
  because an aborted task runs on to its next await.
- A live child may also stop reading (`StdinJams`): then `WriteFirst` and `Write` wait,
  and with them everything else the manager would do. And its reader task may end on
  a frame that does not decode or at the end of the output (`ReaderEnds`), which
  nobody is told of.

Data are abstracted: a request is its client and its local id, a response is
the request it answers, an error the mux makes up is the empty set. The history
variables `asked` and `answers` record what each client asked and what its
channel was sent.

### ServerSupervisor

The manager's loop with the status and the pid it writes to `MuxState` (`LoopTop`
to `Sleep`), one action per arm of its select, and the inspector's loop (`Tick` to
`InspectorStops`). The select of the inspector is the reason for its shape: the tick
arm awaits the probe's oneshot *inside* the arm, so `HeartbeatEvent`, the other
arm, is enabled only between two probes. `RouteReset` handles a Reset at any later
time, and then clears the pid whichever child it belongs to. A message is received
(`ReceiveProbe`) and then written inside the arm (`WriteProbe`): to a hung child whose
pipe is full (`PipeFills`, health "deaf") the write waits, and no other arm is polled
until that child dies. Only probes are in `toServer`; that clients' messages fill the pipe
is part of `PipeFills`. A backoff ends; how long it is, is not modelled. The history
variable `followed` counts the restart requests the manager has followed.

Two restrictions in both modules: the published snapshots are in `StatusPublish`
(nothing in these two reads them), and a child that was given up is treated as gone
although the code does not kill it.

### RequestBroker and MuxRefinement

What a client may rely on, in 50 lines: members come and go and ask; a request gets
one answer or none, while its client is a member; the answer is an error, the
response to this call or, for an initialize, to some initialize; it never changes.
`MuxRefinement` instantiates it with `members <- clients` and the history variables
`asked` and `answers`; handshakes, tables, tasks, the child and its restarts are
hidden. `BrokerPromise` is the abstract specification as a property: every section
of every task is a step of the broker or none.

### StatusPublish and ControlSocket

`publish_status` is two steps: under the Mutex it takes the snapshot and sends the
event (`Snapshot`), after it the snapshot goes into the watch channel (`Send`). A
snapshot is the number of the state it was taken of. The file writer takes the
watched value (`WriterTakes`), writes a temporary file and renames it; either may fail.

Each service of a daemon runs `run_server` on the same path in three steps,
`CheckPath`, `RemovePath`, `Bind`. A connection goes from the backlog through
`Accept` (with a permit, or dropped) and `HandleCommand` to an answer or, for
subscribers, to `SubscribeRx` and then `RecvEvent`, `RecvLagged` or `ReadEof`. The
clients are the tray (`Connect`, `ConnectFails`, `SeeClose`, attempts up to a limit,
Quit), the cockpit, whose write half is dropped at once ("half closed"), the shell,
and one-shot menu commands. `Crash` ends the daemon and starts another; the path and
the status file stay.

### StdioProxy

`frames` is `run_proxy` of `runtime/proxy.rs`: it counts requests and ends when stdin
is closed and nothing is pending, which it notices only when a message arrives.
`bytes` is `rust-mux-proxy`, two copies and a half-close. The mux is the part of
`handle_client` a proxy sees: it reads, answers in any order, notifies, refuses what
is too large (with a null id when there is none), broadcasts what the server sends
unasked, responses with a null id among it, and drops a client at the end of its input.
A frame that does not decode ("garbled") ends stdin for the counting proxy; the byte proxy
passes it on, and the mux then reads no more of the client while its writer task keeps
the other direction open (`MuxDecodeError`, mux "deaf").

### DaemonStart

`load_config`, `resolve_params`, `resolve_params_multi` and the choice of mode in
`async_main` are operators on a command line and a file; settings that are resolved
alike are one field (`limit`: command line, file, default; `clients`: file, then
command line; `cwd`: file only). A daemon then has one task per service, which
removes its path (`ClearPath`), binds it (`BindPath`) and removes it again when the
daemon stops (`UnlinkPath`). `Kill` leaves the paths behind. `contested` records the
paths that two tasks used at one time.

### Tables

Sorting and filtering are defined by rank: the k-th member of a sorted list is the one
with k - 1 members before it. A fold over a set or a list says the same to TLC, but what
a fold computes can only be proved by induction over data; a rank can be reasoned about
by cardinalities.

### HostConfig and Wizard

A client file is a set of sections, a section a table of entries, an entry a program
or the proxy for a socket, or something that is no server. `merge_services` folds
over the names in their order, and renames variants; `build_daemon_config`,
`build_client`, `build_per_client_outputs`, `rewrite_keep_others` and `rewire_host`
are the generated and rewritten tables. The wizard's actions are its keys in steps
1 to 5 (on any row: cursors are left out), the three strategies behind Confirm
(`run_unified_generate`, `run_per_client_generate`, `run_danger_auto_configure`), one
action per file written, with failure and crash, and the start of the tray daemon. The
auto-rewire scans the ticked sources (`run_danger_auto_configure`), reads each file a
second time to plan its rewrite (`push_rewrite_action`), prompts (`Prompt`), and then
copies and writes file by file; a copy or a write that fails or is killed may leave a part
of the backup or a truncated client file (`CutShort`).
Beside it, owners edit their files (`EditFile`), and `rust-mux rewire` and `scan` run.
`owned` is what an owner last left in a file; `unguarded` are the files for which the
code promises no backup of it.

### RunBoard, Cockpit and Launch

`RunBoard` computes the board from the files: `classify_run`, the order of
`compare_runs`, archive markers, filters, mux summaries, prisms and the deep actions
of the Controls tab. A run id is its place in the string order and a marker name a
number, so that two ids may share one. `Cockpit` has the state of `App`; each key is
an action, keys that refresh include the refresh, and a refresh may lose a file
between listing and reading it, which empties the board. `Tick` is a turn of the loop
with a refresh. `CrashInArchive` cuts a marker short. Other programs write and remove
runs, status files and prisms. The history variable `archived` has every run that was
ever archived; `Displaced` says that its marker is now another's. `Launch` is
`suspend_and_run` with `wait_for_interactive_launch`: suspend, probe, inspect, give up,
collect, restore, against a process, a session and an inherited stderr pipe that come and
go on their own. Its early returns are kept: the terminal that cannot be given up or taken
back, the child that cannot be inspected and is left running, the wait that fails.

## 3. Model checking

`tlc -config <cfg> <module>`; `PROJECT.json` names module and configuration of
each run.

| Run | Instance | Checks | Result |
|---|---|---|---|
| `requests` | 2 clients, 2 messages each, pending limit 2, queue of 1, disconnects; requests and handshakes only (`Sharing`), 1 notification of the child; symmetric in the clients | `TypeOK`, `OneOwner`, `NoCrossTalk`, `HandshakeFirst`, `BrokerPromise` | holds, 1.05 million states |
| `restarts` | 1 client, 3 messages, up to 3 children, duplicated responses, exits, failed writes and spawns, heartbeat restarts, output no longer read, restart limit 2 | `AtMostOneReply`, `RequestAccounted`, `LostIsReset`, `CachedFresh`, `CallOrder` | holds, 6.4 million states |
| `settles` | 1 client, 4 messages (`Handshaking`), exits, failed spawns, undecodable frames, a child that stops reading, lazy start, pending limit 1, queue of 1, fairness | `RequestSettles` | holds, 201 thousand states |
| `lifecycle` | 3 probes, 2 failures for a restart, hangs, full pipes, exits, failed spawns, shutdown, fairness | `TypeOK`, `StatusAgrees`, `RestartNeedsFailures`, `HungRestarted`, `ExitRecovered`, `ShutdownCompletes` | holds, 264 thousand states |
| `maxrestarts` | restart limit 1, fairness | `ForwardedSettles` | violated, finding 1 |
| `initonce` | 2 clients, 1 message each | `InitializeOnce` | violated, finding 2 |
| `childhandshake` | 1 client, 1 exit | `ChildHandshakeFirst` | violated, finding 3 |
| `heartbeat` | no faults | `FailuresGenuine` | violated, finding 4 |
| `cockpit` | 2 runs that share a marker name, 1 service, 1 prism, 1 skill, 1 change from outside, clock 0..1; every command in the foreground; fairness | `TypeOK`, `SelectionInRange`, `ArchiveExact`, `BoardCatchesUp`; `LaunchReportTrue`, `UnseenLaunchReturns` | holds, 81 thousand states |
| `hosts` | 3 client files of three schemas, two of them at a time, a conflicting name, entries that are no servers, one with the name of a server, 2 wizard runs, 1 outside change | `WizardTypeOK`, `Restorable`, `DangerDiscipline`, `PlanTouchesOnlyTicked`, `TickedServed` | holds, 2.2 million states |
| `perclient` | the same files, up to three at a time, 1 wizard run | `PerClientReachable` | violated, finding 5 |
| `control` | 2 tasks and 2 versions; 2 services; tray, cockpit and menu with 1 permit and a channel of 1; both proxies with 2 requests; 2 daemons, 5 command lines, 4 files; fairness | `TypeOK`, `FileFresh`, `EventsInOrder`, `ControlReachable`, `TrayCatchesUp`, `TraySettles`, `MenuSettles`; `RepliesBeforeExit`, `ProxyEnds`; `ServiceReachable`, `ConfiguredReached` | holds, 176 thousand states |

**Properties.** `OneOwner`: a request is in one place at a time (work, buffer,
pending, router, reaper, waiting list, answered). `AtMostOneReply` and
`RequestAccounted`: never two answers, and never none with nobody left to give it.
`NoCrossTalk`: a call is answered with its own response, an initialize with the
response to an initialize. `LostIsReset`: a pending request whose message is lost is
about to be failed by a Reset, unless the spawn failed or the output of a live child is
no longer read; those are left to the timeout. `CachedFresh`: an
initialize response of a dead child is in the cache only while the Reset that clears
it is queued. `HandshakeFirst` and `CallOrder`: calls follow the client's handshake
and keep their order through the handshake buffer. `RequestSettles`: every request
is answered or its client is gone, in the end; or the manager is blocked for ever by a
child that does not read, the queue is full, and the request is still in the hands of the
handler that is to forward it. `StatusAgrees`: status and pid are those of the child the
manager holds, the pid possibly cleared by a late Reset. `RestartNeedsFailures`: restart
requests, waiting and followed, do not outnumber the probes that earned them.
`HungRestarted`, `ExitRecovered`, `ShutdownCompletes`: a hung or dead child is replaced and
shutdown ends both tasks; only a write blocked for ever on a full pipe keeps the first and
the last from it.

`FileFresh`: when nothing is in flight the status file has the current state, unless the
last write failed or a newer snapshot was overtaken on its way into the watch channel.
`EventsInOrder`: the broadcast channel does not have that problem. `ControlReachable`:
whoever wins the race for the control path, one service listens. `TrayCatchesUp`,
`TraySettles`, `MenuSettles`: a subscribed tray gets every event up to its lag; a tray
subscribes or gives up; a menu command ends even when subscribers hold every permit.
`RepliesBeforeExit`: when the counting proxy ends by itself, every request it read has
its response on stdout, unless it wrote a response with a null id. `ProxyEnds`: with
requests pending at the end of stdin, or with the mux gone, the counting proxy ends; the
byte proxy ends once stdin has, unless the mux has stopped reading after a frame that
did not decode. `ServiceReachable`: a service gets its socket and keeps it, whatever a
killed daemon left, unless two of them used the path at once. `ConfiguredReached`: at
the socket of an entry, when no other entry of the file has the same one, runs that
entry's command, and the command line selected the entry. `Restorable`: what the owner
last left in a client file is in it or in a timestamped backup. `DangerDiscipline`: a
rewrite gets to its prompt only outside of a dry run, for eligible sources that parsed
both times they were read. `PlanTouchesOnlyTicked`: it keeps every entry of every
section but those under the names of ticked servers, and what it replaces there is the
server that was found in that section; `MayReplace` has the two exceptions, a file
changed between the two reads and a non-server of `mcpServers` with the name of a server
found in `servers`. `TickedServed`: after a completed run of the unified strategy each
ticked service is reached through the socket its client entry names. `SelectionInRange`,
`BoardCatchesUp`: the selection is on the board, and the board agrees with the files in
the end. `ArchiveExact`: an archived run is off the board unless its marker was
displaced, and a run never archived counts as archived only if its id is the name of a
marker cut short. `LaunchReportTrue`: a launch is done only if it was seen and then
succeeded, a command is left running only if it could not be inspected, and the terminal
is left in the wrong mode only if the operator is told. `UnseenLaunchReturns`: a launch
that is never seen comes to an end, unless a process it left behind holds its stderr.

**Bounds.** Two clients are enough for one client's step to come between two sections of
another; every race with the router, the reaper or the manager needs one. Three messages
are an initialize, the notification that completes the handshake and a call, or two
buffered calls and the notification; the fourth of `settles` is needed to fill the
manager's hand, the queue and the handler's hand with a call left over. `Kinds` says
which messages a client may send in which place. A pending limit of 1 or 2 and a queue
of 1 are reached. Two children are enough for a stale event to meet a new child, three
for the restart limit of 2 to be reached; two copies of a response suffice because the
first already removes the id. Three probes with two failures leave one probe after the
first restart request. `Probing` in `HungRestarted` excuses a child that hangs when the
model, not the code, has no probe left. Two tasks and two versions are the least with
which one snapshot overtakes another, two services the least that race for a path, and
one permit and a channel of one are reached at once. Two requests let a response come
between two others; two daemons overlap in every way that matters, as a path has one
owner. In the wizard one name in two clients with different programs makes every
conflict rule fire; a second run in the same second meets the backups and outputs of the
first; one outside change falls between any two steps, also between two reads of one
plan. With two rows in step 1 one file is never listed twice in `hosts`; that case rests
on the theorem `OwnersContentKept`. In the cockpit one change is a run written or
removed, or a file lost under a load, between any two keys; two runs are enough for a
selection to be past the end and for two ids to share a marker.

**Scenes.** `MCCockpit` and `MCControl` put specifications that share no variable into
one run: a behaviour belongs to one scene and the others stand still. In `MCControl` the
scenes `publish`, `start` and `clients` are restrictions of the one `ControlSocket`
(two publishing tasks and the writer; all services starting; one service, one task and
all clients), so combinations of, say, a start race with a lagging subscriber are not
explored. The shell is a client of the model but not of the instance.

**Deadlock** is checked in the safety runs. An idle daemon is the explicit step
`Quiesced`, which requires every queue and table to be empty, so a task that waits
for ever is still found. `SelfDeadlocked` lets the safety runs go on past finding 1, and
`Stuck` the run `lifecycle` past a blocked write.
The two liveness runs of `MuxRuntime` switch the check off because their clients
may stop talking. The runs `cockpit`, `hosts`, `perclient` and `control` switch it off
because their programs end: the operator quits, the wizard has had its runs, the proxies
and daemons are over.

**Fairness.** Tokio polls every task that is ready, so handlers, router, reaper and
manager are weakly fair. The bounded channel serves waiting senders first in
first out, so a waiting `SendToServer` gets a place although others take the room
in between: strong fairness. The reaper runs on an interval and the handshake
check on a timer, hence `ReaperStep` and `HandshakeTimeout`. Nothing is assumed of
clients, of the child (it may never answer) or of failures. In the supervisor,
timeouts and sleeps end and the interval keeps ticking; of the child nothing is
assumed: a write to a child that does not read is not enabled, and need never be. In the
cockpit the tick comes, the waiting loop of a launch goes on and its
deadline passes; nothing is assumed of keys, files, the launched process or what holds
its pipe. Of the
control socket, the listeners, each connection's task, the notice of a closed stream and
the retries of tray and cockpit are weakly fair (all are Tokio tasks or sleeps that
end), the menu's user is not; the proxy and the mux it talks to go on, the client need
not. Publishing tasks and the writer need no fairness: their properties are safety.

Each property of a passing run has a mutant in `PROJECT.json`: a definition marked
`Faulty variant` in the module that a plausible slip would produce, and that TLC
refutes with the property.

## 4. Findings

1. **Restart limit deadlocks the daemon** (`runtime/server.rs:193`, run
   `maxrestarts`). The guard `st` is alive while `publish_status` locks the same
   Mutex. The default limit is 5. No request is failed or timed out afterwards.
2. **`initializing` is never set** (`runtime/client.rs:260`, run `initonce`). Two
   clients that initialize early both reach the server; the README promises one.
3. **A restarted child gets calls before any handshake** (`runtime/client.rs:177`,
   run `childhandshake`). `server_initialized` and the clients' handshakes outlive
   the child they describe.
4. **A heartbeat probe cannot succeed** (`runtime/heartbeat.rs:242`, run
   `heartbeat`). The arm that waits for the oneshot keeps the arm that fires it
   from running, so a healthy server is restarted after `max_failures` probes.
5. **Per-client files point at sockets nobody serves** (`mux_gen.rs:375`, run
   `perclient`). When two clients have different servers of one name, the daemon's merged
   configuration renames both and their sockets; each client's own file keeps the name.

Seen while modelling, without a run of their own. Where a property would fail because of
one of these, its formula names the exception:

- A failed read of the child's output ends the reader task and nothing else
  (`runtime/server.rs:244-251`): the child is kept, and its requests wait for their timeout.
  `mux-agent/README.md:294` says that a failed read restarts the child and sends errors.
  Exception of `LostIsReset`.
- The write to the child is awaited inside the arm of the select (`runtime/server.rs:276`).
  A child that hangs with a full pipe blocks its own restart and the shutdown of the
  manager, and requests that no handler can forward any more are not covered by the request
  timeout. Exceptions of `HungRestarted`, `ShutdownCompletes`, `RequestSettles`.
- The first backoff is slept uncapped (`runtime/server.rs:345`);
  `mux-agent/README.md:177` says that `restart_backoff_ms` is capped by
  `restart_backoff_max_ms`. Nothing checks that it is the smaller one.
- A mux that could not decode a frame leaves the socket open for writing and reads no more
  (`runtime/client.rs:100`): the byte proxy behind it never ends, and what its client has
  buffered is never answered. Exceptions of `ProxyEnds`, `RequestSettles`.
- The counting proxy does not shut its direction down when stdin ends, although
  `runtime/proxy.rs:20-23` says so; and a response with a null id, which the mux broadcasts
  (`runtime/server.rs:46`), counts as the answer to one of its requests (`proxy.rs:72`).
  Exception of `RepliesBeforeExit`.
- The rewrite of a client file goes by names (`danger.rs:496-525`). When `mcpServers` is there
  without a server in it, the scan finds the servers of `servers` and the rewrite updates
  `mcpServers`, where it replaces what has one of their names. `danger.rs:21-22` and
  `517-518` say that only discovered entries are replaced. What the owner puts under such a
  name between the scan and the second read is replaced too. Exceptions of
  `PlanTouchesOnlyTicked`.
- A failed `fs::write` may leave a client file truncated (`danger.rs:455`), with the backup
  beside it; `execute_plan` goes on with the next file.
- Two run ids may have one marker name: archiving the second brings the first back to the
  board (`tui-agent/src/app.rs:1146`). Exception of `ArchiveExact`.
- A launched command that ends early is collected with `wait_with_output`
  (`tui-agent/src/lib.rs:565`), which a process that inherited its stderr holds up for ever:
  what the comment at `lib.rs:611` avoids on the other path. Exception of
  `UnseenLaunchReturns`. When `try_wait` fails the command is left running (`lib.rs:587`), when
  the terminal cannot be given up it is not taken back (`lib.rs:497-500`), and a session
  that comes up after the last probe is reported as not appeared.
- Two snapshots may enter the watch channel in the wrong order (`state.rs:310`); the
  status file then shows the older state until the next change. `FileFresh` excuses it.
- A lagging subscriber is not told: its arm of the select is disabled for good
  (`ipc/server.rs:138`).
- The cockpit's subscriber drops the write half, so the daemon ends its subscription
  at once and the cockpit reconnects without a pause (`tui-agent/src/mux.rs:722`).
- All services of a daemon share one control path: only the last to bind is reached.
- A second daemon takes over the sockets of the first, and the first removes the
  second's when it stops (`runtime/mod.rs:212` and `407`).
- `--service` is looked at before `--only` and `--except`, which then have no effect
  (`bin/rust-mux.rs:247`).
- `run_mux_multi` documents a status listener (`lib.rs:499`), which nothing starts.
- `resolve_params` prefers the file to the command line for `max_active_clients` and
  `log_level`; `docs/dev/guidelines.md:549` says that the command line wins.
- `restart_single` sends `mux/restart`, which the mux knows as any other request
  (`lib.rs:624`): it is held back until a handshake that never comes, and the command
  ends with the handshake timeout.
- The byte proxy half-closes at the end of stdin, at which the mux drops the client with
  what it is still owed (`bin/rust-mux-proxy.rs:31`).
- The counting proxy, with stdin closed and nothing pending, waits for one more message
  (`runtime/proxy.rs:81`).
- The tray's attempts are never reset (`ipc_client.rs:70`: the stream always ends in an
  error), and `Unimplemented` is told as "Restart request sent" (`handlers.rs:151`).
- `vibecrafted resume` carries `--session`, and its probe lists no such session: a resume
  that works is killed at the deadline (`tui-agent/src/launch.rs:163`).
- `rust-mux rewire` has one `.bak` file: the second rewire replaces the owner's
  original by a rewired file (`scan.rs:904`).
- A crash while an archive marker is written may hide the run whose id is the marker's
  file stem instead of the archived one (`tui-agent/src/state.rs:409`).

## 5. Proofs

`tlapm <module>`. Each theorem holds for every value of the constants that satisfies the
named assumptions of its module: any finite set of clients or publishing tasks, any
number of messages, restarts, services, daemons, files or runs. The assumptions give the
constants their types and say that a queue, a channel, the permits, the attempts and
`max_failures` are at least 1; that the marks for an empty and a stale path are no
names; and that the default sources of the wizard fit on its list. TLC evaluates them
on its instances.

| Theorem | States | Module |
|---|---|---|
| `TypeCorrect` | `Spec => []TypeOK` | `MuxRuntimeProofs` |
| `ReplyAtMostOnce` | `Spec => []AtMostOneReply` | `MuxReplyProofs` |
| `OwnedByOne` | `Spec => []OneOwner` | `MuxReplyProofs` |
| `NoRequestDropped` | `Spec => []RequestAccounted` | `MuxReplyProofs` |
| `ResponsesMatch` | `Spec => []NoCrossTalk` | `MuxReplyProofs` |
| `CallsWaitForHandshake` | `Spec => []HandshakeFirst` | `MuxFlowProofs` |
| `CallsKeepOrder` | `Spec => []CallOrder` | `MuxFlowProofs` |
| `LostRequestsReset` | `Spec => []LostIsReset` | `MuxFlowProofs` |
| `CacheNotStale` | `Spec => []CachedFresh` | `MuxFlowProofs` |
| `MuxImplementsBroker` | `Spec => BrokerPromise` | `MuxFlowProofs` |
| `SupervisorTypes` | `Spec => []TypeOK` | `ServerSupervisorProofs` |
| `StatusHonest` | `Spec => []StatusAgrees` | `ServerSupervisorProofs` |
| `RestartsEarned` | `Spec => []RestartNeedsFailures` | `ServerSupervisorProofs` |
| `ControlTypes`, `SocketTaken` | `ControlSpec => []ControlTypeOK`, `[]ControlReachable` | `ControlProofs` |
| `StatusFileFresh`, `EventsOrdered` | `ControlSpec => []FileFresh`, `[]EventsInOrder` | `ControlProofs` |
| `ProxyTyped`, `RepliesComplete` | `ProxySpec => []ProxyTypeOK`, `[]RepliesBeforeExit` | `ControlProofs` |
| `DaemonsTyped`, `ServicesReached`, `EntriesReached` | `DaemonSpec => []DaemonTypeOK`, `[]ServiceReachable`, `[]ConfiguredReached` | `ControlProofs` |
| `PartsOfTheInstance`, `InstanceTyped` | `MCSpec => ControlSpec /\ ProxySpec /\ DaemonSpec`, `MCSpec => []TypeOK` | `ControlProofs` |
| `WizardTyped`, `OwnersContentKept` | `WizardSpec => []WizardTypeOK`, `[]Restorable` | `WizardProofs` |
| `DangerDisciplined`, `OnlyTickedRewritten` | `WizardSpec => []DangerDiscipline`, `[]PlanTouchesOnlyTicked` | `WizardProofs` |
| `TickedReached` | `WizardSpec => []TickedServed` | `WizardProofs` |
| `CockpitTyped`, `RowSelected`, `ArchiveHidesExactly` | `Spec => []TypeOK`, `[]SelectionInRange`, `[]ArchiveExact` | `CockpitProofs` |
| `ReportsTrue` | `LaunchSpec => []LaunchReportTrue` | `CockpitProofs` |

`OwnerCorrect`, `AddressCorrect`, `RestartCorrect`, `SupervisorCorrect`, `ControlCorrect`,
`ProxyCorrect`, `DaemonCorrect`, `WizardCorrect` and `CockpitCorrect` are the inductive
invariants these follow from. None of the properties but the simplest is inductive as it
stands; what each needs:

*One reply.* `AtMostOneReply` alone is not inductive: nothing in it says that the
request about to be answered has no answer yet. `OneOwner` does, because a request
that some task holds is unanswered. It needs in turn that a new request is not
known anywhere (`NothingUnasked`, from the message counters of `Bookkeeping`) and
that a new global id is fresh (ids in the table are below `next_global_id`).
`OwnerInv` is their conjunction; the step proof looks at one request at a time
and has one case per action.

*Right reply.* `NoCrossTalk` needs every message between handler, child and router
to be `Genuine`: its id is below the counter, so no later request takes it, and while
that id is pending it stands for the request the message came from. `KindsAgree`
carries what a request asked through the tables, `AnswersGenuine` through the
router's locals and the cache. `StepTablesGrow` collects what every step
guarantees - the counter and `asked` only grow, a pending id is never given to
another request - so that old messages stay genuine.

*Handshake and order.* A call is on its way because a handler forwarded it, so
`HandshakeFirst` needs `CallsReady`: a registered client whose handler is about to forward
has completed its handshake. That stays true because a client is registered once and can
only leave (`RegistryStep`). `CallOrder` needs that a new id is larger than all
pending ones, that what a handler has yet to forward was sent later than what is pending
(`CallsAhead`), and that nothing is buffered after the handshake (`BufferOpen`).

*Restarts.* The cache may be filled from a dead child only while the Reset is queued.
`StaleForgotten` says what holds once it is not: nothing the child still says matches a
pending request, and neither the router's hand nor the cache has an initialize of it. Ids
tell output of an old child from that of a new one, hence `IdsPositive` and `GensBounded`;
`OneMessageEach` says that no task overwrites a message it holds, so that a lost one is
lost in a step that leads to a Reset.

*Refinement.* The initial states map to the broker's. Each action is one `Ask`, `Answer`
or `ComeAndGo` of `RequestBroker`, or changes none of its variables. The answers come from
`OneOwner` (the request has none yet), `RequestAccounted`'s tables (its client is a
member) and `NoCrossTalk`'s invariant (it may get this response); `OneCached` says that a
cached response is the answer to one request.

*Supervisor.* `StatusAgrees` is inductive with `TypeOK`; `RestartNeedsFailures` needs
`ProbeCount`, which bounds the failures by the probes that ended and leaves one probe for
the request that the probe in flight may lead to.

*Publishing and control socket.* `EventsBehind` and `SnapshotsBehind` say where the
newest state is while it is not in the channel: with a task that has yet to publish
or to send it. `EventsCounted` bounds the length of the log; `WriterFollows` ties the file
to the watched value. `PathHeld` is the race for the path: someone listens, or someone is
still on the way to bind it, and a stale file is gone before the first bind.
`PermitsHeld` counts the connections of a listener.

*Proxies.* `InOnePlace`: a request is in one of the two pipes, with the mux, or answered.
`PendingCovers`: the counter is at least the number of requests read and not yet answered
on stdout, wherever they or their responses are, so that at zero there are none. This is
where the exception of `RepliesBeforeExit` comes from: a response with a null id takes one
off the counter.

*Daemons.* `OneUser`: a path that is not contested has one task at a time, hence
`PathKept`: what that task cleared stays free and what it bound stays its own.
`Listeners` and `StartedWith` lead from the listener at a path to what its daemon read.
The proof of `ConfiguredReached` follows `resolve_params_multi` through both modes.

*Instance.* `MCControl` gives the specifications scenes. `PartsOfTheInstance` shows that
every behaviour of the instance is one of each part, so that leaving out combinations
of scenes (section 3) leaves no gap in what is proved.

*Wizard.* `BackedUp` is the state between copy and write: what the owner left is in a
backup before its file is overwritten. `ScannedTypes` carries from the scan to the
second read that a server was found in its section and runs a ticked program;
`PlanTouchesOnlyTicked` is then shown for each rewrite as it is planned.
`UnifiedWritten` follows the three files of the unified strategy as they are written.
The lemmas of `TablesProofs` say that a filtered list of sources is a list and that its
rows are rows of the original.

*Cockpit.* `MarkersKnown` ties each marker to the archived run it hides or to the crash
that cut it short, and each archived run to a marker under its name, which is what
leaves `Displaced` as the only way back to the board; with `NoneHidden` archiving is
exact. That a board is a list of rows rests on `InOrderMembers`: under a strict total
order, sorting by rank returns every member once, in order. `compare_runs` is shown to
be one, whatever the timestamps.

Only model-checked: liveness (`RequestSettles`, `HungRestarted`, `ExitRecovered`,
`ShutdownCompletes`, `BoardCatchesUp`, `UnseenLaunchReturns`, `TrayCatchesUp`,
`TraySettles`, `MenuSettles`, `ProxyEnds`), because fairness and `ENABLED` are beyond the
prover; and, of course, the violations of section 4. What `merge_services` computes is
not proved either: it folds over the names, which takes induction over data. No
property needs it, as the theorems hold for whatever rows the merge returns.

## 6. Not modelled

- Wall-clock time: every timer may fire whenever it is armed, and a backoff has no length.
  Windows of the cockpit's classification are kept, as numbers.
- A section of a client file that is not a table, which rewrites would replace.
- JSON, TOML, YAML and framing; the vetting of paths; discovery of configuration
  directories; the wording of messages and logs.
- Metrics, queue depth, response times of the heartbeat.
- Drawing: the mux dashboards (`tray.rs`, `tray_dashboard.rs`, `multi_tui.rs` with
  `multi.rs`), the wizard's and the cockpit's screens, the tray's menu labels.
- The fields of the cockpit's Dispatch tab and the command lines built from them, its
  settings file, the comparison behind the drift check.
- The wizard's non-interactive run and health checks, the `status` and `health`
  commands, argument parsing, `main.rs`, the builder of the library API.
- The daemon-wide status socket: no binary registers a service with it.
- The Swift application and the generated bindings of the macOS shell.

## 7. Plan

All safety properties that the runs check are proved, and so is the refinement. What
could follow:

1. Theorems behind the findings: `ChildHandshakeFirst` and `InitializeOnce` until the
   first restart or for a single client, and that no probe of `ServerSupervisor` ever
   succeeds (finding 4), which is an invariant.
2. Action properties: an answer given stays, a generation only grows, a backup is never
   overwritten, an archived run is not restored by the cockpit itself.
3. An abstract specification of the life cycle of the child (down, starting, up,
   restarting) that `ServerSupervisor` implements.
4. More about the pure operators: that `ensure_unique` returns a free name, and that
   the deep actions of the cockpit name what is on its board.
