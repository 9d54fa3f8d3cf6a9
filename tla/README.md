# Recordlab_host: a TLA+ development

Specifications of the concurrent core of `recordlab_host_app`, model-checked with
TLC and, where it matters most, proved with TLAPS. Paths below are relative to the
repository (`src/bus/host_message_bus.cpp`); the modules are in this directory.

- [1. The system](#1-the-system)
- [2. Plan](#2-plan)
- [3. Modules and how they correspond to the code](#3-modules-and-how-they-correspond-to-the-code)
- [4. Runs](#4-runs)
- [5. Proofs](#5-proofs)
- [6. What the checks found](#6-what-the-checks-found)
- [7. What is not modelled](#7-what-is-not-modelled)

## 1. The system

The host is one Qt process that operates recording devices. Devices are driven by
*nodes* (separate processes, local or remote) that the host reaches over ZeroMQ;
procedures are Python *scripts*, child processes that speak a line protocol on
stdout and stdin. Inside the host everything talks through one `HostMessageBus`.

### Inventory

| Component | State it keeps | Operations | Interacts with |
|---|---|---|---|
| **HostMessageBus** `src/bus` | a queue per target, subscriptions by pattern, one mutex, one condition variable | `publish`, `waitFor`, `drainFor`, `subscribe`, `registerConsumer` | every thread of the host |
| **Watchdog** `src/lifecycle` | active and monitored agents (mutex), health state, failure count and six flags (atomics) | worker loop: check, `init_device`, `reboot_device`, `start_device`, estop, stop of a script; calls from the UI: `setActiveAgent`, `setMonitoredAgents`, `clearActiveAgent`, `estop`, `start`, `stop` | requests to AgentManager and answers over the bus; control messages from ScriptsActuator; calls from MainWindow on the UI thread |
| **AgentManager, AgentProxy, EchoActionClient** `src/agents`, `src/communication` | active agent, proxies with their process and client, a second and third set of clients for the health and the priority lane | three worker threads (normal, health, priority): activate, command, local script, release inactive agents, shut down | requests from UI, Watchdog and scripts; action servers of the nodes; node processes |
| **ScriptsActuator** `src/scripts` | the QProcess and its output buffer, script id, stop flag, required agents, last workflow, kill timers | run, stop (SIGTERM, SIGKILL after 25 s), protocol lines, answers to the script's stdin, process signals, destructor | UI, AgentManager and Watchdog over the bus; the script's pipes |
| **MainWindow** `src/ui/main_window.cpp` | active agent, whether a script runs and was stopped by the user, agents of the script to be monitored, open dialog, summary request, cookies | drains the UI queue on a timer; choosing an agent, running and stopping scripts, dialogs, notices, shutdown | everything: owner of the other components |
| **DataRegistryServer** `src/data` | `streams_` by node, topic and port | register, unregister and list requests of nodes on its thread; `registerStatic` from the UI thread | publishes `data.registered` and `data.unregistered` |
| **DataReceiver, SensorQueue, EchoTopicSubscriber** `src/data`, `src/communication` | subscribers by stream, parser and statistics by topic, names by topic, cookies; latest values and curves | register and unregister a stream, unsubscribe all; `onTopicData` on each subscriber's thread | called by MainWindow; publishes `topic_data` and `node_cookies` |
| **ProcessHandle** `src/common` | pid, metadata and callback of the output, two reader threads | spawn, terminate, wait, kill what an earlier host left | AgentProxy; the process group and its pipes; `/proc` |
| **CameraSharedMemoryReader and the camera previews** `src/data`, `src/ui` | mapping and layout; per view the last number, the pending message, the time of the last picture | read the latest frame; handle a message, a timer, a reset, a change of tab | a camera node's shared memory; MainWindow |
| **VirtualNodeConfigManager, VirtualNodesPage** `src/common`, `src/ui` | the virtual UR configuration, the effective configuration file | toggle, change settings, rewrite the file | AgentManager, which parses the file at every request |
| AgentConfigLoader, RuntimeConfig | none | read configuration files | AgentManager, MainWindow |
| TopicParser, widgets, Logger, applications, scripts of `host_scripts` | see section 7 | | |

### What is hard

- *Interleavings.* Watchdog is reconfigured by the UI thread store by store while
  its worker reads the same atomics several times per iteration. AgentManager's
  lanes share maps of clients. The registry is changed by two threads.
- *Waiting and time-outs.* Watchdog and AgentManager wait for answers that may come
  late, when a similar request is already under way; results are matched by id.
- *Ordering.* Events are published after the lock under which the state changed,
  queues coalesce, a queue is drained and then handled, a modal dialog holds up
  the UI's queue while processes go on.
- *Partial failure.* A node can die, fail to start, not answer; a script can ignore
  SIGTERM or never start; one of several monitored agents can be lost.
- *Other processes.* A camera node overwrites the slot that is being copied; a
  helper of a node holds a pipe that the host waits on; the host itself may die and
  find its nodes still running.
- *Files.* The UI thread truncates and rewrites a file that other threads parse.
- *Left-over state.* Flags, required agents, workflows, timers and monitoring of one
  script or agent must not act on the next.
- *Stopping.* Each thread has to end although it may be in the middle of a wait.

The places where this bites, with their lines, are the `hazards` of `PROJECT.json`.

### What makes each component correct

| Component | Properties |
|---|---|
| HostMessageBus | no wake-up is lost; messages of a target are read in the order of publication, each at most once, the latest of each key; a waiting consumer gets a message |
| Watchdog | recovery attempts are bounded; HEALTHY and "started" need an initialisation; only an answer to the awaited command and agent counts; after an activation, an estop or a loss the machine starts over; estops are served; a lost agent stops the script; `stop()` returns |
| AgentManager | each request is answered once and truthfully; nothing launched is left behind; switching stops the old agent's process; releasing spares the active one; lanes do not block each other; a client outlives the call that uses it (it does not: section 6) |
| ScriptsActuator | started and finished pair up; the stop flag and the workflow shown are this script's; a stop halts this script's arms, all needed and no others; a stopped script ends |
| MainWindow | monitors exactly a checked script's agents and no longer than it runs; every question of a script is answered; a summary is shown where it belongs, one is asked for at a time, and polling goes on |
| VirtualNodeConfigManager | a proxy made from an old configuration is not used beyond the release that follows the change; the emergency stop's client may be (section 6) |
| ProcessHandle | output is passed on as its own process's, all of it; nothing runs that no handle holds; calls return (unless a helper holds a pipe: section 6) |
| Camera preview | pictures are whole frames unless the slot is being overwritten; an announced frame is fetched, and shown if it can be decoded; a view does not go back |
| Registry and receiver | subscriptions follow the registry's events (and the registry, if its events are published in order: section 6); a removed topic leaves no latest value and no subscribed name; a topic is served as long as it has a subscriber |

## 2. Plan

Order of work, the most important behaviour first. All items are done.

1. `HostMessageBus`, with `Mailbox` as the abstract specification of delivery.
2. `Watchdog`: worker, UI thread, late answers. Core module of the development.
3. `StopWorkflow`, `ScriptsActuator`: process, protocol, stop.
4. `ScriptSession`: the composition of `ScriptsActuator` with MainWindow, the user
   and a reduced Watchdog.
5. `AgentManager`, with `CommandService` as the abstract specification.
6. `DataReceiver`, and `DataRegistry`: its composition with the registry and the UI.
7. `AgentPages`: summary polling over changes of agent, and the effective
   configuration file, with the reads of AgentManager's lanes.
8. `ProcessHandle`: reaping, escalation, reader threads, death of the host.
9. `CameraPreview`: the ring of frames with its writer, and the way of an
   announcement through DataReceiver, bus and MainWindow to a view.

What could be added: the composition of `AgentManager` with `Watchdog` (requests with an
empty agent name) and with `ScriptSession`; and, from `HostMessageBusProofs`, that the queues
which the other modules take for given are those of the bus.

New questions are put to existing runs where an instance can answer
several: the number of runs is kept small, so that all of them finish in minutes.

## 3. Modules and how they correspond to the code

`PROJECT.json` maps every definition to its lines. In all modules one action is
what one thread does between two points at which another thread can interfere:
the end of a locked section, an atomic access that matters, a wait.

### HostMessageBus, Mailbox

`queues`, `subscriptions` are the members of the class. `publish` is the locked
part (copies for matching subscriptions, `pushMessage` with coalescing);
`notifyAll` comes after unlocking, as in the code. A consumer is idle, waiting on
the condition variable or woken; `waitFor` tests, `Block`s, `Resume`s or times
out; `drainFor` takes at most `MaxDrain` (256 in the code). Message bodies are
numbers of publication.

`Mailbox` is what users of the bus rely on: a set of unread messages per target,
in the order of publication, in which a keyed message supersedes older ones of its key.
`KeepsPromise` is the refinement, with the queues mapped to sets of messages.

### Watchdog

`pc` is where the worker is: top of the loop, dispatch on the state it read, one
request (`send`, `await`), `commit` of the next state, `sleep`. `todo` and `job` are
the locals of `doCheck` and of the request under way. The handlers between two
waits are one action: they only touch atomics that nobody else writes there, or
the model reads them at the point where the code does. A UI call is a mutex
section followed by `stores`, the sequence of single atomic stores that it has
still to do; `StoreNext` performs one, so that the worker can run between any two.
AgentManager is external: it `Reply`s to a pending request with any result, late
included; a request that timed out stays under way up to `MaxLate`. Request ids
are unique (`wd_<agent>_<cmd>_<ms>`: an iteration sleeps at least 100 ms, and a
command is sent once per iteration), so the model compares ids as numbers that are in use.
`Matches` is the test of `waitForResult`: the id, or no id and the command. Of what the
Watchdog sends only estops carry no id (`NoId`), and their answers come to the same queue;
`VerdictIsForRequest` says that none of them, and no late answer, passes for the awaited
one. Results of `stop_record` requests carry ids that nobody waits for and are left out.
Time is abstract: a wait can end at any moment.

`anew` is a history variable: an activation has ended while the worker had nothing in hand
(`Busy`), or an estop, a loss or a script's request has just sent the machine back, and no
`init_device` has decided since. `StartsAnew` is what is right of the state machine under
re-activation; an activation that ends while the worker is busy is the case of
`watchdog_switch`.

The code has an edge HEALTHY to ERROR, when a pending `start_device` fails
(`src/lifecycle/watchdog.cpp:405`), that the state machine of
`docs/各个模块作用及其范围.md:80` does not have; the model follows the code (section 6).

### ScriptsActuator, StopWorkflow, ScriptSession

`ScriptsActuator` is the object on the UI's event loop: its inbox on the bus, the
process (`proc` is QProcess's state, `alive` the operating system's), the
`pipe` of lines that are written and not read, kill timers, and what it has
published to the UI (`toUi`). Starting, failing to start, reading one line,
finishing (which reads the rest of the pipe), a stop, a kill timer and the destructor are
actions. One message or line per action: within one drain no other handler of
the event loop runs in between that could tell the difference. A line is one of
the kinds the protocol has; `RequiredSets` and `Workflows` are what scripts say.
A process that cannot be executed emits `errorOccurred`, to which nothing is
connected: `StartFails` changes nothing else, as in the code. The kill timer
captures no script: `KillFires` hits whichever runs.

`StopWorkflow` holds the pure functions that turn the last workflow into the one
shown while a script is being stopped and when it has stopped.

`ScriptSession` adds MainWindow: page, active agent, `script_running_`, pending
agents, the modal dialog, and `wd`, what Watchdog has been told (agents, for a
script or not, whether it has stopped the script). A dialog or notice opens a
nested event loop; Qt does not activate a timer again while its slot runs, so
MainWindow's queue waits until it is closed, while the actuator goes on.
Watchdog stops scripts and notifies at any time it monitors; AgentManager answers
activations at any time and in order.

Left out: log output and `SCRIPT_OUTPUT`, and the workflow "clear" message.

### AgentManager, CommandService

`queue` is the lane's queue on the bus, `stage` and `inHand` where the lane's
thread is with its request, `proxies`, `connected`, `clients`, `active` the
members, `node` the processes (or remote nodes), `goals` what has been sent to an
action server and not yet come back. What a lane does between two waits is one
action. INIT_DEVICE is a command like others; the UI's copy of a result is left
out. `Awaits` and `Callback` are the matching of a result with the pending call,
so that results after a time-out occur. A command that fails leaves the lane's
client in place, one that throws drops it (`CommandFails`, `CommandThrows`: the `catch`
branches). Releasing erases clients that another
lane may be using: the code's behaviour is then undefined, and the model lets it
crash or go on (`Pulled`). `ClientOutlivesCall`, which excludes that, is violated. `stop` clears `running_`; a lane leaves with requests
still queued, as in the code.

The code serves commands for agents other than the active one, by connecting
them; `docs/各个模块作用及其范围.md:96` says that it refuses them.
The model follows the code.

`CommandService` is the abstract view: a request may be carried out,
also after it failed for its sender, and is answered once; "success" only when it was.

### DataReceiver, DataRegistry

`topicStates`, `keysOf`, `snapshots`, `curves`, `names`, `cookies` are the maps of
`DataReceiver` and `SensorQueue`; `thread[k]` is where the thread of a stream's
subscriber is in `onTopicData`. Calls on the UI thread are split where the code
waits or unlocks (`step`): destroying a subscriber waits for its thread to have
left the callback, which is what the external `echo::Subscriber` is taken to do.
Settings stand for everything in a registration but its key, and tell apart the
cookie role. `DataRegistry` composes it with the registry's two writers, their
events (published after unlocking), the coalescing bus queue and MainWindow's
drain. `published` is a history variable, what the last event published of each stream says:
`FollowsEvents` compares the receiver with it, not with the registry itself, from which the
events can differ (section 6).
Streams may be registered by both writers, as the static topics of an agent are
(`src/ui/main_window.cpp:801`). A removal leaves curves and cookies where they are, as in the
code; `ForgetsRemoved` is about latest values and subscribed names. Its copies for the target `data_receiver` have no consumer in the host.

Left out: `subscribe()` (called by tests only), frequencies, `node_cookies` messages,
sockets that fail. What becomes of a sample on its way to the UI is in `CameraPreview`.

### AgentPages

`page`, `agent`, `summary`, `request` and `polling` are what MainWindow keeps of the agent
on its page; `activateAgent`, `HandleActivated`, `pollAgentSummary` and
`handleSummaryCmdResult` are the functions of those names or the branches of
`handleUIMessage`. A change of the virtual UR node takes three steps of the UI thread:
truncate, rewrite, publish the release (`writing`); between them other
threads read the file, and a reader that meets it truncated fails to parse it. The write is not
checked (`src/common/virtual_node_config_manager.cpp:140`): it may leave the file `Torn`, and
the release follows all the same. A
configuration is the number of its change. Of AgentManager there are the lane that
commands and activations share, which reads the file when it takes a request up and once more
when it connects (`Take`, `Reload`), and the priority lane for the UR node;
`proxies[a]` and `client` are the configurations they were made from.

`refused` and `restarted` are history variables that name the exceptions of
`SummaryIsOwn` and `OneOutstanding`: the last choice was answered with a failure; polling began
anew with something still unanswered. Both are reachable, and described in section 6.

### ProcessHandle

`step` is where the owner's thread is in `start`, `wait` or `terminate`: signal, wait,
SIGKILL, last wait, join the readers, spawn. `reader` and `tag` are the two threads and
their local `output_pid`; `metadata` is also the callback, which is replaced with it.
`leader` and `helper` are what the operating system knows of a process and of one that it
forked (same group, same pipes): running, asked (SIGTERM), killed (SIGKILL), zombie,
reaped. Helpers that leave the group are left out; so is output to a file.
`HostDies` is a crash of the host at any point: children are asked to end
(PR_SET_PDEATHSIG), and the next host begins with `Scan`, `EndWait`, `KillSurvivors`
(`killByCmdlinePattern`, called from `src/app/recordlab_host_app.cpp:32`).

### CameraPreview

The node is external and modelled from the layout the reader expects and the docs describe: it makes
an object (size, then header), and writes a frame by filling the slot and then raising
the slot's number. `Scan`, `Copy`, `Verify` are the steps of `readLatestFrame`, one slot
per step, so that the writer can come in between. `attach` notices that the name leads to another
object; `LayoutOf` is `loadLayout`. `Verify` uses up the number of a frame that was fetched whether
or not it can be decoded (`src/ui/sensor_workspace_widget.cpp:1151-1193`); `fetched` is a history
variable, the frame a view has fetched last, of which `shown` is the picture if there is one. `onTopicData` and `pushData` are the part of
DataReceiver that decides whether the UI hears of a sample; `HandleData`, `Timer`,
`ResetViews`, `SwitchTab` are the views'. The 41 ms and the rate limit are
choices. One camera of the two: their entries in every array are separate.

## 4. Runs

Each run's instance is the smallest in which the hazards it is for do happen; the
MC modules define the sets, the `.cfg` files the bounds. The two runs that show a violation
check one property each that a document or a comment states and the code does not
keep (section 6); the model in them is the same as in the other runs.

| Run | Shows | Instance and why it is enough |
|---|---|---|
| `watchdog_races` | `RecoveryBounded`, `HealthyNeedsInit`, `StartsAnew`, `VerdictIsForRequest` with every interleaving of one activation or clearing, or an estop, with a late answer, an estop's answer without an id and an ensure-device request | two agents, since what goes wrong is one agent's state used for another's; `kMaxInitRetries` = 2 as in the code |
| `watchdog_live` | `EstopServed`, `LossStopsScript`, `StopTerminates` under fairness | two monitored agents, one of which goes down or comes back, two calls |
| `watchdog_switch` | violation of `HealthyIsInitialised` | two activations |
| `bus` | `NoLostWakeUp`, `KeepsPromise`, `WaiterServed` | two consumers on the one condition variable and two publishers, one wildcard pattern, one key; three publications allow a message to be superseded and one to overtake |
| `session` | `LifecyclePaired`, `StopFlagHonest`, `EndsShownStopped`, `EstopOnlyOwn`, `StopReachesArm`, `MonitoringEnds`, `MonitorsCheckedScript` | the actuator within the session: a script that names the arm and one that does not, announcing the arm, or an agent with one that runs local scripts; two messages to run or stop, at any time, and the stop of the destructor, so that there are two scripts, or one with a stop before, during or after it; one activation. `ScriptProofs` has all seven for any number of messages |
| `session_live` | `AskAnswered`, `StopEndsScript` under fairness | a script that asks, one notice of Watchdog that blocks the queue |
| `agents` | `NothingLeft`, `KeepsPromise`, `SwitchStopsOld`, `ActiveSpared`, `EachLaneServes` | agents of every `process_type` and unknown names, any two requests on any lane with failures, exceptions, time-outs and late results, and a release after them |
| `agents_release` | violation of `ClientOutlivesCall` | the same instance |
| `data` | `ForgetsRemoved`, `ServedWhileSubscribed`, `FollowsEvents` | two streams of one topic and one of another, three requests and an activation, samples at any time; one stream is registered by its node and as a static topic |
| `process` | `OutputIsOwn`, `NothingLost`, `OnlyOwnRuns`, `CallsReturn` | two processes, so that one starts while another's output is read, each with a helper; both pipes, one line in each; one death of the host |
| `camera` | `WholeUnlessRacing`, `RequestServed`, `NeverBack` | two slots, four frames, so that the writer overtakes a reader; two runs of the node; both views, one change of tab or reset |
| `pages` | `SummaryIsOwn`, `OneOutstanding`, `ProxiesFollowConfig`, `PollAnswered` | three agents, one without a summary, and the UR node; four events (choices, changes, commands, stops, ends of scripts), which is what the longest exception needs; two polls |

`CHECK_DEADLOCK FALSE` stands in the runs of sessions, agents, data, process, camera
and pages: scripts end, requests, frames and events are bounded, the manager stops, the main
window closes, and (in `data`) the UI thread may wait for a subscriber that waits for
its lock (section 6). Watchdog and the bus are checked for deadlock: their worker, or a waiting
consumer, can always go on, or has come to its end.

The type invariants (`TypeOK`) are not listed with the runs: they are proved for all instances.

### Fairness

- *Watchdog*: `WF(Iterate)`, the worker thread is scheduled and its bounded waits
  end; `WF(StoreNext)`, a UI call that has begun ends; `WF(Wake)`, its sleep ends. Nothing
  is assumed of AgentManager's answers: a wait may always time out.
- *Bus*: a publisher that has unlocked notifies; a woken consumer runs. No fairness
  of time-outs: `WaiterServed` does not rest on them.
- *Session*: Qt's event loop delivers timers, readable pipes and process signals; SIGKILL
  ends a process; AgentManager answers (`KeepsPromise` and `EachLaneServes` of its
  own module); a user closes a dialog. Scripts are not fair: they may
  never write, end or obey SIGTERM.
- *AgentManager*: `EachLaneServes` states its own premise, for each lane alone: if the steps of
  that lane's thread are weakly fair, its requests are answered, whatever the others do.
- *ProcessHandle*: a call that has begun and the readers are scheduled, its time-outs pass,
  a process that was sent SIGKILL ends. Nothing is assumed of processes that
  were not, so that a helper may hold a pipe for ever, which `CallsReturn` excepts.
- *AgentPages*: the event loop handles its queue and ends what it has begun
  (`UiGoesOn`), both lanes go on (`LaneStep`, `StopStep`). Their waits for a node have
  time-outs; that the join of a node process's output thread ends too, which
  need not be so (section 6, `src/common/process_handle.cpp:371`), and that a file operation does, is an assumption. The poll timer is not fair: `PollAnswered` is about requests that were made.

## 5. Proofs

Proved with TLAPS for every value of the constants, from the named assumptions of
the modules only (`WatchdogAssumption` and its like). The listed theorems are in `PROJECT.json`; each proof module
states its invariant first. All invariants and action properties of the passing runs
are proved.

| Module | Theorems | Argument |
|---|---|---|
| `WatchdogProofs` | `TypeCorrect`, `Recovery`, `Health`, `VerdictsAreOwn`, `StartsOver` | `RecoveryBounded` and `HealthyNeedsInit` say nothing of what the worker has read or decided and not stored. `IInv` adds it: while a decision is pending (`dispatch`, `send`, `await`, `commit`) it is still covered by the failure count and by `initFor`, whichever of the UI's stores come in between. `IdsInv`: what carries the id that is waited for belongs to that request, and what carries none is an estop's. `AnewInv`: whatever the worker has in hand when the machine is sent back leads to INITIALIZING at most |
| `HostMessageBusProofs` | `NoWakeUpLost`, `TypeCorrect`, `PromiseKept`, `OneUnreadPerKey`, `NoReturn` | a consumer only sleeps after it found its queue empty under the lock, a publisher that filled it has still to notify (`WakeInv`). `PromiseKept` is the refinement of `Mailbox`: a queue is what is unread, in the order of publication (`BusInv`); what the loops of `pushMessage` and `publish` leave in a queue is shown by induction on their passes. The last two follow from the promise |
| `ScriptProofs` | `TypeCorrect`, `StopIsHonest`, `StopsOnlyOwnArms`, `StopsReachTheArm`, `StartsAndEndsPair`, `StoppedScriptsShowIt`; of the session `PromisesInSession`, `MonitoringHasAnEnd`, `MonitorsOnlyChecked` | the flag equals "this run was told to stop" only while the process runs, and finished messages must speak of past runs: `PastOnly`, `StopInv`, `ArmInv`. `LifeInv` adds to the pairing of starts and ends that a start which is the last of them is the present run's. Proved of each step of the actuator whatever others put into the queue, so that they hold alone and in the session. There, monitoring of a script is owed its end: the process runs, or its end is in the queue behind what began the monitoring (`EndOwed`) |
| `AgentManagerProofs` | `TypeCorrect`, `StopLeavesNothing`, `SwitchesCleanly`, `ActiveIsSpared`, `AnswersOnce` | `Fresh`: an id is in one queue or one hand and then has no answer; `ResultsTrue`: a result "ok" stands for a goal carried out; `NodesOwned`: a process belongs to a proxy. `AnswersOnce` is the refinement of `CommandService`, one lemma per kind of step |
| `AgentPagesProofs` | `OwnSummaries`, `OneRequest`, `ProxyFollows` | queue, lane and inbox are one `Line` of messages, to whose end MainWindow adds and from whose head it takes; the lane moves nothing in it (`Thinned`). `LineInv`: the last activation in it is that of the page's agent, and the request that is remembered stands behind every activation. `ProxyInv`: what the lane has loaded and not yet used is of the file's present content, until the file changes, and then a release is ahead |
| `DataRegistryProofs` | `TypeCorrect`, `Forgets`, `Serves`, `Follows` | who can still deliver a sample is a stream of its topic (`HeldInv`), since a subscriber leaves only when its thread is out of the callback; a topic has state exactly while it has streams (`StateInv`). `Follows`: the latest event of a stream that is still on its way says what was published last, wherever it has got to, and if none is on its way the receiver has it (`LatestInv`), also of streams that both threads register |
| `ProcessHandleProofs` | `TypeCorrect`, `OutputIsOwnAlways`, `OnlyOwnRunsAlways`, `NothingLostAlways` | `Control` ties the process held to the point the owner has reached; `Readers`: readers run for the process in `metadata` alone, so that it cannot change under them; `Output`: each pipe of this host is either being read or closed and empty |
| `CameraPreviewProofs` | `WholeFrames`, `AnnouncedFramesAreShown`, `ViewsNeverGoBack` | a seqlock with its first half missing: a slot holds the frame of its number or is being written (`SlotsFollow`), its number only grows, so that a number which is unchanged after the copy says that no frame was completed meanwhile (`CopyIsSeen`), not that none was begun. For the other two, a sample is followed from the wire to the view (`SamplesOrdered`, `Counts`, `Service`), and a read that fails late was overtaken by a whole turn of the ring, and so was its frame (`Overtaken`); what is shown is what was fetched or older (`ShownFollows`) |

Only model-checked: liveness, which is beyond the prover (fairness and `ENABLED`):
`EstopServed`, `LossStopsScript`, `StopTerminates`, `WaiterServed`, `AskAnswered`, `StopEndsScript`,
`EachLaneServes`, `CallsReturn`, `PollAnswered`.

The library's induction theorems take an operator as a parameter, which the provers cannot
instantiate. Where an induction is needed (the loops of the bus, the pairing of starts and ends,
recursive functions), it is one over a set of numbers: if it were not empty it would have a least element
(`LeastElement`), which contradicts the step. No module here uses RECURSIVE operators.

## 6. What the checks found

**A new agent inherits the old one's verdict** (`watchdog_switch`). `workerLoop`
stores `state_ = next` at `src/lifecycle/watchdog.cpp:171` although `setActiveAgent` has reset it
since the iteration began: the agent that was just activated is HEALTHY without an
initialisation. `HealthyNeedsInit` holds: *some* agent was initialised.

**A release takes a client from a call** (`agents_release`). `doReleaseInactiveAgents` runs on the
normal lane and erases, without a lock, clients that the health or the priority lane may be
inside of (`src/agents/agent_manager.cpp:654`), where `docs/学习记录.md:665` speaks of clients each
lane keeps for itself. The model lets the program crash or go on then.

Four more places where the code departs from what is written of it. The models have them, and
the checked properties say what holds in their presence.

- *Registry events in the wrong order.* Events are published after unlocking
  (`src/data/data_registry_server.cpp:76`). If a node and the host both register a stream, as they
  do with static topics, the two threads' events can be queued in the order opposite to their
  changes, coalescing keeps the wrong one, and the subscription differs from the registry, of whose
  changes `docs/各个模块作用及其范围.md:126` says that the receiver is told. `FollowsEvents` holds: the
  receiver has what was published last.
- *A call that does not return.* When a process obeys SIGTERM, `wait` joins the readers
  (`src/common/process_handle.cpp:371`) before `terminate` comes to SIGKILL. A helper in the group
  that has not ended keeps the pipe open, and the call waits for it without end;
  `docs/PLAN.md:195` and `566` say that SIGKILL follows and all children are ended.
  `CallsReturn` holds: there is no other reason for a call not to return.
- *Torn pictures.* The second look at the slot's number (`src/data/camera_shared_memory.cpp:216`)
  does not detect a writer that has begun to overwrite the slot and not yet raised its number;
  `docs/学习记录.md:440` says that it does. `WholeUnlessRacing` holds: there is no other way to a
  torn picture.
- *An edge that is not documented.* A `start_device` that fails takes the Watchdog from HEALTHY to
  ERROR (`src/lifecycle/watchdog.cpp:405`); `docs/各个模块作用及其范围.md:78-82` gives ERROR a failed
  `init_device` as its only cause.

Other behaviours that the models have. The properties either do not speak of them or
name them as exceptions.

AgentManager, data, scripts:

- `unregisterDataStream` (`src/data/data_receiver.cpp:156`) and `subscribeOne` (line 390) destroy a
  subscriber with `mutex_` held. If its thread is waiting for `mutex_` in
  `onTopicData`, and the destructor joins it, the UI thread waits for ever.
- Streams of one topic name share parser and settings: the last registration counts,
  also after its removal.
- The kill timer of a stopped script can kill the next script
  (`src/scripts/scripts_actuator.cpp:462`); an interpreter that cannot be executed ends a run
  without any message (line 434).
- A second AGENT_ACTIVATED takes script monitoring away for the rest of a script
  (`src/ui/main_window.cpp:796`).
- The Watchdog's STOP_SCRIPT names no script: if the script it is for ends by itself first, it
  stops the next, which then counts as stopped on request (`src/lifecycle/watchdog.cpp:575`).
- Curves and cookies of a removed topic stay (`src/data/sensor_queue.cpp:10-14`).
- A dead node's process is not launched again until another activation.

Agent pages:

- A release only drops the emergency stop's client of an agent that has a proxy. If the UR node has
  none, or its lane has read the old configuration and not yet made its client, emergency stops go
  on to the node of before (`src/agents/agent_manager.cpp:654`).
- Polling begins anew, and forgets the request that is outstanding, when an agent is
  activated and when a stopped script ends (`src/ui/main_window.cpp:816`, `861`). If the user
  chooses again before the last choice is answered, or a script is stopped, two requests are
  under way, where `docs/CONTRACTS.md:144` allows one. Late answers are ignored by id.
- The answer to an activation the user has already left makes MainWindow poll the
  agent he left, which AgentManager connects again for it. No summary comes out wrong, because
  the next answer corrects it.
- If the last choice fails, `active_agent_` may be an earlier agent while the page is
  the one chosen last; after a stopped script that agent is polled onto this page.
- Toggling the virtual node is refused while a script runs, changing its settings is not
  (`src/ui/main_window.cpp:1457`): the proxy of a running script is released.
- If the effective configuration cannot be written, `virtual_ur_config_` is already the
  new one, and neither the file nor a release follows. If it is written by half only, nobody
  notices (`src/common/virtual_node_config_manager.cpp:140`): requests fail to parse it until
  the next change.

Processes:

- A helper that ignores SIGTERM and holds no pipe survives a `terminate` that its process obeyed.
- The lines of a process that was reaped before its reader had looked at `pid_` carry no pid.

Camera:

- A whole frame that cannot be decoded uses up its number: the view keeps its old picture until the
  next frame. `RequestServed` leaves this case out (`fetched`).
- A reader that maps the object before its header is written takes it for the old layout
  (lines 155-161) and finds no frame until the object is replaced.
- A view whose number is from an earlier run of the node, because the reset was coalesced away or the
  other tab was on top, shows no frame until the new run's numbers have caught up with it. `RequestServed`
  leaves this case out (`lastOf`).

## 7. What is not modelled

- *Frequencies and the exact rate limit of DataReceiver*: numbers computed from time stamps;
  that a sample may or may not be passed on is a choice in `CameraPreview`.
- *AgentConfigLoader, RuntimeConfig, TopicParser*: functions of files and payloads.
  AgentManager takes the configuration as a constant, `AgentPages` models when it is read.
- *Widgets other than the camera previews*: presentation. The buttons a user can press are
  actions of `ScriptSession` and `AgentPages`.
- *Logger, command line tool, host_scripts*: no state that anything decides on.
- *third_party* (nodes, script runtime, echo_message_system): not in the repository;
  environment of the modules, marked external in the map.
