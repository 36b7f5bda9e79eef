# Verification of the Radeon Developer Panel

TLA+ models of the Radeon Developer Panel (RDP): the trace sources that sit
between the DevDriver router and the panel, the command line tool and the
capture API; the objects they share; the command line tool itself; and the
models behind the panel's windows.  TLC checks the models on small instances;
TLAPS proves the invariants of the concurrent parts for every value of the
constants.

Contents: 1 the system - 2 the models - 3 the runs - 4 the proofs - 5 what
disagrees - 6 assumptions - 7 what is not modelled - 8 plan.

Paths are relative to `source/` of the repository unless they start with `src/`.

## 1. The system

RDP talks to the Radeon driver of running applications through DevDriver: one
router connection, and one UMD connection per application and API.  DevDriver
calls back on threads of its own, one per connection; the user-interface thread
(or the CLI, or a program using the capture API) enables features and asks for
captures; timers, polling threads and capture threads do the work.

```
 panel (Qt)      CLI       application using RdpCaptureApi.h
    |             |                    |
 DevToolsModule   +---- CaptureContext, ClientManager, TraceSourceAdapter
    |                                  |
    +------------> trace sources (RGP, RRA, RMV, RGD) <------+
                   BaseTraceSource: client lists, status     |
                     |          |              |             |  connect / state /
             UbertraceClient  RMV client   legacy RGP        |  disconnect, per
                     |                                       |  connection thread
             UbertraceOrchestrator (one per connection)      |
                     |                                       |
   DeviceClocksManager, OverlayManager, SystemInfoCache      |
                     |                                       |
                  DevDriver (external) ----------------------+
```

### 1.1 Components

| Component (main file) | State | Operations | Interacts with | Hard part | What makes it correct |
|---|---|---|---|---|---|
| **UbertraceOrchestrator** (`trace/src/base_trace_source/ubertrace_client.cpp`) | state per user, capturing user, polling flag and thread, users connected, preliminary configuration | initialize, driver state, prepare, begin, abort, disconnect, poll | called by the RGP, RRA and RGD clients on several threads; owns a polling thread; calls the driver, the file writer and the client back | one mutex, several unlocked accesses, two joins | captures run in sequence, belong to the user that asked, end, and are reported once |
| **UbertraceClient, CancellableTimer** (`ubertrace_client.inl`, `cancellable_timer.cpp`) | delay timer | automatic and delayed captures, abort, disconnect | user interface, DevDriver thread, timer thread | timer racing abort and disconnect | a cancelled capture is never taken, no timer outlives its client, calls return |
| **BaseTraceSource** (`base_trace_source.inl`) | pending, live and unsupported clients; previous status; status queue | connect, initialize, disconnect, client state change, query, report | DevDriver threads, clients' threads, reporting thread, listeners, overlay | callbacks out of lists that change; queued statuses overtaken by queries | the last status shown is the current one; events form a chain |
| **CaptureContext, ClientManager, ClientConnectionManager** (`api/capture_context.cpp`, `api/client_manager.cpp`, `trace/src/client_connection_manager.cpp`) | enabled features, listening sources, driver features, current process and its connections | enable, disable, filter, connect, disconnect | application thread, DevDriver threads | features switched while connections come and go; steps that fail half way | the sources that hold a connection are those of the enabled features; nothing is left behind |
| **DeviceClocksManager** (`trace/src/device_clocks.cpp`, `api/api_clocks.cpp`) | GPUs, cached mode per GPU, forcing connections | force peak, restore, request mode, tell the overlay | capture threads, user, DevDriver threads, overlay | overlapping captures; a GPU that fails; unlocked reads | peak while anybody is profiled, the old mode afterwards |
| **OverlayManager** (`trace/src/overlay_manager.cpp`) | feature states and clock text, one queue and thread per connection, threads to join | update, flush at DEVICEINIT, disconnect, join | every trace source, clocks manager, driver | states held back until DEVICEINIT, clock text read when sent, threads that outlive their connection | what is drawn is in the end what was last reported; every thread is joined, in finite time |
| **RMV client** (`trace/src/rmv/rmv_trace_source_impl.cpp`) | client state, the driver's trace | begin at DEVICEINIT, dump, abort, disconnect | user, DevDriver thread | the user's dump, an abort and the disconnecting driver's dump, without a lock | one report per trace |
| **RGP legacy client** (`trace/src/rgp/rgp_legacy_trace_client.cpp`) | client state, capture thread, abort flag, timer | begin, abort, disconnect, active GPU | user, timer, DevDriver and polling threads | a flag reset by the thread it is meant to stop; a timer that outlives its client | no capture is reported aborted that nobody aborted |
| **RGD client, crash summaries** (`trace/src/rgd/*`, `modules/crashanalysis/*`) | crash detection, dump file, chunks, summary files, `work_mutex_` | disconnect, dump, generate summaries, open | DevDriver, completion and user-interface threads, an external tool | the application is crashing meanwhile; two threads writing the same summary | a crash has one report, and a reported dump all its parts; what is opened is whole |
| **Counters and SPM** (`trace/src/counters/*`) | default counters per architecture, GPA context, derived database, chunks of two file formats | query hardware counters, read a trace, build, append | capture and polling threads, GPA, the builder, RDF, the trace source's abort flag | indices into one table or two over an unordered map; steps that fail with the file open | the file of a complete profile reads back as the counters of its GPU |
| **What a source supports** (`rgp/`, `rra/`, `rgd/*_trace_source_impl.cpp`, `asic_info.cpp`) | supported APIs, disabled reason, client kind | router connected, support event | system information | tables of driver versions and GPUs, values left from the last router | what is offered fits this system, and a newer driver loses nothing |
| **Command line tool** (`cli/capture_cli.cpp`) | options, flags shared with callbacks, traces received, exit code | parse, configure, connect, wait, capture, save, clean up | capture API callbacks, Ctrl+C, applications, files | polling loops against callbacks; failures; an interrupt anywhere | success means saved; what is saved is what was asked for; it ends |
| **TraceSourceAdapter** (`api/trace_source_adapter.cpp`) | last status, connection map | trigger, abort, collect | status thread and application | unsynchronised data | the tool learns of the end of a trace |
| **Application and module lists** (`frontend/models/application_model.cpp`, `module_model.cpp`) | applications, processes, connections, module lock | filter, connect, disconnect, remove | DevDriver threads, GUI thread, modules | filter and connect are two calls | modules cannot change while an application is connected |
| **Blocklist** (`blocklist_model.cpp`, `api/api_blocklist.cpp`) | entries, settings file | add, rename, remove, upgrade, match | settings file, filter | defaults merged with an old file; wildcards | what the user removed stays removed; a pattern matches what it means |
| **Connection to the router** (`connection_model.cpp`, `connection_widget.cpp`) | state, type, thread, queued signals, buttons | connect, disconnect, lost, client timeout, shut down | GUI, connection and router threads | joins, a recursive mutex, signals overtaken by clicks | the buttons fit the connection; clicks return |
| **Modules, user data, presets** (`dev_tools_module.cpp`, `preset_model.cpp`, `base_userdata_view_model.h`) | enabled modules, user data, source configuration, presets, their file | enable, edit, load, save, relaunch, crash | driver, trace sources, file, application lock | loads that are refused or locked half way | exclusive modules stay apart, sources get what is shown, settings come back |
| **Single instance** (`named_mutex.cpp`, `single_application_instance.cpp`) | shared memory, named mutex | start, check, exit, crash | other processes | start-up races, what a crash leaves | one panel at a time |
| **Capture view models** (`trace_source_view_model.cpp`, `profiling_view_model.cpp`, `profiling_view.cpp`) | capture target and mode, defaults, delay timer, page | ask, delay, cancel, choose, status, completion | status, completion and GUI threads, trace source | statuses change target and mode under the user's hands; a timer that fires late | what begins is what was asked for and not cancelled |
| SystemInfoCache, service, registry tool, files and chunks, counters, serialisation, views | - | - | - | mostly data and user interface | see section 7 |

`PROJECT.json` lists all components with their sources, and under `hazards` the
places in the code that are hard to test, each at its line, with the properties
that would notice it going wrong.

### 1.2 Threads and locks that matter

* `UbertraceOrchestrator::user_state_mutex_` is recursive and is held over a
  whole begin, including the `join()` of the previous polling thread, and over
  `on_completed`.  `capturing_user_` and `should_poll_for_trace_` are atomics
  used outside it.
* `BaseTraceSource` takes `client_mutex_` (and with it `state_mutex_`) for each
  access to its lists and releases it between them.
* `ClientManager::connection_mutex_` is held by `EnableFeature` and
  `DisableFeature` from the check that no process is connected to their return.
* `DeviceClocksManager::gpus_mutex_` is held by `SetForcePeak` and
  `RequestMode`, and not by `OnDriverConnected`.
* `OverlayManager::state_mutex_` guards states and queues; a queue's thread sends
  to the driver outside it, and joins happen outside it.
* `BaseTraceSource::work_mutex_` lets one summary be written at a time, by the
  completion thread or the user-interface thread.  The completion thread calls
  the source's own listener first, so that the panel learns of a crash dump when
  its summaries have been written.
* `ConnectionModel::connection_mutex_` is recursive and taken in short sections,
  except by `SetDisableClientTimeout`, which joins `connection_thread_` under it.
* `ApplicationModel::connection_filter_mutex_` is recursive and held by the
  filter's answer and by the connect callback, not from one to the other.
* `ModuleModel::modules_locked_` is a plain `bool`, set on a DevDriver thread and
  read by the GUI thread while a preset loads.
* The command line tool shares atomics and `g_output_mutex` with the callbacks of
  the capture API; its main thread polls.

## 2. The models

An action is the code between two points where another thread can get in: a
whole function where a lock is held throughout, one step per unlocked access,
wait or join otherwise.  `PROJECT.json` maps every definition to its lines.

| Module | Models | Composes / implements |
|---|---|---|
| `CaptureSequence` | abstract: captures accepted, queued, taken and reported one at a time | - |
| `UbertraceOrchestrator` | the orchestrator with arbitrary callers | implements `CaptureSequence` |
| `UbertraceClient` | the orchestrator with its real callers: user interface, DevDriver thread, timers | extends and implements `UbertraceOrchestrator` |
| `BaseTraceSource` | client lists, status and its queue, overlay state | - |
| `CaptureContext` | features, connection managers, process filter | - |
| `DeviceClocks` | clock modes | - |
| `OverlayManager` | lines of the overlay, queues and their threads | - |
| `CommandLine` | the options of an automatic capture and what they mean | - |
| `CaptureCli` | a run of the command line tool with its callbacks and applications | extends `CommandLine` |
| `BlocklistModel` | the blocklist and its settings file | - |
| `ApplicationModel` | applications, connections and the lock on the modules | extends `BlocklistModel` |
| `ConnectionModel` | the panel's connection to a router and its buttons | - |
| `Support` | what sources and clients are given for a system | - |
| `Wildcard` | the matcher of blocklist entries, step by step, and what a pattern means | - |
| `RmvClient`, `RgpLegacyClient` | the two clients that use no UberTrace | - |
| `CrashAnalysis` | a crash from the driver's trace to the opened summary | - |
| `SingleInstance` | processes that agree on one instance | - |
| `ModuleSettings` | modules, their settings and presets | - |
| `FrontendModels` | the models that outlive a connection: applications and settings, side by side | extends `ApplicationModel`, instantiates `ModuleSettings` |
| `CapturePanel` | the profiling panel: target, mode, delay, cancel, page | - |
| `SpmCounters` | derived counters of a profile, from the query to the file, and what a reader finds in it | - |
| `Parts` | the ten parts that stand alone, side by side, and what is checked and proved of them | extends `CommandLine`, instantiates `Wildcard`, `Support`, `ConnectionModel`, `RmvClient`, `RgpLegacyClient`, `CrashAnalysis`, `SingleInstance`, `CapturePanel` and `SpmCounters` |
| `*Proofs` | the theorems of section 4 | extend their module; `UbertraceProofs` is about `UbertraceOrchestrator` and `UbertraceClient` |
| `MC*` | values for TLC | `MCParts` extends `FrontendModels` and `Parts` |

**UbertraceOrchestrator.** `userState`, `disabledUsers`, `capturingUser`,
`shouldPoll`, `initialized`, `prelim`, `postInit` are the members of the same
(or nearly the same) name; `poller` is the polling thread, its program counter
and its locals; `begin` is a `RequestBeginTrace` inside `join()`; `aborting`
says which of its three accesses an abort has done; `disc` is a `Disconnect`
under way; `session` is the driver's trace session; `peak` is what
`TracingStarted`/`TracingEnded` of the RGP client asked for; `requested` and
`completed` are history.  `Initialize` .. `DisconnectDone` follow the source in
order.  Outcomes of driver calls are nondeterministic.  An oddity the model
keeps: several errors are recorded for `kInvalidUbertraceUserId` (`NoUser`).

**UbertraceClient** adds the callers `ui`, `dd` and `timer[u]`.  `UiCalls` is a
user-interface thread that has found the client in its trace source;
`DdHandleDriverState` includes `BeginAutoCapture`; `DdCancelsTimer` and
`DdTimerJoined` are `Disconnect` up to the orchestrator; `TimerFires`,
`TimerCancelled`, `TimerBegins` and `TimerBeginFails` are the timer's thread.

**BaseTraceSource.** Lists of connections stand for `pending_clients_`,
`clients_` and `unsupported_clients_`.  A status is its stage, its process (the
connection that supplied it) and its usable connections.  `ChangeState`,
`FindFront`, `UpdateOverlay`, `UpdateAfterChange` are one
`OnClientStateChangeEvent`; `PopStatusEvent` and `DeliverStatus` the reporting
thread; `QueryStatus` the direct path to the listeners.

**CaptureContext.** `EnableFeature` is three steps (adapter enabled, configured,
driver feature set), since connection callbacks that need no lock run in
between; the thread of a connection is accepted by the filter, recorded by
`ClientManager`, and then tells the connection manager of each source.

**DeviceClocks.** `holder` and `at` say what the holder of `gpus_mutex_` does
and to which GPU; `reader` and `seen` are the unlocked reads of
`OnDriverConnected`; `wanted` is history, the mode each GPU has without any
force, and `raced` notes that a mode changed under a reader's hands.

**OverlayManager.** `startup`, `queues`, `queue`, `poll` are `startup_states_`,
`queues_` and the members of a queue's `State`; `phase` says how far the
callbacks of a connection have come.  A section under `state_mutex_` is one step.
A queue's thread pops an item, reads the clock text if it is the clocks' line,
and sends; it goes on after its connection has gone until it looks at `poll_`,
and is joined by the next connection or when the router goes.

**CaptureCli, CommandLine.** `CommandLine` turns the options of an automatic
capture into the configuration of the RGP client and that into the client's
triggers, in `uint32_t` (`UintRange`).  `CaptureCli` has the program counter of
`Run`, the flags its callbacks set, and the applications; `Main` is the main
thread, whose loops look at the flags in the source's order.  Deadlines pass at
any moment (`DeadlinePasses`), Ctrl+C comes at any moment, every call to the API
may fail (`Failures`), and a success may come without data ("empty"), which leaves
`trace_data_` as it is (`Succeed`).  `received` records the connections whose success
was taken in, `Nothing.conn` of one without data.

**MCParts** checks twelve parts that share no state in one run: a behaviour picks
one part at its start, and the others stay as they began, so the state space is
the sum of theirs, not the product.

* *ApplicationModel, BlocklistModel:* the filter lets a connection in (`LetIn`),
  then `OnDriverConnected` and `OnDriverDisconnected`, against the user's edits of
  applications, modules and blocklist; the settings file is read by a later version.
  `Overlap` and `LateEdits` say whether two connections may be between filter
  and connect at once, and whether an entry is renamed there.
* *CommandLine:* every automatic capture of section 3's sets, no steps.
* *Support:* routers come and go; what the three sources publish.
* *Wildcard:* one step per turn of the matcher's loop.  What a pattern means is
  said without a search: `Rests` gives, from the end of the pattern to its front,
  the set of positions of the name from where on the rest of the pattern accounts
  for the rest of the name.
* *ConnectionModel:* threads `gui`, `worker` and `router`; `signals` are the Qt
  signals queued for the GUI thread, `widget` the buttons.  A thread that emits
  after its unlock does so in a step of its own (`EmitSignals`), so that another
  may queue its signal first; `overtaken` records that `NetDisconnecting` was sent
  after the end of the router had been told.
* *RmvClient:* each call is split at its calls to the driver.  `raced` and
  `faulty` record that calls overlapped or the driver refused.
* *RgpLegacyClient:* threads `user`, `timer`, `capture` and `driver`; each look
  at and change of `state_` and `aborted_` is a step.  The counters are derived in
  the capture thread under the source's `abort_spm_processing_`, which another
  client of the source may reset (`OtherSpmBegins`); `ClientDestroyed` ends the
  client after its `Disconnect`, and with it a timer that is still armed, which
  reports an abort.  `asked` and `askedSpm` are history: an abort was requested.
* *CrashAnalysis:* the driver's thread in `RgdClient`, then the workers
  `completion` and `gui` in `QueueSummaryGenerationInternal`; `summary` says
  whether a file is absent, partial or valid.
* *SingleInstance:* one step per call to the system; a process may crash.
* *ModuleSettings:* a call of the GUI thread is a step, and so is every call that
  loading a preset makes: each module is disabled (`DisableModule`), then each
  enabled and given its data (`LoadModule`), and the result saved (`EndLoad`);
  `load` is the call the loading is at.  The driver may refuse any `SetFeature`,
  an application may connect or leave between any two calls (`LockModules`), and
  a crash may come between them and may cut off the file that is being written.
  Fields are in three groups: those a reset puts to the defaults, those it
  forgets, and the selected size of the ray history buffer.  `want` is what the
  panel should show now.
* *CapturePanel:* the status thread runs two callbacks (`OnStatusEvent`,
  `ProcessStatus`), with the GUI thread between them; `signals` are queued for
  the view, `gui` is a `RequestBeginTrace` that has read the target and not yet
  the mode.  `wanted` and `begun` are what was asked for with a delay, and what
  began.
* *SpmCounters:* a query, the end of the capture, reading, building, appending and
  the report are a step each, and every library call may fail; `order` is the
  order in which the hash map of counters is run through, and a table of the file a
  function of the indices.  Samples are told apart
  by their counter, so that `ReadLegacy` and `ReadRdf`, which follow the comments of
  the chunk structures, find out whether an index points to another counter.

## 3. The runs

Passing runs:

| Run | Instance | Properties | Shows |
|---|---|---|---|
| `orchestrator` | two users, one of them RGP, cancellable, 1 capture each (3.5 M states) | `CapturingUserIsPolled`, `CapturingHasPoller`, `CompletedOnce`, `CapturesInSequence` | every interleaving of two users' captures, aborts and disconnects with the polling thread keeps captures apart, attributed and reported |
| `client_delayed` | one user, delayed automatic capture, 2 captures | `TimerStoppedBeforeGone`, `CancelledCaptureNeverTaken` | the timer against abort, begin and disconnect |
| `client_liveness` | one user, no automatic capture, cancellable, 2 captures | `CallsReturn`, `StoppedCaptureEnds` | nobody waits for ever |
| `client_no_cancel` | one user, immediate automatic capture, driver cannot cancel | `PolledUserShown` | the user is shown as capturing while it captures |
| `source` | two connections, two client states, 1 change each, queue of 2 (1.3 M states) | `ShownIsCurrent`, `OldStatusIsPrevious`, `ShownCatchesUp` | the last status shown is the current one, events form a chain, the panel catches up |
| `context_features` | three features, two connections of one process, enabling may fail | `SourcesMatchFeatures`, `NothingLeftBehind`, `DriverMatchesFeatures` | features and connections agree |
| `context_failures` | two features sharing a driver feature and a third, a process per connection, every failure | `EnabledFeaturesHear`, `OnlySharedIsLost` | what still holds then; of the driver features only shared ones are lost |
| `clocks` | two connections, three GPUs: ordinary, without peak, failing (1 M states) | `PeakWhileForced`, `ClocksRestored`, `OverlayFollows` | clocks |
| `overlay` | two connections, one feature, two routers, 2 updates | `LinesCatchUp`, `GoneIsGone`, `JoinReturns` | each line shows in the end what was asked last; a gone connection gets at most one string more; threads are joined |
| `cli` | every mode, two connections, one GPU, 2 captures, every failure, Ctrl+C | `SuccessIsSaved`, `SavesWhatWasAsked`, `ToolEnds` | what the tool reports and saves, an empty success and a second connection's trace excepted, and that it ends |
| `parts` | twelve parts (1.9 M states in all) | below | below |

Properties of `parts`:

| Part | Properties | Show |
|---|---|---|
| applications, blocklist | `LockedWhileConnected`, `RemovedStaysRemoved` | the lock covers every connection; an upgrade does not bring an entry back |
| options | `AcceptedTriggersFire` | an accepted automatic capture has a trigger that comes, unsigned arithmetic included |
| support | `SupportFits` | nothing is left from the last system, nothing is lost with a newer driver |
| wildcard | `MatchesWhatItMeans` | the matcher with one point to back up to agrees with the meaning of a pattern |
| connection | `WidgetFollows` | with nothing queued, the buttons fit the connection, but where a router's end overtook `NetDisconnecting` |
| memory | `ReportedOnce` | not two reports, and not none when nobody interfered |
| legacy | `AbortedWasAsked` | a capture, or its processing, is reported aborted only where that was asked for |
| crash | `CrashFilesHold` (`CrashHasItsFile`, `OpenedIsValid`) | one report per crash, whole dumps; an opened summary is whole |
| instances | `OneInstance` | two panels at once only where a process read a member nobody had set |
| settings | `EnabledAreCompatible`, `SettingsHold` | whatever is refused or locked half way; sources are given what is shown (`ConfiguredAsShown`), and a load or a relaunch shows what was saved (`SettingsComeBack`) |
| panel | `BegunWasWanted` | a capture begins only of a connection and in a mode that were asked for and not cancelled |
| counters | `CountersReadBack` | the file of a complete profile reads back as the default counters of its architecture, with their own samples, components and groups, in both formats; another report has a failure behind it; the hardware counters asked for are the ones needed, once each |

`connection_stuck` ends in a counterexample (section 5).

**Bounds and why they are enough.**  `MaxCaptures` bounds the captures the
driver accepts per user: one each with two users has every overlap of two
captures, two with one user has a capture begun over the polling thread of the
last.  Nothing in the code counts further, and the proofs of section 4 have no
bound.  `MaxChanges` and `MaxQueue` bound the client state changes and the
status queue: with two connections one change each already lets a change on one
thread overtake a connect, a disconnect and a delivery on others, and a queue of
two has a status being delivered, one behind it and a third about to be built;
when the queue is full the builder waits, where the code would grow it.  Two
connections are what two captures or a front-of-list mistake need; three GPUs
are what `all_of` needs to have something before, at and behind a failure.
`clocks` uses the symmetry of its connections (no liveness is checked in it).
The overlay has two connections (one joins the other's thread), two routers (a
queue must not live into the next) and two updates (one overtakes the other
between queueing and sending).  The command line tool gets two captures, since
its memory of the first is what could spoil the second.  `UintRange` = 256 stands
for 2^32: the arithmetic only subtracts small numbers and compares, and the sets
hold zero, the numbers around the preparation frames and both ends of the range.
Four edits let the blocklist be edited, saved, read by a newer version and edited
again; five edits and three presets let a preset be saved, others be loaded with
a refusal or a lock in between, and the panel be launched again.  Two connections
with different capture modes, two acts of the user and queues of one let a capture
be asked for while the target changes, and asked for again or chosen differently
before it begins.  Two captures of the legacy client are one aborted and the next,
which must not inherit its flag.  Three processes of two accounts are one running, one starting and one that may not attach.  Four
clicks (three in `connection_stuck`, which needs no more) are connect, change,
disconnect, connect.  Systems are drivers on both sides of every version the code
compares with, with a GPU of every kind the tests tell apart; names and patterns
are all short ones over the special characters, and longer ones with classes and
stars.  Two captures let a GPA context that one left open meet the GPU of the
other; the GPUs are one older than RDNA and three of the RDNA architectures, and the
files hold all chunks, some, or one cut off.

The runs that allow the system to stop (no more captures, every connection
gone, the tool at its end) say `CHECK_DEADLOCK FALSE`; the `context` and `clocks`
runs check deadlock.

**Fairness.**  `FairClientSpec` and `BaseTraceSource!FairSpec` assume weak
fairness of threads that are inside a call or a loop: the operating system
schedules them, and a mutex one of them waits for is eventually theirs once it
is free.  In `UbertraceClient` these are the user-interface and DevDriver
threads inside a call, the timers, the joined begin, the polling thread and
`Disconnect`; in `BaseTraceSource` the DevDriver threads inside a call, the
clients' notifications and the reporting thread.  Nobody is obliged to call:
users, the driver and DevDriver have no fairness.  The driver may never finish
a trace, and collection may keep failing.

`OverlayManager!Spec` has weak fairness of the queues' threads and of the two
callbacks that join them once they have begun.  `CaptureCli!Spec` has it of the
main thread, of the callbacks of a trace that has ended, of the deadlines the
tool sets itself, and of the disconnection of applications only while the tool
cleans up and the API closes their connections; nothing is assumed of the user or
the applications.  `ConnectionModel!FairSpec` has it of threads that can go on, of
the router's answer, and of the handlers of the GUI thread that have begun.

**Mutants.**  Every property has a mutant in its module (`(* Mutant: ... *)`,
listed in `PROJECT.json`): a plausible slip in the code, such as a missing join,
a dropped guard or a swapped order, with which TLC finds the property violated.

## 4. The proofs

| Theorem | Says |
|---|---|
| `UbertraceProofs!TypeCorrect` | types |
| `... CapturingUserCorrect`, `NobodyStuck`, `ReportedOnce` | the three invariants of the `orchestrator` run |
| `... ImplementsCaptureSequence` | refinement of `CaptureSequence` |
| `... ClientCapturesCorrect` | the invariants hold in the composition with the real callers |
| `... NoTimerOutlivesItsClient`, `CancelledStaysCancelled` | the timers |
| `... PolledUsersShown` | the polled user is shown capturing, if the driver cannot cancel a trace and no automatic capture is delayed |
| `CaptureContextProofs!TypeCorrect`, `NobodyHoldsTheGone`, `EnabledFeaturesAreTold` | with any failures |
| `... SourcesAgree` | if no configuration is refused |
| `... OnlyTheSharedAreLost` | an enabled feature lacks a driver feature only if it shares it with one that is not enabled |
| `DeviceClocksProofs!TypeCorrect`, `PeakKept`, `ClocksPutBack`, `OverlayTold` | the clocks |
| `BaseTraceSourceProofs!TypeCorrect`, `ListsAreDisjoint` | types; a client is in one list |
| `... ShownCorrect`, `NoStatusMissed` | the last status shown is the current one; the events form a chain |
| `OverlayManagerProofs!LinesAreCurrent` | each line ends as what was asked or read last |
| `... EndIsEnd` | one late string at most, no thread left |
| `FrontendModelsProofs!LockHolds` | the modules are locked under a connected application, unless two entries have been connected at once |
| `... RemovalsStay` | a removed blocklist entry stays removed |
| `... SettingsInvHolds`, `CompatibleTheorem` | modules that exclude each other are never enabled together, whatever is refused or locked while a preset loads |
| `... SettingsTheorem` | sources are given what is shown; a preset, or a relaunch, brings back what was promised |
| `PartsProofs!InstancesExclude` | one panel at a time, with the exception the property names |
| `... TraceReportedOnce` | a memory trace has one report |
| `... AbortsWereAsked` | no capture of the legacy client, and no processing, is reported aborted unasked |
| `... CrashFiles` | one report per crash, whole summaries, if librdf makes its iterators |
| `... CapturesWereWanted` | the profiling panel begins only what is asked for and not cancelled |
| `... WidgetShowsConnection` | once all is quiet the widget offers what the connection allows, but where `NetDisconnecting` was overtaken |
| `... ClientsFitTheirSystem` | a client is what its system can do; a newer driver loses nothing |
| `... AutoCapturesFire` | an automatic capture that is accepted has a trigger that comes |
| `... MatcherMeansThePattern` | the matcher answers what the pattern means, for names and patterns of any length |
| `... ProfilesReadBack` | a complete profile reads back as the derived counters of its GPU, in whatever order they are written |
| `CaptureCliProofs!OutcomeIsSaved` | the command line tool reports no failure for a trace it took in, and what it calls done is one whole trace it took in, with two named exceptions |
| `... RequestsAreSaved` | a capture asked for at its prompt saves its own trace, if no success came without data |

All hold for any sets of users, connections, features, processes, names and
platforms, any number of GPUs and any bound.  Assumptions on the constants are
named `ASSUME`s of the models: `NoUser` is not a user, the RGP users are users
(`UsersAssumption`), flags and bounds have their types (`FeaturesAssumption` of
`UbertraceOrchestrator`, `AutoCaptureAssumption`), `NoProcess` is not a process
(`ContextAssumption`), there is a GPU (`GpusAssumption`), the user asks for known
modes (`RequestsAssumption`), the features of the overlay are finitely many
(`FeaturesAssumption` of `OverlayManager`), the default entries of a blocklist are
entries (`EntriesAssumption`), connections of one process have one
application's name (`ProcessAssumption`), a `uint32_t` counts beyond 5
(`UintAssumption`), what a router tells of a system has the fields that are
read, with driver versions that are `uint32_t` (`InfosAssumption`), names and
patterns are made of characters (`MatchAssumption`), an architecture is a number, GPA
lists the hardware counters of a derived one, and a hash map is run through with each
of its counters once (`CountersAssumption`), and a module that accepts no
other is none of the system's, while the presets that are shipped enable only modules
that accept each other (`ModulesAssumption`).  Some theorems have hypotheses of their
own, the settings of the constants the runs use: `SourcesAgree` as in the table,
`CrashFiles` takes `IteratorsFail` = FALSE, and `PolledUsersShown` takes
`NeverDelayed`: `CancelSupported` is FALSE and no `AutoCapture` is "delayed"; section 5
says what happens without them.  `LockHolds` speaks of behaviours in which no two
entries are connected at once, whatever `Overlap` and `LateEdits` are.  `TraceReportedOnce` also takes the driver's thread not to be
one of the users', and the two theorems of `CaptureCli` that "none" and "torn",
which stand for no file and for a torn one, are no connections; and `AutoCapturesFire`
that the segments of the option are a sequence of numbers (`Blank` and `Text` among
them).

*Orchestrator.*  Types are proved with `KnownUsers` (whoever is behind a begin
in `join()`, a `Disconnect` or a running poller is a user), since states are
written at indices taken from those records.  The three safety invariants are
inductive only together (`CInv`): that a capturing user has a poller needs
`capturingUser` to name the poller's user when the writing-status event or the
final state is recorded, and the count of completions needs the final step to
be the poller's own.  For the refinement, every step that ends the poller's
active life is `Report`, `BeginJoined` is `Dequeue`, a begin is `Start` or
`Queue`, and the rest stutter; `CInv` gives the guards.

*Client.*  `StepObeys` maps every step of the composition to a step of the
orchestrator, given that threads inside a call have a user (`ThreadUsers`).
`TimerInv` has four parts: the DevDriver thread is in a call of a live client or
in `Disconnect`, not both; leavers' timers are stopped; a timer is armed at most
once; and a delayed automatic capture that is waiting or polled for is the one
whose timer is in `join()` or has begun it.

*Shown user.*  A status other than capturing or dumping of the polled user could
only come from an abort that set a waiting user to idle.  Nobody waits but for a
delay (`NobodyWaits`), so that no abort ever has seen a waiting user
(`AbortsIdle`), and then every other write of the user's status ends its polling
(`Shown`).

*Context.*  `Place(c)` says for each stage of a connection who holds it.  It is
preserved because `CallAlone` keeps every change of the listening sources to
moments when no process is recorded, and the connections that still have to tell
sources they are gone are exactly those whose removal ignores `is_enabled_`.
`OnlySharedIsLost` is inductive by itself: the one step that takes a driver feature
away disables a feature that needs it, and a feature counts as enabled only after its
driver features were set.

*Clocks.*  `Follows(g)` ties the cached and the current mode of a GPU to whether
some connection forces peak and whether the holder of the lock has come past
it; the set of forcing connections runs ahead of the GPUs.  It is stated of the
GPUs before the first failing one (`Reliable`), the ones `all_of` is sure to
reach.  `SeenIsCurrent` does the same for what an unlocked reader has seen.

*Trace source.*  `StatusInv`: unless a thread still owes a status, because it is
between its change and its update (`StatusOwed`), the last status built is the
one the lists give (`BuiltIsCurrent`), and once the queue is empty it is also what
is shown (`DeliveredIsShown`).  The events, from the one being delivered to the
last in the queue, are a chain that ends in `previous` (`Chained`).  The stage
is the highest of the clients' (`StageIsHighest`, from the least-number principle),
and `RemoveFirst` takes one client off a list without repetitions.

*Overlay.*  `ThreadInv`: a thread that runs is in one of the manager's hands
(`Owned`): behind a queue, on `join_threads_`, or in the list some
`JoinQueueThreads` has taken; that is why none is left when the router's callback
returns.  One whose connection ended has been told to stop (`Stopped`), so that it
sends what it had and takes nothing more.  `LineInv` is the relation between what
was asked and what is under way: up to DEVICEINIT the states are kept as they were
asked for and nothing is queued (`Kept`), and from then on the last item of a line
is what was asked for last, or else the driver shows it (`Due`); of the clocks it
is an item not yet read, or one read since they last changed.  Every step appends
to, takes from or replaces the head of one sequence, so three lemmas about that
(`Appended`, `Taken`, `Replaced`) carry the proof; `StateItemsAre` says that the
flush has each feature once.

*Blocklist and lock.*  `BlocklistInv`: what the user removed is not in the lists of
the file, and if it is a default, the file records its removal; a file of the
version that recorded none has nothing removed.  `LockInv`: the lock opens with the
end of an entry's last connection, so that it takes a second connected entry for it to
open under one.  `AppInv` says when there is none: if connections are reported one at a
time and renames are not late, those let in or connected belong to one process
(`InOrderOneApplication`).

*Settings.*  `SettingsInv` has the two properties and what makes them inductive.
The modules of every preset, in the list, in the file and being loaded, accept each
other (`ModulesOk`, `PresetsOk`), since a preset is only ever made of modules
that are enabled.  A module whose data are not waiting to be loaded shows what
would be saved of it (`Settled`, `Waits`).  A promise speaks of the preset that is
loaded or of the file that will be (`Promises`), and while it is loaded, modules
beyond the promised ones are still to be disabled, and promised ones that are not
enabled still to be enabled (`OnTheWay`): so that, at the turn of each, whatever
is enabled already accepts it, and nothing but the driver can refuse.

*Wildcard.*  The invariant `MatchInv` says that the name matches if the matcher goes
on from where it is, or takes up the last star one character later.  No earlier star
has to be asked (`Remembered`): what follows the last star and was matched since
takes one character each, so that whatever the star leaves for it, it leaves for the
place reached, as many characters on.  That `Rests` has the equation that defines it
(`RestsEquation`), and what it says of the end of a name (`RestsOfNothing`), are
inductions from the end of the pattern, from the least-number principle.

*Single instance.*  Whoever created the memory stays attached to it until it
leaves (`Creator`), and while it is there nobody creates another; so of two that
run, one was not told by the constructor.

*RMV client.*  Only the thread whose `EndTracing` the driver accepted reports, and
the driver accepts one per trace (`OneWinner`); with nobody interfering
(`Unraced`) one of them does.  *Legacy RGP client.*  `aborted_` is reset at
the start of an execution, and no capture starts before the one before it ended;
so a capture that finds it set was aborted itself (`AbortInv`), and so is a processing
that finds `abort_spm_processing_` set, which is reset at its own start and by others.
*Crash analysis.*  `CrashInv` follows a crash from the driver's trace to its file,
with the chunks written so far.  `SummaryInv`: one thread is inside `work_mutex_`,
only summaries the user asked for are opened, one at a time, and from the end of
its tool to what is told of it nobody else touches the file (`Whole`).

*Support.*  `SupportInv`: a source that has heard of the present router, and is
enabled, has the support of that router; so what an earlier one left in a disabled
source reaches no client.  Of any set of drivers with
`uint32_t` versions there is a newest (`NewestDriver`, from the least-number principle).  Every
capability of `NewerDriverLosesNothing` is a version that is not too old
(`VersionOrder`).  *Automatic captures* are no invariant but a fact about every
command line: the parser's minimum keeps the first preparation frame from going below
zero.

*Panel.*  `WantedInv`: what a delay timer that is running was set for is still
wanted, since a cancel stops the timer; all other begins are the user's own step.
*Connection.*  `Agree` ties the connection's state to the thread that is at work on
it and to the link.  `Told` says that when no thread is about to emit, the widget
and the signals on their way to it (`Tells`) end at the connection's state, or at
`NetDisconnecting` if that overtook.  `WorkerSpeaks` and `RouterSpeaks` say what a thread
that is about to emit may have to say, given what the other is about to.  All
hold until the panel ends (`Open`).

*Counters.*  `CountersInv` follows the processing to its report; what it has to know
at the end is what was written, and that is three facts about the default counters of
an architecture, whichever it is (`DefaultRange`).  A counter is made of its name
(`AllMade`), so that no two have one name; every component and every member of a group
is one of the counters (`DefaultsResolve`), so that the builder has no reason of its
own to fail; and a component has no components, while no member of a group is one
(`MadeIs`, `GroupFits`), so that each index is looked up in the table it was numbered
in.  An index counts the places before its own and so grows with it (`IndexGrows`):
whoever follows it finds the place again (`PlaceOfIndex`).  With that
`LegacyReadsBack` and `RdfReadsBack` undo what the two formats' writers do, for any
order of the hash map.  Of the hardware counters a query lists, each is taken where it
is found first (`FirstPlace`, from the least-number principle).

*Command line tool.*  `CliInv` treats the tool's two kinds of modes apart.
`OutcomeInv`, of those that wait for one capture: success, once set by a callback,
stays; it and `received` differ only once the tool is on its way
out; so neither the timeout nor the end of the wait can report a failure after it.
The data are of a connection whose trace was taken in, if there is one (`Took`), and
what is written is torn only if another came meanwhile.
`RequestInv`, of those that capture at the prompt: unless the prompt waits, no
capture is under way and no flag of an earlier one is left, and while it waits
there is one capture, or one queued completion, or its outcome, all of the request
asked for last (`OneRuns`, `OfThis`); until a success without data leaves its flags
behind.  The memory mode is neither, and there
`DumpsTheCurrentTrace` is violated (section 5).

*What stays with TLC.*  Liveness (`CallsReturn`, `StoppedCaptureEnds`,
`ShownCatchesUp`, `JoinReturns`, `ToolEnds`), which this prover does not reach.
The type invariants of `OverlayManager`, `CaptureCli` and the parts are stated beside their
variables as a reading aid; the inductive invariants above contain the types their
proofs need.

## 5. What disagrees

Checked by a run, with the trace TLC prints:

* `connection_stuck`: `ConnectionModel::SetDisableClientTimeout` takes
  `connection_mutex_` and calls `DisconnectTool`, which joins
  `connection_thread_`; that thread may be about to take the mutex, and then the
  GUI thread and it wait for each other.

Stated in the modules, found violated by TLC, in no run.  The hazards that speak
of them quote the lines.

* `UbertraceOrchestrator`, `UbertraceClient`: `BeginReturns` with two users
  (`RequestBeginTrace` joins the previous polling thread with
  `user_state_mutex_` held, while that thread needs it to report its capture; a
  delayed automatic capture that races an abort brings one user there, too);
  `PeakDuringCapture` (`tracing_ended` is called after the mutex was released and
  can end the peak clocks of the next capture); `FailedWriteReported` (a
  collection that fails after writing began is not reported);
  `LastDisconnectFindsNoPoller` (the assertions at the end of `Disconnect`);
  `AutoCaptureIsOneShot`; `PolledUserShown` where the driver can cancel a trace or an
  automatic capture is delayed (an abort that saw a waiting user sets it to idle
  when its capture has begun).
* `BaseTraceSource`: `OverlayIsCurrent` with two connections (the TODO at
  `base_trace_source.inl:189`), `ShownProcessIsCurrent`.
* `CaptureContext`: `DriverMatchesFeatures` with features that share a driver
  feature (disabling profiling resets what ray tracing still needs);
  `SourcesMatchFeatures` with a refused configuration; `OneProcess` with two
  processes (`client_manager.cpp:105`: the filter answers before the connection
  is recorded); `CrashAnalysisAlone` when resetting a driver feature fails.
* `DeviceClocks`: `OverlayIsCurrent`, `OthersRestored`, `PeakOnlyForced`.
* `CaptureCli`: `DoneIsSaved` (in the automatic and crash modes, `TraceFinished` assigns
  `trace_data_` at `capture_cli.cpp:2432` while the main thread writes it without the
  lock, 1437-1439: with two connections the tool says "Done!" of a torn file; and of a
  success without data it says so without a file); `SavesWhatWasAsked` without its
  exception (a success without data saves nothing and resets no flag, 1950-1989, so
  that the wait for the next capture is over before it is taken);
  `DumpsTheCurrentTrace` (a memory trace of another connection that ends at the
  prompt).
* `ConnectionModel`: `CanReconnect` (`SyncDisconnectTool` unlocks at
  `connection_model.cpp:344` and emits `NetDisconnecting` at 346; if the router goes in
  between, `NetDisconnected` is queued first, and the widget ends with neither button
  although the panel is disconnected); `ReconnectIsLocal`; the comment at `connection_model.h:131`
  says a change "will not affect the timeout" where the code reconnects.
* `ApplicationModel`: `ReportedHasEntry`, and `LockedWhileConnected` with
  `Overlap` or `LateEdits`.
* `RgpLegacyClient`: `CancelledWasAsked` (`base_trace_source.inl:307` destroys the client
  after its `Disconnect`; a timer that is still armed is cancelled by its destructor,
  `cancellable_timer.cpp:14`, and reports an aborted capture,
  `rgp_legacy_trace_client.cpp:175`, that nobody aborted).
* `CrashAnalysis`: `FailureIsTold` (a missing tool or dump gives an event without
  a path, which nobody shows), `GoodSummaryKept` (one result stands for both
  summaries), `CrashHasItsFile` with `IteratorsFail`.
* `SingleInstance`: `OneRunning` (`m_anotherInstanceRunning` is not initialised),
  `LeavesToAnother`.
* `ModuleSettings`: `BufferAsSelected` (the selected ray history buffer never
  reaches the configuration, cf. `documentation/source/features.rst:158`:
  `ReceiveUserData` overwrites it with the hidden custom size); `DefaultsTaken`
  (the comment in `preset_model.cpp`, "Default presets will have no data for the
  modules, so they should take on the defaults": delay, shader instrumentation,
  counts, capture modes and markers keep their previous values);
  `EnabledIsManaged` after a refused change; `NamesUnique` (a name is looked up
  with its blanks and created without).  A preset that is locked half way stays
  half loaded, and is saved so.
* `CapturePanel`: `TargetAsShown` (every status sets `capture_target_` to the
  first connection of an unordered map, the combo box follows only when the
  connections change); `PageFollows` (an application that goes during the delay
  leaves the progress page until the next status; a completion may arrive after
  the next capture began); `WaitingHasTimer` (a cancel goes to the target of
  that moment, and the client that was prepared goes on waiting).
* `SpmCounters`: `CompletedIsWritten` (what `AppendChunks` returns is dropped, and
  so is a writer that could not be made, where
  `rgp_derived_spm_database.h` says "The operation completed successfully" of
  `kRgpFileWriterStatusOk`); `HandlesClosed` (a build that fails returns without
  the cleanup); `AbortEnds` (nothing reads `should_abort`).

Seen while reading, in no property: `abort_processing_supported` is never set, so
`RequestAbortProcessing` is never called (`RgpLegacyClient` allows the call all the same); `RunProcess` of the summary generator
goes on for ever, with `work_mutex_`, if the tool cannot be started; a comment
restricts OpenCL and HIP to 25.10 where the code compares with 25.30; the header
of the overlay manager still says that a queue detaches its thread;
`kRayHistoryBufferSizes` is indexed before the index is validated; module data
that do not parse keep the previous preset's settings; `GetDefaultCaptureMode`
adjusts the mode to the automatic capture in a variable it does not return.

## 6. Assumptions

* DevDriver calls connect, state and disconnect of one connection one after the
  other, and of different connections concurrently; the filter and the connect
  callback are separate calls.
* Callbacks run in the order of registration: overlay manager, clocks manager,
  client manager, then the trace sources.  A connection is profiled only after
  its announcement to the clocks manager.
* The driver's calls succeed or fail; a trace session hands out a trace once.
  The driver refuses a clock mode it does not know.
* Aborts come from one thread, the user-interface thread.
* Two overlapping `join()`s of one `std::thread` are undefined behaviour; the
  model lets them return one after the other.
* Connection ids are not reused; except in `OverlayManager` and `Support`, the
  router does not reconnect.
* RMV: the driver's `EndTracing` never refuses a trace that runs, and its state
  can be queried.
* Applications: one connection at a time is between filter and connect
  (`Overlap` = FALSE), and no entry is renamed in between.
* Crash analysis: librdf makes its iterators; an exit code of 0 and a file that is
  not empty mean a whole summary; the user acts on a dump whose stream is closed;
  a file the tool has open is not removed.
* Single instance: shared memory goes with the last process detached from it; a
  crash leaves memory and semaphore on POSIX systems only; another account's
  memory cannot be attached to.
* Settings: `given` is the source's configuration as `SetConfig` leaves it; of the shader
  instrumentation the panel sets a driver feature instead, which is counted with it;
  every module registers; module data in the file parse; nothing
  locks the modules while the last session is loaded.  `SettingsComeBack` speaks of loads without refusal or lock.
* Command line tool: a success may come without data in the model.  The layers below
  hardly let one through: the data are the stream the trace was written to
  (`ConsumeStream`), so that it takes a completed capture of which nothing was written.
* Profiling panel: the source delivers a status after every change, in order, as
  `BaseTraceSource` does (`ShownIsCurrent`); a begin the client accepts is
  capturing at once; signals to the view are queued and not lost.
* Counters: GPA knows every default counter of the architecture and finds it (its lookup
  failures are left out); the builder
  refuses a name that is no counter, and a null context; a GPA context that could
  not be closed is excepted from `CountersReadBack`.

## 7. Not modelled

The components with status `not_modelled` in `PROJECT.json`: those planned in
section 8, and those that stay outside - serialisation of chunks, crash dumps
and settings, views and
dialogs, file validators, the C++ wrapper and the sample programs, the service
and the registry tool, which hold no protocol of their own.  They are the larger
part of the repository's lines.  Of modelled components:

* `SetIsDisabled` of the orchestrator (no caller); the capture parameters the RGP
  and RRA clients generate; requests, progress and shutdown of `BaseTraceSource`;
  start-up and settings of the context; router reconnection and the list of
  modes of the clocks;
* snapshots and markers added to a running memory trace; custom counters (no
  caller asks for them) and `RgpSpmDataBase` (nothing uses it), whose values are
  the arithmetic of GPA's formulas; the captures the API makes through `TraceSourceAdapter` and its data
  races with the status thread;
* console output, file names and the options of the command line tool that no
  property tells apart; the system information model, logging and the lists of
  recent traces of the panel; the layout of its windows.

Object lifetimes are modelled where a thread can hold a pointer to a client
(`Callable`, `Listed`), not where a list is walked while it changes.

## 8. Plan

1. `TraceSourceRequests`: requests, completions and progress of `BaseTraceSource`,
   the lifetime of bound clients.
2. `TraceSourceAdapter` as a module of its own, over the status events of
   `BaseTraceSource`.
3. `SystemInfoCache`; the start-up of the context; the export of system
   information; prelaunch settings.

Worth proving next: that `OverlayManager` implements a register per connection and
feature, which `LineInv` already describes.
