# OpenRoadCode: specifications, model checking and proofs

OpenRoadCode is the software of a car's head unit: a Tk shell (`src/apps/orcUi`)
over controllers for applications, games, media, radio, navigation, vehicle data
and weather, and a number of service processes that publish telemetry on a
ZeroMQ bus.  Nearly all of its correctness hazards are of one kind: the UI thread
owns the state, worker threads, executors and child processes do the slow work,
and what they report comes back later, out of order, or after the view it was
meant for has gone.

This directory holds TLA+ modules of the parts where that matters most, TLC
configurations that check them on small instances, and TLAPS proofs of their
safety properties for instances of every size.  Paths below are relative to
the repository root.

    tlc -workers 2 -config AppRuntime_ui.cfg MCAppRuntime.tla
    tlapm AppRuntimeProofs.tla

`PROJECT.json` lists the components, the runs, the source lines each definition
stands for, the hazards and the theorems.  A definition under a comment
"Mutant: ..." is a plausible bug in the definition that follows it; putting it in
that definition's place makes the property named in `PROJECT.json` fail.

## 1. Inventory

| Component | State | Operations | Interacts through | What is hard | What makes it correct |
|---|---|---|---|---|---|
| **Application runtime** `controllers/application_runtime` | registry, `_visible`, one RLock per application; processes and windows | show, stop, restart, hide, close, stop_all, preload worker, bring-warm-to-rest | launchers; called from the UI thread, work executors and its own preload thread | nested calls under reentrant locks, exclusive groups, launchers that raise, processes that die, shutdown beside the preload | one application of a group on screen, `is_visible` truthful, launchers used by one thread at a time, no deadlock, persistent processes kept, everything stopped at the end |
| **Online mode, connectivity** `controllers/connectivity` | preference, observed reachability, their file; bars, generation, probe flag | toggle, poll, probe, network events, load | two queues into the UI thread; listeners; a file other processes read | late probes, failing saves, restarts, link losses | file = memory = listeners, outdated results ignored, mode follows reachability |
| **Message dispatcher** `messaging` | registrations, socket, receiver thread, executor | register, start, close, receive, submit | ZeroMQ, worker threads, handlers | close at every point of the receiver; failing decoders and handlers | nothing after close, nothing refused, reception survives bad messages |
| Telemetry caches `common/telemetry` | latest state per topic | handlers, reads | dispatcher workers | order between workers | what was received is visible |
| **State ingress of orcUi** `apps/orcUi/core_runtime.py` | queue of UI callbacks, `_closing` | start, schedule, drain, close | dispatcher workers and the Tk timer | close on the UI thread waits for workers | no callback after close, no hang, everything shown |
| **Native games** `controllers/games` | binding, generations, one child process, an embedded window | activate, deactivate, launch, stop, close | worker threads, a native lock, UI queue, process watcher | screens retired with work in flight; late stops and exits | one game at a time, always owned, nothing after close, the screen always comes back |
| **Spotify account** `controllers/spotify/spotify_account.py` | bindings, sequence, pending operation, client id, token file | bind, unbind, refresh, request, cancel, mode change | executor, UI queue, browser sign-in, playback worker writing the same file | cancellation against network requests and commits | a gone view has no effect, never stuck busy, shown = stored |
| **Spotify local player** `controllers/spotify/spotify_local_player.py` | mode, generation, SDK host and browser | request_player, request_remote, close | one thread per request; a browser found by window class | any step may fail or be overtaken | nothing left behind, PLAYER means a player |
| Spotify state service, playback, library | polled state, command queue | poll, commands | worker thread, Web API | ordering of commands and polls | newest state wins |
| **Receiver sessions** `controllers/radio/rf_radio_session.py`, `apps/orcUi/composition/radio.py` | per panel: generation, view, loading, native view, embedded window; one serial executor; application service; closing thread | open, launch, tune, NOAA, track, hide, close, shutdown | executor jobs, UI thread, native lock, AppRuntime, SDR++ and readsb | a panel retired at any step of a launch; two consumers of one receiver; shutdown behind queued launches | nothing embedded in a panel that is gone, one user of the receiver, SDR++ stays stopped, loading ends |
| SDR resource manager `controllers/sdr` | advisory owner of a device | acquire, release | none: orcUi builds its receivers without one | | |
| Streaming radio | search generation, artwork cache | search, play | four workers, UI queue | stale answers | newest search shown |
| Trip tracking `controllers/automotive/trip_tracker.py` | segment, totals, status | observe, pause, complete | single-worker dispatcher | out-of-order timestamps, late samples | a completed trip does not change |
| Vehicle telemetry | adapters, PID schedule | poll, decode | serial or TCP device | timeouts, reconnects | every PID is polled in turn |
| **Navigation service** `services/navigation`, `controllers/navigation_session`, `controllers/route_guidance` | session, route, progress, reroute policy, estimator, position source, playback threads | the turns of `run()`; start, cancel, play, stop, calibrate; end of run | main thread and command thread without a common lock; planner over HTTP; playback threads; telemetry out | a command in the middle of a turn; a plan that comes late or not at all; a playback thread that outlives its join | session and guidance agree on one route, playback ends with its route, a departure is answered, `run()` ends and releases |
| Guidance geometry, planner clients | | | | numerical, or requests to Valhalla | |
| Service hosts | processes, ready files | start, stop, signals | systemd, termux | order of shutdown | all closed once |
| Everything else (see `PROJECT.json`) | | | | | sequential, numerical, or pure input and output |

How they interact.  `apps/orcUi/composition/*` builds one object of each and wires
them: the games, radio, video and dashboard screens go through the application runtime
or a session of their own; the shell connectivity controller's mode is heard by
the media composition, which cancels sign-ins, asks the local player for REMOTE
and shows the media screens again; the dispatcher feeds the caches and the state
ingress.  The
one idea they share is *delivery guarded by a generation*: a worker remembers the
number of the request it serves and the UI thread compares it when the result
arrives.  Where no generation is compared, it is a lock (application runtime, playback), or nothing
(navigation), and section 6 lists what follows.

## 2. Modules

| Module | Models | State and actions |
|---|---|---|
| `AppRuntime` | `app_runtime_manager.py`, launchers as environment | Each thread is a stack of frames (one per method in progress), so nested calls (`restart` → `show` → `close` of a peer) and their locks are as in the code. A frame's `at` is the next step another thread can interleave with; `Enter`/`Release` are the RLock. Launchers may start, show, hide, refuse, raise, stop half way or without effect; a process may exit (`AppExits`) and the browser of a dashboard be closed (`WindowCloses`) at any time. |
| `MCAppRuntime` | | constants: one exclusive group with members of every policy and launcher kind |
| `AppRuntimeProofs` | | proofs, section 5 |
| `OnlineMode` | `online_mode.py` | preference, reachability, file (missing, legacy, saved), `Update`, `Load` |
| `Connectivity` | `shell_connectivity_controller.py`, `network_monitor.py` over `OnlineMode` | one poll is split where a queue can grow; probes, monitor, world, failing saves and restart are actions |
| `MessageDispatcher` | `message_dispatcher.py`, `zeromq/subscriber.py`, executor | receiver loop, submit, workers, `close` in the order of the code: closed, stop event, subscriber, join, executor shutdown. What a handler does is left open |
| `Delivery` | what a dispatcher promises its handlers | abstract: messages sent, the latest begun, those being handled, open; `Send`, `Begin`, `End`, `Close` |
| `StateIngress` | `core_runtime.py` over `MessageDispatcher` | `Present`/`Put` on workers, drain and close on the UI thread |
| `GamesSession` (+ `MCGamesSession`, symmetry only) | `games_session.py`, launch and stop of `game_controller.py`, process of `game_launcher.py` | UI actions, embed/stop/cleanup threads with the native lock, the child process, the UI queue |
| `SpotifyAccount` | `spotify_account.py`, the buttons of screen and dialog, mode change of `composition/media.py`, the token use of `spotify_auth.py` | executor jobs split at every check of `current()`; the playback worker is one more writer of the token file |
| `SpotifyLocalPlayer` | `spotify_local_player.py`, host and browser | a thread per request, stopping the registered pair outside the lock as the code does |
| `RoutePlayback` | `route_playback_position_source.py`, its simulator | steps of `play_route`, `stop_route` and `stop` as operators of a calling thread; playback threads that report, end, or outlive their join |
| `NavigationRuntime` | `navigation_runtime.py`, its command server, session controller, reroute policy and guidance lifecycle, over `RoutePlayback` | main thread: one turn of `run()` step by step, arrival, reroute, clean-up; command thread: start, cancel, play, stop, calibrate; the fix is found and lost; the planner answers or raises, as may the sensors and the publisher |
| `ReceiverSession` | `rf_radio_session.py`, `radio_application_service.py`, `adsb_control.py`, `adsb_launcher.py` and `composition/radio.py` | requests on the serial executor split where the UI thread may step in; retirement of panels; the thread that closes the dashboard; shutdown; SDR++ and readsb as processes, whose start and stop may fail |
| `ConnectivityProofs`, `StateIngressProofs`, `GamesProofs`, `SpotifyAccountProofs`, `SpotifyLocalPlayerProofs`, `NavigationProofs`, `ReceiverProofs` | | proofs, section 5 |

Composition is by EXTENDS: `Connectivity` extends `OnlineMode`; `StateIngress` extends
`MessageDispatcher` and says what its handlers do; `NavigationRuntime` extends `RoutePlayback`
and says when its two threads call it.

Choices that matter for reading them:

- **AppRuntime.** Registration happens while nothing is shown, as the compositions do it. Requests
  are made from any of `Callers`; `restart` only for `Restartable` applications.  Launcher
  kinds are sets, so the `isinstance` tests of the code are membership tests.  Processes
  of an earlier run may be alive at the start: launchers find them by pattern.  The process of a dashboard is its
  server, which is what its `is_running` looks at (`streamlit_launcher.py:60`), and its window a browser: either may go without
  the other, and a launch or stop may fail between the two (`HalfOpens`, `Misses`).  `astray` is a history variable: the
  applications that a failing launcher call, or the loss of one half of a dashboard, has left where no method put them. It says, for
  the properties, when the screen is not the manager's doing; a call that succeeds, or the end of the process, takes an
  application out.  The applications of the runs are not a composition of the program: that registers `adsb` and `google_earth`
  of the group, both lazy. `weather` is a preloaded dashboard in `config/applications.toml` and has a launcher, but
  nothing registers it yet; the manager is written for it, and so are the runs.
- **Connectivity.** `outdated` and `saveFailed` are history variables; they appear in no guard.
- **MessageDispatcher.** `begun` is a history variable: the last message a worker took. It is there for the
  refinement mapping of `Promise` (`sent <- published`, `active <-` the ids in `running`, `open <-` close has
  not returned) and appears in no guard.  `Publish` is `Send`, `Take` is `Begin`, the end of a handler `End`, the return
  of close `Close`; every other step is invisible to `Delivery`.
- **SpotifyAccount.** Requests are made only as the Tk views enable their buttons: not
  while an action or the first read is pending, and not behind the modal dialog.
  `unread` is a history variable.  Blank client ids are rejected before anything changes and are left out.
- **SpotifyLocalPlayer.** Host and browser are named by the request that made them. All hosts share a
  port and all browsers a window class; stopping one pair therefore stops whichever browser runs.
  The page in the browser tells the host of its device (`Registers`, `device`); the host keeps that.  A browser may crash or
  be closed at any time (`BrowserEnds`) and nobody looks after the grace period of its launch. The host is a server thread of the
  same process and ends only when it is closed.  A `stop` that itself fails is not modelled.
  `overlapped` and `ended`, the last browser that ended by itself, are history variables.
- **GamesSession.** The game is installed; the inventory is a separate machine (planned).
- **NavigationRuntime.** Init is the state `start()` leaves. The receiver may lose its fix at any report and find it
  again; a turn without one asks neither guidance nor the reroute policy, whose state stays as it is
  (`navigation_runtime.py:208`). `TurnRaises` is an interrupt, a `read_state` or a publisher that raises; it is taken between turns. In the
  code they may come anywhere in a turn, and the clean-up that follows is the same. What guidance makes of a position
  (on the route, off it, arrived) is open, within the route it measures. Geometry, announcements and the
  heading are left out. The planner answers or raises; its client has a time-out of 10 s
  (`config/runtime.toml:63`), so it does not hang. `cli.py` closes the runtime once more after `run()`,
  when nothing is left to close. `overlapped` is a history variable: a command
  changed state in the middle of a turn.
- **ReceiverSession.** The executor has one worker and serves requests in their order. A generation is
  modelled as *live or not*: hiding and closing a panel both end its only generation. A panel asks for its launch first, as the screens do.
  REFRESH, RESIZE, telemetry, messages and the contents of presets take no path of their own and are left out. A
  `manager.stop` that raises is modelled where RF relinquishes; SDR++ is embedded, not full screen.
  A start of readsb may fail after it has taken effect, a stop may have no effect, which nobody looks at, and a browser that cannot be
  stopped leaves the service running too. `unowned` (readsb was last started from the aircraft menu, or left by a launch or a stop that
  failed), `stuck` (the dashboard likewise) and `failed` are history variables.

## 3. Runs

| Run | What it shows | Bounds, and why they are enough |
|---|---|---|
| `AppRuntime_ui` | Between lifecycle actions, while an application of a group is shown no other of the group has its window on the screen, survivors of an earlier run and half started ones included (`ExclusiveShown`); once the runtime closes every call ends (`ShutdownCompletes`) and no application that starts on demand is left (`ShutdownStopsApps`) | three applications of one group, so that a show has two peers to close: a preloaded dashboard whose launcher fails in every way, and two that start on demand; one UI thread beside the preload worker; processes exit and the dashboard's browser is closed at any time |
| `AppRuntime_threads` | `LauncherSerialized`, `NoDeadlockedSet`, `PersistentKept`, and `VisibleTruthful`: a live application reported visible is on the screen, with shows, stops and shutdown on two threads | two callers and the preload worker, two applications, one persistent, windowed and restartable, and a preloaded dashboard with a failing launcher: a deadlock needs two locks, a race two threads. The two callers are symmetric (`CallerSymmetry`); the run checks states and steps only |
| `Connectivity` | `SavedMode` (file, memory and listeners agree, also through failed saves and restarts), `OneProbe`, `BarsAgree`, `LossDisables`, `OutdatedIgnored`; `FollowsInternet`: the mode ends where a reachability that settles is | `ProbePeriod` 2 instead of 10 (only zero and non-zero differ), four events (toggle, loss, return, toggle), one restart |
| `StateIngress` | `ImplementsDelivery` (refinement of `Delivery`: no reordering, no repetition, silence after close), `SubmitNeverRefused`, `NothingLeft`, `CloseCompletes`, `Shown` | two workers, three messages: one handled, one queued, one in the receiver's hand when close comes |
| `GamesSession_safety` | `GameOwned`, `Retired`, `EmbeddedLatest`, `CleanupStopsOwn`; `Returns`: when all work has run the screen is back in the browser | two threads of work, screen shown twice and several launches: an old stop can meet a new game |
| `GamesSession_stale_stop` | **violation**, finding 1 | |
| `SpotifyAccount` | `ConnectedTruthful`, `SavedWhileShown`, `BusyHasWork`, and its types | two executor jobs, two requests, one mode change, one queued callback; dialog, playback worker and read errors all present |
| `SpotifyAccount_disconnect` | **violation**, finding 2 | |
| `SpotifyLocalPlayer` | `Released`, `PlayerRuns` (what is reported as PLAYER is a registered pair with its host up and a device, and a browser nobody has stopped), `Settles` | two overlapping requests, four in all, two mode changes; the browser may end at any time |
| `NavigationRuntime` | `OneRoute`, `PlaybackRetired`, `DeliveredCurrent` (the controller accepts the receiver's reports, the loss of its fix included, while nothing is played, and otherwise reports on the route being played), `DepartureAnswered`, `RunEnds` | two routes and three commands: start, the reroute, and commands in the middle of either; two playback threads: one given up by its join beside a new one |
| `NavigationRuntime_planner` | **violation**, finding 3 | |
| `ReceiverSession` | `Detached`, `OneReceiver`, `StaysClosed`, `ViewTruthful`, `LoadingEnds` | two panels one after the other, so that work of the first meets the second; four requests: a launch of each, and two of tune, NOAA and tracking |

The type invariants are theorems (section 5) and no run repeats them, except that of `SpotifyAccount`, whose
`TypeOK` also says that the controller is busy exactly while it has an operation.  Deadlock is not checked: each
bounded instance comes to rest when its bounds are used up or after close.
That nothing hangs is what `NoDeadlockedSet`, `ShutdownCompletes`, `CloseCompletes`, `RunEnds`, `LoadingEnds` and the other
liveness properties say.

### Exceptions written into properties

Some properties hold only outside a case the code does not cover.  The case is named
in the property, not hidden in the model; without it TLC finds a counterexample.

- `BarsAgree`, `LossDisables`, `FollowsInternet`: not after a save that raised `OSError`, until one
  succeeds. The event has left its queue by then and nothing repeats it.
- `ConnectedTruthful`: not for tokens the playback worker wrote, nor for a read that the dialog took
  down when it was closed with its own request pending (`_sequence` is shared), nor after a failed read.
- `Released`, `PlayerRuns`: not when requests overlapped. An activation does not look at its
  generation again between registering its pair and waiting for the device.
- `PlayerRuns`: the browser may have ended by itself (`ended`); nothing notices, and the mode stays PLAYER.
- `ExclusiveShown`, `VisibleTruthful`, `ShutdownStopsApps`: not for an application that is `astray`. A peer whose `stop` raises
  stays on the screen, since the exception is logged and swallowed (`app_runtime_manager.py:265`); a dashboard whose browser the user
  closes stays in `_visible` (line 137) while its server runs; a Streamlit server found by its pattern is not ended by `stop`
  (`streamlit_launcher.py:86`).
- `ExclusiveShown` is checked with one caller, and no persistent member in the group: two callers may each find the other's
  application not yet running and show both, and a persistent peer can be shown by the preload worker beside another.
  The persistent policy is unused in `config/applications.toml`.  The proof makes these exceptions precise (`OneCaller`,
  `GroupsKept`, section 5).
- Two restarts in one group could deadlock; `NoDeadlockedSet` holds for one
  restartable application per group, which is the hypothesis of its proof.
- `ShutdownStopsApps`: not for an application the preload worker starts by itself; `stop_all` does not wait for it.  It is checked with
  one caller: a show on another thread may come after the stop of its application.
- `OneRoute`: not once a command has changed the session in the middle of a turn (`overlapped`): the
  two threads have no common lock, and section 6 lists what TLC shows without the exception. In a run without such a command it
  also says that the loop does not end by a route torn between two assignments, by a session taken away or by an estimator stopped under it.
- `DepartureAnswered`: not while there is no fix, without which the policy is not asked. The departure is kept in the policy
  (`since`), so it is answered once a fix is found and stays.
- `OneReceiver`: not while the thread that closes the dashboard is at work (`stopping`), nor for a readsb that is `unowned`, until a
  dashboard is opened or a stop takes effect.
- `Detached`: the dashboard of a panel that is gone is open no longer than its closing takes, unless that fails or its launch
  failed with the browser up (`stuck`).
- `ViewTruthful`: not for a panel whose latest launch failed; the view of before is kept.

What a property's environment leaves out: the probe of `Connectivity` always answers, true or false (`internet_access.py:14` catches
`OSError` and `ValueError`; any other exception of `http.client` would end the probe thread with the flag set); the callbacks
of `StateIngress` return (one that raises ends the drain, `core_runtime.py:197`).

## 4. Fairness

| Specification | Weakly fair | Why the code justifies it |
|---|---|---|
| `AppRuntime!FairSpec` | each thread's steps inside a call | threads run; a launcher call returns or raises (its waits for processes, ports and windows have deadlines). A waiting thread is not helped: `Enter` is enabled only while the lock is free |
| `Connectivity!FairSpec` | poll, probe answers, monitor | the poll reschedules itself on the Tk timer, the HTTPS probe has a timeout, `nmcli monitor` is read by its own thread. Toggles, world, failing saves and restarts are not fair |
| `StateIngress!FairSpec` | receiver, workers, close, drain | `receive` polls with a timeout of 100 ms, handlers return, the drain is a timer, `close` is one call |
| `SpotifyLocalPlayer!FairSpec` | each thread | host, launch and device wait all have timeouts. No browser need register or end |
| `NavigationRuntime!FairSpec` | main thread, command thread, cooldown; `PolicyAsks` strongly | both threads run and the planner answers or raises within its time-out. The policy asks when a departure has lasted, and it is disabled while the position is back on the route: strong fairness says that a departure that returns for ever outlives its delay once. Nobody need keep or find a fix, raise, or send a command |
| `ReceiverSession!FairSpec` | executor, closing thread, service shutdown, retirement | the worker runs and every launch step has a deadline; retiring is one call of the UI thread |

`GamesSession` and `SpotifyAccount` are checked for safety only, under `Spec`.

No fairness is assumed of users, networks, processes that may exit, or of starting calls.

## 5. Proofs

`AppRuntimeProofs` proves, for every set of applications and callers, every
assignment of policies, groups and launcher kinds, and every failing launcher
(from `ThreadsAssumption`, `LauncherAssumption` and `PolicyAssumption` of
`AppRuntime`, which TLC evaluates in its runs):

- `TypeCorrect`: `Spec => []TypeOK`. Calls nest at most three deep and only
  registered applications are visible.
- `LocksHeld`: `Spec => []LifecycleLocked`, and from it `Serialized`: `Spec => []LauncherSerialized`.
- `PersistentProcessKept`: `Spec => PersistentKept`, an action property.
- `VisibleIsOnScreen`: `Spec => []VisibleTruthful`.

Three more hold under hypotheses on the constants, each satisfied by those of a run and each needed:

- `NoDeadlock`: `Spec => []NoDeadlockedSet` if no two applications of one group are `Restartable`. The shell restarts one
  application only; the mutant `RequestAnyRestart` shows the deadlock of two restarts that close each other.
- `GroupsExclusive`: `Spec => []ExclusiveShown` if the public methods are called from one thread
  (`OneCaller`) and in groups no member is persistent and one that is preloaded can be preloaded off screen or as a window
  (`GroupsKept`). Launchers may raise, refuse and miss as they like. Two callers can show two members at a time,
  each closing a peer that is not up yet; with a persistent member the preload worker is such a second caller, and what it
  prewarms it starts without closing anybody. The worker
  threads of orcUi use SDR++ and the media browsers, which belong to no group (`radio_application_service.py:52`,
  `managed_browser_media_player.py:93`, `config/applications.toml`); the model lets every caller ask for every application, so the hypothesis is on the callers.
- `NothingLeftRunning`: `Spec => []ShutdownStopsApps` if there is one caller, for any launchers.

The argument.  `LifecycleLocked` is not inductive: a nested method on the same application
re-enters a lock its thread already holds, and when it returns nothing in
`LifecycleLocked` says that the outer method still holds it.  `IInv` adds

- `Outermost`: of the frames of one thread on one application, only the
  outermost is marked as the one that releases the lock;
- `Held`: a frame past its `Enter`, or raising, holds the lock of its application;
- `StackOK` with `Rank`: which methods can be below which others, giving the depth bound;
- `FrameOK`: a frame is at a step its method has, on a registered application.

A step of a thread does one of four things to its stack, and each has a lemma:
stay (`StayStep`), replace the top frame (`ReplaceStep`), push a callee (`PushStep`), pop, with or without
releasing (`PopStep`).  `OneStack` shows that the other threads are not disturbed, since a lock changes
hands only between free and this thread.  The actions then follow one by one, and
`Inductive` combines them.  `Serialized` follows from `LocksHeld`: two threads in one
launcher would both hold its lock.

The other results are built on `IInv` in layers, each an invariant with a lemma per kind of step:

- `CallsInv` (`CallsNested`): which method calls which, on which application, and at which of its steps it waits for the
  callee; only the preload worker preloads.  So a frame that ends a persistent process is no close, and a close has a reason.
- `OwnerInv` (`LocksOwned`): the converse of `Held`, a lock that is taken belongs to a frame that will release it. In
  a deadlocked set somebody who waits for a peer holds a lock of the same group by restart; the thread that holds
  the peer waits in turn for a lock of the group, and so also holds by restart: two restartable peers.
- `VisInv`: a live application that is off the screen, and not astray, is out of `_visible`, or a thread is about to take it out,
  inside its lock; nobody is about to mark it visible. It needs `AppExits` and `WindowCloses` to be told apart: a window that goes
  while its process stays makes its application astray, and no other step leaves one off the screen unmarked.
- `ScreenInv`: what is on the screen runs, or is astray.
- `ClosedInv`: a close that has dealt with its launcher, raised included, has left its application off the screen or astray.
- `RivalInv`: the registered peers that a show has dealt with are not settled on the screen, and no application is settled beside a visible peer
  that is. Between the two windows of a prewarm, shown and not yet hidden, an application does not count (`Warming`): its lock is
  held. Registration comes before the first show, so that no peer appears that a show did not know of.
- `ShutInv`: after the end of the runtime the caller is in `stop_all`, and every registered application started on demand that
  runs, and is not astray, is one it still has to stop.

`ConnectivityProofs` proves all safety properties of `Connectivity` for every probe
period, number of events and number of restarts (from `BoundsAssumption`):
`TypeCorrect`, `SavedModeHolds`, `OneProbeHolds`, `BarsAgreeHolds`, `LossDisablesHolds`, and the
action property `OutdatedIgnoredHolds`.  Its `IInv` adds

- `EventsInv`: a network event has room to be counted while it is still in the queue, so the generation stays in its type;
- `ProbeInv`: while a probe is active it is either one thread or one queued result, and it is
  `outdated` exactly when its generation is not the current one, which is the comparison the code makes;
- `ShownInv`, `LossInv`: `BarsAgree` and `LossDisables` without "between polls": they hold at every point inside
  a poll. After a loss a probe that is still active is outdated, so its answer cannot undo the loss.

`SavedMode` rests on two facts about `OnlineMode`: a save writes what `Load` would read back
(`UpdateMode`), and a save that raises changes nothing (`SameMode`).

`StateIngressProofs` begins with what every module over `MessageDispatcher` may use, for any number of workers, topics and messages
(from `DispatcherAssumption`).  `DispatcherInv` adds to the types

- `CloseInv`: what close has left behind at each of its steps; once the executor is shut down its queue is empty and the receiver
  cannot be on its way to `submit`, because it was joined first;
- `OrderInv`: ids grow from `begun` over the queue and the receiver's hand to the socket;
- `RunningInv`: what runs has begun, and no message is at two workers.

`DispatcherInductive` and `DeliveryStep` are about single steps, so that a module that adds state of
its own only shows that its steps are steps of the dispatcher (`StepOfDispatcher`).  The second half
concludes `SubmitNeverRefusedHolds`, `ReceptionSurvivesHolds` (only a payload that is no JSON object ends
reception), `DeliveryImplemented` (the refinement), `TypeCorrect` and `NothingLeftHolds`. `NothingLeft` needs `CloseFollows`: the UI thread is back in its main loop after close only when the
dispatcher is done, hence no worker runs, hence none has passed the check of `_schedule_state`.

`GamesProofs` proves `TypeCorrect`, `GameOwnedHolds`, `RetiredHolds`, `EmbeddedLatestHolds`,
`CleanupStopsOwnHolds` and `ReturnsHolds` for any number of threads, screens and launches (from `GamesAssumption`).  The properties
speak of what is embedded and stopped; what makes them inductive is what the threads still hold.  `IInv` is `TypeOK` and

- `WorkInv`: what each thread and each queued callback has in hand, at each of its places;
- `QueueInv`: what waits for the UI thread is of a launch that was made;
- `OwnInv`: what a stop has in hand is never newer than the latest launch, and once it has stopped the
  latest nothing is left until the next launch.

`Returns` says what holds when everything has run, so its invariant says what is still to come.  `RestInv`, until close, is

- `WorkFit`, `EventFit`, `ExitFit`: work, a callback or an exit that carries the current generation means that a game is played; and a
  stop or cleanup of the latest launch that the session will not act upon finds that game retired already;
- `PlayInv`: a game that is played has a screen, and any other screen is the browser;
- `ComingInv`: a session that is `stopping` has a cleanup of the latest launch on its way; a pending stop has its report, and while
  a game is played also the stop itself; a game that is played without a process has a stop or its exit on the way.

A generation that is passed makes all that was under way of no account (`NewTime`), a step that passes none keeps what each
thing meant (`SameTime`), and what a thread had promised it has posted when it ends (`ThreadStep`).  `GamesAssumption` says of `NoProcess`
only that it is no process.

`SpotifyAccountProofs` proves `TypeCorrect`, `BusyHasWorkHolds`, `ConnectedTruthfulHolds` and `SavedWhileShownHolds` for any size of
executor, number of requests, mode changes, queued callbacks and features (from the assumptions of `SpotifyAccount`).
What makes them inductive is to read all that is under way against the sequence number (`AccountInductive`):

- `JobsInv`, `EventsInv`: a job or callback is of this time or an earlier one; a read is of an earlier time while an operation is
  pending; and what one of this time has heard of the token file still holds, unless `unread`;
- `OpInv`, `LoneInv`: the pending operation is the newest, of a view that is up, and one request's only;
- `WorkInv`: it is worked on, or its outcome is on the way, which is `BusyHasWork`;
- `CoverInv`: a screen that does not say what the token file says has an operation pending or a read of this time on its way,
  which is `ConnectedTruthful` when everything is quiet.

`DisconnectHoldsAlone` proves `DisconnectHolds` if `Features` has no playback worker: all other requests, reads and
cancellations are innocent of finding 2.

`SpotifyLocalPlayerProofs` proves `TypeCorrect`, `ReleasedHolds` and `PlayerRunsHolds`. Both properties except overlapping
requests, and its invariant `Calm` says why that is enough: without overlap there is one thread, and the
place it has reached determines the mode, the registered pair, the host and its device; the browser is that pair's or has
ended by itself.

`NavigationProofs` proves, for any number of playback threads, destinations, routes and commands:

- `TypeInvariant`, which includes that the lifecycle lock is held by the thread that is inside a call;
- `DeliveryTheorem` from `ReportInv`: a stop or a start under way has no playback and no current
  playback thread, and what a current thread is about to report lies on the route being played;
- `RetireTheorem` from `RetireInv`: nothing plays once the sources are released, nor while a command that has
  stopped the playback is under way; before that what plays, or is about to, has a session;
- `OneRouteTheorem` from `OneInv`: while nothing has overlapped, also with sensors, planner and publisher that raise, session, guidance, measure and progress agree except
  at the two places of a thread between installing a route and adopting it, and what a thread holds is still the session's.

`ReceiverProofs` proves `TypeCorrect`, `DetachedHolds`, `OneReceiverHolds`, `StaysClosedHolds` and `ViewTruthfulHolds` for any number
of panels and requests.  Its `IInv` is `TypeOK` and

- `LifeInv`: one panel is open at a time; a panel not opened yet, or gone, holds nothing;
- `WorkInv`: while a launch is under way the other sessions hold nothing (`Alone`), nor does its own before it
  embeds (`Bare`); which jobs start what (`Purposes`); NOAA is through before a panel shows (`NoaaFirst`);
- `ReceiverInv`: an ADS-B launch past its relinquishing has no SDR++ beside it, and for readsb and the dashboard there is
  always somebody who answers: a session that holds the dashboard, its closing thread, or the failure recorded in `unowned` and `stuck`;
- `ServiceInv`: SDR++ comes up under the operation lock, so that close waits for it;
- `ShownInv`: what the panel says, by the place of the job (`SaysLoading`, `EmbedsShown`, `Explained`).

Only model-checked: the liveness properties `ShutdownCompletes`, `FollowsInternet`, `CloseCompletes`, `Shown`, `Settles`,
`DepartureAnswered`, `RunEnds` and `LoadingEnds`, since liveness under fairness is beyond the installed
provers.  Every safety property of a passing run is a theorem.  The three violations are counterexamples of TLC and need no proof.

## 6. Findings

1. `games_session.py:178`. A stop checks its binding and reads the launch to stop afterwards; if
   the screen is left, shown again and a new game started in between, the new game is stopped.
2. `spotify_auth.py:157`. A token renewal by the playback worker that began
   before a disconnect writes the tokens back after it.
3. `navigation_session_controller.py:56`. When the planner cannot answer one reroute the exception leaves `run()`, and
   telemetry and commands end with it.

`PROJECT.json` quotes, for each, the line of the repository that says otherwise.

Observations made while modelling, where no line of the repository says otherwise or the case is outside a run:

- *Application runtime.* The user closes the browser of a dashboard: `is_visible` goes on to report it while its server runs. Two
  callers may show two members of a group. A process found by its pattern and not started here survives
  `stop` of a Streamlit dashboard (`streamlit_launcher.py:86`).  An application whose policy is preload but whose launcher can neither preload nor be windowed is put
  on the screen by the preload worker, beside another member of its group; if it exited earlier it may still be reported visible. `stop_all` neither stops nor waits for the preload worker
  (`app_runtime_manager.py:197`, `car_ui_runtime.py:70`), which may start an application after it.
- *Games.* After a stale stop `_active_game_id` stays set: launches are refused until the screen is left.
- *Spotify.* When the browser of the local player ends by itself the mode stays PLAYER, and a request for
  PLAYER, which would start it again, returns at once (`spotify_local_player.py:122`).  With no tokens the playback worker signs in by itself on the redirect port of a sign-in the user
  may have begun (`spotify_auth.py:66`).
- *Messages.* A payload that is no JSON object ends reception (`subscriber.py:66`); the caches of
  `common/telemetry` keep the older of two states when two workers overtake each other.
- *Navigation, two threads without a lock.* A cancellation while a reroute is planned makes the adoption
  raise an `AttributeError`, or is undone by it; a start at the same time can leave the old route with the new destination; a
  calibration stops the estimator under the loop; an arrival stops a playback that has just been started.
- *Navigation, others.* A reroute does not stop the playback of the route it replaces
  (`docs/idd/navigation_command_service.md:151`). A command server that dies makes `run()` return normally, so the
  exit status is 0 and systemd's `Restart=on-failure` does not restart it.
- *Receiver.* `toggle_adsb` relinquishes RF only if it is `presented`, never true of an embedded
  SDR++, although `composition/radio.py:275` says "An explicit ADS-B selection wins the shared SDR"; the
  launcher of the dashboard leaves readsb running when it raises after starting it; a stop of readsb that systemd
  refuses or does not answer in time is ignored (`adsb_launcher.py:143`, `adsb_control.py:126`), and a browser that cannot be stopped is logged and the
  service left running (`adsb_control.py:159`); SDR++ may start
  while the thread that closes the dashboard still holds the receiver; a return to RF from ADS-B within another action
  that then fails is not cleaned up; a failed launch leaves the view of before; a tracking
  request queued before a close runs after it; `rf_radio_session.py:21` says that clean-up stays on the
  serial executor, `deactivate` does it on the UI thread.

## 7. Not modelled, and why

`PROJECT.json` lists every component with its reason.  In short: formatting, widgets and
layout; numerical parts (filters, geometry, signal processing, decoding tables); native renderers and
external engines (Valhalla, ZeroMQ itself, browsers), which appear only as an environment;
configuration parsers; demonstrations and retired programs; installation scripts.
Within the modelled parts: logging, wording, time-out lengths, window geometry, and message payloads beyond
the kinds that take different paths.

## 8. Plan

Done, in this order: application runtime, connectivity, bus and
ingress, games, Spotify account and player, receiver sessions, navigation runtime; proofs of all their safety properties.

Left, by importance:

1. **SpotifyStateService**: polling against commands; composed with the account's token file.
2. **TripTracker**: status machine and totals over late and out-of-order samples, fed by one
   worker; a property that a completed trip is final (some observers return only for IDLE).
3. **GameInventory**: scans that finish after an installation or a launch, and the cache they save
   (`game_controller.py:205`).
4. **Service hosts**: start order, signals, shutdown of all in one process.
5. OBD-II scheduler, streaming radio, weather alerts, if worth a model of their own.

Abstract specifications: `Delivery` is stated and proved to be implemented. Worth stating next, each by INSTANCE with a
refinement mapping: a *lifecycle lock per application* (`AppRuntime`: at most one thread uses a launcher);
a *closable worker* that has no effects once closed (`StateIngress`, `GamesSession`, `ReceiverSession`); a *persisted
preference* (`Connectivity`: memory and file change in one step or not at all).

Theorems worth proving next: the refinements above.
