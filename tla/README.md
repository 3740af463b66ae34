# TLA+ models of WebKit2's process pool and its helpers

This directory holds TLA+ specifications of the code under `src/`. They cover:

- how `WebProcessPool` (`src/UIProcess/WebProcessPool.cpp`) chooses, reuses and disconnects web content processes;
- how the pool handles GPU process crashes;
- the pool's service worker processes and gamepad tracking;
- its process-pool creation listeners;
- the plug-in process lifetime (`src/PluginProcess/PluginProcess.cpp`);
- the threaded compositor's run loop (`CompositingRunLoop.cpp`).

Each specification is checked with TLC. `PROJECT.json` lists:

- the components;
- the runs and their properties;
- the mutants that show each property can fail;
- the map from every TLA+ definition to the source lines it models;
- the findings and the hazards.

## 1. The system

### Components and their state

**WebProcessPool: web content processes.** This is `WebProcessPool.cpp`. Its state:

- `m_processes`: every `WebProcessProxy` the pool owns, in creation order.
- `m_prewarmedProcess`: a process launched ahead of time without a data store.
- `m_dummyProcessProxies`: per session, a proxy whose process is not launched yet. It is used for delayed launch.
- `m_swappedProcessesPerRegistrableDomain`: a debug map of raw pointers to processes a page swapped away from.
- The configuration flags: single process, process swap on navigation, always keep swapped processes, delayed launch, and automatic warming.
- `m_processTerminationEnabled`.

Its operations:

- `createWebPage`: related page, dummy proxy, or a chosen process.
- `processForNavigation` and `processForNavigationInternal`: the process-swap decision. It is a chain of early returns.
- `processForRegistrableDomain`, which tries in order the WebProcessCache, a suspended page's process, the prewarmed process, a new process, and, in single-process mode, a scan of `m_processes`.
- `tryTakePrewarmedProcess`, `prewarmProcess` and `didReachGoodTimeToPrewarm`.
- `disconnectProcess`, `enableProcessTermination`, `shouldTerminate` and `handleMemoryPressureWarning`.

The pool interacts with three parts that are not under `src/`. They are modelled from the contract `spec.md` gives them (sections 3, 4.2, 4.3) and are marked `spec_modelled` in the map:

- `WebProcessProxy` (page hosting, registrable domain, termination, shutdown);
- `WebProcessCache`, an LRU of idle processes keyed by (registrable domain, data store);
- the back/forward cache of `SuspendedPageProxy` objects.

**WebProcessPool: GPU process.** This covers `ensureGPUProcess`, `gpuProcessCrashed` and `getGPUProcessConnection`.

- State: `m_gpuProcess`, `m_recentGPUProcessCrashCount` and the one-shot `m_resetGPUProcessCrashCountTimer`.
- On a crash, every web process is told. The crash is counted. A count above `maximumGPUProcessRelaunchAttemptsBeforeKillingWebProcesses` (2) terminates all web content processes. Otherwise the reset timer is armed if it is not active.
- A connection request whose answer is an invalid identifier is retried once, provided the pool and the web process still exist.
- `GPUProcessProxy` fails pending requests when it crashes. It is outside `src/` and is modelled from the spec.

**WebProcessPool: service worker processes.** `establishWorkerContextConnectionToNetworkProcess` (lines 544-596) gets a request for a data store and a registrable domain. Unless a separate process is required, it reuses the first process of `m_processes` that has the same store and domain and is neither prewarmed nor a dummy; that process leaves the WebProcessCache. Otherwise it creates a process. `removeFromServiceWorkerProcesses`, the `disconnectProcess` hook (957-958), `networkProcessCrashed` and `terminateServiceWorkers` take processes out of the set.

**WebProcessPool: gamepads.** Web processes send `StartedUsingGamepads` and `StoppedUsingGamepads`. The pool keeps `m_processesUsingGamepads` and is registered with `UIGamepadProvider` while that set is not empty (lines 1562-1598). `disconnectProcess` (966-967) and the destructor (353-355) deregister.

**WebProcessPool: creation listeners.** `registerProcessPoolCreationListener` and `unregisterProcessPoolCreationListener` keep a static map from identifier to function. The constructor dispatches `notifyThisWebProcessPoolWasCreated` to the main run loop behind a weak pointer (318-326). That function snapshots the identifiers, and for each one moves the function out of the map, calls it, and moves it back if the identifier is still registered (199-227). A listener may register, unregister or create a pool while it is called.

**PluginProcess.** A child process serving plug-ins. `initializePluginProcess` sets a minimum lifetime, a termination timeout and a low-memory handler. `createWebProcessConnection` disables termination and increments the plug-in module's load count for the first connection. `removeWebProcessConnection` decrements it when the last connection goes and enables termination. The module is loaded lazily by `netscapePluginModule`, also from the website data requests. `ChildProcess` (its termination counter and timer) and `NetscapePluginModule` (its load count) are outside `src/` and are modelled from their use here.

**CompositingRunLoop.** Two threads. The main thread hands functions to the compositing thread's `RunLoop` (`performTask`). `performTaskSync` also waits on `m_dispatchSyncCondition` under `m_dispatchSyncConditionMutex` until the compositing thread has run the function. The compositing thread runs the functions and a one-shot update timer. In `WaitUntilNextFrame` mode the timer is delayed to one frame after `m_lastUpdateTime`.

**ScrollGestureController (WPE).** `handleEvent` turns the touch events of one finger into 2D axis (scroll) events. A down event records the start point and clears the axis locks. Motion events do nothing until the gesture is captured, when the finger has moved a line step or stayed down for 200 ms. From then on each motion emits the movement since the last event. A mostly horizontal or vertical gesture is locked to its axis until the finger moves 30 px on the other axis. An up event of a captured gesture emits the end phase and clears `m_handling`.

**WebKitDownloadClient (GTK).** The network process reports a download through `DownloadProxy` callbacks: start, response, destination, data, then one of finish, fail or cancel. Every callback looks the `WebKitDownload` up in the web context, creating it if missing. A terminal callback removes it. The application may cancel at any time. The `WebKitDownload` is marked cancelled at once, and callbacks the network process already sent still arrive, so `didFail` reports a cancelled download as cancelled (line 80). `WebProcessPool::download` creates the `DownloadProxy`.

**Media playback assertion.** Web processes playing audible media hold tokens of `m_webProcessWithAudibleMediaCounter`. Its callback runs `updateAudibleMediaAssertions` on every change. That function takes a UI-process assertion (and one on the GPU process, if there is one) when the count leaves zero, and releases it when the count returns to zero.

**WebProcessPool: settings fan-out.** Many pool settings are stored in the pool and also sent to every web process. `sendToAllProcesses` (through `canSendMessage`) reaches launching and running processes. A new process gets the stored settings in its `WebProcessCreationParameters` (`initializeNewWebProcess`, 768-879), plus an automation session proxy message if a session is set. The memory sampler is instead started when a process finishes launching (909-935), if it is enabled. URL schemes (1265-1278), the memory cache flag (1679-1683), the memory sampler (1437-1468) and the automation session (1494-1510) are the settings modelled; each is one of the shapes the other setters share. A registered secure scheme is stored in the global `LegacyGlobalSettings`, so a new process of any pool gets it, yet it is sent only to the registering pool's processes.

**Not modelled:**

- the other settings setters: they have the shapes modelled above (store and send, or send only, as `setCanHandleHTTPSServerTrustEvaluation` and the cache model do) and add no new interleaving;
- the network process side of the settings (`sendToNetworkingProcess`): the network process is not under `src/`;
- `_WKInspectorDelegate.h`: a protocol declaration with no behaviour.

### The hard behaviours

- **Asynchronous decisions.** A back/forward navigation to an item with a suspended page waits in `waitUntilReadyToUnsuspend` (line 1845). Before the callback runs, the source process can crash and be disconnected, and the suspended page can disappear. The outer completion handler (lines 1785-1805) then runs with a `sourceProcess` chosen earlier.
- **Stale references.** Three references can outlive the process they name: the prewarmed process may have exited unnoticed (line 661), a back/forward item's process may sit in the WebProcessCache (line 1856), and the swapped map holds raw pointers (line 1799). The swapped map never meets the cache: it is used only with AlwaysKeepAndReuseSwappedProcesses, under which `shouldTerminate` is false (899-907) and no process is cached.
- **Order of clean-up.** `disconnectProcess` must clear every container that names the process. Memory pressure clears the back/forward cache before the WebProcessCache.
- **Crash windows and retries.** The GPU crash count is reset by a one-shot timer. Each connection request gets one retry.
- **Re-entrant callbacks.** A creation listener runs while the notification loop holds a snapshot of identifiers and an iterator into the map.
- **Counters that must balance.** The plug-in process's termination counter and the module's load count are changed by different operations, one of which may load the module lazily.
- **Events arriving after a decision.** A download cancelled by the application can still receive the network process's `didFail`; a touch gesture's state (`m_handling`, the axis locks) must not leak into the next gesture.
- **Two threads and a condition variable.** `performTaskSync` relies on the mutex to avoid a lost notification; its wait has no predicate loop, which is sound because `WTF::Condition` wakes only on a notify.

### Properties per component

Process pool:

- Data-store isolation.
- Cached and prewarmed processes are idle.
- No container refers to a disconnected process.
- A cross-site navigation gets a process that has shown only the target site.
- A cross-site navigation changes process.
- Once no page uses an ephemeral data store, the cache holds none of its processes (a violation: a spec gap).

Media playback assertion:

- The assertion is held exactly while some web process holds an audible media token.

GPU process:

- The crash count never holds crashes older than the window.
- An invalid connection is reported only after the retry.
- Every request is answered.
- A burst of crashes kills the web processes.

Service workers and gamepads:

- `serviceWorkerProcesses()` is exactly the live processes running service workers.
- A reused process matches the context's store and domain and is out of the cache.
- The pool is registered with the gamepad provider exactly while a connected process uses gamepads.
- With `s_useSeparateServiceWorkerProcess` set, service workers run only in processes created for them.

Creation listeners:

- No empty (moved-out) function is called, and no function after it was unregistered.
- A listener registered for the whole notification is called; every live pool is eventually announced.

Plug-in process:

- `NP_Shutdown` (load count reaching zero) never happens before the process exits.
- The process exits with connections only after the UI process closed; an idle process eventually exits.

Touch scrolling:

- Events scroll only once the current touch was captured.
- An axis lock, once released, stays released for the gesture.

Downloads:

- A cancelled download is never reported failed, and one `WebKitDownload` serves a whole download.
- Every download ends and leaves the web context.

Compositing run loop:

- The two threads implement an abstract FIFO task runner; `performTaskSync` returns.
- `WaitUntilNextFrame` updates are at least a frame apart.

## 2. Modules

| Module | Models | Composed with |
|---|---|---|
| `WebProcessPool` | the web content process half of the pool, with the WebProcessCache, the back/forward cache and the page commit per spec.md | (none) |
| `GPUProcess` | the GPU half of the pool and the GPUProcessProxy contract | (none) |
| `ServiceWorkers` | service worker processes and the network process crash | `ProcessSideChannels` |
| `Gamepads` | gamepad use tracking | `ProcessSideChannels` |
| `ProcessSideChannels` | both of the above on the same processes, with one `disconnectProcess` | instantiates `ServiceWorkers`, `Gamepads` |
| `ProcessPoolCreationListeners` | the listener map, pool creation and the dispatched notification | `IndependentComponents` |
| `AudibleMedia` | the audible media counter, its tokens, the media playback assertion and the GPU process it may cover | `IndependentComponents` |
| `PluginProcess` | the plug-in process, with ChildProcess's termination and the module's load count | `IndependentComponents` |
| `ScrollGestureController` | `handleEvent` and the finger that drives it | `IndependentComponents` |
| `DownloadClient` | the download callbacks, the web context's download map, the network process and the application's cancel | `IndependentComponents` |
| `PoolConfiguration` | the pool's settings, their broadcast to web processes, the creation parameters and each process's view of the settings | `IndependentComponents` |
| `IndependentComponents` | the disjoint union of `PluginProcess`, `ScrollGestureController`, `DownloadClient`, `AudibleMedia`, `ProcessPoolCreationListeners` and `PoolConfiguration` | instantiates all six |
| `CompositingRunLoopAbstract` | what the run loop promises: FIFO tasks, synchronous calls | refined by `CompositingRunLoop` |
| `CompositingRunLoop` | the two threads, the mutex and condition, the update timer | instantiates `CompositingRunLoopAbstract` |
| `MC_*` | model values, symmetry sets and bounds for TLC | instantiate the module of the same name |

### `WebProcessPool`

**Variables.** Each variable stands for a field of the pool or of the objects it talks to:

| Variable | Stands for |
|---|---|
| `processes` | `m_processes`, as a sequence |
| `proxies` | existing `WebProcessProxy` objects |
| `terminated` | exited OS processes |
| `dummy`, `dummyFor` | the dummy proxies and `m_dummyProcessProxies` |
| `procStore` | each process's data store |
| `procDomain` | `WebProcessProxy::registrableDomain` |
| `committed` | `hasCommittedAnyProvisionalLoads` |
| `prewarmed` | `m_prewarmedProcess` |
| `processCache` | the LRU WebProcessCache |
| `suspended` | suspended pages |
| `swappedPerDomain` | the swapped map (`m_swappedProcessesPerRegistrableDomain`) |
| `sessionPages` | `m_sessionToPageIDsMap` |
| `closed` | closed pages; page identifiers are not reused |
| `pageProc`, `pageStore`, `pageSite`, `pageRelated`, `backItem`, `pending` | per page: its process, data store, current site, related page, back/forward item, and whether it waits for a suspended page |
| `terminationEnabled` | `m_processTerminationEnabled` |
| `clientWouldBenefit` | `clientWouldBenefitFromAutomaticProcessPrewarming` |

Two variables are history, kept only so that properties can speak about the past:

- `procSites`: the sites a process has committed.
- `crossSiteDecision`: the decision taken by the current step if it was a cross-site one, otherwise `None`.

**Actions.** Each action is one handler, run to completion, including the calls it makes.

- `CreateWebPage` is `createWebPage`.
- `Navigate` and `NavigateBack` run `processForNavigationInternal` through `ProcessForNavigation`. That operator keeps the code's chain of early returns as one nested IF, in the code's order. The outer completion handler runs next, and then the page commits (`CommitNavigation`).
- `SuspendedPageReady` is the `waitUntilReadyToUnsuspend` callback.
- `ProcessForRegistrableDomain` takes a continuation `Use(_)`. The process it chooses is passed to the code that uses it, so choice and use form one step, as in the code.
- `PrewarmProcess` and `DidReachGoodTimeToPrewarm` are the prewarming functions.
- `ProcessCrashed` and `ProcessDidTerminate` separate the exit of an OS process from the pool being told. Between the two, the process is terminated but still in `m_processes`.
- `AddProcessToCache` and `MaybeShutDown` are what a process does once it has no pages. Both require the pool's `shouldTerminate` (lines 899-907) for a non-dummy process, since `WebProcessProxy::maybeShutDown` tries the cache only after `canTerminateAuxiliaryProcess` has asked it.
- `ProcessProxyDestroyed` ends a proxy's lifetime, so its id can be reused.
- `ClosePage` is `WebPageProxy::close`: the page's suspended pages and pending navigation go, `PageEndUsingWebsiteDataStore` runs, and the page leaves its process. When the last page of an ephemeral store ends, the cache drops that session's processes (`ClearAllProcessesForSession`). `CreateWebPage` runs `PageBeginUsingWebsiteDataStore`.
- `AddProcessToOriginCacheSet` and `RemoveProcessesFromOriginCacheSet` are the swapped map's helpers, used by the completion handler and by `disconnectProcess`.
- `EnableProcessTermination` and `HandleMemoryPressureWarning` are the functions of the same names.

### `GPUProcess`

**Variables.**

- `gpuRunning`, `recentCrashCount`, `timerActive` and `timerRemaining` are the pool's fields.
- Time advances by `Tick`. The timer's delay is `ResetDelay` ticks.
- Per web process:
  - `proxyExists` and `webAlive`: the proxy object and its OS process;
  - `attempt`: 0, or the attempt in flight, 1 or 2;
  - `inFlight`: waiting for the GPU process, or an invalid answer queued;
  - `outcome`: the last reply.
- History: `crashAges`, `lastKillAge`, `crashesDuring`.

**Actions.**

- `GPUProcessCrashed` is the whole of `gpuProcessCrashed`, including GPUProcessProxy failing the requests in flight and, past the crash threshold, `TerminateAllWebContentProcesses`.
- `ResetCrashCountTimerFired` is the timer lambda.
- `GetGPUProcessConnection`, `GPUProcessAnswered` and `ConnectionFailed` are the request and its callback, including the retry.
- `WebProcessExited`, `WebProcessProxyDestroyed` and `WebProcessLaunched` make the weak pointer to the web process go null.

### `ServiceWorkers`, `Gamepads` and `ProcessSideChannels`

`ServiceWorkers` keeps, per process, what the service worker code reads: `kind` (none, web, prewarmed, dummy, exited), `store`, `domain`, membership of `inCache`, and `workers` (the context's store and domain, or none). `processes` is `m_processes` in order, since the reuse loop takes the first match. `swProcesses` is `serviceWorkerProcesses()`. `useSeparate` is `s_useSeparateServiceWorkerProcess`, and `forWorkers` records the processes made by `createForServiceWorkers`. Its actions are `EstablishWorkerContextConnection(r, q)` (reuse, or create `q`), `DisableServiceWorkers`, `DisconnectProcess`, `NetworkProcessCrashed` (with `TerminateServiceWorkers`), `SetUseSeparateServiceWorkerProcess` (which also terminates the service workers), and the process life the pool gives (`LaunchWebProcess`, `LaunchOtherProcess`, `AddProcessToCache`, `TakeProcessFromCache`).

`Gamepads` keeps, per process, its connection `status`, whether its pages use gamepads (`webUsing`) and the messages in flight (`channel`, FIFO as IPC is). The pool side is `using` (`m_processesUsingGamepads`), `providerPools` (registered with the provider) and `poolAlive`. A message is handled by `StartedUsingGamepads` or `StoppedUsingGamepads`; `DisconnectProcess` drops the messages in flight.

`ProcessSideChannels` runs both on one set of processes. Its `status` follows `kind`, and its `DisconnectProcess` is the two hooks in one step, as in `disconnectProcess`.

### `ProcessPoolCreationListeners`

`listenerMap` maps an identifier to its function, or to `"moved"` while the function is moved out to be called. `nextIdentifier` is the static counter. `runLoop` holds the dispatched notifications, one per created pool. `notifying` is the state of the one running `notifyThisWebProcessPoolWasCreated`: the snapshot of identifiers, the position, the function held, and whether it was called. The loop is split into steps (`NotifyStart`, `FindListener`, `CallListener`, `RestoreFunction`, `FinishNotify`) because the listener's code runs between them. `CallListener` chooses what the listener does: nothing, register, unregister any identifier, or create a pool. The application can also register, unregister and create pools between notifications. `notified`, `unregistered`, `lastCall` and `lastNotification` are history for the properties.

### `PluginProcess`

`phase` (uninitialized, running, exited), `uiClosed`, `connections` (a set of connection ids), `pluginModule` (none, loaded, unloaded) with its `loadCount`, the termination counter and timer of `ChildProcess`, the minimum lifetime timer, and `everUsed`. The actions are the handlers: `InitializePluginProcess`, `CreateWebProcessConnection`, `RemoveWebProcessConnection`, `WebsiteDataRequest` (the three website data messages, which all go through `netscapePluginModule`), `MinimumLifetimeTimerFired`, `TerminationTimerFired`, `LowMemoryHandler` and `DidClose`. Whether the module loads is a choice when `ModuleLoadCanFail`.

### `ScrollGestureController`

The variables are the controller's fields (`startActive`, `startX/Y`, `offsetX/Y`, `handling`, `xLockBroken`, `yLockBroken`, `axisX/Y`, `phase`) and `elapsed`, the time since `m_start.time`, kept only as 0, 100 or "at least the capture threshold". The finger (`fingerDown`, `fingerX/Y`) drives the three actions: `TouchDown`, `TouchMotion` and `TouchUp` call `HandleDown`, `HandleMotion` and `HandleUp`, which are the three branches of `handleEvent`. `AxisLocks` and `Captures` are the lock and capture conditions. History variables (`downX/Y`, `captured`, `scrolledX/Y`, `farX/Y`) record what the finger did, independently of the controller, so that the properties compare the two.

### `DownloadClient`

Per download: the network side (`net`, `sent`, `cancelSeen`), the UI side (`cancelSent`, `inContext`, `download` with its cancelled, response and outcome fields, `appHas`), and history (`created`, `appCancelled`). `NetworkSends` is the network process sending its next callback, which the UI process handles at once (`Handle`, one action per `DownloadClient` method). `AppCancels` is `webkit_download_cancel`; `NetworkReceivesCancel` is the cancel reaching the network process. `StartDownload` is `WebProcessPool::download`.

### `AudibleMedia`

`hasToken` says which web processes hold a token; `counter` is the counter's value. `activityHeld` is `m_audibleMediaActivity`, and `activityGPU` is the GPU process its second assertion is on (0 for none). `gpu` is `m_gpuProcess`, numbered by launch (`launches`). `StartAudibleMedia` and `StopAudibleMedia` take and drop a token, and both run the counter's callback, `UpdateAudibleMediaAssertions`, in the same step, as the RefCounter does. `EnsureGPUProcess` and `GPUProcessCrashed` launch and clear the GPU process. A process that exits drops its token, so a process's exit, including the mass termination in `gpuProcessCrashed`, is a `StopAudibleMedia`.

### `PoolConfiguration`

The pool side is, per pool, the stored settings: `emptyDocSchemes`, `memoryCacheDisabled`, `samplerEnabled`, `automationSession`; `secureSchemes` is global, as `LegacyGlobalSettings` is. The process side is, per web process, `status` (none, launching, running, exited), `poolOf`, `chan` (the IPC messages sent to it and not yet handled, in order) and `view` (the settings the process has applied). `secureVia` records the schemes a pool registered, and `changes` bounds the setter calls. `CreateNewWebProcess` sends the creation parameters (`InitializeNewWebProcess`); `ProcessDidFinishLaunching` starts the sampler; `HandleMessage` applies the head of a channel (`Apply`); `DisconnectProcess` drops the process and its channel. Each setter stores the setting and runs `SendToAllProcesses` in the same step, as the code does on the main thread. `ConfigurationConverges` says that every launching or running process, once it has handled what was sent to it (and, if launching, what `processDidFinishLaunching` will send), agrees with its pool's settings.

### `IndependentComponents`

`PluginProcess`, `ScrollGestureController`, `DownloadClient`, `AudibleMedia`, `ProcessPoolCreationListeners` and `PoolConfiguration` share no state. Checking each in a run of its own would take six runs; their product would multiply the state counts. `IndependentComponents` checks them in one run as a disjoint union: `active`, chosen in `Init`, selects one component, and every step is a step of that component with the others unchanged. The reachable states are the sum of the six state spaces, and each property, being about one component's variables, is checked on exactly that component's behaviours. Each component's fairness is wrapped in the same guard.

### `CompositingRunLoop`

The main thread's `mainPc` goes through `performTaskSync`: lock, dispatch, wait, return. `mutexOwner` is the mutex. `runLoopQueue` is the compositing `RunLoop`'s queue; `compPc` marks the sync lambda blocked on the mutex; `syncRan` tells whether its function ran. `running` and `stopSent` cover `stop()`. The update timer is `timerActive`, `timerDue`, `timerTiming` and `lastUpdateTime`; `now` is the clock in ticks, with `Frame` ticks per frame. `lastFire` and `fired` are history.

### Refinement

`CompositingRunLoopAbstract` is what the run loop promises its callers: a FIFO queue of tasks, each run once; a synchronous call returns only after its task ran; after the stop task nothing runs. `CompositingRunLoop` instantiates it with a refinement mapping (the abstract queue is the run loop's queue, headed by the sync lambda while it is taken but still waits for the mutex; the abstract call is pending from the dispatch until its function ran, and ran until `performTaskSync` returns). `RefinesAbstractRunLoop` checks the abstract safety specification as a `PROPERTY`.

## 3. Runs

Every passing run reaches at least the state counts below and fires every action. Each property of a passing run has a mutant in `PROJECT.json`. A mutant is a plausible bug in a mapped definition, and TLC finds it under that run's cfg.

| Run | cfg | Expect | Checks |
|---|---|---|---|
| `pool_main` | `MC_WebProcessPool.cfg` | pass | `TypeOK` (including that `m_processes` has no duplicates), `DataStoreIsolation`, `CachedProcessesAreIdle`, `NoDanglingProcessReferences`, `PrewarmedProcessIsUnused`, `CrossSiteProcessHostedOnlyTarget` (3 process ids, 2 pages, 2 domains, 2 stores of which one ephemeral, cache of 1, 3 loads, one page close, delayed launch with dummy proxies; ~1M states) |
| `pool_ephemeral` | `MC_WebProcessPool_ephemeral.cfg` | violation | `EphemeralSessionCacheCleared` under the `pool_main` bounds |
| `pool_single` | `MC_WebProcessPool_single.cfg` | violation | `DataStoreIsolation` in single web process mode |
| `pool_crosssite` | `MC_WebProcessPool_crosssite.cfg` | violation | `CrossSiteNavigationSwaps` |
| `pool_keep_dangling` | `MC_WebProcessPool_keep_dangling.cfg` | violation | `NoDanglingProcessReferences` with AlwaysKeepAndReuseSwappedProcesses |
| `gpu_main` | `MC_GPUProcess.cfg` | pass | `TypeOK`, `CrashCountWithinWindow`, `InvalidReplyOnlyAfterRetry`, liveness `ConnectionRequestAnswered` (2 web processes, 3 GPU crashes, a window of 3 ticks; ~300k states) |
| `gpu_window` | `MC_GPUProcess_window.cfg` | violation | `BurstOfCrashesKills` |
| `crl_main` | `MC_CompositingRunLoop.cfg` | pass | `TypeOK`, `UpdatesPacedByFrame`, the refinement `RefinesAbstractRunLoop`, liveness `SyncCallReturns` (4 tasks, a frame of 2 ticks, a clock of 5) |
| `independent_main` | `MC_IndependentComponents.cfg` | pass | plug-in process: `NoShutdownBeforeExit`, `ExitsOnlyWhenUnused`, liveness `IdleProcessExits` (4 connection ids, the module always loads); touch scrolling: `ScrollOnlyAfterCapture`, the action property `ReleasedAxisFollowsFinger` (positions 0, 10, 20, 35, 45, a line step of 40); downloads: `CancelReportedAsCancel`, liveness `DownloadsForgotten` (2 downloads); media: `AssertionHeldWhileAudible` (3 web processes, 3 GPU launches); creation listeners: `NoEmptyFunctionCalled`, `NeverCalledAfterUnregister`, `RegisteredListenersCalled`, liveness `CreatedPoolNotified` (2 pools, 3 identifiers); settings: `ConfigurationConverges` (2 pools, 2 web processes, 1 URL scheme, 2 setter calls); `TypeOK` of all six (~195k states, about 3 minutes) |
| `plugin_loadfail` | `MC_PluginProcess_loadfail.cfg` | violation | `NoShutdownBeforeExit` when the module can fail to load |
| `sidechannels_main` | `MC_ProcessSideChannels.cfg` | pass | `TypeOK`, `ServiceWorkerProcessesLive`, `ServiceWorkerIsolation`, `ServiceWorkerProcessNotCached`, `SeparateProcessHonoured`, `ProviderTracksUse` (3 processes, 2 stores, 2 domains, one message in flight, the separate-process setting toggled; ~593k states) |

### What the violations show

These are the `findings` in `PROJECT.json`.

- **`pool_single`.** The single-process scan (line 997) demands a matching data store only when the requested store is not the default one. A page of the default store therefore joins a process of another store. This goes against the comment at line 1046 and spec 4.2(e).
- **`pool_crosssite`.** Suppose a page has an empty URL and a related page, and a suspended page of the target domain lives in the page's own process. The decision is "cross-site", yet `processForRegistrableDomain` returns the page's own process (line 980).
- **`pool_ephemeral`.** The last page of an ephemeral data store closes. `pageEndUsingWebsiteDataStore` (line 1119) drops the session's cached processes before the page has left its own process. That process then becomes idle and enters the cache, where it outlives the session. The spec says the map exists for ephemeral-session cleanup, but its cache contract (4.3) admits any process with no foreground page. Keeping the process out needs a check in `WebProcessCache` (outside `src/`) that the spec does not state: a spec gap.
- **`pool_keep_dangling`.** The source process crashes and is disconnected while the navigation waits for a suspended page. The completion handler then re-adds it to the swapped map (line 1799), and the raw pointer left there dangles.
- **`plugin_loadfail`.** If the module fails to load when the first connection is created, the load count is not incremented. A later website data request loads the module (load count 1). Removing the last connection then decrements it to zero (line 82), which calls `NP_Shutdown` while the process keeps running and may get new connections.
- **`gpu_window`.** The reset timer is a one-shot started by the first crash of a window. Three crashes within 30 s that straddle its firing do not terminate the web processes. The spec describes a rolling window.

### Bounds and why they suffice

**Three process ids.** They are enough for:

- a source and a target process;
- a third process in the prewarmed slot, the cache, or the suspended page.

Ids are reused once a proxy is destroyed, so a behaviour can create any number of processes.

**Two of each of the rest.** Two pages allow a related page and a second tenant. Two domains allow cross-site navigation. Two stores allow isolation to be tested.

**One page close.** `MaxClosedPages = 1` lets the last page of the ephemeral store close, with and without a cached process of its session, while the other page keeps running; a second close adds no new case and triples the state space.

**Three loads.** The deepest violation traces take 2 or 3 loads. With delayed launch on, pages start on their session's dummy proxy, and the immediate-launch path is still taken by related pages and by navigations that create a process, so one run covers both.

**GPU bounds.**

- Crashes: 3, one more than the threshold.
- The window: 3 ticks, long enough for crashes to fall on both sides of the timer.
- The window run allows 4 crashes.

**Other bounds.**

- Service workers: three processes let one run workers while another is reused or cached and a third is new; two stores and two domains let a candidate differ from the request in either. One gamepad message in flight lets a process exit with a message undelivered.
- Listeners: three identifiers allow a listener to unregister another, or to register one that the snapshot does not hold; two pools allow a pool created inside a listener and a pool destroyed before its notification runs.
- Plug-in: four connection ids allow overlapping connections and removals around both timers.
- Touch scrolling: positions 0, 10, 20, 35 and 45 give offsets below the movement threshold (8), in the diagonal box (8 to 15), in the activation band (15 to 30), past the release threshold (30) and past a line step (here 40), and a finger can move away and come back. A line step of 40 keeps capture by distance reachable within those positions.
- Downloads: two downloads let one be cancelled while the other runs; every callback of each is enumerated.
- Media: three web processes let tokens be taken and dropped in every order around a held assertion; three GPU launches let the GPU process crash and relaunch while it is held.
- Settings: two web processes, which may belong to the same pool or to different pools, let a setter run while one process launches and the other runs; two setter calls let a setting change twice, or two settings change, around a launch; one scheme suffices because schemes are independent of each other.
- Run loop: four tasks include a sync call, async tasks before and after it, and the stop; a clock of 5 ticks with a frame of 2 lets two updates follow each other in both timer modes.

### Fairness

`WebProcessPool` is checked only for safety, so it has no fairness. `CHECK_DEADLOCK FALSE` is set because the pool can be idle: no page may be loading, and the bounded loads run out.

`GPUProcess` assumes weak fairness of four things:

- time (`Tick`);
- the due timer;
- the GPU process's answer;
- the connection callback.

Each of these is a run-loop event that the main thread eventually handles, or a message the GPU process eventually answers. Crashes and web-process exits have no fairness: they need not happen.

`CompositingRunLoop` assumes weak fairness of each step of `performTaskSync` and of the compositing thread running its queue: both threads are scheduled, and a `RunLoop` runs what is dispatched to it. The abstract specification has the same fairness on running a task and returning.

`ProcessPoolCreationListeners` assumes weak fairness of the run loop's steps (starting, advancing and finishing a notification). The application's actions and the listeners' choices have none.

`PluginProcess` assumes weak fairness of the two timers: an armed `RunLoop::Timer` fires. Connections, removals and data requests need not happen.

`DownloadClient` assumes weak fairness of the network process sending its next callback and of a sent cancel reaching it: the network process works on a download until it ends, and IPC delivers. The application's cancel has none. `ScrollGestureController` and `PoolConfiguration` are checked for safety only. In `IndependentComponents` each fairness condition is taken of the step wrapped for its component, so it constrains only behaviours of that component.

`ProcessSideChannels` is checked for safety only. `CHECK_DEADLOCK FALSE` is set where the system can stop: all processes exited and the pool destroyed, all listeners run, the setter calls used up, the plug-in process exited, the run loop stopped or the tasks used up.

## 4. Plan

**Done.** `WebProcessPool` (with page close and the ephemeral-session cleanup), `AudibleMedia`, `GPUProcess`, `ServiceWorkers` (with `setUseSeparateServiceWorkerProcess`), `Gamepads` and their composition, `ProcessPoolCreationListeners`, `PluginProcess`, `ScrollGestureController`, `DownloadClient`, `CompositingRunLoop` with its abstract specification, and the settings fan-out (`PoolConfiguration`) for four representative settings.

**Next.**

1. Compose `ServiceWorkers` with `WebProcessPool`, so that service worker reuse meets the cache, prewarming and process swap of the pool model.
2. Make ProcessSwapsOnNavigation a variable (the per-page flip at lines 1082-1085), to check the WebProcessCache capacity update.
3. The service worker processes are one global set hosted by the first pool (lines 552-553), yet any pool's `updateServiceWorkerUserAgent` (1091-1098) and its first-page preferences (1066-1071) go to all of them, and a new one gets the first pool's user agent (593-595). With two pools they can disagree; modelling it needs the service worker set and the settings model in one module.
4. A liveness property for `Gamepads` (a process that stopped using gamepads is eventually removed) needs fairness on message delivery.

## 5. Abstractions and what is left out

**Data.**

- URLs are reduced to registrable domains plus `Blank`. `Blank` covers empty, about: and invalid URLs, which the code treats alike at line 1880.
- The `isPageOpenedByDOMShowingInitialEmptyDocument` requester-origin case is folded into the source site.
- `openedByDOMWithOpener` and `hasOpenedFrames` are one boolean, `keepsOpener`.

**Operations with no effect on process choice.** Logging, sandbox extensions, ITP state, the visited-link store, supplements, and `tryPrewarmWithDomainInformation`, which only sends a message.

**Atomic commit.** The page-side commit of a navigation happens atomically with the decision. The code commits later, but it cannot interleave anything with the decision that the model would distinguish; the crash of the source process during the wait is modelled.

**Cache eviction.** The WebProcessCache's eviction timers are not modelled. An idle process either enters the cache or shuts down at once.

**Initial state.** `terminationEnabled` starts `TRUE`. Cocoa applications enable termination immediately, and `EnableProcessTermination` is still an action.

**Touch scrolling.** The header in `src/` lacks `m_start.active` and the axis-lock fields the `.cpp` reads (the two files are from different revisions); the model follows the `.cpp`. Only the WPE >= 1.5.0 branch (2D axis events) is modelled. The diagonal band where both offsets lie between the activation and release thresholds gives zero deltas on both axes; no property is stated about it because nothing in `src/` says what it should do.

**Settings.** A setting's value is a boolean, or a set of scheme model values; the message carries the value. Only the web process side of each setter is modelled. The secure scheme sent only to one pool's processes while stored for all is recorded as a hazard: nothing in `spec.md` or the code says which is intended, so no property states it.

**Downloads.** `WebKitDownload`, the web context and the network process are outside `src/` and are kept to what the client calls on them. Authentication, redirects, file names and data sizes are left out; a callback is handled in the step the network process sends it, since the UI process handles IPC in order.
