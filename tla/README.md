# A TLA+ model of the local browser profile manager

The program keeps a handful of Chrome profiles on one Windows machine: a local HTTP API starts,
stops and drives one Chrome per profile, a registry file remembers them, a management page shows
them. This directory holds its specification in TLA+, the configurations that TLC checks on small
instances, and theorems proved with TLAPS for instances of any size. Line numbers refer to
`src/browser_manager/`.

## 1. Inventory

| Part | State it keeps | Operations | Talks to |
|---|---|---|---|
| Profile lifecycle (`profile_manager.py`) | `_records` and the registry file, `_runtime`, `_lifecycle_locks`, one monitor task per run | `start`, `stop`, `restart`, `status`, `start_many`, `stop_all`, `create`, `_monitor`, `_load` | Chrome processes (PowerShell query, spawn, kill), Playwright/CDP, registry file |
| Process cleanup (`_shutdown_runtime`, 693-762) | `process_ids`, `root_pid` | graceful close, forced kill | Windows processes |
| Network route (`network_config.py`, `proxy_secret_store.py`, `api.py` 529-576) | `record["network"]`, the encrypted secret file | `PUT network`, read at launch | registry file, secret file |
| Fingerprint (`fingerprint_config.py`) | seed and engine digest per record | lock of the digest at the first start | Chrome executable |
| Page registry (`api.py` 262-309, 412-484) | page ids, default page, closed ids, attached pages, dialogs, events, page locks | `_sync_pages`, `_page_for`, popup and dialog callbacks | Playwright context of the runtime |
| Page actions (`api.py` 312-410, 686-915) | none | locate, navigate, click, download ... | Playwright |
| Download tracker (`downloads.py`) | `_downloads`, `_sequence`, one `asyncio.Event` | CDP callbacks, `wait_for_download`, `close` | CDP session of the runtime |
| Service (`server.py`, `instance_lock.py`, `data_root.py`) | instance mutex, data-root marker | start, shutdown | all others |
| UI settings (`local_management_ui.py`) | settings file, `presets_initialized` | bootstrap, `update`, `get_all`, on threads of their own | `create`, `list` of the manager |
| Permissions (`permission_manager.py`) | policies per profile | `configure`, `apply` | Playwright context |
| Browser page (`ui/app.js`) | none that lasts | polls and renders | the API |

The parts interact through one asyncio event loop: API calls, monitors and CDP callbacks are tasks
of it and interleave at every `await`. `start`, `stop` and `restart` of one profile exclude each
other by a lock held across their awaits; `status()` and `_monitor` take no lock. Process queries
run on other threads and may fail or be old when they are read. Outside the loop are the UI's
threads, Chrome, which may exit at any time, and the death of the manager itself, which leaves
browsers and files behind for `_load`.

Hard, therefore, are: answers that are stale when used; records written by two tasks for two
different runs; a start that fails half-way, with a cleanup that fails too; a crash between any two
awaits; a stop that believes in a close that did not happen; two launches on one profile directory;
the limit on profiles running at once. `PROJECT.json` lists these hazards line by line, with the
properties that speak of them and, where none does, the reason.

What makes each part correct:

* lifecycle: no call leaves a transient status, a run is watched, a living browser is not recorded
  as stopped, no launch over a living browser, the limit, calls return, deaths are noticed;
* network: a launch never combines a route with credentials given for another; a failed or
  interrupted change leaves a route that can be used or is refused;
* pages: one id per page and never reused, a page has its listeners, actions that come to a page the
  same way exclude each other, dialogs can be answered, events name the right pages;
* downloads: a waiter gets the first matching download, no completed download is lost;
* service: one manager per data directory, the directory can be used after any death, the shutdown
  ends and leaves no unrecorded browser;
* UI: three presets once, settings never lost.

## 2. Modules

| Module | What it is |
|---|---|
| `ProfileLifecycle` | the lifecycle of browsers under `ProfileManager` |
| `MCProfileLifecycle` | values of its constants for TLC |
| `ProfileLifecycleProofs`, `ProfileLimitProofs` | the theorems about it |
| `ProfileSpec` | what the lifecycle promises a client: the abstract specification |
| `ProfileRefinement`, `ProfileRefinementProofs` | the refinement mapping, and the theorem that `ProfileLifecycle` implements `ProfileSpec` in every launch mode |
| `DownloadTracker`, `MCDownloadTracker`, `DownloadTrackerProofs` | `ProfileDownloadManager` and the download requests |
| `PageRegistry`, `MCPageRegistry` | the page ids of the API |
| `PageRequests`, `MCPageRequests`, `PageRegistryProofs` | extends it: page locks, popups, dialogs, events; the theorems about both |
| `ProxyRoute`, `MCProxyRoute`, `ProxyRouteProofs` | routes and proxy credentials over their two files |
| `ServiceStart`, `MCServiceStart`, `ServiceStartProofs` | processes on one data directory: marker, mutex, presets, settings of the UI |
| `ServiceShutdown`, `MCServiceShutdown`, `ServiceShutdownProofs` | the end of the service over `ProfileSpec`, with calls in flight |

The modules meet at what one promises the other. `ServiceShutdown` composes the shutdown with the
profiles as `ProfileSpec` promises them, and `ProfileLifecycle` keeps that promise
(`LifecycleImplementsSpec`). `PageRequests` extends `PageRegistry` by actions that are steps of it or
leave it alone (`RequestsUseRegistry`). The tracker lives from the start of a profile to its `Close` at
the stop; the page tables are cleared by the stop and restart of `ProfileLifecycle`, which are single
steps there because `_sync_pages` refuses a profile that is not running. `ServiceStart` is about the
processes and files around one such manager: the profiles in it are names in a registry.

### ProfileLifecycle

An action is the code between two awaits, with every synchronous call it makes, the registry save
included. The place where a task is suspended is its `pc`:

| State | Code |
|---|---|
| `records`, `registry` | `_records` and the file: `status`, the class of `last_error` (`recovery_required:`, `process_probe_failed:`, `browser_process_disappeared`, `manager_restarted`, other), whether `root_pid` is set |
| `chrome` | whether a Chrome with the profile's `--user-data-dir` lives |
| `lifecycleLock` | `_lifecycle_locks`, with the task that holds each lock |
| `req` | the calls in flight: operation, profile, the await they are at, the answer they wait for, `attempt`, the failure of the last attempt |
| `runtime`, `mon`, `expected` | `_runtime`, the monitor tasks, and the runtimes whose `expected_stop` is set |

A process query is asked when the task suspends, answered by `ProbeRequest` or `ProbeMonitor` at any
later moment by what is true then (or by an error), and read when the task resumes at any moment
after that: so every answer may be stale when it is used, as long as the code allows. The polling
of `_wait_for_processes` is one such question whose answer decides.

`BeginAttempt`, `Spawn`, `Ready`, `Observed` and their failures follow the three ways
`_start_unlocked` launches Chrome (`LaunchMode`): ordinary Chrome, Chrome with CDP in the background,
and a Playwright persistent context. `StopsRuntime`, `Kill`, `ShutdownReturns` and `EndStop` are
`_stop_unlocked` and `_shutdown_runtime`; restart continues at `EnterStart` without releasing the
lock. `StatusGone`/`StatusClosed` and `MonitorGone`/`MonitorClosed` are split where a Playwright
context is closed in between. `Crash` forgets all memory and keeps files and browsers; `Load` is
`_load`.

Abstractions: the launch mode of a profile is fixed. In the code it changes with the route of a stopped
profile, so what is said of an ordinary profile is said of one that Playwright has not run since the
manager was started: a monitor left from a run under Playwright (hazard `profile_manager.py` 951) may
also meet a later ordinary run, which is not modelled (`ProxyRoute` takes that into account). A failing
write of the registry is not modelled: `TransientHasOwner`, for one, holds as long as every `_save`
succeeds, since a start or stop whose save raises outside its handlers (787-788, 1007-1008) leaves
"starting" or "stopping" behind with no call at work. Further, only the manager launches Chrome on a profile's
directory; a crash strikes at awaits, where the file already holds each status that was saved in
between, or one `_load` treats alike; stage, trace, PIDs and window handles are left out.

### ProfileSpec and ProfileRefinement

`ProfileSpec` has no calls, tasks, locks, answers or retries: of each profile the status a client is
shown, whether its browser lives, and the one piece of work that may be going on (`work`: a preflight,
a launch that Playwright has not made yet, a launch, a stop). It promises that there is one piece at a
time, that a profile with an ordinary Chrome is called "stopped" only without a browser (`Settled`),
that a first launch finds no browser and a place under the limit (`Launch`, `Open`), and that a manager
that was started again knows of each profile that it is stopped or in error (`Load`). It does not
promise what the code does not keep: a retry may launch over a living browser (`Relaunch`), and a
profile may be called an error at any time (`Distrust`); these are the two findings about the
lifecycle, seen from outside.

Of the profiles that Playwright runs (`Driven`) less is promised, because closing a context is an await:
the run of a profile may be forgotten while it is still called "running", and is settled by the next stop
or restart (`Orphaned`), and the end of an earlier run may be written over a later one (`Mistake`, hazard
`profile_manager.py` 951). All else holds of them too. `server.py` 94-99 makes every profile without a
proxy password an ordinary one.

The mapping takes `status` and `browser` from `records` and `chrome`, `Driven` from `LaunchMode`, and
`work` from the place of the request that holds the profile's lock (`Work`).

### DownloadTracker

| State | Code |
|---|---|
| `sequence`, `downloads`, `closed` | `_sequence`, `_downloads` (number, url and name as one key, result or error), `_closed` |
| `changed` | the flag of `_changed`, the `asyncio.Event` that all requests of the profile share |
| `waiter` | the download requests in flight: the await they are at, their marker, the key they look for, the download they answered with |
| `chrome`, `keyOf` | what Chrome has reported of each download; external |

`OnDownloadWillBegin`, `OnProgress`, `OnCompleted` and `OnFailed` are the CDP callbacks, `TakeMarker`
and `WaitForDownload` the request up to its first await, `WaitForChange` and `TimeOut` its
continuations, `Look` the loop of `wait_for_download` with the event flag as it finds it. Chrome is
assumed to report the beginning of a download before its progress, its end once, and no download
twice; a download that is active when the tracker attaches is seen by its progress only, without url
and name. Playwright may report the download to the request before the tracker hears of it.

`inlineWait` is chosen at the start. Since Python 3.12 `asyncio.wait_for` awaits `Event.wait` in the
calling task, so that looking and going to sleep are one step; earlier it made a task, and another
request may clear the event in between (`EnterWait`). `NoSleepOverAnswer` is stated for the first
case. In the second a request may sleep over its file until the next event or its time-out.

A failed download whose error cannot be saved (`_record_download_error` calls `_save`) wakes nobody:
`OnFailed` allows both, and `NoSleepOverAnswer` therefore speaks of files and of `Close`. Of the close it
says that everyone is woken, not what is found then: `close` forgets the results it has (hazard
`downloads.py` 204, which no property covers).

### PageRegistry

| State | Code |
|---|---|
| `registry`, `next`, `default`, `closedIds` | `_page_registry`, `_page_next_number`, `_default_page_id`, `_closed_page_ids` of one profile |
| `attached`, `listeners` | `_attached_page_objects` (object ids, shared by all profiles), and how often a page's listeners were set |
| `running`, `live`, `addr` | the manager's record, `context.pages`, the address of each page object |
| `given`, `past` | what clients have seen: the page of each id, and the ids of earlier runs |

`SyncPages` is `_sync_pages` with `_attach_page_events`, which have no await. The page endpoints call
it before and after what they ask of the browser, and what they ask is `PageOpens` and `PageCloses`, which
happen by themselves as well. `Start`, `Stop` and `Restart` are the endpoints, `RunLost` the end of a
run without them. `_start_unlocked` records "running" and returns without an await, so that no request
registers a page of the new run before `Restart` has cleared the tables. An address is used again as
soon as neither the context nor the registry holds its object, as CPython does; Playwright may hold an
object longer, which only allows less.

### PageRequests

| State | Code |
|---|---|
| `locks`, `req` | `_page_locks`, and the requests under way: an action with the key of its lock and the page it took, a POST pages with the page it opened, an answer with the dialog it took |
| `dialogs`, `nextDialog`, `events` | `_dialogs`, `_dialog_next`, `_events` of one profile; events are a set, without numbers and times |
| `opener`, `popups`, `dialogPage`, `open`, `announced` | the browser: who opened a popup, the page of a dialog, the dialogs shown, and the callbacks (`create_task`, 308-309) that have not run |

`BeginAction` is `_handle_client` from the lock to `_page_for` inside, without an await between;
`EndAction` the end of the request, with the `_sync_pages` that closing a page makes. A request that
waits for its lock has done nothing, so it has not begun. Between the two the browser does what it likes,
by the action or by itself: `Opens`, `PopupOpens`, `Closes`, `DialogOpens`. `POST pages` holds no lock
(941 looks for five segments of the path): `NewPageOpens` is the end of the browser's `new_page`,
`NavigateNewPage` what follows its await, the registering of the page up to its navigation, and `EndPost`
the rest. `Sync` is the requests that only read pages: `GET pages`, `GET page` and `GET events`; they take no
lock either. `BeginAnswer`,
`BrowserAnswers` and `EndAnswer` are the two awaits of accept and dismiss, over which a stop or restart
may clear the table. `RegisterPopup` and `RegisterDialog` run at any time after the page announced them,
in a later run too. `Lifecycle` is start, stop and restart with the rest of `_clear_profile_pages`.

Two things are so and are not asked of the code. Requests that work on one page exclude each other only if
they came to it the same way: a page has two locks, its id and "default", and the `POST pages` that opened it
may still be navigating it without one (two tries of 30 s) when its id is already listed. So three requests
may work on a page at once, and `ActionsExcludeEachOther` says that there are never two of one way. And a
dialog whose page closed stays listed, and its answers fail, until the next stop or restart.

### ServiceStart

| State | Code |
|---|---|
| `root` | the data directory: absent, without marker, with a marker that is emptied and not filled, marked |
| `holder` | the Windows mutex of `instance_lock.py` |
| `registry`, `file` | `registry.json` (the ids in it) and `ui-settings.json` |
| `pc`, `known`, `adding`, `mem` | of each process: its place in `run`, `_records`, the record `create` has put there and not saved, `UISettingsStore._data` |
| `ui` | the requests for settings, each on a thread of a process |
| `created`, `answered`, `cut`, `failures` | history: the creations and PUTs that succeeded, and what deaths, failed writes and late threads left half done |

`Begin` to `ReadMarker` are `require_safe_product_data_root` and `initialize_canonical_data_root`, which
two processes may mix since nobody holds the mutex yet; `write_text` is its opening, which empties the
file, and its writing. `Acquire` is the mutex, not waited for. `Load`, `Create`, `SaveCreated`,
`MarkInitialized` and `EnsurePresets` are the loading of both files and `bootstrap_presets`; `Create`
and `SaveCreated` are two steps since the UI's threads look between them. `List`, `Listed`,
`EnsureListed` and `Put` are GET and PUT of settings: the list of the records without a lock, which
raises when the event loop added one meanwhile, `ensure_profiles` and the store under the settings' lock.
`Close`, `Release` and `Exit` are the end of a process; the UI's request threads are daemons and go on
until `Exit`. Any write may fail, `MaxFailures` times, and any process die at any step.

Abstractions: the process is started with the product's ports (others skip the marker, 50-51); presets
are created in any order; a file that is replaced by `os.replace` changes at once; the settings of a
profile are one value.

### ServiceShutdown

| State | Code |
|---|---|
| those of `ProfileSpec` | the profiles |
| `phase` | the process: serving, interrupted, the API closing, `stop_all` at work, ended in order or not |
| `waits` | whether `Server.wait_closed` waits for open connections (Python 3.12.1 and later) |
| `calls`, `lost` | the lifecycle calls in flight for each profile, and how many of them have lost their connection |
| `todo`, `closes`, `missed` | the profiles `stop_all` found, those it is stopping now, and those with a call in flight when it looked |

Every step of `ProfileSpec` is somebody's: a call's (`CallBegins`, `CallWorks`, `CallOpens`,
`CallReturns`), `stop_all`'s (`CloseBegins`, `CloseEnds`), or nobody's (`Notice`). `StopListening` comes
after the Playwright driver was closed (the end of `async with`), during which calls are still accepted.
A connection is not its call: asyncio's server forgets a connection that the client resets
(`Disconnect`), while `_handle_client`, which nothing cancels, goes on with its call. `Look` is the end
of `wait_closed` with the look of `stop_all`, which have no await between; where `wait_closed` waits, it
waits for the calls that still have their connection, so that calls may be in flight at the look with
every version of Python. `Exit` cancels what is still in flight. A stop that raises ends `gather`, so the
service, and is a death (`Die`).

### ProxyRoute

| State | Code |
|---|---|
| `network`, `registry` | `record["network"]` of each profile and the same in the registry file; a route is one value, with or without basic authentication |
| `secrets`, `secretFile` | the store's table and its file; a pair of credentials is the route it was sent with |
| `put` | a `PUT network` between its two halves |
| `status`, `browser` | the lifecycle, reduced to stopped and up; what each living browser was launched with |
| `driven` | the profiles that Playwright has run since the manager was started: those launched with a basic route |
| `stray` | a history variable: profiles whose living browser was recorded as stopped |
| `torn` | a history variable: profiles with a change that failed or was cut short and was not made good |

`PutNetwork` is the request up to `configure_network`: the credentials are stored, kept or cleared, and
a write that raises leaves the changed table behind and ends the request. `ConfigureNetwork` is the
rest. The request has no await, so that only the death of the manager (`Restart`, which includes the
new `_load` of both files) comes between. Every write writes all profiles: `Save`, or a request for
another profile, writes what an earlier failed write left in memory. `Start` saves the record before it
launches; when that raises, the record is no longer stopped.

A profile is recorded as stopped when its browser is gone, which `ProfileLifecycle` proves for ordinary
Chrome. For Playwright profiles, which all basic routes are (`server.py` 94-99), there is one exception,
`Mistake` in `ProfileSpec`: a monitor that outlived two runs. `Stop` allows it for every profile in `driven`;
the monitors end with the manager. The `PUT network` that is accepted then changes the route shown and not
the one in use: the profile is in `stray` until its browser exits, and `LiveRouteIsShown` and, for the
credentials of the browser, `CredentialsOfRoute` leave it out. The next start finds the browser in its
preflight and launches nothing (`Opened`).

What is *not* so, and stated as the exception of `CredentialsOfRoute`: after a change was cut between
the two files, or a write of the credentials failed, the old route goes with the new credentials, and a
`PUT` of the old route without credentials succeeds without ending it. Also, when the write of `clear`
fails, the next `clear` finds nothing in memory and writes nothing, so that the credentials stay in the
file; no route uses them.

## 3. Runs

| Run | Shows | Bounds |
|---|---|---|
| `native_requests` | the safety properties of an ordinary Chrome profile, that no call goes in circles, and that the lifecycle implements `ProfileSpec` | 3 calls in flight, 1 retry, 2 runtimes |
| `playwright_requests` | the same hazards and the same refinement when launching and closing a context are awaits | 2 calls, 1 retry, 2 runtimes |
| `soft_limit` | the limit, and true disappearances, without `status()` | 2 profiles, native and background, limit 1, 2 calls, no retry |
| `progress` | liveness under fairness | 2 calls, 1 retry |
| `downloads` | no request sleeps over its answer, and an answer is the first match | 3 downloads, 2 keys, 2 requests, both ways to wait |
| `pages` | ids never move, requests at work on a page came to it in different ways, dialogs stay listed, events name their pages | 3 pages and 2 dialogs over all runs (`MaxObjects` 4), 2 addresses, 2 requests |
| `routes` | credentials go with their route, the route shown is the one in use, but for a browser recorded as stopped | 2 profiles, 2 authenticated proxies and the direct route |
| `service_start` | marker, mutex, registry and settings over races and deaths | 2 processes, 2 threads, 2 profiles (both presets), 1 value, 1 failing write (`MaxFailures`), 1 kind of cut (`OneCut`) |
| `shutdown` | the shutdown ends, and what it leaves | an ordinary and a Playwright profile, limit 1, 2 calls for each (`MaxCalls`) |
| `retry_launch` | the retry loop launches over a living Chrome (finding) | 2 calls |
| `stale_status` | `status()` declares a living, newer run dead (finding) | 2 calls |
| `pages_of_earlier_run` | page ids of a lost run are known in the next (finding) | 2 pages |

Why the bounds suffice. Profiles share nothing but the limit and the file, so one profile shows all
interference between calls and monitors, and two show the limit. Three calls are one that works,
one that is queued behind it and one `status()` with an old answer. One retry distinguishes the
first from a later attempt. `Monitors` bounds the runtimes that exist at once, not over time: an
identity is taken again when nothing names it. A native profile never needs more than one live
monitor and one old table entry (`OneMonitorPerProfile`). In Playwright modes every start inside a
`status()` that closes a context can leave one monitor behind; two runtimes bound this to one such
monitor. Clients call `start`, `stop`, `restart` and `status` in any order and for ever, and the
manager may crash and come back for ever.

`soft_limit` leaves `status()` out because with it both properties fail: a stale answer turns a
starting or running profile into an error, which frees its place while its Chrome lives. That is the
`stale_status` finding. The limit exceeded by a `status()` (hazard `profile_manager.py` 477) is therefore
covered by no property.

Two requests are one that waits and one that clears the event they share; three downloads are the one
that is waited for, an earlier one and a later one of the same name. A request slot is taken again when
its request ends, so that requests follow each other for ever. Three pages are two open together, or a
page and its popup, and one of the next run; with two addresses the third has the address of an earlier
one while the other is open. Two requests show any two ways to one page, and the property compares two;
three at work on one page at once are in the proof. Two dialogs are two that are open on two pages, or
one that is answered late and one of the next run. `FewObjects` counts the pages, dialogs and popups in
use and the `POST pages` under way, and stops behaviours beyond `MaxObjects`; what it cuts off is proved.

Two processes race, and one follows the other for ever, since a process that ended is started again; two
threads are one of the old process and one of the new, or two that store settings of two profiles. The
deaths of a process are not bounded; `OneCut` leaves a behaviour after the second *kind* of cut, because
each kind only weakens a property of its own.

Two calls for one profile are one that holds its lock and one behind it; two profiles with one place
make calls that are refused. The calls in flight at `stop_all`'s look are the interesting ones: without
`waits` any, with it those that have lost their connection.

Two profiles share the two files of `routes`; two proxies are the old and the new one of
a change, and all routes without authentication behave as the direct one does.

Fairness of `progress`. Weak fairness of each task's steps: the event loop
resumes what is ready, and every query answers or times out after 10 s (145). Strong fairness of the
lock: `asyncio.Lock` wakes waiters in order. Strong fairness of a monitor's query that does not
fail: a query repeated for ever succeeds some time. Calls, deaths of Chrome, crashes and restarts of
the manager are not assumed. That Playwright's close returns is part of the tasks' weak fairness.

Fairness of `shutdown` (`Fairness` in `ServiceShutdown`). Weak fairness of the return of calls, of
Playwright's launch (`CallOpens`), of `stop_all`'s stops and of the steps of the process: the event loop
runs what can run, and every await of a start or stop has a time-out (or fails once the driver is
closed); that calls return is what `progress` checks of `ProfileLifecycle`. Weak suffices for the stop
that waits for a lock, because a call that holds it returns, no call arrives after `StopListening`, and
so from some time on the lock is free for good. Interrupts, new calls, lost connections and deaths are
not assumed.

Each property has a mutant of the code, given in `PROJECT.json`, under which TLC finds it violated:
a lock not released on an error path, a failed probe taken for "no process", a monitor that returns
instead of continuing, a task not cancelled, and so on. The mutated operators stand before the
originals and are used nowhere else.

## 4. Findings

* `retry_launch`: both handlers of a failed attempt wait for the processes to go and discard the
  answer (888-891, 914-917); the loop then launches again without the preflight of
  `_ensure_profile_processes_absent`. After a kill that failed, or a probe that failed while Chrome
  lived, the second Chrome meets the first on one directory. `PROJECT_STATE.md` 105-106 promises a
  strict preflight before any Chrome is started.
* `stale_status`: `status()` uses its answer after the await without looking whether the run is
  still the one it asked about (974-992). A call that saw the old browser gone marks the restarted
  one `browser_process_disappeared`, drops its runtime and cancels its monitor.
  `PROJECT_STATE.md` 175-177 reports that no such false disappearance was observed.
* `pages_of_earlier_run`: `start` leaves the page tables alone, and they are cleared only after a stop
  or a restart that return (`api.py` 672-684). After the browser disappeared, or a restart raised, the
  next run still knows the page ids of the earlier one and answers them `page_closed` (409) where an
  unknown id is `page_not_found` (404). The comment at `api.py` 145-146 says that page ids are for one
  browser run and are discarded when a context restarts. No id comes to mean another page
  (`HandleMeansOnePage`).

## 5. Proofs

`ProfileLifecycleProofs` proves, from the named assumptions of `ProfileLifecycle` (constants of the
right type, null values outside their sets), for every number of profiles, calls and runtimes, every
mixture of launch modes and any limit and number of retries:

| Theorem | Property |
|---|---|
| `TypeCorrect` | `TypeOK` |
| `TransientOwned` | `TransientHasOwner` |
| `FirstLaunchSafe` | `FirstLaunchFindsNoBrowser` |
| `RunsAreWatched` | `RunningIsWatched` |
| `MonitorIsUnique` | `OneMonitorPerProfile` |
| `NativeIsKnown` | `NativeNeverForgotten` |
| `OrphansAreReported` | `OrphanReported` |
| `CallsBounded` | `CallsAdvance` |
| `LocksAreHeld` | a lock is held by the request at work on its profile, and a request that waits holds none |

The argument. (1) `TypeInv` adds to the types what a task's place says about its other fields.
(2) Every action is shown to be of one of about fifteen *kinds* (`Kinds`): what it does to places,
locks, statuses, runtimes and browsers, and nothing else. The invariants are proved of the kinds, so
the records and updates of the actions are looked at once. (3) `LockSafe`, the first inductive
invariant: whoever is between acquiring and releasing holds the lock of its profile and nobody else
does (`LockInv`), nothing runs while the manager is down (`DownInv`), a preflight that answered
"absent" is still right until the first launch (`LaunchInv`), runtimes and their monitors belong to
one profile and those in the table are not expected to stop (`RuntimeInv`), and
`TransientHasOwner` itself. (4) `RunningIsWatched` is inductive on top of it. (5) `NativeSafe` adds,
for ordinary Chrome, the agreement of file and memory (`RegistryAgrees`), the statuses possible
while a request is at work (`NativePhase`), and that a live monitor is that of the table's runtime
of a running profile (`NativeMonitors`): a stale monitor therefore never writes "stopped" for a
browser that lives, which is what `NativeKnown` needs. `OrphanReported` follows without induction.

`CallsAdvance` is the part of `EveryRequestReturns` that is within reach: `Rank` counts the places a call
still has before it, and every step of the call lowers it while no other task touches it. The kinds say
from which places to which a step leads and what it does to `attempt`; `RetryCounts` and `LowerPlace` do
the arithmetic once. With `LocksAreHeld`, which rules out that two calls wait for each other, it leaves to
TLC only that the steps are taken.

`ProfileLimitProofs` proves `SoftLimitRespected` and `NoFalseDisappearance` for every launch mode under
the assumption that `"status" \notin Ops`, that of the `soft_limit` run (`LimitHolds`,
`DisappearancesAreTrue`); with `status()` both fail, which is the `stale_status` finding. The invariant
adds that a launch in progress has its status (`QuietPhase`) and that a living monitor belongs to its
profile's run (`QuietMonitors`), so that nothing but a start raises the count, and it looks before. For
the disappearances it adds that a monitor's answer "absent" is right until it is used (`GoneInv`): nobody
launches where a monitor still watches.

`ProfileRefinementProofs` proves `Spec => ImplementsProfileSpec` (`LifecycleImplementsSpec`) for every
mixture of launch modes. Its invariant (`Mapped`) is `NativeSafe`, `RunningIsWatched` and that a preflight is
made for a profile called "stopped" or "error" (`CheckInv`). The steps are taken by the kinds of (2): most
show nothing (`Stutters`), since an answer, a wait or a `status()` changes neither status nor the place
that `Work` reads; each of the others is one action of `ProfileSpec`. What needs the invariants: the
monitor of an ordinary profile never writes "stopped" over a living browser, the owner of a lock is at
work on that profile and no other, a stop that finds no runtime finds an error or a Playwright profile
(`StoppedOrOrphaned`), and Playwright's first launch still finds no browser.

`DownloadTrackerProofs` proves `TypeOK`, `NoSleepOverAnswer` and `AnswerIsFirstMatch` (theorems
`TypeCorrect`, `NoLostWakeUp`, `FirstMatchAnswered`) for any number of downloads, requests and keys.
The invariant adds `EventsInOrder` to the properties: a download without a number has not been seen,
no number is above the counter, and an outcome is final. Hence an entry made later has a greater
number than every match there is and cannot become the first, and `EntryChange` says what a new or
changed entry does to the first match of any marker and key. `LoneRequestWakes` is about the other
way to wait, before Python 3.12: where there is one request, the flag still tells its task of a file or a
close that came before the task first ran (`LoneInv`), so that what may be overslept is only an event that
another request cleared.

`PageRegistryProofs` proves `TypeOK`, `HandleMeansOnePage` and `OpenPageKeepsHandle` (`TypeCorrect`,
`HandlesAreUnambiguous`, `HandlesAreStable`) for any finite number of pages and any addresses.
`HandleMeansOnePage` is not inductive: after the tables are cleared, nothing in it says that an open
page is not given a second id. The invariant adds that the ids below `next` are the given ones, each to
a page of its own (`GivenInOrder`, `GivenOnce`), that a page with an id is in the registry as long as it
is open (`OpenStaysRegistered`), and that open pages have addresses. `EnoughHandles` counts: the pages
given an id and those about to be are different, so that `next` stays within the number of pages plus
one, which is the part of `TypeOK` that is no matter of types.
`PagesAreHeardOnce` proves `HeardOnceUnlessReused` of `Spec`; its invariant says that an open page that is
listened to is known by its address, and that each address known is that of a page that is or was
listened to (`HeardInv`).

The same module proves of `SpecRequests` that it implements `Spec` (`RequestsUseRegistry`), so that all
of this holds with requests as well, and `TypeOKRequests`, `ActionsExcludeEachOther`,
`OpenDialogIsListed`, `EventsNameKnownPages` and `PopupNamesItsPages` (`RequestsTyped`,
`ActionsAreExclusive`, `DialogsStayListed`, `EventsAreKnown`, `PopupsAreNamed`), for any finite number of
pages and dialogs and any requests. The invariant (`RequestsInv`) adds: who acts holds the lock of its
key, and an id is the page's for ever (`LocksHeld`); a page that a `POST pages` opened had been opened by
nobody before, so that no two of them navigate one page (`NewPagesApart`); dialog numbers are given in
order and once (`DialogsCounted`), and an answer under way has a number that was given to its dialog, so
that it cannot remove another's entry, of this run or a later one (`AnswersKnown`); a page in the events
was given its id (`EventsGiven`).

`ProxyRouteProofs` proves `TypeOK`, `CredentialsOfRoute`, `LiveRouteIsShown` and `RouteIsKept`
(`TypeCorrect`, `CredentialsStay`, `ShownRouteIsUsed`, `RouteStays`) for any profiles and routes. The
invariant says what the files hold as well (a restart turns them into memory): without a failed change
file and memory agree and the credentials are those of the route, of the new route while a change is
between its halves (`AgreeInv`); credentials that came with a change are in table and file
(`GivenInv`), which is why its success makes good what was torn; a change is of a stopped profile
(`ChangeInv`), and the route of a browser that was not recorded as stopped is in memory and file, and its
profile is up (`BrowserInv`), so that no change touches it.

`ServiceStartProofs` proves all five properties of `ServiceStart` for any numbers of processes, threads,
profiles and failing writes. The invariant says that exactly the holder of the mutex is between `load`
and its release (`Owner`); that it knows all that the registry file has (`KnownIsMore`); that an
incomplete registry belongs to a bootstrap that goes on, or was cut (`PresetsInv`); and that the answered
PUTs are in the holder's memory as well as in the file (`SettingsInv`), so that whatever is stored next
has them. A process that has released the mutex has threads still (`ThreadsInv`): they are the exception
of `SettingsKept`, and they touch neither registry nor records.

`ServiceShutdownProofs` proves `TypeOK`, `SettledAtExit` and `NoLateLaunch` (`TypeCorrect`,
`ExitIsSettled`, `LaunchesAreKnown`) for any profiles and calls: work at a profile belongs to a call in
flight or to `stop_all`, and a profile that `stop_all` has left alone since its look is stopped, an
error, or missed. How many connections are lost (`CallsType`) does not matter to either property: what
counts is whether a call is in flight at the look, not whether its client is still there.
`ServiceKeepsSpec` proves `SpecService => Spec`: the shutdown and the calls it races with stay within
what `ProfileSpec` promises.

Only model-checked: the liveness properties `EveryRequestReturns`, `DeadBrowserIsNoticed` and
`ShutdownEnds`; the prover does not reason about `ENABLED`, and so not about fairness. Every safety property
of a passing run is a theorem.

## 6. Not modelled

* Page actions, window control, HTTP parsing and CORS, static files, permission tables, `ui/app.js`
  and the encryption of secrets: sequential calls into other software, or tables without a rule that
  could be broken. Their failures appear as failures of the steps that use them.
* Which PIDs a cleanup kills. `ProfileLifecycle` kills "the browser of the profile". The hazard at
  `profile_manager.py` 743, a recorded `root_pid` that Windows has given to another process, depends on
  Windows alone; a model could only show what it assumes.
* The digest of the browser executable (`_ensure_fingerprint_engine`, 312-320): one synchronous
  comparison at each start, whose failure is one of those of an attempt.
* `start_many` limits how many starts are under way by a semaphore; it is several calls of `start`.
* Python before 3.12 in `NoSleepOverAnswer`, and failing registry writes in `ProfileLifecycle` and
  `ServiceShutdown` (there a death).

## 7. Plan

Done: `ProfileLifecycle` and its refinement of `ProfileSpec`, `ProxyRoute`, `PageRegistry` with
`PageRequests`, `DownloadTracker`, `ServiceStart` (with the UI's settings) and `ServiceShutdown`.

What would add most next:

1. Failing registry writes in `ProfileLifecycle`: a start or stop whose `_save` raises leaves memory and
   file apart.
2. `ProcessCleanup`, with PIDs that are given again.
