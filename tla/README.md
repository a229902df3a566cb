# A verification project for py_fuzz

`py_fuzz` fuzzes CPython with AFL++ inside small virtual machines and shows the
crashes it finds in a browser dashboard. This directory models the parts of it
where the order of events decides whether it is correct, checks them with TLC on
small instances and proves what it can with TLAPS for every instance.

Paths below are those of the repository; `src/src/pfui` and `src/src/pyfuzz` are
its two live Python packages.

## 1. Inventory

### 1.1 The system's parts

| Part | State it keeps | Operations | Interacts with |
|---|---|---|---|
| **Task registry** (`pfui/tasks.py`) | the list of tracked tasks, the counter, the asyncio task, waiter and finalizer of each, the closing flag | `start`, `run_tracked`, `set_progress`, `stop`, `snapshot`, `running`, `_on_done`, `_finalize`, `close` | called by the handlers; broadcasts through the server |
| **WebSocket server** (`pfui/app.py`, `protocol.py`) | the set of connections, a lock per connection, the requests in flight, the shutting-down event | handshake, `session.ready`, requests, broadcast, disconnect, `close_clients`, cleanup | tabs; the registry |
| **Request handlers** (`pfui/handlers.py`) | none | 25 methods; those that start tasks: fuzz, build, clean, analyze-all, classify, lldb, analyze, ask-llm | the registry, the services below |
| **Fuzzing campaigns** (`_fuzz_action`, `pyfuzz/fuzz.py`, `env.py`, `runners/pfrun.py`) | a worker per instance, the VM process of each, the log streams, the monitor | gather, failure, stop, reap (SIGTERM, 10 s, SIGKILL) | one `pfrun` process per worker; the project's directories |
| **Artifact store** (`pyfuzz/analysis.py`, `lldb.py`) | `artifacts/<hash>/`: `meta.json`, `lldb.txt`, the analyze marker | `sync_artifacts`, `analyze_artifact`, `link_cores`, list, views | AFL's outputs and cores; threads of the server; LLDB VMs |
| **Browser client** (`pfui/web/src/protocol/client.ts`, `app/App.tsx`) | socket, pending requests with timers, reconnect timer; the selected project, what was loaded for it, generations | connect, close, request, timeout, reconnect; select, load, follow tasks | the server |
| **pfrun** (`pfrun/runner/main.swift`, `images/base/build/pfm-run`) | the VM's state, the exit code the guest reports, one-shot `finish` | boot, timeout, guest stop, stop request, error | the guest's `run.sh`; its parent |
| **Input tracking** (`helpers/fuzz_python.c`; `pyfuzz/trackscript.py`) | append-only data files and indexes for each worker | append, find by pid, read inputs and output, number and write reproducers | the harness writes while the analysis reads |
| **Crash minimizer** (`helpers/minimize_crash.py`) | the sections, wrappers and statements left, the script written | bisect or remove one by one, unwrap, cut statements, strip | runs the target again and again |
| **Builds** (`pyfuzz/build.py`, `packages.py`, `fuzzdict.py`, `build_progress.py`, `clean.py`) | checkouts, wheelhouse, what is installed, timing history | plan, check out, fetch, run the build VMs, verify, record timings, estimate, clean | build VMs; one history file for all projects |
| **Model answers** (`pyfuzz/llm.py`, `stackfault.py`, `analysis_query.py`) | result files next to the artifact | classify, describe, choose artifacts by clauses | an HTTP service; the artifact store |
| **Projects and inputs** (`project.py`, `inputs.py`, `project_service.py`, `input_service.py`) | `project.json`, input files | create, edit, load, update; add, remove, replace inputs | the command line and the dashboard's handlers, at once |
| **Campaign statistics** (`summary.py`, `monitor.py`, `trend_service.py`) | the magnitude announced last | summarize, announce, draw a trend | AFL's `fuzzer_stats` and `plot_data` |
| **Container jobs** (`pyfuzz/dist.py`, `docker/dist`, `docker/bisect`) | a build cache shared by all projects; git's bisect state | build or reuse, run a script; bisect | git, make, the container runtime |
| **LLDB driver** (`helpers/lldb_analyze.py`) | the target's process and its pending events | load a core or launch, wait, describe, write | LLDB; the analysis that started it |
| **Legacy dashboard** (`src/src/ui`) | tasks, windows, the launcher's two processes | as registry and server; launch | superseded by `pfui`, still shipped |
| **AFL mutator** (`pymutate`) | seed, counter, the outputs seen | `mutate_stacked`, twelve sub-mutators | AFL++ loads it |
| **Command line, PR helper** | none | one operation each | the parts above |

### 1.2 Where it is hard

* *One event loop, many suspension points.* Everything in the server runs on one
  asyncio loop; between two awaits nothing interferes, at every await anything may.
  A stop is asynchronous (`cancel()` only asks), the end of a task is announced by
  a callback in a later turn, and its entry is removed by a coroutine after that.
* *Threads.* `asyncio.to_thread` work cannot be cancelled, goes on when the request that
  waits for it is, and interleaves with the loop between any two system calls.
* *Processes.* A VM may exit at any time, ignore SIGTERM, or exit with an error
  while its siblings go on. Cancellations arrive while other cancellations are
  still being carried out.
* *Shutdown.* Requests, broadcasts and handshakes are in progress when it begins.
* *Files without locks.* `meta.json`, the timing history, the project files, result files
  and the build cache are rewritten by whoever changes them; some in place, some through a
  temporary file.
* *Readers of files that grow.* Track logs and indexes are read by pid while children of
  the harness append to them and die anywhere.
* *Targets that cannot be trusted.* A crash may be flaky, a target may hang, exit or exec
  before anyone looks, a virtual machine may stop before it has said how the command ended.

`PROJECT.json` ("hazards") lists these places line by line with the properties that
cover each.

### 1.3 What makes each part correct

* Registry: an exclusive key excludes *executing* work; statuses say how the work
  ended; whatever executes is listed and can be stopped; shutdown reaps what it
  can and waits for nothing else; finished entries do not change and go away.
* Server: a tab is never left behind, never goes back in time, never keeps a
  request that is nobody's.
* Campaigns: a campaign that is over has no VM on the project; a stop ends it; the
  server's end leaves no VM behind; builds and cleans begin on a quiet project.
* Artifact store: a source becomes an artifact; no directory stays half made; links are
  mutual; a marker means that the analysis is there; and it is known who can spoil a file.
* Browser client: connections are neither multiplied nor given up; what is shown belongs
  to what is selected; no spinner is left turning; a saved grouping is one that was asked
  for.
* pfrun: the exit code is the command's, or it is known why not; a run that has a timeout ends.
* Tracking: what is read of a pid is of that pid, and a record cut short shifts nothing;
  reproducers keep their numbers.
* Minimizer: what is written over the last reproducer crashed, or differs from what did in
  a known way; nothing that could be dropped alone is left; the result is where a reader
  looks.
* Builds: success means installed, packages have what they need; no timing is lost unless
  two builds overlap; an estimate stays within bounds and does not go back.
* Model answers: a result file is a whole answer of the request that may write it.
* Projects: only an editor, or what one has made unreadable, breaks `project.json`; a
  created project is complete.
* Statistics: a magnitude is announced once.
* Container jobs: what the cache calls complete is whole; bisect reports the first bad
  commit of those that can be built.
* LLDB driver: what it diagnoses is the crash, and it ends whatever the target does.
* Legacy dashboard: a project is fuzzed by one campaign; windows show the list when it has
  been sent; the launcher leaves no server behind.

## 2. Modules

```
ExclusiveJobs  <--implements--  TaskManager  <--EXTENDS--  PfuiServer
                                     |                         |
                            TaskManager_proofs           (Handlers gives the
                                                          requests of both MCs)
FuzzSession    (rests on the promise of ExclusiveJobs)
ArtifactStore  (the threads and coroutines that sync and analyze tasks run)
ProtocolClient <--EXTENDS-- Dashboard   (the tab; the server is its environment)

PfrunRunner   TrackLog   Minimizer   BuildPipeline   ArtifactReports
ProjectFiles  FuzzStats  DockerJobs  LldbDriver      LegacyDashboard
        \______________________ Components _____________________/
                                     |
                               MCComponents
   (TaskManager, PfuiServer, FuzzSession, ArtifactStore, Dashboard with its
    client, BuildPipeline: each with its _proofs;
    TrackLog and Minimizer: Reproducers_proofs;
    the other seven and all ten together: Components_proofs)
```

* **`ExclusiveJobs`** - what the registry promises: begin (if the key is free), end,
  forget. No loop, callbacks or shutdown.
* **`TaskManager`** - `pfui/tasks.py`, operation by operation. `status`, `tasks`,
  `job` and `finished` are the fields of `TrackedTask` and `TaskManager`; `aio` is the
  asyncio task behind an entry, `waiter` the request suspended in `run_tracked()`,
  `finalizer` the `_finalize()` coroutine. An action is what the code does between two
  suspension points: `Start` (up to the broadcast it schedules), `Stop` (only asks),
  `Finish` (the coroutine ends, in one of three ways) and `OnDone` (the callback, in a
  later turn), `WaiterWakes`, `FinalizeStart`, `FinalizeExpire`, `Close`, `CloseReaped`.
* **`Handlers`** - which request starts what: key, thread or coroutine, waited for or
  not. The MC modules take their requests from it.
* **`PfuiServer`** - extends `TaskManager` with the tabs: `conn` is the websocket
  handler, `queue` what was sent and has not arrived, `view` what the tab shows,
  `asked` its requests in flight. Every registry action is a step of the server; those
  that end in `broadcast()` also append the snapshot of that moment to every open
  connection. `Disconnect` cancels the requests in flight; `CloseClients` and `Cleanup`
  are the shutdown.
* **`FuzzSession`** - `_fuzz_action()`, the `run_fuzz()` of each worker and its VM, from
  `create_subprocess_exec` (`Boot`, `Connect`) to `reap_process` (`Unwind`, `GraceOver`,
  `Reaped`); the guards of `task_start`; `asyncio.run()`'s final cancellation. `Tell` is
  `task.cancel()`, which does something else at each point where a worker may wait.
* **`ArtifactStore`** - `sync_artifacts()` and `analyze_artifact()` on the files of one
  project. The unit of interleaving is the system call, in threads and in the coroutine
  alike: `MakeDir`, `Fill` (link or copy, and open `meta.json`, which empties it),
  `WriteMeta` are `_create_artifact()`; `EnrichRead`, `EnrichOpen`, `EnrichWrite` one record
  of `_enrich_from_logs()`; `Classify`, `Link`, `Track`, `Finish` read, and hand their text to
  `rewrite`, which `OpenFile` and `WriteFile` carry out. A coroutine keeps the event loop
  from one await to the next (`LoopFree` is false at a `pc` of `Running`), so that other
  coroutines wait and threads do not. `CancelSync` ends a sync and leaves its threads
  (`Busy`); any open or write may fail. `Written` says what a file holds when two had it
  open. Of the keys of a `meta.json` those that something is decided on are kept.
* **`ProtocolClient`** - `client.ts`: sockets (`sock`, and `current` for `this.socket`),
  armed reconnect timers, requests in flight (`pending`, a bag). `Closes` is the "error" and
  "close" handlers of a socket, `Reconnects` the timer. Under `<StrictMode>` React's
  development build mounts the client twice; that is an initial state.
* **`Dashboard`** - `App.tsx` over it. Each handler and each continuation of a request is a
  step. `Render` is React: it renders and runs the effects whose dependencies changed,
  in their order (restore the grouping, follow the tasks, load). It follows a user's action
  at once; messages may come before the rendering that other messages made due. A
  generation number is represented by what it is for: a request is `fresh` as long as its
  number is the current one. Of the task list only the tasks that became finished matter
  (`finished`). The four answers of a load count as one, and so do the two of a poll.
  Delays are left out, but for one fact: the event of a socket that `close()` has ended
  before it was connected comes before any reconnect timer (half a second at least).
* **`PfrunRunner`** - the end of a run. The guest prints its status and powers off
  (`GuestPrints`, `GuestStops`); the status is the command's, but for an interactive command
  0 (`kill ... || true` comes before `cmd_status=$?`, `pfm-run:94-101`) and 1 if a setup
  that says `set -e` (`strict`) ended the script before. The relay thread takes the status
  line out of the console and posts the code; the timer, the completion of `stop()` and the
  two seconds after it post too. `queue` is the main queue: `Block` runs one block of it.
  `exitCodeOnStop` and `exited` are what the code calls them or calls `exit` with.
* **`TrackLog`** - one worker's log, capture and their indexes as sequences of records, by
  child; a child's pid may come again in the next virtual machine. `OpenTrack` and
  `ReadTrack` are the two reads of `get_pid_track_summary()` and `get_pid_output()`, with
  appends in between; `MachineStops` cuts a record short. `GenerateScripts` is
  `generate_all_track_scripts()`.
* **`Minimizer`** - `minimize()` stage by stage. A script is the sections it keeps, their
  wrappers and the number of statements; the recursion of `reduce()` is the list of
  candidate sets left (`work`). What a run does depends on `target`: which sections crash
  together, which prevent it, whether the crash may fail to come. `text` is what is known of
  the script's text: never run, seen crashing, or stripped of its comments after that
  (`Stripped`), in which string literals may have lost blank lines and trailing spaces.
* **`BuildPipeline`** - two builders over one project's checkout, sources, wheelhouse and
  installation: plan, clone, fetch, run the build VMs, verify, record timings, make the
  dictionary; failures and cancellations anywhere, with git commands that a cancelled build
  leaves behind (`orphans`). `Feed` is one line of output through the progress estimator.
* **`ArtifactReports`** - classification and description by several commands: the test for
  an earlier answer, the semaphore, the temporary file, its replacement. The stack-fault
  score and the query's clauses are functions.
* **`ProjectFiles`** - `project.json` and the inputs under the command line's editor, which
  opens and writes in place, and the dashboard's threads, which replace it whole; a file
  opened for writing is empty until written, and any command may be killed.
* **`FuzzStats`** - workers that find crashes and die, a clean that takes their outputs
  away, the monitor's rounds; the trend as a function of plots.
* **`DockerJobs`** - `run_dist` jobs over the shared cache, file by file, with stops; and
  bisect over a linear history of commits that crash, do not, or cannot be built.
* **`LldbDriver`** - `run()` of `lldb_analyze.py`: create, load or launch, handle events or
  wait until the deadline, write. The process moves on its own and queues events.
* **`LegacyDashboard`** - what differs from `pfui`: the campaign coroutine gathers with
  `return_exceptions`, threads are marked cancelled at once, a window is registered after its
  snapshot, and requests look their project up after they waited. A broadcast is a task
  scheduled by what it tells (`due`), which makes its list and takes the registered windows
  when it begins (`Announce`, `Broadcast`) and sends to one after another (`cast`); each
  window's `_send_lock` serves who waits for it in turn (`line`), so that a `Send` may come
  late and out of order. `Abandon` is a broadcast whose request was cancelled. `Launcher` is
  `run_ui()` with its two processes.
* **`*_proofs`** - the theorems.
* **`SortedSets`** - a finite set of numbers as a sequence, by rank: the order in which
  reproducers are numbered and the sections of a script are kept.
* **`Components`** - the ten modules above as one specification. They share nothing, so one
  behaviour runs one component, chosen by `scenario`, while the others rest in one initial
  state. Nothing is lost by this, and a fault of one component cannot hide behind another's
  steps: `ComponentsRun` proves that a behaviour of it is one of each component.
* `MC*` - model values. `MCComponents` also compares the pure functions with what they are
  for.

## 3. What the runs check

| Run | Instance | States | Shows |
|---|---|---|---|
| `task_manager` | 2 tasks, all handlers' requests on one key each, 1 progress report per task | 322 000 | registry invariants, action and liveness properties, and that it implements `ExclusiveJobs` |
| `pfui_server` | 1 tab, 2 tasks, 2 lists under way | 481 000 | no missed update, no going back, tabs catch up |
| `fuzz_session` | 2 campaigns of 2 workers, with a monitor | 757 000 | no VM outlives its campaign, and none the server, but for the failures named |
| `fuzz_stop` | 1 campaign of 3 workers, fairness | 83 000 | a stop ends the campaign, a cancelled worker's VM ends |
| `fuzz_orphans` | 1 campaign of 2 workers | violation | finding 1 |
| `fuzz_actions` | as above | violation | finding 2 |
| `artifact_store` | a core and a crash of one process; 2 syncs, 2 analyses or one of each at a time; cancellations; 1 artifact with I/O errors | 1.3 million | nothing stays half made, what can mix two versions of a file, links agree, marked cores are complete |
| `artifact_lost` | 1 sync at a time, 1 I/O error | violation | finding 3 |
| `dashboard` | 2 projects, 2 artifacts; 2 user actions or polls and 1 failure, or React's double mount | 626 000 | connections, selections and spinners; the tab comes back |
| `dashboard_grouping` | as above, both projects classified | violation | finding 4 |
| `components` | fourteen scenarios, below | 984 000 | what each of the ten components promises |
| `tracks_lost` | 3 artifacts | violation | finding 5 |

The properties, with the code behaviour each is about, are commented in the modules.
`TypeOK` and `ThreadsRunOut` of the registry and the type invariants of `FuzzSession`,
`ArtifactStore` and `Dashboard` are proved (section 4), and no run repeats them.

The scenarios of `components`:

| Scenario | Instance | States | Properties |
|---|---|---|---|
| `minimizer` | 4 sections; 7 targets (one section, several, none, two ways, a masking section), 2 wrappings, 5 options, one section with a literal, flaky runs and write errors | 61 000 | `ReproducerCrashes`, `NothingMoreToDrop`, `ResultIsWritten` |
| `tracks` | 3 children with 2 pids, 2 inputs, 1 print, any record cut short | 67 000 | `SummaryCountsThePid`, `OutputOfTheLastProcess` |
| `reproducers` | 4 artifacts, 3 with a track, 2 with inputs in it | 45 | `ReproducersStay` |
| `dist` | 2 jobs of one specification, 2 files, 2 stops | 3 200 | `CachedBuildIsWhole` |
| `bisect` | all histories of 4 commits, all orders | 12 000 | `ReportsTheFirstBadCommit` |
| `lldb` | all kinds of session, 4 events, 2 waits | 700 | `DiagnosesTheCrash`, `WaitsEnd` |
| `builds` | 2 builders, 2 packages of which one needs the other, 2 builds, 1 trouble | 369 000 | `SuccessMeansInstalled`, `PackagesHaveWhatTheyNeed`, `TimingsAreKept` |
| `estimator` | all curves on a grid of 2, 3 lines | 1 100 | `ReadingsMoveForward` |
| `reports` | 2 commands, 3 artifacts, 2 names, 2 starts | 26 000 | `AnswersAreKept` |
| `project` | 2 shells, 2 tabs, 2 inputs, 3 orders, as root or not | 61 000 | `OnlyEditorsBreakConfig`, `CreatedIsComplete` |
| `statistics` | 2 workers, magnitudes to 3 | 540 | `AnnouncedOnce` |
| `legacy` | 2 windows, 1 project, 2 tasks of 2 workers, 3 changes, 2 broadcasts under way | 380 000 | `FuzzedByOne`, `WindowsAreCurrent` |
| `launcher` | the two processes, 2 interrupts | 35 | `LauncherLeavesNobody` |
| `pfrun` | 3 statuses, interactive or not, with and without `set -e` and a timeout | 1 600 | `ExitCodeTellsTruth`, `WaitsEnd` |

The pure functions (classification of a fault, query clauses, the trend, the sections of a
reproducer) are compared with what they are for on all small inputs, by `ASSUME`s of
`MCComponents`. `ComponentsTypeOK`, `ComponentsKeepPromises`, `ReadersTellTruth` and
`WaitsEnd` join what the components have in these forms, so that one run checks it.

### 3.1 Bounds, and why they are enough

* *Two tasks.* Every property of the registry relates a task to itself or two tasks to
  each other; entries interact through keys and the list only. The theorems hold for any
  number.
* *One tab.* Tabs do not interact; each has its own queue. `MaxBacklog` makes a broadcast
  wait where the real one would queue a third list. The tab may leave and come back for
  ever.
* *Two campaigns of two workers; one of three.* One worker that fails, one that goes on;
  a campaign before and after. With three, one can fail, one be told and one be killed at
  the same time. Repeated stops are unbounded.
* *A core and a crash.* The pair is the unit that links join. `MaxLoad = 2` lets every pair
  of requests overlap, and a new one come while the threads of a cancelled sync go on
  (which count as its load); the theorems hold for any number at a time.
  `MaxFailures = 1`: after one artifact's error the store is in the state the finding is
  about.
  `Symmetry` swaps identical requests and is used with invariants only.
* *A tab with two projects.* One to leave and one to go to, a selection with and without an
  artifact. `MaxActions` = 2: what the user left behind and what was done since; a third
  action repeats the relation of the two. `MaxFaults` = 1 end of the server or of a
  connection, with any number of failed attempts to reconnect. Both are 0 after the double
  mount, where two chains of connections already interact. `MaxPending` = 2 requests in
  flight: an old one and a new one, and `TasksChanged` is bounded by one finished task
  between two renderings. `MaxSockets` = 2 never disables a step, which is what
  `ConnectionsConserved` says.
* *The components.* Two of whatever interferes (builders, jobs, shells and tabs, commands,
  children with one pid, tasks of one project), and one trouble more than the property can
  stand: a failure while the other goes on. Four sections are the least with which bisection
  recurses and a chunk's complement differs from a chunk; four commits the least with two
  between good and bad. One section with a string literal, and others without, tell what
  stripping does to either. Two windows, of which one holds up a broadcast for the other,
  three changes (two connections and a task, or three tasks and stops of one window) and
  `MaxCasts` = 2: an older broadcast and the newer that overtakes it. One timing kept
  for each target (`MaxRuns` = 1) shows in the run that the last is not lost; that more of
  them stay in order is for `TimingsKept` to say, for any number.
  Where a bound seemed to matter the theorems of section 4 do without.

Deadlock is not checked: a server that has been shut down, or that nobody asks anything,
rightly stops.

### 3.2 Fairness, and why the code justifies it

* `LoopFairness` (`TaskManager`): the event loop runs callbacks and coroutines that are
  ready, timers expire, and a coroutine that was *asked to cancel* ends. The last is what
  `FuzzSession` shows for the one coroutine that resists; nobody is assumed to stop or
  finish a task, to connect or to shut down.
* `ServerFairness`: the same for the server's steps; an open connection takes what was
  sent to it. Tabs need not ask for anything.
* `FuzzFairness`: ready coroutines run, the 10 s timer expires, and a VM that was sent
  SIGKILL exits. A VM need not exit by itself or on SIGTERM.
* `DashFairness`: React renders what is due, armed timers fire, the events of sockets that
  are closed or cannot connect arrive, and a server that accepts connections does so.
  Nothing is assumed of the user, of answers, or of the server's coming back:
  `TabReconnects` asks only that the tab is not disconnected for ever from a server that
  is up.
* `ArtifactStore` states no liveness and assumes no fairness.
* `Components` assumes it of two components only, in one condition, since they are of
  different scenarios. `DriverRuns`: the LLDB driver has its
  container to itself, and its clock goes on; the target owes nothing, not even an event.
  `PfrunRuns`: pfrun's timer expires and its main queue goes on, and `stop()` completes or
  the two seconds are over; the guest need neither boot, print nor stop. That is why only
  runs *with* a timeout are said to end.

### 3.3 Findings

1. **A failed worker frees the project** (`handlers.py:383`). `gather()` without
   `return_exceptions` ends the fuzz task at the first failure; the other VMs go on, and
   the server accepts a clean of the directories they write to. `OverMeansQuiet`
   and `CampaignsDoNotOverlap` show that this is the *only* way to it: each holds unless a
   worker has failed.
2. **"Mutually exclusive" is the browser's word** (`ActionMenu.tsx:11`,
   `handlers.py:452`). The server refuses a build or clean while fuzzing, not the
   converse, and not a build during a clean.
3. **A creation that fails hides its source** (`analysis.py:276`). The directory is made
   first and taken for the proof that the artifact is there.
   `HalfMadeOnlyAfterFailure` shows that concurrent syncs alone do not do this.
4. **A grouping wanders to another project** (`App.tsx:231`). `pendingClassifyGroup`
   remembers the grouping without its project; the effect that sees *a* classification
   finish saves it for the project selected then, which is what the comment at
   `App.tsx:179` says does not happen.
5. **A reproducer that is never made** (`trackscript.py:207`). Reproducers are numbered by
   place in a list in which cores sort before crashes; a core that arrives later takes a
   number whose file exists and is passed over. `ReproducersStay` shows the other half: what
   is made is never made for another artifact.

The model also shows races for which no document promises anything, so that no run
claims a violation. In the artifact store:

* two versions of one `meta.json` can be mixed, which makes every later listing fail.
  One sync and one analysis are enough: `analyze_artifact()` reads the file of a crash to
  add what its stack shows (`analysis.py:379-382`) while the enrichment thread, which read
  it before, opens and writes it (`185-194`). `MixedOnlyWhenClassified` states that, with
  syncs one at a time, this is the only way: a linked or tracked crash has its `pid`
  already, and the thread passes it over; a core is never enriched. `raced` and
  `overlapped` are the conditions, and both are sharp: without either TLC finds the property
  violated;
* overlapping syncs, or one that follows a cancelled one whose thread goes on, can also
  break links (`LinksAgree` is stated for the others);
* the enrichment thread can overwrite a crash's classification, and an LLDB VM that fails to
  start leaves the artifact marked as analyzed.

In the tab:

* the guards at `App.tsx:173` and `277` compare two values of one closure, so they are always
  true, and the save at `451` has none: answers to these three requests that arrive after
  another project was selected are shown there. `ShownIsSelected` names them (`astray`); for
  all other answers it holds without exception;
* `session.ready` after a reconnect may move a tab without `?project=` to another default
  project without clearing what is shown of the former;
* a failed `artifact.get` leaves the old detail under the new selection; and the flags behind
  the classify and analyze-all buttons stay on when the tab leaves the project, or was never
  sent a list in which the task was running. `SpinnersMeanWork` leaves these flags out;
* in development mode the error event of the first of the two sockets closes the second,
  and the tab then keeps two connections: `ConnectionsConserved` counts per mount.

In the other components:

* `build.py:272-281` does not rely on a build VM's exit code and looks for its status in the
  console instead; pfrun's relay takes that line out of what it passes on. The builds'
  success therefore rests on the verification after it, which is what
  `SuccessMeansInstalled` is stated for.
* pfrun's exit code is 0 for a failed command when the VM's stop is handled before the
  status, for nothing orders the two, and in every order when the command was interactive,
  for the guest then reports the status of a `kill ... || true`. `ExitCodeTellsTruth` names
  both, and the cases of 1 and 124.
* A harness that is not linked again after the interpreter was rebuilt is taken as it is
  (the comment at `cli.py:102` against `build_helpers.sh`): `harness = "old"`.
* Two builds that end together lose a timing; two `run-dist` jobs of one specification take
  each other's files away; two tabs that save different fields of a project lose one. Nothing
  locks these files, and the properties except the overlap (`overlap`, `crowded`).
* A bisect that ends with commits that cannot be built shows the first possible one as if
  it were certain (`run_bisect.py:176`); it is bad, and no commit before it that can be
  built is.
* `stack-fault --write --dest` writes under any name, not through a temporary file;
  `meta:key=None` matches artifacts without the key (`Holds` says so).
* The launcher starts pnpm outside of its `try` (`launcher.py:83`): if that fails the server
  stays. `LauncherLeavesNobody` excepts it (`lost`).
* A window of the former dashboard may show an old list until the next broadcast, in three
  ways that `WindowsAreCurrent` names (`missed`): a change between its snapshot and its
  registration (`server.py:306-307`); an older list that reaches it after a newer one,
  because another window held its broadcast up (`102-108`); and a stop whose window went
  away while its request was sending the list (`172-175`, `328-331`).
* Bisection may leave sections that were never run together: they include some that crash,
  but with them others that prevent the crash. One at a time, what is written was seen
  crashing, however flaky the crash, but for the last text: it lost its comments after the
  last run (`minimize_crash.py:603-610`), and with them the blank lines and trailing spaces
  of its string literals, and is not run again. `ReproducerCrashes` states which text may be
  which, and not that the last one crashes.

## 4. What is proved

Eight modules hold theorems. Each is for all values of the constants, from the named
assumptions of the modules it is about and nothing else.

### 4.1 `TaskManager_proofs`

For all `Keys`, `Requests`, `MaxTasks` and `MaxEmits` (`NoKeyAssumption`,
`RequestsAssumption`, `BoundsAssumption`):

| Theorem | Statement |
|---|---|
| `TypeCorrect` | `Spec => []TypeOK` |
| `LifecycleInvariant` | `Spec => []Lifecycle` |
| `Exclusion`, `Outcome`, `Listing`, `Telling`, `ThreadSafety`, `CleanShutdown` | `KeyExclusive`, `StatusTellsOutcome`, `ExecutingIsListed`, `WaiterToldTruth`, `ThreadsRunOut`, `ClosedMeansReaped` |
| `Frozen` | `FinishedIsFrozen`, an action property |
| `Implements` | `Spec => JobsSpec`: the registry implements `ExclusiveJobs` |

The argument: `TypeOK` is inductive. None of the others is by itself: that statuses tell
the outcome, for example, needs that a task without a finished callback still has status
"running", and that only the callback creates a finalizer. `Lifecycle` collects which
states of the asyncio task, the callback, the list and the finalizer can go together;
it is inductive relative to `TypeOK`, and contains `StatusTellsOutcome`. Each of the
others is then inductive relative to both. Exclusion, for example, rests on this: a key
is compared with the tasks in the list whose *status* is "running", and `Lifecycle`
says that a task that executes is such a task. The refinement maps a task to its phase:
executing, over, forgotten; every step of the registry is a `Begin`, an `End`, a
`Forget` or a stutter.

### 4.2 The components

| Theorem | Statement | For all |
|---|---|---|
| `PfuiServer_proofs!ServerRunsTaskManager` | `ServerSpec => Spec`: the server implements `TaskManager`, and with it `ExclusiveJobs` | tasks, clients, requests, backlogs |
| `!ServerTypeCorrect` | `ServerSpec => []ServerTypeOK` | the same |
| `!NobodyLeftBehind` | `ServerSpec => []NobodyIsBehind` | the same |
| `!ViewsGoForward` | `ServerSpec => ViewsMoveForward` (an action property) | the same |
| `FuzzSession_proofs!FuzzTypeCorrect` | `FuzzSpec => []FuzzTypeOK` | campaigns, instances, with and without a monitor |
| `!OverIsQuiet`, `!CampaignsKeepApart`, `!NoVMLeftBehind` | `OverMeansQuiet`, `CampaignsDoNotOverlap`, `ExitLeavesNoVM` | the same |
| `ArtifactStore_proofs!StoreTypeCorrect` | `StoreSpec => []StoreTypeOK` | sources, syncs and analyses at a time, errors |
| `!HalfMadeIsBeingMade`, `!MixedByClassifyingOnly`, `!LinksAreMutual`, `!MarkedIsComplete` | `HalfMadeOnlyAfterFailure`, `MixedOnlyWhenClassified`, `LinksAgree`, `MarkedCoresAreComplete` | the same |
| `Dashboard_proofs!TabTypeCorrect` | `DashSpec => []DashTypeOK` | projects, artifacts, sockets, requests, actions, failures |
| `!ClientKeepsConnections`, `!TabShowsSelected`, `!SpinnersTurnForWork` | `ConnectionsConserved`, `ShownIsSelected`, `SpinnersMeanWork` | the same |
| `!DetailIsSelected` | `DashSpec => DetailFollowsSelection` (an action property) | the same |
| `BuildPipeline_proofs!BuildTypeCorrect` | `BuildSpec => []BuildTypeOK` | packages, dependencies, builders, troubles |
| `!NeededPackages`, `!TimingsKept` | `PackagesHaveWhatTheyNeed`, `TimingsAreKept` | the same |
| `!InstalledOnSuccess` | `BuildSpec => SuccessMeansInstalled` (an action property) | the same |
| `!ProgressIsHonest` | `BuildSpec => ReadingsMoveForward` (an action property) | curves and lines of output |
| `Components_proofs!DistTypeCorrect` | `DistSpec => []DistTyped` | jobs, specifications, files, stops |
| `!CacheIsWhole` | `DistSpec => []CachedBuildIsWhole` | the same |
| `!BisectIsRight` | `BisectSpec => []ReportsTheFirstBadCommit` | histories of any length, orders of git's runs |
| `!AnswersKept` | `ReportSpec => AnswersAreKept` (an action property) | commands, artifacts, names, requests at a time |
| `!ProjectTypeCorrect` | `ProjectSpec => []ProjectTypeOK` | settings, inputs, commands, tabs |
| `!CreationCompletes` | `ProjectSpec => []CreatedIsComplete` | the same |
| `!TabsBreakNothing` | `ProjectSpec => OnlyEditorsBreakConfig` (an action property) | the same |
| `!NewsOnlyOnce` | `StatsSpec => []AnnouncedOnce` | workers, rounds, magnitudes |
| `!ExitCodeIsTrue` | `PfrunSpec => []ExitCodeTellsTruth` | statuses, interactive or not, with and without a timeout |
| `!DiagnosesRightly` | `LldbSpec => []DiagnosesTheCrash` | deadlines, events, kinds of session |
| `!LegacyInvariant` | `LegacySpec => []LegacyInv` | windows, projects, tasks, workers, broadcasts |
| `!OneCampaign`, `!WindowsShowTheList` | `LegacySpec => []FuzzedByOne`, `[]WindowsAreCurrent` | the same |
| `!LauncherCleansUp` | `LaunchSpec => []LauncherLeavesNobody` | - |
| `!ComponentsTypeCorrect` | `ComponentsSpec => []ComponentsTypeOK`: the type invariants of all ten components | all of them |
| `!PromisesKept` | `ComponentsSpec => []ComponentsKeepPromises` | the same |
| `!ReadersAreRight` | `ComponentsSpec => ReadersTellTruth` (an action property) | the same |
| `Reproducers_proofs!TrackTypeCorrect` | `TrackSpec => []TrackTypeOK` | pids, children, records, prints, artifacts |
| `!SummariesCount`, `!OutputIsTheLast`, `!NumbersAreKept` | `SummaryCountsThePid`, `OutputOfTheLastProcess`, `ReproducersStay` (action properties) | the same |
| `!MinimizerTypeCorrect` | `MinimizerSpec => []MinimizerTypeOK` | scripts, targets, wrappings, options |
| `!MinimizedStillCrashes`, `!MinimizedIsMinimal`, `!MinimizedIsWritten` | `ReproducerCrashes`, `NothingMoreToDrop`, `ResultIsWritten` | the same |

The specifications of the components alone (`BuildSpec`, `DistSpec`, `TrackSpec` and so on)
are tied to the run's by `ComponentsRun`: `ComponentsSpec` implies all twelve. What is
proved of a component is thereby proved of the specification TLC checks.

* *The server.* `ServerRunsTaskManager` needs only that requests in flight are of tasks and
  wait (`AskedWait`): a disconnect lets a set of waiters go, which is `TaskManager`'s own
  `WaitersLeave`. The theorems of 4.1 hold of the server by it. The views rest on
  `Behind`: in what the newest list sent may differ from the registry. A list that was sent
  may lack newer tasks and show older progress; it may not show a finished task
  differently, nor lack one that is about to be removed. `NewestKnown` adds that with
  nothing left to announce it is the registry's. Removal is the hard case: it is announced
  in the step that makes it, and was preceded by a list with the task as finished, because
  `finalizer` is "sleeping" only after that broadcast. `QueuesInOrder` carries the order to
  the tab.
* *Campaigns.* None of the three properties is inductive: they speak of VMs, which only the
  worker's point and the campaign's place tell. `VMFollows` has a line for each point of
  `run_fuzz()`; `InTurn` is what the guard of `task_start` gives; `VerdictsTell` and
  `Settled` say what a `gather()`'s result tells of its workers, and so why a campaign that
  left without an error has none. `LoopEnds` is `asyncio.run()`'s last cancellation. A
  failed gather is the exception, and is finding 1.
* *The artifacts.* Nothing locks a `meta.json`, so each part of `StoreInv` says who may write
  one when. `Turns`: one coroutine at most has the event loop, and a rewriting is its own.
  `AbsentIsFree`: a file that is not there is nobody's but its creator's. `SomeoneFills`: an
  empty one has a thread or a coroutine that will write it, or met an error. `CoreFiles`: a
  core's file is made once, and only the event loop writes it after that. `AnalyzedOnce`:
  it keeps what its only analysis has found (`crowded` if there were two). `OneWriter` holds
  as long as syncs came one at a time: the enrichment thread writes files whose `pid`
  nobody knows yet, the links, inputs and kills go into files whose `pid` is known
  (`Known`), and the classification is the one that looks at no `pid` (`raced`).
  `LinksHold`: what is linked has a counterpart that is linked, or about to be.
* *The tab.* The argument is about the requests in flight: each knows what it was asked for
  (`OwnAnswers`), and what is shown changes by their answers only, whatever their order.
  `Owed` says which effect or connection will end a spinner for which no request is under
  way. `ConnectionsConserved` is inductive by itself, once `Closes` says which of a
  socket's states arms a timer.
* *Builds.* A build's promise is about its end, long after each part was installed.
  `Orderly` is the order in which one part undoes nothing of another (packages after
  Python, the harness last), and `OneBuilds` that what a build is done with stays,
  unless two have built at once (`overlap`). `LogsRecorded` says in whose hands the timings
  are: the file's, a builder's, the temporary file's. The interpolation of the curve is
  shown to stay between its points (`BetweenMarks`, `PlaceOnCurve`, `CurveStaysBelow`), in
  integers.
* *Projects.* What each command and request has in hand: a request writes known keys only
  (`HandsOfTabs`), since it wrote what it had loaded and an unknown key does not load; a
  command that creates the project has still to write what a new one says
  (`SomebodyCompletes`).
* *Statistics.* No magnitude that was announced is above the one the monitor compares with next
  (`Announced`).
* *The cache.* "Complete means whole" is not inductive: a job that is about to write the
  stamp must have installed everything. `Progress` says what each stage of a build has left
  in the cache, as long as the build is alone with its specification; `Alone`, that two
  that are not are noticed (`crowded`). `BuildingStep` is the part all five steps of a
  build share.
* *Bisect.* `Enclosed`: the bad commit is the user's or crashes, the good one is the user's
  or does not, and what was skipped cannot be built. With crashes that do not go away, a
  commit that crashes before the reported one lies above the good one, was skipped, and so
  cannot be built.
* *pfrun.* `PfrunInv` says what the blocks that still wait in the main queue stand for: a
  timeout or its completion, that time is up; the guest's stop, that it is off; and no
  status there although it was posted, that it was handled; and what status the guest can
  have reported. Two lemmas about queues
  (`InAppend`, `InTail`) carry this over appends and removals.
* *The LLDB driver.* `Pending`: among the events that wait there is at most one stop, and
  while it waits the process is where it stopped. A stop that is handled is therefore the
  one the process is in, and after an exec none is left.
* *Answers.* `MayWrite`: a request that is under way writes a name that is not reserved,
  looked when there was no answer or may overwrite it, and when its file is closed holds
  the whole answer. A temporary file has one writer, so requests do not disturb each
  other (`OtherRequests`).
* *Tracks.* `Indexed`: an index has an entry for each child, in their order, whose offset is
  where the log ended when the child began, so that no record of a child lies before it.
  Files only grow (`Grows`), so what a reader has taken from the indexes goes on to be true
  (`Heading`): it reads no fewer of the pid's records than there were when it opened the
  file, and the output of the pid's last process up to the next child's entry. A reproducer
  that exists keeps its number, since a step only appends to the scripts made.
* *The minimizer.* `reduce()` is a recursion; `work` is what is left of it. `Parted`: the
  candidate sets that wait are disjoint, and none meets what was found to be required.
  `StillCrashes`: the required sections with those that wait (`Covered`) include some that
  crash together. Splitting a set keeps that (the chunks cover it, by the arithmetic of
  `ChunkStart`), and so does dropping one if the run without it crashed. When nothing
  waits, the required sections alone are left. One at a time, what was last seen crashing
  *is* the script, until its comments go (`Stripped`). `TriedAll` is minimality in the
  middle of a pass: the sections before the next one were tried in vain on the script as it
  is, if the pass has removed nothing. No induction over the candidate sets was needed,
  since each step takes one of them.
* *Types.* A type invariant with the model's bounds needs a reason for each bound.
  `DistBounded`: the counter of installed files passes their number only when a job
  leaves that stage. `OutBounded`: a command has no more requests out than its semaphore
  lets through. `OnlyOnce`: of the blocks in pfrun's main queue only `stop()`'s
  end is posted twice (its completion, and the two seconds after it). `StatsBounded`
  and `LegacyBounded` say it of magnitudes and windows.
* *The composition.* A step of a scenario is a step of its component and a stutter of the
  others (`ComponentSteps`), and the initial states are restrictions of theirs.
* *The former dashboard.* `Held`: a worker belongs to a campaign that has not ended, such a campaign
  is "running" in the list, and one project has one such entry. The first part is what
  gathering to the last worker gives; without `return_exceptions` it fails, as finding 1
  shows for the other dashboard. A window is current when all is told because every change
  has a broadcast due in its step, or begins one. `KnowsTheList` says it of a window between
  its snapshot and its registration. `GetsTheList` says that, once all is told, the newest
  list on its way to a window is the registry's, and if none on its way is newer than
  what it had, that the window shows it. `missed` marks the windows that a list passed by.

### 4.3 What the proofs changed in the models

* `Closes` and `ClosesTwice` of `ProtocolClient` had two CASE arms that overlap, which leaves
  open which one is meant (TLC takes the first); the proof of `ConnectionsConserved` could
  not be done until they excluded each other, as the code's early returns do.
* `Sorted` names the i-th element by its rank. Before, it was taken from two recursive
  helpers for sequences, of which nothing can be proved; the tracks and the minimizer share
  it, and `SortedFacts` says that it has every element once, in order.
* `ReproducerCrashes` used to ask bisection for sections that crash only where crashes are
  steady and nothing prevents them. The proof did not need either, and the invariant now
  says it of every target.
* `Components` was the lower half of `MCComponents`; a theorem about the specification TLC
  runs needs it in a module without model values.
* Assumptions that were tacit are named: `NoViewAssumption`, `ProjectsAssumption`, and that
  "harness" is a setting in `ProjectAssumption`.
* `TaskManager!WaitersLeave` takes the set of requests that end together, which is what one
  disconnect does. The to-do set of `ArtifactStore` is rewritten without nested updates, the
  launcher's phases without joining strings, and `Without` takes one request out of a bag.

### 4.4 Only model-checked

Every invariant and every action property of the passing runs is the statement of a
theorem. What remains with TLC is

* liveness (`FinishedIsForgotten`, `CloseReturns`, `TabsCatchUp`, `StopEndsCampaign`,
  `CancelEndsVM`, `TabReconnects`, `WaitsEnd`): it rests on fairness and `ENABLED`, which the
  provers do not handle;
* what the classifier, the query, the trend and the sections of a reproducer compute
  (`ASSUME`s of `MCComponents`): folds over data, which need induction over data;
* the five violations, of course, which are counterexamples.

## 5. What is not modelled, and why

* Formatting, parsing, validation, command lines, logging, layout, the contents of views.
* Reading handlers: they read files and return; their races are those of the writers.
* Cleaning the artifact directory while something works on it, and `link_cores` of the
  command line, a second process on the same files.
* Pid reuse: `LinksAgree` is stated for processes with one core and one crash, because
  pids start over with each VM and the code links by pid and worker.
* An artifact's stack score and its OOM mark are rewritings of its `meta.json` without a
  value of their own: nothing is decided on them.
* Several builds at once count as one in `FuzzSession`: nothing there depends on how many.
* In the tab: creating projects, the dialogs for inputs and for asking a model, loading whole
  files, errors and warnings as texts, the theme. They ask and show an answer as the modelled
  handlers do.
* The AFL mutator: pure functions over bytes and a parser's tree with seeded random choices
  and no state between calls; a model of its edits would be as long as the code.
* Which workers a summary calls live: it is the age of AFL's file against 180 s, and says of
  a worker's life what AFL's own punctuality lets it.
* `patches.json` and the harness of the PEG parser, the PR helper, the guests' kernels and
  images: sequential programs around external tools, or data.
* The former dashboard's HTTP server, frames and pages; its reading requests; two of its
  requests look `socket.project` up again after they waited, which the model of its tasks
  does not need. Of the messages that wait for a window's lock only the lists are modelled.
* `clean` while a build of the same project is active: the command line does not refuse it,
  and then nothing can be promised. `CleanBuild` is taken only when none is.
* The regular expressions that find a fault's signals in LLDB's text, and the validation of
  configuration values. The trend's `int(index * step)` is exact division in the model.

## 6. Plan

Done: the modules of section 2 and the theorems of section 4. The models that would come
next are two tabs in `Dashboard`, so that one clears what the other shows; the tool sessions
of `llm.py` turn by turn; and the validation that `ProjectFiles` leaves out.
