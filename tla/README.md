# A verification project for AIProjects

The repository is a collection of Windows tools and a Discord bot. Two of its programs
share state between threads, processes, files and services, and can go wrong in ways a
test hardly reaches: the tile host **DesktopStub** (`src/dependencies/DesktopStub/` and
the engines beside it) and the **Discord HA bot**
(`src/legacy/discord-ha-bot-starter/`), several of which compete for one Discord account.
This directory holds TLA+ models of their concurrent and crash-safe core, the TLC runs
that check them and proofs of their main properties.

Paths below are relative to `src/dependencies/`, those of the bot to
`src/legacy/discord-ha-bot-starter/src/`, unless they start with `src/`.

## 1. The system

### DesktopStub

```
   content sources --(one AsyncSource each)--+      keyboard indicator (CapsBlink)
                                             v            ^
   INI file <---- poll thread: composition, gallery Refresh ----> ledger file
      ^                |  frames, queue plans   ^                     ^
      |                v                        | receipts            |
      |       generation queue -> worker -> Windows tile queues       |
      |                                         ^                     |
      +-- settings thread: redistribution, recovery, menu edits ------+
                         |
                         v
               <profile>.gallery-transaction (recovery record)
```

* The **poll thread** wakes on a timer or when a source calls back. It captures the
  configuration, asks the sources, refreshes the photo gallery, ticks the indicator and
  queues generation.
* The **generation worker** takes one batch at a time, renders, calls Windows and
  reports each slot back.
* A **settings thread** (dialogs, tray) edits the INI and redistributes photos.
* **Windows** keeps, per tile, a queue of notifications that survives the process.
* Files are each replaced atomically; nothing makes two of them change together
  except the recovery record.

### The Discord bot

```
   user -> slash commands -> computer_commands, cluster_update_packages (PostgreSQL)
                                        |  claim, complete
   node:  watchdog --spawns--> bot: instance lock, agent ----> staged release
             ^                  |  elector <-> cluster_leases      |
             +------ starts ----+-------- helper exchanges files <-+
```

* Every **node** runs a **watchdog**, which keeps one bot process alive, and the bot,
  which takes the node's local socket before anything else.
* The bots elect one **leader** per lease row: the command gateway and the voice agent.
* **Commands** are rows that the node's agent claims, runs and answers; an update is a
  command whose effect is a new release, exchanged by a detached helper while no bot
  runs.

### Components

| Component | State | Operations | What is hard | What makes it correct |
|---|---|---|---|---|
| Content source cache, `content_source_host.h` | one latest request, one running fetch, one published answer, worker-local resources, a revision | `Request`, `Wait`, `CancelPending`, `Stop`, the worker's `Run` | fetch and cleanup run outside the mutex; requests supersede one another; thread creation may fail; lost wake-ups | only the latest request is answered, nothing from before a clear appears, resources of one profile at a time, no thread sleeps through its work, `Stop` returns |
| Gallery coordinator, `DesktopStub/ga_gallery_runtime.inc` | `cfg_`, inventory, `ledger_`, per tile `flights_`, `frames_`, `confirmedWindows_`, `lastQueueCount_`; flags | `Refresh`, `Acknowledge`, `Fail`, `Validate`, `Suspend`, `Resume`, `RequestRefresh` | `operation_` protects a pass, `published_` only the frames: receipts arrive in the middle of a pass; saves fail or conflict | a window is durable before it is seen; its cursor moves only when Windows holds all of it; a pending window is eventually done with |
| Ledger engine, `gallery_engine.h`, `gallery_win32.inc` | owners of images, cursors, pending windows, tickets, an epoch | `ReconcileOwnership`, `PrepareQueueBatch`, `AcknowledgeDelivery`, reset | exhaustion, limits, text format | an image never changes its owner within an epoch; a ticket names one window |
| Redistribution and recovery, `DesktopStub/ga_gallery_tray.inc`, `ga_gallery_transaction.inc`, `gallery_transaction.h` | INI, ledger and recovery record on disk | `SaveGalleryConfiguration`, `SaveGalleryMenuSettings`, `RecoverPendingGalleryTransaction`, `Decide` | crash or failure between any two writes; the other threads go on; other programs edit the INI | both files change or neither; no tile shows a photo it does not own; an interrupted change can be finished; publication resumes |
| Generation and delivery, `DesktopStub/ga_generation.inc`, `ga_content_state.inc`, `ga_secondary_tile_api.inc`, `tile_notification_payload.h` | one pending batch, one running; the last frame key per slot | queue, replace, take, deliver a slot, drop a destination, clear | a batch is older than what is published now; `Clear` was sent when `Update` throws | every batch ends in receipts or in `Fail`; a slot is skipped only if Windows shows it |
| Native queue delta, `content_queue.h`, `DesktopStub/ga_content_runtime.inc` | frames acknowledged per slot and layout; what was published; a retry delay | `Plan`, `Ack`, `LeaveQueue`, `ContentEngineTick` | the layout changes between plan, delivery and acknowledgement; a forced request replaces the pending one | what the delta skips is on the tile, nothing else is, and the tile ends with the saved contents |
| Keyboard indicator, `hardware/caps_blink_engine.h`, `DesktopStub/ga_content_hardware.inc` | settings, `stop_`, `running_`, snapshot, a session with a device | `Refresh`, `Update`, `RequestStop`, `Stop`, sessions, restoration | a stop racing a restart; calls that time out and still take effect | no late write, the indicator restored or the failure reported, the configured keyboard served |
| Leader election, `runtime/leaseCore.ts`, `cluster/leader.ts`, `voiceAgent.ts` | a lease row; per process an epoch, a deadline, a call in flight, the workload | `run`, `demote`, `stop`; acquire, renew, release | queries answered late, twice or never; timers late; crashes | one leader, one workload; takeover |
| Watchdog, `runtime/watchdogCore.ts`, `watchdog.ts` | the child, its restarts, timers, flags | `start`, `exited`, `stop`, signals | errors and exits in any order, late events | one bot, none forgotten; crashes answered, intended exits respected |
| Releases, `selfUpdate.ts`, `computerAgent.ts`, `index.ts` | staged release, helper, live files, backup | prepare, complete, restart, exchange, roll back | two bots, watchdogs and helpers at once; failures half way | files whole, only recorded updates applied, the node served |
| Instance lock, `localInstance.ts`, `runtime/staleSocket.ts` | a socket file, a recovery lock | acquire, probe, recover, close | files and sockets outlive processes; inodes return | one bot per node; a stale socket does not block it |
| Command queue, `commands/computer.ts`, `commands/clusterUpdate.ts`, `computerAgent.ts` | rows and packages | enqueue, upload, prune, claim, complete, expire | statements lost or late; crashes | at most once, in order, honestly recorded; packages kept while needed |
| Composition of other tiles, registration, rendering, profiles, sources' parsing | configuration and derived data | pure functions and I/O | little concurrency of their own | not part of this project |
| Discord presence (`DiscordRPC/`), ASUS backlight (`asusblink/`), registry notification service | a session, a relay of cancellations; a device; a policy | connect, resume, cancel | reconnects, cancellation racing I/O | planned |

`PROJECT.json` lists every component, also those only named here in a group, with the
reason where nothing of it is modelled, and every hazard at its line.

## 2. The modules

| Module | Models | Extends, composes |
|---|---|---|
| `LatestAnswer` | what a source promises, with no threads (abstract) | |
| `AsyncSource` | `AsyncSource<Result>`: mutex, condition variable, worker, `Wait`, `Stop` | refines `LatestAnswer` |
| `GalleryEngine` | the window arithmetic of one tile | |
| `GalleryDelivery` | one tile: coordinator, generation worker, Windows' queue, settings thread, crashes | `GalleryEngine` |
| `GalleryHistory` | what the gallery promises of ownership (abstract) | |
| `GalleryTransaction` | several tiles and the three files: redistribution, recovery, capture, refresh, updates | refines `GalleryHistory` |
| `ContentQueue` | the primary tile's native queue: poll thread, forced requests, worker, delta, Windows | |
| `CapsBlink` | provider, controller, worker, device and driver of the keyboard indicator | |
| `FencedOwner` | an owner under increasing terms (abstract) | |
| `LeaseElector` | the elector's loop in every process, the lease row, messages, the workload | refines `FencedOwner` |
| `Supervisor` | what supervising a process promises (abstract) | |
| `Watchdog` | the callbacks of the watchdog, its children and their processes | refines `Supervisor` |
| `NodeUpdate` | commands, bots, watchdogs, helpers and files of one node during updates | the watchdog of each slot takes the steps of `Supervisor` |
| `LocalInstance` | the starts of one node against the file system | |
| `ComputerCommands` | the command and package tables, users and agents | |
| `*Proofs` | theorems about the module of that name; `BotProofs` about `Watchdog`, `NodeUpdate` and `ComputerCommands` | those modules, `TLAPS` |
| `MC*` | values of the constants for TLC | the module of that name |

The definitions named `Bug*` beside the models are plausible mistakes, a dropped guard
or a missing reset. Each property a run checks is broken by at least one of them put in
the place of the definition that follows it; `PROJECT.json` pairs them.

### AsyncSource

An action is one critical section of `mutex_`, or one step outside it. The fetch
(`worker = "fetch"`) and the cleanup callback are states of their own, so that every
caller can interleave with them; `Canceled` is the functor that the fetch is given.
`notify_all` outside the mutex is a step (`Announce`, `StopNotifies`), because the
window between a change and its notification is where wake-ups get lost; a sleeping
thread goes to "check" on a notification and evaluates its predicate in a step of its
own, so a spurious wake-up adds nothing. `RequestWithoutThread` is the path on which
`std::thread` throws, and which notifies nobody.

Abstractions: a fetch's value is the request it was computed for, so that an answer
can be traced to it; `next_` is the boolean `due`; an interval is whether it changed;
`error_` is a published answer without a value. `held` and `cleared` are history: the
profiles that opened resources on the worker and the revision of the last
`CancelPending`. Callers never request the empty key, as in the hosts.

### GalleryDelivery

The variable `op` is the program counter of `Refresh` between its sections: adopt the
configuration and the inventory, commit complete flights, reserve new images, plan,
prepare or release a window, publish frames. Each durable save is one step that also
has the memory updates that depend on it; `SaveFails` is its failure (a conflict also
forgets the ledger). `Release` is split in the save and the `InvalidateFlights` after
it, because a receipt can arrive between them. The worker takes a batch, validates each slot
(`Check`), calls Windows (`Update` or `UpdateFails`) and reports (`Ack`).

`unreported` is history: Windows' queue was emptied for the attempt in force, and the
receipt that said so was dropped. `ConfirmedIsShown` and `CursorFollowsDelivery` except
it (section 4 shows why). It takes windows of three images to matter: on the run's two,
both hold without the exception.

Abstractions and limits:

* One tile. Flights and frames are kept per tile; another tile can only disturb this
  one by a save that fails (`SaveFails`) or by becoming due (`OtherTileDue`).
* When the configuration changes, the code also invalidates the tile's flight
  (`SelectFolders`, `ga_gallery_runtime.inc` 276, 552-553). The model keeps it under a new
  attempt with `pub = 0`, which admits more behaviours.
* Thumbnails and image contents are a `version` of the inventory. The field
  `configurationGeneration_` becomes `pub = 0` (published under another
  configuration). Pins and selection only invalidate flights, as a reload does, and
  are left out; so are the status texts and `submittedStatus_`, and the static
  registration tiles.
* `Enqueue` (the poll thread's choice of slots and the queueing) is one step; a
  resend by `QueueGenerate` is two, since its batch is captured before it replaces
  the pending one.
* The code holds `g_generationMutex` for the whole of a generation; the model holds
  it from the check before an update to the receipt, which admits more behaviours.
* The engine's structural errors (limits of the ledger, `gallery_engine.h` 403, 436,
  444, 492) are not modelled.
* Settings: `Redistribute` stands for every outcome that matters to one tile (queue
  cleared, ledger kept or replaced, perhaps another size); the transaction itself is
  the next module.

### GalleryTransaction

The settings thread's program counter is `settings`: suspended, clearing, writing,
finishing, recovering, removing, resuming. Every durable write is a step and `Crash`
or `Fails` may come before and after each; after a crash, `startup` runs the recovery
before the poll thread starts. `Capture` and `Refresh` are two steps, as
`RefreshGallerySource` holds no lock between them; `Refresh` itself is one, for it
runs under `operation_`. The ledger is saved by comparison with what was last read
(`l = ledger`). `Decide` is that of `gallery_transaction.h`, applied to the three
files.

Abstractions: a configuration is the set of its tiles; a tile's queue is the set of
photos it shows; the ledger exists from the start, empty (the first setup creates it,
before the INI names a gallery); the balanced allocation of new images is any choice among the
configured tiles; an epoch identity is a number never used before (`minted`; the code
draws a random one); recovery's decision with the restored ledger is one step and the
removal of the record another. `OutsideEdits` lets other programs change the INI at
any time.

### ContentQueue

A configuration is a layout: its items, in order, and whether Windows rotates them, the
app does, or the contents are disabled. The poll thread's tick is a sequence of steps
(`PollRead`, `Compose`, `PollPublish`, `PollPlan`, `PollCheck`, `PollSubmit`), so that
settings, forced requests and the worker come between; the UI thread plans (`UiPlan`)
and submits (`UiSubmit`) under two different locks. The worker takes the pending request,
admits or rejects each frame, calls `Clear` and `Update`, and acknowledges. A picture is
a key that changes when the item does. The record of acknowledged frames is in memory
only, so what an earlier process left on the tile (`Left`) stays there as long as this one
shows nothing (`Untouched`), as with contents that are disabled when it starts. An
app-managed frame is marked sent when it is submitted, as in the code. Calendar, mail and
gallery queue frames, separate tiles, instance mode and backgrounds that cannot be used
are not modelled.

### CapsBlink

Threads are the poll thread (`at`), the worker (`pc`), the window thread, which edits the
settings and asks for restarts, and the environment: the Caps Lock key, and the driver,
whose timed-out calls may take effect later. The controller's mutex is held for part of
one action and never across two. A call of the driver succeeds, fails or times out
(`MaxFaults`). The blinking interval and the texts of errors are left out.

### LeaseElector

Time is relative: a deadline is what is left until it, and `Tick` takes one unit from
every clock. A call is answered in time, late, with an error or never, and the server
may execute it after its caller gave up (`late`). The row's name tells the command
gateway from the voice agent, which has `beforeAcquire` and `refreshed` besides: both are
explored from one initial predicate. `Punctual` says whether deadline timers run when
they are due.

### Watchdog and Supervisor

JavaScript runs to completion, so an action is one callback: a timer, an event of a
child, a signal. A child is a slot with a handle and, when the launch succeeded, a
process. `Supervisor` has no handles, events or timers: a bot runs, leaves or crashes,
and is replaced, within the budget, or supervision ends.

### NodeUpdate

The watchdogs of a node take the steps of `Supervisor` without the reset of the failures
after a long run; that the code's watchdog takes no others is what `Watchdog` shows.
Staging is one step that succeeds or fails; the database answers. `live` is the set of
releases the live files come from; {} stands for an exchange that deleted the old files
and has not yet put all of the new ones there, and for a mixture that nobody completes. A
watchdog whose bot has left has noticed it within the helper's ten seconds.

The helper can fail at every step (`HelperFails`): before its marker (`stillborn`), while
it waits, while it saves, which spoils the snapshot, and after the replacement. An
exception in the replacement leads to the roll-back (`CopyFails`, `Restore`), the end of
the helper's process in it does not (`Breaks`). The roll-back has no guard of its own and
may throw as well (`RestoreFails`); since a full disk or a locked file can cause both, that
costs no second failure of the budget. Nobody continues a lost exchange: what is left is
the snapshot.

### LocalInstance

A refused start exits with code 0 (`index.ts` 88-94), on which its watchdog ends
(`watchdogCore.ts` 59), so nobody repeats it (`refused`); a process that crashed or ended
by an exception is started again (`failed`, `Restart`), after two seconds at least, in
which a recovery that was under way has ended (`ahead`), since its probe gives up after
half a second. `unsure` remembers that a probe of a stale file was not refused.

One action is one system call. An inode is given out again once its file is unlinked and
its socket closed. `server.listen` is two calls; `raced` remembers that a probe fell
between them, the one exception the properties make. The named pipes of Windows, which
vanish with their process, are not modelled.

### ComputerCommands

One action is one SQL statement, or what a node does between two. A statement whose
caller sees an error may have been executed all the same, and an outcome may be written
later. The four-second timer of "sleep" is part of the step that completes it; registered
nodes are constant; `Keep` is 1 where the code keeps ten packages; failed or late
statements and crashes share one bound.

## 3. The runs

A run that passes explored its instance completely. No run replaces a definition.

| Run | Checks | Instance |
|---|---|---|
| `source` | `NoLostWakeup`, `ResourcesOfOneProfile`, `ImplementsPromise`, `Answered`, `BlockingCallsReturn` | 2 profiles, a waiting thread, with cleanup, `MaxRevision` 4 |
| `delivery` | `OnlyOwnedShown`, `ConfirmedIsShown`, `FramesAreDurable`, `CursorFollowsDelivery`, `PendingIsDelivered` | 2 images, queue sizes 1 and 2, failing saves, `MaxTicket` 2, `Budget` 1 |
| `delivery_stuck` | `EveryWindowEnds` is violated when a save fails | 2 images, size 2, `MaxTicket` 1, `Budget` 1 |
| `transaction` | `ShownIsOwned`, `HistoryIsWhole`, `PublicationResumes` | 2 images, 2 tiles, configurations {t1}, {t2}, {t1, t2}, outside edits, `MaxEpoch` 2, `Budget` 3 |
| `transaction_atomic` | `Recoverable`, `ImplementsHistory` | the same without outside edits, `Budget` 4 |
| `elector` | `OneWorkload`, `LeaderCovered`, `ImplementsFencedOwner`, `Takeover` | 2 processes, one of which may crash, restart and be stopped; lease 2, fail-safe 1; gateway and voice; late timers; `MaxEpoch` 2, one stray message |
| `caps` | `ClosesSettled`, `IndicatorRestored`, `FailureStaysVisible`, `Settles` | 2 keyboards, 1 edit or restart, 2 faults, 2 tries, Caps Lock pressed |
| `watchdog` | `HeldOrReported`, `ImplementsSupervisor`, `CrashIsAnswered` | 3 handles, 3 restarts |
| `update` | `NoHalfUpdate`, `RunsWhatIsInstalled`, `LoadsWholeFiles`, `NodeIsServed` | 2 updates, 3 watchdogs, a restart, a crash, a failure and a roll-back that fails with it, a stop, a slow helper |
| `instance` | `OneInstance`, `EndpointKept`, `StaleIsRecovered` | 3 starts, 3 inodes, 2 crashes |
| `commands` | `ServedOnceInOrder`, `OutcomeIsTrue`, `NeededIsKept` | 2 nodes, 1 user, 2 commands, 2 uploads of 2 contents, 2 faults; symmetric |
| `queue` | `CommittedIsShown`, `NoGhost`, `Converges`, `DepartureRetried` | 3 items, two Windows-rotated layouts, then app rotation, then none; 1 changed item, 1 forced request, 1 failure, one tag left by an earlier process |

What they ask:

* **source.** Can a fetch that was superseded, cancelled or overtaken by `Stop` still
  publish? Can a request, a `Wait` or a `Stop` be forgotten? They cannot.
* **delivery.** Receipts come late, from older attempts, in the middle of a refresh, after
  a crash or a redistribution, and a reset may wipe slots that were delivered. Even so the
  durable cursor moves only over a window that Windows holds whole, the in-memory proof
  that lets a due tile be skipped is true, and nothing is shown that the tile does not own.
  No plan cache, flight or frame key keeps a window pending, except the one way that
  `delivery_stuck` shows.
* **transaction, transaction_atomic.** The three files with a crash or failure at each
  step: the record is removed only over a whole history, no photo is re-dealt while a tile
  still shows it, publication resumes, and to the outside a redistribution is one step.
* **elector.** A call that was given up may be granted, executed after a newer one, or
  lost with its answer. The row still covers every leader's deadline, ownership passes
  under increasing epochs to one process at a time, and a lease nobody holds is taken.
  `OneWorkload` allows two workloads only while a deadline timer is overdue.
* **caps.** Stops, restarts, failures and late writes: a keyboard is let go of only when
  the driver owes nothing; the indicator shows Caps Lock again or the failure is on
  record; and in the end the worker does what the settings say.
* **watchdog.** Errors without exits, exits after errors, timers and stops in any order
  never count an exit twice or lose one, and the callbacks implement the supervisor.
* **update.** Two updates meet a crash, a failure at any step of a helper, a stop and a slow
  helper. Nothing is applied that the table does not have as completed; after one exchange,
  however it ended, a whole release can be had; no bot is loaded from half-exchanged files
  and none runs on while its files change; and the node ends with one serving bot.
* **instance.** A recovery proves a socket stale and unlinks it while others start, close
  and die, and while inodes return. Though refused starts end for good, a stale socket goes.
* **commands.** Answers are lost and outcomes are written late; nothing runs twice, a row
  never says what did not happen, and an upload spares the packages that are needed.
* **queue.** The layout changes between plan, delivery and acknowledgement. The delta skips
  only what is on the tile, which ends with what was saved.

### The bounds and why they are enough

* `source`: three revisions suffice for a request, the one that supersedes it and the
  cancellation of that; the fourth lets it start again on the other profile.
* `delivery`: two images and sizes 1 and 2 give windows that wrap, shrink, grow and lose
  an image, and a partly delivered window. `MaxTicket` bounds the windows ever dealt and
  blocks only `NewWindow`: two are a window and its successor. `Budget` counts edits,
  failures, crashes, suspensions, resends and changes of the inventory in one counter, so
  that any one of them meets any interleaving; the steps of clock and worker are free.
* `transaction`: two tiles and two images let a photo change hands; the configurations
  add, remove and swap a tile; `MaxEpoch` 2 is a redistribution after another; three of
  the budget are an attempt, a failure or crash in it, and an edit or a crash in its
  recovery.
* `elector`: a second epoch is what an old message can be mistaken for. With one unit of
  fail-safe inside a lease of two every order of deadline, expiry and answer occurs, but a
  call in time is answered within the unit it was started in. That a deadline counted from
  the answer would outlast the lease takes latencies longer than what the lease has over
  the fail-safe; for those, `LeaderCovered` rests on its theorem, which is for all of them.
  The
  bound on epochs ends the elections; `Takeover` excepts a row that reached it.
* `caps`: two keyboards let a session follow one on another device; the second fault
  meets the restoration of a session that failed.
* `watchdog`: a handle that still owes a late exit, the current one, and the next.
* `update`: three watchdogs are the first one and one for each update; a second update is
  what meets the first one's helper.
* `instance`: a stale socket, a process that recovers it, one that starts in between.
* `commands`: two rows for one node give an order, two nodes a stranger; with one package
  kept, two contents make every upload prune.
* `queue`: the layouts share an item, so that a tag lives on; the single failure, request
  and change meet every point of the delivery. A tag of an earlier process is what the
  first reset has to remove.

Deadlock checking is off where, with the bounds used up and nothing due, the system may
rest; that what must happen does happen is asked by the liveness properties.

### Fairness

* `AsyncSource`: weak fairness of the worker, of `Stop` and of a woken waiter. The
  threads are scheduled, and a fetch ends because "fetchers own their I/O deadline".
  Nothing is assumed of callers, of the clock, or of `Wait`'s timeout. `Answered`
  depends on requests being finitely many: a caller that forces a refresh faster than
  a fetch takes supersedes its own requests for ever, and the code promises it nothing.
* `GalleryDelivery`: weak fairness of the poll thread's and the worker's steps that
  succeed, of a captured resend, of the settings thread, and of time passing (retry
  delays, another tile's due time). Two actions get strong fairness. `Enqueue`: the
  poll loop refreshes and then queues in each round (`ga_generation.inc` 3372-3389),
  so a batch that can be queued round after round is queued, though refreshes
  disable it in between. `Scan`: a scan that ran to its end is taken by the next
  refresh. Failures are never fair.
* `GalleryTransaction`: weak fairness of the settings thread. Once it has generation
  it waits only, in `Suspend`, for the refresh that runs, and every path of it returns
  through the guard that resumes (`ga_gallery_tray.inc` 420-424).
* `LeaseElector`: the clock, and, only for processes that neither crash nor are stopped
  (`Reliable`), the steps of the loop and the deadline timer; the others may hang
  anywhere. Strongly fair are what depends on a call that may be late or lost each time
  but not for ever: a preparation that succeeds, an acquire that the server executes, an
  answer that arrives in time.
* `CapsBlink`: weak fairness of the poll thread, the worker and the driver's late finish;
  strong fairness of `Updates`, the ticks that do reach the controller, because ticks come
  for ever. Edits, faults and the Caps Lock key are not fair.
* `Watchdog`: timers and events are delivered, and SIGKILL ends a process.
* `NodeUpdate`: processes, timers and watchdogs run, the agent polls; failures, crashes
  and stops are not fair.
* `LocalInstance`: weak fairness of a started process's steps, and of `Restart`, the
  watchdog's answer to a process that failed (`watchdogCore.ts` 60-66; the instance has
  fewer crashes than the ten restarts of a window). Nothing repeats a refused start, and a
  probe may always end without a refusal.
* `ContentQueue`: poll thread, UI thread and worker run. The retry delay is strongly fair
  and ends only while poll and UI thread are idle: a tick takes far less than the delay.
* `ComputerCommands` has no liveness run.

## 4. What the runs found

**A window can stay pending for ever** (`delivery_stuck`). A save that fails
withdraws the frames but keeps the flight's attempt
(`DesktopStub/ga_gallery_runtime.inc` 258). A slot in flight reaches Windows, its receipt
is dropped because its frame is no longer published (643), but its frame key is
recorded as delivered (`ga_generation.inc` 2871). The next pass publishes the window
under the same attempt, the slot is skipped as delivered (`ga_content_state.inc`
139-143), and is never acknowledged. It takes a reload, a new inventory, another
configuration or a restart to get out.

### Known exceptions

These definitions state what a document, a comment or a message of the repository says
and the code does not keep. They are in the modules but not among the properties of a
run, because each needs constants of its own; with the change named here, TLC shows a
behaviour that breaks them.

| Definition | Constants | What happens |
|---|---|---|
| `GalleryDelivery!ConfirmedIsAllThatShows` | `MaxTicket` 3, `Budget` 2, `Spec` | A larger window that is partly delivered and then released leaves a slot that the next window, of the size last confirmed, does not reset (`ga_gallery_runtime.inc` 471; `src/docs/gallery-runtime-2026-10-15.md` 112). |
| `GalleryDelivery!ConfirmedIsShown` without `~unreported` | 3 images, `Sizes` {3}, `MaxTicket` 1, `Budget` 3, `Spec` | A failed save withdraws the frames while the slot that resets the queue is in flight; `Update` empties the queue, its receipt is dropped (`ga_gallery_runtime.inc` 258, 643), and the acknowledgements given before still count: once the rest is acknowledged the window is committed though Windows lacks a slot. `CursorFollowsDelivery` makes the same exception. |
| `GalleryTransaction!UnusedUntilRecovered` | `OutsideEdits` FALSE, `Budget` 2, `Spec` | `RefreshGallerySource` checks the record when it captures the configuration (883) and calls `Refresh` later: a redistribution that begins in between and whose recovery fails leaves its record, and the waiting `Refresh` reserves photos in the reset ledger (`src/docs/gallery-recovery-2026-10-18.md` 5). `Recoverable` is stated for ledgers nobody wrote since, which is why it holds beside this. |
| `CapsBlink!NeverJoinsCleanup` | `MaxFaults` 0, `Spec` | The worker's `Publish` hides the Stopping that `RequestStop` put in the snapshot, and the next tick joins the worker on the poll thread (`caps_blink_engine.h` 142; `ga_content_hardware.inc` 34). |
| `NodeUpdate!EveryCommandEnds` | no crash, failure or stop, `NodeFairSpec` | The restart for one update ends the preparation of the second, which stays claimed (`computerAgent.ts` 436; `README-V0.5.1.md` 19). |
| `NodeUpdate!AbortedIsNotApplied` | one update, `SlowHelper`, `NodeSpec` | A helper that gets ready after its five seconds still exchanges the files at the bot's next exit (`selfUpdate.ts` 593, 596). |
| `NodeUpdate!SnapshotIsWhole` | as in the run, `NodeSpec` | Two helpers waiting for one bot share a backup directory; the second saves half-deleted files (`selfUpdate.ts` 301; `README-V0.5.1.5.md` 18). |
| `NodeUpdate!FailedUpdateIsServed` | one update, one failure, no crash or stop, `NodeFairSpec` | After a failed exchange the files are restored and nothing starts the bot (`selfUpdate.ts` 374; `README-V0.5.3.md` 3). |
| `LocalInstance!StaleIsRecovered` without `unsure` | as in the run | One probe of a stale file that times out ends the start with code 0, its watchdog with it, and nothing starts the node again (`localInstance.ts` 73-77, `index.ts` 88-94, `watchdogCore.ts` 59; `README-V0.5.3.md` 3). |
| `LocalInstance!EndpointKept` without `~raced` | 2 starts, `MaxCrashes` 0 | A probe between the other start's bind and listen is refused, and its endpoint is unlinked while it comes up (`runtime/staleSocket.ts` 12; `localInstance.ts` 58). |
| `ComputerCommands!PackageIsThere` | `MaxFaults` 0, `MaxRows` 3, `MaxUploads` 3 | A package uploaded again keeps its age and is pruned by its own upload before its update is queued (`commands/clusterUpdate.ts` 73, 304). |
| `ContentQueue!NoGhost` | `Edits` `Entering` | An ordinary request that waits while Windows' rotation is turned on delivers a queue frame without the reset (`ga_content_state.inc` 447; `src/docs/windows-content-rotation.md` 61). |
| `ContentQueue!NoGhost` | `Edits` `BackAgain` | "Generate now" planned for a layout that is saved again while another layout's reset frame is delivered sends its frames without a reset (`ga_generation.inc` 3213). |
| `ContentQueue!NoGhost` | `Edits` `Reenabled` | "Generate now", planned while contents are disabled, runs after they are enabled again with app rotation: it delivers the queue frame a slow tick has just published from the older settings, without a reset (`ga_content_state.inc` 447). |
| `ContentQueue!Converges` | `Edits` `OneLayout`, `ClearThenThrow` TRUE | "Generate now" during the first batch resets a second time; if `Update` throws after that `Clear`, the delta still holds every frame and the tile stays empty (`tile_notification_payload.h` 199). |

## 5. The proofs

TLAPS proves these for every value of the constants that satisfies the named
assumptions. No theorem rests on an unproved fact. A theorem whose property no run
checks is a stronger statement for the same module, listed in `PROJECT.json` without a
property.

**AsyncSourceProofs**, from `SourceAssumption` (the empty key is no profile): type
correctness, `NoStrandedRequest`, `NoLostWakeup`, `ResourcesOfOneProfile`,
`NothingFromBeforeClear`, and the refinement of `LatestAnswer`. The invariant is
`Typed /\ IInv`. None of the properties is inductive alone: that only the latest
request is answered needs that a running fetch's key and revision are the source's
own unless it is cancelled (`FetchIsCurrent`); resources of one profile need how
`epochActive_` and `cleanupPending_` follow what is open (`EpochShape`); the
wake-ups need which thread still owes a notification (`Wakeups`).

**GalleryDeliveryProofs**, from `DeliveryAssumption` (finitely many images, `Ordered`
enumerates each set of them): type correctness, `FramesAreDurable`,
`OnlyOwnedShown`, `ConfirmedIsShown` and `CursorFollowsDelivery`. The first two follow from `Carried` and `Flown`: what is published,
flying and durable agree at each point of a refresh. `OwnedShown` adds `Owned`: a flight
names owned images only, and a frame must still be the published one of that flight when
it is checked; from there to its receipt generation is held, so that no redistribution
can begin under an update. The last two need the whole record (`Recorded`): attempts are
never reused (`Numbered`), so a frame known anywhere under the flight's attempt is the
flight's own (`Framed`); every slot acknowledged for it shows its image unless the slot
that empties the queue is still to come or its receipt was dropped (`Delivered`); a window
is committed when all its slots are acknowledged (`Reported`); and what was committed is
untouched until a window with another ticket is sent (`Confirmed`).

**GalleryTransactionProofs**, from `TransactionAssumption`: type correctness,
`ShownIsOwned`, `NothingShownWhilePending` and `HistoryIsWhole`, whatever other
programs do to the INI; and, assuming that they leave it alone
(`OutsideEdits = FALSE`), `Recoverable`, `ChangesTogether` and the refinement of
`GalleryHistory`. The first group rests on `Inv`: the memory copy of the ledger is
current or has to be read again, frames and the running update belong to it, publication
is quiet while settings work, and the clearing has emptied every queue it passed. The
second adds `Lineage`, `Sides` and `Phase`: which of the two old or new files each
point of the transaction can see.

**LeaseElectorProofs**, from `LeaseAssumption` (the fail-safe is shorter than the lease,
as `config.ts` demands): type correctness, `LeaderCovered`, `OneLeader`, `WorkIsOwned`,
`OneWorkload`, `ExpiredStaysExpired`, `StoppedStaysStopped` and the refinement of
`FencedOwner`. The invariant bounds by what is left of the row's lease every deadline
that may still be set: a call remembers when it was started, so whatever it is granted is
covered; a stray message names an epoch that is either over or the sender's own.

**CapsBlinkProofs**, from `CapsAssumption`: type correctness, `ClosesSettled`,
`IndicatorRestored`, `DisabledMeansNoWorker`, `SnapshotIsHonest`, `FailureStaysVisible`.
The invariant (`IInv`) says for each point of the worker what the session, the device,
the driver's pending call and the snapshot are.

**BotProofs**, of `Watchdog`, from its two assumptions: type correctness, `OneBot`,
`EndsAlone`, `RestartIsForNobody`, `HeldOrReported` and the refinement of `Supervisor`.
The invariant relates handle, process and timers: who is up is the child, a restart is
due only when there is none, a handle that reported is let go.

Of `NodeUpdate`, from its assumptions (finitely many commands, `Unset` is none of them,
bounds are numbers), for any number of failures, also of the roll-back: `NoHalfUpdate`,
`LoadsWholeFiles` and `RunsWhatIsInstalled`. The invariant (`NodeIInv`): a failure
budget is not overdrawn (`Budgeted`); a command in hand, a timer and the endpoint belong
to a bot that serves (`Served`, `Deferred`); a helper that no longer waits knows that its
bot left on purpose (`LeftOnPurpose`); a second watchdog starts only after an exchange is
over (`OneByOne`); only completed updates are in the files (`FromRecord`); one exchange at
a time leaves them whole or empty, with a whole backup (`Exchanged`).

Of `ComputerCommands`, from `CommandsAssumption`: `ServedOnceInOrder`, `OutcomeIsTrue` and
`NeededIsKept`, for any number of nodes, users, contents, rows, uploads and faults. A
command in hand, or with an outcome on its way, is out of the queue for good, and no other
node has it (`InHand`); how often it ran follows from its row and from what is done with
it (`Counted`). The proof goes through what no statement does to a row (`RowsKept`) and
what no step does to a command in hand (`HandKept`).

**LocalInstanceProofs**, from `InstanceAssumption`: type correctness, exclusiveness of
the recovery lock, `EndpointKept`, `OneInstance`. The invariant says what the socket of
each inode is in each stage of its process, and what two equal stats around a refused
probe prove of the inode between them, unless it raced.

**ContentQueueProofs**, from `ContentQueueAssumption`: `CommittedIsShown` if `Update`
does not throw after `Clear`; and `NoGhost`, torn resets included, in every behaviour
without two kinds of step (`Ghostless`), both for every sequence of settings. The steps
are the ones the known exceptions of section 4 show. `CleanReturn` excludes that a layout
is saved again while a plan made without a reset waits for it and Windows no longer has
it, or while Windows still has it and a frame of another layout is on its way
(`BackAgain`). `NoStray` excludes that an ordinary generation delivers a queue frame whose
layout Windows does not have, or anything into the queue of the saved layout (`Entering`,
`Reenabled`). A second theorem (`OneWayGhostless`) names settings for which neither occurs
(`OneWay`): no configuration is saved twice, none that Windows rotates comes after one
that it does not, and contents are disabled only at the end. Windows' rotations come
first, then; app rotation before any of them is excluded too. The run's sequence is of
this kind. The invariant says that each waiting plan resets the queue, is of the layout
Windows has, or is out of date, and that a frame on its way fits what Windows has.

Only model-checked: liveness, its fairness, and ENABLED, which this prover does not do;
and `ContentQueue`'s types (the bound of its count of visual changes is a fold over the
pictures, whose value needs induction over data). Every invariant and every action
property of the passing runs is a theorem. No model uses a RECURSIVE operator.

## 6. Plan

Done: the modules of section 2. Next:

1. `GalleryLedger`: `ReconcileOwnership` (`gallery_engine.h` 343-393), `PrepareQueueBatch`
   (412-453), `AcknowledgeDelivery` (463-475) and the compare-and-save, over several
   tiles and with the limits. Theorems: no image changes its owner in an epoch, a window
   names only images of its tile, a ticket names one window.
2. `DiscordService`: gateway session, reconnects and `CancellationRelay`
   (`DiscordRPC/service.cpp`, `service_cancel.h`).
3. The bot's history, reconciliation and startup plan; the registry notification
   service; packaged startup; completion records of the generation pipeline.

## 7. Not modelled

Parsing, formatting, rendering, file scans and WinRT calls are input and output of the
models: any inventory, any configuration, any failure. The single-instance mutex of
DesktopStub is taken to work, so one process of a profile runs at a time. Files are
replaced atomically (`config_ini.inc`, the ledger's store) and a durable write survives a
crash. PostgreSQL executes a statement atomically.

Most of the repository's lines are outside what a state model can say: the Windhawk mods
under `src/legacy/WindhawkMods/`, more than half of them, patch the appearance of other
programs and keep no protocol; rendering, layout, installers and sources' parsing are
sequential functions of their input; the managed helpers and the utilities run alone.
The models cover the parts with threads, processes, messages and durable state, which
are a small share of the lines. `PROJECT.json` gives the reason for each component.

Within modelled components: the pins, folders and status views of the coordinator; the
group backend and Win32 calls of the indicator; the bot's history, archive, audit,
reconciliation, message cache, guild settings, profile commands and heartbeats; the
limits and the text format of the ledger.

## 8. Running

In this directory, with TLC, the community modules and TLAPS 1.4.5 at hand:

    tlc -workers 2 -config MCGalleryDelivery.cfg MCGalleryDelivery.tla
    tlapm GalleryDeliveryProofs.tla

Each configuration belongs to the `MC` module it is named for (`GalleryDeliveryStuck.cfg`
to `MCGalleryDelivery`, `MCGalleryTransactionAtomic.cfg` to `MCGalleryTransaction`), and
`PROJECT.json` pairs runs, properties, mutants, source lines and theorems. A known
exception of section 4 is shown by a copy of the module's configuration with the
constants and the definition the table names.
