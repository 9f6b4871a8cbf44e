# Verification of NosBoost

NosBoost tunes a Windows machine for games and promises to take everything
back. It is a desktop program whose buttons start goroutines, whose modes leave
goroutines of their own behind, and whose effects outlive its process. This
directory holds TLA+ models of the parts that decide whether that promise is
kept, configurations that model-check them with TLC, and proofs for TLAPS.

## 1. Inventory

| Part (source) | State | Operations | Talks to |
|---|---|---|---|
| Mode orchestrator (`internal/gui/orchestrator.go`) | `orchestrationMutex`, `CurrentMode`, `cancelPowerLock`, `cancelGamePoll`, `orchestratorWG`, `injectedRoutes`, `servicesFrozen` | `ApplyExtremeMode`, `ApplyBalancedMode`, `ApplyTotalRestore`, `stopBackgroundThreads` | calls every part below; starts poller and ticker; is started by the dashboard's buttons |
| Game poller (`startHybridGamePoller`) | its context, the game found, what it has to take back | detect, hook, watch, take back | `booster/affinity.go`, `booster/scheduler.go`, `cleaner/iopriority.go` |
| Process hooks (`booster/affinity.go`, `cleaner/iopriority.go`) | `originalBackgroundAffinities`, `throttledPIDs` | restrict, isolate, throttle, restore | Windows processes, by id |
| Power plan (`syswatch/power.go`) | `ActiveTargetScheme`, one loop per mode | activate, enforce every 5 s | the active plan, which others may change |
| Services (`syswatch/suspender.go`) | `suspendedPIDs` | suspend, resume | the suspend count in the kernel |
| Routes (`network/routing.go`) | none (the list is the orchestrator's) | inject, delete | the routing table |
| Baseline (`config/backup.go`, `config/state.go`) | `state_backup.json` | save, load, restore | registry, power plan, services |
| Startup (`cmd/nosboost/main.go`) | none | save the baseline once, else verify it | baseline, dashboard |
| Settings (`booster`, `network/registry.go`, `hardware`, `memory`) | none; they write the registry and run system tools | one optimizing and one restoring call per group | registry; the restoring calls load the baseline |
| SysMain (`memory/sysmain.go`) | none | disable and stop, restore and start | the service control manager |
| Dashboard (`gui/dashboard.go`) | widgets | mode buttons, check boxes, toggles, drop-downs | orchestrator, settings |
| Console feed (`gui/dashboard.go`, `logToUI`) | `UIConsoleChan`, the text of a widget | log a line, append it, show it | every goroutine writes to it |
| Telemetry (`gui/telemetry.go`, `syswatch/graphics.go`) | labels | a ticker and two toggles | reads the mode, `servicesFrozen`, services, registry |
| Localization (`config/i18n.go`) | `currentLang` | set, translate | every text; the drop-downs of language and theme |
| Junk cleaner (`cleaner/garbage.go`) | none | walk directories, delete files | the file system, with other programs in it |
| Memory lists (`memory/purger.go`, `memory/trimmer.go`) | none | purge lists, trim working sets | kernel |
| Other switches (`hardware/optimization.go`, `network/flush.go`) | none | one call each | registry, services, system tools |
| Command runner, widgets, build | - | - | - |

What makes each part correct, and what is hard about it:

- **Orchestrator.** One mode at a time; the goroutines of the mode that is left
  are gone before the next one touches the system; what is noted for the
  cleanup is true and complete. Hard: any number of clicks at once, goroutines
  that are cancelled while they work, a ticker the WaitGroup does not count,
  stages that fail, notes that one mode writes and another reads.
- **Poller and hooks.** A hooked process is on the list that undoes it; a game
  gets its cores and priority back. Hard: processes exit between any two
  calls, ids are reused, and errors of some calls decide what is undone.
- **Baseline and settings.** The snapshot is of the untouched system and is
  never replaced; restoring gives every recorded setting its value back,
  whatever order modes, restores and check boxes came in. Hard: crashes before,
  during and after the first save; adapters and power plans that change between
  the writing of a setting and its restoring; goroutines outside the mutex.

- **Services.** What is frozen can be thawed; SysMain is off when the call says
  so and back after a restore. Hard: a process id is asked for, opened and
  remembered at three different times; a service stops and starts in its own
  time, with a clock running against it.
- **Power plan.** The plan a mode aimed at is the one that is defended. Hard: a
  fallback after each failure, a target shared by the loops of two modes, a
  loop that is cancelled in the middle of a tick, and a user.
- **Console, labels, drop-downs.** A line is shown, in order, within the limit; the
  labels end up true; a translation does not change a choice. Hard: readers
  without locks, closures that reach the UI thread late, callbacks inside
  callbacks.
- **Cleaner.** Nothing but junk goes. Hard: the tree changes during the walk.

The hazards with their lines are listed in `PROJECT.json`.

## 2. Modules

| Module | Models | Checked by |
|---|---|---|
| `Orchestrator` | the mode functions, pollers and tickers | `MCOrchestrator*` |
| `ModeSwitch` | what the orchestrator promises, without goroutines, in one process and across restarts | refinement in `MCOrchestrator.cfg` and `MCLifecycle.cfg` |
| `OrchestratorProofs` | theorems about `Orchestrator` | TLAPS |
| `Lifecycle` | `Orchestrator` in a process that is launched, killed and launched again | `MCLifecycle*` |
| `LifecycleProofs` | theorems about the total restore, in one process (`Orchestrator`) and across several (`Lifecycle`), and what of `Orchestrator` holds across restarts | TLAPS |
| `GamePoller` | the poller in detail, with processes | `MCParts`, `MCGamePollerUnbound.cfg`, `GamePollerProofs` |
| `Rollback` | settings as values: what is recorded, written, written back | `MCRollback*`, `RollbackProofs` |
| `Suspender` | freezing and thawing services, process by process | `MCParts`, `SystemProofs` |
| `SysMain` | stopping and starting the SysMain service | `MCParts`, `SystemProofs` |
| `PowerPlan` | the power plan, its fallbacks and the loops that defend it | `MCParts`, `SystemProofs` |
| `ConsoleFeed` | from `logToUI` to the text of the console | `MCParts`, `DashboardProofs` |
| `Preferences` | language, theme, and the callbacks between them | `MCParts`, `DashboardProofs` |
| `StatusPanel` | extends `Preferences` with the telemetry labels and two toggles | `MCParts`, `DashboardProofs` |
| `JunkCleaner` | the walks of `ExecuteDeepCleanup` | `MCParts*`, `CleanerProofs` |
| `MCParts` | `GamePoller` and the seven above side by side | `MCParts*`, `PartsProofs` |

### Orchestrator

A click's goroutine has a program counter: `lock` (before `Lock()` and the check
of the mode), `wait` (in `orchestratorWG.Wait()`), `body` (working through `todo`,
the stages that are left, in the order of the source), `return`. `Press`,
`Refuse`, `Begin`, `Started` and `Return` are the click's way through the mutex;
`RunStage` is one cooperative check and one stage; `RestoreStep` one step of
`ApplyTotalRestore`, which checks nothing. A stage's operator (`Tweak`,
`EngagePowerPlan`, `AddRoutes`, `FreezeServices`, ...) has a disjunct for the call
that succeeds and one for the call that fails, paid for by `MaxFailures`. The
poller's steps are merged to three (`Detect`, `GameExit`, `PollerDone`); the
ticker keeps its own (`TickerStart`, `Tick`, `Enforce`, `TickerDone`), since the
gap between reading the active plan and activating another one is where it can
be cancelled without noticing.

The machine is abstracted to `engaged` (the settings that a stage has tuned and
nothing has taken back since), the suspend count, the route table and the hooks.
`Recorded` are the settings that the backup has a field for, which a restore writes
back; `Reset` those it has none for, which a restore deletes or sets to constants of
its own: leaving `engaged` means for these that they are reset, not that they are what
they were. Two settings are in neither set and are not followed here: core
parking of the plan that the program activates, which a second optimization
tunes (`booster/power.go:40`) and no call takes back, and USB suspend, which the stages
and the restore set in whichever plan is active. `Rollback` has both. `Checked` names the
two stages of Balanced mode that follow the one before without a check.
`state_backup.json` is `baseline` (can it be loaded) and `snapshot` (the settings it
recorded in their tuned state, none if it was taken in time).

Names of pollers and tickers are reused when the goroutine has ended. TLC is
given more names than can be in use where it matters; where there are fewer
tickers than a behaviour would need, a mode waits with its power plan until one
has gone, which only shortens behaviours.

### Lifecycle

Extends `Orchestrator` with the process: `LaunchFirst` and `WriteBaseline` are the
first start (a stop in between leaves no file or a truncated one), `LaunchAgain`
any later one, `Stop` the end of the process anywhere: memory goes back to its
initial values, the machine keeps what was done to it. `Reboot` clears suspended
processes and routes. `Recreate` is the user who follows the warning that
a damaged backup should be created again. A start without administrative
rights is left out: there every write fails.

`LifeSwitch` maps the whole to `ModeSwitch` with a further action, `Restart`: the mode is
`CurrentMode`, a switch is under way while a click is in the body, and background
processes are throttled by the poller of this process or by one of an earlier one
(`orphans`). `Restart` puts the mode back to the initial one and leaves what is throttled
as it is: after a crash the program says Safe Default of a machine on which
processes may still be throttled (finding 4 is the other side of that).

### GamePoller

One poller, one step per call: `Detect`, `RestrictBackgroundProcesses`,
`IsolateGameProcess`, `ElevateProcessPriority`, `ThrottleBackgroundIO`, then the
select with its two ways out. Processes start and exit between any two of them.
A process that exits while a handle to it is open keeps its id (`Exited`); when the
waiter closes it, the id may be used again. `Undo` is what both ways out take
back, `TotalRestore` the two calls at the end of `ApplyTotalRestore`. That one
poller runs at a time is what `Orchestrator` shows (`PollerFollowsMode`).

### Rollback

A setting is a group of registry values (or values behind a tool) that the code
always writes together, with the place it belongs to: the machine, an adapter
or a power plan. Each optimizing or restoring function is an operator that
returns what it writes, a function from settings to values; `Optimize` and
`Restore` apply them in the order of the source, `Toggle` applies those of the
check boxes at any time, next to a running mode. `loops` are the power lock loops of
the current mode and of earlier ones: `Tick` puts the mode's plan back whenever another
one is active, between the calls of a restore and after it as well. Settings start out all absent,
all the user's or all tuned already, which is enough because no write to one
depends on the value of another; the devices and plans vary freely.

### Suspender

`Orchestrator` keeps one suspend count; here every call has its step: the service
manager names a process (`QueryPID`), a process with that id is opened and
suspended (`SuspendPID`), later a process with the remembered id is resumed
(`ResumePID`). Between them processes start (`StartHost`), exit (`ExitHost`), and
their ids are used again; two services may share a host. `lost` notes what the
properties except: a call has failed, or Balanced came in between (finding 1).

### SysMain

`DisableSysMain` is `DisableStart`, `QueryBeforeStop`, `SendStop` and `Poll`,
`RestoreSysMain` is `RestoreStart`, `QueryBeforeStart` and `StartService`: one step per request
to the service manager, any of which may be refused (`Refuse`). The service moves
by itself (`ServiceMoves`, `Triggered`), and the five seconds are over at any time after
the wait began (`Clock`). The properties need nothing from the two calls' order:
the mode functions call them one at a time.

### PowerPlan

`TryUltimate`, `TryHigh` and `KeepActive` are the three ways `EnableUltimatePowerPlan` finds a
target; `CallFails` is a call that fails anywhere. A loop's tick is four steps,
since it reads the active plan (`Tick`), compares it with the shared target
(`Compare`), reads the target again for the command (`Aim`) and only then activates
it (`Enforce`), maybe the target of a mode that is no longer on. `active` is the value in the registry, which is what the
code reads. A torn read of the target, a Go string, cannot differ from the old
or the new one in its length, and the model takes it to be one of the two.

### ConsoleFeed

A line is a value with its writer and number, a text a sequence of lines. The
goroutine loads the text's pointer and its length separately and the UI thread
stores them separately, in either order: the race on `consoleFeed.Text` is modelled
by what it can produce, a text cut short or one that runs on into the memory
behind it (`Garbage`). `owed` holds the lines that got into the channel and have not
been shown.

### Preferences and StatusPanel

`Refresh` is `refreshUIStrings` as far as it has an effect: it translates the options of
the theme drop-down and selects the one in the old position, which runs the
callback that sets the theme. `StatusPanel` adds the goroutines that read the mode,
two registry values and three services one after the other (`ReadSettings`,
`ReadService`) and post what they found (`PostSettings`, `PostServices`) to the UI thread
(`ShowUpdate`). The toggles (`Click`, `Get`, `Set`) read, write, and then read and post like
the ticker does. Of the reads that fail only some are reported; the others count as
a value (`Unread`).

### JunkCleaner

`Walks` lists the walks of a sweep. `filepath.WalkDir` is an agenda of paths with the
kind they were listed as: `Visit` calls the function on the first one and `List` puts
what is in a directory before the rest, so that other programs (`Creates`,
`Deletes`, `OpensOrCloses`) may change the tree between a listing and a removal.
`Listings` are the sequences of what is in a directory, in the order of names (`Precedes`).

A path may hold a link (a symbolic link or a junction). A listing does not take a
link for a directory, so that a walk removes it and does not follow it. What
does follow it is a directory that was listed as one and has been replaced by a
link since: `os.ReadDir` and `os.Remove` then come to where it leads (`Leads`: to the directory
`Elsewhere`, or to what is below it, whatever the path's own name is). `relinked` notes that
another program has put a link in place of a directory that the walk has still to
list, or that is above what it has still to visit (`Treads`).

`ScannedAssumption` says that the two directories scanned for logs are not named like
one, as `Temp` and `AppData\Local` are not: `scanAndCleanLogs` does not except its root.
`TreeAssumption` says that every path has a topmost directory, `InsideAssumption` that a
sweep starts on a tree in which what there is is in a directory and no link is
above the directories of the sweep, and `WipedAssumption` that
the four temporary directories are different and none is inside another, as they are
unless `%TEMP%` is set to one of the others: then a directory is swept twice, and
the second time takes empty directories that the first has left.

### MCParts

The eight share no state and none waits for another (`StatusPanel` takes the mode
and the services from its surroundings, `WorldChanges`; `Orchestrator` shows what comes of
the poller's waiting for mode functions and theirs for it). `MCParts` chooses one
in `Init` and lets it move while the others rest, so that one run holds the sum of
their states and not the product. Its `Fairness` is theirs.

## 3. Runs

| Run | Instance | Shows |
|---|---|---|
| `orchestrator` | 3 clicks, 2 pollers, 2 tickers, 1 route, suspend limit 2, no failures | type, mutual exclusion, pollers, tickers, no waiting in vain, notes, clean rollback, refinement |
| `orchestrator_live` | 2 clicks, 1 poller, 2 tickers | every click is answered; cancelled tickers stop |
| `lifecycle` | 1 click, 1 poller, 1 ticker, 2 ends of the process, 1 failing call | snapshot pristine and locked; restore complete; second chance; refinement across restarts |
| `rollback` | 2 adapters, 2 events, a power lock loop of the mode and a cancelled one | recorded settings restored; no third value |
| `parts` | `ConsoleFeed`: 2 writers of 2 lines, channel of 2, limit 3, cut 2. `Preferences`: 2 languages, one lacking a text. `StatusPanel`: 1 toggle, 2 events, 2 pending closures. `SysMain`: 2 refused requests. `Suspender`: 2 ids, 4 processes, limit 3, 1 failing call. `JunkCleaner`: 13 paths, 1 event. `PowerPlan`: 3 plans, 2 loops, 4 events. `GamePoller`: 2 ids, 3 processes, 2 handles, 1 failing call | the properties of the small components; hooks, records and releases of the poller, which stops when it is cancelled |
| `services_stay_frozen`, `routes_stay`, `cancel_not_heeded`, `restore_refused`, `stays_bound`, `inexact_restore`, `nested_directories_stay` | the smallest instances | the findings of section 6 |

Why the bounds are enough: a third click waits for the second as the second
waits for the first, so that three show every overlap (one works, one is
next, one may arrive and be refused). Two tickers let an old and a new one
overlap; there is never a second live poller. One route is enough for a list
that is lost or kept as a whole. A suspend limit of 2 reaches the limit in one
more switch. A failing call is independent of other failing calls except in
`SecondChance`, which is about exactly one. Two ends of the process cover an
end during the first save and one during a mode. Two ids and three processes
give a game, a background program and a third process that takes over the id
of either. Two events let a check box be clicked on and off, or a device change
around one click. `engaged`, `todo`, the modes and all counters but those bounded
by `MaxFailures`, `MaxStops`, `MaxStarts`, `MaxHandles` and `MaxEvents` are unbounded in
time: behaviours of any length are explored.

The actions for failing calls do not fire in `orchestrator`, whose bound is 0; they
do in `lifecycle`, and the proofs allow any number.

In `parts` the channel overflows and the text is cut although both are small: the
code's 1024 and 30000 differ from 2 and 3 only in how long that takes. A text of
3 lines of which 2 are cut keeps a line from before the cut. Two languages with
one text missing give a selection that keeps its text, changes it, and falls
back to English. Two events let a reading be overtaken by one change and the
next; two pending closures are one of each reader, or the ticker's two. A reader
that cannot post waits, which the code's unbounded queue does not make it do:
what is delayed longer there is delayed in the reader here. Two refused requests let
both calls of a pair fail. Four processes with two ids let each service be
restarted and each id be reused; the limit of 3 is reached by two services in
one host. One event of another program during a sweep is one between any
listing and its removals; trees vary in what `dir`, `deep` and `tmp.log` are, a link
among others, which leads to a directory with an empty one in it. Three
plans are the program's two and the user's own; two loops are the old and the
new; four events are a switch, a failure, a choice and a deletion.

`CHECK_DEADLOCK` is on in every passing run but `parts`: a click can always be
pressed or answered. A small component stops when the lines, processes or events
of its bounds are used up, as it would when nobody writes or clicks. That the poller
is not waited for in vain is `WaitsEnd`.

### Fairness

`orchestrator_live`: goroutines that can run do run (weak fairness). Acquiring the
mutex is strongly fair: `sync.Mutex` hands over to a waiter that has waited for
1 ms (its starvation mode), so that no click is passed over forever. The exit of
a ticker is strongly fair: `select` chooses uniformly among ready cases, so that
a context that stays done is chosen in the end although ticks keep coming.
Pollers need only weak fairness for their way out, since `ctx.Done()` stays ready.
Nothing is assumed of the user, of games, or of other programs.
`parts`, the poller: its calls go on; leaving the watch is weakly fair, leaving
the sweep strongly fair for the same reason as above.

`parts`, the others: main, the console's goroutine and the UI thread go on (`FeedSpec`); the
telemetry goroutine and the UI thread go on, the toggles need not (`PanelSpec`); a
call about SysMain goes on and its five seconds pass, but the service may hang
in any state (`SysMainSpec`); the loops of the power plan go on, while mode functions
and users may take any time (`PlanSpec`). All of it is weak fairness: these
goroutines hold no lock that others may keep from them.

## 4. Properties

Orchestrator: `ModeHeld` (nobody changes the mode under a working function),
`PollerFollowsMode` (one poller, of the current mode, never beside a working mode
function, always cancellable), `NoOrphanTicker`, `WaitsEnd` (who waits for the mutex waits
for a click at work, who waits for the WaitGroup waits only for goroutines that end
without the mutex: freedom of deadlock as a state property), `NotesHonest`, `CleanRollback`,
`SwitchesModes` (refinement of
`ModeSwitch`), `ClickAnswered`, `CancelledTickerStops`. Lifecycle: `PristineSnapshot`,
`RestoreComplete`, `SecondChance`, `BaselineLocked` (action property), `RestartsAsModeSwitch`
(refinement of `ModeSwitch` with restarts). GamePoller:
`BoundIsRecorded`, `OwnMaskRecorded`, `ThrottledIsListed`, `GameReleased`,
`AllReleased`, `CancelStops`. Rollback: `RecordedRestored`, `NoThirdValue`.

Suspender: `ThawedAfterRestore`, `FrozenIsRemembered`. SysMain: `DisabledForGood`, `SysMainBack`,
`SysMainReturns`. PowerPlan: `TargetWasActive`, `PlanDefended`. ConsoleFeed: `EveryLineShown`,
`FeedInOrder`, and `FeedBounded` as a part of `TypesOK`. Preferences: `ThemeKept` (action property). StatusPanel:
`LabelsSettle`. JunkCleaner: `OnlyJunk`, and `FilesSwept` (a sweep that nobody disturbs removes
every junk file and link that is not in use). That it removes the empty
directories as well is not so (finding 7).

Each property has a mutant in `PROJECT.json`: a plausible bug in a mapped
definition under which TLC finds the property violated. The mutant operators
stand before the definitions they replace and are marked as such.

Limits that the properties state themselves: `CleanRollback` says "written back or
reset", not "as it was", of the settings in `Reset` (finding 6 shows the difference), and
`RestoreComplete` speaks only of those in `Recorded`; neither says anything of core
parking in the plan that the program activates, or of USB suspend; both except
the power plan, which a cancelled ticker in the middle of a tick may activate once
more, and `RecordedRestored` is not about the active plan for the same reason;
`PristineSnapshot` needs that no call failed and that the user deleted no
damaged backup; `RecordedRestored` excepts settings that a check box wrote since
the mode was chosen; `EveryLineShown` says that a line is shown at some time, not
that it stays, since a text built on an older one replaces it; `FeedInOrder` excepts
the memory behind a text; `ThawedAfterRestore` and `FrozenIsRemembered` except what `lost`
notes; `SysMainBack` excepts a service that ends by itself after the restore and a query
that is refused, which the code takes for a service that runs; `PlanDefended` excepts a
target that the user has deleted; `OnlyJunk` excepts a link that another program puts
in place of a directory the walk is in or has still to list (`relinked`): the walk
follows it, and TLC shows without the exception that it removes an empty
directory of the place the link leads to.

## 5. Proofs

`OrchestratorProofs` proves, for any number of clicks, pollers, tickers, routes
and failures, from the named assumptions on the constants alone:

- `TypeCorrect`: `Spec => []TypeOK`. One lemma per group of actions.
- `ModeIsHeld`, `PollersFollowMode`: from the inductive invariant
  `IInv == TypeOK /\ LockInv /\ CountInv /\ PollerFollowsMode`. `PollerFollowsMode` alone is not
  inductive: that a mode function finds no poller when it starts to work needs
  that every live poller is counted by the WaitGroup (`CountInv`), and that nobody
  starts another one meanwhile needs that only the holder of the mutex is past
  `lock` (`LockInv`), which also says that the mode in the body is the one asked for.
- `ThrottlesOnlyInExtreme`: an action property (`ThrottleOnlyInExtreme`) from the same invariant;
  `SwitchesModes`, which TLC checks, implies it.
- `NoTickerIsOrphaned`: `NoOrphanTicker` from `TInv`, which adds to it that `cancelPowerLock` is
  nil from `stopBackgroundThreads` until the power plan's stage sets it, so that no
  cancel function is overwritten; it rests on `IInv` (only one click is past `lock`) and
  on the plan of a mode holding that stage once (`ModePlanOnce`, `TailPlan`).
- `NobodyWaitsInVain`: `WaitsEnd` from `WInv` on top of `IInv`. `WInv` says that the WaitGroup counts a
  ticker only until its loop has started, and that a click that waits has set
  `cancelGamePoll` to nil; `PollerFollowsMode` then makes every live poller a cancelled one,
  and `LockInv` says who holds the mutex.
- `NotesAreHonest`: inductive with `TypeOK`; holds whatever fails.
- `ImplementsModeSwitch`: `Spec => SwitchesModes`. Each step of the goroutines is a step
  of `ModeSwitch` or a stutter; `LockInv` gives that a switch begins only when none is
  under way.

`LifecycleProofs` proves what a total restore brings back, with `Orchestrator`'s invariants
for one process and then for any number of them:

- `RollbackIsClean` and `OneFailureIsRepaired` (`Spec => []CleanRollback`, `[]SecondChance`), from
  `CleanInv` on top of `IInv`. That everything is gone at the end is not inductive: while
  the steps of `ApplyTotalRestore` run, what is not yet taken back has to be taken back by
  the steps still ahead. (Taken back: written back or reset.) `Recovers(s)` says so for a list `s` of steps, `RestoreInv` for
  the list of each click; at the start `s` is the whole plan, whose steps revert every
  tweak but the power plan (`RestorePlan`), and at the end it is empty. The tweaks taken back twice (`Twice`)
  are either gone or have a second step ahead, which is what one failure leaves true.
- `LifeTypeCorrect`, `BaselineIsLocked` (an action property), `SnapshotIsPristine`,
  `RestoreIsComplete` and `OneFailureIsRepairedLater`, about `LifeSpec`. `LifeInv` carries `IInv` and
  `RestoreInv` through the ends of the process, and adds where a backup can come from:
  only a process without buttons writes it, and what it writes was captured before
  any mode ran (`LaunchInv`, `UntouchedInv`). `PristineSnapshot` alone is not inductive:
  it needs that as long as there is no file, no process has got as far as its buttons
  and nothing is tuned.
- `PollersFollowModeLater` (`ModeHeld` and `PollerFollowsMode`), `NobodyWaitsInVainLater` (`NoOrphanTicker`
  and `WaitsEnd`) and `NotesAreHonestLater` (`NotesHonest`) say of `LifeSpec` what `OrchestratorProofs` says of
  one process. `KeptInv` joins the inductive invariants of that module, and adds what the
  reboot needs, which drops routes and suspended services: it comes while no process
  runs, and then nothing is noted.
- `ImplementsRestartingSwitch`: `LifeSpec => RestartsAsModeSwitch`, step by step like `ImplementsModeSwitch`;
  the end of a process is a `Restart`, and `OrphansSwitch` says that the steps of a process do
  not depend on what earlier ones have left throttled.

`GamePollerProofs` proves, for any process ids and whatever exits and reuses them, all the
safety properties of `GamePoller`: `PollerTypeCorrect`, `BoundProcessesAreRecorded`,
`OwnMasksAreRecorded`, `ThrottledProcessesAreListed`, `GamesAreReleased` and `TotalRestoreReleases`. `PollerInv`
adds to the properties that the poller's open handle keeps the game's id from being
reused until its exit has been seen (`GameHeld`), that each kind of write on a living
process has the record that takes it back (`HookIsKnown`), and that no record holds a
value the poller wrote (`RecordsOwn`).

`RollbackProofs` proves `RollbackTypeCorrect`, `NoValueOfItsOwn` (`[]NoThirdValue`) and
`RecordedSettingsReturn` (`[]RecordedRestored`), for any adapters and plans. Each optimizing call is
shown to write tuned values (`Tuned`), each restoring call recorded ones (`Faithful`).
`RecordedRestored` speaks of the end of a restore; `RestoredInv` says that the values are back
from its first call on and that no later call spoils them, whichever plan a loop
has put back meanwhile, except for the mouse,
which `RestoreBaselineState` does not delete and a later call does.

`SystemProofs` proves, about SysMain, `SysMainTypeCorrect`, `StaysDisabled` (`[]DisabledForGood`) and
`ComesBack` (`[]SysMainBack`). A report of success is the last of several steps, so that the
invariant says what the steps before it have reached (`Reached`, `Restored`): the service
is disabled from the first request on, and has begun to stop before it is waited for.
About the suspender it proves `SuspenderTypeCorrect`, `FrozenCanBeFound` (`[]FrozenIsRemembered`) and
`NothingStaysFrozen` (`[]ThawedAfterRestore`). `FrozenIsRemembered` counts all remembered ids and is not
inductive: an id may be a leftover of a process that was gone when it should have
been resumed, and stand for the new owner of the id. `Tracked` names the services
whose id counts at each moment, and `TrackedInv` bounds the suspend counts by those.

About the power plan it proves `PlanTypeCorrect` and `TargetsAreReal` (`PlanSpec => []TargetWasActive`). `AimInv`
extends the property to the time between finding a target and starting its
loop, and adds that the active plan is one that was active, which the last
fallback relies on.

`DashboardProofs` proves `FeedTypeCorrect`, `LinesInOrder` (`[]FeedInOrder`), `TextsStayShort`
(`[]FeedBounded`) and the action property `LanguageKeepsTheme` (`ThemeKept`). The text that is shown
may be made of the pointer of one text and the length of another. `TextInv` therefore
speaks of all the texts a goroutine can still load or post: each has the lines of a
writer in order, and none of the lines that are still to come (`Sound`, `Past`,
`Coming`), so that whatever is cut or run on, appending the next line keeps the order.
`ThemeInv` says that the options are those of the language and the selection one of them,
which is what makes the index that `Refresh` looks up a right one.

It also proves `PanelTypeCorrect` (`PanelSpec => []PanelTypeOK`) and `LanguageKeepsThemeLater` (`PanelSpec =>
ThemeKept`), for any number of toggles. `PanelTypeOK` says more than types: what a reader has
found out fits the place it has come to (`ReadersOK`, `SettingsFound`), so that it never posts a
label it has not read, only the ticker's goroutine asks for services, and a closure
holds either texts or what the UI thread translates (`Updates`).

`PartsProofs` proves of `MCParts`, for every value of the constants, `PartsTypeCorrect` (`Spec => []TypesOK`),
`PartsKeepPromises` (all the other invariants of the run `parts`) and `PartsKeepTheme`. `PartsStep` shows
that each step of the composition is a step or a stutter of every component, so that
the inductive invariants of the components are one of the composition.

`CleanerProofs` proves `CleanerTypeCorrect`, `OnlyJunkIsRemoved` (`CleanerSpec => []OnlyJunk`) and
`FilesAreSwept` (`CleanerSpec => []FilesSwept`), for any tree with links and any number of changes
by others. The relation `Below` is a recursive function over parents, of which nothing is
known by its definition alone: `AncestorsStep` and `BelowIs` first show that its equation
has a solution, the least set that holds the parent and with each path its parent.

- `OnlyJunk`: a removal goes by a path that was listed some time ago; `AgendaInv` says that
  every such path is the walk's root or below it, and `LinkInv` that until a link is put
  in its way no directory above such a path is a link, so that the path leads to
  itself.
- `FilesSwept` follows from `SweptExactly`, which gives the whole tree that a sweep leaves (`Left`),
  directories included: `Takes(i, p)` says which of the ten walks removes a path that has to go, and
  `SweepInv` that as long as nobody interferes there is a set `V` of visited paths such that
  exactly those are gone whose walk is over, or under way and has visited them
  (`TreeInv`). Three more parts make that inductive: `V` grows from a directory to what is
  in it (`VisitedInv`), the agenda has nothing twice and nothing visited (`AheadInv`), and
  nothing in a listed directory is forgotten (`ReachInv`). That a walk comes to every
  path is an induction over the depth of the tree, done without an induction
  principle: the paths it missed would be a set without a topmost one (`AllVisited`). The
  second walk relies on the first: what it finds in a directory is what is in use
  and the directories (`StillInside`).

Each inductive invariant was checked by TLC on the run of its module before it was
proved.

Assumptions. All theorems rest on the named assumptions of the modules alone, which
TLC evaluates in the runs: bounds are numbers, `None` is no goroutine, the fallback
plans are plans, English is a language, paths have parents. Those of `JunkCleaner` are
explained in section 2, and only `FilesAreSwept` needs that the temporary directories
are apart. `WritersAssumption` of `ConsoleFeed` keeps the goroutines' names apart from the
tags of the model's own lines.

Only model-checked:

- All liveness, which fairness and ENABLED put out of the prover's reach: `ClickAnswered`,
  `CancelledTickerStops`, `CancelStops`, `EveryLineShown`, `LabelsSettle`, `SysMainReturns`, `PlanDefended`. Of
  `ClickAnswered` the safety half is proved: `NobodyWaitsInVain`.
- The findings of section 6, which are counterexamples.

Every invariant, action property and refinement that a passing run checks is stated by a
theorem.

No module declares a `RECURSIVE` operator.

## 6. Findings

1. `services_stay_frozen`: Extreme, Balanced, restore leaves services suspended
   (`orchestrator.go:368`).
2. `routes_stay`: the list of routes is replaced on a switch between modes
   (`orchestrator.go:346`).
3. `cancel_not_heeded`: the cooperative checks can never fire (`orchestrator.go:121`);
   `ModeHeld` is the other side of it.
4. `restore_refused`: after a relaunch a tuned system cannot be restored at once
   (`orchestrator.go:404`).
5. `stays_bound`: background processes stay bound after a game that exited early
   (`orchestrator.go:629`).
6. `inexact_restore`: settings without a field in the snapshot are restored to
   constants (`peripherals.go:196` and others).
7. `nested_directories_stay`: the second walk removes one level of nested empty
   directories only (`garbage.go:84`).

## 7. Not modelled

- Memory lists (`purger.go`, `trimmer.go`): single calls into Windows without state.
- The other switches (DWM, Windows Search, hibernation, network flush): one call
  each, recorded nowhere and undone by nothing but their own check box. Windows
  Search stops and starts like SysMain, but ignores every error.
- The command runner: its result appears as success or failure of what it runs.
- The label and the bar of the memory load, the counts of the cleaner, the tags
  of the console's lines, the restore card's confirmation, the layout, the
  parsing of games, locales and versions, the build.
- A start without administrative rights, in which every write fails, and a
  launch from another directory, which finds no backup.
- What the links of a tree do above the directories of a sweep, and more than one
  place that links lead to.
- Routes that Windows drops by itself; the copy of a power plan that
  `-duplicatescheme` leaves behind on every switch.

## 8. Plan

1. Done: `Orchestrator`, `ModeSwitch`, `Lifecycle`, `GamePoller`, `Rollback`, the seven small
   components and their composition, their runs, and the proofs of section 5: every
   safety invariant, action property and refinement that a run checks.
2. Extend, if there is room: the check box of Windows Search, the start without
   rights.

## Running

    tlc -workers 2 -config MCOrchestrator.cfg MCOrchestrator.tla
    tlc -workers 2 -config MCParts.cfg MCParts.tla
    for m in *Proofs.tla; do tlapm $m; done
