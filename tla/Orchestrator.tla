---------------------------- MODULE Orchestrator ----------------------------
(***************************************************************************)
(* The mode orchestrator of internal/gui/orchestrator.go.  Every click on  *)
(* a mode button starts a goroutine that runs ApplyExtremeMode,            *)
(* ApplyBalancedMode or ApplyTotalRestore.  The goroutines share one       *)
(* mutex, one mode variable, two cancel functions, one WaitGroup and the   *)
(* record of what was injected into the system.  Each mode leaves behind   *)
(* two goroutines of its own: the game poller and the power plan ticker.   *)
(*                                                                         *)
(* The operating system is abstracted to the set of tweaks in place, the   *)
(* suspend count of the frozen services, the routing table, and the hooks  *)
(* put on running processes.                                               *)
(***************************************************************************)
EXTENDS Naturals, Sequences, FiniteSets

CONSTANTS
    Clicks,       \* goroutines of the mode buttons, at most this many pending
    Pollers,      \* identities for goroutines of startHybridGamePoller
    Tickers,      \* identities for goroutines of StartPowerLockTicker
    Routes,       \* the game subnets of games.json
    None,         \* the nil of a cancel function and of the mutex holder
    MaxSuspend,   \* the kernel's limit on a suspend count (127 on Windows)
    MaxFailures   \* bound on the system calls that fail in a behaviour

ASSUME MaxSuspendAssumption == MaxSuspend \in Nat \ {0}
ASSUME MaxFailuresAssumption == MaxFailures \in Nat
ASSUME NoneAssumption == None \notin Clicks \cup Pollers \cup Tickers
ASSUME GoroutinesAssumption == Pollers \cap Tickers = {}

VARIABLES
    pc,                 \* where each click's goroutine is
    job,                \* the mode each click's goroutine was started for
    todo,               \* the stages it has still to run
    orchestrationMutex, \* the click that holds the mutex, or None
    CurrentMode,
    cancelPowerLock,    \* the ticker this function would cancel, or None
    cancelGamePoll,     \* the poller this function would cancel, or None
    orchestratorWG,     \* the goroutines that were added and are not done
    cancelled,          \* the goroutines whose context is cancelled
    poller,             \* where each poller is
    isExtreme,          \* the pollers started with isExtreme = true
    undo,               \* the hooks each poller will take back
    ticker,             \* where each ticker is
    engaged,            \* the tweaks in place: neither written back nor reset
    servicesFrozen,
    suspendedPIDs,      \* whether suspendedPIDs has an entry to resume
    suspendCount,       \* suspend count of the background services
    routeTable,         \* the game routes in the system's routing table
    injectedRoutes,
    hooks,              \* hooks on running processes
    baseline,           \* whether state_backup.json can be loaded
    snapshot,           \* the tweaks it records as if they were original
    failures            \* system calls that have failed so far

clickVars  == <<pc, job, todo>>
lockVars   == <<orchestrationMutex, CurrentMode>>
cancelVars == <<cancelPowerLock, cancelGamePoll>>
pollerVars == <<poller, isExtreme, undo>>
osVars     == <<engaged, suspendCount, routeTable, hooks>>
noteVars   == <<servicesFrozen, suspendedPIDs, injectedRoutes>>
fileVars   == <<baseline, snapshot>>
vars == <<clickVars, lockVars, cancelVars, orchestratorWG, cancelled, pollerVars,
          ticker, osVars, noteVars, fileVars, failures>>

\* "SafeDefault" is the mode that the code spells "Safe Default".
Modes == {"Extreme", "Balanced", "SafeDefault"}

\* The settings that outlive the process that changed them.  The backup has
\* fields for these ("CoreParking" is that of the plan the user had active), ...
Recorded == {"CoreParking", "PrioritySeparation", "GamesTask", "PowerPlan",
             "TCPNoDelay", "TcpParameters", "MSI", "Peripherals", "InputSettings",
             "Paging", "SysMain"}

\* ... but none for these, which the restore deletes or sets to constants of its
\* own, whatever they were before.  Two settings are not followed at all: core
\* parking of the plan that the program activates, which a second optimization
\* tunes and nothing takes back, and USB suspend, which the stages and the restore
\* set in whichever plan is active (peripherals.go:120-125, :194-199).
Reset == {"Offloads", "AdapterClass", "GameDVRPolicy", "Timers"}

Tweaks == Recorded \cup Reset

\* The stages of a mode that change settings.
TweakStages == {"CoreParking", "PrioritySeparation", "GamesTask", "PowerPlan",
                "TCPNoDelay", "NetInterface", "MSI", "Peripherals",
                "InputLatency", "Timers", "Paging", "SysMain"}

Hooks == {"Affinity", "IO"}

Stages == TweakStages \cup Hooks
              \cup {"Cleanup", "Routes", "Services", "Purge", "Baseline"}

\* The stages of ApplyExtremeMode in their order.  ApplyBalancedMode has the
\* same stages; "Services" does something else in it.
ModePlan == <<"Cleanup", "CoreParking", "PrioritySeparation", "GamesTask",
              "PowerPlan", "TCPNoDelay", "NetInterface", "Routes", "MSI",
              "Peripherals", "InputLatency", "Timers", "Services", "Purge",
              "Paging", "SysMain">>

\* Mutants: a step of the restore is missing.
RestorePlanNoTimers == <<"Baseline", "Routes", "NetInterface", "MSI", "SysMain",
                         "Peripherals", "InputLatency", "Services",
                         "PrioritySeparation", "GamesTask", "Affinity", "IO">>
RestorePlanNoMSI == <<"Baseline", "Routes", "NetInterface", "SysMain", "Timers",
                      "Peripherals", "InputLatency", "Services",
                      "PrioritySeparation", "GamesTask", "Affinity", "IO">>

\* The steps of ApplyTotalRestore in their order.
RestorePlan == <<"Baseline", "Routes", "NetInterface", "MSI", "SysMain",
                 "Timers", "Peripherals", "InputLatency", "Services",
                 "PrioritySeparation", "GamesTask", "Affinity", "IO">>

Plan(mode) == IF mode = "SafeDefault" THEN RestorePlan ELSE ModePlan

\* Two calls of ApplyBalancedMode follow the previous one with no check of
\* the mode in between.
Checked(mode, stage) ==
    ~(mode = "Balanced" /\ stage \in {"NetInterface", "InputLatency"})

\* Core parking, if the user's plan is the active one among these tweaks.
PlanCores(tuned) == IF "PowerPlan" \in tuned THEN {} ELSE {"CoreParking"}

\* The settings a stage changes, and the step of the same name takes back.
Sets(stage) ==
    CASE stage = "CoreParking"  -> PlanCores(engaged)
      [] stage = "NetInterface" -> {"TcpParameters", "Offloads", "AdapterClass"}
      [] stage = "InputLatency" -> {"InputSettings", "GameDVRPolicy"}
      [] OTHER                  -> {stage} \cap Tweaks

\* Mutant: the core parking settings are not recorded.
BaselineCoversNoCores == {"PrioritySeparation", "GamesTask", "PowerPlan", "TCPNoDelay",
                          "TcpParameters", "MSI", "Peripherals", "Paging"}

\* What config.RestoreBaselineState writes back: core parking only in the plan
\* that was active when the snapshot was taken.
BaselineCovers ==
    {"PrioritySeparation", "GamesTask", "PowerPlan", "TCPNoDelay", "TcpParameters",
     "MSI", "Peripherals", "Paging"} \cup PlanCores(snapshot)

\* The tweaks a step of ApplyTotalRestore takes back: without a readable backup
\* only what it resets before it looks for one.
Reverts(step) == (IF step = "Baseline" THEN BaselineCovers ELSE Sets(step))
                     \cap (IF baseline = "usable" THEN Tweaks ELSE {"Timers", "Offloads"})

\* The game poller is to throttle background disk access as well.  (Mutant: in
\* any mode.)
PollsAnyway(mode) == TRUE
PollsExtreme(mode) == mode = "Extreme"

\* orchestrationMutex can be acquired.  (Mutant: it is not asked for.)
NoLock == TRUE
Unlocked == orchestrationMutex = None

\* orchestratorWG.Wait() returns.  (Mutant: it is not called.)
NoWait == TRUE
AllDone == orchestratorWG = {}

\* The WaitGroup after Done().  (Mutant: a goroutine ends without calling it.)
NotDone(g) == orchestratorWG
Done(g) == orchestratorWG \ {g}

\* The goroutine's context is done.  (Mutant: it was given another context.)
CtxIgnored(g) == FALSE
CtxDone(g) == g \in cancelled

\* The contexts that stopBackgroundThreads cancels.  (Mutant: only the poller's.)
StopsPoller == {cancelGamePoll} \ {None}
Stops == {cancelPowerLock, cancelGamePoll} \ {None}

\* A system call fails: the budget that bounds failures pays for it.
Fails == /\ failures < MaxFailures
         /\ failures' = failures + 1

TypeOK ==
    /\ pc \in [Clicks -> {"idle", "lock", "wait", "body", "return"}]
    /\ job \in [Clicks -> Modes \cup {"none"}]
    /\ \A c \in Clicks : pc[c] = "idle" <=> job[c] = "none"
    /\ todo \in [Clicks -> Seq(Stages)]
    /\ orchestrationMutex \in Clicks \cup {None}
    /\ CurrentMode \in Modes
    /\ cancelPowerLock \in Tickers \cup {None}
    /\ cancelGamePoll \in Pollers \cup {None}
    /\ orchestratorWG \subseteq Pollers \cup Tickers
    /\ cancelled \subseteq Pollers \cup Tickers
    /\ poller \in [Pollers -> {"none", "select", "watch"}]
    /\ isExtreme \subseteq Pollers
    /\ undo \in [Pollers -> SUBSET Hooks]
    /\ ticker \in [Tickers -> {"none", "starting", "select", "enforce"}]
    /\ engaged \subseteq Tweaks
    /\ servicesFrozen \in BOOLEAN
    /\ suspendedPIDs \in BOOLEAN
    /\ suspendCount \in 0..MaxSuspend
    /\ routeTable \subseteq Routes
    /\ injectedRoutes \subseteq Routes
    /\ hooks \subseteq Hooks
    /\ baseline \in {"usable", "unusable"}
    /\ snapshot \subseteq Tweaks
    /\ failures \in 0..MaxFailures

Init ==
    /\ pc = [c \in Clicks |-> "idle"]
    /\ job = [c \in Clicks |-> "none"]
    /\ todo = [c \in Clicks |-> <<>>]
    /\ orchestrationMutex = None
    /\ CurrentMode = "SafeDefault"
    /\ cancelPowerLock = None
    /\ cancelGamePoll = None
    /\ orchestratorWG = {}
    /\ cancelled = {}
    /\ poller = [p \in Pollers |-> "none"]
    /\ isExtreme = {}
    /\ undo = [p \in Pollers |-> {}]
    /\ ticker = [t \in Tickers |-> "none"]
    /\ engaged = {}
    /\ servicesFrozen = FALSE
    /\ suspendedPIDs = FALSE
    /\ suspendCount = 0
    /\ routeTable = {}
    /\ injectedRoutes = {}
    /\ hooks = {}
    /\ baseline \in {"usable", "unusable"}
    /\ snapshot = {}
    /\ failures = 0

-----------------------------------------------------------------------------
(* A click, from the button to the first stage *)

\* A mode button is pressed: go ApplyExtremeMode() and its siblings.
Press(c, mode) ==
    /\ pc[c] = "idle"
    /\ pc' = [pc EXCEPT ![c] = "lock"]
    /\ job' = [job EXCEPT ![c] = mode]
    /\ UNCHANGED <<todo, lockVars, cancelVars, orchestratorWG, cancelled,
                   pollerVars, ticker, osVars, noteVars, fileVars, failures>>

\* The mode asked for is already the current one: warn and return.
Refuse(c) ==
    /\ pc[c] = "lock"
    /\ Unlocked
    /\ CurrentMode = job[c]
    /\ pc' = [pc EXCEPT ![c] = "idle"]
    /\ job' = [job EXCEPT ![c] = "none"]
    /\ UNCHANGED <<todo, lockVars, cancelVars, orchestratorWG, cancelled,
                   pollerVars, ticker, osVars, noteVars, fileVars, failures>>

\* The other mode's goroutines are cancelled by stopBackgroundThreads ...
Begin(c) ==
    /\ pc[c] = "lock"
    /\ Unlocked
    /\ CurrentMode # job[c]
    /\ orchestrationMutex' = c
    /\ pc' = [pc EXCEPT ![c] = "wait"]
    /\ cancelled' = cancelled \cup Stops
    /\ cancelPowerLock' = None
    /\ cancelGamePoll' = None
    /\ UNCHANGED <<job, todo, CurrentMode, orchestratorWG, pollerVars, ticker,
                   osVars, noteVars, fileVars, failures>>

\* ... which returns once the WaitGroup is empty; the mode is set then.
Started(c) ==
    /\ pc[c] = "wait"
    /\ AllDone
    /\ CurrentMode' = job[c]
    /\ todo' = [todo EXCEPT ![c] = Plan(job[c])]
    /\ pc' = [pc EXCEPT ![c] = "body"]
    /\ UNCHANGED <<job, orchestrationMutex, cancelVars, orchestratorWG, cancelled,
                   pollerVars, ticker, osVars, noteVars, fileVars, failures>>

\* The function returns and its deferred Unlock runs.
Return(c) ==
    /\ pc[c] = "return"
    /\ pc' = [pc EXCEPT ![c] = "idle"]
    /\ job' = [job EXCEPT ![c] = "none"]
    /\ todo' = [todo EXCEPT ![c] = <<>>]
    /\ orchestrationMutex' = None
    /\ UNCHANGED <<CurrentMode, cancelVars, orchestratorWG, cancelled, pollerVars,
                   ticker, osVars, noteVars, fileVars, failures>>

-----------------------------------------------------------------------------
(* The stages of ApplyExtremeMode and ApplyBalancedMode *)

\* Temporary files are deleted and the page lists purged: nothing of it
\* outlives the stage here.
NothingKept(stage) ==
    /\ stage \in {"Cleanup", "Purge"}
    /\ UNCHANGED <<cancelPowerLock, orchestratorWG, ticker, osVars,
                   noteVars, failures>>

\* Settings are changed.  A failure is logged or ignored, and the mode goes
\* on; the call that failed may have changed its setting or not.
Tweak(stage) ==
    /\ stage \in TweakStages \ {"PowerPlan"}
    /\ \/ /\ engaged' = engaged \cup Sets(stage)
          /\ UNCHANGED failures
       \/ /\ Fails
          /\ \/ engaged' = engaged \cup Sets(stage)
             \/ \E missed \in Sets(stage) :
                   engaged' = engaged \cup (Sets(stage) \ {missed})
    /\ UNCHANGED <<cancelPowerLock, orchestratorWG, ticker,
                   suspendCount, routeTable, hooks, noteVars>>

\* The plan is activated and a goroutine started that keeps it so; with no
\* plan activated there is no such goroutine.
EngagePowerPlan(stage) ==
    /\ stage = "PowerPlan"
    /\ \/ \E t \in Tickers :
            /\ ticker[t] = "none"
            /\ ticker' = [ticker EXCEPT ![t] = "starting"]
            /\ cancelPowerLock' = t
            /\ orchestratorWG' = orchestratorWG \cup {t}
            /\ engaged' = engaged \cup {"PowerPlan"}
            /\ UNCHANGED failures
       \/ /\ Fails
          /\ UNCHANGED <<ticker, cancelPowerLock, orchestratorWG, engaged>>
    /\ UNCHANGED <<suspendCount, routeTable, hooks, noteVars>>

\* "route add" succeeds for a route that is not there; for one that is, it
\* may report either.  The routes it succeeded for replace injectedRoutes.
AddRoutes(stage) ==
    /\ stage = "Routes"
    /\ \/ \E added \in SUBSET (Routes \ routeTable), again \in SUBSET routeTable :
            /\ injectedRoutes' = added \cup again
            /\ routeTable' = routeTable \cup added
            /\ IF routeTable \cup added = Routes THEN UNCHANGED failures ELSE Fails
       \/ /\ Fails      \* no active adapter or no gateway
          /\ UNCHANGED <<injectedRoutes, routeTable>>
    /\ UNCHANGED <<cancelPowerLock, orchestratorWG, ticker, engaged,
                   suspendCount, hooks, servicesFrozen, suspendedPIDs>>

\* Extreme suspends the background services, once more if they are suspended
\* already; one that is not running, cannot be opened or is at the kernel's limit
\* is skipped without an error.  Balanced only clears the flag.
FreezeServices(mode, stage) ==
    /\ stage = "Services"
    /\ IF mode = "Balanced"
       THEN /\ servicesFrozen' = FALSE
            /\ UNCHANGED <<suspendedPIDs, suspendCount, failures>>
       ELSE \/ /\ servicesFrozen' = TRUE
               /\ \/ /\ suspendCount < MaxSuspend
                     /\ suspendCount' = suspendCount + 1
                     /\ suspendedPIDs' = TRUE
                  \/ UNCHANGED <<suspendedPIDs, suspendCount>>
               /\ UNCHANGED failures
            \/ /\ Fails      \* SeDebugPrivilege not granted
               /\ UNCHANGED <<servicesFrozen, suspendedPIDs, suspendCount>>
    /\ UNCHANGED <<cancelPowerLock, orchestratorWG, ticker, engaged,
                   routeTable, hooks, injectedRoutes>>

\* One stage: the cooperative check of the mode, then the call.
RunStage(c) ==
    LET stage == Head(todo[c])
    IN  /\ pc[c] = "body"
        /\ job[c] # "SafeDefault"
        /\ todo[c] # <<>>
        /\ IF CurrentMode # job[c] /\ Checked(job[c], stage)
           THEN /\ pc' = [pc EXCEPT ![c] = "return"]
                /\ UNCHANGED <<todo, cancelPowerLock, orchestratorWG,
                               ticker, osVars, noteVars, failures>>
           ELSE /\ todo' = [todo EXCEPT ![c] = Tail(todo[c])]
                /\ UNCHANGED pc
                /\ \/ NothingKept(stage)
                   \/ Tweak(stage)
                   \/ EngagePowerPlan(stage)
                   \/ AddRoutes(stage)
                   \/ FreezeServices(job[c], stage)
        /\ UNCHANGED <<job, lockVars, cancelGamePoll, cancelled, pollerVars, fileVars>>

\* Mutant: the cancel function is kept in the other variable.
StartPollerMixedUp(c) ==
    /\ pc[c] = "body"
    /\ job[c] # "SafeDefault"
    /\ todo[c] = <<>>
    /\ CurrentMode = job[c]
    /\ \E p \in Pollers :
          /\ poller[p] = "none"
          /\ poller' = [poller EXCEPT ![p] = "select"]
          /\ cancelPowerLock' = p
          /\ orchestratorWG' = orchestratorWG \cup {p}
    /\ pc' = [pc EXCEPT ![c] = "return"]
    /\ UNCHANGED <<job, todo, lockVars, cancelGamePoll, cancelled, isExtreme, undo,
                   ticker, osVars, noteVars, fileVars, failures>>

\* The last stage: a fresh context and the game poller.
StartPoller(c) ==
    /\ pc[c] = "body"
    /\ job[c] # "SafeDefault"
    /\ todo[c] = <<>>
    /\ IF CurrentMode # job[c]
       THEN UNCHANGED <<cancelGamePoll, orchestratorWG, poller, isExtreme>>
       ELSE \E p \in Pollers :
              /\ poller[p] = "none"
              /\ poller' = [poller EXCEPT ![p] = "select"]
              /\ isExtreme' = IF PollsExtreme(job[c]) THEN isExtreme \cup {p}
                              ELSE isExtreme
              /\ cancelGamePoll' = p
              /\ orchestratorWG' = orchestratorWG \cup {p}
    /\ pc' = [pc EXCEPT ![c] = "return"]
    /\ UNCHANGED <<job, todo, lockVars, cancelPowerLock, cancelled, undo, ticker,
                   osVars, noteVars, fileVars, failures>>

-----------------------------------------------------------------------------
(* The steps of ApplyTotalRestore *)

\* Settings go back to their recorded values or are reset; one recorded while it
\* was tweaked becomes tweaked.  A single failing write among them is ignored and
\* leaves its setting as it was.
RevertTweaks(step) ==
    LET others == engaged \ Reverts(step)
        written == snapshot \cap Reverts(step)
    IN  /\ step \in {"Baseline"} \cup TweakStages
        /\ \/ /\ engaged' = others \cup written
              /\ UNCHANGED failures
           \/ /\ Fails
              /\ \E kept \in engaged \cap Reverts(step) :
                    engaged' = others \cup written \cup {kept}
        /\ UNCHANGED <<suspendCount, routeTable, hooks, noteVars>>

\* Mutant: the list is kept.
RemoveRoutesOnly(step) ==
    /\ step = "Routes"
    /\ routeTable' = routeTable \ injectedRoutes
    /\ UNCHANGED <<engaged, suspendCount, hooks, noteVars, failures>>

\* The routes this list names are deleted; the list is then dropped, whatever
\* "route delete" reported.
RemoveRoutes(step) ==
    /\ step = "Routes"
    /\ \/ /\ routeTable' = routeTable \ injectedRoutes
          /\ UNCHANGED failures
       \/ /\ Fails
          /\ \E kept \in routeTable \cap injectedRoutes :
                routeTable' = (routeTable \ injectedRoutes) \cup {kept}
    /\ injectedRoutes' = {}
    /\ UNCHANGED <<engaged, suspendCount, hooks, servicesFrozen, suspendedPIDs>>

\* Services known to be frozen are resumed, once; an entry goes only when its
\* service was resumed.
ResumeServices(step) ==
    /\ step = "Services"
    /\ IF servicesFrozen
       THEN /\ servicesFrozen' = FALSE
            /\ \/ /\ suspendedPIDs' = FALSE
                  /\ suspendCount' = IF suspendedPIDs /\ suspendCount > 0
                                     THEN suspendCount - 1 ELSE suspendCount
                  /\ UNCHANGED failures
               \/ /\ Fails
                  /\ UNCHANGED <<suspendedPIDs, suspendCount>>
       ELSE UNCHANGED <<servicesFrozen, suspendedPIDs, suspendCount, failures>>
    /\ UNCHANGED <<engaged, routeTable, hooks, injectedRoutes>>

\* RestoreAffinities(0, 0) and RestoreBackgroundIO take back what the game
\* pollers may have left on background processes.
RemoveHook(step) ==
    /\ step \in Hooks
    /\ hooks' = hooks \ {step}
    /\ UNCHANGED <<engaged, suspendCount, routeTable, noteVars, failures>>

\* One step of ApplyTotalRestore, in which nothing is checked.
RestoreStep(c) ==
    LET step == Head(todo[c])
    IN  /\ pc[c] = "body"
        /\ job[c] = "SafeDefault"
        /\ todo[c] # <<>>
        /\ todo' = [todo EXCEPT ![c] = Tail(todo[c])]
        /\ \/ RevertTweaks(step)
           \/ RemoveRoutes(step)
           \/ ResumeServices(step)
           \/ RemoveHook(step)
        /\ UNCHANGED <<pc, job, lockVars, cancelVars, orchestratorWG, cancelled,
                       pollerVars, ticker, fileVars>>

Restored(c) ==
    /\ pc[c] = "body"
    /\ job[c] = "SafeDefault"
    /\ todo[c] = <<>>
    /\ pc' = [pc EXCEPT ![c] = "return"]
    /\ UNCHANGED <<job, todo, lockVars, cancelVars, orchestratorWG, cancelled,
                   pollerVars, ticker, osVars, noteVars, fileVars, failures>>

-----------------------------------------------------------------------------
(* The game poller *)

\* A game is found and its hooks are put on.  Background processes are bound
\* to the first cores before the game's own affinity is set, and the error of
\* the latter decides whether both are taken back.
Detect(p) ==
    LET wanted == {"Affinity"} \cup (IF p \in isExtreme THEN {"IO"} ELSE {})
    IN  /\ poller[p] = "select"
        /\ poller' = [poller EXCEPT ![p] = "watch"]
        /\ \/ /\ hooks' = hooks \cup wanted
              /\ undo' = [undo EXCEPT ![p] = wanted]
              /\ UNCHANGED failures
           \/ /\ Fails      \* the game refuses the affinity
              /\ hooks' = hooks \cup wanted
              /\ undo' = [undo EXCEPT ![p] = wanted \ {"Affinity"}]
           \/ /\ Fails      \* the throttling reports an error
              /\ "IO" \in wanted
              /\ hooks' = hooks \cup {"Affinity"}
              /\ undo' = [undo EXCEPT ![p] = {"Affinity"}]
        /\ UNCHANGED <<clickVars, lockVars, cancelVars, orchestratorWG, cancelled,
                       isExtreme, ticker, engaged, suspendCount, routeTable,
                       noteVars, fileVars>>

\* The game exits: its hooks are taken back and the sweep goes on.
GameExit(p) ==
    /\ poller[p] = "watch"
    /\ poller' = [poller EXCEPT ![p] = "select"]
    /\ hooks' = hooks \ undo[p]
    /\ undo' = [undo EXCEPT ![p] = {}]
    /\ UNCHANGED <<clickVars, lockVars, cancelVars, orchestratorWG, cancelled,
                   isExtreme, ticker, engaged, suspendCount, routeTable,
                   noteVars, fileVars, failures>>

\* The context is done: hooks of a game still running are taken back.  The
\* goroutine ends, and with it its parameters, which its name then gives up.
PollerDone(p) ==
    /\ poller[p] # "none"
    /\ CtxDone(p)
    /\ poller' = [poller EXCEPT ![p] = "none"]
    /\ hooks' = hooks \ undo[p]
    /\ undo' = [undo EXCEPT ![p] = {}]
    /\ orchestratorWG' = Done(p)
    /\ cancelled' = cancelled \ {p}
    /\ isExtreme' = isExtreme \ {p}
    /\ UNCHANGED <<clickVars, lockVars, cancelVars, ticker,
                   engaged, suspendCount, routeTable, noteVars, fileVars, failures>>

-----------------------------------------------------------------------------
(* The power plan ticker, and the world outside *)

tickerUnchanged == <<clickVars, lockVars, cancelVars, pollerVars,
                     suspendCount, routeTable, hooks, noteVars, fileVars, failures>>

\* StartPowerLockTicker starts the loop in a goroutine of its own and returns:
\* the WaitGroup counts the caller, not the loop.
TickerStart(t) ==
    /\ ticker[t] = "starting"
    /\ ticker' = [ticker EXCEPT ![t] = "select"]
    /\ orchestratorWG' = Done(t)
    /\ UNCHANGED <<engaged, cancelled, tickerUnchanged>>

\* A tick finds another plan active.  When the context is done as well, select
\* takes either of the two.
Tick(t) ==
    /\ ticker[t] = "select"
    /\ "PowerPlan" \notin engaged
    /\ ticker' = [ticker EXCEPT ![t] = "enforce"]
    /\ UNCHANGED <<engaged, orchestratorWG, cancelled, tickerUnchanged>>

Enforce(t) ==
    /\ ticker[t] = "enforce"
    /\ ticker' = [ticker EXCEPT ![t] = "select"]
    /\ engaged' = engaged \cup {"PowerPlan"}
    /\ UNCHANGED <<orchestratorWG, cancelled, tickerUnchanged>>

TickerDone(t) ==
    /\ ticker[t] = "select"
    /\ CtxDone(t)
    /\ ticker' = [ticker EXCEPT ![t] = "none"]
    /\ cancelled' = cancelled \ {t}
    /\ UNCHANGED <<engaged, orchestratorWG, tickerUnchanged>>

\* Someone else changes the active plan back.
PlanChanged ==
    /\ "PowerPlan" \in engaged
    /\ engaged' = engaged \ {"PowerPlan"}
    /\ UNCHANGED <<ticker, orchestratorWG, cancelled, tickerUnchanged>>

-----------------------------------------------------------------------------
ClickStep(c) == \/ Refuse(c) \/ Begin(c) \/ Started(c)
                \/ RunStage(c) \/ StartPoller(c)
                \/ RestoreStep(c) \/ Restored(c) \/ Return(c)

PollerStep(p) == Detect(p) \/ GameExit(p) \/ PollerDone(p)

TickerStep(t) == TickerStart(t) \/ Tick(t) \/ Enforce(t) \/ TickerDone(t)

Next ==
    \/ \E c \in Clicks : ClickStep(c) \/ \E mode \in Modes : Press(c, mode)
    \/ \E p \in Pollers : PollerStep(p)
    \/ \E t \in Tickers : TickerStep(t)
    \/ PlanChanged

Spec == Init /\ [][Next]_vars

\* Running goroutines run on; sync.Mutex hands the lock to a waiter that has
\* starved, so acquiring it is strongly fair; a select among ready cases is
\* uniformly random, so a context that stays done is seen in the end.
Fairness ==
    /\ \A c \in Clicks :
        /\ SF_vars(Refuse(c) \/ Begin(c))
        /\ WF_vars(Started(c) \/ RunStage(c) \/ StartPoller(c)
                   \/ RestoreStep(c) \/ Restored(c) \/ Return(c))
    /\ \A p \in Pollers : WF_vars(PollerDone(p))
    /\ \A t \in Tickers :
        /\ WF_vars(TickerStart(t) \/ Enforce(t))
        /\ SF_vars(TickerDone(t))

FairSpec == Spec /\ Fairness

-----------------------------------------------------------------------------
(* Safety *)

Live(p) == poller[p] # "none"

\* No mode function is at work and none holds the mutex.
Settled == orchestrationMutex = None

\* A total restore has run to its end since the last optimization.
RolledBack == Settled /\ CurrentMode = "SafeDefault"

\* The mode a running function has set stays what it set: concurrent clicks
\* queue on orchestrationMutex, so no check between two stages ever fails.
ModeHeld == \A c \in Clicks : pc[c] = "body" => CurrentMode = job[c]

\* There is at most one game poller, started for the mode that is current; it
\* is gone before a mode function starts to change the system, and one whose
\* context is not cancelled is the one cancelGamePoll will cancel.
PollerFollowsMode ==
    \A p \in Pollers : Live(p) =>
        /\ CurrentMode = (IF p \in isExtreme THEN "Extreme" ELSE "Balanced")
        /\ \A q \in Pollers : Live(q) => q = p
        /\ \A c \in Clicks : pc[c] # "body"
        /\ p \in cancelled \/ cancelGamePoll = p

\* No power plan ticker is out of reach: one that is not cancelled is the one
\* cancelPowerLock will cancel, whatever order the modes were switched in.
NoOrphanTicker ==
    \A t \in Tickers : ticker[t] # "none" /\ t \notin cancelled => cancelPowerLock = t

\* Nobody waits in vain.  A click that waits for the mutex finds it free or held by
\* a click at work; one that holds it and waits for the WaitGroup waits only for
\* pollers whose context is done and for tickers that are just being started, and
\* none of these needs the mutex.
WaitsEnd ==
    \A c \in Clicks :
        /\ pc[c] = "lock" => \/ Unlocked
                             \/ \E d \in Clicks : /\ orchestrationMutex = d
                                                 /\ pc[d] \in {"wait", "body", "return"}
        /\ pc[c] = "wait" => \A g \in orchestratorWG :
                                 \/ g \in Pollers /\ Live(g) /\ g \in cancelled
                                 \/ g \in Tickers /\ ticker[g] = "starting"

\* What the orchestrator notes for the cleanup is true, as far as nothing else
\* touches routes and services: a route on its list is in the routing table, and
\* a service on the list of suspended ones is suspended.
NotesHonest ==
    /\ injectedRoutes \subseteq routeTable
    /\ suspendedPIDs => suspendCount > 0

\* The snapshot can be read and was taken of the untouched system.
Pristine == baseline = "usable" /\ snapshot = {}

\* With such a snapshot and no failing call, a total restore has written back
\* every tweak that has a field in the backup and reset those of Reset to their
\* constants, and left no hook on a process and no note behind, whatever modes ran
\* before it.  (Not the power plan, which a cancelled ticker that has just seen
\* another plan active may take over again, as nobody waits for it; and it says
\* nothing of the two settings that Tweaks leaves out.)
CleanRollback ==
    RolledBack /\ Pristine /\ failures = 0 =>
        /\ engaged \subseteq {"PowerPlan"}
        /\ hooks = {}
        /\ ~servicesFrozen
        /\ injectedRoutes = {}

\* MSI mode, queue sizes, the quantum, the games task and the TCP parameters are
\* reverted by RestoreBaselineState and again by a step of their own, so that one
\* failing write in a restore leaves none of them behind.
SecondChance ==
    \A c \in Clicks :
        pc[c] = "return" /\ job[c] = "SafeDefault" /\ Pristine /\ failures <= 1 =>
            engaged \cap {"MSI", "Peripherals", "PrioritySeparation", "GamesTask",
                           "TcpParameters"} = {}

\* Background disk access is throttled in Extreme mode only ("Balanced mode =
\* no aggressive I/O throttling", orchestrator.go:388): no late poller of an
\* earlier mode throttles it once the mode has changed.
ThrottleOnlyInExtreme ==
    [][CurrentMode # "Extreme" /\ "IO" \in hooks' => "IO" \in hooks]_vars

-----------------------------------------------------------------------------
(* Liveness *)

\* Every click is answered: its goroutine gets the mutex and returns, however
\* many other clicks compete and whatever game is running.
ClickAnswered == \A c \in Clicks : pc[c] = "lock" ~> pc[c] = "idle"

\* A power plan ticker that was cancelled goes away in the end.
CancelledTickerStops ==
    \A t \in Tickers : t \in cancelled ~> ticker[t] = "none"

-----------------------------------------------------------------------------
(* What comments of the code promise and the code does not keep *)

\* orchestrator.go:101, "cooperative cancel checks between stages": a mode
\* function stops at its next stage when another mode has been asked for.
CancelHeeded ==
    [][\A c, d \in Clicks :
          pc[c] = "body" /\ pc'[c] = "body" /\ todo'[c] # todo[c] =>
              ~(pc[d] = "lock" /\ job[d] # job[c])]_vars

\* orchestrator.go:398, "reverts all optimizations": after a total restore
\* without failures the background services run again.
ServicesResumed == RolledBack /\ failures = 0 => suspendCount = 0

\* routing.go:80, "to allow exact cleanup": after a total restore without
\* failures no game route is left in the routing table.
RoutesRemoved == RolledBack /\ failures = 0 => routeTable = {}

-----------------------------------------------------------------------------
(* The orchestrator implements ModeSwitch *)

Switch == INSTANCE ModeSwitch WITH
              mode <- CurrentMode,
              switching <- \E c \in Clicks : pc[c] = "body",
              throttled <- "IO" \in hooks

\* The goroutines, the mutex and the pollers together behave as one atomic mode
\* switch after the other: no request acts on a mode another one is changing.
SwitchesModes == Switch!Spec
=============================================================================
