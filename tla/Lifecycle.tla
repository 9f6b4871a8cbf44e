------------------------------ MODULE Lifecycle ------------------------------
(***************************************************************************)
(* The orchestrator within the life of its process: cmd/nosboost/main.go   *)
(* captures state_backup.json on the first launch and verifies it on later *)
(* ones; the process may be closed or killed at any time and be launched   *)
(* again, and the machine may be rebooted.  What the orchestrator keeps in *)
(* memory is lost with the process; what it did to the system is not.      *)
(***************************************************************************)
EXTENDS Orchestrator

CONSTANT MaxStops   \* bound on the times the process ends in a behaviour

ASSUME MaxStopsAssumption == MaxStops \in Nat

VARIABLES
    run,        \* "down", "saving" the baseline, or "up" with the dashboard
    file,       \* state_backup.json: "absent", "partial" or "full"
    captured,   \* the tweaks found tuned by the capture in progress
    orphans,    \* hooks of a process that ended without taking them back
    recreated,  \* a damaged backup was deleted to have it captured again
    stops       \* times the process has ended

lifeVars == <<run, file, captured, orphans, recreated, stops>>
allVars == <<vars, lifeVars>>

LifeTypeOK ==
    /\ TypeOK
    /\ run \in {"down", "saving", "up"}
    /\ file \in {"absent", "partial", "full"}
    /\ captured \subseteq Tweaks
    /\ orphans \subseteq Hooks
    /\ recreated \in BOOLEAN
    /\ stops \in 0..MaxStops
    /\ baseline = "usable" => file = "full"

LifeInit ==
    /\ Init
    /\ baseline = "unusable"
    /\ run = "down"
    /\ file = "absent"
    /\ captured = {}
    /\ orphans = {}
    /\ recreated = FALSE
    /\ stops = 0

\* The guard of main(): there is no backup yet.  (Mutants: none; a backup that
\* cannot be read does not count.)
SaveAlways == TRUE
NoReadableBackup == file # "full"
NoBackup == file = "absent"

\* What loading the file yields.  (Mutant: a damaged file is taken as it is.)
TakenAsIs(f) == "usable"
Loaded(f) == IF f = "full" THEN "usable" ELSE "unusable"

\* main() finds no backup: SaveBaselineState reads the present settings, as far as
\* it has fields for them, and core parking of the plan that is active.
LaunchFirst ==
    /\ run = "down"
    /\ NoBackup
    /\ run' = "saving"
    /\ captured' = engaged \cap ((Recorded \ {"CoreParking"}) \cup PlanCores(engaged))
    /\ UNCHANGED <<vars, file, orphans, recreated, stops>>

\* os.WriteFile truncates the file and writes it.  When it fails, main() logs
\* that and goes on to the dashboard.
WriteBaseline ==
    /\ run = "saving"
    /\ run' = "up"
    /\ captured' = {}
    /\ \/ /\ file' = "full"
          /\ snapshot' = captured
          /\ baseline' = "usable"
          /\ UNCHANGED failures
       \/ /\ Fails
          /\ file' \in {"absent", "partial"}
          /\ UNCHANGED fileVars
    /\ UNCHANGED <<clickVars, lockVars, cancelVars, orchestratorWG, cancelled,
                   pollerVars, ticker, osVars, noteVars, orphans, recreated, stops>>

\* main() finds a backup: it is loaded to see whether it can be, and kept.
LaunchAgain ==
    /\ run = "down"
    /\ file # "absent"
    /\ run' = "up"
    /\ baseline' = Loaded(file)
    /\ UNCHANGED <<clickVars, lockVars, cancelVars, orchestratorWG, cancelled,
                   pollerVars, ticker, osVars, noteVars, snapshot, failures,
                   file, captured, orphans, recreated, stops>>

\* The window is closed or the process killed, wherever its goroutines are.
\* The next process starts with the initial values of the variables.
Stop ==
    /\ run # "down"
    /\ stops < MaxStops
    /\ stops' = stops + 1
    /\ run' = "down"
    /\ file' \in (IF run = "saving" THEN {"absent", "partial"} ELSE {file})
    /\ captured' = {}
    /\ orphans' = orphans \cup hooks
    /\ hooks' = {}
    /\ pc' = [c \in Clicks |-> "idle"]
    /\ job' = [c \in Clicks |-> "none"]
    /\ todo' = [c \in Clicks |-> <<>>]
    /\ orchestrationMutex' = None
    /\ CurrentMode' = "SafeDefault"
    /\ cancelPowerLock' = None
    /\ cancelGamePoll' = None
    /\ orchestratorWG' = {}
    /\ cancelled' = {}
    /\ poller' = [p \in Pollers |-> "none"]
    /\ isExtreme' = {}
    /\ undo' = [p \in Pollers |-> {}]
    /\ ticker' = [t \in Tickers |-> "none"]
    /\ servicesFrozen' = FALSE
    /\ suspendedPIDs' = FALSE
    /\ injectedRoutes' = {}
    /\ baseline' = "unusable"
    /\ UNCHANGED <<engaged, suspendCount, routeTable, snapshot, failures, recreated>>

\* The machine restarts: processes and non-persistent routes are new.
Reboot ==
    /\ run = "down"
    /\ suspendCount' = 0
    /\ routeTable' = {}
    /\ orphans' = {}
    /\ UNCHANGED <<clickVars, lockVars, cancelVars, orchestratorWG, cancelled,
                   pollerVars, ticker, engaged, hooks, noteVars, fileVars, failures,
                   run, file, captured, recreated, stops>>

\* The user follows the warning "Baseline file is corrupted. Re-creation
\* recommended" and deletes the file.
Recreate ==
    /\ run = "down"
    /\ file = "partial"
    /\ file' = "absent"
    /\ recreated' = TRUE
    /\ UNCHANGED <<vars, run, captured, orphans, stops>>

LifeNext ==
    \/ LaunchFirst \/ WriteBaseline \/ LaunchAgain
    \/ Stop \/ Reboot \/ Recreate
    \/ run = "up" /\ Next /\ UNCHANGED lifeVars

LifeSpec == LifeInit /\ [][LifeNext]_allVars

-----------------------------------------------------------------------------
(* Properties *)

\* A readable backup is never written again, however often the program is
\* launched and whatever mode the system was left in.
BaselineLocked ==
    [][file = "full" => file' = "full" /\ snapshot' = snapshot]_allVars

\* When no call failed and no damaged backup was deleted, the snapshot is of
\* the untouched system: no crash before or during the first save spoils it.
PristineSnapshot ==
    file = "full" /\ failures = 0 /\ ~recreated => snapshot = {}

\* A total restore brings back every setting that the backup has a field for, but
\* for the plan's take-over by a late tick, also those that an earlier process left
\* tuned when it ended in the middle of something.
RestoreComplete ==
    \A c \in Clicks :
        pc[c] = "return" /\ job[c] = "SafeDefault" /\ Pristine /\ failures = 0 =>
            engaged \cap Recorded \subseteq {"PowerPlan"}

\* README.md:17, "a 100% reversible, clean system restore": a total restore is
\* not refused while a recorded setting is tuned and nothing has failed.
RestoreNotRefused ==
    [][\A c \in Clicks :
          /\ run' = "up"
          /\ pc[c] = "lock" /\ job[c] = "SafeDefault" /\ pc'[c] = "idle"
          /\ failures = 0
          => engaged \cap Recorded \subseteq {"PowerPlan"}]_allVars

-----------------------------------------------------------------------------
(* Lifecycle implements ModeSwitch across restarts *)

\* The background processes that a process which is gone has left throttled
\* count as well.
LifeSwitch == INSTANCE ModeSwitch WITH
                  mode <- CurrentMode,
                  switching <- \E c \in Clicks : pc[c] = "body",
                  throttled <- "IO" \in hooks \cup orphans

\* A crash never lets two switches mix, nor a poller of the process before it
\* throttle in the one after it: all it can do is to put the mode back to the
\* initial one with the system left as it was.
RestartsAsModeSwitch == LifeSwitch!RestartingSpec
=============================================================================
