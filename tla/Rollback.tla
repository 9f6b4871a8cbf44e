------------------------------- MODULE Rollback -------------------------------
(***************************************************************************)
(* The settings of the machine as values: what SaveBaselineState records   *)
(* of them (config/backup.go), what every optimizing call writes, and      *)
(* what the calls of ApplyTotalRestore and of the dashboard's check boxes  *)
(* write back, while network adapters appear and come and go as the active *)
(* one, and power plans change: by the user, and by the power lock loops    *)
(* of the modes, which tick beside the calls and after their cancellation.  *)
(* Calls do not fail here (see Orchestrator for those), and the snapshot is *)
(* there and readable.                                                      *)
(***************************************************************************)
EXTENDS Naturals, Sequences

CONSTANTS
    Adapters,    \* network adapters, each a PCI device and a TCP interface
    None,        \* no adapter is online
    MaxEvents    \* bound on the check box clicks and environment changes

ASSUME MaxEventsAssumption == MaxEvents \in Nat
ASSUME NoneAssumption == None \notin Adapters

VARIABLES
    value,      \* the value of each setting
    plan,       \* the active power plan
    plugged,    \* the adapters the registry knows
    active,     \* the adapter that is online, or None
    snapshot,   \* the settings that were recorded, with their values
    snapshotPlan,
    mode,
    todo,       \* the calls the running mode function has still to make
    clicked,    \* goroutines of check boxes that have not run yet
    loops,      \* power lock loops that run: of the current mode, or cancelled
    original,   \* history: each setting's value before any optimization
    meddled,    \* history: what check boxes have written since the last click on a mode
    events

osVars == <<value, plan, plugged, active>>
fileVars == <<snapshot, snapshotPlan, original>>
vars == <<osVars, fileVars, mode, todo, clicked, loops, meddled, events>>

Plans == {"ordinary", "ultimate"}
Values == {"absent", "user", "tuned", "default"}

\* A setting is a group of registry values, or of values behind a system tool,
\* that are always written together, and the place it belongs to.
Machine == {"Quantum", "GamesTask", "Responsiveness", "TcpParameters", "AdapterClass",
            "Queues", "Mouse", "GameDVR", "GameDVRPolicy", "Timers", "PagingExecutive",
            "SysMainStart"}
M(name) == <<name, "machine">>

Settings == {M(name) : name \in Machine}
                \cup ({"MSI", "Nagle"} \X Adapters) \cup ({"Cores", "USBSuspend"} \X Plans)

\* A call writes values to settings.
Constant(S, v) == [s \in S |-> v]
f ++ g == [s \in DOMAIN f \cup DOMAIN g |-> IF s \in DOMAIN f THEN f[s] ELSE g[s]]

-----------------------------------------------------------------------------
(* The optimizing calls.  "tuned" is the value a call has for a setting. *)

Tuned(S) == Constant(S, "tuned")

EnableCoreParkingElimination == Tuned({<<"Cores", plan>>})
OptimizePrioritySeparation == Tuned({M("Quantum")})
OptimizeGamesTask == Tuned({M("GamesTask")})

\* Mutant: it does not ask whether one is online.
InjectTCPNoDelayUnchecked == Tuned({<<"Nagle", active>>, M("Responsiveness")})

\* It writes to the adapter that is online, and fails when there is none.
InjectTCPNoDelay == IF active = None THEN <<>>
                    ELSE Tuned({<<"Nagle", active>>, M("Responsiveness")})

OptimizeNetworkInterfaceSettings == Tuned({M("TcpParameters"), M("AdapterClass")})
EnableMSIMode == Tuned({"MSI"} \X plugged)
TunePeripheralBuffers == Tuned({M("Queues")})
OptimizeInputLatency ==
    Tuned({M("Mouse"), M("GameDVR"), M("GameDVRPolicy"), <<"USBSuspend", plan>>})
OptimizeSystemTimers == Tuned({M("Timers")})
OptimizePagingExecutive == Tuned({M("PagingExecutive")})
DisableSysMain == Tuned({M("SysMainStart")})

Tunes ==
    [CoreParking        |-> EnableCoreParkingElimination,
     PrioritySeparation |-> OptimizePrioritySeparation,
     GamesTask          |-> OptimizeGamesTask,
     PowerPlan          |-> <<>>,
     TCPNoDelay         |-> InjectTCPNoDelay,
     NetInterface       |-> OptimizeNetworkInterfaceSettings,
     MSI                |-> EnableMSIMode,
     Peripherals        |-> TunePeripheralBuffers,
     InputLatency       |-> OptimizeInputLatency,
     Timers             |-> OptimizeSystemTimers,
     Paging             |-> OptimizePagingExecutive,
     SysMain            |-> DisableSysMain]

-----------------------------------------------------------------------------
(* The snapshot and the restoring calls *)

\* SaveBaselineState: devices, adapters, the active power plan and services ...
RecordedDevices ==
    ({"MSI", "Nagle"} \X plugged) \cup {<<"Cores", plan>>, M("Responsiveness"), M("SysMainStart")}

\* ... and settings of the machine and its user.
RecordedSettings ==
    {M(name) : name \in {"Quantum", "Queues", "Mouse", "GameDVR", "TcpParameters",
                         "PagingExecutive", "GamesTask"}}

SaveBaselineState == [s \in RecordedDevices \cup RecordedSettings |-> value[s]]

\* Mutants: values that were absent are not deleted; the defaults of the system
\* are written.
SetOnly(S) == [s \in {x \in S \cap DOMAIN snapshot : snapshot[x] # "absent"} |-> snapshot[s]]
OSDefaults(S) == [s \in S \cap DOMAIN snapshot |-> "default"]

\* The settings among S as the snapshot has them; "absent" is to delete.
FromSnapshot(S) == [s \in S \cap DOMAIN snapshot |-> snapshot[s]]

\* RestoreBaselineState, in the same two parts.  It does not delete mouse and
\* keyboard settings; RestoreInputLatency does.
RestoreDevices ==
    FromSnapshot(({"MSI", "Nagle"} \X Adapters) \cup ({"Cores"} \X Plans)
                    \cup {M("Responsiveness"), M("SysMainStart")})
RestoreSettings ==
    FromSnapshot({M("Quantum"), M("Queues"), M("GameDVR"), M("TcpParameters"),
                  M("PagingExecutive"), M("GamesTask")}
                    \cup (IF snapshot[M("Mouse")] = "absent" THEN {} ELSE {M("Mouse")}))
RestoreBaselineState == RestoreDevices ++ RestoreSettings

RestoreNetworkInterfaceSettings ==
    FromSnapshot({M("TcpParameters")}) ++ Constant({M("AdapterClass")}, "default")
DisableMSIMode == FromSnapshot({"MSI"} \X Adapters)
RestoreSysMain == FromSnapshot({M("SysMainStart")})
RestoreSystemTimers == Constant({M("Timers")}, "absent")
RestorePeripheralBuffers == FromSnapshot({M("Queues")})
RestoreInputLatency ==
    FromSnapshot({M("Mouse"), M("GameDVR")}) ++ Constant({M("GameDVRPolicy")}, "absent")
        ++ Constant({<<"USBSuspend", plan>>}, "default")
RestorePrioritySeparation == FromSnapshot({M("Quantum")})
RestoreGamesTask == FromSnapshot({M("GamesTask")})
RestorePagingExecutive == FromSnapshot({M("PagingExecutive")})

\* It writes to the adapter that is online now; one that was not recorded loses
\* what InjectTCPNoDelay may have given it.
RevertTCPNoDelay ==
    IF active = None THEN <<>>
    ELSE FromSnapshot({<<"Nagle", active>>, M("Responsiveness")})
            ++ Constant({<<"Nagle", active>>}, "absent")

Restores ==
    [Baseline           |-> RestoreBaselineState,
     NetInterface       |-> RestoreNetworkInterfaceSettings,
     MSI                |-> DisableMSIMode,
     SysMain            |-> RestoreSysMain,
     Timers             |-> RestoreSystemTimers,
     Peripherals        |-> RestorePeripheralBuffers,
     InputLatency       |-> RestoreInputLatency,
     PrioritySeparation |-> RestorePrioritySeparation,
     GamesTask          |-> RestoreGamesTask,
     Paging             |-> RestorePagingExecutive,
     TCPNoDelay         |-> RevertTCPNoDelay]

\* The calls of a mode function and of ApplyTotalRestore in their order, as far
\* as they write settings.
OptimizePlan == <<"CoreParking", "PrioritySeparation", "GamesTask", "PowerPlan", "TCPNoDelay",
                  "NetInterface", "MSI", "Peripherals", "InputLatency", "Timers", "Paging",
                  "SysMain">>
RestorePlan == <<"Baseline", "NetInterface", "MSI", "SysMain", "Timers", "Peripherals",
                 "InputLatency", "PrioritySeparation", "GamesTask">>

Calls == {"Baseline", "CoreParking", "PrioritySeparation", "GamesTask", "PowerPlan", "TCPNoDelay",
          "NetInterface", "MSI", "Peripherals", "InputLatency", "Timers", "Paging", "SysMain"}

\* The check boxes of the settings page that change these settings.
CheckBoxes == {"NetInterface", "TCPNoDelay", "GamesTask", "Paging"}

Write(f) == value' = [s \in Settings |-> IF s \in DOMAIN f THEN f[s] ELSE value[s]]

TypeOK ==
    /\ value \in [Settings -> Values] /\ original \in [Settings -> Values]
    /\ plan \in Plans /\ snapshotPlan \in Plans
    /\ plugged \subseteq Adapters /\ active \in plugged \cup {None}
    /\ DOMAIN snapshot \subseteq Settings /\ \A s \in DOMAIN snapshot : snapshot[s] \in Values
    /\ mode \in {"SafeDefault", "Extreme", "Balanced"}
    /\ todo \in Seq(Calls)
    /\ clicked \subseteq CheckBoxes \X BOOLEAN
    /\ loops \subseteq {"current", "cancelled"}
    /\ meddled \subseteq Settings
    /\ events \in 0..MaxEvents

\* The program's first start has just recorded the machine.  It has any plan
\* and adapters; its settings are the user's own, or not set at all, or already
\* have the value an optimization would give them, all alike: what happens to
\* one of them never depends on another.
Init ==
    /\ plan \in Plans /\ plugged \in SUBSET Adapters /\ active \in plugged \cup {None}
    /\ value \in {Constant(Settings, v) : v \in {"absent", "user", "tuned"}}
    /\ snapshot = SaveBaselineState
    /\ snapshotPlan = plan
    /\ original = value
    /\ mode = "SafeDefault" /\ todo = <<>>
    /\ clicked = {} /\ loops = {} /\ meddled = {} /\ events = 0

-----------------------------------------------------------------------------
Event == events < MaxEvents /\ events' = events + 1

\* A mode function gets past its checks; one runs at a time.  It cancels the
\* power lock loop of the mode before it.
SwitchMode(m) ==
    /\ todo = <<>>
    /\ m # mode
    /\ mode' = m
    /\ todo' = IF m = "SafeDefault" THEN RestorePlan ELSE OptimizePlan
    /\ meddled' = {}
    /\ loops' = IF loops = {} THEN {} ELSE {"cancelled"}
    /\ UNCHANGED <<osVars, fileVars, clicked, events>>

\* Its next call is made.
Optimize ==
    LET call == Head(todo)
    IN  /\ mode # "SafeDefault"
        /\ todo # <<>>
        /\ todo' = Tail(todo)
        /\ Write(Tunes[call])
        /\ IF call = "PowerPlan"
           THEN plan' = "ultimate" /\ loops' = loops \cup {"current"}
           ELSE UNCHANGED <<plan, loops>>
        /\ UNCHANGED <<plugged, active, fileVars, mode, clicked, meddled, events>>

Restore ==
    LET call == Head(todo)
    IN  /\ mode = "SafeDefault"
        /\ todo # <<>>
        /\ todo' = Tail(todo)
        /\ Write(Restores[call])
        /\ plan' = IF call = "Baseline" THEN snapshotPlan ELSE plan
        /\ UNCHANGED <<plugged, active, fileVars, mode, clicked, loops, meddled, events>>

\* A loop's tick finds another plan active and puts its own back; a tick that has
\* begun, or is taken next to a context that is done, does so after a restore, too.
Tick ==
    /\ loops # {}
    /\ plan # "ultimate"
    /\ plan' = "ultimate"
    /\ UNCHANGED <<value, plugged, active, fileVars, mode, todo, clicked, loops, meddled,
                   events>>

\* A cancelled loop sees that its context is done.
LoopEnds ==
    /\ "cancelled" \in loops
    /\ loops' = loops \ {"cancelled"}
    /\ UNCHANGED <<osVars, fileVars, mode, todo, clicked, meddled, events>>

\* A check box is clicked, which starts a goroutine ...
Click(box, checked) ==
    /\ Event
    /\ <<box, checked>> \notin clicked
    /\ clicked' = clicked \cup {<<box, checked>>}
    /\ UNCHANGED <<osVars, fileVars, mode, todo, loops, meddled>>

\* ... that makes its call whenever it runs, next to a mode function or not.
Toggle(box, checked) ==
    LET writes == IF checked THEN Tunes[box] ELSE Restores[box]
    IN  /\ <<box, checked>> \in clicked
        /\ clicked' = clicked \ {<<box, checked>>}
        /\ Write(writes)
        /\ meddled' = meddled \cup DOMAIN writes
        /\ UNCHANGED <<plan, plugged, active, fileVars, mode, todo, loops, events>>

\* An adapter is installed.
Install(a) ==
    /\ Event
    /\ a \notin plugged
    /\ plugged' = plugged \cup {a}
    /\ UNCHANGED <<value, plan, active, fileVars, mode, todo, clicked, loops, meddled>>

\* The adapter in use changes, or goes offline.
GoOnline(a) ==
    /\ Event
    /\ a \in (plugged \cup {None}) \ {active}
    /\ active' = a
    /\ UNCHANGED <<value, plan, plugged, fileVars, mode, todo, clicked, loops, meddled>>

\* The user activates the other power plan.
ChangePlan ==
    /\ Event
    /\ plan' \in Plans \ {plan}
    /\ UNCHANGED <<value, plugged, active, fileVars, mode, todo, clicked, loops, meddled>>

Next ==
    \/ \E m \in {"SafeDefault", "Extreme", "Balanced"} : SwitchMode(m)
    \/ Optimize \/ Restore \/ Tick \/ LoopEnds
    \/ \E box \in CheckBoxes, checked \in BOOLEAN : Click(box, checked) \/ Toggle(box, checked)
    \/ \E a \in Adapters : Install(a)
    \/ \E a \in Adapters \cup {None} : GoOnline(a)
    \/ ChangePlan

Spec == Init /\ [][Next]_vars

-----------------------------------------------------------------------------
RolledBack == mode = "SafeDefault" /\ todo = <<>>

\* A total restore gives every setting of the snapshot its original value,
\* whichever modes and check boxes wrote it before, with whatever adapters and
\* whichever power plan a loop puts back between the calls; but for those a check
\* box has written meanwhile.  (The active plan is no such setting: a late tick may
\* take it over again.)
RecordedRestored ==
    RolledBack => \A s \in DOMAIN snapshot \ meddled : value[s] = original[s]

\* No call puts a recorded setting to a value that is neither its original one
\* nor the tuned one, in whatever order modes and check boxes write it.
NoThirdValue ==
    \A s \in DOMAIN snapshot : value[s] \in {original[s], "tuned"}

\* orchestrator.go:398, "rollbacks the system to exact original state": that
\* would have to hold for the settings that the snapshot does not have, too.
ExactRestore ==
    RolledBack => \A s \in Settings \ meddled : value[s] = original[s]
===============================================================================
