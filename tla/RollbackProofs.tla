---------------------------- MODULE RollbackProofs ----------------------------
(***************************************************************************)
(* Theorems about Rollback: the values that the settings of the snapshot   *)
(* take, and have after a total restore, for any number of adapters and    *)
(* any number of clicks and changes of the machine.                        *)
(***************************************************************************)
EXTENDS Rollback, TLAPS

\* What a snapshot has, of whatever machine: adapters and the power plan, the
\* settings of the machine and its user, and the start types of services.
Recordable ==
    ({"MSI", "Nagle"} \X Adapters) \cup ({"Cores"} \X Plans)
        \cup {M("Responsiveness"), M("SysMainStart")} \cup RecordedSettings

\* The snapshot has the original values, and none of a setting that the restore
\* gives a default.
SnapshotInv ==
    /\ DOMAIN snapshot \subseteq Recordable
    /\ \A s \in DOMAIN snapshot : snapshot[s] = original[s]

\* The calls that a mode function has still to make.
Ahead(s) == {s[i] : i \in 1..Len(s)}

RestoreCalls == {"Baseline", "NetInterface", "MSI", "SysMain", "Timers", "Peripherals",
                 "InputLatency", "PrioritySeparation", "GamesTask"}
OptimizeCalls == {"CoreParking", "PrioritySeparation", "GamesTask", "PowerPlan", "TCPNoDelay",
                  "NetInterface", "MSI", "Peripherals", "InputLatency", "Timers", "Paging",
                  "SysMain"}

\* They are calls of that function, and the snapshot is written by the first.
PlanInv ==
    /\ mode = "SafeDefault" => Ahead(todo) \subseteq RestoreCalls
    /\ mode # "SafeDefault" => Ahead(todo) \subseteq OptimizeCalls
    /\ "Baseline" \in Ahead(todo) => todo = RestorePlan

\* From its first call on, a restore has the original values back, but for the
\* mouse settings that RestoreBaselineState does not delete: their own call is
\* still ahead.
RestoredInv ==
    mode = "SafeDefault" /\ todo # RestorePlan =>
        \A s \in DOMAIN snapshot \ meddled :
            \/ value[s] = original[s]
            \/ s = M("Mouse") /\ "InputLatency" \in Ahead(todo)

RollbackInv == TypeOK /\ SnapshotInv /\ PlanInv /\ RestoredInv /\ NoThirdValue

-----------------------------------------------------------------------------
(* The writes of a call *)

\* A restoring call gives the settings that are recorded their original values.
Faithful(f) ==
    /\ DOMAIN f \subseteq Settings
    /\ \A s \in DOMAIN f : f[s] \in Values /\ (s \in DOMAIN snapshot => f[s] = original[s])

LEMMA MachineSettings ==
    /\ \A name \in Machine : M(name) \in Settings
    /\ Recordable \subseteq Settings
    /\ {M("AdapterClass"), M("GameDVRPolicy"), M("Timers")} \cap Recordable = {}
    /\ ({"USBSuspend"} \X Plans) \cap Recordable = {}
  <1>1. \A name \in Machine : M(name) \in Settings
    BY DEF Settings
  <1>2. Recordable \subseteq Settings
    BY <1>1 DEF Recordable, RecordedSettings, Settings, Machine
  <1>3. QED
    BY <1>1, <1>2 DEF Recordable, RecordedSettings, M

LEMMA FromSnapshotFaithful ==
    ASSUME TypeOK, SnapshotInv, NEW S
    PROVE  /\ Faithful(FromSnapshot(S))
           /\ DOMAIN FromSnapshot(S) = S \cap DOMAIN snapshot
  BY DEF TypeOK, SnapshotInv, Faithful, FromSnapshot

LEMMA ConstantFaithful ==
    ASSUME TypeOK, SnapshotInv, NEW S \in SUBSET Settings, S \cap Recordable = {},
           NEW v \in Values
    PROVE  Faithful(Constant(S, v))
  BY DEF TypeOK, SnapshotInv, Faithful, Constant

LEMMA OverrideFaithful ==
    ASSUME NEW f, NEW g, Faithful(f), Faithful(g)
    PROVE  Faithful(f ++ g) /\ DOMAIN (f ++ g) = DOMAIN f \cup DOMAIN g
  BY DEF Faithful, ++

\* The settings that no snapshot has, the mouse and the rest.
LEMMA RecordableSettings ==
    /\ \A s \in Recordable \ {M("Mouse")} :
          \/ s \in ({"MSI", "Nagle"} \X Adapters) \cup ({"Cores"} \X Plans)
          \/ s \in {M("Responsiveness"), M("SysMainStart"), M("Quantum"), M("Queues"),
                    M("GameDVR"), M("TcpParameters"), M("PagingExecutive"), M("GamesTask")}
  BY DEF Recordable, RecordedSettings

\* RestoreBaselineState writes all that is recorded, the mouse settings only
\* where there were some.
LEMMA BaselineFaithful ==
    ASSUME TypeOK, SnapshotInv
    PROVE  /\ Faithful(RestoreBaselineState)
           /\ DOMAIN snapshot \ {M("Mouse")} \subseteq DOMAIN RestoreBaselineState
  <1> DEFINE devices == ({"MSI", "Nagle"} \X Adapters) \cup ({"Cores"} \X Plans)
                           \cup {M("Responsiveness"), M("SysMainStart")}
             always == {M("Quantum"), M("Queues"), M("GameDVR"), M("TcpParameters"),
                        M("PagingExecutive"), M("GamesTask")}
             settings == always \cup (IF snapshot[M("Mouse")] = "absent" THEN {}
                                      ELSE {M("Mouse")})
  <1>1. RestoreDevices = FromSnapshot(devices) /\ RestoreSettings = FromSnapshot(settings)
    BY DEF RestoreDevices, RestoreSettings
  <1>2. Recordable \ {M("Mouse")} \subseteq devices \cup always
    BY RecordableSettings
  <1>3. always \subseteq settings
    OBVIOUS
  <1> HIDE DEF devices, always, settings
  <1>4. /\ Faithful(RestoreDevices) /\ DOMAIN RestoreDevices = devices \cap DOMAIN snapshot
        /\ Faithful(RestoreSettings) /\ DOMAIN RestoreSettings = settings \cap DOMAIN snapshot
    BY <1>1, FromSnapshotFaithful
  <1>5. /\ Faithful(RestoreBaselineState)
        /\ DOMAIN RestoreBaselineState = DOMAIN RestoreDevices \cup DOMAIN RestoreSettings
    BY <1>4, OverrideFaithful DEF RestoreBaselineState
  <1>6. QED
    BY <1>2, <1>3, <1>4, <1>5 DEF SnapshotInv

\* The mouse settings that were recorded are written by a call of their own.
LEMMA InputLatencyFaithful ==
    ASSUME TypeOK, SnapshotInv
    PROVE  /\ Faithful(RestoreInputLatency)
           /\ {M("Mouse")} \cap DOMAIN snapshot \subseteq DOMAIN RestoreInputLatency
  <1> DEFINE recorded == FromSnapshot({M("Mouse"), M("GameDVR")})
             policy == Constant({M("GameDVRPolicy")}, "absent")
             usb == Constant({<<"USBSuspend", plan>>}, "default")
  <1>1. Faithful(recorded) /\ DOMAIN recorded = {M("Mouse"), M("GameDVR")} \cap DOMAIN snapshot
    BY FromSnapshotFaithful
  <1>2. Faithful(policy)
    <2>1. {M("GameDVRPolicy")} \subseteq Settings /\ {M("GameDVRPolicy")} \cap Recordable = {}
      BY MachineSettings DEF Machine
    <2>2. QED
      BY <2>1, ConstantFaithful DEF Values
  <1>3. Faithful(usb)
    <2>1. {<<"USBSuspend", plan>>} \subseteq {"USBSuspend"} \X Plans
      BY DEF TypeOK
    <2>2. /\ {<<"USBSuspend", plan>>} \subseteq Settings
          /\ {<<"USBSuspend", plan>>} \cap Recordable = {}
      BY <2>1, MachineSettings DEF Settings
    <2>3. QED
      BY <2>2, ConstantFaithful DEF Values
  <1>4. RestoreInputLatency = (recorded ++ policy) ++ usb
    BY DEF RestoreInputLatency
  <1> HIDE DEF recorded, policy, usb
  <1>5. /\ Faithful(recorded ++ policy)
        /\ DOMAIN (recorded ++ policy) = DOMAIN recorded \cup DOMAIN policy
    BY <1>1, <1>2, OverrideFaithful
  <1>6. /\ Faithful((recorded ++ policy) ++ usb)
        /\ DOMAIN ((recorded ++ policy) ++ usb) = DOMAIN (recorded ++ policy) \cup DOMAIN usb
    BY <1>3, <1>5, OverrideFaithful
  <1>7. QED
    BY <1>1, <1>4, <1>5, <1>6

\* The adapter that is online now loses what InjectTCPNoDelay gave it only when
\* it was not recorded.
LEMMA TCPNoDelayFaithful ==
    ASSUME TypeOK, SnapshotInv
    PROVE  Faithful(RevertTCPNoDelay)
  <1>1. CASE active = None
    <2>1. RevertTCPNoDelay = <<>> /\ DOMAIN <<>> = {}
      BY <1>1 DEF RevertTCPNoDelay
    <2>2. QED
      BY <2>1 DEF Faithful
  <1>2. CASE active # None
    <2> DEFINE nagle == <<"Nagle", active>>
               recorded == FromSnapshot({nagle, M("Responsiveness")})
               unrecorded == Constant({nagle}, "absent")
    <2>1. nagle \in Settings
      BY <1>2 DEF TypeOK, Settings
    <2>2. /\ Faithful(recorded)
          /\ DOMAIN recorded = {nagle, M("Responsiveness")} \cap DOMAIN snapshot
      BY FromSnapshotFaithful
    <2>3. DOMAIN unrecorded = {nagle} /\ unrecorded[nagle] = "absent"
      BY DEF Constant
    <2>4. RevertTCPNoDelay = recorded ++ unrecorded
      BY <1>2 DEF RevertTCPNoDelay
    <2> HIDE DEF nagle, recorded, unrecorded
    <2>5. QED
      BY <2>1, <2>2, <2>3, <2>4 DEF Faithful, ++, Values
  <1>3. QED
    BY <1>1, <1>2

LEMMA RestoresFaithful ==
    ASSUME TypeOK, SnapshotInv, NEW call \in RestoreCalls \cup CheckBoxes
    PROVE  Faithful(Restores[call])
  <1>1. \A S : Faithful(FromSnapshot(S))
    BY FromSnapshotFaithful
  <1>2. Faithful(RestoreNetworkInterfaceSettings)
    <2>1. {M("AdapterClass")} \subseteq Settings /\ {M("AdapterClass")} \cap Recordable = {}
      BY MachineSettings DEF Machine
    <2>2. Faithful(Constant({M("AdapterClass")}, "default"))
      BY <2>1, ConstantFaithful DEF Values
    <2>3. QED
      BY <1>1, <2>2, OverrideFaithful DEF RestoreNetworkInterfaceSettings
  <1>3. Faithful(RestoreSystemTimers)
    <2>1. {M("Timers")} \subseteq Settings /\ {M("Timers")} \cap Recordable = {}
      BY MachineSettings DEF Machine
    <2>2. QED
      BY <2>1, ConstantFaithful DEF Values, RestoreSystemTimers
  <1>4. Faithful(DisableMSIMode) /\ Faithful(RestoreSysMain) /\ Faithful(RestorePeripheralBuffers)
    BY <1>1 DEF DisableMSIMode, RestoreSysMain, RestorePeripheralBuffers
  <1>5. /\ Faithful(RestorePrioritySeparation) /\ Faithful(RestoreGamesTask)
        /\ Faithful(RestorePagingExecutive)
    BY <1>1 DEF RestorePrioritySeparation, RestoreGamesTask, RestorePagingExecutive
  <1>6. QED
    BY <1>2, <1>3, <1>4, <1>5, BaselineFaithful, InputLatencyFaithful, TCPNoDelayFaithful
    DEF Restores, RestoreCalls, CheckBoxes

\* An optimizing call writes the tuned value only, to settings of the machine,
\* of adapters it knows and of the plan that is active.
LEMMA TunesTuned ==
    ASSUME TypeOK, NEW call \in OptimizeCalls \cup CheckBoxes
    PROVE  \E S \in SUBSET Settings : Tunes[call] = Tuned(S)
  <1>1. CASE call = "CoreParking"
    <2>1. {<<"Cores", plan>>} \in SUBSET Settings
      BY DEF TypeOK, Settings
    <2>2. Tunes[call] = Tuned({<<"Cores", plan>>})
      BY <1>1 DEF Tunes, EnableCoreParkingElimination
    <2>3. QED
      BY <2>1, <2>2
  <1>2. CASE call = "PrioritySeparation"
    <2>1. {M("Quantum")} \in SUBSET Settings
      BY MachineSettings DEF Machine
    <2>2. QED
      BY <1>2, <2>1 DEF Tunes, OptimizePrioritySeparation
  <1>3. CASE call = "GamesTask"
    <2>1. {M("GamesTask")} \in SUBSET Settings
      BY MachineSettings DEF Machine
    <2>2. QED
      BY <1>3, <2>1 DEF Tunes, OptimizeGamesTask
  <1>4. <<>> = Tuned({})
    BY DEF Tuned, Constant
  <1>5. CASE call = "PowerPlan"
    BY <1>4, <1>5 DEF Tunes
  <1>6. CASE call = "TCPNoDelay" /\ active = None
    BY <1>4, <1>6 DEF Tunes, InjectTCPNoDelay
  <1>7. CASE call = "TCPNoDelay" /\ active # None
    <2>1. {<<"Nagle", active>>, M("Responsiveness")} \in SUBSET Settings
      <3>1. <<"Nagle", active>> \in Settings
        BY <1>7 DEF TypeOK, Settings
      <3>2. QED
        BY <3>1, MachineSettings DEF Machine
    <2>2. Tunes[call] = Tuned({<<"Nagle", active>>, M("Responsiveness")})
      BY <1>7 DEF Tunes, InjectTCPNoDelay
    <2>3. QED
      BY <2>1, <2>2
  <1>8. CASE call = "NetInterface"
    <2>1. {M("TcpParameters"), M("AdapterClass")} \in SUBSET Settings
      BY MachineSettings DEF Machine
    <2>2. QED
      BY <1>8, <2>1 DEF Tunes, OptimizeNetworkInterfaceSettings
  <1>9. CASE call = "MSI"
    <2>1. {"MSI"} \X plugged \in SUBSET Settings
      BY DEF TypeOK, Settings
    <2>2. QED
      BY <1>9, <2>1 DEF Tunes, EnableMSIMode
  <1>10. CASE call = "Peripherals"
    <2>1. {M("Queues")} \in SUBSET Settings
      BY MachineSettings DEF Machine
    <2>2. QED
      BY <1>10, <2>1 DEF Tunes, TunePeripheralBuffers
  <1>11. CASE call = "InputLatency"
    <2>1. <<"USBSuspend", plan>> \in Settings
      BY DEF TypeOK, Settings
    <2>2. {M("Mouse"), M("GameDVR"), M("GameDVRPolicy"), <<"USBSuspend", plan>>}
             \in SUBSET Settings
      BY <2>1, MachineSettings DEF Machine
    <2>3. QED
      BY <1>11, <2>2 DEF Tunes, OptimizeInputLatency
  <1>12. CASE call = "Timers"
    <2>1. {M("Timers")} \in SUBSET Settings
      BY MachineSettings DEF Machine
    <2>2. QED
      BY <1>12, <2>1 DEF Tunes, OptimizeSystemTimers
  <1>13. CASE call = "Paging"
    <2>1. {M("PagingExecutive")} \in SUBSET Settings
      BY MachineSettings DEF Machine
    <2>2. QED
      BY <1>13, <2>1 DEF Tunes, OptimizePagingExecutive
  <1>14. CASE call = "SysMain"
    <2>1. {M("SysMainStart")} \in SUBSET Settings
      BY MachineSettings DEF Machine
    <2>2. QED
      BY <1>14, <2>1 DEF Tunes, DisableSysMain
  <1>15. QED
    BY <1>1, <1>2, <1>3, <1>5, <1>6, <1>7, <1>8, <1>9, <1>10, <1>11, <1>12, <1>13, <1>14
    DEF OptimizeCalls, CheckBoxes

-----------------------------------------------------------------------------
(* The steps *)

LEMMA EmptyAhead == Ahead(<<>>) = {}
  BY DEF Ahead

LEMMA TailAhead ==
    ASSUME NEW s \in Seq(Calls), s # <<>>
    PROVE  Tail(s) \in Seq(Calls) /\ Ahead(s) = {Head(s)} \cup Ahead(Tail(s))
  <1>1. /\ Len(s) \in Nat /\ Len(s) >= 1 /\ Head(s) = s[1]
        /\ Len(Tail(s)) = Len(s) - 1
        /\ \A i \in 1..Len(Tail(s)) : Tail(s)[i] = s[i + 1]
    OBVIOUS
  <1>2. ASSUME NEW i \in 1..Len(s), i # 1
        PROVE  s[i] \in Ahead(Tail(s))
    <2>1. i - 1 \in 1..Len(Tail(s)) /\ s[i] = Tail(s)[i - 1]
      BY <1>1, <1>2
    <2>2. QED
      BY <2>1 DEF Ahead
  <1>3. Head(s) \in Ahead(s)
    BY <1>1 DEF Ahead
  <1>4. \A i \in 1..Len(Tail(s)) : i + 1 \in 1..Len(s) /\ Tail(s)[i] = s[i + 1]
    BY <1>1
  <1>5. QED
    BY <1>1, <1>2, <1>3, <1>4 DEF Ahead

LEMMA CallsOfPlans ==
    /\ RestorePlan \in Seq(Calls) /\ RestorePlan # <<>> /\ OptimizePlan \in Seq(Calls)
    /\ Ahead(RestorePlan) \subseteq RestoreCalls /\ Ahead(OptimizePlan) \subseteq OptimizeCalls
    /\ Head(RestorePlan) = "Baseline" /\ "Baseline" \notin OptimizeCalls
    /\ "Baseline" \notin Ahead(Tail(RestorePlan))
    /\ "InputLatency" \in Ahead(Tail(RestorePlan))
  <1> DEFINE rest == <<"NetInterface", "MSI", "SysMain", "Timers", "Peripherals",
                       "InputLatency", "PrioritySeparation", "GamesTask">>
  <1>1. RestorePlan \in Seq(Calls) /\ RestorePlan # <<>> /\ OptimizePlan \in Seq(Calls)
    BY DEF RestorePlan, OptimizePlan, Calls
  <1>2. Ahead(RestorePlan) \subseteq RestoreCalls
    BY DEF RestorePlan, RestoreCalls, Ahead
  <1>3. Ahead(OptimizePlan) \subseteq OptimizeCalls /\ "Baseline" \notin OptimizeCalls
    BY DEF OptimizePlan, OptimizeCalls, Ahead
  <1>4. Head(RestorePlan) = "Baseline" /\ Tail(RestorePlan) = rest
    BY DEF RestorePlan
  <1>5. Ahead(rest) = {"NetInterface", "MSI", "SysMain", "Timers", "Peripherals",
                       "InputLatency", "PrioritySeparation", "GamesTask"}
    BY DEF Ahead
  <1>6. QED
    BY <1>1, <1>2, <1>3, <1>4, <1>5

\* What a faithful and what a tuning write do to the values.
LEMMA FaithfulWrite ==
    ASSUME TypeOK, NoThirdValue, NEW f, Faithful(f), Write(f), UNCHANGED fileVars
    PROVE  /\ value' \in [Settings -> Values] /\ NoThirdValue'
           /\ \A s \in DOMAIN snapshot : value[s] = original[s] => value'[s] = original[s]
           /\ \A s \in DOMAIN snapshot \cap DOMAIN f : value'[s] = original[s]
  <1>1. /\ DOMAIN snapshot \subseteq Settings /\ DOMAIN f \subseteq Settings
        /\ value' = [s \in Settings |-> IF s \in DOMAIN f THEN f[s] ELSE value[s]]
        /\ \A s \in DOMAIN f : f[s] \in Values /\ (s \in DOMAIN snapshot => f[s] = original[s])
    BY DEF TypeOK, Faithful, Write
  <1>2. value' \in [Settings -> Values]
    BY <1>1 DEF TypeOK
  <1>3. \A s \in DOMAIN snapshot : value'[s] = (IF s \in DOMAIN f THEN original[s] ELSE value[s])
    BY <1>1
  <1>4. QED
    BY <1>2, <1>3 DEF NoThirdValue, fileVars

LEMMA TunedWrite ==
    ASSUME TypeOK, NoThirdValue, NEW S \in SUBSET Settings, NEW f, f = Tuned(S), Write(f),
           UNCHANGED fileVars
    PROVE  /\ value' \in [Settings -> Values] /\ NoThirdValue'
           /\ DOMAIN f \subseteq Settings
           /\ \A s \in DOMAIN snapshot \ DOMAIN f : value'[s] = value[s]
  <1>1. /\ DOMAIN snapshot \subseteq Settings /\ DOMAIN f = S
        /\ value' = [s \in Settings |-> IF s \in S THEN "tuned" ELSE value[s]]
    BY DEF TypeOK, Write, Tuned, Constant
  <1>2. value' \in [Settings -> Values]
    BY <1>1 DEF TypeOK, Values
  <1>3. \A s \in DOMAIN snapshot : value'[s] = (IF s \in S THEN "tuned" ELSE value[s])
    BY <1>1
  <1>4. QED
    BY <1>1, <1>2, <1>3 DEF NoThirdValue, fileVars

LEMMA RollbackStart == Init => RollbackInv
  <1> SUFFICES ASSUME Init
               PROVE  RollbackInv
    OBVIOUS
  <1>1. value \in [Settings -> Values]
    BY DEF Init, Constant, Values
  <1>2. /\ DOMAIN snapshot = RecordedDevices \cup RecordedSettings
        /\ \A s \in DOMAIN snapshot : snapshot[s] = value[s]
    BY DEF Init, SaveBaselineState
  <1>3. DOMAIN snapshot \subseteq Recordable
    BY <1>2 DEF Init, RecordedDevices, Recordable
  <1>4. DOMAIN snapshot \subseteq Settings
    BY <1>3, MachineSettings
  <1>5. SnapshotInv /\ NoThirdValue
    BY <1>2, <1>3 DEF Init, SnapshotInv, NoThirdValue
  <1>6. TypeOK
    <2>1. 0 \in 0..MaxEvents
      BY MaxEventsAssumption DEF MaxEventsAssumption
    <2>2. QED
      BY <1>1, <1>2, <1>4, <2>1 DEF Init, TypeOK
  <1>7. PlanInv /\ RestoredInv
    BY <1>5, EmptyAhead DEF Init, PlanInv, RestoredInv
  <1>8. QED
    BY <1>5, <1>6, <1>7 DEF RollbackInv

LEMMA SwitchModeKeeps ==
    ASSUME RollbackInv, NEW m \in {"SafeDefault", "Extreme", "Balanced"}, SwitchMode(m)
    PROVE  RollbackInv'
  <1> USE DEF osVars, fileVars
  <1>1. TypeOK'
    BY CallsOfPlans DEF RollbackInv, TypeOK, SwitchMode
  <1>2. SnapshotInv' /\ NoThirdValue'
    BY DEF RollbackInv, SnapshotInv, NoThirdValue, SwitchMode
  <1>3. PlanInv'
    <2>1. CASE m = "SafeDefault"
      BY <2>1, CallsOfPlans DEF SwitchMode, PlanInv, Ahead
    <2>2. CASE m # "SafeDefault"
      <3>1. mode' # "SafeDefault" /\ todo' = OptimizePlan
        BY <2>2 DEF SwitchMode
      <3>2. "Baseline" \notin Ahead(OptimizePlan) /\ Ahead(OptimizePlan) \subseteq OptimizeCalls
        BY CallsOfPlans
      <3>3. QED
        BY <3>1, <3>2 DEF PlanInv, Ahead
    <2>3. QED
      BY <2>1, <2>2
  <1>4. RestoredInv'
    BY DEF SwitchMode, RestoredInv
  <1>5. QED
    BY <1>1, <1>2, <1>3, <1>4 DEF RollbackInv

LEMMA OptimizeKeeps ==
    ASSUME RollbackInv, Optimize
    PROVE  RollbackInv'
  <1> USE DEF fileVars
  <1> DEFINE call == Head(todo)
  <1>1. TypeOK /\ SnapshotInv /\ PlanInv /\ NoThirdValue
    BY DEF RollbackInv
  <1>2. /\ mode # "SafeDefault" /\ todo # <<>> /\ todo' = Tail(todo) /\ Write(Tunes[call])
        /\ plan' \in {plan, "ultimate"} /\ loops' \in {loops, loops \cup {"current"}}
        /\ UNCHANGED <<plugged, active, fileVars, mode, clicked, meddled, events>>
    BY DEF Optimize
  <1>3. todo' \in Seq(Calls) /\ Ahead(todo) = {call} \cup Ahead(todo')
    BY <1>1, <1>2, TailAhead DEF TypeOK
  <1>4. call \in OptimizeCalls
    BY <1>1, <1>2, <1>3 DEF PlanInv
  <1>5. PICK S \in SUBSET Settings : Tunes[call] = Tuned(S)
    BY <1>1, <1>4, TunesTuned
  <1>6. value' \in [Settings -> Values] /\ NoThirdValue'
    BY <1>1, <1>2, <1>5, TunedWrite
  <1> HIDE DEF call
  <1>7. TypeOK'
    BY <1>1, <1>2, <1>3, <1>6 DEF TypeOK, Plans
  <1>8. PlanInv'
    <2>1. Ahead(todo)' = Ahead(todo')
      BY DEF Ahead
    <2>2. "Baseline" \notin Ahead(todo)
      BY <1>1, <1>2, CallsOfPlans DEF PlanInv
    <2>3. QED
      BY <1>1, <1>2, <1>3, <2>1, <2>2 DEF PlanInv
  <1>9. SnapshotInv' /\ RestoredInv'
    BY <1>1, <1>2 DEF SnapshotInv, RestoredInv
  <1>10. QED
    BY <1>6, <1>7, <1>8, <1>9 DEF RollbackInv

LEMMA RestoreKeeps ==
    ASSUME RollbackInv, Restore
    PROVE  RollbackInv'
  <1> USE DEF fileVars
  <1> DEFINE call == Head(todo)
             f == Restores[call]
  <1>1. TypeOK /\ SnapshotInv /\ PlanInv /\ RestoredInv /\ NoThirdValue
    BY DEF RollbackInv
  <1>2. /\ mode = "SafeDefault" /\ todo # <<>> /\ todo' = Tail(todo) /\ Write(f)
        /\ plan' = IF call = "Baseline" THEN snapshotPlan ELSE plan
        /\ UNCHANGED <<plugged, active, fileVars, mode, clicked, loops, meddled, events>>
    BY DEF Restore
  <1>3. todo' \in Seq(Calls) /\ Ahead(todo) = {call} \cup Ahead(todo')
    BY <1>1, <1>2, TailAhead DEF TypeOK
  <1>4. call \in RestoreCalls
    BY <1>1, <1>2, <1>3 DEF PlanInv
  <1>5. Faithful(f)
    BY <1>1, <1>4, RestoresFaithful
  <1>6. /\ call = "Baseline" => DOMAIN snapshot \ {M("Mouse")} \subseteq DOMAIN f
        /\ call = "InputLatency" => {M("Mouse")} \cap DOMAIN snapshot \subseteq DOMAIN f
    BY <1>1, BaselineFaithful, InputLatencyFaithful DEF Restores
  <1>7. Ahead(todo)' = Ahead(todo')
    BY DEF Ahead
  <1> HIDE DEF f, call
  <1>8. /\ value' \in [Settings -> Values] /\ NoThirdValue'
        /\ \A s \in DOMAIN snapshot : value[s] = original[s] => value'[s] = original[s]
        /\ \A s \in DOMAIN snapshot \cap DOMAIN f : value'[s] = original[s]
    BY <1>1, <1>2, <1>5, FaithfulWrite
  <1>9. TypeOK'
    BY <1>1, <1>2, <1>3, <1>8 DEF TypeOK
  <1>10. SnapshotInv'
    BY <1>1, <1>2 DEF SnapshotInv
  <1>11. "Baseline" \notin Ahead(todo')
    BY <1>1, <1>2, <1>3, CallsOfPlans DEF PlanInv
  <1>12. PlanInv'
    BY <1>1, <1>2, <1>3, <1>7, <1>11 DEF PlanInv
  <1>13. RestoredInv'
    <2>1. CASE todo = RestorePlan
      <3>1. call = "Baseline" /\ "InputLatency" \in Ahead(todo')
        BY <1>2, <2>1, CallsOfPlans DEF call
      <3>3. \A s \in DOMAIN snapshot \ {M("Mouse")} : value'[s] = original[s]
        BY <1>6, <1>8, <3>1
      <3>4. QED
        BY <1>2, <1>7, <3>1, <3>3 DEF RestoredInv
    <2>2. CASE todo # RestorePlan
      <3>1. call # "Baseline"
        BY <1>1, <1>3, <2>2 DEF PlanInv
      <3>3. ASSUME NEW s \in DOMAIN snapshot \ meddled
            PROVE  \/ value'[s] = original[s]
                   \/ s = M("Mouse") /\ "InputLatency" \in Ahead(todo')
        <4>1. \/ value[s] = original[s]
              \/ s = M("Mouse") /\ "InputLatency" \in Ahead(todo)
          BY <1>1, <1>2, <2>2, <3>3 DEF RestoredInv
        <4>2. CASE s = M("Mouse") /\ call = "InputLatency"
          <5>1. s \in DOMAIN snapshot /\ s \in DOMAIN f
            BY <1>6, <3>3, <4>2
          <5>2. QED
            BY <1>8, <5>1
        <4>3. QED
          BY <1>3, <1>8, <4>1, <4>2
      <3>4. QED
        BY <1>2, <1>7, <3>3 DEF RestoredInv
    <2>3. QED
      BY <2>1, <2>2
  <1>14. QED
    BY <1>8, <1>9, <1>10, <1>12, <1>13 DEF RollbackInv

\* A check box writes next to the mode functions: what it writes counts as
\* meddled, whatever call of a restore is ahead.
LEMMA ToggleKeeps ==
    ASSUME RollbackInv, NEW box \in CheckBoxes, NEW checked \in BOOLEAN, Toggle(box, checked)
    PROVE  RollbackInv'
  <1> USE DEF fileVars
  <1> DEFINE writes == IF checked THEN Tunes[box] ELSE Restores[box]
  <1>1. TypeOK /\ SnapshotInv /\ PlanInv /\ RestoredInv /\ NoThirdValue
    BY DEF RollbackInv
  <1>2. /\ clicked' = clicked \ {<<box, checked>>}
        /\ Write(writes) /\ meddled' = meddled \cup DOMAIN writes
        /\ UNCHANGED <<plan, plugged, active, fileVars, mode, todo, loops, events>>
    BY DEF Toggle
  <1>3. /\ value' \in [Settings -> Values] /\ NoThirdValue'
        /\ DOMAIN writes \subseteq Settings
        /\ \A s \in DOMAIN snapshot \ DOMAIN writes :
              value[s] = original[s] => value'[s] = original[s]
    <2>1. CASE checked
      <3>1. PICK S \in SUBSET Settings : Tunes[box] = Tuned(S)
        BY <1>1, TunesTuned
      <3>2. writes = Tuned(S)
        BY <2>1, <3>1
      <3> HIDE DEF writes
      <3>3. QED
        BY <1>1, <1>2, <3>2, TunedWrite
    <2>2. CASE ~checked
      <3>1. Faithful(writes)
        BY <1>1, <2>2, RestoresFaithful
      <3> HIDE DEF writes
      <3>2. QED
        BY <1>1, <1>2, <3>1, FaithfulWrite DEF Faithful
    <2>3. QED
      BY <2>1, <2>2
  <1> HIDE DEF writes
  <1>4. TypeOK'
    BY <1>1, <1>2, <1>3 DEF TypeOK
  <1>5. SnapshotInv' /\ PlanInv'
    BY <1>1, <1>2 DEF SnapshotInv, PlanInv, Ahead
  <1>6. RestoredInv'
    <2>1. Ahead(todo)' = Ahead(todo)
      BY <1>2 DEF Ahead
    <2>2. QED
      BY <1>1, <1>2, <1>3, <2>1 DEF RestoredInv
  <1>7. QED
    BY <1>3, <1>4, <1>5, <1>6 DEF RollbackInv

\* Clicks, the machine around the program and the power lock loops write none of
\* its settings.
LEMMA EventKeeps ==
    ASSUME RollbackInv,
           \/ \E box \in CheckBoxes, checked \in BOOLEAN : Click(box, checked)
           \/ \E a \in Adapters : Install(a)
           \/ \E a \in Adapters \cup {None} : GoOnline(a)
           \/ ChangePlan \/ Tick \/ LoopEnds
           \/ UNCHANGED vars
    PROVE  RollbackInv'
  <1> USE DEF osVars, fileVars
  <1>1. TypeOK /\ SnapshotInv /\ PlanInv /\ RestoredInv /\ NoThirdValue
    BY DEF RollbackInv
  <1>2. /\ UNCHANGED <<value, fileVars, mode, todo, meddled>>
        /\ plan' = plan \/ plan' \in Plans
        /\ loops' \in {loops, loops \ {"cancelled"}}
    BY DEF Click, Install, GoOnline, ChangePlan, Tick, LoopEnds, Plans, vars
  <1>3. events' \in 0..MaxEvents
    <2>1. UNCHANGED events \/ Event
      BY DEF Click, Install, GoOnline, ChangePlan, Tick, LoopEnds, vars
    <2>2. QED
      BY <1>1, <2>1, MaxEventsAssumption DEF TypeOK, Event, MaxEventsAssumption
  <1>4. clicked' \subseteq CheckBoxes \X BOOLEAN
    <2>1. \/ UNCHANGED clicked
          \/ \E box \in CheckBoxes, checked \in BOOLEAN :
                clicked' = clicked \cup {<<box, checked>>}
      BY DEF Click, Install, GoOnline, ChangePlan, Tick, LoopEnds, vars
    <2>2. \A box \in CheckBoxes, checked \in BOOLEAN : <<box, checked>> \in CheckBoxes \X BOOLEAN
      OBVIOUS
    <2>3. clicked \subseteq CheckBoxes \X BOOLEAN
      BY <1>1 DEF TypeOK
    <2>4. QED
      BY <2>1, <2>2, <2>3
  <1>5. plugged' \subseteq Adapters /\ active' \in plugged' \cup {None}
    BY <1>1 DEF TypeOK, Click, Install, GoOnline, ChangePlan, Tick, LoopEnds, vars
  <1>6. TypeOK'
    BY <1>1, <1>2, <1>3, <1>4, <1>5 DEF TypeOK
  <1>7. Ahead(todo)' = Ahead(todo)
    BY <1>2 DEF Ahead
  <1>8. QED
    BY <1>1, <1>2, <1>6, <1>7 DEF RollbackInv, SnapshotInv, PlanInv, RestoredInv, NoThirdValue

LEMMA RollbackInductive == RollbackInv /\ [Next]_vars => RollbackInv'
  BY SwitchModeKeeps, OptimizeKeeps, RestoreKeeps, ToggleKeeps, EventKeeps DEF Next

LEMMA RollbackAlways == Spec => []RollbackInv
  BY RollbackStart, RollbackInductive, PTL DEF Spec

-----------------------------------------------------------------------------
(* The theorems *)

\* Every setting has one of the values it can have, and the calls ahead are calls.
THEOREM RollbackTypeCorrect == Spec => []TypeOK
  <1>1. RollbackInv => TypeOK
    BY DEF RollbackInv
  <1>2. QED
    BY <1>1, RollbackAlways, PTL

\* No call, of a mode function, of a restore or of a check box, in whatever order
\* they run, gives a setting of the snapshot a value that is neither the original
\* nor the tuned one.
THEOREM NoValueOfItsOwn == Spec => []NoThirdValue
  <1>1. RollbackInv => NoThirdValue
    BY DEF RollbackInv
  <1>2. QED
    BY <1>1, RollbackAlways, PTL

\* A total restore (ApplyTotalRestore) gives every setting of the snapshot its
\* original value, but for what check boxes write meanwhile, whatever the power
\* lock loops of the modes before it do to the active plan beside it or later.
THEOREM RecordedSettingsReturn == Spec => []RecordedRestored
  <1>1. RollbackInv => RecordedRestored
    <2>1. <<>> # RestorePlan
      BY CallsOfPlans
    <2>2. QED
      BY <2>1, EmptyAhead DEF RollbackInv, RestoredInv, RecordedRestored, RolledBack
  <1>2. QED
    BY <1>1, RollbackAlways, PTL
===============================================================================
