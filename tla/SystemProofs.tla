---------------------------- MODULE SystemProofs -----------------------------
(***************************************************************************)
(* Theorems about what is changed of the system: SysMain, for any number   *)
(* of calls, refused requests and steps of the service between them;       *)
(* Suspender: no process stays frozen, whatever processes come and go      *)
(* under the remembered ids, for any number of ids; and the power plan,    *)
(* for any plans, loops, choices of the user and failed calls.             *)
(***************************************************************************)
EXTENDS SysMain, Suspender, PowerPlan, FiniteSetTheorems, TLAPS

(* SysMain *)

\* What the steps of DisableSysMain have reached by then: the service is
\* disabled before it is asked to stop, and has begun to stop before it is
\* waited for.
Reached ==
    /\ call \in {"query", "control", "poll"} => startType = "disabled"
    /\ call = "poll" => service \in {"Stopped", "StopPending"}

\* ... and what the steps of RestoreSysMain have: the start type of the baseline is
\* back before the service is looked at and started.
Restored ==
    call \in {"restoreQuery", "start"} => startType = recordedStart /\ startType # "disabled"

SysMainInv == SysMainTypeOK /\ Reached /\ Restored /\ DisabledForGood /\ SysMainBack

LEMMA SysMainStart == SysMainInit => SysMainInv
  <1> SUFFICES ASSUME SysMainInit
               PROVE  SysMainInv
    OBVIOUS
  <1> USE DEF SysMainInit, States, StartTypes
  <1>1. refused \in 0..MaxRefused
    BY RefusedAssumption DEF RefusedAssumption
  <1>2. startType \in StartTypes
    OBVIOUS
  <1>3. QED
    BY <1>1, <1>2 DEF SysMainInv, SysMainTypeOK, Reached, Restored, DisabledForGood, SysMainBack

\* A service that is disabled is not started, and one that stops goes on to.
LEMMA ServiceKeeps ==
    SysMainInv /\ (ServiceMoves \/ Triggered \/ Clock) => SysMainInv'
  <1> SUFFICES ASSUME SysMainInv, ServiceMoves \/ Triggered \/ Clock
               PROVE  SysMainInv'
    OBVIOUS
  <1> USE DEF SysMainInv, SysMainTypeOK, Reached, Restored, DisabledForGood, SysMainBack,
              States, StartTypes, callVars
  <1>1. CASE ServiceMoves
    <2>1. /\ clean' \in BOOLEAN /\ (clean' => clean)
          /\ clean' => service' = "Running" \/ service = "StopPending"
      BY <1>1, Zenon DEF ServiceMoves
    <2>2. /\ \/ service = "StopPending" /\ service' = "Stopped"
             \/ service = "StartPending" /\ service' \in {"Running", "Stopped"}
             \/ service = "Running" /\ service' \in {"StopPending", "Stopped"}
          /\ UNCHANGED <<startType, recordedStart, call, timedOut, result, refused>>
      BY <1>1, Zenon DEF ServiceMoves
    <2>3. SysMainTypeOK' /\ Reached' /\ Restored' /\ DisabledForGood'
      BY <2>1, <2>2
    <2>4. SysMainBack'
      BY <2>1, <2>2
    <2>5. QED
      BY <2>3, <2>4
  <1>2. CASE Triggered
    BY <1>2 DEF Triggered
  <1>3. CASE Clock
    BY <1>3 DEF Clock
  <1>4. QED
    BY <1>1, <1>2, <1>3

\* A refused request ends the call, with success in the steps that take it for an
\* answer: that of the stop that is waited for, and that of the last query, which
\* counts as something in the way.
LEMMA RefusalKeeps == SysMainInv /\ Refuse => SysMainInv'
  <1> SUFFICES ASSUME SysMainInv, Refuse
               PROVE  SysMainInv'
    OBVIOUS
  <1>1. /\ clean' \in BOOLEAN /\ (clean' => call # "restoreQuery")
        /\ UNCHANGED <<service, startType, recordedStart, timedOut>>
        /\ call # "none" /\ call' = "none"
    BY Zenon DEF Refuse
  <1>2. /\ call = "poll" => result' = "disabled"
        /\ call = "restoreQuery" => result' = "restored"
        /\ call \notin {"poll", "restoreQuery"} => result' = "error"
    BY DEF Refuse
  <1>3. refused' \in 0..MaxRefused
    BY RefusedAssumption DEF RefusedAssumption, Refuse, SysMainInv, SysMainTypeOK
  <1>4. QED
    BY <1>1, <1>2, <1>3
    DEF SysMainInv, SysMainTypeOK, Reached, Restored, DisabledForGood, SysMainBack, States,
        StartTypes

LEMMA CallKeeps ==
    ASSUME SysMainInv, NEW which \in {"config", "restoreConfig"}, Call(which)
    PROVE  SysMainInv'
  BY DEF Call, SysMainInv, SysMainTypeOK, Reached, Restored, DisabledForGood, SysMainBack,
         States, StartTypes

LEMMA CallStepsKeep == SysMainInv /\ CallSteps => SysMainInv'
  <1> SUFFICES ASSUME SysMainInv, CallSteps
               PROVE  SysMainInv'
    OBVIOUS
  <1> USE DEF SysMainInv, SysMainTypeOK, Reached, Restored, DisabledForGood, SysMainBack,
              States, StartTypes, Goes, Returns
  <1>1. CASE DisableStart
    BY <1>1 DEF DisableStart
  <1>2. CASE QueryBeforeStop
    BY <1>2 DEF QueryBeforeStop, StopsIn
  <1>3. CASE SendStop
    BY <1>3 DEF SendStop
  <1>4. CASE Poll
    BY <1>4 DEF Poll
  <1>5. CASE RestoreStart
    BY <1>5 DEF RestoreStart, WasRunning
  <1>6. CASE QueryBeforeStart
    BY <1>6 DEF QueryBeforeStart
  <1>7. CASE StartService
    BY <1>7 DEF StartService
  <1>8. QED
    BY <1>1, <1>2, <1>3, <1>4, <1>5, <1>6, <1>7 DEF CallSteps

LEMMA SysMainInductive == SysMainInv /\ [SysMainNext]_sysMainVars => SysMainInv'
  <1> SUFFICES ASSUME SysMainInv, [SysMainNext]_sysMainVars
               PROVE  SysMainInv'
    OBVIOUS
  <1>1. CASE UNCHANGED sysMainVars
    BY <1>1 DEF sysMainVars, callVars, SysMainInv, SysMainTypeOK, Reached, Restored,
                DisabledForGood, SysMainBack
  <1>2. CASE SysMainNext
    BY <1>2, ServiceKeeps, RefusalKeeps, CallKeeps, CallStepsKeep DEF SysMainNext
  <1>3. QED
    BY <1>1, <1>2

\* The variables keep their types (DisableSysMain, RestoreSysMain and the
\* service, memory/sysmain.go).
THEOREM SysMainTypeCorrect == SysMainSpec => []SysMainTypeOK
  <1>1. SysMainInv => SysMainTypeOK
    BY DEF SysMainInv
  <1>2. QED
    BY <1>1, SysMainStart, SysMainInductive, PTL DEF SysMainSpec

\* When DisableSysMain reports success, the service has stopped or is about to,
\* and no trigger can start it: the start type is set before the stop is
\* requested, so that nothing comes in between.
THEOREM StaysDisabled == SysMainSpec => []DisabledForGood
  <1>1. SysMainInv => DisabledForGood
    BY DEF SysMainInv
  <1>2. QED
    BY <1>1, SysMainStart, SysMainInductive, PTL DEF SysMainSpec

\* When RestoreSysMain reports success and nothing came in its way, the start type
\* is that of the baseline, and the service runs or starts unless that was
\* disabled: a start that the manager refuses is an error, never a success.
THEOREM ComesBack == SysMainSpec => []SysMainBack
  <1>1. SysMainInv => SysMainBack
    BY DEF SysMainInv
  <1>2. QED
    BY <1>1, SysMainStart, SysMainInductive, PTL DEF SysMainSpec

-----------------------------------------------------------------------------
(* The services that are frozen *)

\* The services whose remembered id stands for one suspension of the process
\* that has the id: those that have been looked at while services are
\* suspended, all of them in Extreme, those still to be resumed in a restore.
\* The id of any other service is a leftover of a process that was gone when it
\* should have been resumed.
Tracked ==
    CASE doing = "suspend" -> BackgroundServices \ todoServices
      [] doing = "resume" -> todoServices
      [] doing = "nothing" -> IF engaged = "Extreme" THEN BackgroundServices ELSE {}

Mark(s, p) == IF s \in Tracked /\ suspendedPIDs[s] = p THEN 1 ELSE 0
Marks(p) == Mark("DiagTrack", p) + Mark("wuauserv", p)

\* A mode function suspends in Extreme and resumes in Safe Default only.
EngagedInv ==
    /\ doing = "suspend" => engaged = "Extreme"
    /\ doing = "resume" => engaged = "SafeDefault"

\* A process has been suspended no more often than its id is remembered for; and
\* Extreme ends with the flag set, so that a restore resumes.
TrackedInv ==
    ~lost =>
        /\ \A p \in HostIds : count[p] <= Marks(p)
        /\ doing = "nothing" /\ engaged = "Extreme" => flag

GoneInv == \A p \in HostIds \ alive : count[p] = 0

SuspenderInv == SuspenderTypeOK /\ EngagedInv /\ TrackedInv /\ GoneInv

-----------------------------------------------------------------------------
(* Two services *)

LEMMA MarksType == \A p : Marks(p) \in Nat
  BY DEF Marks, Mark

LEMMA MarksCount ==
    ASSUME NEW p
    PROVE  Marks(p) <= Cardinality({s \in BackgroundServices : suspendedPIDs[s] = p})
  <1> DEFINE holders == {s \in BackgroundServices : suspendedPIDs[s] = p}
  <1>1. \/ holders = {}
        \/ holders = {"DiagTrack"}
        \/ holders = {"wuauserv"}
        \/ holders = {"DiagTrack", "wuauserv"}
    BY DEF BackgroundServices
  <1>2. Cardinality({"DiagTrack"}) = 1 /\ Cardinality({"wuauserv"}) = 1 /\ Cardinality({}) = 0
    BY FS_Singleton, FS_EmptySet
  <1>3. Cardinality({"DiagTrack", "wuauserv"}) = 2
    <2>1. IsFiniteSet({"DiagTrack"}) /\ {"DiagTrack"} \cup {"wuauserv"} = {"DiagTrack", "wuauserv"}
      BY FS_Singleton
    <2>2. Cardinality({"DiagTrack"} \cup {"wuauserv"}) = 2
      BY <1>2, <2>1, FS_AddElement
    <2>3. QED
      BY <2>1, <2>2
  <1>4. /\ "DiagTrack" \notin holders => Mark("DiagTrack", p) = 0
        /\ "wuauserv" \notin holders => Mark("wuauserv", p) = 0
        /\ Mark("DiagTrack", p) \in 0..1 /\ Mark("wuauserv", p) \in 0..1
    BY DEF Mark, BackgroundServices
  <1> HIDE DEF holders
  <1>5. Marks(p) <= Cardinality(holders)
    BY <1>1, <1>2, <1>3, <1>4 DEF Marks
  <1>6. QED
    BY <1>5 DEF holders

\* No id is remembered for more services than before: no process loses a mark.
LEMMA MarksKept ==
    ASSUME NEW p, Tracked \subseteq Tracked',
           \A s \in Tracked : suspendedPIDs'[s] = suspendedPIDs[s]
    PROVE  Marks(p) <= Marks(p)'
  <1>1. ASSUME NEW s
        PROVE  Mark(s, p) <= Mark(s, p)' /\ Mark(s, p) \in 0..1 /\ Mark(s, p)' \in 0..1
    BY DEF Mark
  <1>2. QED
    BY <1>1 DEF Marks

-----------------------------------------------------------------------------
(* The steps *)

LEMMA SuspenderStart == SuspenderInit => SuspenderInv
  <1> SUFFICES ASSUME SuspenderInit
               PROVE  SuspenderInv
    OBVIOUS
  <1>1. 0 \in 0..MaxHosts /\ 0 \in 0..MaxDenied /\ 0 \in 0..MaxCount
    BY SuspenderAssumption DEF SuspenderAssumption
  <1>2. SuspenderTypeOK
    BY <1>1 DEF SuspenderInit, SuspenderTypeOK
  <1>3. \A p \in HostIds : count[p] <= Marks(p)
    BY MarksType DEF SuspenderInit
  <1>4. QED
    BY <1>2, <1>3 DEF SuspenderInit, SuspenderInv, EngagedInv, TrackedInv, GoneInv

\* A call that fails is counted, and what is frozen may be lost from then on.
LEMMA DeniedType ==
    ASSUME SuspenderTypeOK, Denied \/ UNCHANGED <<lost, denied>>
    PROVE  denied' \in 0..MaxDenied /\ lost' \in BOOLEAN /\ (~lost' => ~lost)
  <1>1. denied' \in 0..MaxDenied
    BY SuspenderAssumption DEF SuspenderTypeOK, Denied, SuspenderAssumption
  <1>2. lost' \in BOOLEAN /\ (~lost' => ~lost)
    BY Zenon DEF SuspenderTypeOK, Denied
  <1>3. QED
    BY <1>1, <1>2

\* Processes start without being frozen and take their suspensions with them.
LEMMA ProcessesKeep ==
    ASSUME SuspenderInv,
           \/ \E p \in HostIds : StartHost(p) \/ ExitHost(p)
           \/ \E s, other \in BackgroundServices : ShareHost(s, other)
    PROVE  SuspenderInv'
  <1>1. SuspenderTypeOK /\ EngagedInv /\ TrackedInv /\ GoneInv
    BY DEF SuspenderInv
  <1>2. UNCHANGED <<engaged, doing, todoServices, servicePID, suspendedPIDs, flag, lost, denied>>
    BY DEF StartHost, ExitHost, ShareHost
  <1>3. count' \in [HostIds -> 0..MaxCount] /\ \A p \in HostIds : count'[p] <= count[p]
    <2>1. \/ UNCHANGED count
          \/ \E p \in HostIds : count' = [count EXCEPT ![p] = 0]
      BY DEF StartHost, ExitHost, ShareHost
    <2>2. 0 \in 0..MaxCount /\ \A n \in 0..MaxCount : n \in Nat /\ 0 <= n /\ n <= n
      BY SuspenderAssumption DEF SuspenderAssumption
    <2>3. QED
      BY <1>1, <2>1, <2>2 DEF SuspenderTypeOK
  <1>4. SuspenderTypeOK' /\ GoneInv'
    <2>1. CASE \E p \in HostIds : StartHost(p)
      <3>1. PICK p \in HostIds : StartHost(p)
        BY <2>1
      <3>2. hostsStarted' \in 0..MaxHosts
        BY <1>1, <3>1, SuspenderAssumption DEF StartHost, SuspenderTypeOK, SuspenderAssumption
      <3>3. alive' = alive \cup {p} /\ host' \in [BackgroundServices -> alive' \cup {0}]
        BY <1>1, <3>1 DEF StartHost, SuspenderTypeOK
      <3>4. UNCHANGED count
        BY <3>1 DEF StartHost
      <3>5. QED
        BY <1>1, <1>2, <1>3, <3>2, <3>3, <3>4 DEF SuspenderTypeOK, GoneInv
    <2>2. CASE \E p \in HostIds : ExitHost(p)
      <3>1. PICK p \in HostIds : ExitHost(p)
        BY <2>2
      <3>2. /\ alive' = alive \ {p} /\ host' \in [BackgroundServices -> alive' \cup {0}]
            /\ UNCHANGED hostsStarted
        BY <1>1, <3>1 DEF ExitHost, SuspenderTypeOK
      <3>3. \A q \in HostIds : count'[q] = IF q = p THEN 0 ELSE count[q]
        BY <1>1, <3>1 DEF ExitHost, SuspenderTypeOK
      <3>4. QED
        BY <1>1, <1>2, <1>3, <3>2, <3>3 DEF SuspenderTypeOK, GoneInv
    <2>3. CASE \E s, other \in BackgroundServices : ShareHost(s, other)
      <3>1. /\ UNCHANGED <<alive, count, hostsStarted>>
            /\ host' \in [BackgroundServices -> alive \cup {0}]
        BY <1>1, <2>3 DEF ShareHost, SuspenderTypeOK
      <3>2. QED
        BY <1>1, <1>2, <3>1 DEF SuspenderTypeOK, GoneInv
    <2>4. QED
      BY <2>1, <2>2, <2>3
  <1>5. EngagedInv' /\ TrackedInv'
    <2>1. \A p : Marks(p)' = Marks(p)
      BY <1>2 DEF Marks, Mark, Tracked
    <2>2. ASSUME NEW p \in HostIds, count[p] <= Marks(p)
          PROVE  count'[p] <= Marks(p)
      <3>1. count'[p] <= count[p] /\ count'[p] \in Nat /\ count[p] \in Nat
        BY <1>1, <1>3, SuspenderAssumption DEF SuspenderTypeOK, SuspenderAssumption
      <3>2. Marks(p) \in Nat
        BY MarksType
      <3>3. QED
        BY <2>2, <3>1, <3>2
    <2>3. QED
      BY <1>1, <1>2, <2>1, <2>2 DEF EngagedInv, TrackedInv
  <1>6. QED
    BY <1>4, <1>5 DEF SuspenderInv

\* A step that leaves the processes and the remembered ids alone and stops
\* tracking no service keeps the marks.
LEMMA StillTracked ==
    ASSUME SuspenderTypeOK, \A p \in HostIds : count[p] <= Marks(p),
           UNCHANGED <<count, suspendedPIDs>>, Tracked \subseteq Tracked'
    PROVE  \A p \in HostIds : count'[p] <= Marks(p)'
  <1>1. SUFFICES ASSUME NEW p \in HostIds
                 PROVE  count[p] <= Marks(p)'
    OBVIOUS
  <1>2. Marks(p) <= Marks(p)'
    BY MarksKept
  <1>3. count[p] \in Nat
    BY SuspenderAssumption DEF SuspenderTypeOK, SuspenderAssumption
  <1>4. Marks(p) \in Nat /\ Marks(p)' \in Nat
    BY MarksType DEF Marks, Mark
  <1>5. QED
    BY <1>2, <1>3, <1>4

LEMMA EngageKeeps ==
    ASSUME SuspenderInv, EngageExtreme \/ EngageBalanced \/ EngageRestore
    PROVE  SuspenderInv'
  <1> USE DEF processVars
  <1>1. SuspenderTypeOK /\ EngagedInv /\ TrackedInv /\ GoneInv
    BY DEF SuspenderInv
  <1>2. /\ doing = "nothing" /\ UNCHANGED <<processVars, servicePID, suspendedPIDs>>
        /\ Denied \/ UNCHANGED denied
    BY DEF EngageExtreme, EngageBalanced, EngageRestore
  <1>3. denied' \in 0..MaxDenied
    BY <1>1, <1>2, SuspenderAssumption DEF SuspenderTypeOK, Denied, SuspenderAssumption
  <1>4. SuspenderTypeOK'
    <2>1. lost' \in BOOLEAN /\ flag' \in BOOLEAN
      BY <1>1 DEF EngageExtreme, EngageBalanced, EngageRestore, SuspenderTypeOK, Denied
    <2>2. /\ engaged' \in {"SafeDefault", "Balanced", "Extreme"}
          /\ doing' \in {"nothing", "suspend", "resume"}
          /\ todoServices' \subseteq BackgroundServices
      BY <1>1 DEF EngageExtreme, EngageBalanced, EngageRestore, SuspenderTypeOK, Remembered
    <2>3. QED
      BY <1>1, <1>2, <1>3, <2>1, <2>2 DEF SuspenderTypeOK
  <1>5. EngagedInv' /\ GoneInv'
    BY <1>1, <1>2 DEF EngageExtreme, EngageBalanced, EngageRestore, EngagedInv, GoneInv
  <1>6. TrackedInv'
    <2>1. SUFFICES ASSUME ~lost'
                   PROVE  TrackedInv'
      BY DEF TrackedInv
    <2>2. ~lost
      BY <2>1 DEF EngageExtreme, EngageBalanced, EngageRestore, Denied
    <2>3. \A p \in HostIds : count[p] <= Marks(p)
      BY <1>1, <2>2 DEF TrackedInv
    <2>4. CASE EngageExtreme
      <3>1. engaged # "Extreme" /\ doing' = "suspend" /\ todoServices' = BackgroundServices
        BY <2>1, <2>4 DEF EngageExtreme, Denied
      <3>2. Tracked = {}
        BY <1>2, <3>1 DEF Tracked
      <3>3. QED
        BY <1>1, <1>2, <2>3, <3>1, <3>2, StillTracked DEF TrackedInv
    <2>5. CASE EngageBalanced
      <3>1. engaged # "Extreme" /\ UNCHANGED doing /\ engaged' = "Balanced"
        BY <1>1, <1>2, <2>1, <2>2, <2>5 DEF EngageBalanced, TrackedInv
      <3>2. Tracked = {}
        BY <1>2, <3>1 DEF Tracked
      <3>3. QED
        BY <1>1, <1>2, <2>3, <3>1, <3>2, StillTracked DEF TrackedInv
    <2>6. CASE EngageRestore /\ ~flag
      <3>1. engaged # "Extreme" /\ engaged' = "SafeDefault"
        BY <1>1, <1>2, <2>2, <2>6 DEF EngageRestore, TrackedInv
      <3>2. Tracked = {}
        BY <1>2, <3>1 DEF Tracked
      <3>3. QED
        BY <1>1, <1>2, <2>3, <3>1, <3>2, StillTracked DEF TrackedInv
    <2>7. CASE EngageRestore /\ flag
      <3>1. doing' = "resume" /\ engaged' = "SafeDefault" /\ todoServices' = Remembered
        BY <2>7 DEF EngageRestore
      <3>2. ASSUME NEW p \in HostIds
            PROVE  count'[p] <= Marks(p)'
        <4>1. p # 0
          BY SuspenderAssumption DEF SuspenderAssumption
        <4>2. \A s \in BackgroundServices : suspendedPIDs[s] = p => s \in Tracked'
          BY <3>1, <4>1 DEF Tracked, Remembered
        <4>3. Tracked \subseteq BackgroundServices
          BY <1>2 DEF Tracked
        <4>4. Marks(p) <= Marks(p)' /\ Marks(p) \in Nat /\ Marks(p)' \in Nat
          <5>1. \A s : Mark(s, p) <= Mark(s, p)' /\ Mark(s, p) \in 0..1 /\ Mark(s, p)' \in 0..1
            BY <1>2, <4>2, <4>3 DEF Mark
          <5>2. QED
            BY <5>1 DEF Marks
        <4>5. count[p] <= Marks(p) /\ count'[p] = count[p] /\ count[p] \in Nat
          BY <1>1, <1>2, <2>3, SuspenderAssumption DEF SuspenderTypeOK, SuspenderAssumption
        <4>6. QED
          BY <4>4, <4>5
      <3>3. QED
        BY <3>1, <3>2 DEF TrackedInv
    <2>8. QED
      BY <2>4, <2>5, <2>6, <2>7
  <1>7. QED
    BY <1>4, <1>5, <1>6 DEF SuspenderInv

LEMMA QueryKeeps ==
    ASSUME SuspenderInv, NEW s \in BackgroundServices, QueryPID(s)
    PROVE  SuspenderInv'
  <1> USE DEF processVars
  <1>1. SuspenderTypeOK /\ EngagedInv /\ TrackedInv /\ GoneInv
    BY DEF SuspenderInv
  <1>2. /\ doing = "suspend" /\ servicePID' \in {host[s], 0}
        /\ Denied \/ UNCHANGED <<lost, denied>>
        /\ todoServices' \subseteq todoServices
        /\ UNCHANGED <<processVars, engaged, doing, suspendedPIDs, flag>>
    BY DEF QueryPID
  <1>3. denied' \in 0..MaxDenied /\ lost' \in BOOLEAN /\ (~lost' => ~lost)
    BY <1>1, <1>2, DeniedType
  <1>4. SuspenderTypeOK'
    BY <1>1, <1>2, <1>3 DEF SuspenderTypeOK
  <1>5. Tracked \subseteq Tracked'
    BY <1>2 DEF Tracked
  <1>6. QED
    BY <1>1, <1>2, <1>3, <1>4, <1>5, StillTracked
    DEF SuspenderInv, EngagedInv, TrackedInv, GoneInv

\* The process that was suspended gets a mark more, or is the one that is marked.
LEMMA SuspendKeeps ==
    ASSUME SuspenderInv, NEW s \in BackgroundServices, SuspendPID(s)
    PROVE  SuspenderInv'
  <1>1. SuspenderTypeOK /\ EngagedInv /\ TrackedInv /\ GoneInv
    BY DEF SuspenderInv
  <1> DEFINE q == servicePID
  <1>2. /\ doing = "suspend" /\ q # 0 /\ s \in todoServices
        /\ servicePID' = 0 /\ todoServices' = todoServices \ {s}
        /\ UNCHANGED <<alive, host, hostsStarted, engaged, doing, flag>>
        /\ Denied \/ UNCHANGED <<lost, denied>>
    BY DEF SuspendPID, Current
  <1>3. \/ /\ q \in alive /\ count[q] < MaxCount
           /\ count' = [count EXCEPT ![q] = @ + 1]
           /\ suspendedPIDs' = [suspendedPIDs EXCEPT ![s] = q]
        \/ UNCHANGED <<count, suspendedPIDs>>
    BY DEF SuspendPID, Remember
  <1>4. denied' \in 0..MaxDenied /\ lost' \in BOOLEAN /\ (~lost' => ~lost)
    BY <1>1, <1>2, DeniedType
  <1>5. q \in HostIds
    BY <1>1, <1>2 DEF SuspenderTypeOK
  <1>6. /\ count' \in [HostIds -> 0..MaxCount]
        /\ suspendedPIDs' \in [BackgroundServices -> HostIds \cup {0}]
    <2>1. count[q] \in 0..MaxCount /\ (count[q] < MaxCount => count[q] + 1 \in 0..MaxCount)
      BY <1>1, <1>5, SuspenderAssumption DEF SuspenderTypeOK, SuspenderAssumption
    <2>2. QED
      BY <1>1, <1>3, <1>5, <2>1 DEF SuspenderTypeOK
  <1>7. SuspenderTypeOK'
    BY <1>1, <1>2, <1>4, <1>6 DEF SuspenderTypeOK
  <1>8. EngagedInv' /\ GoneInv'
    BY <1>1, <1>2, <1>3 DEF EngagedInv, GoneInv, SuspenderTypeOK
  <1>9. Tracked' = Tracked \cup {s} /\ s \notin Tracked
    BY <1>2 DEF Tracked
  <1>10. TrackedInv'
    <2>1. SUFFICES ASSUME ~lost', NEW p \in HostIds
                   PROVE  count'[p] <= Marks(p)'
      BY <1>2 DEF TrackedInv
    <2>2. count[p] <= Marks(p) /\ count[p] \in Nat /\ Marks(p) \in Nat
      BY <1>1, <1>4, <2>1, MarksType, SuspenderAssumption
      DEF TrackedInv, SuspenderTypeOK, SuspenderAssumption
    <2>3. CASE UNCHANGED <<count, suspendedPIDs>>
      BY <1>1, <1>4, <1>9, <2>1, <2>3, StillTracked DEF TrackedInv
    <2>4. CASE /\ q \in alive
               /\ count' = [count EXCEPT ![q] = @ + 1]
               /\ suspendedPIDs' = [suspendedPIDs EXCEPT ![s] = q]
      <3>1. count'[p] = IF p = q THEN count[p] + 1 ELSE count[p]
        BY <1>1, <2>4 DEF SuspenderTypeOK
      <3>2. \A r \in BackgroundServices :
               suspendedPIDs'[r] = IF r = s THEN q ELSE suspendedPIDs[r]
        BY <1>1, <2>4 DEF SuspenderTypeOK
      <3>3. ASSUME NEW r \in BackgroundServices
            PROVE  Mark(r, p)' = IF r = s /\ p = q THEN 1 ELSE IF r = s THEN 0 ELSE Mark(r, p)
        BY <1>9, <3>2 DEF Mark
      <3>4. Mark(s, p) = 0
        BY <1>9 DEF Mark
      <3>5. \A r : Mark(r, p) \in 0..1
        BY DEF Mark
      <3>6. Marks(p)' = IF p = q THEN Marks(p) + 1 ELSE Marks(p)
        <4>1. s = "DiagTrack" \/ s = "wuauserv"
          BY DEF BackgroundServices
        <4>2. "DiagTrack" \in BackgroundServices /\ "wuauserv" \in BackgroundServices
          BY DEF BackgroundServices
        <4>3. Marks(p)' = Mark("DiagTrack", p)' + Mark("wuauserv", p)'
          BY DEF Marks
        <4>4. QED
          BY <3>3, <3>4, <3>5, <4>1, <4>2, <4>3 DEF Marks
      <3>7. QED
        BY <2>2, <3>1, <3>6
    <2>5. QED
      BY <1>3, <2>3, <2>4
  <1>11. QED
    BY <1>7, <1>8, <1>10 DEF SuspenderInv

\* The process that is resumed loses the mark; one that is gone had none to lose.
LEMMA ResumeKeeps ==
    ASSUME SuspenderInv, NEW s \in BackgroundServices, ResumePID(s)
    PROVE  SuspenderInv'
  <1>1. SuspenderTypeOK /\ EngagedInv /\ TrackedInv /\ GoneInv
    BY DEF SuspenderInv
  <1> DEFINE q == suspendedPIDs[s]
  <1>2. /\ doing = "resume" /\ s \in todoServices
        /\ todoServices' = todoServices \ {s}
        /\ UNCHANGED <<alive, host, hostsStarted, engaged, doing, servicePID, flag>>
        /\ Denied \/ UNCHANGED <<lost, denied>>
    BY DEF ResumePID
  <1>3. \/ /\ q \in alive
           /\ count' = [count EXCEPT ![q] = Minus1(@)]
           /\ suspendedPIDs' = [suspendedPIDs EXCEPT ![s] = 0]
        \/ UNCHANGED <<count, suspendedPIDs>> /\ (q \notin alive \/ Denied)
    BY DEF ResumePID
  <1>4. denied' \in 0..MaxDenied /\ lost' \in BOOLEAN /\ (~lost' => ~lost)
    BY <1>1, <1>2, DeniedType
  <1>5. \A n \in 0..MaxCount : Minus1(n) \in 0..MaxCount
    BY SuspenderAssumption DEF Minus1, SuspenderAssumption
  <1>6. /\ count' \in [HostIds -> 0..MaxCount]
        /\ suspendedPIDs' \in [BackgroundServices -> HostIds \cup {0}]
    BY <1>1, <1>3, <1>5 DEF SuspenderTypeOK
  <1>7. SuspenderTypeOK'
    BY <1>1, <1>2, <1>4, <1>6 DEF SuspenderTypeOK
  <1>8. EngagedInv' /\ GoneInv'
    BY <1>1, <1>2, <1>3 DEF EngagedInv, GoneInv, SuspenderTypeOK
  <1>9. Tracked' = Tracked \ {s} /\ s \in Tracked
    BY <1>2 DEF Tracked
  <1>10. TrackedInv'
    <2>1. SUFFICES ASSUME ~lost', NEW p \in HostIds
                   PROVE  count'[p] <= Marks(p)'
      BY <1>2 DEF TrackedInv
    <2>2. count[p] <= Marks(p) /\ count[p] \in Nat /\ Marks(p) \in Nat
      BY <1>1, <1>4, <2>1, MarksType, SuspenderAssumption
      DEF TrackedInv, SuspenderTypeOK, SuspenderAssumption
    <2>3. ASSUME NEW r \in BackgroundServices
          PROVE  Mark(r, p)' = IF r = s THEN 0 ELSE Mark(r, p)
      BY <1>1, <1>3, <1>9 DEF Mark, SuspenderTypeOK
    <2>4. Mark(s, p) = IF p = q THEN 1 ELSE 0
      BY <1>9 DEF Mark
    <2>5. \A r : Mark(r, p) \in 0..1
      BY DEF Mark
    <2>6. Marks(p)' = IF p = q THEN Marks(p) - 1 ELSE Marks(p)
      <3>1. s = "DiagTrack" \/ s = "wuauserv"
        BY DEF BackgroundServices
      <3>2. "DiagTrack" \in BackgroundServices /\ "wuauserv" \in BackgroundServices
        BY DEF BackgroundServices
      <3>3. Marks(p)' = Mark("DiagTrack", p)' + Mark("wuauserv", p)'
        BY DEF Marks
      <3>4. QED
        BY <2>3, <2>4, <2>5, <3>1, <3>2, <3>3 DEF Marks
    <2>7. Marks(p)' \in Nat
      <3>1. p = q => Marks(p) >= 1
        <4>1. s = "DiagTrack" \/ s = "wuauserv"
          BY DEF BackgroundServices
        <4>2. QED
          BY <2>4, <2>5, <4>1 DEF Marks
      <3>2. QED
        BY <2>2, <2>6, <3>1
    <2>8. CASE /\ q \in alive
               /\ count' = [count EXCEPT ![q] = Minus1(@)]
      <3>1. count'[p] = IF p = q THEN Minus1(count[p]) ELSE count[p]
        BY <1>1, <2>8 DEF SuspenderTypeOK
      <3>2. QED
        BY <2>2, <2>6, <2>7, <3>1 DEF Minus1
    <2>9. CASE UNCHANGED <<count, suspendedPIDs>> /\ (q \notin alive \/ Denied)
      <3>1. q \notin alive
        BY <2>1, <2>9 DEF Denied
      <3>2. p = q => count[p] = 0
        BY <1>1, <3>1 DEF GoneInv
      <3>3. QED
        BY <2>2, <2>6, <2>7, <2>9, <3>2
    <2>10. QED
      BY <1>3, <2>8, <2>9
  <1>11. QED
    BY <1>7, <1>8, <1>10 DEF SuspenderInv

LEMMA DoneKeeps ==
    ASSUME SuspenderInv, Suspended \/ Resumed \/ UNCHANGED suspenderVars
    PROVE  SuspenderInv'
  <1> USE DEF processVars, suspenderVars
  <1>1. SuspenderTypeOK /\ EngagedInv /\ TrackedInv /\ GoneInv
    BY DEF SuspenderInv
  <1>2. UNCHANGED <<processVars, engaged, todoServices, servicePID, suspendedPIDs, lost, denied>>
    BY DEF Suspended, Resumed
  <1>3. SuspenderTypeOK' /\ EngagedInv' /\ GoneInv'
    BY <1>1, <1>2 DEF Suspended, Resumed, SuspenderTypeOK, EngagedInv, GoneInv
  <1>4. Tracked \subseteq Tracked'
    BY <1>1, <1>2 DEF Suspended, Resumed, Tracked, EngagedInv
  <1>5. doing' = "nothing" /\ engaged' = "Extreme" /\ ~lost' => flag'
    BY <1>1, <1>2 DEF Suspended, Resumed, EngagedInv, TrackedInv
  <1>6. QED
    BY <1>1, <1>2, <1>3, <1>4, <1>5, StillTracked DEF SuspenderInv, TrackedInv

LEMMA SuspenderInductive == SuspenderInv /\ [SuspenderNext]_suspenderVars => SuspenderInv'
  BY ProcessesKeep, EngageKeeps, QueryKeeps, SuspendKeeps, ResumeKeeps, DoneKeeps
  DEF SuspenderNext

LEMMA SuspenderAlways == SuspenderSpec => []SuspenderInv
  BY SuspenderStart, SuspenderInductive, PTL DEF SuspenderSpec

-----------------------------------------------------------------------------
(* The theorems *)

\* The ids, the counts and what is remembered stay in their ranges.
THEOREM SuspenderTypeCorrect == SuspenderSpec => []SuspenderTypeOK
  <1>1. SuspenderInv => SuspenderTypeOK
    BY DEF SuspenderInv
  <1>2. QED
    BY <1>1, SuspenderAlways, PTL

LEMMA FrozenRemembered == SuspenderInv => FrozenIsRemembered
  <1>1. SUFFICES ASSUME SuspenderInv, ~lost, NEW p \in alive
                 PROVE  count[p] <= Cardinality({s \in BackgroundServices : suspendedPIDs[s] = p})
    BY DEF FrozenIsRemembered
  <1>2. p \in HostIds /\ count[p] \in Nat /\ count[p] <= Marks(p)
    BY <1>1, SuspenderAssumption
    DEF SuspenderInv, SuspenderTypeOK, TrackedInv, SuspenderAssumption
  <1>3. Cardinality({s \in BackgroundServices : suspendedPIDs[s] = p}) \in Nat
    <2>1. IsFiniteSet(BackgroundServices)
      <3>1. BackgroundServices = {"DiagTrack"} \cup {"wuauserv"}
        BY DEF BackgroundServices
      <3>2. QED
        BY <3>1, FS_Singleton, FS_AddElement
    <2>2. IsFiniteSet({s \in BackgroundServices : suspendedPIDs[s] = p})
      BY <2>1, FS_Subset
    <2>3. QED
      BY <2>2, FS_CardinalityType
  <1>4. QED
    BY <1>2, <1>3, MarksType, MarksCount

\* The id of every frozen process is remembered, as often as it was suspended
\* (SuspendBackgroundServices remembers an id after it has suspended the process).
THEOREM FrozenCanBeFound == SuspenderSpec => []FrozenIsRemembered
  BY FrozenRemembered, SuspenderAlways, PTL

LEMMA AllThawed == SuspenderInv => ThawedAfterRestore
  <1>1. SUFFICES ASSUME SuspenderInv, doing = "nothing", engaged = "SafeDefault", ~lost,
                        NEW p \in alive
                 PROVE  count[p] = 0
    BY DEF ThawedAfterRestore
  <1>2. count[p] \in Nat /\ count[p] <= Marks(p)
    BY <1>1, SuspenderAssumption
    DEF SuspenderInv, SuspenderTypeOK, TrackedInv, SuspenderAssumption
  <1>3. Marks(p) = 0
    <2>1. Tracked = {}
      BY <1>1 DEF Tracked
    <2>2. QED
      BY <2>1 DEF Marks, Mark
  <1>4. QED
    BY <1>2, <1>3

\* After a restore that follows Extreme directly no process is left frozen
\* (ResumeBackgroundServices resumes every remembered id), however processes exit
\* and others take their ids, unless a call failed.
THEOREM NothingStaysFrozen == SuspenderSpec => []ThawedAfterRestore
  BY AllThawed, SuspenderAlways, PTL

-----------------------------------------------------------------------------
(* The power plan *)

\* From when the mode function has found a target until the last loop that is
\* to defend it is cancelled.
Aimed == enabling = "target" \/ Started \ lockCancelled # {}

\* The plan aimed at is one that was active; the active one is, too.
AimInv ==
    /\ active \in wasActive
    /\ Aimed => ActiveTargetScheme \in wasActive

PlanInv == PlanTypeOK /\ AimInv

LEMMA PlanStart == PlanInit => PlanInv
  <1> SUFFICES ASSUME PlanInit
               PROVE  PlanInv
    OBVIOUS
  <1>1. PlanTypeOK
    <2>1. installed \subseteq Plans
      BY DEF PlanInit
    <2>2. QED
      BY <2>1, PlansAssumption, PlanEventsAssumption
      DEF PlanInit, PlanTypeOK, PlansAssumption, PlanEventsAssumption
  <1>2. AimInv
    BY DEF PlanInit, AimInv, Aimed, Started
  <1>3. QED
    BY <1>1, <1>2 DEF PlanInv

\* The bound on events is kept.
LEMMA EventType ==
    ASSUME planEvents \in 0..MaxPlanEvents, PlanEvent
    PROVE  planEvents' \in 0..MaxPlanEvents
  BY PlanEventsAssumption DEF PlanEvent, PlanEventsAssumption

LEMMA UserKeeps ==
    ASSUME PlanInv, NEW plan \in Plans, UserActivates(plan) \/ UserDeletes(plan)
    PROVE  PlanInv'
  <1>1. planEvents' \in 0..MaxPlanEvents
    BY EventType DEF PlanInv, PlanTypeOK, UserActivates, UserDeletes
  <1>2. CASE UserActivates(plan)
    BY <1>1, <1>2
    DEF UserActivates, Activates, PlanInv, PlanTypeOK, AimInv, Aimed, Started
  <1>3. CASE UserDeletes(plan)
    BY <1>1, <1>3 DEF UserDeletes, PlanInv, PlanTypeOK, AimInv, Aimed, Started
  <1>4. QED
    BY <1>2, <1>3

\* A mode is left with all its loops cancelled, so that the next target is free
\* to be anything until it has been activated.
LEMMA SwitchKeeps ==
    ASSUME PlanInv, SwitchMode \/ RestorePlan \/ CallFails
    PROVE  PlanInv'
  <1>1. planEvents' \in 0..MaxPlanEvents
    BY EventType DEF PlanInv, PlanTypeOK, SwitchMode, RestorePlan, CallFails
  <1>2. CASE SwitchMode
    BY <1>1, <1>2 DEF SwitchMode, PlanInv, PlanTypeOK, AimInv, Aimed, Started
  <1>3. CASE RestorePlan
    BY <1>1, <1>3
    DEF RestorePlan, Activates, PlanInv, PlanTypeOK, AimInv, Aimed, Started
  <1>4. CASE CallFails
    <2>1. CASE /\ enabling \in {"restore", "ultimate", "high", "active"}
               /\ enabling' = AfterFailure[enabling]
               /\ UNCHANGED lock
      <3>1. enabling' \in {"no", "high", "active"}
        BY <2>1 DEF AfterFailure
      <3>2. QED
        BY <1>1, <1>4, <2>1, <3>1
        DEF CallFails, PlanInv, PlanTypeOK, AimInv, Aimed, Started
    <2>2. CASE \E t \in LockTickers :
                  /\ lock[t] = "set"
                  /\ lock' = [lock EXCEPT ![t] = "select"]
                  /\ UNCHANGED enabling
      BY <1>1, <1>4, <2>2 DEF CallFails, PlanInv, PlanTypeOK, AimInv, Aimed, Started
    <2>3. QED
      BY <1>4, <2>1, <2>2 DEF CallFails
  <1>5. QED
    BY <1>2, <1>3, <1>4

LEMMA EnableKeeps ==
    ASSUME PlanInv, TryUltimate \/ TryHigh \/ KeepActive
    PROVE  PlanInv'
  <1> USE DEF PlanInv, PlanTypeOK, AimInv, Aimed, Started
  <1>1. CASE TryUltimate
    BY <1>1, PlansAssumption DEF PlansAssumption, TryUltimate, SetActive, Activates
  <1>2. CASE TryHigh
    BY <1>2, PlansAssumption DEF PlansAssumption, TryHigh, SetActive, Activates
  <1>3. CASE KeepActive
    BY <1>3 DEF KeepActive, Fallback
  <1>4. QED
    BY <1>1, <1>2, <1>3

LEMMA LoopKeeps ==
    ASSUME PlanInv, NEW t \in LockTickers, StartPowerLockTicker(t) \/ LoopStep(t)
    PROVE  PlanInv'
  <1> USE DEF PlanInv, PlanTypeOK, AimInv, Aimed, Started
  <1>1. CASE StartPowerLockTicker(t)
    BY <1>1 DEF StartPowerLockTicker
  <1>2. CASE Tick(t)
    BY <1>2 DEF Tick
  <1>3. CASE Compare(t)
    BY <1>3 DEF Compare
  <1>4. CASE Aim(t)
    BY <1>4 DEF Aim
  <1>5. CASE Enforce(t)
    BY <1>5 DEF Enforce, Activates
  <1>6. CASE Stop(t)
    BY <1>6 DEF Stop
  <1>7. QED
    BY <1>1, <1>2, <1>3, <1>4, <1>5, <1>6 DEF LoopStep

LEMMA PlanInductive == PlanInv /\ [PlanNext]_planVars => PlanInv'
  <1> SUFFICES ASSUME PlanInv, [PlanNext]_planVars
               PROVE  PlanInv'
    OBVIOUS
  <1>1. CASE UNCHANGED planVars
    BY <1>1 DEF planVars, PlanInv, PlanTypeOK, AimInv, Aimed, Started
  <1>2. CASE PlanNext
    BY <1>2, UserKeeps, SwitchKeeps, EnableKeeps, LoopKeeps DEF PlanNext
  <1>3. QED
    BY <1>1, <1>2

\* The variables keep their types (syswatch/power.go).
THEOREM PlanTypeCorrect == PlanSpec => []PlanTypeOK
  <1>1. PlanInv => PlanTypeOK
    BY DEF PlanInv
  <1>2. QED
    BY <1>1, PlanStart, PlanInductive, PTL DEF PlanSpec

\* Whatever plans there are, whatever fails and however late a cancelled loop
\* comes, a loop that is not cancelled aims at a plan that was active.
THEOREM TargetsAreReal == PlanSpec => []TargetWasActive
  <1>1. PlanInv => TargetWasActive
    BY DEF PlanInv, AimInv, Aimed, TargetWasActive, Locked
  <1>2. QED
    BY <1>1, PlanStart, PlanInductive, PTL DEF PlanSpec
=============================================================================
