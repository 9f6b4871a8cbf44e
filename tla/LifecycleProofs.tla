---------------------------- MODULE LifecycleProofs ----------------------------
(***************************************************************************)
(* Theorems about ApplyTotalRestore, for any number of clicks, whatever    *)
(* modes ran before it: first in Orchestrator, in one process, and then in *)
(* Lifecycle, where the process ends and is launched again as often as it  *)
(* may, with the backup that the first of them wrote.                      *)
(***************************************************************************)
EXTENDS Lifecycle, OrchestratorProofs

\* What a step of a restore takes back for certain if the snapshot is pristine.
Own(step) ==
    CASE step = "Baseline"     -> {"CoreParking", "PrioritySeparation", "GamesTask", "PowerPlan",
                                   "TCPNoDelay", "TcpParameters", "MSI", "Peripherals", "Paging"}
      [] step = "NetInterface" -> {"TcpParameters", "Offloads", "AdapterClass"}
      [] step = "InputLatency" -> {"InputSettings", "GameDVRPolicy"}
      [] OTHER                 -> {step} \cap (Tweaks \ {"CoreParking"})

\* The steps that a restore has still to take, and the tweaks they take back.
Ahead(s) == {s[i] : i \in 1..Len(s)}
Reverting(s) == UNION {Own(step) : step \in Ahead(s)}

\* The tweaks that the snapshot covers and a step of their own takes back again.
Twice == {"MSI", "Peripherals", "PrioritySeparation", "GamesTask", "TcpParameters"}

\* What a restore with the steps s ahead has not taken back yet, they take back.
\* After one failure at most this holds for the tweaks taken back twice: before
\* the snapshot is written their own step is ahead, afterwards they are gone.
Recovers(s) ==
    /\ s = RestorePlan \/ "Baseline" \notin Ahead(s)
    /\ hooks \subseteq Ahead(s)
    /\ servicesFrozen => "Services" \in Ahead(s)
    /\ injectedRoutes # {} => "Routes" \in Ahead(s)
    /\ Pristine /\ failures = 0 => engaged \ {"PowerPlan"} \subseteq Reverting(s)
    /\ Pristine /\ failures = 0 /\ "Baseline" \notin Ahead(s) => engaged \cap Twice = {}
    /\ Pristine /\ failures <= 1 => engaged \cap Twice \subseteq Reverting(s)

Restoring(c) == pc[c] \in {"body", "return"} /\ job[c] = "SafeDefault"

RestoreInv ==
    \A c \in Clicks :
        /\ Restoring(c) => Recovers(todo[c])
        /\ pc[c] = "return" => CurrentMode = job[c] /\ (Restoring(c) => todo[c] = <<>>)

CleanInv == RestoreInv /\ (RolledBack => Recovers(<<>>))

-----------------------------------------------------------------------------
(* The plan of the restore *)

LEMMA OwnIsReverted ==
    ASSUME Pristine, NEW step
    PROVE  Own(step) \subseteq Reverts(step)
  <1>1. CASE step = "Baseline"
    BY <1>1 DEF Own, Reverts, BaselineCovers, PlanCores, Pristine, Tweaks, Recorded
  <1>2. CASE step = "NetInterface"
    BY <1>2 DEF Own, Reverts, Sets, Pristine, Tweaks, Recorded, Reset
  <1>3. CASE step = "InputLatency"
    BY <1>3 DEF Own, Reverts, Sets, Pristine, Tweaks, Recorded, Reset
  <1>4. CASE step \notin {"Baseline", "NetInterface", "InputLatency"}
    BY <1>4 DEF Own, Reverts, Sets, Pristine
  <1>5. QED
    BY <1>1, <1>2, <1>3, <1>4

LEMMA EmptyAhead == Ahead(<<>>) = {} /\ Reverting(<<>>) = {}
  <1>1. Ahead(<<>>) = {}
    BY DEF Ahead
  <1>2. QED
    BY <1>1 DEF Reverting

LEMMA TailAhead ==
    ASSUME NEW s \in Seq(Stages), s # <<>>
    PROVE  /\ Ahead(s) = {Head(s)} \cup Ahead(Tail(s))
           /\ Reverting(s) = Own(Head(s)) \cup Reverting(Tail(s))
  <1>1. /\ Len(s) \in Nat /\ Len(s) >= 1 /\ Head(s) = s[1]
        /\ Len(Tail(s)) = Len(s) - 1
        /\ \A i \in 1..Len(Tail(s)) : Tail(s)[i] = s[i + 1]
    OBVIOUS
  <1>2. Ahead(s) \subseteq {Head(s)} \cup Ahead(Tail(s))
    <2>1. SUFFICES ASSUME NEW i \in 1..Len(s), i # 1
                   PROVE  s[i] \in Ahead(Tail(s))
      BY <1>1 DEF Ahead
    <2>2. i - 1 \in 1..Len(Tail(s)) /\ s[i] = Tail(s)[i - 1]
      BY <1>1, <2>1
    <2>3. QED
      BY <2>2 DEF Ahead
  <1>3. {Head(s)} \cup Ahead(Tail(s)) \subseteq Ahead(s)
    <2>1. Head(s) \in Ahead(s)
      BY <1>1 DEF Ahead
    <2>2. \A i \in 1..Len(Tail(s)) : i + 1 \in 1..Len(s) /\ Tail(s)[i] = s[i + 1]
      BY <1>1
    <2>3. QED
      BY <2>1, <2>2 DEF Ahead
  <1>4. Ahead(s) = {Head(s)} \cup Ahead(Tail(s))
    BY <1>2, <1>3
  <1>5. QED
    BY <1>4 DEF Reverting

\* The restore has a step for every hook and note, and for every tweak but the
\* power plan; the snapshot is written first, and only once.
LEMMA RestorePlanCovers ==
    /\ RestorePlan \in Seq(Stages) /\ RestorePlan # <<>>
    /\ Hooks \cup {"Baseline", "Services", "Routes"} \subseteq Ahead(RestorePlan)
    /\ Tweaks \subseteq Reverting(RestorePlan)
    /\ Head(RestorePlan) = "Baseline" /\ "Baseline" \notin Ahead(Tail(RestorePlan))
    /\ Twice \subseteq Reverting(Tail(RestorePlan))
    /\ Twice \subseteq Own("Baseline")
  <1> DEFINE rest == <<"Routes", "NetInterface", "MSI", "SysMain", "Timers", "Peripherals",
                       "InputLatency", "Services", "PrioritySeparation", "GamesTask",
                       "Affinity", "IO">>
  <1>1. RestorePlan \in Seq(Stages) /\ RestorePlan # <<>>
    BY DEF RestorePlan, Stages, TweakStages, Hooks
  <1>2. Head(RestorePlan) = "Baseline" /\ Tail(RestorePlan) = rest
    BY DEF RestorePlan
  <1>3. Ahead(rest) = {"Routes", "NetInterface", "MSI", "SysMain", "Timers", "Peripherals",
                       "InputLatency", "Services", "PrioritySeparation", "GamesTask",
                       "Affinity", "IO"}
    BY DEF Ahead
  <1>4. Ahead(RestorePlan) = {"Baseline"} \cup Ahead(rest)
    BY <1>1, <1>2, TailAhead
  <1>5. Own("NetInterface") \cup Own("InputLatency") \subseteq Reverting(rest)
    <2> HIDE DEF rest
    <2>1. QED
      BY <1>3 DEF Reverting
  <1>6. \A t \in Tweaks \ Own("Baseline") : t \in Reverting(rest)
    <2>1. \A t \in {"SysMain", "Timers"} : t \in Own(t) /\ t \in Ahead(rest)
      BY <1>3 DEF Own, Tweaks, Recorded, Reset
    <2>2. Tweaks \ Own("Baseline") =
              {"SysMain", "Timers", "Offloads", "AdapterClass", "InputSettings", "GameDVRPolicy"}
      BY DEF Own, Tweaks, Recorded, Reset
    <2>3. {"Offloads", "AdapterClass", "InputSettings", "GameDVRPolicy"} \subseteq
              Own("NetInterface") \cup Own("InputLatency")
      BY DEF Own
    <2> HIDE DEF rest
    <2>4. QED
      BY <1>5, <2>1, <2>2, <2>3 DEF Reverting
  <1>7. Reverting(RestorePlan) = Own("Baseline") \cup Reverting(rest)
    BY <1>1, <1>2, TailAhead
  <1>8. Twice \subseteq Reverting(rest) /\ Twice \subseteq Own("Baseline")
    <2>1. \A t \in Twice \ {"TcpParameters"} : t \in Own(t) /\ t \in Ahead(rest)
      BY <1>3 DEF Own, Twice, Tweaks, Recorded
    <2>2. "TcpParameters" \in Own("NetInterface") /\ Twice \subseteq Own("Baseline")
      BY DEF Own, Twice
    <2> HIDE DEF rest
    <2>3. QED
      BY <1>5, <2>1, <2>2 DEF Reverting
  <1>9. "Baseline" \notin Ahead(rest) /\ Hooks \cup {"Services", "Routes"} \subseteq Ahead(rest)
    BY <1>3 DEF Hooks
  <1> HIDE DEF rest
  <1>10. QED
    BY <1>1, <1>2, <1>4, <1>6, <1>7, <1>8, <1>9

-----------------------------------------------------------------------------
(* The steps *)

\* A failure is counted, and never forgotten.
LEMMA FailureIsCounted ==
    ASSUME TypeOK, Fails \/ UNCHANGED failures
    PROVE  /\ failures' = 0 => failures = 0 /\ UNCHANGED failures
           /\ failures' <= 1 => failures <= 1
           /\ failures' <= 1 /\ failures # 0 => UNCHANGED failures
           /\ Fails => failures' # 0
  BY MaxFailuresAssumption DEF TypeOK, Fails

\* A step beside the restore: the power plan may be taken over, the rest only
\* shrinks.
Beside ==
    /\ engaged' \subseteq engaged \cup {"PowerPlan"}
    /\ hooks' \subseteq hooks /\ (servicesFrozen' => servicesFrozen)
    /\ injectedRoutes' \subseteq injectedRoutes
    /\ UNCHANGED <<fileVars, failures>>

LEMMA BesideRecovers ==
    ASSUME NEW c \in Clicks, Recovers(todo[c]), todo'[c] = todo[c], Beside
    PROVE  Recovers(todo[c])'
  <1>1. \A s : Pristine' = Pristine /\ Ahead(s)' = Ahead(s) /\ Reverting(s)' = Reverting(s)
    BY DEF Beside, Pristine, fileVars, Ahead, Reverting
  <1>2. "PowerPlan" \notin Twice
    BY DEF Twice
  <1>3. QED
    BY <1>1, <1>2 DEF Recovers, Beside

LEMMA BesideClean ==
    ASSUME Recovers(<<>>), Beside
    PROVE  Recovers(<<>>)'
  <1>1. Pristine' = Pristine
    BY DEF Beside, Pristine, fileVars
  <1>2. "PowerPlan" \notin Twice
    BY DEF Twice
  <1>3. QED
    BY <1>1, <1>2, EmptyAhead DEF Recovers, Beside

\* Before its first step a restore has everything ahead.
LEMMA RestoreStarts ==
    ASSUME TypeOK
    PROVE  Recovers(RestorePlan)
  BY RestorePlanCovers DEF TypeOK, Recovers

\* The step at the head takes back what was its own to take back.
LEMMA RestoreStepRecovers ==
    ASSUME TypeOK, NEW c \in Clicks, RestoreStep(c), Recovers(todo[c])
    PROVE  Recovers(todo[c])'
  <1> DEFINE s == todo[c]
             step == Head(s)
             rest == Tail(s)
  <1>1. s \in Seq(Stages) /\ s # <<>> /\ todo'[c] = rest
    BY DEF RestoreStep, TypeOK
  <1>2. Ahead(s) = {step} \cup Ahead(rest) /\ Reverting(s) = Own(step) \cup Reverting(rest)
    BY <1>1, TailAhead
  <1>3. "Baseline" \notin Ahead(rest)
    BY <1>1, <1>2, RestorePlanCovers DEF Recovers
  <1>4. Fails \/ UNCHANGED failures
    BY DEF RestoreStep, RevertTweaks, RemoveRoutes, ResumeServices, RemoveHook
  <1>5. Pristine' = Pristine
    BY DEF RestoreStep, Pristine, fileVars
  <1> DEFINE Notes == /\ hooks' \subseteq Ahead(rest)
                      /\ servicesFrozen' => "Services" \in Ahead(rest)
                      /\ injectedRoutes' # {} => "Routes" \in Ahead(rest)
             Settings == /\ Pristine /\ failures' = 0 =>
                               engaged' \ {"PowerPlan"} \subseteq Reverting(rest)
                         /\ Pristine /\ failures' = 0 => engaged' \cap Twice = {}
                         /\ Pristine /\ failures' <= 1 =>
                               engaged' \cap Twice \subseteq Reverting(rest)
  <1>6. Notes
    <2>1. CASE RevertTweaks(step)
      <3>1. step \notin Hooks \cup {"Services", "Routes"}
        BY <2>1 DEF RevertTweaks, Hooks, TweakStages
      <3>2. QED
        BY <1>2, <2>1, <3>1 DEF RevertTweaks, Recovers, noteVars, Hooks, TypeOK
    <2>2. CASE RemoveRoutes(step)
      BY <1>2, <2>2 DEF RemoveRoutes, Recovers, Hooks, TypeOK
    <2>3. CASE ResumeServices(step)
      BY <1>2, <2>3 DEF ResumeServices, Recovers, Hooks, TypeOK
    <2>4. CASE RemoveHook(step)
      BY <1>2, <2>4 DEF RemoveHook, Recovers, noteVars, Hooks
    <2>5. QED
      BY <2>1, <2>2, <2>3, <2>4 DEF RestoreStep
  <1>7. Settings
    <2>1. CASE RevertTweaks(step) /\ Pristine
      <3>1. \/ engaged' = engaged \ Reverts(step) /\ UNCHANGED failures
            \/ /\ Fails
               /\ \E kept \in engaged \cap Reverts(step) :
                     engaged' = (engaged \ Reverts(step)) \cup {kept}
        BY <2>1 DEF RevertTweaks, Pristine
      <3>. Own(step) \subseteq Reverts(step)
        BY <2>1, OwnIsReverted
      <3>2. CASE UNCHANGED failures
        <4>1. engaged' = engaged \ Reverts(step)
          <5>1. ~Fails
            BY <3>2, MaxFailuresAssumption DEF TypeOK, Fails
          <5>2. QED
            BY <3>1, <5>1
        <4>2. CASE step = "Baseline"
          <5>1. Twice \subseteq Reverts(step)
            BY <4>2, RestorePlanCovers
          <5>2. QED
            BY <1>2, <2>1, <3>2, <4>1, <5>1 DEF Recovers
        <4>3. CASE step # "Baseline"
          BY <1>2, <1>3, <2>1, <3>2, <4>1, <4>3 DEF Recovers
        <4>4. QED
          BY <4>2, <4>3
      <3>3. CASE Fails
        <4>1. failures' # 0 /\ (failures' <= 1 => failures = 0)
          BY <3>3, MaxFailuresAssumption DEF TypeOK, Fails
        <4>2. CASE step = "Baseline"
          <5>1. s = RestorePlan
            BY <1>2, <4>2 DEF Recovers
          <5>2. Twice \subseteq Reverting(rest)
            BY <5>1, RestorePlanCovers
          <5>3. QED
            BY <4>1, <5>2
        <4>3. CASE step # "Baseline"
          BY <1>2, <1>3, <2>1, <3>1, <4>1, <4>3 DEF Recovers
        <4>4. QED
          BY <4>2, <4>3
      <3>4. QED
        BY <3>1, <3>2, <3>3
    <2>2. CASE RemoveRoutes(step) \/ ResumeServices(step) \/ RemoveHook(step)
      <3>1. UNCHANGED engaged /\ step # "Baseline" /\ Own(step) = {}
        BY <2>2
        DEF RemoveRoutes, ResumeServices, RemoveHook, Own, Tweaks, Recorded, Reset, Hooks
      <3>2. QED
        BY <1>2, <1>3, <1>4, <3>1, FailureIsCounted DEF Recovers
    <2>3. QED
      BY <2>1, <2>2 DEF RestoreStep
  <1>8. QED
    <2> HIDE DEF rest, Notes, Settings
    <2>1. \A r : Ahead(r)' = Ahead(r) /\ Reverting(r)' = Reverting(r)
      BY DEF Ahead, Reverting
    <2>2. Ahead(todo[c])' = Ahead(rest) /\ Reverting(todo[c])' = Reverting(rest)
      BY <1>1 DEF Ahead, Reverting
    <2>3. QED
      BY <1>1, <1>3, <1>5, <1>6, <1>7, <2>2 DEF Recovers, Notes, Settings

\* A click outside its body and return changes nothing of the system.
LEMMA ClickRestores ==
    ASSUME IInv, RestoreInv, NEW c \in Clicks,
           \/ \E mode \in Modes : Press(c, mode)
           \/ Refuse(c) \/ Begin(c) \/ Started(c) \/ Restored(c) \/ Return(c)
    PROVE  RestoreInv'
  <1> USE DEF osVars, noteVars, fileVars, lockVars
  <1>1. TypeOK /\ LockInv
    BY DEF IInv
  <1>2. Beside
    BY DEF Beside, Press, Refuse, Begin, Started, Restored, Return
  <1>3. ASSUME NEW d \in Clicks, pc'[d] = pc[d], job'[d] = job[d], todo'[d] = todo[d]
        PROVE  Restoring(d)' => Recovers(todo[d])'
    BY <1>2, <1>3, BesideRecovers DEF RestoreInv, Restoring
  <1>4. \A d \in Clicks \ {c} : pc'[d] = pc[d] /\ job'[d] = job[d] /\ todo'[d] = todo[d]
    BY <1>1 DEF Press, Refuse, Begin, Started, Restored, Return, TypeOK
  <1>5. \A d \in Clicks \ {c} : pc'[d] = "return" => CurrentMode' = job'[d]
    BY <1>1, <1>4
    DEF RestoreInv, LockInv, Press, Refuse, Begin, Started, Restored, Return, TypeOK
  <1>6. \A d \in Clicks \ {c} : pc'[d] = "return" /\ Restoring(d)' => todo'[d] = <<>>
    BY <1>4 DEF RestoreInv, Restoring
  <1>7. CASE Started(c)
    <2>1. pc'[c] = "body" /\ (job'[c] = "SafeDefault" => todo'[c] = RestorePlan)
      BY <1>1, <1>7 DEF Started, TypeOK, Plan
    <2>2. \A s : Recovers(s)' <=> Recovers(s)
      BY <1>7 DEF Started, Recovers, Pristine, Ahead, Reverting
    <2>3. Recovers(RestorePlan)'
      BY <1>1, <2>2, RestoreStarts
    <2>4. Restoring(c)' => Recovers(todo[c])'
      BY <2>1, <2>3 DEF Restoring, Recovers, Ahead, Reverting
    <2>5. QED
      BY <1>3, <1>4, <1>5, <1>6, <2>1, <2>4 DEF RestoreInv
  <1>8. CASE Restored(c)
    <2>1. /\ pc[c] = "body" /\ job[c] = "SafeDefault" /\ todo[c] = <<>>
          /\ pc'[c] = "return" /\ job'[c] = job[c] /\ todo'[c] = todo[c]
          /\ CurrentMode' = CurrentMode
      BY <1>1, <1>8 DEF Restored, TypeOK
    <2>2. CurrentMode = job[c]
      BY <1>1, <2>1 DEF LockInv, ModeHeld
    <2>3. Recovers(todo[c])'
      BY <1>2, <2>1, BesideRecovers DEF RestoreInv, Restoring
    <2>4. QED
      BY <1>3, <1>4, <1>5, <1>6, <2>1, <2>2, <2>3 DEF RestoreInv
  <1>9. CASE \/ \E mode \in Modes : Press(c, mode)
             \/ Refuse(c) \/ Begin(c) \/ Return(c)
    <2>1. pc'[c] \notin {"body", "return"}
      BY <1>1, <1>9 DEF Press, Refuse, Begin, Return, TypeOK
    <2>2. QED
      BY <1>3, <1>4, <1>5, <1>6, <2>1 DEF RestoreInv, Restoring
  <1>10. QED
    BY <1>7, <1>8, <1>9

\* A stage of a mode runs alone: no restore is at work.
LEMMA StageRestores ==
    ASSUME IInv, RestoreInv, NEW c \in Clicks, RunStage(c) \/ StartPoller(c)
    PROVE  RestoreInv'
  <1>1. TypeOK /\ LockInv
    BY DEF IInv
  <1>2. /\ pc[c] = "body" /\ job[c] # "SafeDefault"
        /\ UNCHANGED <<job, CurrentMode>>
        /\ pc' = pc \/ pc' = [pc EXCEPT ![c] = "return"]
    BY DEF RunStage, StartPoller, lockVars
  <1>3. \A d \in Clicks : pc'[d] \in {"body", "return"} => d = c
    BY <1>1, <1>2 DEF LockInv, TypeOK
  <1>4. CurrentMode = job[c]
    BY <1>1, <1>2 DEF LockInv, ModeHeld
  <1>5. QED
    BY <1>2, <1>3, <1>4 DEF RestoreInv, Restoring

LEMMA StepRestores ==
    ASSUME IInv, RestoreInv, NEW c \in Clicks, RestoreStep(c)
    PROVE  RestoreInv'
  <1>1. TypeOK /\ LockInv
    BY DEF IInv
  <1>2. pc[c] = "body" /\ job[c] = "SafeDefault" /\ UNCHANGED <<pc, job, CurrentMode>>
    BY DEF RestoreStep, lockVars
  <1>3. \A d \in Clicks : pc[d] \in {"body", "return"} => d = c
    BY <1>1, <1>2 DEF LockInv
  <1>4. Recovers(todo[c])'
    BY <1>1, <1>2, RestoreStepRecovers DEF RestoreInv, Restoring
  <1>5. QED
    BY <1>2, <1>3, <1>4 DEF RestoreInv, Restoring

\* No poller lives beside a restore or after it; tickers and the world outside
\* touch the power plan only.
LEMMA GoroutineRestores ==
    ASSUME IInv, RestoreInv,
           \/ \E p \in Pollers : PollerStep(p)
           \/ \E t \in Tickers : TickerStep(t)
           \/ PlanChanged
           \/ UNCHANGED vars
    PROVE  RestoreInv' /\ (RolledBack /\ Recovers(<<>>) => Recovers(<<>>)')
  <1> USE DEF clickVars, lockVars, noteVars
  <1>1. UNCHANGED <<pc, job, todo, CurrentMode>>
    BY DEF PollerStep, Detect, GameExit, PollerDone, PlanChanged, TickerStep, TickerStart, Tick,
           Enforce, TickerDone, tickerUnchanged, vars
  <1>2. CASE CurrentMode = "SafeDefault"
    <2>1. \A p \in Pollers : ~Live(p)
      BY <1>2 DEF IInv, PollerFollowsMode
    <2>2. Beside
      <3>1. CASE \E p \in Pollers : PollerStep(p)
        BY <2>1, <3>1 DEF PollerStep, Detect, GameExit, PollerDone, Live
      <3>2. CASE \E t \in Tickers : TickerStep(t)
        BY <3>2 DEF TickerStep, TickerStart, Tick, Enforce, TickerDone, tickerUnchanged, Beside
      <3>3. CASE PlanChanged
        BY <3>3 DEF PlanChanged, tickerUnchanged, Beside
      <3>4. CASE UNCHANGED vars
        BY <3>4 DEF vars, osVars, Beside
      <3>5. QED
        BY <3>1, <3>2, <3>3, <3>4
    <2>3. RestoreInv'
      BY <1>1, <2>2, BesideRecovers DEF RestoreInv, Restoring
    <2>4. QED
      BY <2>2, <2>3, BesideClean
  <1>3. CASE CurrentMode # "SafeDefault"
    <2>1. \A c \in Clicks : ~Restoring(c)
      BY <1>3 DEF IInv, LockInv, ModeHeld, RestoreInv, Restoring
    <2>2. QED
      BY <1>1, <1>3, <2>1 DEF RestoreInv, Restoring, RolledBack
  <1>4. QED
    BY <1>2, <1>3

LEMMA RestoreKeeps == IInv /\ RestoreInv /\ [Next]_vars => RestoreInv'
  <1> SUFFICES ASSUME IInv, RestoreInv, [Next]_vars
               PROVE  RestoreInv'
    OBVIOUS
  <1>1. ASSUME NEW c \in Clicks, ClickStep(c) \/ \E mode \in Modes : Press(c, mode)
        PROVE  RestoreInv'
    BY <1>1, ClickRestores, StageRestores, StepRestores DEF ClickStep
  <1>2. QED
    BY <1>1, GoroutineRestores DEF Next

\* The mode is Safe Default with no function at work initially, and from the
\* return of a restore to the beginning of the next function.
LEMMA CleanStep == IInv /\ CleanInv /\ [Next]_vars => CleanInv'
  <1> SUFFICES ASSUME IInv, CleanInv, [Next]_vars, RolledBack'
               PROVE  Recovers(<<>>)'
    BY RestoreKeeps DEF CleanInv
  <1> USE DEF lockVars, RolledBack, Settled
  <1>1. ASSUME NEW c \in Clicks, ClickStep(c) \/ \E mode \in Modes : Press(c, mode)
        PROVE  Recovers(<<>>)'
    <2>1. CASE Return(c)
      <3>1. pc[c] = "return" /\ CurrentMode = "SafeDefault"
        BY <2>1 DEF Return
      <3>2. job[c] = "SafeDefault" /\ todo[c] = <<>> /\ Recovers(todo[c])
        BY <3>1 DEF CleanInv, RestoreInv, Restoring
      <3>3. Beside
        BY <2>1 DEF Return, Beside, osVars, noteVars
      <3>4. QED
        BY <3>2, <3>3, BesideClean
    <2>2. CASE (\E mode \in Modes : Press(c, mode)) \/ Refuse(c)
      <3>1. RolledBack /\ Beside
        BY <2>2 DEF Press, Refuse, Beside, osVars, noteVars
      <3>2. QED
        BY <3>1, BesideClean DEF CleanInv
    <2>3. CASE \/ Begin(c) \/ Started(c) \/ RunStage(c)
               \/ StartPoller(c) \/ RestoreStep(c) \/ Restored(c)
      <3>1. orchestrationMutex' = c
        BY <2>3 DEF Begin, Started, RunStage, StartPoller, RestoreStep, Restored, IInv, LockInv
      <3>2. QED
        BY <3>1, NoneAssumption
    <2>4. QED
      BY <1>1, <2>1, <2>2, <2>3 DEF ClickStep
  <1>2. CASE \/ \E p \in Pollers : PollerStep(p)
             \/ \E t \in Tickers : TickerStep(t)
             \/ PlanChanged
             \/ UNCHANGED vars
    <2>1. UNCHANGED <<orchestrationMutex, CurrentMode>>
      BY <1>2 DEF PollerStep, Detect, GameExit, PollerDone, PlanChanged, TickerStep, TickerStart,
                  Tick, Enforce, TickerDone, tickerUnchanged, vars
    <2>2. QED
      BY <1>2, <2>1, GoroutineRestores DEF CleanInv
  <1>3. QED
    BY <1>1, <1>2 DEF Next

LEMMA CleanStart == Init => CleanInv
  <1> SUFFICES ASSUME Init
               PROVE  CleanInv
    OBVIOUS
  <1>1. RestoreInv
    BY DEF Init, RestoreInv, Restoring
  <1>2. Recovers(<<>>)
    BY EmptyAhead DEF Init, Recovers
  <1>3. QED
    BY <1>1, <1>2 DEF CleanInv

LEMMA CleanAlways == Spec => []CleanInv
  BY CleanStart, CleanStep, Invariance, PTL DEF Spec

-----------------------------------------------------------------------------
(* The theorems about a restore in one process *)

\* With a snapshot of the untouched system and no failing call, a total restore has
\* written back each recorded tweak but the power plan, reset the others, and left
\* no hook and no note, whatever modes, games and clicks came before it
\* (ApplyTotalRestore takes the steps of RestorePlan, and no poller lives beside it
\* or after it).
THEOREM RollbackIsClean == Spec => []CleanRollback
  <1>1. CleanInv => CleanRollback
    BY EmptyAhead DEF CleanInv, Recovers, CleanRollback
  <1>2. QED
    BY <1>1, CleanAlways, PTL

\* One failing call in a restore leaves none of the tweaks behind that are taken
\* back twice.
LEMMA SecondChanceHolds ==
    ASSUME TypeOK, RestoreInv
    PROVE  SecondChance
  <1>1. SUFFICES ASSUME NEW c \in Clicks, pc[c] = "return", job[c] = "SafeDefault", Pristine,
                        failures <= 1
                 PROVE  engaged \cap Twice = {}
    BY DEF SecondChance, Twice
  <1>2. Recovers(<<>>)
    BY <1>1 DEF RestoreInv, Restoring
  <1>3. QED
    BY <1>1, <1>2, EmptyAhead DEF Recovers

THEOREM OneFailureIsRepaired == Spec => []SecondChance
  <1>1. IInv /\ CleanInv => SecondChance
    BY SecondChanceHolds DEF IInv, CleanInv
  <1>2. QED
    BY <1>1, CleanAlways, Invariance, PTL

-----------------------------------------------------------------------------
(* The backup, and restores across processes *)

\* A backup is only ever written while there is none, by a process whose buttons
\* do not exist yet.
LaunchInv ==
    /\ run # "up" => \A c \in Clicks : pc[c] = "idle"
    /\ run = "saving" => file = "absent"

\* Unless a call fails or a damaged backup is deleted, no process gets as far as
\* its buttons without a backup, so that what is captured is untouched.
UntouchedInv ==
    failures = 0 /\ ~recreated =>
        /\ file = "absent" => run # "up" /\ engaged = {}
        /\ run = "saving" => captured = {}
        /\ file = "full" => snapshot = {}

LifeInv == LifeTypeOK /\ IInv /\ RestoreInv /\ LaunchInv /\ UntouchedInv

LEMMA LifeStart == LifeInit => LifeInv
  <1> SUFFICES ASSUME LifeInit
               PROVE  LifeInv
    OBVIOUS
  <1>1. IInv /\ RestoreInv /\ TypeOK
    BY InitIInv, CleanStart DEF LifeInit, CleanInv, IInv
  <1>2. LifeTypeOK
    <2>1. 0 \in 0..MaxStops
      BY MaxStopsAssumption DEF MaxStopsAssumption
    <2>2. QED
      BY <1>1, <2>1 DEF LifeInit, LifeTypeOK
  <1>3. LaunchInv /\ UntouchedInv
    BY DEF LifeInit, Init, LaunchInv, UntouchedInv
  <1>4. QED
    BY <1>1, <1>2, <1>3 DEF LifeInv

-----------------------------------------------------------------------------
(* The steps of a process that is not up: the orchestrator's locks, counts and *)
(* goroutines stay as they are                                                 *)

\* While no click is at work, the settings, the files and the count of failures
\* may change without disturbing the orchestrator.
LEMMA AtRest ==
    ASSUME IInv, \A c \in Clicks : pc[c] = "idle", TypeOK',
           UNCHANGED <<clickVars, lockVars, cancelVars, orchestratorWG, cancelled, pollerVars>>
    PROVE  IInv' /\ RestoreInv'
  <1>1. LockInv' /\ CountInv' /\ PollerFollowsMode'
    BY DEF IInv, LockInv, ModeHeld, CountInv, PollerFollowsMode, Live, clickVars, lockVars,
           cancelVars, pollerVars
  <1>2. RestoreInv'
    BY DEF RestoreInv, Restoring, clickVars
  <1>3. QED
    BY <1>1, <1>2 DEF IInv

LEMMA LaunchKeeps ==
    ASSUME LifeInv, LaunchFirst \/ WriteBaseline \/ LaunchAgain
    PROVE  LifeInv'
  <1> USE DEF clickVars, lockVars, cancelVars, pollerVars, osVars, noteVars, fileVars
  <1>1. TypeOK /\ LifeTypeOK /\ (\A c \in Clicks : pc[c] = "idle")
    BY DEF LifeInv, LifeTypeOK, LaunchInv, LaunchFirst, WriteBaseline, LaunchAgain
  <1>2. CASE LaunchFirst
    <2>1. TypeOK'
      BY <1>1, <1>2 DEF LaunchFirst, TypeOK, vars
    <2>2. LifeTypeOK'
      BY <1>1, <1>2, <2>1 DEF LaunchFirst, LifeTypeOK, TypeOK, vars
    <2>3. IInv' /\ RestoreInv'
      BY <1>1, <1>2, <2>1, AtRest DEF LaunchFirst, LifeInv, vars
    <2>4. LaunchInv' /\ UntouchedInv'
      BY <1>2 DEF LaunchFirst, NoBackup, LifeInv, LaunchInv, UntouchedInv, vars
    <2>5. QED
      BY <2>2, <2>3, <2>4 DEF LifeInv
  <1>3. CASE WriteBaseline
    <2>1. failures' \in 0..MaxFailures /\ (failures' = 0 => UNCHANGED failures /\ ~Fails)
      BY <1>1, <1>3, MaxFailuresAssumption DEF WriteBaseline, TypeOK, Fails
    <2>2. snapshot' \subseteq Tweaks /\ baseline' \in {"usable", "unusable"}
      BY <1>1, <1>3 DEF WriteBaseline, LifeTypeOK, TypeOK
    <2>3. TypeOK'
      BY <1>1, <1>3, <2>1, <2>2 DEF WriteBaseline, TypeOK
    <2>4. file = "absent"
      BY <1>3 DEF WriteBaseline, LifeInv, LaunchInv
    <2>5. LifeTypeOK'
      BY <1>1, <1>3, <2>3, <2>4 DEF WriteBaseline, LifeTypeOK
    <2>6. IInv' /\ RestoreInv'
      BY <1>1, <1>3, <2>3, AtRest DEF WriteBaseline, LifeInv
    <2>7. LaunchInv' /\ UntouchedInv'
      BY <1>3, <2>1 DEF WriteBaseline, LifeInv, LaunchInv, UntouchedInv
    <2>8. QED
      BY <2>5, <2>6, <2>7 DEF LifeInv
  <1>4. CASE LaunchAgain
    <2>1. baseline' \in {"usable", "unusable"}
      BY <1>4 DEF LaunchAgain, Loaded
    <2>2. TypeOK'
      BY <1>1, <1>4, <2>1 DEF LaunchAgain, TypeOK
    <2>3. LifeTypeOK'
      BY <1>1, <1>4, <2>2 DEF LaunchAgain, Loaded, LifeTypeOK
    <2>4. IInv' /\ RestoreInv'
      BY <1>1, <1>4, <2>2, AtRest DEF LaunchAgain, LifeInv
    <2>5. LaunchInv' /\ UntouchedInv'
      BY <1>4 DEF LaunchAgain, LifeInv, LaunchInv, UntouchedInv
    <2>6. QED
      BY <2>3, <2>4, <2>5 DEF LifeInv
  <1>5. QED
    BY <1>2, <1>3, <1>4

\* A process that ends takes its clicks, locks and goroutines along, in whatever
\* state they were; the settings stay.
LEMMA StopKeeps ==
    ASSUME LifeInv, Stop
    PROVE  LifeInv'
  <1>1. TypeOK /\ LifeTypeOK
    BY DEF LifeInv, LifeTypeOK
  <1>2. TypeOK'
    <2>1. <<>> \in Seq(Stages)
      OBVIOUS
    <2>2. /\ pc' \in [Clicks -> {"idle", "lock", "wait", "body", "return"}]
          /\ job' \in [Clicks -> Modes \cup {"none"}]
          /\ todo' \in [Clicks -> Seq(Stages)]
          /\ \A c \in Clicks : pc'[c] = "idle" <=> job'[c] = "none"
          /\ poller' \in [Pollers -> {"none", "select", "watch"}]
          /\ undo' \in [Pollers -> SUBSET Hooks]
          /\ ticker' \in [Tickers -> {"none", "starting", "select", "enforce"}]
      BY <2>1 DEF Stop
    <2>3. QED
      BY <1>1, <2>2 DEF Stop, TypeOK, Modes
  <1>3. LifeTypeOK'
    <2>1. stops' \in 0..MaxStops
      BY <1>1, MaxStopsAssumption DEF Stop, LifeTypeOK, MaxStopsAssumption
    <2>2. orphans' \subseteq Hooks
      BY <1>1 DEF Stop, LifeTypeOK, TypeOK
    <2>3. QED
      BY <1>1, <1>2, <2>1, <2>2 DEF Stop, LifeTypeOK
  <1>4. LockInv'
    BY NoneAssumption DEF Stop, LockInv, ModeHeld
  <1>5. CountInv' /\ PollerFollowsMode' /\ RestoreInv'
    BY DEF Stop, CountInv, PollerFollowsMode, Live, RestoreInv, Restoring
  <1>6. LaunchInv' /\ UntouchedInv'
    BY DEF Stop, LifeInv, LaunchInv, UntouchedInv
  <1>7. QED
    BY <1>2, <1>3, <1>4, <1>5, <1>6 DEF LifeInv, IInv

LEMMA DownKeeps ==
    ASSUME LifeInv, Reboot \/ Recreate
    PROVE  LifeInv'
  <1> USE DEF clickVars, lockVars, cancelVars, pollerVars, noteVars, fileVars
  <1>1. TypeOK /\ LifeTypeOK /\ (\A c \in Clicks : pc[c] = "idle")
    BY DEF LifeInv, LifeTypeOK, LaunchInv, Reboot, Recreate
  <1>2. TypeOK'
    <2>1. 0 \in 0..MaxSuspend
      BY MaxSuspendAssumption DEF MaxSuspendAssumption
    <2>2. CASE Reboot
      BY <1>1, <2>1, <2>2 DEF Reboot, TypeOK
    <2>3. CASE Recreate
      BY <1>1, <2>3 DEF Recreate, TypeOK, vars, osVars
    <2>4. QED
      BY <2>2, <2>3
  <1>3. LifeTypeOK'
    BY <1>1, <1>2 DEF Reboot, Recreate, LifeTypeOK, vars
  <1>4. IInv' /\ RestoreInv'
    BY <1>1, <1>2, AtRest DEF Reboot, Recreate, LifeInv, vars
  <1>5. LaunchInv' /\ UntouchedInv'
    BY DEF Reboot, Recreate, LifeInv, LaunchInv, UntouchedInv, vars
  <1>6. QED
    BY <1>3, <1>4, <1>5 DEF LifeInv

-----------------------------------------------------------------------------
(* The steps of the orchestrator *)

\* No step of the orchestrator takes a failure back or touches the backup.
LEMMA OrchestratorFailures ==
    ASSUME TypeOK, [Next]_vars
    PROVE  UNCHANGED fileVars /\ (failures' = 0 => failures = 0)
  <1>1. UNCHANGED fileVars /\ (Fails \/ UNCHANGED failures)
    <2>1. ASSUME NEW c \in Clicks, ClickStep(c) \/ \E mode \in Modes : Press(c, mode)
          PROVE  UNCHANGED fileVars /\ (Fails \/ UNCHANGED failures)
      BY <2>1 DEF ClickStep, Press, Refuse, Begin, Started, Return, Restored, StartPoller,
         RunStage, NothingKept, Tweak, EngagePowerPlan, AddRoutes, FreezeServices,
         RestoreStep, RevertTweaks, RemoveRoutes, ResumeServices, RemoveHook
    <2>2. ASSUME NEW p \in Pollers, PollerStep(p)
          PROVE  UNCHANGED fileVars /\ (Fails \/ UNCHANGED failures)
      BY <2>2 DEF PollerStep, Detect, GameExit, PollerDone
    <2>3. CASE PlanChanged \/ \E t \in Tickers : TickerStep(t)
      BY <2>3 DEF PlanChanged, TickerStep, TickerStart, Tick, Enforce, TickerDone, tickerUnchanged
    <2>4. CASE UNCHANGED vars
      BY <2>4 DEF vars
    <2>5. QED
      BY <2>1, <2>2, <2>3, <2>4 DEF Next
  <1>2. QED
    BY <1>1, FailureIsCounted

LEMMA OrchestratorKeeps ==
    ASSUME LifeInv, run = "up", Next, UNCHANGED lifeVars
    PROVE  LifeInv'
  <1>1. IInv' /\ RestoreInv' /\ TypeOK'
    BY NextIInv, RestoreKeeps DEF LifeInv, IInv
  <1>2. UNCHANGED fileVars /\ (failures' = 0 => failures = 0)
    BY OrchestratorFailures DEF LifeInv, LifeTypeOK
  <1>3. LifeTypeOK'
    BY <1>1, <1>2 DEF LifeInv, LifeTypeOK, lifeVars, fileVars
  <1>4. LaunchInv' /\ UntouchedInv'
    BY <1>2 DEF LifeInv, LaunchInv, UntouchedInv, lifeVars, fileVars
  <1>5. QED
    BY <1>1, <1>3, <1>4 DEF LifeInv

LEMMA LifeInductive == LifeInv /\ [LifeNext]_allVars => LifeInv'
  <1> SUFFICES ASSUME LifeInv, [LifeNext]_allVars
               PROVE  LifeInv'
    OBVIOUS
  <1>1. CASE UNCHANGED allVars
    <2>1. IInv' /\ RestoreInv' /\ TypeOK'
      BY <1>1, NextIInv, RestoreKeeps DEF allVars, LifeInv, IInv
    <2>2. QED
      BY <1>1, <2>1
      DEF allVars, vars, lifeVars, clickVars, osVars, fileVars, LifeInv, LifeTypeOK, LaunchInv,
          UntouchedInv
  <1>2. QED
    BY <1>1, LaunchKeeps, StopKeeps, DownKeeps, OrchestratorKeeps DEF LifeNext

LEMMA LifeAlways == LifeSpec => []LifeInv
  BY LifeStart, LifeInductive, PTL DEF LifeSpec

-----------------------------------------------------------------------------
(* The theorems *)

\* The variables of the orchestrator and of its process keep their types through
\* every crash, launch and reboot; a usable baseline comes from a whole file.
THEOREM LifeTypeCorrect == LifeSpec => []LifeTypeOK
  <1>1. LifeInv => LifeTypeOK
    BY DEF LifeInv
  <1>2. QED
    BY <1>1, LifeAlways, PTL

\* main() never writes a backup over a readable one, however often the program
\* ends, in whatever mode, and is launched again.
THEOREM BaselineIsLocked == LifeSpec => BaselineLocked
  <1>1. LifeInv /\ [LifeNext]_allVars =>
           [file = "full" => file' = "full" /\ snapshot' = snapshot]_allVars
    <2>1. SUFFICES ASSUME LifeInv, LifeNext, file = "full"
                   PROVE  file' = "full" /\ snapshot' = snapshot
      OBVIOUS
    <2>2. run # "saving"
      BY <2>1 DEF LifeInv, LaunchInv
    <2>3. CASE run = "up" /\ Next /\ UNCHANGED lifeVars
      BY <2>1, <2>3, OrchestratorFailures DEF LifeInv, LifeTypeOK, lifeVars, fileVars
    <2>4. CASE LaunchFirst \/ WriteBaseline \/ LaunchAgain \/ Stop \/ Reboot \/ Recreate
      BY <2>1, <2>2, <2>4
      DEF LaunchFirst, WriteBaseline, LaunchAgain, Stop, Reboot, Recreate, NoBackup, vars, fileVars
    <2>5. QED
      BY <2>1, <2>3, <2>4 DEF LifeNext
  <1>2. QED
    BY <1>1, LifeAlways, PTL DEF LifeSpec, BaselineLocked

\* No crash before or during the first save spoils the snapshot: as long as no
\* call failed and no damaged backup was deleted, it is of the untouched system.
THEOREM SnapshotIsPristine == LifeSpec => []PristineSnapshot
  <1>1. LifeInv => PristineSnapshot
    BY DEF LifeInv, UntouchedInv, PristineSnapshot
  <1>2. QED
    BY <1>1, LifeAlways, PTL

\* A total restore also brings back the recorded settings that an earlier process
\* left tuned when it ended in the middle of a mode or of a restore.
THEOREM RestoreIsComplete == LifeSpec => []RestoreComplete
  <1>1. LifeInv => RestoreComplete
    <2>1. SUFFICES ASSUME LifeInv, NEW c \in Clicks, pc[c] = "return", job[c] = "SafeDefault",
                          Pristine, failures = 0
                   PROVE  engaged \cap Recorded \subseteq {"PowerPlan"}
      BY DEF RestoreComplete
    <2>2. Recovers(<<>>)
      BY <2>1 DEF LifeInv, RestoreInv, Restoring
    <2>3. QED
      BY <2>1, <2>2, EmptyAhead DEF Recovers
  <1>2. QED
    BY <1>1, LifeAlways, PTL

\* So it does when one of its calls fails, for what is taken back twice.
THEOREM OneFailureIsRepairedLater == LifeSpec => []SecondChance
  <1>1. LifeInv => SecondChance
    BY SecondChanceHolds DEF LifeInv, LifeTypeOK
  <1>2. QED
    BY <1>1, LifeAlways, PTL
-----------------------------------------------------------------------------
(* What holds of the orchestrator holds across restarts *)

\* A process that is gone has left no note behind: after a reboot there is nothing
\* a note could be wrong about.
KeptInv ==
    /\ TInv /\ WInv /\ NotesHonest
    /\ run = "down" => injectedRoutes = {} /\ ~suspendedPIDs

LEMMA KeptStart == LifeInit => KeptInv
  BY InitTInv, InitWInv, InitNotes DEF LifeInit, Init, KeptInv

LEMMA KeptInductive == LifeInv /\ KeptInv /\ [LifeNext]_allVars => KeptInv'
  <1> SUFFICES ASSUME LifeInv, KeptInv, [LifeNext]_allVars
               PROVE  KeptInv'
    OBVIOUS
  <1> USE DEF clickVars, lockVars, cancelVars, pollerVars, osVars, noteVars, fileVars
  <1>1. IInv /\ TypeOK
    BY DEF LifeInv, LifeTypeOK
  <1>2. CASE run = "up" /\ Next /\ UNCHANGED lifeVars
    BY <1>1, <1>2, NextTInv, NextWInv, NextNotes DEF KeptInv, lifeVars
  <1>3. CASE LaunchFirst \/ WriteBaseline \/ LaunchAgain \/ Recreate \/ UNCHANGED allVars
    <2>1. UNCHANGED <<pc, job, todo, cancelPowerLock, cancelGamePoll, orchestratorWG,
                      cancelled, ticker, suspendCount, routeTable, suspendedPIDs,
                      injectedRoutes>>
      BY <1>3 DEF LaunchFirst, WriteBaseline, LaunchAgain, Recreate, allVars, vars
    <2>2. run' = "down" => run = "down"
      BY <1>3 DEF LaunchFirst, WriteBaseline, LaunchAgain, Recreate, allVars, lifeVars
    <2>3. TInv' /\ WInv'
      BY <2>1 DEF KeptInv, TInv, NoOrphanTicker, WInv
    <2>4. QED
      BY <2>1, <2>2, <2>3 DEF KeptInv, NotesHonest
  <1>4. CASE Stop
    <2>1. TInv' /\ WInv'
      BY <1>4 DEF Stop, TInv, NoOrphanTicker, WInv
    <2>2. QED
      BY <1>4, <2>1 DEF Stop, KeptInv, NotesHonest
  <1>5. CASE Reboot
    <2>1. UNCHANGED <<pc, job, todo, cancelPowerLock, cancelGamePoll, orchestratorWG,
                      cancelled, ticker, suspendedPIDs, injectedRoutes, run>> /\ run = "down"
      BY <1>5 DEF Reboot
    <2>2. TInv' /\ WInv'
      BY <2>1 DEF KeptInv, TInv, NoOrphanTicker, WInv
    <2>3. QED
      BY <2>1, <2>2 DEF KeptInv, NotesHonest
  <1>6. QED
    BY <1>2, <1>3, <1>4, <1>5 DEF LifeNext

LEMMA KeptAlways == LifeSpec => []KeptInv
  BY KeptStart, KeptInductive, LifeAlways, PTL DEF LifeSpec

\* However often the program ends and is launched again, the mode that a function
\* has set stays what it set, there is one poller at most, for the current mode, ...
THEOREM PollersFollowModeLater == LifeSpec => [](ModeHeld /\ PollerFollowsMode)
  <1>1. LifeInv => ModeHeld /\ PollerFollowsMode
    BY DEF LifeInv, IInv, LockInv
  <1>2. QED
    BY <1>1, LifeAlways, PTL

\* ... no ticker is out of reach and nobody waits in vain, ...
THEOREM NobodyWaitsInVainLater == LifeSpec => [](NoOrphanTicker /\ WaitsEnd)
  <1>1. LifeInv /\ KeptInv => NoOrphanTicker /\ WaitsEnd
    BY WaitersAreFreed DEF LifeInv, KeptInv, TInv
  <1>2. QED
    BY <1>1, LifeAlways, KeptAlways, PTL

\* ... and the notes for the cleanup are true, also after a reboot that took away
\* what was noted.
THEOREM NotesAreHonestLater == LifeSpec => []NotesHonest
  <1>1. KeptInv => NotesHonest
    BY DEF KeptInv
  <1>2. QED
    BY <1>1, KeptAlways, PTL

-----------------------------------------------------------------------------
(* The refinement of ModeSwitch across restarts *)

LEMMA LifeSwitchInit == LifeInit => LifeSwitch!Init
  BY DEF LifeInit, Init, LifeSwitch!Init

\* A step of the orchestrator is the same step of the mode switch when hooks of
\* an earlier process count as well.
LEMMA OrphansSwitch ==
    ASSUME IInv, Next, UNCHANGED orphans
    PROVE  [LifeSwitch!Next]_(LifeSwitch!vars)
  <1>1. [Switch!Next]_(Switch!vars)
    BY NextSwitches
  <1>2. CASE Switch!BeginSwitch
    BY <1>2 DEF Switch!BeginSwitch, LifeSwitch!BeginSwitch, LifeSwitch!Next, Switch!Modes,
               LifeSwitch!Modes, LifeSwitch!vars
  <1>3. CASE Switch!EndSwitch
    BY <1>3 DEF Switch!EndSwitch, LifeSwitch!EndSwitch, LifeSwitch!Next
  <1>4. CASE Switch!Throttle
    BY <1>4 DEF Switch!Throttle, LifeSwitch!Throttle, LifeSwitch!Next
  <1>5. CASE Switch!Release
    BY <1>5 DEF Switch!Release, LifeSwitch!Release, LifeSwitch!Next, LifeSwitch!vars
  <1>6. CASE UNCHANGED Switch!vars
    BY <1>6 DEF Switch!vars, LifeSwitch!vars
  <1>7. QED
    BY <1>1, <1>2, <1>3, <1>4, <1>5, <1>6 DEF Switch!Next

\* The program is a ModeSwitch across crashes and restarts: a step of a process is
\* one of the orchestrator, the end of a process is a restart, and a reboot takes
\* away the hooks that a process which is gone has left.
THEOREM ImplementsRestartingSwitch == LifeSpec => RestartsAsModeSwitch
  <1>1. LifeInv /\ [LifeNext]_allVars => [LifeSwitch!RestartNext]_(LifeSwitch!vars)
    <2> SUFFICES ASSUME LifeInv, [LifeNext]_allVars
                 PROVE  [LifeSwitch!RestartNext]_(LifeSwitch!vars)
      OBVIOUS
    <2> USE DEF clickVars, lockVars, osVars
    <2>1. CASE run = "up" /\ Next /\ UNCHANGED lifeVars
      BY <2>1, OrphansSwitch DEF LifeInv, lifeVars, LifeSwitch!RestartNext
    <2>2. CASE LaunchFirst \/ WriteBaseline \/ LaunchAgain \/ Recreate \/ UNCHANGED allVars
      <3>1. UNCHANGED <<CurrentMode, pc, hooks, orphans>>
        BY <2>2
        DEF LaunchFirst, WriteBaseline, LaunchAgain, Recreate, allVars, vars, lifeVars
      <3>2. QED
        BY <3>1 DEF LifeSwitch!vars
    <2>3. CASE Stop
      <3>1. /\ CurrentMode' = "SafeDefault"
            /\ \A c \in Clicks : pc'[c] # "body"
            /\ hooks' \cup orphans' = hooks \cup orphans
        BY <2>3 DEF Stop
      <3>2. QED
        BY <3>1 DEF LifeSwitch!RestartNext, LifeSwitch!Restart
    <2>4. CASE Reboot
      <3>1. UNCHANGED <<CurrentMode, pc, hooks>> /\ orphans' = {}
        BY <2>4 DEF Reboot
      <3>2. QED
        BY <3>1
        DEF LifeSwitch!RestartNext, LifeSwitch!Next, LifeSwitch!Release, LifeSwitch!vars
    <2>5. QED
      BY <2>1, <2>2, <2>3, <2>4 DEF LifeNext
  <1>2. QED
    BY <1>1, LifeSwitchInit, LifeAlways, PTL
    DEF LifeSpec, RestartsAsModeSwitch, LifeSwitch!RestartingSpec
===============================================================================
