-------------------------- MODULE OrchestratorProofs --------------------------
(***************************************************************************)
(* Theorems about Orchestrator for any number of clicks, goroutine names,  *)
(* routes and failures.                                                    *)
(***************************************************************************)
EXTENDS Orchestrator, TLAPS

-----------------------------------------------------------------------------
(* Types *)

\* Both plans are sequences of stages.
LEMMA PlanType == \A mode \in Modes : Plan(mode) \in Seq(Stages)
<1>1. ModePlan \in Seq(Stages)
  BY DEF ModePlan, Stages, TweakStages, Hooks
<1>2. RestorePlan \in Seq(Stages)
  BY DEF RestorePlan, Stages, TweakStages, Hooks
<1> QED BY <1>1, <1>2 DEF Plan

LEMMA InitType == Init => TypeOK
<1> SUFFICES ASSUME Init PROVE TypeOK
  OBVIOUS
<1>1. todo \in [Clicks -> Seq(Stages)]
  <2>1. << >> \in Seq(Stages)
    OBVIOUS
  <2> QED BY <2>1 DEF Init
<1>2. suspendCount \in 0..MaxSuspend /\ failures \in 0..MaxFailures
  BY MaxSuspendAssumption, MaxFailuresAssumption
     DEF Init, MaxSuspendAssumption, MaxFailuresAssumption
<1>3. /\ pc \in [Clicks -> {"idle", "lock", "wait", "body", "return"}]
      /\ job \in [Clicks -> Modes \cup {"none"}]
      /\ poller \in [Pollers -> {"none", "select", "watch"}]
      /\ undo \in [Pollers -> SUBSET Hooks]
      /\ ticker \in [Tickers -> {"none", "starting", "select", "enforce"}]
  BY DEF Init
<1> QED BY <1>1, <1>2, <1>3 DEF Init, TypeOK, Modes

\* What is left of a plan after a stage is a sequence of stages again.
LEMMA TailType ==
    ASSUME TypeOK, NEW c \in Clicks, todo[c] # <<>>
    PROVE  /\ Head(todo[c]) \in Stages
           /\ [todo EXCEPT ![c] = Tail(todo[c])] \in [Clicks -> Seq(Stages)]
<1>1. todo[c] \in Seq(Stages)
  BY DEF TypeOK
<1>2. Tail(todo[c]) \in Seq(Stages) /\ Head(todo[c]) \in Stages
  BY <1>1
<1> QED BY <1>2 DEF TypeOK

\* The steps of a click up to its first stage, and its return.
LEMMA ClickType ==
    ASSUME TypeOK, NEW c \in Clicks,
           \/ \E mode \in Modes : Press(c, mode)
           \/ Refuse(c) \/ Begin(c) \/ Started(c) \/ Restored(c) \/ Return(c)
    PROVE  TypeOK'
<1> USE DEF vars, clickVars, lockVars, cancelVars, pollerVars, osVars, noteVars, fileVars
<1>1. CASE \E mode \in Modes : Press(c, mode)
  BY <1>1 DEF Press, TypeOK, Modes
<1>2. CASE Refuse(c)
  BY <1>2 DEF Refuse, TypeOK
<1>3. CASE Begin(c)
  BY <1>3 DEF Begin, Stops, TypeOK
<1>4. CASE Started(c)
  <2>1. job[c] \in Modes
    BY <1>4 DEF Started, TypeOK
  <2>2. Plan(job[c]) \in Seq(Stages)
    BY <2>1, PlanType
  <2> QED BY <1>4, <2>1, <2>2 DEF Started, TypeOK
<1>5. CASE Restored(c)
  BY <1>5 DEF Restored, TypeOK
<1>6. CASE Return(c)
  <2>1. <<>> \in Seq(Stages)
    OBVIOUS
  <2> QED BY <1>6, <2>1 DEF Return, TypeOK
<1> QED BY <1>1, <1>2, <1>3, <1>4, <1>5, <1>6

\* The budget of failures is kept.
LEMMA FailuresType ==
    ASSUME TypeOK, Fails \/ UNCHANGED failures
    PROVE  failures' \in 0..MaxFailures
BY MaxFailuresAssumption DEF TypeOK, Fails

\* What a stage changes are tweaks.
LEMMA SetsType == \A stage : Sets(stage) \subseteq Tweaks
  <1> SUFFICES ASSUME NEW stage
               PROVE  Sets(stage) \subseteq Tweaks
    OBVIOUS
  <1>1. CASE stage = "CoreParking"
    BY <1>1 DEF Sets, PlanCores, Tweaks, Recorded
  <1>2. CASE stage = "NetInterface"
    BY <1>2 DEF Sets, Tweaks, Recorded, Reset
  <1>3. CASE stage = "InputLatency"
    BY <1>3 DEF Sets, Tweaks, Recorded, Reset
  <1>4. CASE stage \notin {"CoreParking", "NetInterface", "InputLatency"}
    BY <1>4 DEF Sets
  <1>5. QED
    BY <1>1, <1>2, <1>3, <1>4

\* A stage of a mode, whichever it is.
LEMMA RunStageType ==
    ASSUME TypeOK, NEW c \in Clicks, RunStage(c)
    PROVE  TypeOK'
<1> DEFINE stage == Head(todo[c])
<1> USE DEF lockVars, pollerVars, osVars, noteVars, fileVars
<1>1. /\ pc' \in [Clicks -> {"idle", "lock", "wait", "body", "return"}]
      /\ todo' \in [Clicks -> Seq(Stages)]
      /\ \A d \in Clicks : pc'[d] = "idle" <=> job'[d] = "none"
  BY TailType DEF RunStage, TypeOK
<1>2. CASE UNCHANGED <<cancelPowerLock, orchestratorWG, ticker, osVars, noteVars, failures>>
  BY <1>1, <1>2 DEF RunStage, TypeOK
<1>3. CASE NothingKept(stage)
  BY <1>2, <1>3 DEF NothingKept
<1>4. CASE Tweak(stage)
  <2>1. engaged' \subseteq engaged \cup Sets(stage) /\ (Fails \/ UNCHANGED failures)
    BY <1>4 DEF Tweak
  <2>2. engaged' \subseteq Tweaks /\ failures' \in 0..MaxFailures
    BY <2>1, SetsType, FailuresType DEF TypeOK
  <2> QED BY <1>1, <1>4, <2>2 DEF RunStage, Tweak, TypeOK
<1>5. CASE EngagePowerPlan(stage)
  <2>0. engaged' \in {engaged, engaged \cup {"PowerPlan"}}
    BY <1>5 DEF EngagePowerPlan
  <2>1. engaged' \subseteq Tweaks /\ failures' \in 0..MaxFailures
    <3>1. engaged' \subseteq Tweaks
      BY <2>0 DEF TypeOK, Tweaks, Recorded
    <3>2. failures' \in 0..MaxFailures
      BY <1>5, FailuresType DEF EngagePowerPlan
    <3> QED BY <3>1, <3>2
  <2>2. /\ ticker' \in [Tickers -> {"none", "starting", "select", "enforce"}]
        /\ cancelPowerLock' \in Tickers \cup {None}
        /\ orchestratorWG' \subseteq Pollers \cup Tickers
    BY <1>5 DEF EngagePowerPlan, TypeOK
  <2> QED BY <1>1, <1>5, <2>1, <2>2 DEF RunStage, EngagePowerPlan, TypeOK
<1>6. CASE AddRoutes(stage)
  <2>1. /\ injectedRoutes' \subseteq Routes
        /\ routeTable' \subseteq Routes
        /\ failures' \in 0..MaxFailures
    BY <1>6, MaxFailuresAssumption DEF AddRoutes, TypeOK, Fails
  <2> QED BY <1>1, <1>6, <2>1 DEF RunStage, AddRoutes, TypeOK
<1>7. CASE FreezeServices(job[c], stage)
  <2>1. servicesFrozen' \in BOOLEAN /\ suspendedPIDs' \in BOOLEAN
    BY <1>7 DEF FreezeServices, TypeOK
  <2>2. suspendCount' \in 0..MaxSuspend
    BY <1>7, MaxSuspendAssumption DEF FreezeServices, TypeOK
  <2>3. failures' \in 0..MaxFailures
    BY <1>7, FailuresType DEF FreezeServices
  <2> QED BY <1>1, <1>7, <2>1, <2>2, <2>3 DEF RunStage, FreezeServices, TypeOK
<1> QED BY <1>2, <1>3, <1>4, <1>5, <1>6, <1>7 DEF RunStage

\* The start of a poller.
LEMMA StartPollerType ==
    ASSUME TypeOK, NEW c \in Clicks, StartPoller(c)
    PROVE  TypeOK'
<1> USE DEF lockVars, osVars, noteVars, fileVars
<1>1. /\ pc' \in [Clicks -> {"idle", "lock", "wait", "body", "return"}]
      /\ \A d \in Clicks : pc'[d] = "idle" <=> job'[d] = "none"
  BY DEF StartPoller, TypeOK
<1>2. /\ cancelGamePoll' \in Pollers \cup {None}
      /\ orchestratorWG' \subseteq Pollers \cup Tickers
      /\ poller' \in [Pollers -> {"none", "select", "watch"}]
  BY DEF StartPoller, PollsExtreme, TypeOK
<1>3. isExtreme' \subseteq Pollers
  BY DEF StartPoller, TypeOK
<1> QED BY <1>1, <1>2, <1>3 DEF StartPoller, TypeOK

\* A step of the total restore, whichever it is.
LEMMA RestoreStepType ==
    ASSUME TypeOK, NEW c \in Clicks, RestoreStep(c)
    PROVE  TypeOK'
<1> DEFINE step == Head(todo[c])
<1> USE DEF lockVars, cancelVars, pollerVars, osVars, noteVars, fileVars
<1>1. todo' \in [Clicks -> Seq(Stages)]
  BY TailType DEF RestoreStep
<1>2. CASE RevertTweaks(step)
  <2>1. engaged' \subseteq Tweaks /\ failures' \in 0..MaxFailures
    BY <1>2, MaxFailuresAssumption DEF RevertTweaks, TypeOK, Fails
  <2> QED BY <1>1, <1>2, <2>1 DEF RestoreStep, RevertTweaks, TypeOK
<1>3. CASE RemoveRoutes(step)
  <2>1. routeTable' \subseteq Routes /\ failures' \in 0..MaxFailures
    BY <1>3, MaxFailuresAssumption DEF RemoveRoutes, TypeOK, Fails
  <2> QED BY <1>1, <1>3, <2>1 DEF RestoreStep, RemoveRoutes, TypeOK
<1>4. CASE ResumeServices(step)
  <2>1. servicesFrozen' \in BOOLEAN /\ suspendedPIDs' \in BOOLEAN
    BY <1>4 DEF ResumeServices, TypeOK
  <2>2. suspendCount' \in 0..MaxSuspend
    BY <1>4, MaxSuspendAssumption DEF ResumeServices, TypeOK
  <2>3. failures' \in 0..MaxFailures
    BY <1>4, FailuresType DEF ResumeServices
  <2> QED BY <1>1, <1>4, <2>1, <2>2, <2>3 DEF RestoreStep, ResumeServices, TypeOK
<1>5. CASE RemoveHook(step)
  BY <1>1, <1>5 DEF RestoreStep, RemoveHook, TypeOK
<1> QED BY <1>2, <1>3, <1>4, <1>5 DEF RestoreStep

\* A step of a poller.
LEMMA PollerType ==
    ASSUME TypeOK, NEW p \in Pollers, PollerStep(p)
    PROVE  TypeOK'
<1> USE DEF clickVars, lockVars, cancelVars, noteVars, fileVars
<1>1. CASE Detect(p)
  <2>1. hooks' \subseteq Hooks
    BY <1>1 DEF Detect, TypeOK, Hooks
  <2>2. undo' \in [Pollers -> SUBSET Hooks]
    <3>1. PICK U \in SUBSET Hooks : undo' = [undo EXCEPT ![p] = U]
      BY <1>1 DEF Detect, Hooks
    <3> QED BY <3>1 DEF TypeOK
  <2>3. failures' \in 0..MaxFailures
    BY <1>1, FailuresType DEF Detect
  <2> QED BY <1>1, <2>1, <2>2, <2>3 DEF Detect, TypeOK
<1>2. CASE GameExit(p)
  BY <1>2 DEF GameExit, TypeOK
<1>3. CASE PollerDone(p)
  BY <1>3 DEF PollerDone, Done, CtxDone, TypeOK
<1> QED BY <1>1, <1>2, <1>3 DEF PollerStep

\* A step of a ticker, or of the world outside.
LEMMA TickerType ==
    ASSUME TypeOK, PlanChanged \/ \E t \in Tickers : TickerStep(t)
    PROVE  TypeOK'
<1> USE DEF tickerUnchanged, clickVars, lockVars, cancelVars, pollerVars, noteVars,
            fileVars
<1>1. CASE PlanChanged
  BY <1>1 DEF PlanChanged, TypeOK
<1>2. ASSUME NEW t \in Tickers, TickerStep(t)
      PROVE  TypeOK'
  <2>1. CASE TickerStart(t)
    BY <2>1 DEF TickerStart, Done, TypeOK
  <2>2. CASE Tick(t)
    BY <2>2 DEF Tick, TypeOK
  <2>3. CASE Enforce(t)
    BY <2>3 DEF Enforce, TypeOK, Tweaks, Recorded
  <2>4. CASE TickerDone(t)
    BY <2>4 DEF TickerDone, TypeOK
  <2> QED BY <1>2, <2>1, <2>2, <2>3, <2>4 DEF TickerStep
<1> QED BY <1>1, <1>2

LEMMA StutterType == TypeOK /\ UNCHANGED vars => TypeOK'
BY DEF TypeOK, vars, clickVars, lockVars, cancelVars, pollerVars, osVars, noteVars,
   fileVars

LEMMA NextType == TypeOK /\ [Next]_vars => TypeOK'
<1> SUFFICES ASSUME TypeOK, [Next]_vars PROVE TypeOK'
  OBVIOUS
<1>1. ASSUME NEW c \in Clicks, ClickStep(c) \/ \E mode \in Modes : Press(c, mode)
      PROVE  TypeOK'
  BY <1>1, ClickType, RunStageType, StartPollerType, RestoreStepType DEF ClickStep
<1>2. ASSUME NEW p \in Pollers, PollerStep(p)
      PROVE  TypeOK'
  BY <1>2, PollerType
<1>3. CASE PlanChanged \/ \E t \in Tickers : TickerStep(t)
  BY <1>3, TickerType
<1>4. CASE UNCHANGED vars
  BY <1>4, StutterType
<1> QED BY <1>1, <1>2, <1>3, <1>4 DEF Next

\* Every variable keeps its type in every behaviour: TypeOK of the runs, for
\* any constants the assumptions allow.
THEOREM TypeCorrect == Spec => []TypeOK
BY InitType, NextType, PTL DEF Spec

-----------------------------------------------------------------------------
(* Mutual exclusion and the mode *)

\* The click that is inside a mode function is the one that holds the mutex,
\* its mode is not the current one before the body of the function, and is the
\* current one in it.
LockInv ==
    /\ \A c \in Clicks : pc[c] \in {"wait", "body", "return"} <=> orchestrationMutex = c
    /\ \A c \in Clicks : pc[c] = "wait" => CurrentMode # job[c]
    /\ ModeHeld

\* The pollers that are running are those the WaitGroup counts, and only they
\* have parameters.
CountInv ==
    /\ \A p \in Pollers : Live(p) <=> p \in orchestratorWG
    /\ \A p \in Pollers : p \in isExtreme => Live(p)

\* The inductive invariant behind PollerFollowsMode: the mutex keeps a second
\* function out, the WaitGroup keeps the function from its body while an old
\* poller lives.
IInv == TypeOK /\ LockInv /\ CountInv /\ PollerFollowsMode

LEMMA InitIInv == Init => IInv
<1> SUFFICES ASSUME Init PROVE IInv
  OBVIOUS
<1>1. TypeOK
  BY InitType
<1>2. LockInv
  BY NoneAssumption DEF Init, LockInv, ModeHeld
<1>3. CountInv /\ PollerFollowsMode
  BY DEF Init, CountInv, PollerFollowsMode, Live
<1> QED BY <1>1, <1>2, <1>3 DEF IInv

\* Steps of a click that leave every poller alone.
LEMMA ClickIInv ==
    ASSUME IInv, NEW c \in Clicks,
           \/ \E mode \in Modes : Press(c, mode)
           \/ Refuse(c) \/ Restored(c) \/ Return(c) \/ RestoreStep(c)
    PROVE  LockInv' /\ CountInv' /\ PollerFollowsMode'
<1> USE DEF IInv, lockVars, cancelVars, pollerVars
<1>1. CASE \E mode \in Modes : Press(c, mode)
  BY <1>1 DEF Press, TypeOK, LockInv, ModeHeld, CountInv, PollerFollowsMode, Live
<1>2. CASE Refuse(c)
  BY <1>2 DEF Refuse, TypeOK, LockInv, ModeHeld, CountInv, PollerFollowsMode, Live
<1>3. CASE Restored(c)
  BY <1>3 DEF Restored, TypeOK, LockInv, ModeHeld, CountInv, PollerFollowsMode, Live
<1>4. CASE Return(c)
  BY <1>4, NoneAssumption
     DEF Return, TypeOK, LockInv, ModeHeld, CountInv, PollerFollowsMode, Live
<1>5. CASE RestoreStep(c)
  BY <1>5 DEF RestoreStep, LockInv, ModeHeld, CountInv, PollerFollowsMode, Live
<1> QED BY <1>1, <1>2, <1>3, <1>4, <1>5

\* Taking the mutex cancels the poller there is.
LEMMA BeginIInv ==
    ASSUME IInv, NEW c \in Clicks, Begin(c)
    PROVE  LockInv' /\ CountInv' /\ PollerFollowsMode'
<1> USE DEF IInv, pollerVars
<1>1. LockInv'
  BY NoneAssumption DEF Begin, Unlocked, TypeOK, LockInv, ModeHeld
<1>2. CountInv'
  BY DEF Begin, CountInv, Live
<1>3. PollerFollowsMode'
  BY NoneAssumption DEF Begin, Stops, TypeOK, PollerFollowsMode, Live
<1> QED BY <1>1, <1>2, <1>3

\* The body starts when the WaitGroup is empty, hence without a poller.
LEMMA StartedIInv ==
    ASSUME IInv, NEW c \in Clicks, Started(c)
    PROVE  LockInv' /\ CountInv' /\ PollerFollowsMode'
<1> USE DEF IInv, cancelVars, pollerVars
<1>1. \A p \in Pollers : ~Live(p)
  BY DEF Started, AllDone, CountInv
<1>2. LockInv'
  BY NoneAssumption DEF Started, TypeOK, LockInv, ModeHeld
<1>3. CountInv' /\ PollerFollowsMode'
  BY <1>1 DEF Started, CountInv, PollerFollowsMode, Live
<1> QED BY <1>2, <1>3

\* A stage may start a ticker, never a poller.
LEMMA RunStageIInv ==
    ASSUME IInv, NEW c \in Clicks, RunStage(c)
    PROVE  LockInv' /\ CountInv' /\ PollerFollowsMode'
<1> USE DEF IInv, lockVars, pollerVars
<1>1. orchestratorWG' \cap Pollers = orchestratorWG \cap Pollers
  BY GoroutinesAssumption
     DEF RunStage, NothingKept, Tweak, EngagePowerPlan, AddRoutes, FreezeServices
<1>2. pc' \in {pc, [pc EXCEPT ![c] = "return"]} /\ pc[c] = "body"
  BY DEF RunStage
<1>3. LockInv'
  BY <1>2 DEF RunStage, TypeOK, LockInv, ModeHeld
<1>4. CountInv'
  BY <1>1 DEF RunStage, CountInv, Live
<1>5. PollerFollowsMode'
  BY <1>2 DEF RunStage, TypeOK, PollerFollowsMode, Live
<1> QED BY <1>3, <1>4, <1>5

\* The new poller is the only one, and of the current mode.
LEMMA StartPollerIInv ==
    ASSUME IInv, NEW c \in Clicks, StartPoller(c)
    PROVE  LockInv' /\ CountInv' /\ PollerFollowsMode'
<1> USE DEF IInv, lockVars
<1>1. pc' = [pc EXCEPT ![c] = "return"] /\ pc[c] = "body"
  BY DEF StartPoller
<1>2. LockInv'
  BY <1>1 DEF StartPoller, TypeOK, LockInv, ModeHeld
<1>3. CurrentMode = job[c] /\ job[c] \in {"Extreme", "Balanced"}
  BY <1>1 DEF StartPoller, TypeOK, LockInv, ModeHeld, Modes
<1>4. \A q \in Pollers : ~Live(q) /\ q \notin isExtreme
  BY <1>1 DEF PollerFollowsMode, CountInv
<1>5. \A d \in Clicks : pc'[d] # "body"
  BY <1>1, NoneAssumption DEF TypeOK, LockInv
<1>6. PICK p \in Pollers :
        /\ poller' = [poller EXCEPT ![p] = "select"]
        /\ isExtreme' = IF job[c] = "Extreme" THEN isExtreme \cup {p} ELSE isExtreme
        /\ cancelGamePoll' = p
        /\ orchestratorWG' = orchestratorWG \cup {p}
  BY <1>3 DEF StartPoller, PollsExtreme
<1>7. CurrentMode' = CurrentMode
  BY DEF StartPoller
<1>8. CountInv'
  BY <1>4, <1>6 DEF TypeOK, CountInv, Live
<1>9. PollerFollowsMode'
  <2> SUFFICES ASSUME NEW q \in Pollers, Live(q)'
               PROVE  /\ CurrentMode' = (IF q \in isExtreme' THEN "Extreme" ELSE "Balanced")
                      /\ \A r \in Pollers : Live(r)' => r = q
                      /\ \A d \in Clicks : pc'[d] # "body"
                      /\ q \in cancelled' \/ cancelGamePoll' = q
    BY DEF PollerFollowsMode
  <2>1. q = p /\ \A r \in Pollers : Live(r)' => r = p
    BY <1>4, <1>6 DEF TypeOK, Live
  <2>2. CurrentMode' = (IF p \in isExtreme' THEN "Extreme" ELSE "Balanced")
    BY <1>3, <1>4, <1>6, <1>7
  <2> QED BY <2>1, <2>2, <1>5, <1>6
<1> QED BY <1>2, <1>8, <1>9

\* A poller detects, sees its game exit, or ends.
LEMMA PollerIInv ==
    ASSUME IInv, NEW p \in Pollers, PollerStep(p)
    PROVE  LockInv' /\ CountInv' /\ PollerFollowsMode'
<1> USE DEF IInv, clickVars, lockVars, cancelVars
<1>1. CASE Detect(p)
  BY <1>1 DEF Detect, TypeOK, LockInv, ModeHeld, CountInv, PollerFollowsMode, Live
<1>2. CASE GameExit(p)
  BY <1>2 DEF GameExit, TypeOK, LockInv, ModeHeld, CountInv, PollerFollowsMode, Live
<1>3. CASE PollerDone(p)
  BY <1>3 DEF PollerDone, Done, CtxDone, TypeOK, LockInv, ModeHeld, CountInv, PollerFollowsMode,
              Live
<1> QED BY <1>1, <1>2, <1>3 DEF PollerStep

\* A ticker leaves the pollers, and their places in the WaitGroup, alone.
LEMMA TickerIInv ==
    ASSUME IInv, PlanChanged \/ \E t \in Tickers : TickerStep(t)
    PROVE  LockInv' /\ CountInv' /\ PollerFollowsMode'
<1> USE DEF IInv, tickerUnchanged, clickVars, lockVars, cancelVars, pollerVars
<1>1. CASE PlanChanged
  BY <1>1 DEF PlanChanged, LockInv, ModeHeld, CountInv, PollerFollowsMode, Live
<1>2. ASSUME NEW t \in Tickers, TickerStep(t)
      PROVE  LockInv' /\ CountInv' /\ PollerFollowsMode'
  <2>1. t \notin Pollers
    BY GoroutinesAssumption
  <2>2. CASE TickerStart(t)
    BY <2>1, <2>2 DEF TickerStart, Done, LockInv, ModeHeld, CountInv, PollerFollowsMode, Live
  <2>3. CASE Tick(t)
    BY <2>3 DEF Tick, LockInv, ModeHeld, CountInv, PollerFollowsMode, Live
  <2>4. CASE Enforce(t)
    BY <2>4 DEF Enforce, LockInv, ModeHeld, CountInv, PollerFollowsMode, Live
  <2>5. CASE TickerDone(t)
    BY <2>1, <2>5 DEF TickerDone, LockInv, ModeHeld, CountInv, PollerFollowsMode, Live
  <2> QED BY <1>2, <2>2, <2>3, <2>4, <2>5 DEF TickerStep
<1> QED BY <1>1, <1>2

LEMMA NextIInv == IInv /\ [Next]_vars => IInv'
<1> SUFFICES ASSUME IInv, [Next]_vars PROVE LockInv' /\ CountInv' /\ PollerFollowsMode'
  BY NextType DEF IInv
<1>1. ASSUME NEW c \in Clicks, ClickStep(c) \/ \E mode \in Modes : Press(c, mode)
      PROVE  LockInv' /\ CountInv' /\ PollerFollowsMode'
  BY <1>1, ClickIInv, BeginIInv, StartedIInv, RunStageIInv, StartPollerIInv DEF ClickStep
<1>2. ASSUME NEW p \in Pollers, PollerStep(p)
      PROVE  LockInv' /\ CountInv' /\ PollerFollowsMode'
  BY <1>2, PollerIInv
<1>3. CASE PlanChanged \/ \E t \in Tickers : TickerStep(t)
  BY <1>3, TickerIInv
<1>4. CASE UNCHANGED vars
  BY <1>4 DEF vars, clickVars, lockVars, cancelVars, pollerVars, IInv, LockInv,
              ModeHeld, CountInv, PollerFollowsMode, Live
<1> QED BY <1>1, <1>2, <1>3, <1>4 DEF Next

LEMMA Invariance == Spec => []IInv
BY InitIInv, NextIInv, PTL DEF Spec

\* orchestrationMutex makes every mode change atomic: the mode a running
\* function has set stays what it set (the checks between stages never fail).
THEOREM ModeIsHeld == Spec => []ModeHeld
<1>1. IInv => ModeHeld
  BY DEF IInv, LockInv
<1> QED BY <1>1, Invariance, PTL

\* However the clicks interleave, at most one game poller runs, for the current
\* mode, never beside a mode function at work, and always within reach of
\* stopBackgroundThreads.
THEOREM PollersFollowMode == Spec => []PollerFollowsMode
<1>1. IInv => PollerFollowsMode
  BY DEF IInv
<1> QED BY <1>1, Invariance, PTL

\* No poller throttles background disk access outside Extreme mode.
THEOREM ThrottlesOnlyInExtreme == Spec => ThrottleOnlyInExtreme
<1>1. ASSUME IInv, [Next]_vars, CurrentMode # "Extreme", "IO" \in hooks'
      PROVE  "IO" \in hooks
  <2> USE DEF osVars
  <2>1. ASSUME NEW c \in Clicks, ClickStep(c) \/ \E mode \in Modes : Press(c, mode)
        PROVE  hooks' \subseteq hooks
    BY <2>1 DEF ClickStep, Press, Refuse, Begin, Started, Return, Restored, StartPoller,
       RunStage, NothingKept, Tweak, EngagePowerPlan, AddRoutes, FreezeServices,
       RestoreStep, RevertTweaks, RemoveRoutes, ResumeServices, RemoveHook
  <2>2. ASSUME NEW p \in Pollers, PollerStep(p)
        PROVE  "IO" \in hooks
    <3>1. CASE Detect(p)
      <4>1. Live(p) /\ p \notin isExtreme
        BY <1>1, <3>1 DEF Detect, Live, IInv, PollerFollowsMode
      <4> QED BY <1>1, <3>1, <4>1 DEF Detect
    <3>2. CASE GameExit(p) \/ PollerDone(p)
      BY <1>1, <3>2 DEF GameExit, PollerDone
    <3> QED BY <2>2, <3>1, <3>2 DEF PollerStep
  <2>3. CASE PlanChanged \/ \E t \in Tickers : TickerStep(t)
    BY <1>1, <2>3 DEF PlanChanged, TickerStep, TickerStart, Tick, Enforce, TickerDone,
       tickerUnchanged
  <2>4. CASE UNCHANGED vars
    BY <1>1, <2>4 DEF vars
  <2> QED BY <1>1, <2>1, <2>2, <2>3, <2>4 DEF Next
<1>2. IInv /\ [Next]_vars =>
          [CurrentMode # "Extreme" /\ "IO" \in hooks' => "IO" \in hooks]_vars
  BY <1>1
<1> QED BY <1>2, Invariance, PTL DEF Spec, ThrottleOnlyInExtreme

-----------------------------------------------------------------------------
(* The power plan tickers *)

\* The stage that starts a ticker occurs once at most in s ...
PlanOnce(s) == \A i, j \in 1..Len(s) : s[i] = "PowerPlan" /\ s[j] = "PowerPlan" => i = j

\* ... and is still to come.
PlanAhead(s) == \E i \in 1..Len(s) : s[i] = "PowerPlan"

\* The inductive invariant behind NoOrphanTicker: from stopBackgroundThreads to
\* the stage that sets it, cancelPowerLock is nil.
TInv ==
    /\ NoOrphanTicker
    /\ \A c \in Clicks : pc[c] = "wait" => cancelPowerLock = None
    /\ \A c \in Clicks : pc[c] = "body" /\ job[c] # "SafeDefault" =>
          PlanOnce(todo[c]) /\ (PlanAhead(todo[c]) => cancelPowerLock = None)

\* A stage uses up its own occurrence of the plan, and no other.
LEMMA TailPlan ==
    ASSUME NEW s \in Seq(Stages), s # <<>>, PlanOnce(s)
    PROVE  /\ PlanOnce(Tail(s))
           /\ PlanAhead(Tail(s)) => PlanAhead(s)
           /\ Head(s) = "PowerPlan" => PlanAhead(s) /\ ~PlanAhead(Tail(s))
<1>1. Len(s) \in Nat /\ Len(s) >= 1 /\ Head(s) = s[1] /\ Len(Tail(s)) = Len(s) - 1
  OBVIOUS
<1>2. \A i \in 1..Len(Tail(s)) : Tail(s)[i] = s[i + 1] /\ i + 1 \in 1..Len(s)
  BY <1>1
<1>3. PlanOnce(Tail(s))
  <2> SUFFICES ASSUME NEW i \in 1..Len(Tail(s)), NEW j \in 1..Len(Tail(s)),
                      Tail(s)[i] = "PowerPlan", Tail(s)[j] = "PowerPlan"
               PROVE  i = j
    BY DEF PlanOnce
  <2>1. i + 1 = j + 1
    BY <1>2 DEF PlanOnce
  <2> QED BY <2>1, <1>1
<1>4. PlanAhead(Tail(s)) => \E i \in 1..Len(s) : i # 1 /\ s[i] = "PowerPlan"
  BY <1>1, <1>2 DEF PlanAhead
<1>5. Head(s) = "PowerPlan" => PlanAhead(s) /\ ~PlanAhead(Tail(s))
  BY <1>1, <1>4 DEF PlanOnce, PlanAhead
<1> QED BY <1>3, <1>4, <1>5 DEF PlanAhead

LEMMA ModePlanOnce == PlanOnce(ModePlan)
BY DEF PlanOnce, ModePlan

\* Every step of a click but those of the stages.
LEMMA ClickTInv ==
    ASSUME IInv, TInv, NEW c \in Clicks,
           \/ \E mode \in Modes : Press(c, mode)
           \/ Refuse(c) \/ Begin(c) \/ Started(c) \/ StartPoller(c)
           \/ RestoreStep(c) \/ Restored(c) \/ Return(c)
    PROVE  TInv'
<1> USE DEF TInv, NoOrphanTicker, lockVars, cancelVars, pollerVars
<1>1. TypeOK /\ LockInv
  BY DEF IInv
<1>2. CASE \E mode \in Modes : Press(c, mode)
  BY <1>1, <1>2 DEF Press, TypeOK
<1>3. CASE Refuse(c) \/ Restored(c) \/ Return(c)
  <2>1. /\ UNCHANGED <<cancelPowerLock, ticker, cancelled>>
        /\ \A d \in Clicks : pc'[d] # pc[d] => pc'[d] \in {"idle", "return"}
        /\ \A d \in Clicks : pc'[d] = pc[d] => job'[d] = job[d] /\ todo'[d] = todo[d]
    BY <1>1, <1>3 DEF Refuse, Restored, Return, TypeOK
  <2> QED BY <2>1
<1>4. CASE StartPoller(c)
  BY <1>1, <1>4 DEF StartPoller, TypeOK
<1>5. CASE Begin(c)
  <2>1. NoOrphanTicker'
    BY <1>5, NoneAssumption DEF Begin, Stops
  <2>2. \A d \in Clicks :
            pc'[d] = "body" => pc[d] = "body" /\ job'[d] = job[d] /\ todo'[d] = todo[d]
    BY <1>1, <1>5 DEF Begin, TypeOK
  <2>3. cancelPowerLock' = None
    BY <1>5 DEF Begin
  <2> QED BY <2>1, <2>2, <2>3
<1>6. CASE Started(c)
  <2>1. cancelPowerLock = None /\ UNCHANGED <<cancelPowerLock, ticker, cancelled>>
    BY <1>6 DEF Started
  <2>2. \A d \in Clicks : pc'[d] = "body" /\ job'[d] # "SafeDefault" => PlanOnce(todo'[d])
    BY <1>1, <1>6, ModePlanOnce DEF Started, TypeOK, Plan
  <2> QED BY <2>1, <2>2
<1>7. CASE RestoreStep(c)
  <2>1. UNCHANGED <<pc, job, cancelPowerLock, ticker, cancelled>>
    BY <1>7 DEF RestoreStep
  <2>2. \A d \in Clicks : job[d] # "SafeDefault" => todo'[d] = todo[d]
    BY <1>1, <1>7 DEF RestoreStep, TypeOK
  <2> QED BY <2>1, <2>2
<1> QED BY <1>2, <1>3, <1>4, <1>5, <1>6, <1>7

\* A stage: only the power plan's starts a ticker, and only where there is
\* nothing for cancelPowerLock to forget.
LEMMA RunStageTInv ==
    ASSUME IInv, TInv, NEW c \in Clicks, RunStage(c)
    PROVE  TInv'
<1> DEFINE stage == Head(todo[c])
<1> USE DEF lockVars, pollerVars, osVars, noteVars, fileVars
<1>1. TypeOK /\ LockInv
  BY DEF IInv
<1>2. pc[c] = "body" /\ job[c] # "SafeDefault" /\ todo[c] # <<>> /\ UNCHANGED <<job, cancelled>>
  BY DEF RunStage
<1>3. \A d \in Clicks : pc[d] \in {"wait", "body"} => d = c
  BY <1>1, <1>2 DEF LockInv
<1>4. todo[c] \in Seq(Stages) /\ PlanOnce(todo[c])
  BY <1>1, <1>2 DEF TypeOK, TInv
<1>5. CASE pc' = [pc EXCEPT ![c] = "return"] /\ UNCHANGED <<todo, cancelPowerLock, ticker>>
  BY <1>1, <1>2, <1>5 DEF TypeOK, TInv, NoOrphanTicker
<1>6. CASE UNCHANGED pc /\ todo' = [todo EXCEPT ![c] = Tail(todo[c])]
  <2>1. todo'[c] = Tail(todo[c])
    BY <1>1, <1>6 DEF TypeOK
  <2>2. /\ PlanOnce(todo'[c])
        /\ PlanAhead(todo'[c]) => PlanAhead(todo[c])
        /\ stage = "PowerPlan" => PlanAhead(todo[c]) /\ ~PlanAhead(todo'[c])
    BY <1>2, <1>4, <2>1, TailPlan
  <2>3. CASE UNCHANGED <<cancelPowerLock, ticker>>
    BY <1>2, <1>3, <1>6, <2>2, <2>3 DEF TInv, NoOrphanTicker
  <2>4. ASSUME stage = "PowerPlan", NEW t \in Tickers,
               ticker' = [ticker EXCEPT ![t] = "starting"], cancelPowerLock' = t
        PROVE  TInv'
    <3>1. cancelPowerLock = None
      BY <1>2, <2>2, <2>4 DEF TInv
    <3>2. NoOrphanTicker'
      BY <1>1, <1>2, <2>4, <3>1, NoneAssumption DEF TypeOK, TInv, NoOrphanTicker
    <3> QED BY <1>2, <1>3, <1>6, <2>2, <2>4, <3>2 DEF TInv
  <2> QED BY <1>2, <2>3, <2>4, <1>6, <1>1
          DEF RunStage, NothingKept, Tweak, EngagePowerPlan, AddRoutes, FreezeServices
<1> QED BY <1>5, <1>6 DEF RunStage

\* What the goroutines of a mode do themselves: a name leaves the set of the
\* cancelled ones only when its goroutine ends.
LEMMA GoroutineTInv ==
    ASSUME IInv, TInv,
           \/ \E p \in Pollers : PollerStep(p)
           \/ \E t \in Tickers : TickerStep(t)
           \/ PlanChanged
    PROVE  TInv'
<1> USE DEF clickVars, cancelVars, pollerVars, tickerUnchanged
<1>1. UNCHANGED <<pc, job, todo, cancelPowerLock>>
  BY DEF PollerStep, Detect, GameExit, PollerDone, TickerStep, TickerStart, Tick,
     Enforce, TickerDone, PlanChanged
<1>2. NoOrphanTicker'
  <2>1. ASSUME NEW p \in Pollers, PollerStep(p)
        PROVE  NoOrphanTicker'
    BY <2>1, GoroutinesAssumption
       DEF PollerStep, Detect, GameExit, PollerDone, TInv, NoOrphanTicker
  <2>2. ASSUME NEW t \in Tickers, TickerStep(t)
        PROVE  NoOrphanTicker'
    BY <2>2 DEF IInv, TypeOK, TickerStep, TickerStart, Tick, Enforce, TickerDone,
       TInv, NoOrphanTicker
  <2>3. CASE PlanChanged
    BY <2>3 DEF PlanChanged, TInv, NoOrphanTicker
  <2> QED BY <2>1, <2>2, <2>3
<1> QED BY <1>1, <1>2 DEF TInv

LEMMA InitTInv == Init => TInv
BY DEF Init, TInv, NoOrphanTicker

LEMMA NextTInv == IInv /\ TInv /\ [Next]_vars => TInv'
<1> SUFFICES ASSUME IInv, TInv, [Next]_vars PROVE TInv'
  OBVIOUS
<1>1. ASSUME NEW c \in Clicks, ClickStep(c) \/ \E mode \in Modes : Press(c, mode)
      PROVE  TInv'
  BY <1>1, ClickTInv, RunStageTInv DEF ClickStep
<1>2. CASE \/ \E p \in Pollers : PollerStep(p)
           \/ \E t \in Tickers : TickerStep(t)
           \/ PlanChanged
  BY <1>2, GoroutineTInv
<1>3. CASE UNCHANGED vars
  BY <1>3 DEF vars, clickVars, cancelVars, TInv, NoOrphanTicker
<1> QED BY <1>1, <1>2, <1>3 DEF Next

\* The power plan ticker of a mode is never lost: until it is cancelled it is the
\* one stopBackgroundThreads will cancel, for any number of clicks and in any
\* order of the modes.
THEOREM NoTickerIsOrphaned == Spec => []NoOrphanTicker
<1>1. TInv => NoOrphanTicker
  BY DEF TInv
<1> QED BY <1>1, InitTInv, NextTInv, Invariance, PTL DEF Spec

-----------------------------------------------------------------------------
(* Who waits, and for whom *)

\* What WaitsEnd needs beside IInv: the WaitGroup counts a ticker only until its
\* loop has started, and whoever waits has taken cancelGamePoll with him.
WInv ==
    /\ \A t \in Tickers : t \in orchestratorWG => ticker[t] = "starting"
    /\ \A c \in Clicks : pc[c] = "wait" => cancelGamePoll = None

LEMMA InitWInv == Init => WInv
BY DEF Init, WInv

\* Every step of a click but those that start a goroutine.
LEMMA ClickWInv ==
    ASSUME IInv, WInv, NEW c \in Clicks,
           \/ \E mode \in Modes : Press(c, mode)
           \/ Refuse(c) \/ Begin(c) \/ Started(c)
           \/ RestoreStep(c) \/ Restored(c) \/ Return(c)
    PROVE  WInv'
<1>1. TypeOK
  BY DEF IInv
<1>2. UNCHANGED <<ticker, orchestratorWG>>
  BY DEF Press, Refuse, Begin, Started, RestoreStep, Restored, Return
<1>3. cancelGamePoll' = None \/ UNCHANGED cancelGamePoll
  BY DEF Press, Refuse, Begin, Started, RestoreStep, Restored, Return, cancelVars
<1>4. CASE Begin(c)
  <2>1. cancelGamePoll' = None
    BY <1>4 DEF Begin
  <2> QED BY <1>2, <2>1 DEF WInv
<1>5. CASE ~Begin(c)
  <2>1. \A d \in Clicks : pc'[d] = "wait" => pc[d] = "wait"
    BY <1>1, <1>5 DEF Press, Refuse, Started, RestoreStep, Restored, Return, TypeOK
  <2> QED BY <1>2, <1>3, <2>1 DEF WInv
<1> QED BY <1>4, <1>5

\* A goroutine is started in a body, while nobody waits.
LEMMA StageWInv ==
    ASSUME IInv, WInv, NEW c \in Clicks, RunStage(c) \/ StartPoller(c)
    PROVE  WInv'
<1>1. TypeOK /\ LockInv
  BY DEF IInv
<1>2. /\ pc[c] = "body"
      /\ pc' = pc \/ pc' = [pc EXCEPT ![c] = "return"]
  BY DEF RunStage, StartPoller
<1>3. \A d \in Clicks : pc'[d] # "wait"
  BY <1>1, <1>2, NoneAssumption DEF LockInv, TypeOK
<1>4. ASSUME NEW t \in Tickers, t \in orchestratorWG'
      PROVE  ticker'[t] = "starting"
  <2>1. CASE RunStage(c)
    BY <1>1, <1>4, <2>1
    DEF RunStage, NothingKept, Tweak, EngagePowerPlan, AddRoutes, FreezeServices, WInv, TypeOK
  <2>2. CASE StartPoller(c)
    <3>1. orchestratorWG' \cap Tickers = orchestratorWG \cap Tickers /\ UNCHANGED ticker
      BY <2>2, GoroutinesAssumption DEF StartPoller
    <3> QED BY <1>4, <3>1 DEF WInv
  <2> QED BY <2>1, <2>2
<1> QED BY <1>3, <1>4 DEF WInv

LEMMA GoroutineWInv ==
    ASSUME IInv, WInv,
           \/ \E p \in Pollers : PollerStep(p)
           \/ \E t \in Tickers : TickerStep(t)
           \/ PlanChanged
           \/ UNCHANGED vars
    PROVE  WInv'
<1> USE DEF clickVars, cancelVars, tickerUnchanged
<1>1. UNCHANGED <<pc, cancelGamePoll>>
  BY DEF PollerStep, Detect, GameExit, PollerDone, TickerStep, TickerStart, Tick,
     Enforce, TickerDone, PlanChanged, vars
<1>2. ASSUME NEW p \in Pollers, PollerStep(p)
      PROVE  orchestratorWG' \subseteq orchestratorWG /\ UNCHANGED ticker
  BY <1>2 DEF PollerStep, Detect, GameExit, PollerDone, Done
<1>3. ASSUME NEW t \in Tickers, TickerStep(t), NEW u \in Tickers, u \in orchestratorWG'
      PROVE  ticker'[u] = "starting"
  <2>1. u \in orchestratorWG /\ u # t
    BY <1>3 DEF TickerStep, TickerStart, Tick, Enforce, TickerDone, Done, WInv
  <2>2. ticker'[u] = ticker[u]
    BY <1>3, <2>1 DEF TickerStep, TickerStart, Tick, Enforce, TickerDone, IInv, TypeOK
  <2> QED BY <2>1, <2>2 DEF WInv
<1>4. CASE PlanChanged \/ UNCHANGED vars
  BY <1>4 DEF PlanChanged, vars, WInv
<1> QED BY <1>1, <1>2, <1>3, <1>4 DEF WInv

LEMMA NextWInv == IInv /\ WInv /\ [Next]_vars => WInv'
BY ClickWInv, StageWInv, GoroutineWInv DEF Next, ClickStep

LEMMA WaitersAreFreed ==
    ASSUME IInv, WInv
    PROVE  WaitsEnd
<1>1. TypeOK /\ LockInv
  BY DEF IInv
<1>2. Unlocked \/ \E d \in Clicks : /\ orchestrationMutex = d
                                   /\ pc[d] \in {"wait", "body", "return"}
  BY <1>1 DEF TypeOK, LockInv, Unlocked
<1>3. ASSUME NEW c \in Clicks, pc[c] = "wait", NEW g \in orchestratorWG
      PROVE  \/ g \in Pollers /\ Live(g) /\ g \in cancelled
             \/ g \in Tickers /\ ticker[g] = "starting"
  <2>1. CASE g \in Pollers
    <3>1. Live(g) /\ cancelGamePoll = None
      BY <1>3, <2>1 DEF IInv, CountInv, WInv
    <3>2. g \in cancelled \/ cancelGamePoll = g
      BY <2>1, <3>1 DEF IInv, PollerFollowsMode
    <3> QED BY <2>1, <3>1, <3>2, NoneAssumption
  <2>2. CASE g \in Tickers
    BY <2>2 DEF WInv
  <2> QED BY <1>1, <2>1, <2>2 DEF TypeOK
<1> QED BY <1>2, <1>3 DEF WaitsEnd

\* However many clicks there are, a mode function that waits with the mutex in its
\* hand waits only for goroutines that were told to stop or are about to let go
\* (stopBackgroundThreads), and a click that waits for the mutex waits for one at
\* work: the part of ClickAnswered that is a matter of states.
THEOREM NobodyWaitsInVain == Spec => []WaitsEnd
<1>1. IInv /\ WInv => WaitsEnd
  BY WaitersAreFreed
<1> QED BY <1>1, InitWInv, NextWInv, Invariance, PTL DEF Spec

-----------------------------------------------------------------------------
(* The notes for the cleanup *)

LEMMA ClickNotes ==
    ASSUME TypeOK, NotesHonest, NEW c \in Clicks,
           ClickStep(c) \/ \E mode \in Modes : Press(c, mode)
    PROVE  NotesHonest'
<1> USE DEF osVars, noteVars, NotesHonest
<1>1. CASE \/ \E mode \in Modes : Press(c, mode)
           \/ Refuse(c) \/ Begin(c) \/ Started(c) \/ StartPoller(c)
           \/ Restored(c) \/ Return(c)
  BY <1>1 DEF Press, Refuse, Begin, Started, StartPoller, Restored, Return
<1>2. CASE RunStage(c)
  <2> DEFINE stage == Head(todo[c])
  <2>1. CASE UNCHANGED <<osVars, noteVars>>
    BY <2>1
  <2>2. CASE Tweak(stage) \/ EngagePowerPlan(stage)
    BY <2>2 DEF Tweak, EngagePowerPlan
  <2>3. CASE AddRoutes(stage)
    BY <2>3 DEF AddRoutes, TypeOK
  <2>4. CASE FreezeServices(job[c], stage)
    BY <2>4, MaxSuspendAssumption DEF FreezeServices, TypeOK
  <2> QED BY <1>2, <2>1, <2>2, <2>3, <2>4 DEF RunStage, NothingKept
<1>3. CASE RestoreStep(c)
  <2> DEFINE step == Head(todo[c])
  <2>1. CASE RevertTweaks(step) \/ RemoveHook(step)
    BY <2>1 DEF RevertTweaks, RemoveHook
  <2>2. CASE RemoveRoutes(step)
    BY <2>2 DEF RemoveRoutes
  <2>3. CASE ResumeServices(step)
    BY <2>3 DEF ResumeServices, TypeOK
  <2> QED BY <1>3, <2>1, <2>2, <2>3 DEF RestoreStep
<1> QED BY <1>1, <1>2, <1>3 DEF ClickStep

LEMMA InitNotes == Init => NotesHonest
BY DEF Init, NotesHonest

LEMMA NextNotes == TypeOK /\ NotesHonest /\ [Next]_vars => NotesHonest'
<1> SUFFICES ASSUME TypeOK, NotesHonest, [Next]_vars PROVE NotesHonest'
  OBVIOUS
<1>1. ASSUME NEW c \in Clicks, ClickStep(c) \/ \E mode \in Modes : Press(c, mode)
      PROVE  NotesHonest'
  BY <1>1, ClickNotes
<1>2. ASSUME NEW p \in Pollers, PollerStep(p)
      PROVE  NotesHonest'
  BY <1>2 DEF PollerStep, Detect, GameExit, PollerDone, noteVars, NotesHonest
<1>3. CASE PlanChanged \/ \E t \in Tickers : TickerStep(t)
  BY <1>3 DEF PlanChanged, TickerStep, TickerStart, Tick, Enforce, TickerDone,
     tickerUnchanged, noteVars, NotesHonest
<1>4. CASE UNCHANGED vars
  BY <1>4 DEF vars, osVars, noteVars, NotesHonest
<1> QED BY <1>1, <1>2, <1>3, <1>4 DEF Next

\* The orchestrator never notes a route that is not in the table, nor services
\* as resumable that are not suspended, whatever fails.
THEOREM NotesAreHonest == Spec => []NotesHonest
BY InitNotes, NextNotes, TypeCorrect, PTL DEF Spec

-----------------------------------------------------------------------------
(* The refinement of ModeSwitch *)

\* In the body of a mode function a click is the only one there.
LEMMA OneBody ==
    ASSUME IInv, NEW c \in Clicks, NEW d \in Clicks, pc[c] = "body", pc[d] = "body"
    PROVE  c = d
BY DEF IInv, LockInv

LEMMA SwitchInit == Init => Switch!Init
BY DEF Init, Switch!Init

\* A click's step is a switch beginning or ending, a release, or a stutter.
LEMMA ClickSwitches ==
    ASSUME IInv, NEW c \in Clicks,
           ClickStep(c) \/ \E mode \in Modes : Press(c, mode)
    PROVE  [Switch!Next]_(Switch!vars)
<1> USE DEF Switch!Next, Switch!vars, lockVars, osVars
<1>1. TypeOK
  BY DEF IInv
<1>2. CASE \/ \E mode \in Modes : Press(c, mode)
           \/ Refuse(c) \/ Begin(c) \/ Return(c)
  <2>1. (\E d \in Clicks : pc'[d] = "body") <=> (\E d \in Clicks : pc[d] = "body")
    BY <1>1, <1>2 DEF Press, Refuse, Begin, Return, TypeOK
  <2> QED BY <1>2, <2>1 DEF Press, Refuse, Begin, Return
<1>3. CASE Started(c)
  <2>1. ~\E d \in Clicks : pc[d] = "body"
    BY <1>3, NoneAssumption DEF Started, IInv, LockInv
  <2>2. pc'[c] = "body"
    BY <1>1, <1>3 DEF Started, TypeOK
  <2>3. job[c] \in Switch!Modes \ {CurrentMode}
    BY <1>1, <1>3 DEF Started, TypeOK, Modes, Switch!Modes, IInv, LockInv
  <2> QED BY <1>3, <2>1, <2>2, <2>3 DEF Started, Switch!BeginSwitch
<1>4. ASSUME pc[c] = "body", pc' = [pc EXCEPT ![c] = "return"],
             UNCHANGED <<CurrentMode, hooks>>
      PROVE  Switch!EndSwitch
  <2>1. \E d \in Clicks : pc[d] = "body"
    BY <1>4
  <2>2. ~\E d \in Clicks : pc'[d] = "body"
    BY <1>1, <1>4, OneBody DEF TypeOK
  <2> QED BY <1>4, <2>1, <2>2 DEF Switch!EndSwitch
<1>5. CASE RunStage(c)
  <2>1. /\ pc[c] = "body"
        /\ pc' = [pc EXCEPT ![c] = "return"] \/ UNCHANGED pc
        /\ UNCHANGED <<CurrentMode, hooks>>
    BY <1>5 DEF RunStage, NothingKept, Tweak, EngagePowerPlan, AddRoutes, FreezeServices
  <2> QED BY <2>1, <1>4
<1>6. CASE StartPoller(c) \/ Restored(c)
  BY <1>4, <1>6 DEF StartPoller, Restored
<1>7. CASE RestoreStep(c)
  <2>1. UNCHANGED <<pc, CurrentMode>>
    BY <1>7 DEF RestoreStep
  <2>2. hooks' \subseteq hooks
    BY <1>7 DEF RestoreStep, RevertTweaks, RemoveRoutes, ResumeServices, RemoveHook
  <2>3. CASE ("IO" \in hooks') <=> ("IO" \in hooks)
    BY <2>1, <2>3
  <2>4. CASE "IO" \notin hooks'
    BY <2>1, <2>4 DEF Switch!Release
  <2> QED BY <2>2, <2>3, <2>4
<1> QED BY <1>2, <1>3, <1>5, <1>6, <1>7 DEF ClickStep

\* A poller throttles or releases.
LEMMA PollerSwitches ==
    ASSUME IInv, NEW p \in Pollers, PollerStep(p)
    PROVE  [Switch!Next]_(Switch!vars)
<1> USE DEF Switch!Next, Switch!vars, clickVars, lockVars
<1>1. UNCHANGED <<pc, CurrentMode>>
  BY DEF PollerStep, Detect, GameExit, PollerDone
<1>2. CASE ("IO" \in hooks') <=> ("IO" \in hooks)
  BY <1>1, <1>2
<1>3. CASE "IO" \notin hooks'
  BY <1>1, <1>3 DEF Switch!Release
<1>4. CASE "IO" \in hooks' /\ "IO" \notin hooks
  <2>1. Detect(p) /\ p \in isExtreme
    BY <1>4 DEF PollerStep, Detect, GameExit, PollerDone
  <2>2. CurrentMode = "Extreme" /\ \A c \in Clicks : pc[c] # "body"
    BY <2>1 DEF Detect, Live, IInv, PollerFollowsMode
  <2> QED BY <1>1, <1>4, <2>2 DEF Switch!Throttle
<1> QED BY <1>2, <1>3, <1>4

LEMMA NextSwitches == IInv /\ [Next]_vars => [Switch!Next]_(Switch!vars)
<1> SUFFICES ASSUME IInv, [Next]_vars PROVE [Switch!Next]_(Switch!vars)
  OBVIOUS
<1>1. ASSUME NEW c \in Clicks, ClickStep(c) \/ \E mode \in Modes : Press(c, mode)
      PROVE  [Switch!Next]_(Switch!vars)
  BY <1>1, ClickSwitches
<1>2. ASSUME NEW p \in Pollers, PollerStep(p)
      PROVE  [Switch!Next]_(Switch!vars)
  BY <1>2, PollerSwitches
<1>3. CASE PlanChanged \/ \E t \in Tickers : TickerStep(t)
  BY <1>3 DEF PlanChanged, TickerStep, TickerStart, Tick, Enforce, TickerDone,
     tickerUnchanged, clickVars, lockVars, Switch!vars
<1>4. CASE UNCHANGED vars
  BY <1>4 DEF vars, clickVars, lockVars, osVars, Switch!vars
<1> QED BY <1>1, <1>2, <1>3, <1>4 DEF Next

\* The orchestrator is a ModeSwitch, for any number of clicks: its goroutines
\* together behave like one atomic switch after the other.
THEOREM ImplementsModeSwitch == Spec => SwitchesModes
BY NextSwitches, SwitchInit, Invariance, PTL DEF Spec, SwitchesModes, Switch!Spec
===============================================================================
