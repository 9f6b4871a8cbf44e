------------------------------ MODULE PowerPlan ------------------------------
(***************************************************************************)
(* The power plan (syswatch/power.go): EnableUltimatePowerPlan with its    *)
(* three fallbacks, the plan it remembers in ActiveTargetScheme, and the   *)
(* loop of StartPowerLockTicker that activates that plan again when it     *)
(* finds another one active, while the user chooses and deletes plans and  *)
(* modes are switched.  The loop of the mode that is left is cancelled but *)
(* not waited for: it may be in the middle of a tick.                      *)
(***************************************************************************)
EXTENDS Naturals

CONSTANTS
    Ultimate, High,     \* the two plans the program knows the GUID of
    Plans,              \* all plans there may be
    LockTickers,        \* identities for the goroutines of the loop
    MaxPlanEvents       \* bound on switches, choices of the user and failed calls

ASSUME PlansAssumption == {Ultimate, High} \subseteq Plans
ASSUME PlanEventsAssumption == MaxPlanEvents \in Nat

VARIABLES
    installed,      \* the plans there are
    active,         \* the plan that is active, as the registry has it
    original,       \* the one the baseline recorded
    ActiveTargetScheme,
    enabling,       \* where the mode function is
    lock,           \* where each loop is
    lockCancelled,  \* the loops whose context is done
    read,           \* the plan each loop has read, and then activates
    wasActive,      \* the plans that have been active
    planEvents

planVars == <<installed, active, original, ActiveTargetScheme, enabling, lock,
              lockCancelled, read, wasActive, planEvents>>

PlanTypeOK ==
    /\ installed \subseteq Plans /\ wasActive \subseteq Plans
    /\ active \in Plans /\ original \in Plans /\ ActiveTargetScheme \in Plans
    /\ enabling \in {"no", "ultimate", "high", "active", "target", "restore"}
    /\ lock \in [LockTickers -> {"none", "select", "compare", "aim", "set"}]
    /\ lockCancelled \subseteq LockTickers
    /\ read \in [LockTickers -> Plans]
    /\ planEvents \in 0..MaxPlanEvents

PlanInit ==
    /\ active \in Plans
    /\ installed \in {plans \cup {active} : plans \in SUBSET Plans}
    /\ original = active
    /\ ActiveTargetScheme = Ultimate
    /\ enabling = "no"
    /\ lock = [t \in LockTickers |-> "none"]
    /\ lockCancelled = {}
    /\ read = [t \in LockTickers |-> active]
    /\ wasActive = {active}
    /\ planEvents = 0

PlanEvent == planEvents < MaxPlanEvents /\ planEvents' = planEvents + 1

Activates(plan) == active' = plan /\ wasActive' = wasActive \cup {plan}

-----------------------------------------------------------------------------
(* The user *)

UserActivates(plan) ==
    /\ PlanEvent
    /\ plan \in installed \ {active}
    /\ Activates(plan)
    /\ UNCHANGED <<installed, original, ActiveTargetScheme, enabling, lock,
                   lockCancelled, read>>

\* Windows does not delete the plan that is active.
UserDeletes(plan) ==
    /\ PlanEvent
    /\ plan \in installed \ {active}
    /\ installed' = installed \ {plan}
    /\ UNCHANGED <<active, original, ActiveTargetScheme, enabling, lock,
                   lockCancelled, read, wasActive>>

-----------------------------------------------------------------------------
(* The mode functions *)

Started == {t \in LockTickers : lock[t] # "none"}

\* A mode is left: its loop is cancelled.  The next one comes to the power
\* plan, or the restore to its.
SwitchMode ==
    /\ PlanEvent
    /\ enabling = "no"
    /\ lockCancelled' = Started
    /\ enabling' \in {"ultimate", "restore"}
    /\ UNCHANGED <<installed, active, original, ActiveTargetScheme, lock, read, wasActive>>

\* RestoreBaselineState writes the recorded plan to the registry as the active
\* one, even if it has been deleted since.
RestorePlan ==
    /\ enabling = "restore"
    /\ Activates(original)
    /\ enabling' = "no"
    /\ UNCHANGED <<installed, original, ActiveTargetScheme, lock, lockCancelled,
                   read, planEvents>>

\* A call fails: the mode function falls back to the next plan, gives up when it
\* cannot read the active one, and does not restore it when it cannot write it;
\* a loop waits for its next tick.
AfterFailure == [restore |-> "no", ultimate |-> "high", high |-> "active", active |-> "no"]

CallFails ==
    /\ PlanEvent
    /\ \/ enabling \in {"restore", "ultimate", "high", "active"}
          /\ enabling' = AfterFailure[enabling]
          /\ UNCHANGED lock
       \/ \E t \in LockTickers :
             /\ lock[t] = "set"
             /\ lock' = [lock EXCEPT ![t] = "select"]
             /\ UNCHANGED enabling
    /\ UNCHANGED <<installed, active, original, ActiveTargetScheme, lockCancelled,
                   read, wasActive>>

\* powercfg -setactive fails for a plan that is not there.
SetActive(plan, else) ==
    /\ IF plan \in installed
       THEN Activates(plan) /\ ActiveTargetScheme' = plan /\ enabling' = "target"
       ELSE enabling' = else /\ UNCHANGED <<active, wasActive, ActiveTargetScheme>>
    /\ UNCHANGED <<installed, original, lock, lockCancelled, read, planEvents>>

\* EnableUltimatePowerPlan tries the one plan and then the other ...  (The
\* copy of the first that it makes before that has a GUID of its own, which
\* nothing here refers to.)
TryUltimate == enabling = "ultimate" /\ SetActive(Ultimate, "high")

TryHigh == enabling = "high" /\ SetActive(High, "active")

\* Mutant: the fallback does not set the target.
FallbackForgets == ActiveTargetScheme
Fallback == active

\* ... and else keeps the plan that is active.
KeepActive ==
    /\ enabling = "active"
    /\ ActiveTargetScheme' = Fallback
    /\ enabling' = "target"
    /\ UNCHANGED <<installed, active, original, lock, lockCancelled, read,
                   wasActive, planEvents>>

\* With a target, the loop is started.
StartPowerLockTicker(t) ==
    /\ enabling = "target"
    /\ lock[t] = "none"
    /\ lock' = [lock EXCEPT ![t] = "select"]
    /\ enabling' = "no"
    /\ UNCHANGED <<installed, active, original, ActiveTargetScheme, lockCancelled,
                   read, wasActive, planEvents>>

-----------------------------------------------------------------------------
(* The loop *)

\* The context is done, and maybe the ticker as well: either may be chosen.
Stop(t) ==
    /\ lock[t] = "select"
    /\ t \in lockCancelled
    /\ lock' = [lock EXCEPT ![t] = "none"]
    /\ lockCancelled' = lockCancelled \ {t}
    /\ UNCHANGED <<installed, active, original, ActiveTargetScheme, enabling, read,
                   wasActive, planEvents>>

\* A tick: the active plan is read (the tick is over if it cannot be) ...
Tick(t) ==
    /\ lock[t] = "select"
    /\ read' = [read EXCEPT ![t] = active]
    /\ lock' = [lock EXCEPT ![t] = "compare"]
    /\ UNCHANGED <<installed, active, original, ActiveTargetScheme, enabling,
                   lockCancelled, wasActive, planEvents>>

\* Mutant: the comparison is the wrong way round.
IsOther(plan) == plan = ActiveTargetScheme
IsNotTarget(plan) == plan # ActiveTargetScheme

\* ... and compared with the target.  If it is another ...
Compare(t) ==
    /\ lock[t] = "compare"
    /\ lock' = [lock EXCEPT ![t] = IF IsNotTarget(read[t]) THEN "aim" ELSE "select"]
    /\ UNCHANGED <<installed, active, original, ActiveTargetScheme, enabling,
                   lockCancelled, read, wasActive, planEvents>>

\* ... powercfg is started with the target, which a mode function may have
\* changed since ...
Aim(t) ==
    /\ lock[t] = "aim"
    /\ read' = [read EXCEPT ![t] = ActiveTargetScheme]
    /\ lock' = [lock EXCEPT ![t] = "set"]
    /\ UNCHANGED <<installed, active, original, ActiveTargetScheme, enabling,
                   lockCancelled, wasActive, planEvents>>

\* ... which activates it unless it is gone.
Enforce(t) ==
    /\ lock[t] = "set"
    /\ IF read[t] \in installed THEN Activates(read[t]) ELSE UNCHANGED <<active, wasActive>>
    /\ lock' = [lock EXCEPT ![t] = "select"]
    /\ UNCHANGED <<installed, original, ActiveTargetScheme, enabling, lockCancelled,
                   read, planEvents>>

LoopStep(t) == Tick(t) \/ Compare(t) \/ Aim(t) \/ Enforce(t) \/ Stop(t)

PlanNext ==
    \/ \E plan \in Plans : UserActivates(plan) \/ UserDeletes(plan)
    \/ SwitchMode \/ RestorePlan \/ TryUltimate \/ TryHigh \/ KeepActive \/ CallFails
    \/ \E t \in LockTickers : StartPowerLockTicker(t) \/ LoopStep(t)

\* The loops run; the mode functions may take any time.
PlanSpec ==
    /\ PlanInit /\ [][PlanNext]_planVars
    /\ \A t \in LockTickers : WF_planVars(LoopStep(t))

-----------------------------------------------------------------------------
(* Properties *)

Locked == enabling = "no" /\ Started \ lockCancelled # {}

\* Whatever plan the user chooses while a mode is on, the plan that the mode
\* aimed at is active in the end and stays so, unless the user has deleted it;
\* the loop of the mode before cannot keep another one.
PlanDefended ==
    <>[](Locked /\ ActiveTargetScheme \in installed => active = ActiveTargetScheme)

\* No loop aims at a plan that could never be activated: the target is one
\* that was active, even after both of the program's plans have failed.
TargetWasActive == Locked => ActiveTargetScheme \in wasActive
=============================================================================
