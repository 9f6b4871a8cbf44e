------------------------------ MODULE PartsProofs ------------------------------
(***************************************************************************)
(* The components side by side, as MCParts composes them: a step of        *)
(* one is a step of itself and leaves the others as they are, so that the  *)
(* inductive invariants of all hold together.                              *)
(***************************************************************************)
EXTENDS MCParts, DashboardProofs, SystemProofs, CleanerProofs, GamePollerProofs

PartsInv ==
    /\ FeedInv /\ PanelInv /\ SysMainInv /\ SuspenderInv /\ PlanInv
    /\ CleanerInv /\ SweepInv /\ PollerInv

LEMMA PartsStart == Init => PartsInv
  BY FeedStart, PanelStart, SysMainStart, SuspenderStart, CleanerStart, SweepStart, PlanStart,
     PollerStart
  DEF Init, PartsInv

\* Whichever component moves, each does a step of its own or none.
LEMMA PartsStep ==
    ASSUME [Next]_allVars
    PROVE  /\ [FeedNext]_feedVars /\ [SysMainNext]_sysMainVars
           /\ [SuspenderNext]_suspenderVars /\ [CleanerNext]_cleanerVars
           /\ [PlanNext]_planVars /\ [PollerNext]_pollerVars
           /\ \/ [PanelNext]_panelVars
              \/ /\ [PrefNext]_prefVars
                 /\ UNCHANGED <<worldVars, at, seen, ticked, updates, labels, events>>
  BY DEF Next, allVars

LEMMA PartsInductive == PartsInv /\ [Next]_allVars => PartsInv'
  <1> SUFFICES ASSUME PartsInv, [Next]_allVars
               PROVE  PartsInv'
    OBVIOUS
  <1>1. FeedInv' /\ SysMainInv' /\ SuspenderInv' /\ PlanInv' /\ PollerInv'
    BY PartsStep, FeedInductive, SysMainInductive, SuspenderInductive, PlanInductive,
       PollerInductive
    DEF PartsInv
  <1>2. CleanerInv' /\ SweepInv'
    BY PartsStep, CleanerInductive, SweepInductive DEF PartsInv
  <1>3. PanelInv'
    BY PartsStep, PanelInductive, PreferencesKeepPanel DEF PartsInv
  <1>4. QED
    BY <1>1, <1>2, <1>3 DEF PartsInv

LEMMA PartsAlways == Spec => []PartsInv
  BY PartsStart, PartsInductive, PTL DEF Spec

\* Whichever component moves, its variables keep their types and the console's
\* texts their limit; so do those of the others, which is more than the run looks at.
THEOREM PartsTypeCorrect == Spec => []TypesOK
  <1>1. PartsInv => TypesOK
    BY FeedShort DEF PartsInv, FeedInv, PanelInv, ThemeInv, SysMainInv, SuspenderInv, CleanerInv,
           PlanInv, PollerInv, TypesOK
  <1>2. QED
    BY <1>1, PartsAlways, PTL

\* What the run of the components checks of them, for any trees, processes,
\* plans, lines and failures.
PartsSafe ==
    /\ FeedInOrder /\ FeedBounded /\ DisabledForGood /\ SysMainBack
    /\ ThawedAfterRestore /\ FrozenIsRemembered /\ OnlyJunk /\ FilesSwept
    /\ TargetWasActive /\ BoundIsRecorded /\ OwnMaskRecorded /\ ThrottledIsListed
    /\ GameReleased /\ AllReleased

\* Each component keeps its promises beside the others: their invariants hold in
\* every state of the composition.
THEOREM PartsKeepPromises == Spec => []PartsSafe
  <1>1. FeedInv => FeedInOrder /\ FeedBounded
    BY FeedOrdered, FeedShort
  <1>2. SysMainInv => DisabledForGood /\ SysMainBack
    BY DEF SysMainInv
  <1>3. SuspenderInv => ThawedAfterRestore /\ FrozenIsRemembered
    BY AllThawed, FrozenRemembered
  <1>4. CleanerInv /\ SweepInv => OnlyJunk /\ FilesSwept
    BY FilesGone DEF CleanerInv
  <1>5. PlanInv => TargetWasActive
    BY DEF PlanInv, AimInv, Aimed, TargetWasActive, Locked
  <1>6. PollerInv => BoundIsRecorded /\ OwnMaskRecorded /\ ThrottledIsListed
                     /\ GameReleased /\ AllReleased
    BY PollerPromises
  <1>7. PartsInv => PartsSafe
    BY <1>1, <1>2, <1>3, <1>4, <1>5, <1>6 DEF PartsInv, PartsSafe
  <1>8. QED
    BY <1>7, PartsAlways, PTL

\* Nor does another language change the theme, whichever component moves.
THEOREM PartsKeepTheme == Spec => ThemeKept
  <1>1. PartsInv /\ [Next]_allVars =>
            [currentLang' # currentLang => appTheme' = appTheme]_prefVars
    BY PartsStep, PanelChoosesLanguage, ThemeStep DEF PartsInv, PanelInv
  <1>2. QED
    BY <1>1, PartsStart, PartsInductive, PTL DEF Spec, ThemeKept
================================================================================
