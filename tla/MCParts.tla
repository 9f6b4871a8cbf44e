------------------------------- MODULE MCParts -------------------------------
(***************************************************************************)
(* The poller in detail and the small components, side by side: they share *)
(* no state and none waits for another, so that each behaviour lets one of *)
(* them move and the others stay as they start.  Its states are the sum of *)
(* theirs.  See MCParts.cfg.                                               *)
(***************************************************************************)
EXTENDS ConsoleFeed, StatusPanel, SysMain, Suspender, JunkCleaner, PowerPlan, GamePoller

VARIABLE part       \* the component that moves

allVars == <<part, feedVars, panelVars, sysMainVars, suspenderVars, cleanerVars,
             planVars, pollerVars>>

\* A language that lacks one of the themes' names.
MCUntranslated == {<<"xx", "theme_dark">>}

\* The tree of JunkCleaner: AppData holds Temp, CrashDumps, a log and a
\* document; Temp a directory, file or link, the directory with a directory and a log
\* in it.  Links lead to Home, where there is an empty directory.
MCOrder == <<"AppData", "CrashDumps", "Home", "Prefetch", "Temp", "album", "app.log", "deep",
             "dir", "doc", "dump", "tmp.log", "Windows">>
MCParent ==
    [p \in {MCOrder[i] : i \in DOMAIN MCOrder} |->
        CASE p \in {"Temp", "CrashDumps", "app.log", "doc"} -> "AppData"
          [] p = "dir" -> "Temp"
          [] p \in {"deep", "tmp.log"} -> "dir"
          [] p = "dump" -> "CrashDumps"
          [] p = "album" -> "Home"
          [] p \in {"AppData", "Home", "Prefetch", "Windows"} -> "outside"]
MCTrees ==
    {[p \in DOMAIN MCParent |->
        CASE p \in {"AppData", "Temp", "CrashDumps", "Home", "album"} -> "dir"
          [] p \in {"app.log", "doc", "dump"} -> "file"
          [] p \in {"Prefetch", "Windows"} -> "none"
          [] p \in DOMAIN inside -> inside[p]] :
        inside \in {f \in [{"dir", "deep", "tmp.log"} -> Kinds] :
                       /\ f["tmp.log"] # "dir"
                       /\ f["dir"] # "dir" => f["deep"] = "none" /\ f["tmp.log"] = "none"}}

\* A component that does not move has one initial state.
Resting ==
    /\ part # "SysMain" => service = "Running" /\ startType = "automatic"
                               /\ recordedStart = "automatic"
    /\ part # "JunkCleaner" => tree["dir"] = "none" /\ lockedPaths = {}
    /\ part # "PowerPlan" => active = Ultimate /\ installed = Plans

Init ==
    /\ part \in {"ConsoleFeed", "Preferences", "StatusPanel", "SysMain", "Suspender",
                 "JunkCleaner", "PowerPlan", "GamePoller"}
    /\ FeedInit /\ PanelInit /\ SysMainInit /\ SuspenderInit /\ CleanerInit /\ PlanInit
    /\ PollerInit /\ Resting

Next ==
    \/ /\ part = "ConsoleFeed" /\ FeedNext
       /\ UNCHANGED <<part, panelVars, sysMainVars, suspenderVars, cleanerVars, planVars,
                      pollerVars>>
    \/ /\ part = "Preferences" /\ PrefNext
       /\ UNCHANGED <<part, worldVars, at, seen, ticked, updates, labels, events,
                      feedVars, sysMainVars, suspenderVars, cleanerVars, planVars,
                      pollerVars>>
    \/ /\ part = "StatusPanel" /\ PanelNext
       /\ UNCHANGED <<part, feedVars, sysMainVars, suspenderVars, cleanerVars, planVars,
                      pollerVars>>
    \/ /\ part = "SysMain" /\ SysMainNext
       /\ UNCHANGED <<part, feedVars, panelVars, suspenderVars, cleanerVars, planVars,
                      pollerVars>>
    \/ /\ part = "Suspender" /\ SuspenderNext
       /\ UNCHANGED <<part, feedVars, panelVars, sysMainVars, cleanerVars, planVars,
                      pollerVars>>
    \/ /\ part = "JunkCleaner" /\ CleanerNext
       /\ UNCHANGED <<part, feedVars, panelVars, sysMainVars, suspenderVars, planVars,
                      pollerVars>>
    \/ /\ part = "PowerPlan" /\ PlanNext
       /\ UNCHANGED <<part, feedVars, panelVars, sysMainVars, suspenderVars, cleanerVars,
                      pollerVars>>
    \/ /\ part = "GamePoller" /\ PollerNext
       /\ UNCHANGED <<part, feedVars, panelVars, sysMainVars, suspenderVars, cleanerVars,
                      planVars>>

\* The fairness of FeedSpec, PanelSpec, SysMainSpec, PlanSpec and PollerSpec, each for the
\* behaviours its component moves in.
Fairness ==
    /\ WF_feedVars(part = "ConsoleFeed" /\ Boot)
    /\ WF_feedVars(part = "ConsoleFeed" /\ Open)
    /\ WF_feedVars(part = "ConsoleFeed" /\ FeedReads)
    /\ WF_feedVars(part = "ConsoleFeed" /\ FeedShows)
    /\ WF_panelVars(part = "StatusPanel" /\ Reads("telemetry"))
    /\ WF_panelVars(part = "StatusPanel" /\ ShowUpdate)
    /\ WF_sysMainVars(part = "SysMain" /\ CallSteps)
    /\ WF_sysMainVars(part = "SysMain" /\ Clock)
    /\ \A t \in LockTickers : WF_planVars(part = "PowerPlan" /\ LoopStep(t))
    /\ WF_pollerVars(part = "GamePoller" /\ PollerWork)
    /\ WF_pollerVars(part = "GamePoller" /\ (GameExited \/ CancelledInGame))
    /\ SF_pollerVars(part = "GamePoller" /\ CancelledInSweep)

Spec == Init /\ [][Next]_allVars /\ Fairness

\* The state of the component that moves has its type, and the texts of the console,
\* those that wait for the UI thread included, are within their limit.
TypesOK ==
    /\ part = "ConsoleFeed" => FeedTypeOK /\ FeedBounded
    /\ part = "Preferences" => PrefTypeOK
    /\ part = "StatusPanel" => PanelTypeOK
    /\ part = "SysMain" => SysMainTypeOK
    /\ part = "Suspender" => SuspenderTypeOK
    /\ part = "JunkCleaner" => CleanerTypeOK
    /\ part = "PowerPlan" => PlanTypeOK
    /\ part = "GamePoller" => PollerTypeOK

\* Once nothing changes any more the labels come to show the system as it is
\* and stay so: StatusPanel's property, of the behaviours in which it moves.
LabelsSettle == part = "StatusPanel" => PanelSettles
=============================================================================
