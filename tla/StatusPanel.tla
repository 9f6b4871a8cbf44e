----------------------------- MODULE StatusPanel -----------------------------
(***************************************************************************)
(* The labels of the dashboard that show the state of the system           *)
(* (gui/telemetry.go), and the two buttons that toggle a setting and       *)
(* refresh the labels themselves.  Each reader looks at one setting after  *)
(* the other and gives the UI thread what it found, while modes, services, *)
(* settings and the language change: what the UI thread shows last may     *)
(* have been read first.  A value and the text for it are read in one      *)
(* step here.  The label of the memory load is left out.                   *)
(***************************************************************************)
EXTENDS Preferences, FiniteSets

CONSTANTS
    Toggles,        \* goroutines of the two buttons, at most this many pending
    MaxEvents,      \* bound on changes, clicks and failed calls in a behaviour
    MaxUpdates      \* bound on the closures that wait for the UI thread

ASSUME PanelAssumption ==
    /\ MaxEvents \in Nat /\ MaxUpdates \in Nat \ {0}
    /\ "telemetry" \notin Toggles

VARIABLES
    mode,           \* CurrentMode
    setting,        \* the values HwSchMode (HAGS) and AllowAutoGameMode
    stopped,        \* the services that are stopped
    servicesFrozen,
    at,             \* where the telemetry goroutine and each click's are
    seen,           \* what each has found out so far
    ticked,         \* the telemetry goroutine has had a tick
    updates,        \* the closures given to fyne.Do
    labels,
    events

worldVars == <<mode, setting, stopped, servicesFrozen>>
panelVars == <<prefVars, worldVars, at, seen, ticked, updates, labels, events>>

Settings == {"hags", "gameMode"}
PanelModes == {"SafeDefault", "Balanced", "Extreme"}
Services == <<"wuauserv", "DiagTrack", "SysMain">>
Names == {Services[i] : i \in DOMAIN Services}
Readers == {"telemetry"} \cup Toggles
Labels == {"cpu", "hags", "gameMode", "services", "hud"}
Found == [settings |-> <<>>, stopped |-> {}]

\* What the labels show: what was read of the system, in a language.
Values == {"querying", "default", "opt", "partial", "missing", "disabled", "enabled", "error"}
              \cup PanelModes
Shown == Values \X Languages

\* What a reader that has come to a place has found out about the settings.
SettingsFound(place) ==
    CASE place = "get"      -> [button : Settings]
      [] place = "set"      -> [button : Settings, current : {"missing", "disabled", "enabled"}]
      [] place = "hags"     -> [{"cpu"} -> Shown]
      [] place = "gameMode" -> [{"cpu", "hags"} -> Shown]
      [] place = "post"     -> [{"cpu", "hags", "gameMode"} -> Shown]
      [] OTHER              -> {<<>>}

\* The closures: the texts of three labels, or what the UI thread translates.
Updates == [{"cpu", "hags", "gameMode"} -> Shown]
              \cup [{"services"} -> Values] \cup [{"services", "hud"} -> Values]

\* Where the readers are, and what fits that place.  Only the telemetry goroutine
\* asks for the services, and only the buttons set anything.
Places == {"idle", "get", "set", "mode", "hags", "gameMode", "post", "hud"} \cup Names
ReadersOK ==
    /\ at \in [Readers -> Places]
    /\ at["telemetry"] \notin {"idle", "get", "set"}
    /\ \A c \in Toggles : at[c] \notin {"hud"} \cup Names
    /\ seen = [r \in Readers |-> seen[r]]
    /\ \A r \in Readers :
          seen[r] \in [settings : SettingsFound(at[r]), stopped : SUBSET Names]

PanelTypeOK ==
    /\ PrefTypeOK
    /\ mode \in PanelModes
    /\ setting \in [Settings -> {"missing", "disabled", "enabled"}]
    /\ stopped \subseteq Names /\ servicesFrozen \in BOOLEAN
    /\ ReadersOK
    /\ ticked \in BOOLEAN
    /\ updates \in Seq(Updates) /\ Len(updates) <= MaxUpdates
    /\ labels \in [Labels -> Shown]
    /\ events \in 0..MaxEvents

PanelInit ==
    /\ PrefInit
    /\ mode = "SafeDefault"
    /\ setting = [hags |-> "missing", gameMode |-> "disabled"]
    /\ stopped = {} /\ servicesFrozen = FALSE
    /\ at = [r \in Readers |-> IF r = "telemetry" THEN "mode" ELSE "idle"]
    /\ seen = [r \in Readers |-> Found]
    /\ ticked = FALSE
    /\ updates = <<>>
    /\ labels = [l \in Labels |-> <<"querying", "en">>]
    /\ events = 0

Event == events < MaxEvents /\ events' = events + 1

-----------------------------------------------------------------------------
(* What the labels show *)

\* The mode functions, the services and the drop-down of the languages.
WorldChanges ==
    /\ Event
    /\ \/ /\ mode' \in PanelModes \ {mode}
          /\ UNCHANGED <<prefVars, stopped, servicesFrozen>>
       \/ /\ servicesFrozen' = ~servicesFrozen
          /\ UNCHANGED <<prefVars, mode, stopped>>
       \/ /\ \E s \in Names :
                stopped' = IF s \in stopped THEN stopped \ {s} ELSE stopped \cup {s}
          /\ UNCHANGED <<prefVars, mode, servicesFrozen>>
       \/ /\ \E lang \in Languages \ {currentLang} : ChooseLanguage(lang)
          /\ UNCHANGED <<mode, stopped, servicesFrozen>>
    /\ UNCHANGED <<setting, at, seen, ticked, updates, labels>>

\* The button of a setting is pressed.
Click(c, button) ==
    /\ at[c] = "idle"
    /\ Event
    /\ at' = [at EXCEPT ![c] = "get"]
    /\ seen' = [seen EXCEPT ![c].settings = [button |-> button]]
    /\ UNCHANGED <<prefVars, worldVars, ticked, updates, labels>>

\* What a setting whose value cannot be read is taken for.
Unread == [hags |-> "missing", gameMode |-> "disabled"]

\* The goroutine asks for the setting ...
Get(c) ==
    /\ at[c] = "get"
    /\ LET button == seen[c].settings.button
       IN  \/ /\ seen' = [seen EXCEPT ![c].settings =
                             [button |-> button, current |-> setting[button]]]
              /\ UNCHANGED events
           \/ /\ Event
              /\ seen' = [seen EXCEPT ![c].settings =
                             [button |-> button, current |-> Unread[button]]]
    /\ at' = [at EXCEPT ![c] = "set"]
    /\ UNCHANGED <<prefVars, worldVars, ticked, updates, labels>>

\* ... and enables it unless it is enabled.  Then it refreshes the labels.
Set(c) ==
    /\ at[c] = "set"
    /\ LET found == seen[c].settings
       IN  \/ /\ setting' = [setting EXCEPT ![found.button] =
                               IF found.current = "enabled" THEN "disabled" ELSE "enabled"]
              /\ at' = [at EXCEPT ![c] = "mode"]
              /\ UNCHANGED events
           \/ /\ Event
              /\ at' = [at EXCEPT ![c] = "idle"]
              /\ UNCHANGED setting
    /\ seen' = [seen EXCEPT ![c] = Found]
    /\ UNCHANGED <<prefVars, mode, stopped, servicesFrozen, ticked, updates, labels>>

-----------------------------------------------------------------------------
(* The readers *)

Scheduler == IF mode = "SafeDefault" THEN "default" ELSE "opt"

Sees(r, label, value) ==
    seen' = [seen EXCEPT ![r].settings =
                 [l \in DOMAIN @ \cup {label} |-> IF l = label THEN value ELSE @[l]]]

\* updateSchedulerTelemetry reads the mode and two settings.  That the key of
\* HwSchMode cannot be opened is shown as an error, other failures are not.
ReadSettings(r) ==
    /\ \/ /\ at[r] = "mode"
          /\ Sees(r, "cpu", <<Scheduler, currentLang>>)
          /\ at' = [at EXCEPT ![r] = "hags"]
          /\ UNCHANGED events
       \/ /\ at[r] = "hags"
          /\ \/ Sees(r, "hags", <<setting["hags"], currentLang>>) /\ UNCHANGED events
             \/ \E failure \in {"error", Unread["hags"]} :
                   Sees(r, "hags", <<failure, currentLang>>) /\ Event
          /\ at' = [at EXCEPT ![r] = "gameMode"]
       \/ /\ at[r] = "gameMode"
          /\ \/ Sees(r, "gameMode", <<setting["gameMode"], currentLang>>) /\ UNCHANGED events
             \/ Sees(r, "gameMode", <<Unread["gameMode"], currentLang>>) /\ Event
          /\ at' = [at EXCEPT ![r] = "post"]
    /\ UNCHANGED <<prefVars, worldVars, ticked, updates, labels>>

Do(update) ==
    /\ Len(updates) < MaxUpdates
    /\ updates' = Append(updates, update)

PostSettings(r) ==
    /\ at[r] = "post"
    /\ Do(seen[r].settings)
    /\ seen' = [seen EXCEPT ![r] = Found]
    /\ at' = [at EXCEPT ![r] = IF r = "telemetry" THEN Services[1] ELSE "idle"]
    /\ UNCHANGED <<prefVars, worldVars, ticked, labels, events>>

\* A service counts as stopped when it is, and two of them when they are frozen.
\* (Mutant: the flag is not looked at.)
CountsWhenStopped(service) == service \in stopped
Counts(service) == service \in stopped \/ (servicesFrozen /\ service # "SysMain")

\* updateServicesTelemetry asks for one service after the other; one that
\* cannot be asked for does not count.
ReadService(i) ==
    /\ at["telemetry"] = Services[i]
    /\ \/ /\ seen' = [seen EXCEPT !["telemetry"].stopped =
                          IF Counts(Services[i]) THEN @ \cup {Services[i]} ELSE @]
          /\ UNCHANGED events
       \/ Event /\ UNCHANGED seen
    /\ at' = [at EXCEPT !["telemetry"] =
                  IF i < Len(Services) THEN Services[i + 1] ELSE "hud"]
    /\ UNCHANGED <<prefVars, worldVars, ticked, updates, labels>>

Summary(services) ==
    IF services = Names THEN "opt" ELSE IF services = {} THEN "default" ELSE "partial"

\* What it found, or that there was no service manager to ask, is shown with
\* the mode of this moment; the first time there is no mode.  (Two closures in
\* the code, given to the UI thread in a row.)
PostServices ==
    /\ at["telemetry"] = "hud"
    /\ \E found \in {Summary(seen["telemetry"].stopped), "error"} :
          /\ Do([l \in {"services"} \cup (IF ticked THEN {"hud"} ELSE {}) |->
                    IF l = "hud" THEN mode ELSE found])
          /\ IF found = "error" THEN Event ELSE UNCHANGED events
    /\ ticked' = TRUE
    /\ seen' = [seen EXCEPT !["telemetry"] = Found]
    /\ at' = [at EXCEPT !["telemetry"] = "mode"]
    /\ UNCHANGED <<prefVars, worldVars, labels>>

\* The UI thread runs the next closure, which translates two of the texts.
ShowUpdate ==
    /\ updates # <<>>
    /\ labels' = [l \in DOMAIN labels |->
                     IF l \notin DOMAIN Head(updates) THEN labels[l]
                     ELSE IF l \in {"services", "hud"} THEN <<Head(updates)[l], currentLang>>
                     ELSE Head(updates)[l]]
    /\ updates' = Tail(updates)
    /\ UNCHANGED <<prefVars, worldVars, at, seen, ticked, events>>

Reads(r) ==
    \/ ReadSettings(r)
    \/ PostSettings(r)
    \/ r = "telemetry" /\ ((\E i \in DOMAIN Services : ReadService(i)) \/ PostServices)

PanelNext ==
    \/ WorldChanges
    \/ \E c \in Toggles : (\E button \in Settings : Click(c, button)) \/ Get(c) \/ Set(c)
    \/ \E r \in Readers : Reads(r)
    \/ ShowUpdate

\* The telemetry goroutine's ticker goes on and the UI thread runs.
PanelSpec ==
    /\ PanelInit /\ [][PanelNext]_panelVars
    /\ WF_panelVars(Reads("telemetry")) /\ WF_panelVars(ShowUpdate)

-----------------------------------------------------------------------------

Truth == [cpu |-> <<Scheduler, currentLang>>,
          hags |-> <<setting["hags"], currentLang>>,
          gameMode |-> <<setting["gameMode"], currentLang>>,
          services |-> <<Summary({s \in Names : s \in stopped
                                           \/ (servicesFrozen /\ s # "SysMain")}), currentLang>>,
          hud |-> <<mode, currentLang>>]

\* However the readers overtook each other, once nothing changes any more the
\* labels come to show the system as it is, in the language chosen, and stay so.
PanelSettles == <>[](labels = Truth)
=============================================================================
