------------------------------ MODULE Suspender ------------------------------
(***************************************************************************)
(* Freezing the background services and thawing them again                 *)
(* (syswatch/suspender.go), as the mode functions call it under their      *)
(* lock, while the processes of the services and of other programs start   *)
(* and exit.  The service manager is asked for a process id, and only then *)
(* is a process with that id opened and suspended; what is remembered is   *)
(* the id.  Two services may live in one host process.                     *)
(***************************************************************************)
EXTENDS Naturals, FiniteSets

CONSTANTS
    HostIds,        \* process ids, positive numbers
    MaxHosts,       \* bound on the processes started in a behaviour
    MaxCount,       \* the kernel's limit on a suspend count
    MaxDenied       \* bound on the calls that fail in a behaviour

ASSUME SuspenderAssumption ==
    /\ HostIds \subseteq Nat \ {0}
    /\ MaxHosts \in Nat /\ MaxCount \in Nat \ {0} /\ MaxDenied \in Nat

VARIABLES
    alive,          \* the ids of the processes there are
    host,           \* the process of each service, 0 when it is stopped
    count,          \* the suspend count of each process
    engaged,        \* CurrentMode
    doing,          \* what the mode function is doing, and with which service
    todoServices,   \* the services it has still to look at
    servicePID,     \* the id it was told, 0 before that
    suspendedPIDs,  \* the id remembered for each service, or 0
    flag,           \* servicesFrozen
    lost,           \* a call failed, or Balanced cleared the flag of frozen services
    hostsStarted, denied

processVars == <<alive, host, count, hostsStarted>>
suspenderVars == <<processVars, engaged, doing, todoServices, servicePID,
                   suspendedPIDs, flag, lost, denied>>

BackgroundServices == {"DiagTrack", "wuauserv"}

SuspenderTypeOK ==
    /\ alive \subseteq HostIds
    /\ host \in [BackgroundServices -> alive \cup {0}]
    /\ count \in [HostIds -> 0..MaxCount]
    /\ engaged \in {"SafeDefault", "Balanced", "Extreme"}
    /\ doing \in {"nothing", "suspend", "resume"}
    /\ todoServices \subseteq BackgroundServices
    /\ servicePID \in HostIds \cup {0}
    /\ suspendedPIDs \in [BackgroundServices -> HostIds \cup {0}]
    /\ flag \in BOOLEAN /\ lost \in BOOLEAN
    /\ hostsStarted \in 0..MaxHosts /\ denied \in 0..MaxDenied

SuspenderInit ==
    /\ alive = {} /\ hostsStarted = 0
    /\ host = [s \in BackgroundServices |-> 0]
    /\ count = [p \in HostIds |-> 0]
    /\ engaged = "SafeDefault"
    /\ doing = "nothing"
    /\ todoServices = {}
    /\ servicePID = 0
    /\ suspendedPIDs = [s \in BackgroundServices |-> 0]
    /\ flag = FALSE /\ lost = FALSE
    /\ denied = 0

-----------------------------------------------------------------------------
(* Processes *)

\* A process starts under a free id, for a service or for something else.
StartHost(p) ==
    /\ p \notin alive
    /\ hostsStarted < MaxHosts
    /\ hostsStarted' = hostsStarted + 1
    /\ alive' = alive \cup {p}
    /\ \/ \E s \in BackgroundServices : host[s] = 0 /\ host' = [host EXCEPT ![s] = p]
       \/ UNCHANGED host
    /\ UNCHANGED <<count, engaged, doing, todoServices, servicePID, suspendedPIDs,
                   flag, lost, denied>>

\* A service starts in the host process of the other one.
ShareHost(s, other) ==
    /\ host[s] = 0 /\ host[other] # 0
    /\ count[host[other]] = 0
    /\ host' = [host EXCEPT ![s] = host[other]]
    /\ UNCHANGED <<alive, count, hostsStarted, engaged, doing, todoServices, servicePID,
                   suspendedPIDs, flag, lost, denied>>

\* A process exits or is killed, frozen or not; its id is free again.
ExitHost(p) ==
    /\ p \in alive
    /\ alive' = alive \ {p}
    /\ host' = [s \in BackgroundServices |-> IF host[s] = p THEN 0 ELSE host[s]]
    /\ count' = [count EXCEPT ![p] = 0]
    /\ UNCHANGED <<hostsStarted, engaged, doing, todoServices, servicePID, suspendedPIDs,
                   flag, lost, denied>>

Denied == denied < MaxDenied /\ denied' = denied + 1 /\ lost' = TRUE

-----------------------------------------------------------------------------
(* SuspendBackgroundServices, called by ApplyExtremeMode *)

EngageExtreme ==
    /\ doing = "nothing" /\ engaged # "Extreme"
    /\ engaged' = "Extreme"
    /\ \/ /\ doing' = "suspend"
          /\ todoServices' = BackgroundServices
          /\ UNCHANGED <<lost, denied>>
       \/ Denied /\ UNCHANGED <<doing, todoServices>>      \* no SeDebugPrivilege
    /\ UNCHANGED <<processVars, servicePID, suspendedPIDs, flag>>

\* The services are looked at in the order DiagTrack, wuauserv.
Current(s) == s \in todoServices /\ (s = "wuauserv" => "DiagTrack" \notin todoServices)

\* The service manager is asked for the process of the service; a service that
\* is stopped, or cannot be asked for, is skipped.
QueryPID(s) ==
    /\ doing = "suspend" /\ servicePID = 0
    /\ Current(s)
    /\ \/ servicePID' = host[s] /\ UNCHANGED <<lost, denied>>
       \/ servicePID' = 0 /\ Denied
    /\ todoServices' = IF servicePID' = 0 THEN todoServices \ {s} ELSE todoServices
    /\ UNCHANGED <<processVars, engaged, doing, suspendedPIDs, flag>>

\* Mutant: an id that is remembered already is kept.
RememberOnce(s, p) ==
    IF suspendedPIDs[s] = 0 THEN [suspendedPIDs EXCEPT ![s] = p] ELSE suspendedPIDs
Remember(s, p) == [suspendedPIDs EXCEPT ![s] = p]

\* Whatever process has that id now is opened and suspended, and the id is
\* remembered; the service is skipped when that fails.
SuspendPID(s) ==
    /\ doing = "suspend" /\ servicePID # 0
    /\ Current(s)
    /\ \/ /\ servicePID \in alive /\ count[servicePID] < MaxCount
          /\ count' = [count EXCEPT ![servicePID] = @ + 1]
          /\ suspendedPIDs' = Remember(s, servicePID)
          /\ UNCHANGED <<lost, denied>>
       \/ /\ servicePID \notin alive \/ count[servicePID] = MaxCount
          /\ UNCHANGED <<count, suspendedPIDs, lost, denied>>
       \/ Denied /\ UNCHANGED <<count, suspendedPIDs>>
    /\ servicePID' = 0
    /\ todoServices' = todoServices \ {s}
    /\ UNCHANGED <<alive, host, hostsStarted, engaged, doing, flag>>

\* Without an error of the call as a whole, the services count as frozen.
Suspended ==
    /\ doing = "suspend" /\ todoServices = {}
    /\ flag' = TRUE
    /\ doing' = "nothing"
    /\ UNCHANGED <<processVars, engaged, todoServices, servicePID, suspendedPIDs,
                   lost, denied>>

\* ApplyBalancedMode clears the flag, whatever is frozen.
EngageBalanced ==
    /\ doing = "nothing" /\ engaged # "Balanced"
    /\ engaged' = "Balanced"
    /\ flag' = FALSE
    /\ lost' = (lost \/ flag)
    /\ UNCHANGED <<processVars, doing, todoServices, servicePID, suspendedPIDs, denied>>

-----------------------------------------------------------------------------
(* ResumeBackgroundServices, called by ApplyTotalRestore *)

Remembered == {s \in BackgroundServices : suspendedPIDs[s] # 0}

\* It is called only when the flag is set.
EngageRestore ==
    /\ doing = "nothing" /\ engaged # "SafeDefault"
    /\ engaged' = "SafeDefault"
    /\ doing' = IF flag THEN "resume" ELSE "nothing"
    /\ todoServices' = IF flag THEN Remembered ELSE {}
    /\ UNCHANGED <<processVars, servicePID, suspendedPIDs, flag, lost, denied>>

Minus1(n) == IF n = 0 THEN 0 ELSE n - 1

\* The process that has a remembered id now is resumed and the id forgotten;
\* with none, or when that fails, it is kept.  The order is that of a Go map.
ResumePID(s) ==
    /\ doing = "resume"
    /\ s \in todoServices
    /\ LET p == suspendedPIDs[s]
       IN  \/ /\ p \in alive
              /\ count' = [count EXCEPT ![p] = Minus1(@)]
              /\ suspendedPIDs' = [suspendedPIDs EXCEPT ![s] = 0]
              /\ UNCHANGED <<lost, denied>>
           \/ /\ p \notin alive
              /\ UNCHANGED <<count, suspendedPIDs, lost, denied>>
           \/ Denied /\ UNCHANGED <<count, suspendedPIDs>>
    /\ todoServices' = todoServices \ {s}
    /\ UNCHANGED <<alive, host, hostsStarted, engaged, doing, servicePID, flag>>

\* The flag is cleared even if nothing could be resumed.
Resumed ==
    /\ doing = "resume" /\ todoServices = {}
    /\ flag' = FALSE
    /\ doing' = "nothing"
    /\ UNCHANGED <<processVars, engaged, todoServices, servicePID, suspendedPIDs,
                   lost, denied>>

SuspenderNext ==
    \/ \E p \in HostIds : StartHost(p) \/ ExitHost(p)
    \/ \E s, other \in BackgroundServices : ShareHost(s, other)
    \/ EngageExtreme \/ EngageBalanced \/ EngageRestore
    \/ \E s \in BackgroundServices : QueryPID(s) \/ SuspendPID(s) \/ ResumePID(s)
    \/ Suspended \/ Resumed

SuspenderSpec == SuspenderInit /\ [][SuspenderNext]_suspenderVars

-----------------------------------------------------------------------------
(* Properties *)

\* After a restore that follows Extreme directly no process is left frozen,
\* neither a service nor whatever program had the id of one, however processes
\* came and went between the steps, unless a call has failed.
ThawedAfterRestore ==
    doing = "nothing" /\ engaged = "SafeDefault" /\ ~lost =>
        \A p \in alive : count[p] = 0

\* What is frozen can be found again: the id of every frozen process is
\* remembered, for as long as nothing has failed and Balanced was not in between.
FrozenIsRemembered ==
    ~lost => \A p \in alive :
        count[p] <= Cardinality({s \in BackgroundServices : suspendedPIDs[s] = p})
=============================================================================
