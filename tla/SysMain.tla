------------------------------- MODULE SysMain -------------------------------
(***************************************************************************)
(* Stopping the SysMain service and bringing it back (memory/sysmain.go),  *)
(* called by the mode functions one at a time, while the service control   *)
(* manager starts and stops the service in its own time: a stop that takes *)
(* longer than the call waits for, a start by a trigger, a service that    *)
(* ends by itself.  Nobody else changes the start type.                    *)
(***************************************************************************)
EXTENDS Naturals

CONSTANTS
    MaxRefused      \* bound on the requests the manager refuses in a behaviour

ASSUME RefusedAssumption == MaxRefused \in Nat

VARIABLES
    service,        \* the state of the service
    startType,
    recordedStart,  \* its start type in the baseline
    call,           \* where the call is
    timedOut,       \* its five seconds are over
    result,         \* how the last call ended
    clean,          \* nothing came in the way of what it asked for
    refused         \* requests the manager has refused so far

callVars == <<call, timedOut, result>>
sysMainVars == <<service, startType, recordedStart, callVars, clean, refused>>

States == {"Stopped", "StartPending", "Running", "StopPending"}
StartTypes == {"automatic", "manual", "disabled"}

SysMainTypeOK ==
    /\ service \in States
    /\ startType \in StartTypes /\ recordedStart \in StartTypes
    /\ call \in {"none", "config", "query", "control", "poll",
                 "restoreConfig", "restoreQuery", "start"}
    /\ timedOut \in BOOLEAN /\ clean \in BOOLEAN
    /\ result \in {"none", "disabled", "restored", "error"}
    /\ refused \in 0..MaxRefused

\* The program starts on a system that is as the baseline recorded it, or
\* one that an earlier process has tuned.
SysMainInit ==
    /\ service \in {"Stopped", "Running"}
    /\ recordedStart \in StartTypes
    /\ startType \in {recordedStart, "disabled"}
    /\ call = "none" /\ timedOut = FALSE
    /\ result = "none" /\ clean = TRUE
    /\ refused = 0

-----------------------------------------------------------------------------
(* The service control manager *)

\* A pending change is completed, or a start fails; a service ends, or somebody
\* else stops it.
ServiceMoves ==
    /\ \/ service = "StopPending" /\ service' = "Stopped"
       \/ service = "StartPending" /\ service' \in {"Running", "Stopped"}
       \/ service = "Running" /\ service' \in {"StopPending", "Stopped"}
    /\ clean' = (clean /\ (service' = "Running" \/ service = "StopPending"))
    /\ UNCHANGED <<startType, recordedStart, callVars, refused>>

\* A trigger or a user starts the service unless it is disabled.
Triggered ==
    /\ service = "Stopped" /\ startType # "disabled"
    /\ service' = "StartPending"
    /\ UNCHANGED <<startType, recordedStart, callVars, clean, refused>>

Clock ==
    /\ call = "poll" /\ ~timedOut
    /\ timedOut' = TRUE
    /\ UNCHANGED <<service, startType, recordedStart, call, result, clean, refused>>

Goes(where) == call' = where /\ UNCHANGED <<result, timedOut, clean, refused>>
Returns(how) == call' = "none" /\ result' = how /\ UNCHANGED <<timedOut, clean, refused>>

\* The manager refuses a request.  The call returns an error, but for the
\* queries of the two last steps, which it takes for an answer.
Refuse ==
    /\ call # "none"
    /\ refused < MaxRefused
    /\ refused' = refused + 1
    /\ call' = "none"
    /\ result' = CASE call = "poll" -> "disabled"
                   [] call = "restoreQuery" -> "restored"
                   [] OTHER -> "error"
    /\ clean' = (clean /\ call # "restoreQuery")
    /\ UNCHANGED <<service, startType, recordedStart, timedOut>>

-----------------------------------------------------------------------------
(* DisableSysMain *)

Call(which) ==
    /\ call = "none"
    /\ call' = which
    /\ timedOut' = FALSE /\ clean' = TRUE
    /\ UNCHANGED <<service, startType, recordedStart, result, refused>>

\* The service is disabled first ...
DisableStart ==
    /\ call = "config"
    /\ startType' = "disabled"
    /\ Goes("query")
    /\ UNCHANGED <<service, recordedStart>>

\* Mutant: only a service that runs is stopped.
StopsRunning(state) == state = "Running"
StopsIn(state) == state \notin {"Stopped", "StopPending"}

\* ... then asked to stop, if it has not ...
QueryBeforeStop ==
    /\ call = "query"
    /\ IF StopsIn(service) THEN Goes("control") ELSE Returns("disabled")
    /\ UNCHANGED <<service, startType, recordedStart>>

\* ... which the manager refuses for a service that is not running ...
SendStop ==
    /\ call = "control"
    /\ IF service = "Running" THEN service' = "StopPending" /\ Goes("poll")
                              ELSE Returns("error") /\ UNCHANGED service
    /\ UNCHANGED <<startType, recordedStart>>

\* Mutant: the wait has no end.
WaitsForEver == FALSE
GivesUp == timedOut

\* ... and waited for, until it has stopped or the time is over.
Poll ==
    /\ call = "poll"
    /\ \/ service = "Stopped" /\ Returns("disabled")
       \/ service # "Stopped" /\ GivesUp /\ Returns("error")
    /\ UNCHANGED <<service, startType, recordedStart>>

-----------------------------------------------------------------------------
(* RestoreSysMain *)

\* wasRunning, as ApplyTotalRestore computes it from the start type.  (Mutant:
\* only for a service that starts with the system.)
WasAutomatic == recordedStart = "automatic"
WasRunning == recordedStart # "disabled"

\* The start type of the baseline is set; a service that was disabled is left.
RestoreStart ==
    /\ call = "restoreConfig"
    /\ startType' = recordedStart
    /\ IF WasRunning THEN Goes("restoreQuery") ELSE Returns("restored")
    /\ UNCHANGED <<service, recordedStart>>

\* Any other is started unless it runs or is about to.
QueryBeforeStart ==
    /\ call = "restoreQuery"
    /\ IF service \in {"Running", "StartPending"} THEN Returns("restored") ELSE Goes("start")
    /\ UNCHANGED <<service, startType, recordedStart>>

\* The manager refuses to start a service that still stops, or runs by now.
StartService ==
    /\ call = "start"
    /\ IF service = "Stopped" THEN service' = "StartPending" /\ Returns("restored")
                              ELSE Returns("error") /\ UNCHANGED service
    /\ UNCHANGED <<startType, recordedStart>>

CallSteps ==
    \/ DisableStart \/ QueryBeforeStop \/ SendStop \/ Poll
    \/ RestoreStart \/ QueryBeforeStart \/ StartService

SysMainNext ==
    \/ ServiceMoves \/ Triggered \/ Clock \/ Refuse
    \/ Call("config") \/ Call("restoreConfig") \/ CallSteps

\* A call goes on and time passes; the service may hang in any state.
SysMainSpec ==
    /\ SysMainInit /\ [][SysMainNext]_sysMainVars
    /\ WF_sysMainVars(CallSteps) /\ WF_sysMainVars(Clock)

-----------------------------------------------------------------------------
(* Properties *)

\* A call that reports success has disabled the service for good: no trigger
\* that came between its steps runs or will run it.
DisabledForGood ==
    call = "none" /\ result = "disabled" =>
        startType = "disabled" /\ service \in {"Stopped", "StopPending"}

\* A restore that reports success leaves the service as the start type in the
\* baseline has it, running unless that was disabled, however slowly the stop
\* before it came about.
SysMainBack ==
    call = "none" /\ result = "restored" /\ clean =>
        /\ startType = recordedStart
        /\ recordedStart # "disabled" => service \in {"StartPending", "Running"}

\* A call returns, although the service may never stop: the modes wait for it
\* with the lock held.
SysMainReturns == call # "none" ~> call = "none"
=============================================================================
