------------------------------ MODULE GamePoller ------------------------------
(***************************************************************************)
(* The game poller in detail: startHybridGamePoller of orchestrator.go,    *)
(* with the process hooks it puts on and takes back (booster/affinity.go,  *)
(* booster/scheduler.go, cleaner/iopriority.go), while games and           *)
(* background programs start and exit around it and the system reuses      *)
(* their process ids.  One poller runs at a time (Orchestrator); the       *)
(* records of what was changed outlive it.                                 *)
(***************************************************************************)
EXTENDS Naturals

CONSTANTS
    PIDs,        \* process ids
    MaxStarts,   \* bound on the processes started in a behaviour
    MaxHandles,  \* bound on the handles open on one process
    MaxFailures  \* bound on the system calls that fail in a behaviour

ASSUME BoundsAssumption ==
    MaxStarts \in Nat /\ MaxHandles \in Nat \ {0} /\ MaxFailures \in Nat

VARIABLES
    proc,       \* the process that has each id, NoProc, or Exited
    handles,    \* handles of exit waiters on each process
    pc,         \* where the poller is
    isExtreme,  \* its parameter
    cancelled,  \* its context is done
    gamePID,    \* the game found, or 0
    exited,     \* gameExitChan is closed
    origAffinity,   \* the game's mask, or "error"
    origPriority,   \* the game's priority class, or "error"
    ioThrottled,
    originalBackgroundAffinities,   \* the mask to restore for each id, or "none"
    throttledPIDs,
    restored,   \* a total restore came after the last poller
    starts, failures

envVars    == <<proc, handles, starts>>
localVars  == <<gamePID, exited, origAffinity, origPriority, ioThrottled>>
recordVars == <<originalBackgroundAffinities, throttledPIDs>>
pollerVars == <<envVars, pc, isExtreme, cancelled, localVars, recordVars, restored, failures>>

OwnMasks == {"all", "few"}          \* masks a process may have on its own
Masks == OwnMasks \cup {"bound", "isolated"}    \* cores 0-1, cores 2-N
Classes == {"normal", "high"}
Process == [exe : {"game", "background", "other"}, own : OwnMasks, mask : Masks,
            class : Classes, io : {"normal", "low"}]
NoProc == [exe |-> "none"]          \* the id is free
Exited == [exe |-> "exited"]        \* the process is gone, but a handle keeps its id

Alive(pid) == proc[pid].exe \notin {"none", "exited"}
Background == {pid \in PIDs : proc[pid].exe = "background"}

Working == {"restrict", "isolate", "elevate", "throttle"}

Fails == failures < MaxFailures /\ failures' = failures + 1

PollerTypeOK ==
    /\ proc \in [PIDs -> Process \cup {NoProc, Exited}]
    /\ handles \in [PIDs -> 0..MaxHandles]
    /\ pc \in {"stopped", "select", "watch"} \cup Working
    /\ isExtreme \in BOOLEAN /\ cancelled \in BOOLEAN
    /\ gamePID \in PIDs \cup {0}
    /\ exited \in BOOLEAN /\ ioThrottled \in BOOLEAN /\ restored \in BOOLEAN
    /\ origAffinity \in Masks \cup {"error"}
    /\ origPriority \in Classes \cup {"error"}
    /\ originalBackgroundAffinities \in [PIDs -> Masks \cup {"none"}]
    /\ throttledPIDs \subseteq PIDs
    /\ starts \in 0..MaxStarts /\ failures \in 0..MaxFailures

NoGame == /\ gamePID' = 0
          /\ exited' = FALSE
          /\ origAffinity' = "error"
          /\ origPriority' = "error"
          /\ ioThrottled' = FALSE

PollerInit ==
    /\ proc = [pid \in PIDs |-> NoProc]
    /\ handles = [pid \in PIDs |-> 0]
    /\ pc = "stopped" /\ isExtreme = FALSE /\ cancelled = FALSE
    /\ gamePID = 0 /\ exited = FALSE /\ ioThrottled = FALSE
    /\ origAffinity = "error" /\ origPriority = "error"
    /\ originalBackgroundAffinities = [pid \in PIDs |-> "none"]
    /\ throttledPIDs = {}
    /\ restored = TRUE
    /\ starts = 0 /\ failures = 0

-----------------------------------------------------------------------------
(* The processes of the machine *)

Start(pid, exe, own) ==
    /\ proc[pid] = NoProc
    /\ starts < MaxStarts
    /\ starts' = starts + 1
    /\ proc' = [proc EXCEPT ![pid] = [exe |-> exe, own |-> own, mask |-> own,
                                      class |-> "normal", io |-> "normal"]]
    /\ UNCHANGED <<handles, pc, isExtreme, cancelled, localVars, recordVars, restored, failures>>

\* An open handle keeps the id of a process that has exited.
Exit(pid) ==
    /\ Alive(pid)
    /\ proc' = [proc EXCEPT ![pid] = IF handles[pid] > 0 THEN Exited ELSE NoProc]
    /\ UNCHANGED <<handles, starts, pc, isExtreme, cancelled, localVars, recordVars, restored,
                   failures>>

\* The goroutines waiting for the process wake up, close their handles, and the
\* poller's own one closes gameExitChan.  From then on the id may be reused.
WaiterWakes(pid) ==
    /\ proc[pid] = Exited
    /\ ~(pc \in Working /\ gamePID = pid)
    /\ proc' = [proc EXCEPT ![pid] = NoProc]
    /\ handles' = [handles EXCEPT ![pid] = 0]
    /\ exited' = (exited \/ (pc = "watch" /\ gamePID = pid))
    /\ UNCHANGED <<starts, pc, isExtreme, cancelled, gamePID, origAffinity, origPriority,
                   ioThrottled, recordVars, restored, failures>>

-----------------------------------------------------------------------------
(* The poller *)

\* A mode ends with: go startHybridGamePoller(ctx, isExtreme).
StartPoller(extreme) ==
    /\ pc = "stopped"
    /\ pc' = "select"
    /\ isExtreme' = extreme
    /\ cancelled' = FALSE
    /\ restored' = FALSE
    /\ UNCHANGED <<envVars, localVars, recordVars, failures>>

\* stopBackgroundThreads cancels the context.
Cancel ==
    /\ pc # "stopped"
    /\ ~cancelled
    /\ cancelled' = TRUE
    /\ UNCHANGED <<envVars, pc, isExtreme, localVars, recordVars, restored, failures>>

\* A tick finds a game and opens it; when it cannot be opened, the next tick
\* tries again.
Detect(pid) ==
    /\ pc = "select"
    /\ proc[pid].exe = "game"
    /\ handles[pid] < MaxHandles
    /\ handles' = [handles EXCEPT ![pid] = @ + 1]
    /\ gamePID' = pid
    /\ pc' = "restrict"
    /\ UNCHANGED <<proc, starts, isExtreme, cancelled, exited, origAffinity, origPriority,
                   ioThrottled, recordVars, restored, failures>>

\* A process has no record yet.  (Mutant: the last mask seen is recorded.)
LogAgain(pid) == TRUE
NotLogged(pid) == originalBackgroundAffinities[pid] = "none"

Recorded == {pid \in PIDs : originalBackgroundAffinities[pid] # "none"}

\* Every background process is bound to cores 0 and 1; its mask is recorded
\* unless there is a record for its id already.  A mask that cannot be read is
\* left alone; one that cannot be set has been recorded by then.
RestrictBackgroundProcesses ==
    /\ pc = "restrict"
    /\ pc' = "isolate"
    /\ \E read \in SUBSET Background : \E bound \in SUBSET read :
         /\ IF bound = Background THEN UNCHANGED failures ELSE Fails
         /\ originalBackgroundAffinities' =
               [pid \in PIDs |-> IF pid \in read /\ NotLogged(pid) THEN proc[pid].mask
                                 ELSE originalBackgroundAffinities[pid]]
         /\ proc' = [pid \in PIDs |-> IF pid \in bound
                                      THEN [proc[pid] EXCEPT !.mask = "bound"] ELSE proc[pid]]
    /\ UNCHANGED <<handles, starts, isExtreme, cancelled, localVars, throttledPIDs, restored>>

\* The game moves to the other cores.  It may have exited by now, or deny the
\* access.
IsolateGameProcess ==
    /\ pc = "isolate"
    /\ pc' = "elevate"
    /\ \/ /\ Alive(gamePID)
          /\ origAffinity' = proc[gamePID].mask
          /\ proc' = [proc EXCEPT ![gamePID].mask = "isolated"]
          /\ UNCHANGED failures
       \/ /\ IF Alive(gamePID) THEN Fails ELSE UNCHANGED failures
          /\ origAffinity' = "error"
          /\ UNCHANGED proc
    /\ UNCHANGED <<handles, starts, isExtreme, cancelled, gamePID, exited, origPriority,
                   ioThrottled, recordVars, restored>>

ElevateProcessPriority ==
    /\ pc = "elevate"
    /\ pc' = "throttle"
    /\ \/ /\ Alive(gamePID)
          /\ origPriority' = proc[gamePID].class
          /\ proc' = [proc EXCEPT ![gamePID].class = "high"]
          /\ UNCHANGED failures
       \/ /\ IF Alive(gamePID) THEN Fails ELSE UNCHANGED failures
          /\ origPriority' = "error"
          /\ UNCHANGED proc
    /\ UNCHANGED <<handles, starts, isExtreme, cancelled, gamePID, exited, origAffinity,
                   ioThrottled, recordVars, restored>>

\* In Extreme mode the background processes' disk priority is lowered as well.
\* Then the exit waiter is started.
ThrottleBackgroundIO ==
    /\ pc = "throttle"
    /\ pc' = "watch"
    /\ \/ /\ isExtreme
          /\ ioThrottled' = TRUE
          /\ \E reached \in SUBSET Background :
               /\ IF reached = Background THEN UNCHANGED failures ELSE Fails
               /\ throttledPIDs' = throttledPIDs \cup reached
               /\ proc' = [pid \in PIDs |-> IF pid \in reached
                                            THEN [proc[pid] EXCEPT !.io = "low"] ELSE proc[pid]]
       \/ /\ IF isExtreme THEN Fails ELSE UNCHANGED failures
          /\ UNCHANGED <<ioThrottled, throttledPIDs, proc>>
    /\ UNCHANGED <<handles, starts, isExtreme, cancelled, gamePID, exited, origAffinity,
                   origPriority, originalBackgroundAffinities, restored>>

\* RestoreAffinities and RestoreBackgroundIO address processes by id: they
\* reach whatever process has the id now.  `kept` is the one write that is
\* refused, if any.
Writes == (PIDs \X {"mask", "io"}) \cup {<<>>}
Refused(kept) == IF kept = <<>> THEN UNCHANGED failures ELSE Fails

\* Mutant: no process is written.
WriteNone(pid, p, kept) == p
AffinityRestored(pid, p, kept) ==
    IF pid \in Recorded /\ kept # <<pid, "mask">>
    THEN [p EXCEPT !.mask = originalBackgroundAffinities[pid]] ELSE p

IORestored(pid, p, kept) ==
    IF pid \in throttledPIDs /\ kept # <<pid, "io">> THEN [p EXCEPT !.io = "normal"] ELSE p

\* Mutant: the records are dropped whether the process was reached or not.
DropAll(kept) == {}

\* The records that RestoreBackgroundIO leaves: of processes it did not reach.
StillThrottled(kept) == {pid \in throttledPIDs : ~Alive(pid) \/ kept = <<pid, "io">>}

\* Mutant: the priority is not given back.
MaskRestored(pid, p) ==
    IF pid = gamePID /\ origAffinity # "error" THEN [p EXCEPT !.mask = origAffinity] ELSE p

\* The game gets back the mask and the priority that were read from it.
GameRestored(pid, p) ==
    IF pid # gamePID THEN p
    ELSE [p EXCEPT !.mask = IF origAffinity # "error" THEN origAffinity ELSE @,
                   !.class = IF origPriority # "error" THEN origPriority ELSE @]

\* The affinity records left by a way out of the watch: RestoreAffinities is
\* called only when the game's own mask was set.  (Mutant: all are dropped.)
NoRecords == [pid \in PIDs |-> "none"]
RecordsLeft == IF origAffinity = "error" THEN originalBackgroundAffinities
               ELSE [pid \in PIDs |-> "none"]

\* What both ways out of the watch take back: the masks when the game's own was
\* set, the disk priorities when they were lowered.
Undo ==
    /\ \E kept \in Writes :
         LET masks(pid, p) == IF origAffinity = "error" THEN p ELSE AffinityRestored(pid, p, kept)
             disks(pid, p) == IF ioThrottled THEN IORestored(pid, p, kept) ELSE p
         IN  /\ Refused(kept)
             /\ proc' = [pid \in PIDs |->
                           IF Alive(pid) THEN disks(pid, GameRestored(pid, masks(pid, proc[pid])))
                           ELSE proc[pid]]
             /\ throttledPIDs' = IF ioThrottled THEN StillThrottled(kept) ELSE throttledPIDs
    /\ originalBackgroundAffinities' = RecordsLeft
    /\ NoGame
    /\ UNCHANGED <<handles, starts, isExtreme, restored>>

\* gameExitChan is closed: back to the sweep.
GameExited ==
    /\ pc = "watch"
    /\ exited
    /\ pc' = "select"
    /\ UNCHANGED cancelled
    /\ Undo

\* Mutant: the poller itself waits for the game to exit.
CancelledAfterGame ==
    /\ pc = "watch"
    /\ cancelled /\ exited
    /\ pc' = "stopped"
    /\ cancelled' = FALSE
    /\ Undo

\* The mode is left while the game runs.  The exit waiter stays behind.
CancelledInGame ==
    /\ pc = "watch"
    /\ cancelled
    /\ pc' = "stopped"
    /\ cancelled' = FALSE
    /\ Undo

CancelledInSweep ==
    /\ pc = "select"
    /\ cancelled
    /\ pc' = "stopped"
    /\ cancelled' = FALSE
    /\ UNCHANGED <<envVars, isExtreme, localVars, recordVars, restored, failures>>

\* ApplyTotalRestore, with no poller left: RestoreAffinities(0, 0) and
\* RestoreBackgroundIO().
TotalRestore ==
    /\ pc = "stopped"
    /\ ~restored
    /\ restored' = TRUE
    /\ \E kept \in Writes :
         /\ Refused(kept)
         /\ proc' = [pid \in PIDs |->
                       IF Alive(pid)
                       THEN IORestored(pid, AffinityRestored(pid, proc[pid], kept), kept)
                       ELSE proc[pid]]
         /\ throttledPIDs' = StillThrottled(kept)
    /\ originalBackgroundAffinities' = [pid \in PIDs |-> "none"]
    /\ UNCHANGED <<handles, starts, pc, isExtreme, cancelled, localVars>>

-----------------------------------------------------------------------------
Machine ==
    \E pid \in PIDs :
        \/ \E exe \in {"game", "background", "other"}, own \in OwnMasks : Start(pid, exe, own)
        \/ Exit(pid)
        \/ WaiterWakes(pid)

PollerWork == \/ RestrictBackgroundProcesses \/ IsolateGameProcess
              \/ ElevateProcessPriority \/ ThrottleBackgroundIO

PollerNext ==
    \/ Machine
    \/ \E extreme \in BOOLEAN : StartPoller(extreme)
    \/ Cancel \/ TotalRestore
    \/ \E pid \in PIDs : Detect(pid)
    \/ PollerWork
    \/ GameExited \/ CancelledInGame \/ CancelledInSweep

\* A running goroutine runs on; when its context is done and its game gone or
\* a tick due, select takes either.
PollerSpec ==
    /\ PollerInit /\ [][PollerNext]_pollerVars
    /\ WF_pollerVars(PollerWork)
    /\ WF_pollerVars(GameExited \/ CancelledInGame)
    /\ SF_pollerVars(CancelledInSweep)

-----------------------------------------------------------------------------
(* Properties *)

\* A process whose mask is ours is on the list RestoreAffinities works through,
\* whatever has exited or reused its id in the meantime.
BoundIsRecorded ==
    failures = 0 =>
        \A pid \in PIDs : Alive(pid) /\ proc[pid].mask = "bound" => pid \in Recorded

\* The list never names our own mask as an original one, though processes are
\* bound again when the next game starts.
OwnMaskRecorded ==
    failures = 0 =>
        \A pid \in Recorded : originalBackgroundAffinities[pid] \in OwnMasks

\* A process with lowered disk priority is on the list of RestoreBackgroundIO.
ThrottledIsListed ==
    \A pid \in PIDs : Alive(pid) /\ proc[pid].io = "low" => pid \in throttledPIDs

\* No game keeps its cores or its priority once the poller watches it no more,
\* whether it exits or the mode is left while it runs.
GameReleased ==
    pc \in {"stopped", "select", "restrict"} /\ failures = 0 =>
        \A pid \in PIDs : Alive(pid) =>
            proc[pid].mask # "isolated" /\ proc[pid].class = "normal"

\* After a total restore no process is bound or throttled any more, also when
\* an isolation failed or a game exited while its hooks were put on.
AllReleased ==
    restored /\ failures = 0 =>
        \A pid \in PIDs : Alive(pid) => proc[pid].mask # "bound" /\ proc[pid].io = "normal"

\* A cancelled poller stops, also in the middle of a game.
CancelStops == cancelled ~> pc = "stopped"

\* README.md:85, "Restore affinities, process priority & IO throttling": once the
\* game has exited no process is bound to the first cores any more.
UnboundAfterGame ==
    pc = "select" /\ failures = 0 =>
        \A pid \in PIDs : Alive(pid) => proc[pid].mask # "bound"
===============================================================================
