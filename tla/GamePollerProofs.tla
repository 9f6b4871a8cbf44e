--------------------------- MODULE GamePollerProofs ---------------------------
(***************************************************************************)
(* Theorems about GamePoller, for any process ids and whatever starts,     *)
(* exits and reuses them.                                                  *)
(***************************************************************************)
EXTENDS GamePoller, TLAPS

Hooking == Working \cup {"watch"}

\* From Detect until its exit has been seen, the poller's handle keeps the game's
\* id from being reused; the exit is seen in the watch only.
GameHeld ==
    /\ pc \in Hooking =>
          /\ gamePID \in PIDs
          /\ ~exited => handles[gamePID] > 0 /\ proc[gamePID].exe \in {"game", "exited"}
    /\ exited => pc = "watch"
    /\ restored => pc = "stopped"

\* What the poller's writes have left on a process can be taken back: each of the
\* three has its record, and the game's own masks are gone with the game.
HookIsKnown(pid) ==
    /\ proc[pid].mask = "bound" => proc[pid].exe = "background" /\ pid \in Recorded
    /\ proc[pid].mask = "isolated" =>
          /\ pid = gamePID /\ ~exited
          /\ pc \in {"elevate", "throttle", "watch"}
          /\ origAffinity # "error"
    /\ proc[pid].class = "high" =>
          /\ pid = gamePID /\ ~exited
          /\ pc \in {"throttle", "watch"}
          /\ origPriority # "error"

HooksKnown == failures = 0 => \A pid \in PIDs : Alive(pid) => HookIsKnown(pid)

\* What is recorded as the original state was never set by the poller.
RecordsOwn ==
    failures = 0 =>
        /\ \A pid \in PIDs : originalBackgroundAffinities[pid] \in OwnMasks \cup {"none"}
        /\ origAffinity \in OwnMasks \cup {"error"}
        /\ origPriority \in {"normal", "error"}

PollerInv ==
    /\ PollerTypeOK /\ GameHeld
    /\ HooksKnown /\ RecordsOwn
    /\ ThrottledIsListed /\ AllReleased

-----------------------------------------------------------------------------
(* Processes and the writes that restore them *)

LEMMA AliveIsProcess ==
    ASSUME PollerTypeOK, NEW pid \in PIDs, Alive(pid)
    PROVE  proc[pid] \in Process
  BY DEF PollerTypeOK, Alive, NoProc, Exited

LEMMA GoneIsGone ==
    /\ NoProc.exe = "none" /\ Exited.exe = "exited"
    /\ \A p \in Process : p.exe \in {"game", "background", "other"}
  BY DEF NoProc, Exited, Process

\* A counted failure stays within its bound and cannot be forgotten.
LEMMA FailureCounted ==
    ASSUME failures \in 0..MaxFailures, Fails \/ UNCHANGED failures
    PROVE  /\ failures' \in 0..MaxFailures
           /\ failures' = 0 => failures = 0 /\ UNCHANGED failures /\ ~Fails
  BY BoundsAssumption DEF BoundsAssumption, Fails

\* RestoreAffinities writes the recorded mask and nothing else.
LEMMA AffinityEffect ==
    ASSUME PollerTypeOK, NEW pid \in PIDs, NEW p \in Process, NEW kept
    PROVE  LET q == AffinityRestored(pid, p, kept)
           IN  /\ q \in Process
               /\ q.exe = p.exe /\ q.class = p.class /\ q.io = p.io
               /\ q.mask = IF pid \in Recorded /\ kept # <<pid, "mask">>
                           THEN originalBackgroundAffinities[pid] ELSE p.mask
  <1>1. pid \in Recorded => originalBackgroundAffinities[pid] \in Masks
    BY DEF PollerTypeOK, Recorded
  <1>2. QED
    BY <1>1 DEF AffinityRestored, Process

\* RestoreBackgroundIO writes the disk priority and nothing else.
LEMMA IOEffect ==
    ASSUME NEW pid, NEW p \in Process, NEW kept
    PROVE  LET q == IORestored(pid, p, kept)
           IN  /\ q \in Process
               /\ q.exe = p.exe /\ q.class = p.class /\ q.mask = p.mask
               /\ q.io = IF pid \in throttledPIDs /\ kept # <<pid, "io">>
                         THEN "normal" ELSE p.io
  BY DEF IORestored, Process

\* The game's two settings get back what was read from it.
LEMMA GameEffect ==
    ASSUME PollerTypeOK, NEW pid, NEW p \in Process
    PROVE  LET q == GameRestored(pid, p)
           IN  /\ q \in Process
               /\ q.exe = p.exe /\ q.io = p.io
               /\ q.mask = IF pid = gamePID /\ origAffinity # "error"
                           THEN origAffinity ELSE p.mask
               /\ q.class = IF pid = gamePID /\ origPriority # "error"
                            THEN origPriority ELSE p.class
  BY DEF GameRestored, Process, PollerTypeOK

LEMMA NothingRefused == \A pid, what : <<>> # <<pid, what>>
  OBVIOUS

-----------------------------------------------------------------------------
(* The steps *)

LEMMA PollerStart == PollerInit => PollerInv
  <1> SUFFICES ASSUME PollerInit
               PROVE  PollerInv
    OBVIOUS
  <1>1. PollerTypeOK
    <2>1. 0 \in 0..MaxHandles /\ 0 \in 0..MaxStarts /\ 0 \in 0..MaxFailures
      BY BoundsAssumption DEF BoundsAssumption
    <2>2. QED
      BY <2>1 DEF PollerInit, PollerTypeOK
  <1>2. \A pid \in PIDs : ~Alive(pid)
    BY DEF PollerInit, Alive, NoProc
  <1>3. QED
    BY <1>1, <1>2
    DEF PollerInit, PollerInv, GameHeld, Hooking, Working, HooksKnown, RecordsOwn,
        ThrottledIsListed, AllReleased

LEMMA StartKeeps ==
    ASSUME PollerInv, NEW pid \in PIDs, NEW exe \in {"game", "background", "other"},
           NEW own \in OwnMasks, Start(pid, exe, own)
    PROVE  PollerInv'
  <1> DEFINE new == [exe |-> exe, own |-> own, mask |-> own, class |-> "normal", io |-> "normal"]
  <1>1. PollerTypeOK
    BY DEF PollerInv
  <1>2. new \in Process /\ new.mask \notin {"bound", "isolated"}
    BY DEF Process, Masks, OwnMasks, Classes
  <1>3. proc'[pid] = new /\ \A q \in PIDs \ {pid} : proc'[q] = proc[q]
    BY <1>1 DEF Start, PollerTypeOK
  <1>4. proc[pid].exe = "none"
    BY DEF Start, NoProc
  <1>5. PollerTypeOK'
    <2>1. proc' \in [PIDs -> Process \cup {NoProc, Exited}]
      BY <1>1, <1>2 DEF Start, PollerTypeOK
    <2>2. starts' \in 0..MaxStarts
      BY <1>1, BoundsAssumption DEF Start, PollerTypeOK, BoundsAssumption
    <2>3. QED
      BY <1>1, <2>1, <2>2 DEF Start, PollerTypeOK, localVars, recordVars
  <1>6. GameHeld'
    BY <1>3, <1>4 DEF PollerInv, GameHeld, Start, localVars
  <1>7. HooksKnown'
    BY <1>2, <1>3
    DEF PollerInv, HooksKnown, HookIsKnown, Alive, Start, localVars, recordVars, Recorded
  <1>8. RecordsOwn'
    BY DEF PollerInv, RecordsOwn, Start, localVars, recordVars
  <1>9. ThrottledIsListed' /\ AllReleased'
    BY <1>2, <1>3
    DEF PollerInv, ThrottledIsListed, AllReleased, Alive, Start, recordVars
  <1>10. QED
    BY <1>5, <1>6, <1>7, <1>8, <1>9 DEF PollerInv

LEMMA ExitKeeps ==
    ASSUME PollerInv, NEW pid \in PIDs, Exit(pid) \/ WaiterWakes(pid)
    PROVE  PollerInv'
  <1>1. PollerTypeOK
    BY DEF PollerInv
  <1>2. /\ proc'[pid] \in {NoProc, Exited}
        /\ Exit(pid) /\ handles[pid] > 0 => proc'[pid] = Exited
        /\ \A q \in PIDs \ {pid} : proc'[q] = proc[q]
    BY <1>1 DEF Exit, WaiterWakes, PollerTypeOK
  <1>3. PollerTypeOK'
    <2>1. proc' \in [PIDs -> Process \cup {NoProc, Exited}]
      BY <1>1 DEF Exit, WaiterWakes, PollerTypeOK
    <2>2. handles' \in [PIDs -> 0..MaxHandles]
      BY <1>1, BoundsAssumption DEF Exit, WaiterWakes, PollerTypeOK, BoundsAssumption
    <2>3. QED
      BY <1>1, <2>1, <2>2 DEF Exit, WaiterWakes, PollerTypeOK, localVars, recordVars
  <1>4. GameHeld'
    <2>1. CASE Exit(pid)
      BY <1>2, <2>1, GoneIsGone DEF PollerInv, GameHeld, Exit, localVars
    <2>2. CASE WaiterWakes(pid)
      <3>1. \A q \in PIDs \ {pid} : handles'[q] = handles[q]
        BY <1>1, <2>2 DEF WaiterWakes, PollerTypeOK
      <3>2. pc \in Hooking /\ gamePID = pid => exited'
        BY <2>2 DEF WaiterWakes, Hooking
      <3>3. exited' => pc = "watch"
        BY <2>2 DEF WaiterWakes, PollerInv, GameHeld
      <3>4. ~exited' => ~exited
        BY <2>2 DEF WaiterWakes
      <3>5. QED
        BY <1>2, <2>2, <3>1, <3>2, <3>3, <3>4 DEF PollerInv, GameHeld, WaiterWakes
    <2>3. QED
      BY <2>1, <2>2
  <1>5. ~Alive(pid)' /\ \A q \in PIDs \ {pid} : Alive(q)' => Alive(q) /\ q # pid
    BY <1>2, GoneIsGone DEF Alive
  <1>6. HooksKnown'
    <2>1. CASE Exit(pid)
      BY <1>2, <1>5, <2>1
      DEF PollerInv, HooksKnown, HookIsKnown, Exit, localVars, recordVars, Recorded
    <2>2. CASE WaiterWakes(pid)
      <3>1. exited' /\ ~exited => gamePID = pid
        BY <2>2 DEF WaiterWakes
      <3>2. exited \in BOOLEAN /\ exited' \in BOOLEAN
        BY <1>1, <1>3 DEF PollerTypeOK
      <3>3. exited => exited'
        BY <2>2 DEF WaiterWakes
      <3>4. QED
        BY <1>2, <1>5, <2>2, <3>1, <3>2, <3>3
        DEF PollerInv, HooksKnown, HookIsKnown, WaiterWakes, recordVars, Recorded
    <2>3. QED
      BY <2>1, <2>2
  <1>7. RecordsOwn'
    BY DEF PollerInv, RecordsOwn, Exit, WaiterWakes, localVars, recordVars
  <1>8. ThrottledIsListed' /\ AllReleased'
    BY <1>2, <1>5
    DEF PollerInv, ThrottledIsListed, AllReleased, Exit, WaiterWakes, recordVars
  <1>9. QED
    BY <1>3, <1>4, <1>6, <1>7, <1>8 DEF PollerInv

\* The mode starts and cancels the poller; the poller finds a game.
LEMMA StartPollerKeeps ==
    ASSUME PollerInv, NEW extreme \in BOOLEAN, StartPoller(extreme)
    PROVE  PollerInv'
  <1>1. PollerTypeOK' /\ UNCHANGED <<proc, gamePID, exited, origAffinity, origPriority, handles,
                               throttledPIDs, originalBackgroundAffinities, failures>>
    BY DEF StartPoller, PollerInv, PollerTypeOK, envVars, localVars, recordVars
  <1>2. GameHeld' /\ HooksKnown' /\ RecordsOwn' /\ ThrottledIsListed' /\ AllReleased'
    BY <1>1
    DEF StartPoller, PollerInv, GameHeld, Hooking, Working, HooksKnown, HookIsKnown, Alive,
        Recorded, RecordsOwn, ThrottledIsListed, AllReleased
  <1>3. QED
    BY <1>1, <1>2 DEF PollerInv

LEMMA CancelKeeps ==
    ASSUME PollerInv, Cancel \/ CancelledInSweep
    PROVE  PollerInv'
  <1>1. PollerTypeOK' /\ UNCHANGED <<proc, gamePID, exited, origAffinity, origPriority,
                               handles, restored, throttledPIDs, originalBackgroundAffinities, failures>>
    BY DEF Cancel, CancelledInSweep, PollerInv, PollerTypeOK, envVars, localVars, recordVars
  <1>2. pc' = pc \/ (pc = "select" /\ pc' = "stopped")
    BY DEF Cancel, CancelledInSweep
  <1>3. GameHeld' /\ HooksKnown' /\ RecordsOwn' /\ ThrottledIsListed' /\ AllReleased'
    BY <1>1, <1>2
    DEF PollerInv, GameHeld, Hooking, Working, HooksKnown, HookIsKnown, Alive,
        Recorded, RecordsOwn, ThrottledIsListed, AllReleased
  <1>4. QED
    BY <1>1, <1>3 DEF PollerInv

LEMMA DetectKeeps ==
    ASSUME PollerInv, NEW pid \in PIDs, Detect(pid)
    PROVE  PollerInv'
  <1>1. handles' \in [PIDs -> 0..MaxHandles] /\ handles'[pid] > 0
    BY BoundsAssumption DEF BoundsAssumption, Detect, PollerInv, PollerTypeOK
  <1>2. PollerTypeOK'
    BY <1>1 DEF Detect, PollerInv, PollerTypeOK, recordVars, Working
  <1>3. GameHeld' /\ HooksKnown' /\ RecordsOwn' /\ ThrottledIsListed' /\ AllReleased'
    BY <1>1
    DEF Detect, PollerInv, GameHeld, Hooking, Working, HooksKnown, HookIsKnown, Alive,
        Recorded, recordVars, RecordsOwn, ThrottledIsListed, AllReleased
  <1>4. QED
    BY <1>2, <1>3 DEF PollerInv

\* Every process the bind reaches is recorded by then, with a mask of its own:
\* one that is bound already has its record, and no game is isolated here.
LEMMA RestrictKeeps ==
    ASSUME PollerInv, RestrictBackgroundProcesses
    PROVE  PollerInv'
  <1>1. PICK read \in SUBSET Background, bound \in SUBSET Background :
           /\ bound \subseteq read
           /\ IF bound = Background THEN UNCHANGED failures ELSE Fails
           /\ originalBackgroundAffinities' =
                 [pid \in PIDs |-> IF pid \in read /\ NotLogged(pid) THEN proc[pid].mask
                                   ELSE originalBackgroundAffinities[pid]]
           /\ proc' = [pid \in PIDs |-> IF pid \in bound
                                        THEN [proc[pid] EXCEPT !.mask = "bound"] ELSE proc[pid]]
    BY DEF RestrictBackgroundProcesses
  <1>2. /\ pc = "restrict" /\ pc' = "isolate"
        /\ UNCHANGED <<handles, starts, isExtreme, cancelled, gamePID, exited, origAffinity,
                       origPriority, ioThrottled, throttledPIDs, restored>>
    BY DEF RestrictBackgroundProcesses, localVars
  <1>3. PollerTypeOK /\ failures' \in 0..MaxFailures /\ (failures' = 0 => failures = 0)
    BY <1>1, FailureCounted DEF PollerInv, PollerTypeOK
  <1>4. \A pid \in Background : proc[pid] \in Process
    BY <1>3, AliveIsProcess DEF Background, Alive
  <1>5. \A pid \in PIDs :
           IF pid \in bound
           THEN /\ proc'[pid] \in Process
                /\ proc'[pid].exe = "background" /\ proc'[pid].mask = "bound"
                /\ proc'[pid].class = proc[pid].class /\ proc'[pid].io = proc[pid].io
                /\ pid \in Background /\ pid \in read
           ELSE proc'[pid] = proc[pid]
    BY <1>1, <1>4 DEF Process, Masks, Background
  <1>6. PollerTypeOK'
    <2>1. proc' \in [PIDs -> Process \cup {NoProc, Exited}]
      BY <1>1, <1>3, <1>5 DEF PollerTypeOK
    <2>2. originalBackgroundAffinities' \in [PIDs -> Masks \cup {"none"}]
      <3>1. \A pid \in read : proc[pid].mask \in Masks
        BY <1>4 DEF Process
      <3>2. QED
        BY <1>1, <1>3, <3>1 DEF PollerTypeOK
    <2>3. QED
      BY <1>2, <1>3, <2>1, <2>2 DEF PollerTypeOK, Working
  <1>7. GameHeld'
    BY <1>2, <1>5 DEF PollerInv, GameHeld, Hooking, Working, Background
  <1>8. \A pid \in PIDs : Alive(pid)' => Alive(pid)
    BY <1>5 DEF Alive, Background
  <1>9. Recorded \subseteq Recorded' /\ (failures' = 0 => bound \subseteq Recorded')
    <2>1. \A pid \in read : proc[pid].mask # "none"
      BY <1>4 DEF Process, Masks, OwnMasks
    <2>2. QED
      BY <1>1, <2>1 DEF Recorded, NotLogged, Background
  <1>10. HooksKnown'
    BY <1>2, <1>3, <1>5, <1>8, <1>9 DEF PollerInv, HooksKnown, HookIsKnown
  <1>11. RecordsOwn'
    <2>1. SUFFICES ASSUME failures' = 0
                   PROVE  \A pid \in PIDs : originalBackgroundAffinities'[pid]
                                               \in OwnMasks \cup {"none"}
      BY <1>2, <1>3 DEF PollerInv, RecordsOwn
    <2>2. \A pid \in PIDs : pid \in read /\ NotLogged(pid) => proc[pid].mask \in OwnMasks
      <3>1. SUFFICES ASSUME NEW pid \in PIDs, pid \in read, NotLogged(pid)
                     PROVE  proc[pid].mask \in OwnMasks
        OBVIOUS
      <3>2. HookIsKnown(pid)
        BY <1>3, <2>1, <3>1 DEF PollerInv, HooksKnown, Alive, Background
      <3>3. proc[pid].mask \in Masks
        BY <1>4, <3>1 DEF Process
      <3>4. QED
        BY <1>2, <3>1, <3>2, <3>3 DEF HookIsKnown, NotLogged, Recorded, Masks
    <2>3. QED
      BY <1>1, <1>3, <2>1, <2>2 DEF PollerInv, RecordsOwn
  <1>12. ThrottledIsListed' /\ AllReleased'
    BY <1>2, <1>5, <1>8 DEF PollerInv, ThrottledIsListed, AllReleased, GameHeld
  <1>13. QED
    BY <1>6, <1>7, <1>10, <1>11, <1>12 DEF PollerInv

LEMMA IsolateKeeps ==
    ASSUME PollerInv, IsolateGameProcess
    PROVE  PollerInv'
  <1>1. /\ pc = "isolate" /\ pc' = "elevate"
        /\ UNCHANGED <<handles, starts, isExtreme, cancelled, gamePID, exited, origPriority,
                       ioThrottled, originalBackgroundAffinities, throttledPIDs, restored>>
    BY DEF IsolateGameProcess, recordVars
  <1>2. PollerTypeOK /\ gamePID \in PIDs /\ ~exited
    BY <1>1 DEF PollerInv, GameHeld, Hooking, Working
  <1>3. failures' \in 0..MaxFailures /\ (failures' = 0 => failures = 0)
    BY <1>2, FailureCounted DEF IsolateGameProcess, PollerTypeOK
  <1>4. \A pid \in PIDs \ {gamePID} : proc'[pid] = proc[pid]
    BY <1>2 DEF IsolateGameProcess, PollerTypeOK
  <1>5. CASE /\ Alive(gamePID)
             /\ origAffinity' = proc[gamePID].mask
             /\ proc' = [proc EXCEPT ![gamePID].mask = "isolated"]
    <2>1. proc[gamePID] \in Process /\ proc[gamePID].exe = "game"
      BY <1>1, <1>2, <1>5, AliveIsProcess DEF PollerInv, GameHeld, Hooking, Working, Alive
    <2>2. /\ proc'[gamePID] \in Process
          /\ proc'[gamePID].exe = "game" /\ proc'[gamePID].mask = "isolated"
          /\ proc'[gamePID].class = proc[gamePID].class /\ proc'[gamePID].io = proc[gamePID].io
      BY <1>2, <1>5, <2>1 DEF PollerTypeOK, Process, Masks
    <2>3. origAffinity' \in Masks /\ origAffinity' # "error"
      BY <1>5, <2>1 DEF Process, Masks, OwnMasks
    <2>4. PollerTypeOK'
      <3>1. proc' \in [PIDs -> Process \cup {NoProc, Exited}]
        BY <1>2, <1>5, <2>2, <1>4 DEF PollerTypeOK
      <3>2. QED
        BY <1>1, <1>2, <1>3, <2>3, <3>1 DEF PollerTypeOK, Working
    <2>5. GameHeld'
      BY <1>1, <1>2, <1>4, <2>2 DEF PollerInv, GameHeld, Hooking, Working
    <2>6. \A pid \in PIDs : Alive(pid)' => Alive(pid)
      BY <1>4, <1>5 DEF Alive
    <2>7. HooksKnown'
      BY <1>1, <1>2, <1>3, <1>4, <2>1, <2>2, <2>3, <2>6
      DEF PollerInv, HooksKnown, HookIsKnown, Recorded
    <2>8. RecordsOwn'
      <3>1. failures' = 0 => origAffinity' \in OwnMasks
        BY <1>1, <1>2, <1>3, <1>5, <2>1, <2>3
        DEF PollerInv, HooksKnown, HookIsKnown, Masks
      <3>2. QED
        BY <1>1, <1>3, <3>1 DEF PollerInv, RecordsOwn
    <2>9. ThrottledIsListed' /\ AllReleased'
      BY <1>1, <1>2, <1>4, <2>2, <2>6 DEF PollerInv, ThrottledIsListed, AllReleased, GameHeld
    <2>10. QED
      BY <2>4, <2>5, <2>7, <2>8, <2>9 DEF PollerInv
  <1>6. CASE /\ IF Alive(gamePID) THEN Fails ELSE UNCHANGED failures
             /\ origAffinity' = "error"
             /\ UNCHANGED proc
    <2>1. PollerTypeOK'
      BY <1>1, <1>2, <1>3, <1>6 DEF PollerTypeOK, Working
    <2>2. GameHeld' /\ ThrottledIsListed' /\ AllReleased' /\ RecordsOwn'
      BY <1>1, <1>2, <1>3, <1>6
      DEF PollerInv, GameHeld, Hooking, Working, ThrottledIsListed, AllReleased, Alive, RecordsOwn
    <2>3. HooksKnown'
      BY <1>1, <1>3, <1>6 DEF PollerInv, HooksKnown, HookIsKnown, Recorded, Alive
    <2>4. QED
      BY <2>1, <2>2, <2>3 DEF PollerInv
  <1>7. QED
    BY <1>5, <1>6 DEF IsolateGameProcess

LEMMA ElevateKeeps ==
    ASSUME PollerInv, ElevateProcessPriority
    PROVE  PollerInv'
  <1>1. /\ pc = "elevate" /\ pc' = "throttle"
        /\ UNCHANGED <<handles, starts, isExtreme, cancelled, gamePID, exited, origAffinity,
                       ioThrottled, originalBackgroundAffinities, throttledPIDs, restored>>
    BY DEF ElevateProcessPriority, recordVars
  <1>2. PollerTypeOK /\ gamePID \in PIDs /\ ~exited
    BY <1>1 DEF PollerInv, GameHeld, Hooking, Working
  <1>3. failures' \in 0..MaxFailures /\ (failures' = 0 => failures = 0)
    BY <1>2, FailureCounted DEF ElevateProcessPriority, PollerTypeOK
  <1>4. \A pid \in PIDs \ {gamePID} : proc'[pid] = proc[pid]
    BY <1>2 DEF ElevateProcessPriority, PollerTypeOK
  <1>5. CASE /\ Alive(gamePID)
             /\ origPriority' = proc[gamePID].class
             /\ proc' = [proc EXCEPT ![gamePID].class = "high"]
    <2>1. proc[gamePID] \in Process /\ proc[gamePID].exe = "game"
      BY <1>1, <1>2, <1>5, AliveIsProcess DEF PollerInv, GameHeld, Hooking, Working, Alive
    <2>2. /\ proc'[gamePID] \in Process
          /\ proc'[gamePID].exe = "game" /\ proc'[gamePID].class = "high"
          /\ proc'[gamePID].mask = proc[gamePID].mask /\ proc'[gamePID].io = proc[gamePID].io
      BY <1>2, <1>5, <2>1 DEF PollerTypeOK, Process, Classes
    <2>3. origPriority' \in Classes /\ origPriority' # "error"
      BY <1>5, <2>1 DEF Process, Classes
    <2>4. PollerTypeOK'
      <3>1. proc' \in [PIDs -> Process \cup {NoProc, Exited}]
        BY <1>2, <1>5, <2>2, <1>4 DEF PollerTypeOK
      <3>2. QED
        BY <1>1, <1>2, <1>3, <2>3, <3>1 DEF PollerTypeOK, Working
    <2>5. GameHeld'
      BY <1>1, <1>2, <1>4, <2>2 DEF PollerInv, GameHeld, Hooking, Working
    <2>6. \A pid \in PIDs : Alive(pid)' => Alive(pid)
      BY <1>4, <1>5 DEF Alive
    <2>7. HooksKnown'
      BY <1>1, <1>2, <1>3, <1>4, <2>1, <2>2, <2>3, <2>6
      DEF PollerInv, HooksKnown, HookIsKnown, Recorded
    <2>8. RecordsOwn'
      <3>1. failures' = 0 => origPriority' = "normal"
        BY <1>1, <1>2, <1>3, <1>5, <2>1, <2>3
        DEF PollerInv, HooksKnown, HookIsKnown, Classes
      <3>2. QED
        BY <1>1, <1>3, <3>1 DEF PollerInv, RecordsOwn
    <2>9. ThrottledIsListed' /\ AllReleased'
      BY <1>1, <1>2, <1>4, <2>2, <2>6 DEF PollerInv, ThrottledIsListed, AllReleased, GameHeld
    <2>10. QED
      BY <2>4, <2>5, <2>7, <2>8, <2>9 DEF PollerInv
  <1>6. CASE /\ IF Alive(gamePID) THEN Fails ELSE UNCHANGED failures
             /\ origPriority' = "error"
             /\ UNCHANGED proc
    <2>1. PollerTypeOK'
      BY <1>1, <1>2, <1>3, <1>6 DEF PollerTypeOK, Working
    <2>2. GameHeld' /\ ThrottledIsListed' /\ AllReleased' /\ RecordsOwn'
      BY <1>1, <1>2, <1>3, <1>6
      DEF PollerInv, GameHeld, Hooking, Working, ThrottledIsListed, AllReleased, Alive, RecordsOwn
    <2>3. HooksKnown'
      BY <1>1, <1>3, <1>6 DEF PollerInv, HooksKnown, HookIsKnown, Recorded, Alive
    <2>4. QED
      BY <2>1, <2>2, <2>3 DEF PollerInv
  <1>7. QED
    BY <1>5, <1>6 DEF ElevateProcessPriority

LEMMA ThrottleKeeps ==
    ASSUME PollerInv, ThrottleBackgroundIO
    PROVE  PollerInv'
  <1>1. /\ pc = "throttle" /\ pc' = "watch"
        /\ UNCHANGED <<handles, starts, isExtreme, cancelled, gamePID, exited, origAffinity,
                       origPriority, originalBackgroundAffinities, restored>>
    BY DEF ThrottleBackgroundIO
  <1>2. PollerTypeOK /\ ~exited
    BY <1>1 DEF PollerInv, GameHeld
  <1>3. PICK reached \in SUBSET Background :
           /\ throttledPIDs' = throttledPIDs \cup reached
           /\ \A pid \in PIDs : IF pid \in reached
                                THEN proc'[pid] = [proc[pid] EXCEPT !.io = "low"]
                                ELSE proc'[pid] = proc[pid]
           /\ proc' = [pid \in PIDs |-> proc'[pid]]
           /\ Fails \/ UNCHANGED failures
           /\ ioThrottled' \in BOOLEAN
    <2>1. CASE /\ isExtreme
               /\ ioThrottled' = TRUE
               /\ \E reached \in SUBSET Background :
                    /\ IF reached = Background THEN UNCHANGED failures ELSE Fails
                    /\ throttledPIDs' = throttledPIDs \cup reached
                    /\ proc' = [pid \in PIDs |-> IF pid \in reached
                                                 THEN [proc[pid] EXCEPT !.io = "low"]
                                                 ELSE proc[pid]]
      BY <2>1
    <2>2. CASE /\ IF isExtreme THEN Fails ELSE UNCHANGED failures
               /\ UNCHANGED <<ioThrottled, throttledPIDs, proc>>
      <3>1. /\ {} \in SUBSET Background
            /\ throttledPIDs' = throttledPIDs \cup {}
            /\ proc' = [pid \in PIDs |-> proc'[pid]]
            /\ ioThrottled' \in BOOLEAN
        BY <1>2, <2>2 DEF PollerTypeOK
      <3>2. QED
        BY <2>2, <3>1
    <2>3. QED
      BY <2>1, <2>2 DEF ThrottleBackgroundIO
  <1>4. failures' \in 0..MaxFailures /\ (failures' = 0 => failures = 0)
    BY <1>2, <1>3, FailureCounted DEF PollerTypeOK
  <1>5. \A pid \in PIDs :
           IF pid \in reached
           THEN /\ proc'[pid] \in Process /\ Alive(pid)
                /\ proc'[pid].exe = proc[pid].exe /\ proc'[pid].mask = proc[pid].mask
                /\ proc'[pid].class = proc[pid].class /\ pid \in throttledPIDs'
           ELSE proc'[pid] = proc[pid]
    <2>1. \A pid \in reached : pid \in PIDs /\ Alive(pid) /\ proc[pid] \in Process
      BY <1>2, AliveIsProcess DEF Background, Alive
    <2>2. QED
      BY <1>3, <2>1 DEF Process
  <1>6. PollerTypeOK'
    <2>1. proc' \in [PIDs -> Process \cup {NoProc, Exited}]
      BY <1>2, <1>3, <1>5 DEF PollerTypeOK
    <2>2. throttledPIDs' \subseteq PIDs
      BY <1>2, <1>3 DEF PollerTypeOK, Background
    <2>3. QED
      BY <1>1, <1>2, <1>3, <1>4, <2>1, <2>2 DEF PollerTypeOK, Working
  <1>7. GameHeld'
    BY <1>1, <1>2, <1>5 DEF PollerInv, GameHeld, Hooking, Working
  <1>8. \A pid \in PIDs : Alive(pid)' => Alive(pid)
    BY <1>5 DEF Alive
  <1>9. HooksKnown'
    BY <1>1, <1>4, <1>5, <1>8 DEF PollerInv, HooksKnown, HookIsKnown, Recorded
  <1>10. RecordsOwn' /\ AllReleased'
    BY <1>1, <1>4 DEF PollerInv, RecordsOwn, AllReleased, GameHeld
  <1>11. ThrottledIsListed'
    BY <1>3, <1>5, <1>8 DEF PollerInv, ThrottledIsListed
  <1>12. QED
    BY <1>6, <1>7, <1>9, <1>10, <1>11 DEF PollerInv

\* Both ways out of the watch.  What was bound or isolated is given back from the
\* records as long as the game's own mask was set; otherwise the records stay.
LEMMA UndoKeeps ==
    ASSUME PollerInv, GameExited \/ CancelledInGame
    PROVE  PollerInv'
  <1>1. /\ pc = "watch" /\ pc' \in {"select", "stopped"} /\ cancelled' \in BOOLEAN
        /\ Undo
    BY DEF GameExited, CancelledInGame, PollerInv, PollerTypeOK
  <1>2. /\ UNCHANGED <<handles, starts, isExtreme, restored>>
        /\ gamePID' = 0 /\ exited' = FALSE /\ ioThrottled' = FALSE
        /\ origAffinity' = "error" /\ origPriority' = "error"
        /\ originalBackgroundAffinities' = RecordsLeft
    BY <1>1 DEF Undo, NoGame
  <1>3. PollerTypeOK
    BY DEF PollerInv
  <1> DEFINE masks(kept, pid, p) ==
                 IF origAffinity = "error" THEN p ELSE AffinityRestored(pid, p, kept)
             disks(kept, pid, p) == IF ioThrottled THEN IORestored(pid, p, kept) ELSE p
  <1>4. PICK kept \in Writes :
           /\ Refused(kept)
           /\ proc' = [pid \in PIDs |->
                         IF Alive(pid)
                         THEN disks(kept, pid, GameRestored(pid, masks(kept, pid, proc[pid])))
                         ELSE proc[pid]]
           /\ throttledPIDs' = IF ioThrottled THEN StillThrottled(kept) ELSE throttledPIDs
    BY <1>1 DEF Undo
  <1>5. failures' \in 0..MaxFailures /\ (failures' = 0 => failures = 0 /\ kept = <<>>)
    BY <1>3, <1>4, FailureCounted DEF Refused, PollerTypeOK
  <1>6. \A pid \in PIDs :
           IF Alive(pid)
           THEN /\ proc'[pid] \in Process
                /\ proc'[pid].exe = proc[pid].exe
                /\ proc'[pid].mask =
                      IF origAffinity = "error" THEN proc[pid].mask
                      ELSE IF pid = gamePID THEN origAffinity
                      ELSE IF pid \in Recorded /\ kept # <<pid, "mask">>
                      THEN originalBackgroundAffinities[pid] ELSE proc[pid].mask
                /\ proc'[pid].class = IF pid = gamePID /\ origPriority # "error"
                                      THEN origPriority ELSE proc[pid].class
                /\ proc'[pid].io =
                      IF ioThrottled /\ pid \in throttledPIDs /\ kept # <<pid, "io">>
                      THEN "normal" ELSE proc[pid].io
           ELSE proc'[pid] = proc[pid]
    <2>1. SUFFICES ASSUME NEW pid \in PIDs, Alive(pid)
                   PROVE  /\ proc'[pid] \in Process
                          /\ proc'[pid].exe = proc[pid].exe
                          /\ proc'[pid].mask =
                                IF origAffinity = "error" THEN proc[pid].mask
                                ELSE IF pid = gamePID THEN origAffinity
                                ELSE IF pid \in Recorded /\ kept # <<pid, "mask">>
                                THEN originalBackgroundAffinities[pid] ELSE proc[pid].mask
                          /\ proc'[pid].class = IF pid = gamePID /\ origPriority # "error"
                                                THEN origPriority ELSE proc[pid].class
                          /\ proc'[pid].io =
                                IF ioThrottled /\ pid \in throttledPIDs /\ kept # <<pid, "io">>
                                THEN "normal" ELSE proc[pid].io
      BY <1>4
    <2> DEFINE p == proc[pid]
               q == masks(kept, pid, p)
               r == GameRestored(pid, q)
    <2>2. p \in Process
      BY <1>3, <2>1, AliveIsProcess
    <2>3. /\ q \in Process /\ q.exe = p.exe /\ q.class = p.class /\ q.io = p.io
          /\ q.mask = IF origAffinity # "error" /\ pid \in Recorded /\ kept # <<pid, "mask">>
                      THEN originalBackgroundAffinities[pid] ELSE p.mask
      BY <1>3, <2>2, AffinityEffect
    <2> HIDE DEF q
    <2>4. /\ r \in Process /\ r.exe = q.exe /\ r.io = q.io
          /\ r.mask = IF pid = gamePID /\ origAffinity # "error" THEN origAffinity ELSE q.mask
          /\ r.class = IF pid = gamePID /\ origPriority # "error" THEN origPriority ELSE q.class
      BY <1>3, <2>3, GameEffect
    <2> HIDE DEF r
    <2>5. /\ disks(kept, pid, r) \in Process
          /\ disks(kept, pid, r).exe = r.exe /\ disks(kept, pid, r).mask = r.mask
          /\ disks(kept, pid, r).class = r.class
          /\ disks(kept, pid, r).io =
                IF ioThrottled /\ pid \in throttledPIDs /\ kept # <<pid, "io">>
                THEN "normal" ELSE r.io
      <3>1. r \in Process
        BY <2>4
      <3>2. CASE ioThrottled
        <4> DEFINE d == IORestored(pid, r, kept)
        <4>1. /\ d \in Process
              /\ d.exe = r.exe /\ d.class = r.class /\ d.mask = r.mask
              /\ d.io = IF pid \in throttledPIDs /\ kept # <<pid, "io">>
                        THEN "normal" ELSE r.io
          BY <3>1, IOEffect
        <4>2. disks(kept, pid, r) = d
          BY <3>2
        <4> HIDE DEF d, disks
        <4>3. QED
          BY <3>2, <4>1, <4>2
      <3>3. CASE ~ioThrottled
        BY <3>1, <3>3
      <3>4. QED
        BY <3>2, <3>3
    <2>6. proc'[pid] = disks(kept, pid, r)
      BY <1>4, <2>1 DEF r, q
    <2> HIDE DEF p, disks
    <2>7. QED
      BY <2>3, <2>4, <2>5, <2>6 DEF p
  <1>7. \A pid \in PIDs : Alive(pid)' => Alive(pid)
    BY <1>6 DEF Alive
  <1>8. PollerTypeOK'
    <2>1. proc' \in [PIDs -> Process \cup {NoProc, Exited}]
      BY <1>3, <1>4, <1>6 DEF PollerTypeOK
    <2>2. originalBackgroundAffinities' \in [PIDs -> Masks \cup {"none"}]
      BY <1>2, <1>3 DEF RecordsLeft, PollerTypeOK
    <2>3. throttledPIDs' \subseteq PIDs
      BY <1>3, <1>4 DEF StillThrottled, PollerTypeOK
    <2>4. QED
      BY <1>1, <1>2, <1>3, <1>5, <2>1, <2>2, <2>3 DEF PollerTypeOK
  <1>9. GameHeld' /\ AllReleased'
    BY <1>1, <1>2 DEF PollerInv, GameHeld, Hooking, Working, AllReleased
  <1>10. HooksKnown'
    <2>1. SUFFICES ASSUME failures' = 0, NEW pid \in PIDs, Alive(pid)'
                   PROVE  HookIsKnown(pid)'
      BY DEF HooksKnown
    <2>2. /\ failures = 0 /\ kept = <<>> /\ Alive(pid) /\ HookIsKnown(pid)
          /\ originalBackgroundAffinities[pid] \in OwnMasks \cup {"none"}
          /\ origAffinity \in OwnMasks \cup {"error"}
          /\ origPriority \in {"normal", "error"}
      BY <1>5, <1>7, <2>1 DEF PollerInv, HooksKnown, RecordsOwn
    <2>3. kept # <<pid, "mask">>
      BY <2>2, NothingRefused
    <2>4. proc'[pid].mask = "bound" => proc[pid].exe = "background" /\ pid \in Recorded'
      <3>1. SUFFICES ASSUME proc'[pid].mask = "bound"
                     PROVE  proc[pid].exe = "background" /\ pid \in Recorded'
        OBVIOUS
      <3>2. origAffinity = "error" /\ proc[pid].mask = "bound"
        BY <1>6, <2>2, <2>3, <3>1 DEF HookIsKnown, Recorded, OwnMasks
      <3>3. QED
        BY <1>2, <2>2, <3>2 DEF HookIsKnown, Recorded, RecordsLeft
    <2>5. proc'[pid].mask # "isolated"
      BY <1>6, <2>2, <2>3 DEF HookIsKnown, Recorded, OwnMasks
    <2>6. proc'[pid].class # "high"
      BY <1>6, <2>2 DEF HookIsKnown
    <2>7. QED
      BY <1>6, <2>2, <2>4, <2>5, <2>6 DEF HookIsKnown
  <1>11. RecordsOwn'
    BY <1>2, <1>5 DEF PollerInv, RecordsOwn, RecordsLeft
  <1>12. ThrottledIsListed'
    BY <1>4, <1>6, <1>7 DEF PollerInv, ThrottledIsListed, StillThrottled
  <1>13. QED
    BY <1>8, <1>9, <1>10, <1>11, <1>12 DEF PollerInv

LEMMA TotalRestoreKeeps ==
    ASSUME PollerInv, TotalRestore
    PROVE  PollerInv'
  <1>1. /\ pc = "stopped" /\ restored' = TRUE
        /\ UNCHANGED <<handles, starts, pc, isExtreme, cancelled, gamePID, exited, origAffinity,
                       origPriority, ioThrottled>>
        /\ originalBackgroundAffinities' = [pid \in PIDs |-> "none"]
    BY DEF TotalRestore, localVars
  <1>2. PollerTypeOK
    BY DEF PollerInv
  <1>3. PICK kept \in Writes :
           /\ Refused(kept)
           /\ proc' = [pid \in PIDs |->
                 IF Alive(pid) THEN IORestored(pid, AffinityRestored(pid, proc[pid], kept), kept)
                 ELSE proc[pid]]
           /\ throttledPIDs' = StillThrottled(kept)
    BY DEF TotalRestore
  <1>4. failures' \in 0..MaxFailures /\ (failures' = 0 => failures = 0 /\ kept = <<>>)
    BY <1>2, <1>3, FailureCounted DEF Refused, PollerTypeOK
  <1>5. \A pid \in PIDs :
           IF Alive(pid)
           THEN /\ proc'[pid] \in Process
                /\ proc'[pid].exe = proc[pid].exe
                /\ proc'[pid].mask = IF pid \in Recorded /\ kept # <<pid, "mask">>
                                     THEN originalBackgroundAffinities[pid] ELSE proc[pid].mask
                /\ proc'[pid].class = proc[pid].class
                /\ proc'[pid].io = IF pid \in throttledPIDs /\ kept # <<pid, "io">>
                                   THEN "normal" ELSE proc[pid].io
           ELSE proc'[pid] = proc[pid]
    <2>1. SUFFICES ASSUME NEW pid \in PIDs, Alive(pid)
                   PROVE  /\ proc'[pid] \in Process
                          /\ proc'[pid].exe = proc[pid].exe
                          /\ proc'[pid].mask =
                                IF pid \in Recorded /\ kept # <<pid, "mask">>
                                THEN originalBackgroundAffinities[pid] ELSE proc[pid].mask
                          /\ proc'[pid].class = proc[pid].class
                          /\ proc'[pid].io = IF pid \in throttledPIDs /\ kept # <<pid, "io">>
                                             THEN "normal" ELSE proc[pid].io
      BY <1>3
    <2> DEFINE q == AffinityRestored(pid, proc[pid], kept)
    <2>2. /\ q \in Process /\ q.exe = proc[pid].exe /\ q.class = proc[pid].class
          /\ q.io = proc[pid].io
          /\ q.mask = IF pid \in Recorded /\ kept # <<pid, "mask">>
                      THEN originalBackgroundAffinities[pid] ELSE proc[pid].mask
      BY <1>2, <2>1, AliveIsProcess, AffinityEffect
    <2>3. proc'[pid] = IORestored(pid, q, kept)
      BY <1>3, <2>1
    <2> HIDE DEF q
    <2>4. QED
      BY <2>2, <2>3, IOEffect
  <1>6. \A pid \in PIDs : Alive(pid)' => Alive(pid)
    BY <1>5 DEF Alive
  <1>7. PollerTypeOK'
    <2>1. proc' \in [PIDs -> Process \cup {NoProc, Exited}]
      BY <1>2, <1>3, <1>5 DEF PollerTypeOK
    <2>2. throttledPIDs' \subseteq PIDs
      BY <1>2, <1>3 DEF StillThrottled, PollerTypeOK
    <2>3. QED
      BY <1>1, <1>2, <1>4, <2>1, <2>2 DEF PollerTypeOK
  <1>8. GameHeld' /\ RecordsOwn'
    BY <1>1, <1>4 DEF PollerInv, GameHeld, Hooking, Working, RecordsOwn
  <1>9. failures' = 0 => \A pid \in PIDs : Alive(pid)' =>
           /\ proc'[pid].mask \in OwnMasks /\ proc'[pid].class = "normal"
           /\ proc'[pid].io = "normal"
    <2>1. SUFFICES ASSUME failures' = 0, NEW pid \in PIDs, Alive(pid)'
                   PROVE  /\ proc'[pid].mask \in OwnMasks /\ proc'[pid].class = "normal"
                          /\ proc'[pid].io = "normal"
      OBVIOUS
    <2>2. /\ failures = 0 /\ kept = <<>> /\ Alive(pid) /\ HookIsKnown(pid)
          /\ originalBackgroundAffinities[pid] \in OwnMasks \cup {"none"}
          /\ proc[pid] \in Process /\ (proc[pid].io = "low" => pid \in throttledPIDs)
      BY <1>2, <1>4, <1>6, <2>1, AliveIsProcess
      DEF PollerInv, HooksKnown, RecordsOwn, ThrottledIsListed
    <2>3. kept # <<pid, "mask">> /\ kept # <<pid, "io">>
      BY <2>2, NothingRefused
    <2>4. proc'[pid].mask \in OwnMasks
      BY <1>1, <1>5, <2>2, <2>3 DEF HookIsKnown, Recorded, Process, Masks
    <2>5. proc'[pid].class = "normal"
      BY <1>1, <1>5, <2>2 DEF HookIsKnown, Process, Classes
    <2>6. proc'[pid].io = "normal"
      BY <1>5, <2>2, <2>3 DEF Process
    <2>7. QED
      BY <2>4, <2>5, <2>6
  <1>10. HooksKnown' /\ AllReleased'
    BY <1>9 DEF HooksKnown, HookIsKnown, AllReleased, OwnMasks
  <1>11. ThrottledIsListed'
    BY <1>3, <1>5, <1>6 DEF PollerInv, ThrottledIsListed, StillThrottled
  <1>12. QED
    BY <1>7, <1>8, <1>10, <1>11 DEF PollerInv

LEMMA PollerInductive == PollerInv /\ [PollerNext]_pollerVars => PollerInv'
  <1> SUFFICES ASSUME PollerInv, [PollerNext]_pollerVars
               PROVE  PollerInv'
    OBVIOUS
  <1>1. CASE UNCHANGED pollerVars
    BY <1>1
    DEF pollerVars, envVars, localVars, recordVars, PollerInv, PollerTypeOK, GameHeld,
        HooksKnown, HookIsKnown, Alive, Recorded, RecordsOwn, ThrottledIsListed, AllReleased
  <1>2. CASE Machine
    BY <1>2, StartKeeps, ExitKeeps DEF Machine
  <1>3. CASE PollerWork
    BY <1>3, RestrictKeeps, IsolateKeeps, ElevateKeeps, ThrottleKeeps DEF PollerWork
  <1>4. QED
    BY <1>1, <1>2, <1>3, StartPollerKeeps, CancelKeeps, DetectKeeps, UndoKeeps, TotalRestoreKeeps
    DEF PollerNext

LEMMA PollerAlways == PollerSpec => []PollerInv
  BY PollerStart, PollerInductive, PTL DEF PollerSpec

-----------------------------------------------------------------------------
(* The theorems *)

LEMMA PollerPromises ==
    PollerInv => /\ BoundIsRecorded /\ OwnMaskRecorded /\ ThrottledIsListed
                 /\ GameReleased /\ AllReleased
  <1> SUFFICES ASSUME PollerInv
               PROVE  BoundIsRecorded /\ OwnMaskRecorded /\ GameReleased
    BY DEF PollerInv
  <1>1. BoundIsRecorded
    BY DEF PollerInv, HooksKnown, HookIsKnown, BoundIsRecorded, Recorded
  <1>2. OwnMaskRecorded
    BY DEF PollerInv, RecordsOwn, OwnMaskRecorded, Recorded
  <1>3. GameReleased
    BY AliveIsProcess
    DEF PollerInv, HooksKnown, HookIsKnown, GameReleased, Process, Classes
  <1>4. QED
    BY <1>1, <1>2, <1>3

\* The poller's variables, the processes and the records keep their types
\* (startHybridGamePoller and the maps of affinity.go and iopriority.go).
THEOREM PollerTypeCorrect == PollerSpec => []PollerTypeOK
  <1>1. PollerInv => PollerTypeOK
    BY DEF PollerInv
  <1>2. QED
    BY <1>1, PollerAlways, PTL

\* Whatever processes start, exit and get their ids again while the hooks are put
\* on and taken back: as long as no call fails, a process bound to the first cores
\* is on the list of RestoreAffinities.
THEOREM BoundProcessesAreRecorded == PollerSpec => []BoundIsRecorded
  BY PollerPromises, PollerAlways, PTL

\* That list never takes the poller's mask for an original one, though processes are
\* bound again when the next game starts (RestrictBackgroundProcesses records a mask
\* once).
THEOREM OwnMasksAreRecorded == PollerSpec => []OwnMaskRecorded
  BY PollerPromises, PollerAlways, PTL

\* Also when calls fail, a process whose disk priority is lowered stays listed for
\* RestoreBackgroundIO (iopriority.go keeps the ids it could not restore).
THEOREM ThrottledProcessesAreListed == PollerSpec => []ThrottledIsListed
  BY PollerPromises, PollerAlways, PTL

\* Once the poller watches no game, none keeps the cores or the priority it was
\* given, however it left the watch: the poller's handle has kept the game's id
\* from being reused until its exit was seen.
THEOREM GamesAreReleased == PollerSpec => []GameReleased
  BY PollerPromises, PollerAlways, PTL

\* After a total restore no process is bound or throttled any more.
THEOREM TotalRestoreReleases == PollerSpec => []AllReleased
  BY PollerPromises, PollerAlways, PTL
=============================================================================
