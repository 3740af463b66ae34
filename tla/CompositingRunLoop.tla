------------------------- MODULE CompositingRunLoop -------------------------
(***************************************************************************)
(* CompositingRunLoop (src/Shared/CoordinatedGraphics/threadedcompositor/  *)
(* CompositingRunLoop.cpp) at the level of its two threads: the main       *)
(* thread hands tasks to the compositing thread's RunLoop, and for         *)
(* performTaskSync waits on m_dispatchSyncCondition under                  *)
(* m_dispatchSyncConditionMutex; the compositing thread runs the tasks and *)
(* the one-shot update timer paced at 60 frames per second. Time advances  *)
(* in ticks; Frame ticks stand for 1/targetFPS.                            *)
(***************************************************************************)
EXTENDS Integers, Sequences

CONSTANTS
  MaxTasks,  \* bound on the tasks the main thread hands over
  Frame,     \* 1 / targetFPS, in ticks
  MaxTime    \* bound on the clock

ASSUME MaxTasks \in Nat /\ Frame \in Nat \ {0} /\ MaxTime \in Nat

Tasks == {"async", "sync", "stop"}

\* The value of fired in a step that runs no update.
NoFire == [timing |-> "none", gap |-> 0]

VARIABLES
  mainPc,          \* where the main thread is in performTaskSync
  mutexOwner,      \* holder of m_dispatchSyncConditionMutex
  runLoopQueue,    \* functions dispatched to m_runLoop, not yet taken
  compPc,          \* "locking": the sync lambda waits for the mutex
  syncRan,         \* the function of the current performTaskSync has run
  running,         \* m_runLoop runs (stop() not called)
  stopSent,        \* the main thread has dispatched the task that stops it
  issued,          \* tasks dispatched so far (bounded by MaxTasks)
  timerActive,     \* m_updateTimer.isActive()
  timerDue,        \* when the one-shot timer fires
  timerTiming,     \* the UpdateTiming it was started with
  lastUpdateTime,  \* m_lastUpdateTime
  now,             \* monotonicallyIncreasingTime(), in ticks
  lastFire,        \* history: when m_updateFunction last ran
  fired            \* history: [timing, gap] of an update fired this step

vars == <<mainPc, mutexOwner, runLoopQueue, compPc, syncRan, running, stopSent,
          issued, timerActive, timerDue, timerTiming, lastUpdateTime, now,
          lastFire, fired>>
timerVars == <<timerActive, timerDue, timerTiming, lastUpdateTime, lastFire>>
taskVars == <<mainPc, mutexOwner, runLoopQueue, compPc, syncRan, running,
              stopSent, issued>>

TypeOK ==
  /\ mainPc \in {"idle", "locked", "dispatched", "waiting", "woken"}
  /\ mutexOwner \in {"none", "main", "compositing"}
  /\ runLoopQueue \in Seq(Tasks) /\ compPc \in {"idle", "locking"}
  /\ syncRan \in BOOLEAN /\ running \in BOOLEAN /\ stopSent \in BOOLEAN
  /\ issued \in 0..MaxTasks
  /\ timerActive \in BOOLEAN /\ timerDue \in 0..MaxTime + Frame
  /\ timerTiming \in {"immediate", "next"}
  /\ lastUpdateTime \in 0..MaxTime /\ now \in 0..MaxTime /\ lastFire \in 0..MaxTime
  /\ fired \in [timing : {"none", "immediate", "next"}, gap : 0..MaxTime]

-----------------------------------------------------------------------------
(* The main thread.                                                        *)

\* performTask (lines 43-47): a task, or the task that stops the run loop.
PerformTask(kind) ==
  /\ mainPc = "idle" /\ ~stopSent /\ issued < MaxTasks
  /\ runLoopQueue' = Append(runLoopQueue, kind)
  /\ issued' = issued + 1
  /\ stopSent' = (kind = "stop")
  /\ fired' = NoFire
  /\ UNCHANGED <<mainPc, mutexOwner, compPc, syncRan, running, now, timerVars>>

\* performTaskSync (lines 49-59), one step per statement: the LockHolder,
\* the dispatch of the lambda, the wait (which releases the mutex), and the
\* return once notified (the wait takes the mutex back and the LockHolder
\* releases it).
PerformTaskSyncLock ==
  /\ mainPc = "idle" /\ ~stopSent /\ issued < MaxTasks
  /\ mutexOwner = "none"
  /\ mutexOwner' = "main"
  /\ mainPc' = "locked"
  /\ fired' = NoFire
  /\ UNCHANGED <<runLoopQueue, compPc, syncRan, running, stopSent, issued, now,
                 timerVars>>

PerformTaskSyncDispatch ==
  /\ mainPc = "locked"
  /\ runLoopQueue' = Append(runLoopQueue, "sync")
  /\ issued' = issued + 1
  /\ mainPc' = "dispatched"
  /\ fired' = NoFire
  /\ UNCHANGED <<mutexOwner, compPc, syncRan, running, stopSent, now, timerVars>>

\* A variant of PerformTaskSyncWait for mutation analysis: the wait returns
\* without a notification (a condition variable with spurious wakeups).
PerformTaskSyncWaitSpurious ==
  /\ mainPc = "dispatched"
  /\ mutexOwner' = "none"
  /\ mainPc' = "woken"
  /\ fired' = NoFire
  /\ UNCHANGED <<runLoopQueue, compPc, syncRan, running, stopSent, issued, now,
                 timerVars>>

PerformTaskSyncWait ==
  /\ mainPc = "dispatched"
  /\ mutexOwner' = "none"
  /\ mainPc' = "waiting"
  /\ fired' = NoFire
  /\ UNCHANGED <<runLoopQueue, compPc, syncRan, running, stopSent, issued, now,
                 timerVars>>

PerformTaskSyncReturn ==
  /\ mainPc = "woken" /\ mutexOwner = "none"
  /\ mainPc' = "idle"
  /\ syncRan' = FALSE
  /\ fired' = NoFire
  /\ UNCHANGED <<mutexOwner, runLoopQueue, compPc, running, stopSent, issued,
                 now, timerVars>>

-----------------------------------------------------------------------------
(* The compositing thread.                                                 *)

\* stop() (lines 90-94), run by the task that stops the loop.
Stop ==
  /\ timerActive' = FALSE
  /\ running' = FALSE

\* m_runLoop takes the oldest dispatched function. The sync lambda first
\* has to take the mutex.
RunNextTask ==
  /\ running /\ compPc = "idle" /\ runLoopQueue # <<>>
  /\ runLoopQueue' = Tail(runLoopQueue)
  /\ CASE Head(runLoopQueue) = "sync" ->
            compPc' = "locking" /\ UNCHANGED <<running, timerActive>>
       [] Head(runLoopQueue) = "stop" -> Stop /\ UNCHANGED compPc
       [] OTHER -> UNCHANGED <<compPc, running, timerActive>>
  /\ fired' = NoFire
  /\ UNCHANGED <<mainPc, mutexOwner, syncRan, stopSent, issued, now, timerDue,
                 timerTiming, lastUpdateTime, lastFire>>

\* A variant of SyncTaskRun for mutation analysis: the lambda does not take
\* m_dispatchSyncConditionMutex.
SyncTaskRunWithoutLock ==
  /\ compPc = "locking"
  /\ syncRan' = TRUE
  /\ mainPc' = IF mainPc = "waiting" THEN "woken" ELSE mainPc
  /\ compPc' = "idle"
  /\ fired' = NoFire
  /\ UNCHANGED <<mutexOwner, runLoopQueue, running, stopSent, issued, now,
                 timerVars>>

\* The lambda of performTaskSync (lines 53-57): under the mutex it runs the
\* function and notifies one waiter; a notification with no waiter is lost.
SyncTaskRun ==
  /\ compPc = "locking" /\ mutexOwner = "none"
  /\ syncRan' = TRUE
  /\ mainPc' = IF mainPc = "waiting" THEN "woken" ELSE mainPc
  /\ compPc' = "idle"
  /\ fired' = NoFire
  /\ UNCHANGED <<mutexOwner, runLoopQueue, running, stopSent, issued, now,
                 timerVars>>

-----------------------------------------------------------------------------
(* The update timer, driven from functions run on the compositing thread. *)

\* A variant of NextUpdateTime for mutation analysis: the elapsed time is
\* added instead of subtracted.
NextUpdateTimeSignFlipped(timing) ==
  IF timing = "next"
  THEN IF Frame + (now - lastUpdateTime) > 0 THEN Frame + (now - lastUpdateTime) ELSE 0
  ELSE 0

\* nextUpdateTime of startUpdateTimer (lines 66-69).
NextUpdateTime(timing) ==
  IF timing = "next"
  THEN IF Frame - (now - lastUpdateTime) > 0 THEN Frame - (now - lastUpdateTime) ELSE 0
  ELSE 0

\* startUpdateTimer (lines 61-72): a no-op while the timer is active.
StartUpdateTimer(timing) ==
  /\ running /\ compPc = "idle"
  /\ IF timerActive
     THEN UNCHANGED <<timerActive, timerDue, timerTiming>>
     ELSE /\ timerActive' = TRUE
          /\ timerDue' = now + NextUpdateTime(timing)
          /\ timerTiming' = timing
  /\ fired' = NoFire
  /\ UNCHANGED <<taskVars, now, lastUpdateTime, lastFire>>

\* stopUpdateTimer (lines 74-77).
StopUpdateTimer ==
  /\ running /\ compPc = "idle"
  /\ timerActive' = FALSE
  /\ fired' = NoFire
  /\ UNCHANGED <<taskVars, now, timerDue, timerTiming, lastUpdateTime, lastFire>>

\* A variant of UpdateTimerFired for mutation analysis: m_lastUpdateTime is
\* not recorded.
UpdateTimerFiredWithoutTimestamp ==
  /\ running /\ compPc = "idle" /\ timerActive /\ now >= timerDue
  /\ timerActive' = FALSE
  /\ fired' = [timing |-> timerTiming, gap |-> now - lastFire]
  /\ lastFire' = now
  /\ UNCHANGED <<taskVars, now, timerDue, timerTiming, lastUpdateTime>>

\* updateTimerFired (lines 79-83): m_updateFunction runs, then the time is
\* recorded.
UpdateTimerFired ==
  /\ running /\ compPc = "idle" /\ timerActive /\ now >= timerDue
  /\ timerActive' = FALSE
  /\ fired' = [timing |-> timerTiming, gap |-> now - lastFire]
  /\ lastFire' = now
  /\ lastUpdateTime' = now
  /\ UNCHANGED <<taskVars, now, timerDue, timerTiming>>

\* Time passes.
Tick ==
  /\ now < MaxTime
  /\ now' = now + 1
  /\ fired' = NoFire
  /\ UNCHANGED <<taskVars, timerVars>>

-----------------------------------------------------------------------------
\* The constructor (lines 36-41): an idle run loop and an inactive timer.
Init ==
  /\ mainPc = "idle" /\ mutexOwner = "none"
  /\ runLoopQueue = <<>> /\ compPc = "idle" /\ syncRan = FALSE
  /\ running = TRUE /\ stopSent = FALSE /\ issued = 0
  /\ timerActive = FALSE /\ timerDue = 0 /\ timerTiming = "immediate"
  /\ lastUpdateTime = 0 /\ now = 0 /\ lastFire = 0 /\ fired = NoFire

Next ==
  \/ \E kind \in {"async", "stop"} : PerformTask(kind)
  \/ PerformTaskSyncLock \/ PerformTaskSyncDispatch
  \/ PerformTaskSyncWait \/ PerformTaskSyncReturn
  \/ RunNextTask \/ SyncTaskRun
  \/ \E timing \in {"immediate", "next"} : StartUpdateTimer(timing)
  \/ StopUpdateTimer \/ UpdateTimerFired
  \/ Tick

\* Each thread keeps running: the main thread finishes performTaskSync and
\* the compositing thread's run loop takes every dispatched function.
Fairness ==
  /\ WF_vars(PerformTaskSyncLock) /\ WF_vars(PerformTaskSyncDispatch)
  /\ WF_vars(PerformTaskSyncWait) /\ WF_vars(PerformTaskSyncReturn)
  /\ WF_vars(RunNextTask) /\ WF_vars(SyncTaskRun)

Spec == Init /\ [][Next]_vars /\ Fairness

-----------------------------------------------------------------------------
(* Refinement: a sync lambda taken from the queue but still waiting for   *)
(* the mutex has not run, so it is still at the head of the abstract      *)
(* queue; the sync call is pending from the dispatch until it ran.        *)

Abstract == INSTANCE CompositingRunLoopAbstract WITH
  queue <- (IF compPc = "locking" THEN <<"sync">> ELSE <<>>) \o runLoopQueue,
  syncCall <- IF mainPc \in {"idle", "locked"} THEN "none"
              ELSE IF syncRan THEN "ran" ELSE "pending"

\* Every step of the two threads is a step of the abstract run loop: tasks
\* run once each in dispatch order, and performTaskSync returns only after
\* its function ran on the compositing thread (the wait is woken only by
\* the lambda's notifyOne).
RefinesAbstractRunLoop == Abstract!Init /\ [][Abstract!Next]_(Abstract!vars)

\* performTaskSync always returns: the lambda takes the mutex the main
\* thread holds until it waits, so its notifyOne cannot come before the
\* wait and be lost.
SyncCallReturns == mainPc # "idle" ~> mainPc = "idle"

\* An update started with WaitUntilNextFrame runs at least one frame after
\* the previous update (m_lastUpdateTime is taken after m_updateFunction).
UpdatesPacedByFrame ==
  fired.timing = "next" => fired.gap >= Frame
=============================================================================
