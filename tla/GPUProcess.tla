----------------------------- MODULE GPUProcess -----------------------------
(***************************************************************************)
(* The GPU process as the pool sees it (src/UIProcess/WebProcessPool.cpp): *)
(* ensureGPUProcess, the crash window of gpuProcessCrashed with its reset  *)
(* timer, and getGPUProcessConnection with its single retry. Web content   *)
(* processes ask for a connection; the GPU process answers or, when it     *)
(* crashes, fails every request in flight (GPUProcessProxy, outside src/). *)
(* Time advances in ticks; ResetDelay ticks stand for the 30 seconds of    *)
(* resetGPUProcessCrashCountDelay.                                         *)
(***************************************************************************)
EXTENDS Naturals, Sequences, SequencesExt

CONSTANTS
  WebProcs,       \* web content processes asking for a GPU connection
  MaxRelaunch,    \* maximumGPUProcessRelaunchAttemptsBeforeKillingWebProcesses
  ResetDelay,     \* resetGPUProcessCrashCountDelay, in ticks
  MaxCrashes      \* bound on the GPU process crashes of a behaviour

ASSUME MaxRelaunch \in Nat /\ ResetDelay \in Nat \ {0} /\ MaxCrashes \in Nat

VARIABLES
  gpuRunning,       \* m_gpuProcess is set
  recentCrashCount, \* m_recentGPUProcessCrashCount
  timerActive,      \* m_resetGPUProcessCrashCountTimer.isActive()
  timerRemaining,   \* ticks until the one-shot timer is due
  crashAges,        \* history: ticks since each crash of the last ResetDelay
  crashes,          \* GPU process crashes so far (bounded by MaxCrashes)
  lastKillAge,      \* history: ticks since the last mass termination
  proxyExists,      \* the WebProcessProxy object exists (weak pointer set)
  webAlive,         \* its OS process is running
  attempt,          \* 0: no request; 1 or 2: the attempt in flight
  inFlight,         \* "gpu": waiting for the GPU process; "failed": an
                    \* invalid connection answer is queued for the callback
  crashesDuring,    \* history: GPU crashes while the request was open
  outcome           \* the last reply: "none", "valid", "invalid", "dropped"

vars == <<gpuRunning, recentCrashCount, timerActive, timerRemaining, crashAges,
          crashes, lastKillAge, proxyExists, webAlive, attempt, inFlight,
          crashesDuring, outcome>>
webVars == <<proxyExists, webAlive, attempt, inFlight, crashesDuring, outcome>>

TypeOK ==
  /\ gpuRunning \in BOOLEAN /\ timerActive \in BOOLEAN
  /\ recentCrashCount \in 0..MaxRelaunch
  /\ timerRemaining \in 0..ResetDelay
  /\ crashAges \in Seq(0..ResetDelay)
  /\ crashes \in 0..MaxCrashes
  /\ lastKillAge \in 0..ResetDelay + 1
  /\ proxyExists \in [WebProcs -> BOOLEAN] /\ webAlive \in [WebProcs -> BOOLEAN]
  /\ attempt \in [WebProcs -> 0..2]
  /\ inFlight \in [WebProcs -> {"no", "gpu", "failed"}]
  /\ crashesDuring \in [WebProcs -> 0..MaxCrashes]
  /\ outcome \in [WebProcs -> {"none", "valid", "invalid", "dropped"}]

-----------------------------------------------------------------------------
\* A variant for mutation analysis: requests in flight are never answered.
FailPendingConnectionsNever == UNCHANGED inFlight

(* GPUProcessProxy on a crash: every connection request in flight gets an  *)
(* invalid connection identifier (outside src/).                           *)
FailPendingConnections ==
  inFlight' = [w \in WebProcs |-> IF inFlight[w] = "gpu" THEN "failed" ELSE inFlight[w]]

\* A variant of gpuProcessCrashed's window logic for mutation analysis: the
\* reset timer is restarted on every crash that does not kill.
ArmResetTimerOnEveryCrash ==
  /\ timerActive' = TRUE
  /\ timerRemaining' = ResetDelay

\* The else-branch of gpuProcessCrashed: the timer is armed unless active.
ArmResetTimer ==
  IF ~timerActive
  THEN /\ timerActive' = TRUE
       /\ timerRemaining' = ResetDelay
  ELSE UNCHANGED <<timerActive, timerRemaining>>

\* A variant of the threshold test for mutation analysis: the count is
\* compared before it is incremented (a post-increment).
CrashCountExceedsLimitPostIncrement(count) == count > MaxRelaunch

\* ++m_recentGPUProcessCrashCount > maximumGPUProcessRelaunchAttempts...
CrashCountExceedsLimit(count) == count + 1 > MaxRelaunch

\* terminateAllWebContentProcesses (lines 1470-1477): terminate() on a copy
\* of m_processes; every web process's OS process goes.
TerminateAllWebContentProcesses == webAlive' = [w \in WebProcs |-> FALSE]

\* gpuProcessCrashed (lines 495-512): m_gpuProcess is cleared, every web
\* process is told, and the crash is counted; the third crash of a window
\* stops the timer, resets the count and terminates all web processes.
GPUProcessCrashed ==
  /\ gpuRunning
  /\ crashes < MaxCrashes
  /\ crashes' = crashes + 1
  /\ gpuRunning' = FALSE
  /\ crashAges' = Append(crashAges, 0)
  /\ FailPendingConnections
  /\ crashesDuring' = [w \in WebProcs |-> IF attempt[w] > 0 THEN crashesDuring[w] + 1
                                          ELSE crashesDuring[w]]
  /\ IF CrashCountExceedsLimit(recentCrashCount)
     THEN /\ timerActive' = FALSE
          /\ timerRemaining' = 0
          /\ recentCrashCount' = 0
          /\ TerminateAllWebContentProcesses
          /\ lastKillAge' = 0
     ELSE /\ recentCrashCount' = recentCrashCount + 1
          /\ ArmResetTimer
          /\ UNCHANGED <<webAlive, lastKillAge>>
  /\ UNCHANGED <<proxyExists, attempt, outcome>>

\* The lambda of m_resetGPUProcessCrashCountTimer.
ResetCrashCountTimerFired ==
  /\ timerActive /\ timerRemaining = 0
  /\ timerActive' = FALSE
  /\ recentCrashCount' = 0
  /\ UNCHANGED <<gpuRunning, timerRemaining, crashAges, crashes, lastKillAge,
                 webVars>>

\* A tick of time. A due timer fires before time moves on.
Tick ==
  /\ ~(timerActive /\ timerRemaining = 0)
  /\ timerRemaining' = IF timerActive THEN timerRemaining - 1 ELSE timerRemaining
  /\ crashAges' = SelectSeq([i \in 1..Len(crashAges) |-> crashAges[i] + 1],
                            LAMBDA age : age <= ResetDelay)
  /\ lastKillAge' = IF lastKillAge > ResetDelay THEN lastKillAge ELSE lastKillAge + 1
  /\ UNCHANGED <<gpuRunning, recentCrashCount, timerActive, crashes, webVars>>

-----------------------------------------------------------------------------
(* getGPUProcessConnection (lines 514-524).                                *)

\* A web process asks for a connection: ensureGPUProcess launches the GPU
\* process if m_gpuProcess is null.
GetGPUProcessConnection(w) ==
  /\ webAlive[w] /\ attempt[w] = 0
  /\ gpuRunning' = TRUE
  /\ attempt' = [attempt EXCEPT ![w] = 1]
  /\ inFlight' = [inFlight EXCEPT ![w] = "gpu"]
  /\ crashesDuring' = [crashesDuring EXCEPT ![w] = 0]
  /\ outcome' = [outcome EXCEPT ![w] = "none"]
  /\ UNCHANGED <<recentCrashCount, timerActive, timerRemaining, crashAges,
                 crashes, lastKillAge, proxyExists, webAlive>>

\* The GPU process answers with a valid connection: the callback replies.
GPUProcessAnswered(w) ==
  /\ gpuRunning /\ inFlight[w] = "gpu"
  /\ attempt' = [attempt EXCEPT ![w] = 0]
  /\ inFlight' = [inFlight EXCEPT ![w] = "no"]
  /\ outcome' = [outcome EXCEPT ![w] = IF proxyExists[w] THEN "valid" ELSE "dropped"]
  /\ UNCHANGED <<gpuRunning, recentCrashCount, timerActive, timerRemaining,
                 crashAges, crashes, lastKillAge, proxyExists, webAlive,
                 crashesDuring>>

\* A variant of the callback for mutation analysis: no retry.
ConnectionFailedWithoutRetry(w) ==
  /\ inFlight[w] = "failed"
  /\ attempt' = [attempt EXCEPT ![w] = 0]
  /\ inFlight' = [inFlight EXCEPT ![w] = "no"]
  /\ outcome' = [outcome EXCEPT ![w] = IF proxyExists[w] THEN "invalid" ELSE "dropped"]
  /\ UNCHANGED <<gpuRunning, recentCrashCount, timerActive, timerRemaining,
                 crashAges, crashes, lastKillAge, proxyExists, webAlive,
                 crashesDuring>>

\* The callback with an invalid identifier: the first attempt is retried
\* through ensureGPUProcess while the WebProcessProxy still exists (the pool
\* outlives it here); the retry's answer goes straight to the reply.
ConnectionFailed(w) ==
  /\ inFlight[w] = "failed"
  /\ IF attempt[w] = 1 /\ proxyExists[w]
     THEN /\ gpuRunning' = TRUE
          /\ attempt' = [attempt EXCEPT ![w] = 2]
          /\ inFlight' = [inFlight EXCEPT ![w] = "gpu"]
          /\ UNCHANGED outcome
     ELSE /\ attempt' = [attempt EXCEPT ![w] = 0]
          /\ inFlight' = [inFlight EXCEPT ![w] = "no"]
          /\ outcome' = [outcome EXCEPT ![w] = IF proxyExists[w] THEN "invalid"
                                                ELSE "dropped"]
          /\ UNCHANGED gpuRunning
  /\ UNCHANGED <<recentCrashCount, timerActive, timerRemaining, crashAges,
                 crashes, lastKillAge, proxyExists, webAlive, crashesDuring>>

\* The web process exits on its own; its proxy goes away later; a new
\* proxy is launched once no request of the old one is open.
WebProcessExited(w) ==
  /\ webAlive[w]
  /\ webAlive' = [webAlive EXCEPT ![w] = FALSE]
  /\ UNCHANGED <<gpuRunning, recentCrashCount, timerActive, timerRemaining,
                 crashAges, crashes, lastKillAge, proxyExists, attempt,
                 inFlight, crashesDuring, outcome>>

WebProcessProxyDestroyed(w) ==
  /\ proxyExists[w] /\ ~webAlive[w]
  /\ proxyExists' = [proxyExists EXCEPT ![w] = FALSE]
  /\ UNCHANGED <<gpuRunning, recentCrashCount, timerActive, timerRemaining,
                 crashAges, crashes, lastKillAge, webAlive, attempt, inFlight,
                 crashesDuring, outcome>>

WebProcessLaunched(w) ==
  /\ ~proxyExists[w] /\ attempt[w] = 0
  /\ proxyExists' = [proxyExists EXCEPT ![w] = TRUE]
  /\ webAlive' = [webAlive EXCEPT ![w] = TRUE]
  /\ UNCHANGED <<gpuRunning, recentCrashCount, timerActive, timerRemaining,
                 crashAges, crashes, lastKillAge, attempt, inFlight,
                 crashesDuring, outcome>>

-----------------------------------------------------------------------------
Init ==
  /\ gpuRunning = FALSE
  /\ recentCrashCount = 0
  /\ timerActive = FALSE /\ timerRemaining = 0
  /\ crashAges = <<>> /\ crashes = 0
  /\ lastKillAge = ResetDelay + 1
  /\ proxyExists = [w \in WebProcs |-> TRUE]
  /\ webAlive = [w \in WebProcs |-> TRUE]
  /\ attempt = [w \in WebProcs |-> 0]
  /\ inFlight = [w \in WebProcs |-> "no"]
  /\ crashesDuring = [w \in WebProcs |-> 0]
  /\ outcome = [w \in WebProcs |-> "none"]

Next ==
  \/ GPUProcessCrashed
  \/ ResetCrashCountTimerFired
  \/ Tick
  \/ \E w \in WebProcs :
       \/ GetGPUProcessConnection(w)
       \/ GPUProcessAnswered(w)
       \/ ConnectionFailed(w)
       \/ WebProcessExited(w)
       \/ WebProcessProxyDestroyed(w)
       \/ WebProcessLaunched(w)

\* Time passes, a due timer fires, and the GPU process and the callbacks
\* run: all are run-loop events the main thread eventually handles.
Fairness ==
  /\ WF_vars(Tick)
  /\ WF_vars(ResetCrashCountTimerFired)
  /\ \A w \in WebProcs : WF_vars(GPUProcessAnswered(w)) /\ WF_vars(ConnectionFailed(w))

Spec == Init /\ [][Next]_vars /\ Fairness

-----------------------------------------------------------------------------
(* Properties.                                                             *)

\* Every crash the counter holds happened within the last ResetDelay: the
\* one-shot timer armed by the first crash of a window resets the count
\* before any of its crashes is older than the window.
CrashCountWithinWindow == recentCrashCount <= Len(crashAges)

\* A live web process is told its GPU connection is invalid only when the
\* GPU process crashed during both the first attempt and the retry.
InvalidReplyOnlyAfterRetry ==
  \A w \in WebProcs : outcome[w] = "invalid" => crashesDuring[w] >= 2

\* Every connection request is eventually answered (or its reply dropped
\* because the requester is gone).
ConnectionRequestAnswered == \A w \in WebProcs : attempt[w] > 0 ~> attempt[w] = 0

\* Spec 3 and 8: more than MaxRelaunch crashes within one rolling window of
\* ResetDelay terminate the web processes within that window.
BurstOfCrashesKills ==
  Len(crashAges) > MaxRelaunch => lastKillAge <= ResetDelay
=============================================================================
