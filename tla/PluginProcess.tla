---------------------------- MODULE PluginProcess ----------------------------
(***************************************************************************)
(* The lifetime of a plug-in process (src/PluginProcess/PluginProcess.cpp):*)
(* web process connections, the plug-in module's load count, the minimum  *)
(* lifetime timer, the termination counter and timer of ChildProcess      *)
(* (outside src/), the low-memory handler and the UI process going away.  *)
(* Messages from the UI process are handled one at a time on the main run *)
(* loop; timers fire on the same run loop.                                 *)
(***************************************************************************)
EXTENDS Naturals, FiniteSets

CONSTANTS
  Conns,             \* web process connections the UI process may ask for
  ModuleLoadCanFail  \* NetscapePluginModule::getOrCreate may return null

ASSUME IsFiniteSet(Conns) /\ ModuleLoadCanFail \in BOOLEAN

VARIABLES
  phase,              \* "launched", "running" (initialized) or "exited"
  uiClosed,           \* didClose: the connection to the UI process closed
  connections,        \* m_webProcessConnections, as a set
  pluginModule,       \* m_pluginModule: "none", "loaded" or "unloaded"
  loadCount,          \* the module's load count (NP_Shutdown when it drops to 0)
  terminationCounter, \* ChildProcess::m_terminationCounter
  terminationTimer,   \* ChildProcess::m_terminationTimer is active
  terminationTimeout, \* ChildProcess::m_terminationTimeout: 0 or positive
  lifetimeTimer,      \* m_minimumLifetimeTimer is active
  everUsed            \* history: a connection was made or a lifetime set

vars == <<phase, uiClosed, connections, pluginModule, loadCount,
          terminationCounter, terminationTimer, terminationTimeout,
          lifetimeTimer, everUsed>>

TypeOK ==
  /\ phase \in {"launched", "running", "exited"} /\ uiClosed \in BOOLEAN
  /\ connections \subseteq Conns
  /\ pluginModule \in {"none", "loaded", "unloaded"}
  /\ loadCount \in 0..2
  /\ terminationCounter \in 0..Cardinality(Conns) + 1
  /\ terminationTimer \in BOOLEAN /\ terminationTimeout \in {"zero", "positive"}
  /\ lifetimeTimer \in BOOLEAN /\ everUsed \in BOOLEAN

-----------------------------------------------------------------------------
(* ChildProcess and NetscapePluginModule (outside src/).                   *)

\* shouldTerminate (lines 107-110).
ShouldTerminate == connections = {}

\* ChildProcess::terminate: the run loop stops and the process exits.
Terminate == phase' = "exited"

\* ChildProcess::disableTermination.
DisableTermination ==
  /\ terminationCounter' = terminationCounter + 1
  /\ terminationTimer' = FALSE

\* ChildProcess::enableTermination with the counter at 'count' and the
\* shouldTerminate of the state it runs in: at zero the termination timer
\* starts, or with a zero timeout terminationTimerFired runs at once.
EnableTermination(count, shouldTerminate) ==
  /\ terminationCounter' = count - 1
  /\ IF count - 1 > 0
     THEN UNCHANGED <<terminationTimer, phase>>
     ELSE IF terminationTimeout = "zero"
     THEN /\ UNCHANGED terminationTimer
          /\ IF shouldTerminate THEN Terminate ELSE UNCHANGED phase
     ELSE /\ terminationTimer' = TRUE
          /\ UNCHANGED phase

\* netscapePluginModule (lines 90-105): getOrCreate when not set yet; a
\* module created by getOrCreate has a load count of one.
\* 'loads' is the outcome of getOrCreate.
NetscapePluginModule(loads) ==
  IF pluginModule = "none" /\ loads
  THEN pluginModule' = "loaded" /\ loadCount' = 1
  ELSE UNCHANGED <<pluginModule, loadCount>>

\* The module as netscapePluginModule() leaves it.
ModuleAfter(loads) ==
  IF pluginModule = "none" /\ loads THEN "loaded" ELSE pluginModule
LoadCountAfter(loads) ==
  IF pluginModule = "none" /\ loads THEN 1 ELSE loadCount

\* The outcomes getOrCreate can have.
LoadOutcomes == IF ModuleLoadCanFail THEN BOOLEAN ELSE {TRUE}

-----------------------------------------------------------------------------
(* Message handlers and timers.                                            *)

\* initializePluginProcess (lines 124-144) with setMinimumLifetime (lines
\* 219-227) and setTerminationTimeout.
InitializePluginProcess(lifetime, timeout) ==
  /\ phase = "launched"
  /\ phase' = "running"
  /\ terminationTimeout' = timeout
  /\ IF lifetime
     THEN DisableTermination /\ lifetimeTimer' = TRUE
     ELSE UNCHANGED <<terminationCounter, terminationTimer, lifetimeTimer>>
  /\ everUsed' = lifetime
  /\ UNCHANGED <<uiClosed, connections, pluginModule, loadCount>>

\* NetscapePluginModule::incrementLoadCount.
IncrementLoadCount(count) ==
  /\ loadCount' = count + 1
  /\ pluginModule' = "loaded"

\* NetscapePluginModule::decrementLoadCount: at zero NP_Shutdown is called
\* and the module unloaded.
DecrementLoadCount ==
  /\ loadCount' = loadCount - 1
  /\ pluginModule' = IF loadCount - 1 = 0 THEN "unloaded" ELSE pluginModule

\* Variant: the connection is made without disabling termination.
CreateWebProcessConnectionWithoutDisable(c, loads) ==
  /\ phase = "running" /\ c \notin connections
  /\ connections' = connections \union {c}
  /\ IF ModuleAfter(loads) # "none" /\ connections = {}
     THEN IncrementLoadCount(LoadCountAfter(loads))
     ELSE NetscapePluginModule(loads)
  /\ everUsed' = TRUE
  /\ UNCHANGED <<phase, uiClosed, terminationCounter, terminationTimer,
                 terminationTimeout, lifetimeTimer>>

\* createWebProcessConnection (lines 146-183): the connection is appended,
\* the module is looked up (created on first use) and its load count raised
\* if this is the first connection; then termination is disabled.
CreateWebProcessConnection(c, loads) ==
  /\ phase = "running" /\ c \notin connections
  /\ connections' = connections \union {c}
  /\ IF ModuleAfter(loads) # "none" /\ connections = {}
     THEN IncrementLoadCount(LoadCountAfter(loads))
     ELSE NetscapePluginModule(loads)
  /\ DisableTermination
  /\ everUsed' = TRUE
  /\ UNCHANGED <<phase, uiClosed, terminationTimeout, lifetimeTimer>>

\* Variant: the load count is lowered on every removal, not on the last.
RemoveWebProcessConnectionDecrementingEach(c) ==
  /\ phase = "running" /\ c \in connections
  /\ connections' = connections \ {c}
  /\ IF pluginModule # "none"
     THEN DecrementLoadCount
     ELSE UNCHANGED <<pluginModule, loadCount>>
  /\ EnableTermination(terminationCounter, connections' = {})
  /\ UNCHANGED <<uiClosed, terminationTimeout, lifetimeTimer, everUsed>>

\* removeWebProcessConnection (lines 75-88): with the last connection gone
\* the module's load count is lowered; then termination is enabled.
RemoveWebProcessConnection(c) ==
  /\ phase = "running" /\ c \in connections
  /\ connections' = connections \ {c}
  /\ IF connections' = {} /\ pluginModule # "none"
     THEN DecrementLoadCount
     ELSE UNCHANGED <<pluginModule, loadCount>>
  /\ EnableTermination(terminationCounter, connections' = {})
  /\ UNCHANGED <<uiClosed, terminationTimeout, lifetimeTimer, everUsed>>

\* getSitesWithData, deleteWebsiteData and deleteWebsiteDataForHostNames
\* (lines 185-217): each looks the module up, creating it on first use,
\* and replies to the UI process.
WebsiteDataRequest(loads) ==
  /\ phase = "running"
  /\ NetscapePluginModule(loads)
  /\ UNCHANGED <<phase, uiClosed, connections, terminationCounter,
                 terminationTimer, terminationTimeout, lifetimeTimer, everUsed>>

\* Variant: the timer fires without enabling termination.
MinimumLifetimeTimerFiredWithoutEnable ==
  /\ phase = "running" /\ lifetimeTimer
  /\ lifetimeTimer' = FALSE
  /\ UNCHANGED <<phase, uiClosed, connections, pluginModule, loadCount,
                 terminationCounter, terminationTimer, terminationTimeout, everUsed>>

\* minimumLifetimeTimerFired (lines 229-232).
MinimumLifetimeTimerFired ==
  /\ phase = "running" /\ lifetimeTimer
  /\ lifetimeTimer' = FALSE
  /\ EnableTermination(terminationCounter, ShouldTerminate)
  /\ UNCHANGED <<uiClosed, connections, pluginModule, loadCount,
                 terminationTimeout, everUsed>>

\* ChildProcess::terminationTimerFired: exit if shouldTerminate().
TerminationTimerFired ==
  /\ phase = "running" /\ terminationTimer
  /\ terminationTimer' = FALSE
  /\ IF ShouldTerminate THEN Terminate ELSE UNCHANGED phase
  /\ UNCHANGED <<uiClosed, connections, pluginModule, loadCount,
                 terminationCounter, terminationTimeout, lifetimeTimer, everUsed>>

\* Variant: the low-memory handler terminates without asking shouldTerminate.
LowMemoryHandlerUnconditional ==
  /\ phase = "running"
  /\ Terminate
  /\ UNCHANGED <<uiClosed, connections, pluginModule, loadCount,
                 terminationCounter, terminationTimer, terminationTimeout,
                 lifetimeTimer, everUsed>>

\* The low-memory handler installed by initializePluginProcess (lines
\* 133-136): terminate if there is no web process connection.
LowMemoryHandler ==
  /\ phase = "running"
  /\ IF ShouldTerminate THEN Terminate ELSE UNCHANGED phase
  /\ UNCHANGED <<uiClosed, connections, pluginModule, loadCount,
                 terminationCounter, terminationTimer, terminationTimeout,
                 lifetimeTimer, everUsed>>

\* didClose (lines 117-122): the UI process crashed; the run loop stops.
DidClose ==
  /\ phase # "exited"
  /\ Terminate
  /\ uiClosed' = TRUE
  /\ UNCHANGED <<connections, pluginModule, loadCount, terminationCounter,
                 terminationTimer, terminationTimeout, lifetimeTimer, everUsed>>

Init ==
  /\ phase = "launched" /\ uiClosed = FALSE /\ connections = {}
  /\ pluginModule = "none" /\ loadCount = 0
  /\ terminationCounter = 0 /\ terminationTimer = FALSE
  /\ terminationTimeout = "positive" /\ lifetimeTimer = FALSE
  /\ everUsed = FALSE

Next ==
  \/ \E lifetime \in BOOLEAN, timeout \in {"zero", "positive"} :
       InitializePluginProcess(lifetime, timeout)
  \/ \E c \in Conns, loads \in LoadOutcomes : CreateWebProcessConnection(c, loads)
  \/ \E c \in Conns : RemoveWebProcessConnection(c)
  \/ \E loads \in LoadOutcomes : WebsiteDataRequest(loads)
  \/ MinimumLifetimeTimerFired
  \/ TerminationTimerFired
  \/ LowMemoryHandler
  \/ DidClose

\* Timers armed on the run loop fire: the run loop keeps turning while the
\* process waits for messages.
Fairness == WF_vars(MinimumLifetimeTimerFired) /\ WF_vars(TerminationTimerFired)

Spec == Init /\ [][Next]_vars /\ Fairness

-----------------------------------------------------------------------------
(* Properties.                                                             *)

\* The comment in createWebProcessConnection: the first connection raises
\* the module's load count "so that the plug-in module's NP_Shutdown won't
\* be called until right before exiting"; removeWebProcessConnection's
\* decrement is said to be balanced by it. So a running process never has
\* an unloaded module.
NoShutdownBeforeExit == phase # "exited" => pluginModule # "unloaded"

\* The process exits while a web process still holds a connection to it
\* only when the UI process has gone: the termination timer and the
\* low-memory handler both ask shouldTerminate first.
ExitsOnlyWhenUnused == phase = "exited" /\ connections # {} => uiClosed

\* A running process that has had a connection or a minimum lifetime and
\* has no connection left eventually exits, unless a new connection comes:
\* every disableTermination is matched by an enableTermination, and the
\* last one starts the termination timer.
IdleProcessExits ==
  (phase = "running" /\ everUsed /\ connections = {})
    ~> (phase = "exited" \/ connections # {})
=============================================================================
