--------------------------- MODULE PoolConfiguration ---------------------------
(***************************************************************************)
(* The settings a process pool hands to its web processes (src/UIProcess/  *)
(* WebProcessPool.cpp). A setting is kept in the pool (or, for the secure *)
(* URL schemes, in LegacyGlobalSettings, shared by every pool) and sent to *)
(* every process of the pool's m_processes with sendToAllProcesses; a     *)
(* process created later gets it from initializeNewWebProcess, in the     *)
(* InitializeWebProcess message or in a message sent right after it, or   *)
(* (the memory sampler) from processDidFinishLaunching. Messages to a     *)
(* process travel on its IPC connection in order; those sent while it    *)
(* launches are queued and delivered once it runs.                         *)
(*                                                                         *)
(* One setting of each shape is modelled: the URL schemes registered as   *)
(* empty documents (a set kept in the pool; display-isolated, CORS-       *)
(* enabled, cache-partitioned and the others are alike), the secure       *)
(* schemes (a global set), m_memoryCacheDisabled (a flag kept in the pool *)
(* and passed in the parameters), the memory sampler (a flag not in the   *)
(* parameters) and the automation session (its own message after         *)
(* InitializeWebProcess).                                                  *)
(***************************************************************************)
EXTENDS Naturals, Sequences, SequencesExt

CONSTANTS
  Pools,      \* process pools
  Procs,      \* web processes, over all pools; identifiers are not reused
  Schemes,    \* URL schemes an application may register
  MaxChanges  \* bound on the setting changes in a behaviour

ASSUME MaxChanges \in Nat

VARIABLES
  \* the pools
  emptyDocSchemes,     \* P -> m_schemesToRegisterAsEmptyDocument
  secureSchemes,       \* LegacyGlobalSettings::schemesToRegisterAsSecure
  memoryCacheDisabled, \* P -> m_memoryCacheDisabled
  samplerEnabled,      \* P -> m_memorySamplerEnabled
  automationSession,   \* P -> m_automationSession is set
  changes,             \* setting changes so far
  \* the web processes
  status,              \* p -> "none", "launching", "running" or "exited"
  poolOf,              \* p -> the pool whose m_processes holds it
  chan,                \* p -> messages sent to it and not yet handled
  view,                \* p -> the settings the web process has applied
  \* history: the schemes each pool registered as secure
  secureVia

poolVars == <<emptyDocSchemes, secureSchemes, memoryCacheDisabled,
              samplerEnabled, automationSession, changes>>
procVars == <<status, poolOf, chan, view>>
vars == <<poolVars, procVars, secureVia>>

\* The settings a web process holds; a process starts with none.
Settings == [initialized: BOOLEAN, emptyDoc: SUBSET Schemes,
             secure: SUBSET Schemes, cacheDisabled: BOOLEAN,
             sampler: BOOLEAN, automation: BOOLEAN]
NoSettings == [initialized |-> FALSE, emptyDoc |-> {}, secure |-> {},
               cacheDisabled |-> FALSE, sampler |-> FALSE, automation |-> FALSE]

\* Messages::WebProcess::*, as records with a type field.
InitializeMsgs == [type: {"InitializeWebProcess"}, emptyDoc: SUBSET Schemes,
                   secure: SUBSET Schemes, cacheDisabled: BOOLEAN]
SchemeMsgs == [type: {"RegisterURLSchemeAsEmptyDocument",
                      "RegisterURLSchemeAsSecure"}, scheme: Schemes]
FlagMsgs == [type: {"SetMemoryCacheDisabled", "MemorySampler",
                    "AutomationSessionProxy"}, on: BOOLEAN]
Msg(t, v) == [type |-> t, on |-> v]

Live == {p \in Procs : status[p] \in {"launching", "running"}}

TypeOK ==
  /\ emptyDocSchemes \in [Pools -> SUBSET Schemes]
  /\ secureSchemes \subseteq Schemes
  /\ memoryCacheDisabled \in [Pools -> BOOLEAN]
  /\ samplerEnabled \in [Pools -> BOOLEAN]
  /\ automationSession \in [Pools -> BOOLEAN]
  /\ changes \in 0..MaxChanges
  /\ status \in [Procs -> {"none", "launching", "running", "exited"}]
  /\ poolOf \in [Procs -> Pools]
  /\ chan \in [Procs -> Seq(InitializeMsgs \cup SchemeMsgs \cup FlagMsgs)]
  /\ view \in [Procs -> Settings]
  /\ secureVia \in [Pools -> SUBSET Schemes]

-----------------------------------------------------------------------------
(* The web process side (WebProcess, outside src/): it applies the        *)
(* messages of its connection in order.                                    *)

Apply(v, m) ==
  CASE m.type = "InitializeWebProcess" ->
         [v EXCEPT !.initialized = TRUE, !.emptyDoc = @ \cup m.emptyDoc,
                   !.secure = @ \cup m.secure, !.cacheDisabled = m.cacheDisabled]
    [] m.type = "RegisterURLSchemeAsEmptyDocument" ->
         [v EXCEPT !.emptyDoc = @ \cup {m.scheme}]
    [] m.type = "RegisterURLSchemeAsSecure" -> [v EXCEPT !.secure = @ \cup {m.scheme}]
    [] m.type = "SetMemoryCacheDisabled" -> [v EXCEPT !.cacheDisabled = m.on]
    [] m.type = "MemorySampler" -> [v EXCEPT !.sampler = m.on]
    [] m.type = "AutomationSessionProxy" -> [v EXCEPT !.automation = m.on]

-----------------------------------------------------------------------------
(* The pool.                                                               *)

\* sendToAllProcesses (WebProcessPool.h): the message goes on the
\* connection of every process of m_processes that can take messages,
\* a launching one included (its messages wait for the launch).
SendToAllProcesses(P, m) ==
  chan' = [p \in Procs |-> IF p \in Live /\ poolOf[p] = P
                           THEN Append(chan[p], m) ELSE chan[p]]

\* initializeNewWebProcess (lines 768-879): the creation parameters copy
\* the pool's scheme sets and m_memoryCacheDisabled; the automation session
\* proxy is asked for in a message of its own. The memory sampler is not
\* among the parameters.
InitializeNewWebProcess(P) ==
  <<[type |-> "InitializeWebProcess", emptyDoc |-> emptyDocSchemes[P],
     secure |-> secureSchemes, cacheDisabled |-> memoryCacheDisabled[P]]>>
  \o (IF automationSession[P] THEN <<Msg("AutomationSessionProxy", TRUE)>> ELSE <<>>)

\* createNewWebProcess (lines 638-652) and the new service worker process
\* of establishWorkerContextConnectionToNetworkProcess (lines 580-588):
\* initializeNewWebProcess, then the process is appended to m_processes.
CreateNewWebProcess(P, p) ==
  /\ status[p] = "none"
  /\ status' = [status EXCEPT ![p] = "launching"]
  /\ poolOf' = [poolOf EXCEPT ![p] = P]
  /\ chan' = [chan EXCEPT ![p] = InitializeNewWebProcess(P)]
  /\ UNCHANGED <<poolVars, view, secureVia>>

\* Variant: processDidFinishLaunching without its memory sampler check.
ProcessDidFinishLaunchingIgnoringSampler(p) ==
  /\ status[p] = "launching"
  /\ status' = [status EXCEPT ![p] = "running"]
  /\ UNCHANGED <<poolVars, poolOf, chan, view, secureVia>>

\* processDidFinishLaunching (lines 909-935): the connection is open and
\* the queued messages go; the memory sampler is started here if it was
\* enabled after the process was initialized.
ProcessDidFinishLaunching(p) ==
  /\ status[p] = "launching"
  /\ status' = [status EXCEPT ![p] = "running"]
  /\ chan' = IF samplerEnabled[poolOf[p]]
             THEN [chan EXCEPT ![p] = Append(@, Msg("MemorySampler", TRUE))]
             ELSE chan
  /\ UNCHANGED <<poolVars, poolOf, view, secureVia>>

\* The web process handles the next message of its connection.
HandleMessage(p) ==
  /\ status[p] = "running" /\ chan[p] # <<>>
  /\ view' = [view EXCEPT ![p] = Apply(@, Head(chan[p]))]
  /\ chan' = [chan EXCEPT ![p] = Tail(@)]
  /\ UNCHANGED <<poolVars, status, poolOf, secureVia>>

\* The process exits or fails to launch: disconnectProcess removes it from
\* m_processes (line 963); what was queued for it is lost.
DisconnectProcess(p) ==
  /\ p \in Live
  /\ status' = [status EXCEPT ![p] = "exited"]
  /\ chan' = [chan EXCEPT ![p] = <<>>]
  /\ UNCHANGED <<poolVars, poolOf, view, secureVia>>

\* A setting change, within the bound.
Change == changes < MaxChanges /\ changes' = changes + 1

\* registerURLSchemeAsEmptyDocument (lines 1265-1269).
RegisterURLSchemeAsEmptyDocument(P, s) ==
  /\ Change
  /\ emptyDocSchemes' = [emptyDocSchemes EXCEPT ![P] = @ \cup {s}]
  /\ SendToAllProcesses(P, [type |-> "RegisterURLSchemeAsEmptyDocument", scheme |-> s])
  /\ UNCHANGED <<secureSchemes, memoryCacheDisabled, samplerEnabled,
                 automationSession, status, poolOf, view, secureVia>>

\* registerURLSchemeAsSecure (lines 1271-1278): the scheme goes into the
\* global settings and to the processes of this pool (the network process
\* part is not modelled).
RegisterURLSchemeAsSecure(P, s) ==
  /\ Change
  /\ secureSchemes' = secureSchemes \cup {s}
  /\ SendToAllProcesses(P, [type |-> "RegisterURLSchemeAsSecure", scheme |-> s])
  /\ secureVia' = [secureVia EXCEPT ![P] = @ \cup {s}]
  /\ UNCHANGED <<emptyDocSchemes, memoryCacheDisabled, samplerEnabled,
                 automationSession, status, poolOf, view>>

\* setMemoryCacheDisabled (lines 1679-1683).
SetMemoryCacheDisabled(P, b) ==
  /\ Change
  /\ memoryCacheDisabled' = [memoryCacheDisabled EXCEPT ![P] = b]
  /\ SendToAllProcesses(P, Msg("SetMemoryCacheDisabled", b))
  /\ UNCHANGED <<emptyDocSchemes, secureSchemes, samplerEnabled,
                 automationSession, status, poolOf, view, secureVia>>

\* startMemorySampler (lines 1437-1455) and stopMemorySampler (lines
\* 1457-1468).
SetMemorySampler(P, b) ==
  /\ Change
  /\ samplerEnabled' = [samplerEnabled EXCEPT ![P] = b]
  /\ SendToAllProcesses(P, Msg("MemorySampler", b))
  /\ UNCHANGED <<emptyDocSchemes, secureSchemes, memoryCacheDisabled,
                 automationSession, status, poolOf, view, secureVia>>

\* setAutomationSession (lines 1494-1510), with REMOTE_INSPECTOR: the
\* processes are told to create or to destroy their session proxy.
SetAutomationSession(P, b) ==
  /\ Change
  /\ automationSession' = [automationSession EXCEPT ![P] = b]
  /\ SendToAllProcesses(P, Msg("AutomationSessionProxy", b))
  /\ UNCHANGED <<emptyDocSchemes, secureSchemes, memoryCacheDisabled,
                 samplerEnabled, status, poolOf, view, secureVia>>

Init ==
  /\ emptyDocSchemes = [P \in Pools |-> {}] /\ secureSchemes = {}
  /\ memoryCacheDisabled = [P \in Pools |-> FALSE]
  /\ samplerEnabled = [P \in Pools |-> FALSE]
  /\ automationSession = [P \in Pools |-> FALSE]
  /\ changes = 0
  /\ status = [p \in Procs |-> "none"]
  /\ poolOf = [p \in Procs |-> CHOOSE P \in Pools : TRUE]
  /\ chan = [p \in Procs |-> <<>>]
  /\ view = [p \in Procs |-> NoSettings]
  /\ secureVia = [P \in Pools |-> {}]

Next ==
  \/ \E P \in Pools :
       \/ \E p \in Procs : CreateNewWebProcess(P, p)
       \/ \E s \in Schemes :
            RegisterURLSchemeAsEmptyDocument(P, s) \/ RegisterURLSchemeAsSecure(P, s)
       \/ \E b \in BOOLEAN :
            \/ SetMemoryCacheDisabled(P, b)
            \/ SetMemorySampler(P, b)
            \/ SetAutomationSession(P, b)
  \/ \E p \in Procs :
       ProcessDidFinishLaunching(p) \/ HandleMessage(p) \/ DisconnectProcess(p)

Spec == Init /\ [][Next]_vars

-----------------------------------------------------------------------------
(* Properties.                                                             *)

\* The settings process p will hold once it has handled what is queued for
\* it, and the sampler start processDidFinishLaunching will still send.
Eventual(p) ==
  FoldLeft(Apply, view[p],
           chan[p] \o (IF status[p] = "launching" /\ samplerEnabled[poolOf[p]]
                       THEN <<Msg("MemorySampler", TRUE)>> ELSE <<>>))

\* Whatever the order of a process's launch and of the setting changes of
\* its pool, once the process has handled its queued messages it holds
\* the pool's current settings: a change made while it launches reaches it
\* either in its creation parameters or on its connection, and a change
\* undone is undone in it too. Of the global secure schemes it holds at
\* least those registered through its own pool.
ConfigurationConverges ==
  \A p \in Live :
    LET e == Eventual(p)
        P == poolOf[p]
    IN /\ e.initialized
       /\ e.emptyDoc = emptyDocSchemes[P]
       /\ e.cacheDisabled = memoryCacheDisabled[P]
       /\ e.sampler = samplerEnabled[P]
       /\ e.automation = automationSession[P]
       /\ secureVia[P] \subseteq e.secure /\ e.secure \subseteq secureSchemes

=============================================================================
