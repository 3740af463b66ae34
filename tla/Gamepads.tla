------------------------------ MODULE Gamepads ------------------------------
(***************************************************************************)
(* Gamepad use tracking of a WebProcessPool (src/UIProcess/               *)
(* WebProcessPool.cpp, lines 1562-1600, the disconnectProcess hook at     *)
(* lines 966-967 and the destructor at lines 353-355). Web processes send *)
(* StartedUsingGamepads and StoppedUsingGamepads over their connection;   *)
(* the pool keeps m_processesUsingGamepads and registers itself with the *)
(* UIGamepadProvider singleton (outside src/) while the set is not empty. *)
(***************************************************************************)
EXTENDS Naturals, Sequences

CONSTANTS
  Procs,       \* web processes of the pool
  MaxMessages  \* bound on messages in flight on one connection

VARIABLES
  status,          \* process -> "none", "connected" or "gone"
  webUsing,        \* the web process side: its pages use gamepads
  channel,         \* messages in flight from the web process, in order
  using,           \* m_processesUsingGamepads
  providerPools,   \* the pool is in UIGamepadProvider's set of pools
  poolAlive        \* the pool is not destroyed

vars == <<status, webUsing, channel, using, providerPools, poolAlive>>

Messages == {"started", "stopped"}

Connected == {p \in Procs : status[p] = "connected"}

-----------------------------------------------------------------------------

\* Variant: whether any process used gamepads is read after the removal.
ProcessStoppedUsingGamepadsLateRead(p) ==
  /\ using' = using \ {p}
  /\ providerPools' = IF using' # {} /\ using' = {} THEN FALSE ELSE providerPools

\* processStoppedUsingGamepads (lines 1589-1598).
ProcessStoppedUsingGamepads(p) ==
  /\ using' = using \ {p}
  /\ providerPools' = IF using # {} /\ using' = {} THEN FALSE ELSE providerPools

\* A web process is launched and connected to the pool.
LaunchProcess(p) ==
  /\ poolAlive /\ status[p] = "none"
  /\ status' = [status EXCEPT ![p] = "connected"]
  /\ UNCHANGED <<webUsing, channel, using, providerPools, poolAlive>>

\* The web process's pages start or stop using gamepads; it tells the pool.
WebProcessToggles(p) ==
  /\ status[p] = "connected" /\ Len(channel[p]) < MaxMessages
  /\ webUsing' = [webUsing EXCEPT ![p] = ~@]
  /\ channel' = [channel EXCEPT ![p] = Append(@, IF webUsing[p] THEN "stopped" ELSE "started")]
  /\ UNCHANGED <<status, using, providerPools, poolAlive>>

\* startedUsingGamepads (lines 1562-1577): the first process using gamepads
\* registers the pool with the provider.
StartedUsingGamepads(p) ==
  /\ status[p] = "connected" /\ channel[p] # <<>> /\ Head(channel[p]) = "started"
  /\ channel' = [channel EXCEPT ![p] = Tail(@)]
  /\ using' = using \union {p}
  /\ providerPools' = IF using = {} THEN TRUE ELSE providerPools
  /\ UNCHANGED <<status, webUsing, poolAlive>>

\* stoppedUsingGamepads (lines 1579-1587).
StoppedUsingGamepads(p) ==
  /\ status[p] = "connected" /\ channel[p] # <<>> /\ Head(channel[p]) = "stopped"
  /\ channel' = [channel EXCEPT ![p] = Tail(@)]
  /\ ProcessStoppedUsingGamepads(p)
  /\ UNCHANGED <<status, webUsing, poolAlive>>

\* Variant: disconnectProcess without its gamepad hook.
DisconnectProcessKeepingGamepads(p) ==
  /\ status[p] = "connected"
  /\ status' = [status EXCEPT ![p] = "gone"]
  /\ channel' = [channel EXCEPT ![p] = <<>>]
  /\ UNCHANGED <<webUsing, using, providerPools, poolAlive>>

\* disconnectProcess (lines 938-971): the connection closes, messages in
\* flight are dropped, and a process using gamepads stops using them.
DisconnectProcess(p) ==
  /\ status[p] = "connected"
  /\ status' = [status EXCEPT ![p] = "gone"]
  /\ channel' = [channel EXCEPT ![p] = <<>>]
  /\ IF p \in using THEN ProcessStoppedUsingGamepads(p)
                    ELSE UNCHANGED <<using, providerPools>>
  /\ UNCHANGED <<webUsing, poolAlive>>

\* ~WebProcessPool (lines 353-355): processes keep the pool alive, so it
\* goes once none is connected; it leaves the provider if still in it.
DestroyPool ==
  /\ poolAlive /\ Connected = {}
  /\ poolAlive' = FALSE
  /\ providerPools' = IF using # {} THEN FALSE ELSE providerPools
  /\ UNCHANGED <<status, webUsing, channel, using>>

Init ==
  /\ status = [p \in Procs |-> "none"] /\ webUsing = [p \in Procs |-> FALSE]
  /\ channel = [p \in Procs |-> <<>>] /\ using = {}
  /\ providerPools = FALSE /\ poolAlive = TRUE

Next ==
  \/ \E p \in Procs :
       \/ LaunchProcess(p) \/ WebProcessToggles(p)
       \/ StartedUsingGamepads(p) \/ StoppedUsingGamepads(p)
       \/ DisconnectProcess(p)
  \/ DestroyPool

Spec == Init /\ [][Next]_vars

-----------------------------------------------------------------------------
(* Properties.                                                             *)

\* UIGamepadProvider sends gamepad events to the pools in its set, and the
\* pool forwards them to m_processesUsingGamepads (gamepadConnected, lines
\* 1599-1603). The pool is in the provider's set exactly while a connected
\* process of it uses gamepads, whatever the order of messages, process
\* exits and the pool's destruction.
ProviderTracksUse ==
  /\ providerPools <=> (poolAlive /\ using # {})
  /\ using \subseteq Connected

=============================================================================
