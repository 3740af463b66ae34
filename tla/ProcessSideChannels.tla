------------------------- MODULE ProcessSideChannels -------------------------
(***************************************************************************)
(* The side channels of a web process in the pool, composed: its service  *)
(* worker context (ServiceWorkers) and its gamepad use (Gamepads). Both   *)
(* share the process's lifetime, and disconnectProcess (src/UIProcess/    *)
(* WebProcessPool.cpp, lines 938-971) unregisters a process from both in  *)
(* one handler (lines 957-958 and 966-967). A process is connected to the *)
(* pool from its launch to its exit.                                       *)
(***************************************************************************)
EXTENDS Naturals, Sequences

CONSTANTS Procs, Stores, Domains, MaxMessages

VARIABLES kind, store, domain, processes, inCache, workers, swProcesses,
          useSeparate, forWorkers,
          status, webUsing, channel, using, providerPools, poolAlive

swVars == <<kind, store, domain, processes, inCache, workers, swProcesses,
            useSeparate, forWorkers>>
gpVars == <<status, webUsing, channel, using, providerPools, poolAlive>>
vars == <<swVars, gpVars>>

\* The connection state Gamepads reads, as the process's kind gives it;
\* status is kept equal to StatusOf(kind).
StatusOf(k) ==
  [p \in Procs |-> CASE k[p] = "none" -> "none"
                     [] k[p] = "exited" -> "gone"
                     [] OTHER -> "connected"]

SW == INSTANCE ServiceWorkers
GP == INSTANCE Gamepads

Init == SW!Init /\ GP!Init

\* disconnectProcess, both hooks in one step.
DisconnectProcess(p) == SW!DisconnectProcess(p) /\ GP!DisconnectProcess(p)

Next ==
  \/ /\ poolAlive
     /\ \E p \in Procs, s \in Stores :
          \/ \E d \in Domains \union {SW!NoDomain} : SW!LaunchWebProcess(p, s, d)
          \/ \E k \in {"prewarmed", "dummy"} : SW!LaunchOtherProcess(p, s, k)
     /\ status' = StatusOf(kind')
     /\ UNCHANGED <<webUsing, channel, using, providerPools, poolAlive>>
  \/ /\ \/ \E p \in Procs :
             SW!AddProcessToCache(p) \/ SW!TakeProcessFromCache(p) \/ SW!DisableServiceWorkers(p)
        \/ \E r \in SW!Request, q \in Procs : poolAlive /\ SW!EstablishWorkerContextConnection(r, q)
        \/ SW!NetworkProcessCrashed
        \/ \E b \in BOOLEAN : SW!SetUseSeparateServiceWorkerProcess(b)
     /\ UNCHANGED gpVars
  \/ /\ \E p \in Procs :
          \/ kind[p] = "web" /\ GP!WebProcessToggles(p)
          \/ GP!StartedUsingGamepads(p) \/ GP!StoppedUsingGamepads(p)
     /\ UNCHANGED swVars
  \/ \E p \in Procs : DisconnectProcess(p)
  \/ GP!DestroyPool /\ UNCHANGED swVars

Spec == Init /\ [][Next]_vars

-----------------------------------------------------------------------------
(* Properties: those of both components, over the composed behaviours.    *)

\* See ServiceWorkers: the service worker set, the isolation of a reused
\* process and its leaving the cache, the separate service worker process
\* setting.
ServiceWorkerProcessesLive == SW!ServiceWorkerProcessesLive
ServiceWorkerIsolation == SW!ServiceWorkerIsolation
ServiceWorkerProcessNotCached == SW!ServiceWorkerProcessNotCached
SeparateProcessHonoured == SW!SeparateProcessHonoured

\* See Gamepads: the pool is in the gamepad provider's set exactly while a
\* connected process uses gamepads.
ProviderTracksUse == GP!ProviderTracksUse

\* Type invariant of the service worker part.
TypeOK == SW!TypeOK
=============================================================================
