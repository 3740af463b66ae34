--------------------------- MODULE ServiceWorkers ---------------------------
(***************************************************************************)
(* Service worker processes of the pool (src/UIProcess/WebProcessPool.cpp):*)
(* establishWorkerContextConnectionToNetworkProcess (lines 544-596), which *)
(* reuses a web process of the same data store and registrable domain or   *)
(* creates one; removeFromServiceWorkerProcesses (598-603); the           *)
(* disconnectProcess hook (957-958); networkProcessCrashed and            *)
(* terminateServiceWorkers (467-478, 1478-1485). Web processes are        *)
(* launched, prewarmed, cached and exit as the WebProcessPool module      *)
(* models in detail; here only what the service worker code reads of     *)
(* them is kept: kind, data store, registrable domain, cache membership.  *)
(***************************************************************************)
EXTENDS Naturals, Sequences, SequencesExt

CONSTANTS
  Procs,                         \* web process proxies
  Stores,                        \* website data stores
  Domains                        \* registrable domains

NoDomain == "none"
NoStore == "none"
NoWorkers == [store |-> "none", domain |-> "none"]

VARIABLES
  kind,          \* process -> "none", "web", "prewarmed", "dummy" or "exited"
  store,         \* process -> its website data store
  domain,        \* process -> the registrable domain it matches, or NoDomain
  processes,     \* m_processes, in order
  inCache,       \* processes in the WebProcessCache
  workers,       \* process -> [store, domain] of its service worker context
  swProcesses,   \* serviceWorkerProcesses()
  useSeparate,   \* s_useSeparateServiceWorkerProcess
  forWorkers     \* history: processes created by createForServiceWorkers

vars == <<kind, store, domain, processes, inCache, workers, swProcesses, useSeparate, forWorkers>>

Request == [store : Stores, domain : Domains]

TypeOK ==
  /\ kind \in [Procs -> {"none", "web", "prewarmed", "dummy", "exited"}]
  /\ store \in [Procs -> Stores \union {NoStore}] /\ domain \in [Procs -> Domains \union {NoDomain}]
  /\ processes \in Seq(Procs) /\ IsInjective(processes)
  /\ inCache \subseteq Procs /\ swProcesses \subseteq Procs
  /\ workers \in [Procs -> Request \union {NoWorkers}]
  /\ useSeparate \in BOOLEAN /\ forWorkers \subseteq Procs

-----------------------------------------------------------------------------
(* The processes as other code leaves them.                                *)

\* A web process is created for a page (createNewWebProcess, lines
\* 638-652) and commits a load of a registrable domain, or none.
LaunchWebProcess(p, s, d) ==
  /\ kind[p] = "none"
  /\ kind' = [kind EXCEPT ![p] = "web"]
  /\ store' = [store EXCEPT ![p] = s] /\ domain' = [domain EXCEPT ![p] = d]
  /\ processes' = Append(processes, p)
  /\ UNCHANGED <<inCache, workers, swProcesses, useSeparate, forWorkers>>

\* A prewarmed process or a dummy process proxy: in m_processes, serving
\* no registrable domain.
LaunchOtherProcess(p, s, k) ==
  /\ kind[p] = "none"
  /\ kind' = [kind EXCEPT ![p] = k] /\ store' = [store EXCEPT ![p] = s]
  /\ processes' = Append(processes, p)
  /\ UNCHANGED <<domain, inCache, workers, swProcesses, useSeparate, forWorkers>>

\* A web process without pages or service workers enters the
\* WebProcessCache (WebProcessCache::canCacheProcess, outside src/).
AddProcessToCache(p) ==
  /\ kind[p] = "web" /\ p \notin inCache /\ workers[p] = NoWorkers
  /\ inCache' = inCache \union {p}
  /\ UNCHANGED <<kind, store, domain, processes, workers, swProcesses, useSeparate, forWorkers>>

\* processForRegistrableDomain takes a process out of the cache (line 976).
TakeProcessFromCache(p) ==
  /\ p \in inCache
  /\ inCache' = inCache \ {p}
  /\ UNCHANGED <<kind, store, domain, processes, workers, swProcesses, useSeparate, forWorkers>>

-----------------------------------------------------------------------------
(* Service worker processes.                                               *)

\* Variant: the reuse loop without the data store check.
ReusableIgnoringStore(p, r) ==
  /\ kind[p] \notin {"prewarmed", "dummy"}
  /\ domain[p] = r.domain

\* The reuse loop's conditions (lines 560-565): not the prewarmed process,
\* not a dummy process proxy, same data store, matching registrable domain.
Reusable(p, r) ==
  /\ kind[p] \notin {"prewarmed", "dummy"}
  /\ store[p] = r.store
  /\ domain[p] = r.domain

\* The first process of m_processes the loop stops at, if any.
ReusedIndices(r) == {i \in DOMAIN processes : Reusable(processes[i], r)}

\* Variant: m_processes.append done for a reused process as well.
EstablishAppendingReused(r, q) ==
  LET reuse == ~useSeparate /\ ReusedIndices(r) # {}
      p == IF reuse THEN processes[Min(ReusedIndices(r))] ELSE q
  IN /\ \A x \in swProcesses : workers[x] # r
     /\ IF reuse
        THEN /\ workers' = [workers EXCEPT ![p] = r]
             /\ inCache' = inCache \ {p}
             /\ processes' = Append(processes, p)
             /\ UNCHANGED <<kind, store, domain>>
        ELSE /\ kind[q] = "none"
             /\ kind' = [kind EXCEPT ![q] = "web"]
             /\ store' = [store EXCEPT ![q] = r.store]
             /\ domain' = [domain EXCEPT ![q] = r.domain]
             /\ processes' = Append(processes, q)
             /\ workers' = [workers EXCEPT ![q] = r]
             /\ UNCHANGED inCache
     /\ swProcesses' = swProcesses \union {p}
     /\ forWorkers' = IF reuse THEN forWorkers ELSE forWorkers \union {q}
     /\ UNCHANGED useSeparate

\* Variant: a reused process is left in the WebProcessCache.
EstablishKeepingCache(r, q) ==
  LET reuse == ~useSeparate /\ ReusedIndices(r) # {}
      p == IF reuse THEN processes[Min(ReusedIndices(r))] ELSE q
  IN /\ \A x \in swProcesses : workers[x] # r
     /\ IF reuse
        THEN /\ workers' = [workers EXCEPT ![p] = r]
             /\ UNCHANGED <<kind, store, domain, processes, inCache, useSeparate, forWorkers>>
        ELSE /\ kind[q] = "none"
             /\ kind' = [kind EXCEPT ![q] = "web"]
             /\ store' = [store EXCEPT ![q] = r.store]
             /\ domain' = [domain EXCEPT ![q] = r.domain]
             /\ processes' = Append(processes, q)
             /\ workers' = [workers EXCEPT ![q] = r]
             /\ UNCHANGED inCache
     /\ swProcesses' = swProcesses \union {p}
     /\ forWorkers' = IF reuse THEN forWorkers ELSE forWorkers \union {q}
     /\ UNCHANGED useSeparate

\* establishWorkerContextConnectionToNetworkProcess (lines 544-596): the
\* network process asks for a service worker context for a data store and
\* a registrable domain it has none for. Unless a separate process is
\* required, the first reusable web process gets service workers enabled
\* and leaves the WebProcessCache; otherwise a new process q is created
\* for service workers and appended to m_processes. Either way it joins
\* serviceWorkerProcesses().
EstablishWorkerContextConnection(r, q) ==
  LET reuse == ~useSeparate /\ ReusedIndices(r) # {}
      p == IF reuse THEN processes[Min(ReusedIndices(r))] ELSE q
  IN /\ \A x \in swProcesses : workers[x] # r
     /\ IF reuse
        THEN /\ workers' = [workers EXCEPT ![p] = r]
             /\ inCache' = inCache \ {p}
             /\ UNCHANGED <<kind, store, domain, processes>>
        ELSE /\ kind[q] = "none"
             /\ kind' = [kind EXCEPT ![q] = "web"]
             /\ store' = [store EXCEPT ![q] = r.store]
             /\ domain' = [domain EXCEPT ![q] = r.domain]
             /\ processes' = Append(processes, q)
             /\ workers' = [workers EXCEPT ![q] = r]
             /\ UNCHANGED inCache
     /\ swProcesses' = swProcesses \union {p}
     /\ forWorkers' = IF reuse THEN forWorkers ELSE forWorkers \union {q}
     /\ UNCHANGED useSeparate

\* WebProcessProxy::disableServiceWorkers (outside src/): the network
\* process closes the context; removeFromServiceWorkerProcesses (598-603).
DisableServiceWorkers(p) ==
  /\ p \in swProcesses
  /\ workers' = [workers EXCEPT ![p] = NoWorkers]
  /\ swProcesses' = swProcesses \ {p}
  /\ UNCHANGED <<kind, store, domain, processes, inCache, useSeparate, forWorkers>>

\* Variant: disconnectProcess without its service worker hook.
DisconnectProcessKeepingWorkers(p) ==
  /\ kind[p] \in {"web", "prewarmed", "dummy"}
  /\ kind' = [kind EXCEPT ![p] = "exited"]
  /\ processes' = Remove(processes, p)
  /\ inCache' = inCache \ {p}
  /\ UNCHANGED <<store, domain, workers, swProcesses, useSeparate, forWorkers>>

\* A process exits: disconnectProcess (lines 938-971) drops it from
\* m_processes and the cache and, if it runs service workers, from
\* serviceWorkerProcesses() (lines 957-958).
DisconnectProcess(p) ==
  /\ kind[p] \in {"web", "prewarmed", "dummy"}
  /\ kind' = [kind EXCEPT ![p] = "exited"]
  /\ processes' = Remove(processes, p)
  /\ inCache' = inCache \ {p}
  /\ swProcesses' = IF workers[p] # NoWorkers THEN swProcesses \ {p} ELSE swProcesses
  /\ UNCHANGED <<store, domain, workers, useSeparate, forWorkers>>

\* terminateServiceWorkers (lines 1478-1485): disableServiceWorkers on the
\* first member of serviceWorkerProcesses() until it is empty.
TerminateServiceWorkers ==
  /\ workers' = [p \in Procs |-> IF p \in swProcesses THEN NoWorkers ELSE workers[p]]
  /\ swProcesses' = {}

\* Variant: the flag changed without terminating the service workers.
SetUseSeparateWithoutTerminating(b) ==
  /\ useSeparate # b
  /\ useSeparate' = b
  /\ UNCHANGED <<kind, store, domain, processes, inCache, workers, swProcesses, forWorkers>>

\* setUseSeparateServiceWorkerProcess (lines 2030-2045): a change of the
\* static flag terminates the service workers of every pool, so that
\* contexts established under the old setting are established anew.
SetUseSeparateServiceWorkerProcess(b) ==
  /\ useSeparate # b
  /\ useSeparate' = b
  /\ TerminateServiceWorkers
  /\ UNCHANGED <<kind, store, domain, processes, inCache, forWorkers>>

\* networkProcessCrashed (lines 467-478): supplements, the client and the
\* automation session are told, then the service workers are terminated.
NetworkProcessCrashed ==
  /\ swProcesses # {}
  /\ TerminateServiceWorkers
  /\ UNCHANGED <<kind, store, domain, processes, inCache, useSeparate, forWorkers>>

Init ==
  /\ kind = [p \in Procs |-> "none"]
  /\ store = [p \in Procs |-> NoStore]
  /\ domain = [p \in Procs |-> NoDomain]
  /\ processes = <<>> /\ inCache = {}
  /\ workers = [p \in Procs |-> NoWorkers] /\ swProcesses = {}
  /\ useSeparate = FALSE /\ forWorkers = {}

Next ==
  \/ \E p \in Procs, s \in Stores :
       \/ \E d \in Domains \union {NoDomain} : LaunchWebProcess(p, s, d)
       \/ \E k \in {"prewarmed", "dummy"} : LaunchOtherProcess(p, s, k)
  \/ \E p \in Procs :
       \/ AddProcessToCache(p) \/ TakeProcessFromCache(p)
       \/ DisableServiceWorkers(p) \/ DisconnectProcess(p)
  \/ \E r \in Request, q \in Procs : EstablishWorkerContextConnection(r, q)
  \/ NetworkProcessCrashed
  \/ \E b \in BOOLEAN : SetUseSeparateServiceWorkerProcess(b)

Spec == Init /\ [][Next]_vars

-----------------------------------------------------------------------------
(* Properties.                                                             *)

\* serviceWorkerProcesses() holds exactly the live processes running
\* service workers: establish adds the process it chose, and the process
\* leaves the set when its workers are disabled, when it exits
\* (disconnectProcess) and when the network process crashes (spec 5).
ServiceWorkerProcessesLive ==
  swProcesses = {p \in Procs : kind[p] = "web" /\ workers[p] # NoWorkers}

\* A service worker context runs in a process of its own data store and
\* registrable domain, also when an existing web process is reused (spec
\* 4.2(e): data stores never share a process).
ServiceWorkerIsolation ==
  \A p \in swProcesses : workers[p].store = store[p] /\ workers[p].domain = domain[p]

\* A process running service workers is not in the WebProcessCache, from
\* which processForRegistrableDomain would hand it to a page, or evict it.
ServiceWorkerProcessNotCached == swProcesses \cap inCache = {}

\* While s_useSeparateServiceWorkerProcess is set, every service worker
\* context runs in a process created for service workers, never in a web
\* process of pages, also for contexts established before the flag was
\* set.
SeparateProcessHonoured == useSeparate => swProcesses \subseteq forWorkers
=============================================================================
