--------------------------- MODULE WebProcessPool ---------------------------
(***************************************************************************)
(* The web content processes of one WebProcessPool                         *)
(* (src/UIProcess/WebProcessPool.cpp): the live list m_processes, the      *)
(* prewarmed slot, the dummy (not yet launched) process proxies, the      *)
(* process-swap decision of processForNavigationInternal and               *)
(* processForRegistrableDomain, the debug map of swapped processes         *)
(* (m_swappedProcessesPerRegistrableDomain), disconnectProcess, memory     *)
(* pressure and enableProcessTermination.                                  *)
(*                                                                         *)
(* WebProcessCache, the back/forward cache of suspended pages and the      *)
(* page-side commit of a navigation are outside src/; they follow the      *)
(* contract of spec.md sections 3, 4.2 and 4.3 and are marked so below.    *)
(***************************************************************************)
EXTENDS Naturals, FiniteSets, Sequences, SequencesExt

CONSTANTS
  Procs,          \* ids a WebProcessProxy can get; bounds how many are ever created
  Pages,          \* WebPageProxy objects
  Domains,        \* registrable domains
  Stores,         \* WebsiteDataStore objects (one session each)
  EphemeralStores, \* those whose session is ephemeral
  DefaultStore,   \* WebsiteDataStore::defaultDataStore()
  None,           \* a null pointer or absent entry
  Blank,          \* a URL without registrable domain: empty, about:, invalid
  CacheCapacity,  \* WebProcessCache capacity derived from the cache model
  UsesSingleWebProcess,
  ProcessSwapsOnNavigation,
  AlwaysKeepAndReuseSwappedProcesses,
  DelayedWebProcessLaunchDisabled,
  AutomaticProcessWarming,  \* "unset", "on" or "off" as set by the client
  HasAutomationSession,     \* m_automationSession is set
  IsCocoa,                  \* PLATFORM(COCOA) build
  SandboxEnabled,           \* GTK/WPE bubblewrap sandbox (m_sandboxEnabled)
  MaxNavigations,           \* bound on the loads started in a behaviour
  MaxClosedPages            \* bound on the pages closed in a behaviour

ASSUME /\ DefaultStore \in Stores
       /\ EphemeralStores \subseteq Stores
       /\ None \notin Procs \cup Pages \cup Stores
       /\ Blank \notin Domains
       /\ CacheCapacity \in Nat
       /\ AutomaticProcessWarming \in {"unset", "on", "off"}
       /\ MaxNavigations \in Nat /\ MaxClosedPages \in Nat

Sites == Domains \cup {Blank}

VARIABLES
  processes,        \* m_processes, in creation order
  proxies,          \* ids held by a WebProcessProxy object that still exists
  terminated,       \* processes whose OS process has exited (state Terminated)
  dummy,            \* proxies created with ShouldLaunchProcess::No
  dummyFor,         \* m_dummyProcessProxies: session -> dummy proxy
  procStore,        \* the process's WebsiteDataStore (None while prewarmed)
  procDomain,       \* WebProcessProxy::registrableDomain: None until the first
                    \* load, Blank once used for several domains
  committed,        \* processes with hasCommittedAnyProvisionalLoads()
  procSites,        \* history: the sites each process has committed loads of
  prewarmed,        \* m_prewarmedProcess
  processCache,     \* WebProcessCache entries, least recently used first
  suspended,        \* suspended pages kept by the back/forward cache
  swappedPerDomain, \* m_swappedProcessesPerRegistrableDomain
  pageProc,         \* the process of each page (None: page not created)
  pageStore,        \* the page's WebsiteDataStore
  pageSite,         \* registrable domain of the page's current URL
  pageRelated,      \* configuration().relatedPage()
  backItem,         \* the page's back item: [proc, site] or None
  pending,          \* waiting in SuspendedPageProxy::waitUntilReadyToUnsuspend
  navigations,      \* loads started so far (bounded by MaxNavigations)
  sessionPages,     \* m_sessionToPageIDsMap: store -> pages using it
  closed,           \* closed pages (page identifiers are never reused)
  terminationEnabled, \* m_processTerminationEnabled
  clientWouldBenefit, \* clientWouldBenefitFromAutomaticProcessPrewarming
  crossSiteDecision \* the decision of this step when it was a cross-site one

poolVars == <<processes, proxies, terminated, dummy, dummyFor, procStore,
              procDomain, committed, procSites, prewarmed, processCache, suspended,
              swappedPerDomain>>
pageVars == <<pageProc, pageStore, pageSite, pageRelated, backItem, pending,
              navigations, sessionPages, closed>>
vars == <<poolVars, pageVars, terminationEnabled, clientWouldBenefit,
          crossSiteDecision>>

Live == ToSet(processes)
PagesOn(p) == {pg \in Pages : pageProc[pg] = p}
Cached == ToSet(processCache)
HasSuspendedPage(p) == \E s \in suspended : s.proc = p

TypeOK ==
  /\ processes \in Seq(Procs) /\ IsInjective(processes) /\ Live \subseteq proxies
  /\ proxies \subseteq Procs /\ terminated \subseteq proxies
  /\ dummy \subseteq proxies
  /\ dummyFor \in [Stores -> Procs \cup {None}]
  /\ procStore \in [Procs -> Stores \cup {None}]
  /\ procDomain \in [Procs -> Sites \cup {None}]
  /\ committed \subseteq proxies
  /\ procSites \in [Procs -> SUBSET Sites]
  /\ prewarmed \in Procs \cup {None}
  /\ processCache \in Seq(Procs)
  /\ suspended \subseteq [page : Pages, proc : Procs, site : Sites]
  /\ swappedPerDomain \in [Sites -> Procs \cup {None}]
  /\ pageProc \in [Pages -> Procs \cup {None}]
  /\ pageStore \in [Pages -> Stores]
  /\ pageSite \in [Pages -> Sites]
  /\ pageRelated \in [Pages -> Pages \cup {None}]
  /\ backItem \in [Pages -> [proc : Procs, site : Sites] \cup {None}]
  /\ pending \in [Pages -> BOOLEAN]
  /\ navigations \in 0..MaxNavigations
  /\ sessionPages \in [Stores -> SUBSET Pages] /\ closed \subseteq Pages
  /\ terminationEnabled \in BOOLEAN /\ clientWouldBenefit \in BOOLEAN
  /\ crossSiteDecision \in [source : Procs, chosen : Procs, target : Sites,
                            chosenSites : SUBSET Sites,
                            chosenStore : Stores \cup {None},
                            pageStore : Stores] \cup {None}

-----------------------------------------------------------------------------
(* Helpers of the pool.                                                    *)

\* WebProcessPool::shouldTerminate
ShouldTerminate == terminationEnabled /\ ~AlwaysKeepAndReuseSwappedProcesses

\* WebProcessPool::usesSingleWebProcess and the capacity WebProcessCache
\* derives from it (updateCapacity: no caching without process swap).
EffectiveCacheCapacity == IF ProcessSwapsOnNavigation THEN CacheCapacity ELSE 0

\* Configuration::isAutomaticProcessWarmingEnabled
IsAutomaticProcessWarmingEnabled ==
  IF AutomaticProcessWarming = "unset" THEN clientWouldBenefit
  ELSE AutomaticProcessWarming = "on"

\* WebsiteDataStore::defaultDataStoreExists: a page was created with it.
DefaultDataStoreExists ==
  \E pg \in Pages : (pageProc[pg] # None \/ pg \in closed) /\ pageStore[pg] = DefaultStore

\* addProcessToOriginCacheSet (lines 1756-1766): the registrable domain of
\* the URL now names p, replacing any earlier entry.
AddProcessToOriginCacheSet(p, d) ==
  swappedPerDomain' = [swappedPerDomain EXCEPT ![d] = p]

\* removeProcessFromOriginCacheSet (lines 1768-1782) for every process of
\* S: each entry naming one of them is removed.
RemoveProcessesFromOriginCacheSet(S) ==
  swappedPerDomain' = [d \in Sites |-> IF swappedPerDomain[d] \in S
                                        THEN None ELSE swappedPerDomain[d]]

\* Variants of DisconnectProcesses for mutation analysis: without
\* m_backForwardCache->removeEntriesForProcess, and without the take from
\* m_dummyProcessProxies.
DisconnectProcessesKeepingSuspendedPages(S, susp) ==
  /\ prewarmed' = IF prewarmed \in S THEN None ELSE prewarmed
  /\ dummyFor' = [st \in Stores |-> IF dummyFor[st] \in S THEN None ELSE dummyFor[st]]
  /\ suspended' = susp
  /\ processes' = SelectSeq(processes, LAMBDA q : q \notin S)
  /\ RemoveProcessesFromOriginCacheSet(S)
DisconnectProcessesKeepingDummy(S, susp) ==
  /\ prewarmed' = IF prewarmed \in S THEN None ELSE prewarmed
  /\ UNCHANGED dummyFor
  /\ suspended' = {s \in susp : s.proc \notin S}
  /\ processes' = SelectSeq(processes, LAMBDA q : q \notin S)
  /\ RemoveProcessesFromOriginCacheSet(S)

\* disconnectProcess for every process of S. susp is the set of suspended
\* pages to keep entries of (the caller may already have cleared it).
DisconnectProcesses(S, susp) ==
  /\ prewarmed' = IF prewarmed \in S THEN None ELSE prewarmed
  /\ dummyFor' = [st \in Stores |-> IF dummyFor[st] \in S THEN None ELSE dummyFor[st]]
  /\ suspended' = {s \in susp : s.proc \notin S}
  /\ processes' = SelectSeq(processes, LAMBDA q : q \notin S)
  /\ RemoveProcessesFromOriginCacheSet(S)

\* WebProcessProxy::shutDown on every process of S: it exits and the pool
\* disconnects it at once.
ShutDown(S, susp) ==
  /\ terminated' = terminated \cup S
  /\ DisconnectProcesses(S, susp)

\* createNewWebProcess and initializeNewWebProcess: q is a new process for
\* store st (None when prewarmed), appended to m_processes.
CreateNewWebProcess(st, q) ==
  /\ q \in Procs \ proxies
  /\ proxies' = proxies \cup {q}
  /\ processes' = Append(processes, q)
  /\ procStore' = [procStore EXCEPT ![q] = st]

\* spec 4.3 takeProcess: the cached process for (domain, store).
CachedFor(d, st) == {p \in Cached : procDomain[p] = d /\ procStore[p] = st}

\* SuspendedPageProxy::findReusableSuspendedPageProcess (spec 4.2 (b)).
ReusableSuspendedProcesses(d, st) ==
  {s.proc : s \in {s \in suspended : procDomain[s.proc] = d /\ procStore[s.proc] = st}}

\* WebProcessProxy::didStartProvisionalLoadForMainFrame: a process keeps the
\* domain of its first load; a load of another domain empties it for good.
RegistrableDomainAfterLoad(cur, d) ==
  IF cur = None \/ cur = d THEN d ELSE Blank

\* tryTakePrewarmedProcess can hand out the prewarmed process.
PrewarmedUsable ==
  prewarmed # None /\ prewarmed \notin terminated /\ ~SandboxEnabled

\* Variants of TakePrewarmedProcess for mutation analysis: the data store is
\* not set, or std::exchange is replaced by a copy.
TakePrewarmedProcessWithoutStore(st) ==
  /\ prewarmed' = None
  /\ UNCHANGED procStore
TakePrewarmedProcessKeepingSlot(st) ==
  /\ procStore' = [procStore EXCEPT ![prewarmed] = st]
  /\ UNCHANGED prewarmed

\* tryTakePrewarmedProcess handing the process out: it gets the data store
\* and leaves the slot (std::exchange).
TakePrewarmedProcess(st) ==
  /\ procStore' = [procStore EXCEPT ![prewarmed] = st]
  /\ prewarmed' = None

\* The first process of the single-process scan (lines 996-1012).
SingleProcessCandidates(st) ==
  LET mustMatch == IsCocoa /\ DefaultDataStoreExists /\ st # DefaultStore
      slot == IF prewarmed # None /\ prewarmed \in terminated THEN None
              ELSE prewarmed
  IN SelectSeq(processes, LAMBDA q : /\ q # slot /\ q \notin dummy
                                     /\ (~mustMatch \/ procStore[q] = st))

(***************************************************************************)
(* processForRegistrableDomain(st, d) returns q. It owns processes,       *)
(* proxies, procStore, prewarmed and processCache; the caller, in the same *)
(* step, moves the page to q.                                              *)
(***************************************************************************)
ProcessForRegistrableDomain(st, d, q) ==
  IF d # Blank /\ CachedFor(d, st) # {}
  THEN /\ q = CHOOSE c \in CachedFor(d, st) : TRUE
       /\ processCache' = Remove(processCache, q)
       /\ UNCHANGED <<processes, proxies, procStore, prewarmed>>
  ELSE IF d # Blank /\ ReusableSuspendedProcesses(d, st) # {}
  THEN /\ q \in ReusableSuspendedProcesses(d, st)
       /\ UNCHANGED <<processes, proxies, procStore, prewarmed, processCache>>
  ELSE IF PrewarmedUsable
  THEN /\ q = prewarmed
       /\ TakePrewarmedProcess(st)
       /\ UNCHANGED <<processes, proxies, processCache>>
  ELSE /\ UNCHANGED processCache
       \* a terminated prewarmed process is dropped from the slot
       /\ prewarmed' = IF prewarmed # None /\ prewarmed \in terminated
                       THEN None ELSE prewarmed
       /\ IF ~UsesSingleWebProcess \/ SingleProcessCandidates(st) = <<>>
          THEN CreateNewWebProcess(st, q)
          ELSE /\ q = Head(SingleProcessCandidates(st))
               /\ UNCHANGED <<processes, proxies, procStore>>

-----------------------------------------------------------------------------
(* The page side of a decision (outside src/): the page commits the load   *)
(* in q; when it leaves src, src may keep a suspended page for its back    *)
(* item. The outer completion handler of processForNavigation runs first.  *)

CommitNavigation(pg, d, src, q, clientRequested, reason) ==
  \E keep \in IF q # src /\ src \notin terminated THEN BOOLEAN ELSE {FALSE} :
    /\ pageProc' = [pageProc EXCEPT ![pg] = q]
    /\ pageSite' = [pageSite EXCEPT ![pg] = d]
    /\ backItem' = [backItem EXCEPT ![pg] = [proc |-> src, site |-> pageSite[pg]]]
    /\ pending' = [pending EXCEPT ![pg] = FALSE]
    /\ committed' = committed \cup {q}
    /\ procSites' = [procSites EXCEPT ![q] = @ \cup {d}]
    /\ procDomain' = [procDomain EXCEPT ![q] = RegistrableDomainAfterLoad(@, d)]
    /\ suspended' = {s \in suspended : s.page # pg}
                    \cup IF keep THEN {[page |-> pg, proc |-> src, site |-> pageSite[pg]]}
                         ELSE {}
    \* processForNavigation's completion handler (lines 1785-1805)
    /\ clientWouldBenefit' = \/ clientWouldBenefit
                             \/ AutomaticProcessWarming = "unset" /\ ~clientRequested /\ q # src
    /\ IF AlwaysKeepAndReuseSwappedProcesses /\ q # src
       THEN AddProcessToOriginCacheSet(src, pageSite[pg])
       ELSE UNCHANGED swappedPerDomain
    /\ crossSiteDecision' =
         IF reason = "crossSite"
         THEN [source |-> src, chosen |-> q, target |-> d, chosenSites |-> procSites[q],
               chosenStore |-> procStore'[q], pageStore |-> pageStore[pg]]
         ELSE None
    /\ UNCHANGED <<terminated, dummy, dummyFor, pageStore, pageRelated,
                   sessionPages, closed, terminationEnabled>>

\* A variant of CreateNewProcess for mutation analysis: the lambda looks up
\* the source page's domain instead of the target's.
CreateNewProcessForSourceDomain(pg, d, src, clientRequested, reason) ==
  \E q \in Procs : /\ ProcessForRegistrableDomain(pageStore[pg], pageSite[pg], q)
                  /\ CommitNavigation(pg, d, src, q, clientRequested, reason)

\* The createNewProcess lambda (lines 1813-1815) and its completion.
CreateNewProcess(pg, d, src, clientRequested, reason) ==
  \E q \in Procs : /\ ProcessForRegistrableDomain(pageStore[pg], d, q)
                  /\ CommitNavigation(pg, d, src, q, clientRequested, reason)

\* processForIdentifier(lastProcessIdentifier) is alive and not Terminated.
BackForwardItemProcessUsable(item) ==
  item.proc \in proxies /\ item.proc \notin terminated

\* A variant of UseBackForwardItemProcess for mutation analysis: the process
\* is not taken out of the WebProcessCache.
UseBackForwardItemProcessInCache(pg, item, src, clientRequested) ==
  /\ UNCHANGED <<processes, proxies, procStore, prewarmed, processCache>>
  /\ CommitNavigation(pg, item.site, src, item.proc, clientRequested,
                      "backForwardProcess")

\* Lines 1853-1862: the target item's process leaves the WebProcessCache
\* (ShouldShutDownProcess::No) and takes the load.
UseBackForwardItemProcess(pg, item, src, clientRequested) ==
  /\ processCache' = Remove(processCache, item.proc)
  /\ UNCHANGED <<processes, proxies, procStore, prewarmed>>
  /\ CommitNavigation(pg, item.site, src, item.proc, clientRequested,
                      "backForwardProcess")

(***************************************************************************)
(* processForNavigationInternal: the precedence of early returns. item is  *)
(* the target back/forward item (None for a new load), d the target's      *)
(* registrable domain. A suspended target page defers the decision.        *)
(***************************************************************************)
ProcessForNavigation(pg, d, item, clientRequested, keepsOpener, sameOrigin) ==
  LET src == pageProc[pg]
      st == pageStore[pg]
      Reuse(reason) ==
        /\ UNCHANGED <<processes, proxies, procStore, prewarmed, processCache>>
        /\ CommitNavigation(pg, d, src, src, clientRequested, reason)
      sourceSite == IF pageSite[pg] = Blank /\ pageRelated[pg] # None
                    THEN pageSite[pageRelated[pg]] ELSE pageSite[pg]
      swapped == swappedPerDomain[d]
  IN
  IF UsesSingleWebProcess THEN Reuse("single")
  ELSE IF clientRequested THEN CreateNewProcess(pg, d, src, TRUE, "client")
  ELSE IF ~ProcessSwapsOnNavigation THEN Reuse("disabled")
  ELSE IF HasAutomationSession THEN Reuse("automation")
  ELSE IF src \notin committed THEN Reuse("notCommitted")
  ELSE IF keepsOpener THEN Reuse("opener")
  ELSE IF item # None /\ [page |-> pg, proc |-> item.proc, site |-> item.site] \in suspended
  THEN /\ pending' = [pending EXCEPT ![pg] = TRUE]
       /\ UNCHANGED <<poolVars, pageProc, pageStore, pageSite, pageRelated,
                      backItem, sessionPages, closed, terminationEnabled,
                      clientWouldBenefit>>
       /\ crossSiteDecision' = None
  ELSE IF item # None /\ BackForwardItemProcessUsable(item)
  THEN UseBackForwardItemProcess(pg, item, src, clientRequested)
  ELSE IF sameOrigin THEN Reuse("sameOriginFlag")
  ELSE IF sourceSite = Blank \/ sourceSite = d THEN Reuse("sameSite")
  ELSE IF AlwaysKeepAndReuseSwappedProcesses /\ swapped # None
          /\ procStore[swapped] = st
  THEN /\ UNCHANGED <<processes, proxies, procStore, prewarmed, processCache>>
       /\ CommitNavigation(pg, d, src, swapped, clientRequested, "crossSite")
  ELSE CreateNewProcess(pg, d, src, clientRequested, "crossSite")

\* A page on a running process starts a load of a new URL in domain d.
Navigate(pg, d, clientRequested, keepsOpener, sameOrigin) ==
  /\ pageProc[pg] \in Live \ (terminated \cup dummy)
  /\ ~pending[pg]
  /\ navigations < MaxNavigations
  /\ navigations' = navigations + 1
  /\ ProcessForNavigation(pg, d, None, clientRequested, keepsOpener, sameOrigin)

\* A page goes back to its back item.
NavigateBack(pg, clientRequested, keepsOpener, sameOrigin) ==
  /\ pageProc[pg] \in Live \ (terminated \cup dummy)
  /\ ~pending[pg]
  /\ backItem[pg] # None
  /\ navigations < MaxNavigations
  /\ navigations' = navigations + 1
  /\ ProcessForNavigation(pg, backItem[pg].site, backItem[pg], clientRequested,
                          keepsOpener, sameOrigin)

\* The waitUntilReadyToUnsuspend callback (lines 1845-1850): the suspended
\* page is used if it still exists, otherwise createNewProcess().
SuspendedPageReady(pg) ==
  LET item == backItem[pg]
      src == pageProc[pg]
      sp == [page |-> pg, proc |-> item.proc, site |-> item.site]
  IN
  /\ pending[pg]
  /\ UNCHANGED navigations
  /\ IF sp \in suspended /\ item.proc \notin terminated
     THEN /\ UNCHANGED <<processes, proxies, procStore, prewarmed, processCache>>
          /\ CommitNavigation(pg, item.site, src, item.proc, FALSE,
                              "backForwardSuspended")
     ELSE CreateNewProcess(pg, item.site, src, FALSE, "suspendedNotReusable")

-----------------------------------------------------------------------------
(* Page creation (createWebPage) and the relaunch of a page whose process  *)
(* is a dummy or has exited (WebPageProxy, outside src/).                  *)

\* pageBeginUsingWebsiteDataStore (lines 1101-1105), called when the page
\* is created.
PageBeginUsingWebsiteDataStore(pg, st) ==
  sessionPages' = [sessionPages EXCEPT ![st] = @ \cup {pg}]

\* WebProcessCache::clearAllProcessesForSession (outside src/): the cached
\* processes of the session leave the cache and shut down. susp: the
\* suspended pages kept.
ClearAllProcessesForSession(st, susp) ==
  LET S == {p \in Cached : procStore[p] = st}
  IN /\ processCache' = SelectSeq(processCache, LAMBDA q : q \notin S)
     /\ ShutDown(S, susp)

\* pageEndUsingWebsiteDataStore (lines 1107-1123): the page leaves its
\* session's entry; when it was the last one the entry goes and, for an
\* ephemeral session, the WebProcessCache drops the session's processes.
PageEndUsingWebsiteDataStore(pg, st, susp) ==
  LET left == sessionPages[st] \ {pg}
  IN /\ sessionPages' = [sessionPages EXCEPT ![st] = left]
     /\ IF left = {} /\ st \in EphemeralStores
        THEN ClearAllProcessesForSession(st, susp)
        ELSE /\ suspended' = susp
             /\ UNCHANGED <<processes, terminated, prewarmed, processCache,
                            dummyFor, swappedPerDomain>>

\* hasPagesUsingWebsiteDataStore (lines 1124-1127).
HasPagesUsingWebsiteDataStore(st) == sessionPages[st] # {}

\* WebPageProxy::close (outside src/): the page's back/forward entries go,
\* a navigation it waits on is dropped, the page ends using its data store
\* and leaves its process.
ClosePage(pg) ==
  /\ pageProc[pg] # None
  /\ Cardinality(closed) < MaxClosedPages
  /\ closed' = closed \cup {pg}
  /\ pageProc' = [pageProc EXCEPT ![pg] = None]
  /\ backItem' = [backItem EXCEPT ![pg] = None]
  /\ pending' = [pending EXCEPT ![pg] = FALSE]
  /\ PageEndUsingWebsiteDataStore(pg, pageStore[pg], {s \in suspended : s.page # pg})
  /\ UNCHANGED <<proxies, dummy, procStore, procDomain, committed, procSites,
                 pageStore, pageSite, pageRelated, navigations,
                 terminationEnabled, clientWouldBenefit>>
  /\ crossSiteDecision' = None

SetPage(pg, st, rel, q) ==
  /\ pageProc' = [pageProc EXCEPT ![pg] = q]
  /\ pageStore' = [pageStore EXCEPT ![pg] = st]
  /\ pageRelated' = [pageRelated EXCEPT ![pg] = rel]
  /\ UNCHANGED <<pageSite, backItem, pending, navigations, closed, committed, procSites, procDomain, suspended,
                 swappedPerDomain, terminated, terminationEnabled,
                 clientWouldBenefit>>
  /\ crossSiteDecision' = None

\* A variant of DummyProcessProxy for mutation analysis: the append to
\* m_processes is done whether or not the dummy proxy already existed.
DummyProcessProxyAppendedAgain(pg, st) ==
  /\ UNCHANGED <<prewarmed, processCache>>
  /\ IF dummyFor[st] # None
     THEN /\ processes' = Append(processes, dummyFor[st])
          /\ UNCHANGED <<proxies, procStore, dummy, dummyFor>>
          /\ SetPage(pg, st, None, dummyFor[st])
     ELSE \E q \in Procs : /\ CreateNewWebProcess(st, q)
                          /\ dummy' = dummy \cup {q}
                          /\ dummyFor' = [dummyFor EXCEPT ![st] = q]
                          /\ SetPage(pg, st, None, q)

\* Delayed launch (lines 1048-1055): the page gets its session's dummy
\* proxy, created with ShouldLaunchProcess::No and appended if missing.
DummyProcessProxy(pg, st) ==
  /\ UNCHANGED <<prewarmed, processCache>>
  /\ IF dummyFor[st] # None
     THEN /\ UNCHANGED <<processes, proxies, procStore, dummy, dummyFor>>
          /\ SetPage(pg, st, None, dummyFor[st])
     ELSE \E q \in Procs : /\ CreateNewWebProcess(st, q)
                          /\ dummy' = dummy \cup {q}
                          /\ dummyFor' = [dummyFor EXCEPT ![st] = q]
                          /\ SetPage(pg, st, None, q)

CreateWebPage(pg, st, rel) ==
  /\ pageProc[pg] = None /\ pg \notin closed
  /\ PageBeginUsingWebsiteDataStore(pg, st)
  /\ rel # None => /\ pageProc[rel] \in Live \ (terminated \cup dummy)
                   /\ pageStore[rel] = st
  /\ IF rel # None
     THEN /\ UNCHANGED <<processes, proxies, procStore, prewarmed, processCache,
                         dummy, dummyFor>>
          /\ SetPage(pg, st, rel, pageProc[rel])
     ELSE IF ~DelayedWebProcessLaunchDisabled
     THEN DummyProcessProxy(pg, st)
     ELSE /\ UNCHANGED <<dummy, dummyFor>>
          /\ \E q \in Procs : /\ ProcessForRegistrableDomain(st, Blank, q)
                              /\ SetPage(pg, st, rel, q)

EnsureRunningProcess(pg) ==
  /\ pageProc[pg] \in (terminated \cup dummy)
  /\ ~pending[pg]
  /\ UNCHANGED <<dummy, dummyFor, sessionPages>>
  /\ \E q \in Procs : /\ ProcessForRegistrableDomain(pageStore[pg], pageSite[pg], q)
                      /\ SetPage(pg, pageStore[pg], pageRelated[pg], q)

-----------------------------------------------------------------------------
(* Process lifetime.                                                       *)

\* prewarmProcess, and didReachGoodTimeToPrewarm when not under memory
\* pressure.
PrewarmProcess ==
  /\ prewarmed = None
  /\ UNCHANGED <<terminated, dummy, dummyFor, procDomain, committed, procSites,
                 processCache, suspended, swappedPerDomain, pageVars,
                 terminationEnabled, clientWouldBenefit>>
  /\ crossSiteDecision' = None
  /\ \E q \in Procs : CreateNewWebProcess(None, q) /\ prewarmed' = q

DidReachGoodTimeToPrewarm ==
  /\ IsAutomaticProcessWarmingEnabled
  /\ ProcessSwapsOnNavigation
  /\ ~UsesSingleWebProcess
  /\ PrewarmProcess

\* The OS process exits (crash, kill, jetsam); the proxy is told later.
ProcessCrashed(p) ==
  /\ p \in Live \ (terminated \cup dummy)
  /\ terminated' = terminated \cup {p}
  /\ UNCHANGED <<processes, proxies, dummy, dummyFor, procStore, procDomain,
                 committed, procSites, prewarmed, processCache, suspended,
                 swappedPerDomain, pageVars, terminationEnabled,
                 clientWouldBenefit>>
  /\ crossSiteDecision' = None

\* The termination notice: the process leaves the WebProcessCache (spec 4.1)
\* and disconnectProcess runs.
ProcessDidTerminate(p) ==
  /\ p \in Live \cap terminated
  /\ processCache' = Remove(processCache, p)
  /\ DisconnectProcesses({p}, suspended)
  /\ UNCHANGED <<proxies, terminated, dummy, procStore, procDomain, committed, procSites,
                 pageVars, terminationEnabled, clientWouldBenefit>>
  /\ crossSiteDecision' = None

\* A process with no page left (WebProcessProxy, outside src/): it enters
\* the WebProcessCache when it can (evicting the least recently used entry
\* and any entry of the same key), or shuts down if the pool allows it.
\* maybeShutDown reaches the cache only after canTerminateAuxiliaryProcess,
\* which asks the pool's shouldTerminate (lines 899-907), so a pool that
\* keeps its processes (terminationEnabled FALSE or AlwaysKeep) caches none.
Idle(p) ==
  /\ p \in Live \ (terminated \cup Cached)
  /\ p # prewarmed
  /\ PagesOn(p) = {}
  /\ ~HasSuspendedPage(p)
  /\ \A pg \in Pages : pending[pg] => backItem[pg].proc # p

Cacheable(p) == procDomain[p] \in Domains /\ EffectiveCacheCapacity > 0

AddProcessToCache(p) ==
  /\ Idle(p) /\ p \notin dummy /\ Cacheable(p) /\ ShouldTerminate
  /\ LET same == CachedFor(procDomain[p], procStore[p])
         rest == SelectSeq(processCache, LAMBDA q : q \notin same)
         evicted == IF Len(rest) >= EffectiveCacheCapacity
                    THEN same \cup {Head(rest)} ELSE same
     IN /\ processCache' = Append(SelectSeq(rest, LAMBDA q : q \notin evicted), p)
        /\ ShutDown(evicted, suspended)
  /\ UNCHANGED <<proxies, dummy, procStore, procDomain, committed, procSites, pageVars,
                 terminationEnabled, clientWouldBenefit>>
  /\ crossSiteDecision' = None

MaybeShutDown(p) ==
  /\ Idle(p)
  /\ \/ p \in dummy
     \/ ~Cacheable(p) /\ ShouldTerminate
  /\ ShutDown({p}, suspended)
  /\ UNCHANGED <<proxies, dummy, procStore, procDomain, committed, procSites, processCache,
                 pageVars, terminationEnabled, clientWouldBenefit>>
  /\ crossSiteDecision' = None

\* The last reference to a disconnected WebProcessProxy goes away: no page
\* uses it and no back/forward item names its identifier. Its id can then
\* stand for a new proxy (raw pointers to it, as in the swapped map, dangle).
ProcessProxyDestroyed(p) ==
  /\ p \in proxies \ Live
  /\ PagesOn(p) = {}
  /\ \A pg \in Pages : backItem[pg] # None => backItem[pg].proc # p
  /\ proxies' = proxies \ {p}
  /\ terminated' = terminated \ {p}
  /\ dummy' = dummy \ {p}
  /\ committed' = committed \ {p}
  /\ procSites' = [procSites EXCEPT ![p] = {}]
  /\ procStore' = [procStore EXCEPT ![p] = None]
  /\ procDomain' = [procDomain EXCEPT ![p] = None]
  /\ UNCHANGED <<processes, dummyFor, prewarmed, processCache, suspended,
                 swappedPerDomain, pageVars, terminationEnabled,
                 clientWouldBenefit>>
  /\ crossSiteDecision' = None

\* enableProcessTermination: every live process is terminated when
\* shouldTerminate says so (dummy proxies have nothing to terminate).
EnableProcessTermination ==
  /\ terminationEnabled' = TRUE
  /\ terminated' = IF AlwaysKeepAndReuseSwappedProcesses THEN terminated
                   ELSE terminated \cup (Live \ dummy)
  /\ UNCHANGED <<processes, proxies, dummy, dummyFor, procStore, procDomain,
                 committed, procSites, prewarmed, processCache, suspended,
                 swappedPerDomain, pageVars, clientWouldBenefit>>
  /\ crossSiteDecision' = None

\* handleMemoryPressureWarning: the back/forward cache is cleared first (its
\* freed processes would enter the WebProcessCache), then the
\* WebProcessCache, then the prewarmed process is shut down.
HandleMemoryPressureWarning ==
  LET freed == {p \in {s.proc : s \in suspended} :
                  /\ p \in Live \ (terminated \cup Cached)
                  /\ p # prewarmed /\ PagesOn(p) = {}
                  /\ \A pg \in Pages : pending[pg] => backItem[pg].proc # p}
      down == Cached \cup {p \in freed : Cacheable(p) \/ ShouldTerminate}
              \cup (IF prewarmed # None THEN {prewarmed} ELSE {})
  IN /\ suspended # {} \/ processCache # <<>> \/ prewarmed # None
     /\ processCache' = <<>>
     /\ ShutDown(down, {})
     /\ UNCHANGED <<proxies, dummy, procStore, procDomain, committed, procSites, pageVars,
                    terminationEnabled, clientWouldBenefit>>
  /\ crossSiteDecision' = None

-----------------------------------------------------------------------------
Init ==
  /\ processes = <<>>
  /\ proxies = {} /\ terminated = {} /\ dummy = {}
  /\ dummyFor = [st \in Stores |-> None]
  /\ procStore = [p \in Procs |-> None]
  /\ procDomain = [p \in Procs |-> None]
  /\ committed = {}
  /\ procSites = [p \in Procs |-> {}]
  /\ prewarmed = None
  /\ processCache = <<>>
  /\ suspended = {}
  /\ swappedPerDomain = [d \in Sites |-> None]
  /\ pageProc = [pg \in Pages |-> None]
  /\ pageStore = [pg \in Pages |-> DefaultStore]
  /\ pageSite = [pg \in Pages |-> Blank]
  /\ pageRelated = [pg \in Pages |-> None]
  /\ backItem = [pg \in Pages |-> None]
  /\ pending = [pg \in Pages |-> FALSE]
  /\ navigations = 0
  /\ sessionPages = [st \in Stores |-> {}] /\ closed = {}
  /\ terminationEnabled = TRUE
  /\ clientWouldBenefit = FALSE
  /\ crossSiteDecision = None

Next ==
  \/ \E pg \in Pages, st \in Stores, rel \in Pages \cup {None} :
       CreateWebPage(pg, st, rel)
  \/ \E pg \in Pages, d \in Domains, c, o, so \in BOOLEAN : Navigate(pg, d, c, o, so)
  \/ \E pg \in Pages, c, o, so \in BOOLEAN : NavigateBack(pg, c, o, so)
  \/ \E pg \in Pages : SuspendedPageReady(pg)
  \/ \E pg \in Pages : EnsureRunningProcess(pg)
  \/ \E pg \in Pages : ClosePage(pg)
  \/ PrewarmProcess
  \/ DidReachGoodTimeToPrewarm
  \/ \E p \in Procs : ProcessCrashed(p)
  \/ \E p \in Procs : ProcessDidTerminate(p)
  \/ \E p \in Procs : AddProcessToCache(p)
  \/ \E p \in Procs : MaybeShutDown(p)
  \/ \E p \in Procs : ProcessProxyDestroyed(p)
  \/ EnableProcessTermination
  \/ HandleMemoryPressureWarning

Spec == Init /\ [][Next]_vars

-----------------------------------------------------------------------------
(* Properties.                                                             *)

\* Every page runs in a process of its own WebsiteDataStore: no process
\* selection path (cache, suspended page, prewarmed, related page, dummy,
\* single-process scan, swapped map) hands a page a process of another
\* session (spec 4.2 (e), comment at createWebPage line 1046).
DataStoreIsolation ==
  \A pg \in Pages : pageProc[pg] # None => procStore[pageProc[pg]] = pageStore[pg]

\* A process in the WebProcessCache never serves a page: every path that
\* reuses a process takes it out of the cache first (spec 3, lines 1856 and
\* 570).
CachedProcessesAreIdle ==
  \A p \in Cached : PagesOn(p) = {} /\ p # prewarmed

\* The pool's containers refer only to processes still in m_processes:
\* disconnectProcess clears the prewarmed slot, the dummy map, the suspended
\* pages and the swapped-process map (raw pointers), and the cache entry
\* goes with the termination notice.
NoDanglingProcessReferences ==
  /\ prewarmed \in Live \cup {None}
  /\ Cached \subseteq Live
  /\ \A s \in suspended : s.proc \in Live
  /\ \A st \in Stores : dummyFor[st] \in Live \cup {None}
  /\ \A d \in Sites : swappedPerDomain[d] \in Live \cup {None}

\* Spec 2 (Process Pool): the map from data store to the pages using it is
\* kept for ephemeral-session cleanup. Once no page uses an ephemeral data
\* store, the WebProcessCache holds none of its processes.
EphemeralSessionCacheCleared ==
  \A p \in Cached : procStore[p] \in EphemeralStores => HasPagesUsingWebsiteDataStore(procStore[p])

\* A cross-site navigation moves the page to a different process of the
\* same data store (spec 8).
CrossSiteNavigationSwaps ==
  crossSiteDecision # None =>
    /\ crossSiteDecision.chosen # crossSiteDecision.source
    /\ crossSiteDecision.chosenStore = crossSiteDecision.pageStore

\* A cross-site navigation gets a process of the page's data store that has
\* never committed a load of another site: the cache and the suspended
\* pages it may reuse are keyed by the process's registrable domain, which
\* is emptied once the process has shown a second site.
CrossSiteProcessHostedOnlyTarget ==
  crossSiteDecision # None =>
    /\ crossSiteDecision.chosenSites \subseteq {crossSiteDecision.target}
    /\ crossSiteDecision.chosenStore = crossSiteDecision.pageStore

\* The prewarmed process is unused: tryTakePrewarmedProcess empties the slot
\* when it hands the process out, so no page and no data store is ever
\* attached to the process in the slot.
PrewarmedProcessIsUnused ==
  prewarmed # None => /\ PagesOn(prewarmed) = {}
                      /\ procStore[prewarmed] = None
                      /\ prewarmed \notin Cached
=============================================================================
