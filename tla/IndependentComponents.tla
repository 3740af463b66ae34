------------------------ MODULE IndependentComponents ------------------------
(***************************************************************************)
(* Six components that share no state: the plug-in process                *)
(* (PluginProcess), the WPE scroll gesture controller                      *)
(* (ScrollGestureController), the GTK download client (DownloadClient),    *)
(* the pool's media playback assertion (AudibleMedia), the process pool    *)
(* creation listeners (ProcessPoolCreationListeners) and the settings the  *)
(* pools send their web processes (PoolConfiguration).                     *)
(* They are checked in one state space as a disjoint union: the initial    *)
(* state picks one component, which then runs alone while the others keep *)
(* their initial state. The behaviours are exactly those of each component *)
(* on its own, so each property holds here iff it holds of its component.  *)
(***************************************************************************)
EXTENDS Naturals

CONSTANTS Conns, ModuleLoadCanFail, Positions, PixelsPerLineStep, Downloads,
          WebProcs, MaxGPULaunches, Pools, MaxIds, Procs, Schemes, MaxChanges

VARIABLES
  active,
  \* PluginProcess
  phase, uiClosed, connections, pluginModule, loadCount, terminationCounter,
  terminationTimer, terminationTimeout, lifetimeTimer, everUsed,
  \* ScrollGestureController (m_phase is gesturePhase here)
  startActive, startX, startY, elapsed, offsetX, offsetY, handling,
  xLockBroken, yLockBroken, axisX, axisY, gesturePhase, fingerDown, fingerX,
  fingerY, downX, downY, captured, scrolledX, scrolledY, farX, farY,
  \* DownloadClient
  net, sent, cancelSeen, cancelSent, inContext, created, download, appHas,
  appCancelled,
  \* AudibleMedia
  hasToken, counter, gpu, launches, activityHeld, activityGPU,
  \* ProcessPoolCreationListeners
  listenerMap, nextIdentifier, pools, runLoop, notifying, notified,
  unregistered, lastCall, lastNotification,
  \* PoolConfiguration
  emptyDocSchemes, secureSchemes, memoryCacheDisabled, samplerEnabled,
  automationSession, changes, status, poolOf, chan, view, secureVia

PP == INSTANCE PluginProcess
SG == INSTANCE ScrollGestureController WITH phase <- gesturePhase
DC == INSTANCE DownloadClient
AM == INSTANCE AudibleMedia
PL == INSTANCE ProcessPoolCreationListeners
PC == INSTANCE PoolConfiguration

ppVars == <<phase, uiClosed, connections, pluginModule, loadCount, terminationCounter,
            terminationTimer, terminationTimeout, lifetimeTimer, everUsed>>
sgVars == <<startActive, startX, startY, elapsed, offsetX, offsetY, handling,
            xLockBroken, yLockBroken, axisX, axisY, gesturePhase, fingerDown, fingerX,
            fingerY, downX, downY, captured, scrolledX, scrolledY, farX, farY>>
dcVars == <<net, sent, cancelSeen, cancelSent, inContext, created, download, appHas,
            appCancelled>>
amVars == <<hasToken, counter, gpu, launches, activityHeld, activityGPU>>
plVars == <<listenerMap, nextIdentifier, pools, runLoop, notifying, notified,
            unregistered, lastCall, lastNotification>>
pcVars == <<emptyDocSchemes, secureSchemes, memoryCacheDisabled, samplerEnabled,
            automationSession, changes, status, poolOf, chan, view, secureVia>>
vars == <<active, ppVars, sgVars, dcVars, amVars, plVars, pcVars>>

Components == {"plugin", "scroll", "download", "media", "listeners", "config"}

Init ==
  /\ active \in Components
  /\ PP!Init /\ SG!Init /\ DC!Init /\ AM!Init /\ PL!Init /\ PC!Init

\* A step of the active component; the others do not move.
PluginStep(A) == active = "plugin" /\ A /\ UNCHANGED <<active, sgVars, dcVars, amVars, plVars, pcVars>>
ScrollStep(A) == active = "scroll" /\ A /\ UNCHANGED <<active, ppVars, dcVars, amVars, plVars, pcVars>>
DownloadStep(A) == active = "download" /\ A /\ UNCHANGED <<active, ppVars, sgVars, amVars, plVars, pcVars>>
MediaStep(A) == active = "media" /\ A /\ UNCHANGED <<active, ppVars, sgVars, dcVars, plVars, pcVars>>
ListenersStep(A) == active = "listeners" /\ A /\ UNCHANGED <<active, ppVars, sgVars, dcVars, amVars, pcVars>>
ConfigStep(A) == active = "config" /\ A /\ UNCHANGED <<active, ppVars, sgVars, dcVars, amVars, plVars>>

Next ==
  \/ PluginStep(PP!Next) \/ ScrollStep(SG!Next) \/ DownloadStep(DC!Next)
  \/ MediaStep(AM!Next) \/ ListenersStep(PL!Next) \/ ConfigStep(PC!Next)

\* The fairness of each component, on its own steps.
Fairness ==
  /\ WF_vars(PluginStep(PP!MinimumLifetimeTimerFired))
  /\ WF_vars(PluginStep(PP!TerminationTimerFired))
  /\ \A d \in Downloads : /\ WF_vars(DownloadStep(DC!NetworkSends(d)))
                          /\ WF_vars(DownloadStep(DC!NetworkReceivesCancel(d)))
  /\ WF_vars(ListenersStep(PL!NotifyStart)) /\ WF_vars(ListenersStep(PL!FindListener))
  /\ WF_vars(ListenersStep(PL!CallListener)) /\ WF_vars(ListenersStep(PL!RestoreFunction))
  /\ WF_vars(ListenersStep(PL!FinishNotify))

Spec == Init /\ [][Next]_vars /\ Fairness

-----------------------------------------------------------------------------
(* Properties: those of the six components (see their modules).          *)

TypeOK == active \in Components /\ PP!TypeOK /\ SG!TypeOK /\ DC!TypeOK /\ AM!TypeOK /\ PL!TypeOK
          /\ PC!TypeOK

\* PluginProcess: NP_Shutdown never runs in a live process; it exits with
\* connections only after the UI process closed; an idle process exits.
NoShutdownBeforeExit == PP!NoShutdownBeforeExit
ExitsOnlyWhenUnused == PP!ExitsOnlyWhenUnused
IdleProcessExits == PP!IdleProcessExits

\* ScrollGestureController: scrolling only after the current touch was
\* captured; a released axis lock stays released for the gesture.
ScrollOnlyAfterCapture == SG!ScrollOnlyAfterCapture
ReleasedAxisFollowsFinger == SG!ReleasedAxisFollowsFinger

\* DownloadClient: a cancelled download is never reported failed and has
\* one WebKitDownload; every download ends and is removed from the context.
CancelReportedAsCancel == DC!CancelReportedAsCancel
DownloadsForgotten == DC!DownloadsForgotten

\* AudibleMedia: the media playback assertion is held exactly while a web
\* process holds an audible media token.
AssertionHeldWhileAudible == AM!AssertionHeldWhileAudible

\* ProcessPoolCreationListeners: no listener is called through a moved-out
\* function or after it was unregistered; every listener registered for a
\* whole notification is called; every created pool is announced.
NoEmptyFunctionCalled == PL!NoEmptyFunctionCalled
NeverCalledAfterUnregister == PL!NeverCalledAfterUnregister
RegisteredListenersCalled == PL!RegisteredListenersCalled
CreatedPoolNotified == PL!CreatedPoolNotified

\* PoolConfiguration: every live web process, once it has handled what is
\* queued for it, holds its pool's current settings.
ConfigurationConverges == PC!ConfigurationConverges
=============================================================================
