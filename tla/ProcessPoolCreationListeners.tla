-------------------- MODULE ProcessPoolCreationListeners --------------------
(***************************************************************************)
(* Process pool creation listeners (src/UIProcess/WebProcessPool.cpp,     *)
(* lines 167-227 and the constructor's dispatch at lines 318-326): a      *)
(* global map from identifiers to functions, a constructor that queues a  *)
(* notification on the main run loop, and a notification loop that moves *)
(* each function out of the map while calling it. A listener may call    *)
(* register, unregister or create another pool while it runs.            *)
(***************************************************************************)
EXTENDS Naturals, Sequences, SequencesExt, TLC

CONSTANTS
  Pools,   \* process pools the application may create
  MaxIds   \* bound on generateListenerIdentifier

ASSUME MaxIds \in Nat

VARIABLES
  listenerMap,      \* processPoolCreationListenerFunctionMap: id -> "fn" or "moved"
  nextIdentifier,   \* the static counter of generateListenerIdentifier
  pools,            \* pool -> "none", "alive" or "destroyed"
  runLoop,          \* notifications dispatched to the main run loop, in order
  notifying,        \* the notification loop in progress, if any
  notified,         \* history: pools whose listeners were notified
  unregistered,     \* history: identifiers unregistered so far
  lastCall,         \* history: the last listener call
  lastNotification  \* history: the last finished notification

vars == <<listenerMap, nextIdentifier, pools, runLoop, notifying, notified,
          unregistered, lastCall, lastNotification>>

Ids == 1..MaxIds
Idle == [pc |-> "idle", pool |-> "none", ids |-> <<>>, pos |-> 1,
         held |-> "none", called |-> {}]
NoCall == [id |-> 0, held |-> "fn", stale |-> FALSE]

TypeOK ==
  /\ DOMAIN listenerMap \subseteq 1..(nextIdentifier - 1)
  /\ \A i \in DOMAIN listenerMap : listenerMap[i] \in {"fn", "moved"}
  /\ nextIdentifier \in 1..MaxIds + 1
  /\ pools \in [Pools -> {"none", "alive", "destroyed"}]
  /\ runLoop \in Seq(Pools)
  /\ notifying.pc \in {"idle", "find", "call", "restore"}
  /\ notifying.held \in {"none", "fn", "moved"}
  /\ notified \subseteq Pools /\ unregistered \subseteq Ids

-----------------------------------------------------------------------------
(* The map operations; also the effects a listener may have while called. *)

\* Variant: the identifier is handed out without advancing the counter.
RegisterReusingIdentifier ==
  /\ nextIdentifier <= MaxIds
  /\ listenerMap' = listenerMap @@ (nextIdentifier :> "fn")
  /\ UNCHANGED <<nextIdentifier, pools, runLoop, unregistered>>

\* registerProcessPoolCreationListener (lines 167-186).
RegisterProcessPoolCreationListener ==
  /\ nextIdentifier <= MaxIds
  /\ listenerMap' = (nextIdentifier :> "fn") @@ listenerMap
  /\ nextIdentifier' = nextIdentifier + 1
  /\ UNCHANGED <<pools, runLoop, unregistered>>

\* unregisterProcessPoolCreationListener (lines 188-191).
UnregisterProcessPoolCreationListener(id) ==
  /\ id \in DOMAIN listenerMap
  /\ listenerMap' = [i \in DOMAIN listenerMap \ {id} |-> listenerMap[i]]
  /\ unregistered' = unregistered \union {id}
  /\ UNCHANGED <<nextIdentifier, pools, runLoop>>

\* WebProcessPool::create and the constructor (lines 193-197, 305, 318-326):
\* the pool joins processPools() and dispatches its notification.
CreateProcessPool(p) ==
  /\ pools[p] = "none"
  /\ pools' = [pools EXCEPT ![p] = "alive"]
  /\ runLoop' = Append(runLoop, p)
  /\ UNCHANGED <<listenerMap, nextIdentifier, unregistered>>

\* The last reference to a pool goes (line 335).
DestroyProcessPool(p) ==
  /\ notifying.pc = "idle" /\ pools[p] = "alive"
  /\ pools' = [pools EXCEPT ![p] = "destroyed"]
  /\ UNCHANGED <<listenerMap, nextIdentifier, runLoop, notifying, notified,
                 unregistered, lastCall, lastNotification>>

-----------------------------------------------------------------------------
(* notifyThisWebProcessPoolWasCreated (lines 199-227), one step per stage  *)
(* of its loop; the main run loop runs nothing else meanwhile.             *)

\* Variant: the weak pointer check inverted.
NotifyStartInvertedCheck ==
  /\ notifying.pc = "idle" /\ runLoop # <<>>
  /\ runLoop' = Tail(runLoop)
  /\ IF pools[Head(runLoop)] # "alive"
     THEN \E ids \in SetToSeqs(DOMAIN listenerMap) :
            notifying' = [Idle EXCEPT !.pc = "find", !.pool = Head(runLoop), !.ids = ids]
     ELSE UNCHANGED notifying
  /\ UNCHANGED <<listenerMap, nextIdentifier, pools, notified, unregistered,
                 lastCall, lastNotification>>

\* The dispatched lambda (lines 320-325): a pool still alive takes the
\* identifiers of the map, in the map's order, and starts its loop.
NotifyStart ==
  /\ notifying.pc = "idle" /\ runLoop # <<>>
  /\ runLoop' = Tail(runLoop)
  /\ IF pools[Head(runLoop)] = "alive"
     THEN \E ids \in SetToSeqs(DOMAIN listenerMap) :
            notifying' = [Idle EXCEPT !.pc = "find", !.pool = Head(runLoop), !.ids = ids]
     ELSE UNCHANGED notifying
  /\ UNCHANGED <<listenerMap, nextIdentifier, pools, notified, unregistered,
                 lastCall, lastNotification>>

\* The identifier being handled.
Current == notifying.ids[notifying.pos]

\* Variant: a missing identifier ends the loop instead of being skipped.
FindListenerBreaking ==
  /\ notifying.pc = "find" /\ notifying.pos <= Len(notifying.ids)
  /\ IF Current \notin DOMAIN listenerMap
     THEN /\ notifying' = [notifying EXCEPT !.pos = Len(notifying.ids) + 1]
          /\ UNCHANGED listenerMap
     ELSE /\ notifying' = [notifying EXCEPT !.pc = "call", !.held = listenerMap[Current]]
          /\ listenerMap' = [listenerMap EXCEPT ![Current] = "moved"]
  /\ UNCHANGED <<nextIdentifier, pools, runLoop, notified, unregistered,
                 lastCall, lastNotification>>

\* Lines 208-218: skip an identifier no longer in the map, else move its
\* function out of the map.
FindListener ==
  /\ notifying.pc = "find" /\ notifying.pos <= Len(notifying.ids)
  /\ IF Current \notin DOMAIN listenerMap
     THEN /\ notifying' = [notifying EXCEPT !.pos = @ + 1]
          /\ UNCHANGED listenerMap
     ELSE /\ notifying' = [notifying EXCEPT !.pc = "call", !.held = listenerMap[Current]]
          /\ listenerMap' = [listenerMap EXCEPT ![Current] = "moved"]
  /\ UNCHANGED <<nextIdentifier, pools, runLoop, notified, unregistered,
                 lastCall, lastNotification>>

\* Line 219: the function is called; it may register or unregister a
\* listener, or create a pool, before it returns.
CallListener ==
  /\ notifying.pc = "call"
  /\ notifying' = [notifying EXCEPT !.pc = "restore"]
  /\ lastCall' = [id |-> Current, held |-> notifying.held,
                  stale |-> Current \in unregistered]
  /\ \/ UNCHANGED <<listenerMap, nextIdentifier, pools, runLoop, unregistered>>
     \/ RegisterProcessPoolCreationListener
     \/ \E id \in DOMAIN listenerMap : UnregisterProcessPoolCreationListener(id)
     \/ \E p \in Pools : CreateProcessPool(p)
  /\ UNCHANGED <<notified, lastNotification>>

\* Variant: the function is never moved back.
RestoreFunctionNever ==
  /\ notifying.pc = "restore"
  /\ notifying' = [notifying EXCEPT !.pc = "find", !.pos = @ + 1,
                                    !.held = "none", !.called = @ \union {Current}]
  /\ UNCHANGED <<listenerMap, nextIdentifier, pools, runLoop, notified,
                 unregistered, lastCall, lastNotification>>

\* Variant: the function is written back under its identifier without
\* looking the identifier up again.
RestoreFunctionWithoutLookup ==
  /\ notifying.pc = "restore"
  /\ listenerMap' = (Current :> notifying.held) @@ listenerMap
  /\ notifying' = [notifying EXCEPT !.pc = "find", !.pos = @ + 1,
                                    !.held = "none", !.called = @ \union {Current}]
  /\ UNCHANGED <<nextIdentifier, pools, runLoop, notified, unregistered,
                 lastCall, lastNotification>>

\* Lines 221-225: if the identifier is still in the map, the function is
\* moved back into it.
RestoreFunction ==
  /\ notifying.pc = "restore"
  /\ IF Current \in DOMAIN listenerMap
     THEN listenerMap' = [listenerMap EXCEPT ![Current] = notifying.held]
     ELSE UNCHANGED listenerMap
  /\ notifying' = [notifying EXCEPT !.pc = "find", !.pos = @ + 1,
                                    !.held = "none", !.called = @ \union {Current}]
  /\ UNCHANGED <<nextIdentifier, pools, runLoop, notified, unregistered,
                 lastCall, lastNotification>>

\* The loop ends after the last identifier.
FinishNotify ==
  /\ notifying.pc = "find" /\ notifying.pos > Len(notifying.ids)
  /\ notifying' = Idle
  /\ notified' = notified \union {notifying.pool}
  /\ lastNotification' = [ids |-> notifying.ids, called |-> notifying.called,
                          registered |-> DOMAIN listenerMap]
  /\ UNCHANGED <<listenerMap, nextIdentifier, pools, runLoop, unregistered,
                 lastCall>>

-----------------------------------------------------------------------------
(* Calls made by the application while no notification runs.               *)

AppRegisters ==
  /\ notifying.pc = "idle" /\ RegisterProcessPoolCreationListener
  /\ UNCHANGED <<notifying, notified, lastCall, lastNotification>>

AppUnregisters(id) ==
  /\ notifying.pc = "idle" /\ UnregisterProcessPoolCreationListener(id)
  /\ UNCHANGED <<notifying, notified, lastCall, lastNotification>>

AppCreatesPool(p) ==
  /\ notifying.pc = "idle" /\ CreateProcessPool(p)
  /\ UNCHANGED <<notifying, notified, lastCall, lastNotification>>

Init ==
  /\ listenerMap = <<>> /\ nextIdentifier = 1
  /\ pools = [p \in Pools |-> "none"] /\ runLoop = <<>>
  /\ notifying = Idle /\ notified = {} /\ unregistered = {}
  /\ lastCall = NoCall
  /\ lastNotification = [ids |-> <<>>, called |-> {}, registered |-> {}]

Next ==
  \/ AppRegisters
  \/ \E id \in Ids : AppUnregisters(id)
  \/ \E p \in Pools : AppCreatesPool(p) \/ DestroyProcessPool(p)
  \/ NotifyStart \/ FindListener \/ CallListener \/ RestoreFunction
  \/ FinishNotify

\* The main run loop runs its dispatched tasks, and a notification loop
\* runs to its end once started.
Fairness ==
  /\ WF_vars(NotifyStart) /\ WF_vars(FindListener) /\ WF_vars(CallListener)
  /\ WF_vars(RestoreFunction) /\ WF_vars(FinishNotify)

Spec == Init /\ [][Next]_vars /\ Fairness

-----------------------------------------------------------------------------
(* Properties.                                                             *)

\* The comment at lines 213-217: moving the function out while it runs
\* protects it from its own unregistration, and the function is moved back
\* afterwards. No listener is ever called through a moved-out (empty)
\* Function, whatever listeners register or unregister meanwhile.
NoEmptyFunctionCalled == lastCall.held # "moved"

\* A listener removed by unregisterProcessPoolCreationListener, by the
\* application or by another listener, is never called again.
NeverCalledAfterUnregister == ~lastCall.stale

\* Every listener in the map when the notification started, and still in
\* it when the notification ends, was called by it: unregistrations by
\* other listeners skip only the listeners they remove.
RegisteredListenersCalled ==
  \A i \in 1..Len(lastNotification.ids) :
    lastNotification.ids[i] \in lastNotification.registered
      => lastNotification.ids[i] \in lastNotification.called

\* Every created pool still alive is eventually announced to the listeners:
\* the constructor's dispatched notification runs.
CreatedPoolNotified ==
  \A p \in Pools : pools[p] = "alive" ~> (p \in notified \/ pools[p] = "destroyed")
=============================================================================
