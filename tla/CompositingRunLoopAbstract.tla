--------------------- MODULE CompositingRunLoopAbstract ---------------------
(***************************************************************************)
(* What CompositingRunLoop promises its caller on the main thread: tasks   *)
(* given to performTask and performTaskSync run on the compositing thread, *)
(* once each and in the order they were given, until a task stops the run *)
(* loop; performTaskSync returns only after its task has run.              *)
(***************************************************************************)
EXTENDS Naturals, Sequences

CONSTANTS MaxTasks  \* bound on the tasks the main thread hands over

Tasks == {"async", "sync", "stop"}

VARIABLES
  queue,     \* tasks handed over and not yet run, oldest first
  syncCall,  \* "none", "pending" (task not run yet) or "ran" (not returned)
  running,   \* the run loop still runs tasks
  stopSent,  \* the main thread has handed over the task that stops it
  issued     \* tasks handed over so far

vars == <<queue, syncCall, running, stopSent, issued>>

TypeOK ==
  /\ queue \in Seq(Tasks) /\ syncCall \in {"none", "pending", "ran"}
  /\ running \in BOOLEAN /\ stopSent \in BOOLEAN /\ issued \in 0..MaxTasks

Init ==
  /\ queue = <<>> /\ syncCall = "none" /\ running = TRUE
  /\ stopSent = FALSE /\ issued = 0

\* The main thread, not blocked in a synchronous call, hands over a task.
Hand(kind) ==
  /\ syncCall = "none" /\ ~stopSent /\ issued < MaxTasks
  /\ queue' = Append(queue, kind)
  /\ issued' = issued + 1
  /\ stopSent' = (kind = "stop")
  /\ syncCall' = IF kind = "sync" THEN "pending" ELSE "none"
  /\ UNCHANGED running

\* The compositing thread runs the oldest task.
RunTask ==
  /\ running /\ queue # <<>>
  /\ queue' = Tail(queue)
  /\ syncCall' = IF Head(queue) = "sync" THEN "ran" ELSE syncCall
  /\ running' = (Head(queue) # "stop")
  /\ UNCHANGED <<stopSent, issued>>

\* performTaskSync returns.
Return ==
  /\ syncCall = "ran"
  /\ syncCall' = "none"
  /\ UNCHANGED <<queue, running, stopSent, issued>>

Next == (\E kind \in Tasks : Hand(kind)) \/ RunTask \/ Return

Spec == Init /\ [][Next]_vars /\ WF_vars(RunTask) /\ WF_vars(Return)
=============================================================================
