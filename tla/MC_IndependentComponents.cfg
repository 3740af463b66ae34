\* Plug-in process: four connection ids, so that the first and the last
\* connection differ and several are open while the minimum lifetime timer
\* fires; the module always loads.
\* Scroll gestures: coordinates on both sides of each threshold (8, 15, 30
\* and a line step of 40) and in both directions.
\* Downloads: two, so that one can be cancelled while the other runs.
\* Audible media: three web processes, so that tokens are taken and dropped
\* in every order around a held assertion; three GPU launches, so that the
\* GPU process crashes and relaunches while the assertion is held.
\* Creation listeners: two pools (so a function written back wrongly is
\* called again by a later notification) and three identifiers (so one
\* listener can unregister another that comes later in the snapshot).
\* Pool settings: the two pools above, two web processes (one can launch
\* while the other runs, in the same pool or in the other one), one URL
\* scheme and two setting changes (a change made while a process launches,
\* or a change and its undoing).
CONSTANTS
  Conns = {c1, c2, c3, c4}
  ModuleLoadCanFail = FALSE
  Positions = {0, 10, 20, 35, 45}
  PixelsPerLineStep = 40
  Downloads = {d1, d2}
  WebProcs = {w1, w2, w3}
  MaxGPULaunches = 3
  Pools = {p1, p2}
  MaxIds = 3
  Procs = {q1, q2}
  Schemes = {u1}
  MaxChanges = 2
SPECIFICATION Spec
\* Each component can stop: the plug-in process exits, the downloads end,
\* the listener identifiers and pools are used up, the setting changes are used up.
CHECK_DEADLOCK FALSE
INVARIANTS TypeOK NoShutdownBeforeExit ExitsOnlyWhenUnused ScrollOnlyAfterCapture CancelReportedAsCancel AssertionHeldWhileAudible NoEmptyFunctionCalled NeverCalledAfterUnregister RegisteredListenersCalled ConfigurationConverges
PROPERTIES IdleProcessExits ReleasedAxisFollowsFinger DownloadsForgotten CreatedPoolNotified
