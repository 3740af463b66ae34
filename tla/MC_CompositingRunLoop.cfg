\* Main and compositing threads: task hand-over, performTaskSync, update timer.
CONSTANTS
  MaxTasks = 4
  Frame = 2
  MaxTime = 5
SPECIFICATION Spec
CHECK_DEADLOCK FALSE
INVARIANT TypeOK
INVARIANT UpdatesPacedByFrame
PROPERTY RefinesAbstractRunLoop
PROPERTY SyncCallReturns
