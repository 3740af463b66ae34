\* Plug-in process lifetime: connections, load count, termination counter.
\* Four connection ids: first and last connection differ and several are
\* open while the minimum lifetime timer fires.
CONSTANTS
  Conns = {c1, c2, c3, c4}
  ModuleLoadCanFail = FALSE
SPECIFICATION Spec
\* The process really stops: after it exits no handler runs.
CHECK_DEADLOCK FALSE
INVARIANTS TypeOK NoShutdownBeforeExit ExitsOnlyWhenUnused
PROPERTIES IdleProcessExits
