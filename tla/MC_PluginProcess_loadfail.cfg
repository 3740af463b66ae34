\* Plug-in module load fails once, succeeds on a later lookup: NP_Shutdown?
CONSTANTS
  Conns = {c1, c2, c3}
  ModuleLoadCanFail = TRUE
SPECIFICATION Spec
CHECK_DEADLOCK FALSE
INVARIANT NoShutdownBeforeExit
