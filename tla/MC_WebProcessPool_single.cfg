\* Single web process mode: pages of two data stores share one process.
CONSTANTS
  p1 = p1  p2 = p2  p3 = p3 pgA = pgA  pgB = pgB  a = a  b = b  s1 = s1  s2 = s2
  Procs <- MC_Procs
  Pages <- MC_Pages
  Domains <- MC_Domains
  Stores <- MC_Stores
  DefaultStore = s1
  EphemeralStores = {s2}
  None = None
  Blank = Blank
  CacheCapacity = 1
  UsesSingleWebProcess = TRUE
  ProcessSwapsOnNavigation = TRUE
  AlwaysKeepAndReuseSwappedProcesses = FALSE
  DelayedWebProcessLaunchDisabled = TRUE
  AutomaticProcessWarming = "on"
  HasAutomationSession = FALSE
  IsCocoa = TRUE
  SandboxEnabled = FALSE
  MaxNavigations = 3
  MaxClosedPages = 1
SPECIFICATION Spec
SYMMETRY MC_Symmetry
CHECK_DEADLOCK FALSE
INVARIANT DataStoreIsolation
