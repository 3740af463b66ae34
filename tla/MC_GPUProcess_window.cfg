\* Spec 3 and 8: a burst of crashes within any window of ResetDelay kills.
CONSTANTS
  w1 = w1  w2 = w2
  WebProcs <- MC_WebProcs
  MaxRelaunch = 2
  ResetDelay = 3
  MaxCrashes = 4
SPECIFICATION Spec
INVARIANT BurstOfCrashesKills
