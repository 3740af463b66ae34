\* Crash window and connection retry with the code's threshold of two.
CONSTANTS
  w1 = w1  w2 = w2
  WebProcs <- MC_WebProcs
  MaxRelaunch = 2
  ResetDelay = 3
  MaxCrashes = 3
SPECIFICATION Spec
INVARIANT TypeOK
INVARIANT CrashCountWithinWindow
INVARIANT InvalidReplyOnlyAfterRetry
PROPERTY ConnectionRequestAnswered
