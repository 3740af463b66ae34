\* Side channels: three processes, two data stores and two registrable
\* domains (a reuse candidate can differ from a request in its store, its
\* domain or neither); one gamepad message in flight per connection, so a
\* process can exit with a StartedUsingGamepads still undelivered.
CONSTANTS
  Procs = {q1, q2, q3}
  Stores = {s1, s2}
  Domains = {d1, d2}
  MaxMessages = 1
SPECIFICATION Spec
SYMMETRY Symmetry
\* With every process exited and the pool destroyed nothing can happen.
CHECK_DEADLOCK FALSE
INVARIANTS TypeOK ServiceWorkerProcessesLive ServiceWorkerIsolation ServiceWorkerProcessNotCached SeparateProcessHonoured ProviderTracksUse
