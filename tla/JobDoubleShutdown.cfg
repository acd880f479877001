\* The clock may run past a live job (starved pool, clock set forward).
SPECIFICATION Spec
CONSTANTS
  Worker = {w1}
  JobId = {j1, j2}
  Pc = {p1}
  NoPc = NoPc
  NoWorker = NoWorker
  NoJob = NoJob
  Threads = 2
  StaleAfter = 1
  MaxRows = 2
  MaxFaults = 0
  Timely = FALSE
INVARIANT NoDoubleShutdown
