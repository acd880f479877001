\* Two stops or failed writes; the clock may also run past a live job.
SPECIFICATION FairSpec
CONSTANTS
  Worker = {w1}
  JobId = {j1,j2}
  Pc = {p1}
  NoPc = NoPc
  NoWorker = NoWorker
  NoJob = NoJob
  Threads = 1
  StaleAfter = 1
  MaxRows = 1
  MaxFaults = 2
  Timely = FALSE
PROPERTIES JobSettles RequestsGoOn
