\* Two workers race on one PC; a stale job, one fault, pruning down to one row.
SPECIFICATION Spec
CONSTANTS
  Worker = {w1, w2}
  JobId = {j1, j2, j3}
  Pc = {p1}
  NoPc = NoPc
  NoWorker = NoWorker
  NoJob = NoJob
  Threads = 1
  StaleAfter = 1
  MaxRows = 1
  MaxFaults = 1
  Timely = TRUE
SYMMETRY IdSymmetry
INVARIANTS TypeOK NoDoubleRunner JobInv
PROPERTIES OnlyOwnTaskFails SingleFlightSpec
