\* A connection test outlives its settings row: the PC is registered anew.
SPECIFICATION Spec
CONSTANTS
  Ip = {ip1}
  Login = {l1}
  HostKey = {h1}
  Tester = {t1}
  None = None
  Incarnations = 2
  MaxEpoch = 5
INVARIANTS VerifiedWasTested

