\* Edits, scans, tests, deletion and a second registration race, among
\* themselves and with a shutdown.
SPECIFICATION MCSpec
CONSTANTS
  Ip = {ip1, ip2}
  Login = {l1, l2}
  HostKey = {h1}
  Tester = {t1}
  None = None
  Incarnations = 2
  MaxEpoch = 5
  MaxFlowEpoch = 4
  Attempts = 3
SYMMETRY Symmetry
INVARIANTS SettingsHold HostKeyWasScannedHere
PROPERTIES StepsHold
