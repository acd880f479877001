\* Two threads refresh, wake, test and edit at the same time; the PC is up or down.
SPECIFICATION StatusFairSpec
CONSTANTS
  Thread = {t1, t2}
  Net = {"up", "down"}
  MaxPolls = 1
  None = None
PROPERTIES UpIsShown DownIsShown
