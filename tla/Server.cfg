\* Operations on a PC that do not overlap; two token requests at a time; two
\* rules for one subject and a table of one; lists of three keys for two
\* threads; two runs and two backups to keep; log pages of two of three rows kept,
\* ids to 4, one clear, three loads.
SPECIFICATION Spec
CONSTANTS
  Thread = {t1}
  Net = {"up", "down", "broken"}
  MaxPolls = 4
  None = None
  Token = {k1, k2}
  Handler = {h1, h2}
  NoToken = NoToken
  Expiring = TRUE
  Rule = {"short", "long"}
  Subject = {u1}
  Limit <- MCLimit
  Window <- MCWindow
  PerSecond = 2
  MaxKeys = 1
  MaxNow = 9
  ListKey = {q1, q2, q3}
  Server = {s1, s2}
  Ttl = 2
  MaxItems = 2
  SweepEvery = 3
  MaxRead = 1
  MaxVersion = 2
  MaxClock = 5
  NoKey = NoKey
  Runner = {r1, r2}
  Keep = 2
  LastSecond = 3
  PageLimit = 2
  MaxRows = 3
  MaxId = 4
  MaxGen = 1
  MaxLogLoads = 3
  NoPage = NoPage
  NotAsked = NotAsked
  Requested = Requested
SYMMETRY Symmetry
CHECK_DEADLOCK FALSE
INVARIANTS HistoryAlternates TokensHold WithinLimit LimiterHolds CacheHolds
  BackupsKept PagesHold ClearIsFinal
PROPERTIES RefreshRules RevocationRules
