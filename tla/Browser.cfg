\* A PC that changes twice, or once behind the backend's cache, two loads and an
\* operation; two listed PCs; a page that scrolls to 2 behind four dialogs; six
\* rows in groups on pages of two; two PCs over three moves, the days 3 and 4,
\* weeks of two days; two tokens of which one may be revoked, two operations at a
\* time.
SPECIFICATION Spec
CONSTANTS
  Pc = {p1}
  QueueSize = 1
  MaxChanges = 2
  MaxLoads = 2
  MaxOps = 1
  MaxKeptChanges = 1
  None = None
  Nothing = Nothing
  Idle = Idle
  Asked = Asked
  ListedPc = {lp, lq}
  Nobody = Nobody
  Texts = 2
  Depth = 2
  MaxOpen = 4
  LogJob = {"j"}
  PageLength = 2
  LastRow = 6
  Threshold = 2
  PanelPc = {up, uq}
  Nowhere = Nowhere
  WeekLength = 2
  Bucket = {"day", "month"}
  Length <- MCLength
  FirstShown = 3
  LastShown = 4
  MaxMoves = 3
  Token = {a, b}
  NoToken = NoToken
  MaxAtOnce = 2
  MaxRevoked = 1
SYMMETRY Symmetry
CHECK_DEADLOCK FALSE
INVARIANTS ListStaleOnlyByOverlap FiltersHonoured DialogsHold HeldWhileOpen 
  FoldsFollowBlocks OnePagePerTouch PageHolds PanelHolds
