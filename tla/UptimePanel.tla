----------------------------- MODULE UptimePanel ------------------------------
(***************************************************************************)
(* The uptime page of the browser (useUptimePanelState, useUptimeNavigation*)
(* and the two data hooks): a chart of totals for a period and the timeline*)
(* of a week, of which a mobile page shows one day.  Days are numbers, a   *)
(* week is WeekLength of them.  A state change, its render and its effects *)
(* are one step.                                                           *)
(***************************************************************************)
EXTENDS Integers, FiniteSets

CONSTANTS
  PanelPc, Nowhere,
  WeekLength,   \* days in a week (7)
  Bucket,       \* units of the chart: day, month, year
  Length,       \* Length[b]: days in the period that a step of the unit moves
  FirstShown,   \* the day the page is opened
  LastShown,    \* bound for TLC on the present day
  MaxMoves      \* bound for TLC on what the user does

ASSUME PageAssumption ==
  /\ WeekLength \in Nat \ {0} /\ "day" \in Bucket /\ Length \in [Bucket -> Nat \ {0}]
  /\ Length["day"] = WeekLength
  /\ FirstShown \in Nat /\ {LastShown, MaxMoves} \subseteq Nat

VARIABLES
  today, mobile, enabled, pc,
  bucket, anchor,   \* summaryBucket, summaryAnchor
  reference,        \* referenceDate
  weekStart,        \* the week selected
  cursor,           \* mobileCursorDate
  pendingCursor,    \* pendingMobileCursorRef
  frame,            \* applyPcSwitchDefaults waits for an animation frame, with the day
  drawn,            \* shown[c]: the selection the data on show belong to, or Nowhere
  asked,            \* asked[c]: the selection of the request in flight, or Nowhere
  cancelled,        \* cancelled[c]: that of a request an effect has cancelled
  weeklyError,
  moves,
  wanted,           \* history: the day chosen last
  overlapped        \* history: it was chosen while another choice was pending

pageVars == <<today, mobile, enabled, pc, bucket, anchor, reference, weekStart, cursor, pendingCursor,
              frame, drawn, asked, cancelled, weeklyError, moves, wanted, overlapped>>

NoDay == -1
Moves == moves < MaxMoves /\ moves' = moves + 1
Chart == {"summary", "weekly"}
WeekOf(d) == d \div WeekLength
Period(b, d) == d \div Length[b]

Selection == [c \in Chart |-> IF c = "weekly" THEN [pc |-> pc, unit |-> "week", at |-> weekStart]
                              ELSE [pc |-> pc, unit |-> bucket, at |-> Period(bucket, anchor)]]
NoData == [c \in Chart |-> [pc |-> Nowhere, unit |-> "none", at |-> NoDay]]

\* buildWeeklyFallback shows the week selected while there are no data.
WeekShown == IF drawn["weekly"] = NoData["weekly"] THEN weekStart ELSE drawn["weekly"].at

\* visibleTimelineDays: the cursor, or the end of the week shown next to it.
VisibleDay ==
  IF WeekOf(cursor) = WeekShown THEN cursor
  ELSE IF cursor < WeekShown * WeekLength THEN WeekShown * WeekLength
  ELSE WeekShown * WeekLength + WeekLength - 1

PageInit ==
  /\ today = FirstShown /\ mobile \in BOOLEAN /\ enabled = TRUE /\ pc \in PanelPc
  /\ bucket = "day" /\ anchor = today /\ reference = today
  /\ weekStart = WeekOf(today) /\ cursor = today /\ pendingCursor = NoDay /\ frame = NoDay
  /\ drawn = NoData /\ asked = Selection /\ cancelled = NoData /\ weeklyError = FALSE /\ moves = 0
  /\ wanted = today /\ overlapped = FALSE
-----------------------------------------------------------------------------
\* The effects of the data hooks: another selection is asked for, and the
\* request before is cancelled.
Fetch ==
  LET moved == {c \in Chart : Selection'[c] # Selection[c]}
  IN /\ asked' = [c \in Chart |-> IF c \in moved THEN Selection'[c] ELSE asked[c]]
     /\ cancelled' = [c \in Chart |-> IF c \in moved /\ asked[c] # NoData[c] THEN asked[c] ELSE cancelled[c]]
     /\ weeklyError' = (weeklyError /\ "weekly" \notin moved)
     /\ UNCHANGED drawn

\* The effect of useUptimeNavigation on the cursor c and the days shown: a
\* pending choice waits for its week, otherwise the cursor stays in the week.
Cursor(c, p, changed) ==
  LET first == WeekShown' * WeekLength
      last == first + WeekLength - 1
      fits(d) == d \in first .. last
  IN IF ~mobile THEN cursor' = c /\ pendingCursor' = NoDay
     ELSE IF ~changed THEN cursor' = c /\ pendingCursor' = p
     ELSE IF p # NoDay
          THEN /\ cursor' = IF fits(p) THEN p ELSE c
               /\ pendingCursor' = IF fits(p) THEN NoDay ELSE p
          ELSE /\ cursor' = IF fits(c) THEN c ELSE IF c < first THEN first ELSE last
               /\ UNCHANGED pendingCursor

\* Without data the days shown change with the week selected.
OtherDays == drawn["weekly"] = NoData["weekly"] /\ weekStart' # weekStart

Choose(d) == wanted' = d /\ overlapped' = (pendingCursor # NoDay \/ frame # NoDay)
-----------------------------------------------------------------------------
\* changeReferenceDate: a later date than today is today.
PickDate(d) ==
  LET day == IF d > today THEN today ELSE d
  IN /\ Moves /\ enabled /\ d # reference
     /\ reference' = day /\ anchor' = day /\ weekStart' = WeekOf(day)
     /\ UNCHANGED <<today, mobile, enabled, pc, bucket, frame>>
     /\ Fetch
     /\ Cursor(day, day, day # cursor \/ OtherDays)
     /\ wanted' = day /\ overlapped' = (frame # NoDay)

\* moveTimeline by a swipe: the day next to the one shown, up to today.
MoveDay(step) ==
  LET day == VisibleDay + step
      other == WeekOf(day) # weekStart
  IN /\ Moves /\ mobile /\ enabled /\ ~weeklyError /\ day >= 0
     /\ step > 0 => day <= today
     /\ weekStart' = WeekOf(day)
     /\ UNCHANGED <<today, mobile, enabled, pc, bucket, anchor, reference, frame>>
     /\ Fetch
     /\ Cursor(day, IF other THEN day ELSE pendingCursor, day # cursor \/ OtherDays)
     /\ Choose(day)

\* moveTimeline by a button, up to the week in which the page was opened.
MoveWeek(step) ==
  /\ Moves /\ ~mobile /\ enabled /\ weekStart + step >= 0
  /\ step > 0 => weekStart < WeekOf(FirstShown)
  /\ weekStart' = weekStart + step
  /\ UNCHANGED <<today, mobile, enabled, pc, bucket, anchor, reference, frame, cursor, pendingCursor,
                 wanted, overlapped>>
  /\ Fetch

\* moveSummary, up to the period of today.
MoveSummary(step) ==
  LET to == IF bucket = "day" THEN anchor + step * WeekLength
            ELSE (Period(bucket, anchor) + step) * Length[bucket]
  IN /\ Moves /\ enabled /\ to >= 0
     /\ step > 0 => Period(bucket, anchor) < Period(bucket, today)
     /\ anchor' = to
     /\ UNCHANGED <<today, mobile, enabled, pc, bucket, reference, weekStart, cursor, pendingCursor, frame,
                    wanted, overlapped>>
     /\ Fetch

ChangeBucket(b) ==
  /\ Moves /\ enabled /\ b # bucket
  /\ bucket' = b /\ anchor' = today
  /\ UNCHANGED <<today, mobile, enabled, pc, reference, weekStart, cursor, pendingCursor, frame, wanted,
                 overlapped>>
  /\ Fetch

\* Another PC is chosen, or the list no longer has this one; the defaults are
\* applied in the next frame.
SwitchPc(p) ==
  /\ Moves /\ p # pc
  /\ pc' = p /\ frame' = today
  /\ pendingCursor' = IF mobile THEN today ELSE NoDay
  /\ UNCHANGED <<today, mobile, enabled, bucket, anchor, reference, weekStart, cursor, wanted, overlapped>>
  /\ IF enabled THEN Fetch ELSE UNCHANGED <<drawn, asked, cancelled, weeklyError>>

\* applyPcSwitchDefaults
Frame ==
  /\ frame # NoDay
  /\ bucket' = "day" /\ anchor' = frame /\ reference' = frame /\ weekStart' = WeekOf(frame)
  /\ frame' = NoDay
  /\ UNCHANGED <<moves, today, mobile, enabled, pc>>
  /\ IF enabled THEN Fetch ELSE UNCHANGED <<drawn, asked, cancelled, weeklyError>>
  /\ Cursor(frame, pendingCursor, frame # cursor \/ OtherDays)
  /\ wanted' = frame /\ overlapped' = (overlapped \/ pendingCursor \notin {NoDay, frame})

\* dataVersion: the list was loaded again.
NewData ==
  /\ Moves /\ enabled
  /\ asked' = Selection
  /\ cancelled' = [c \in Chart |-> IF asked[c] # NoData[c] THEN asked[c] ELSE cancelled[c]]
  /\ weeklyError' = FALSE
  /\ UNCHANGED <<today, mobile, enabled, pc, bucket, anchor, reference, weekStart, cursor, pendingCursor, frame,
                 drawn, wanted, overlapped>>

\* The page is left, which drops the data and what is pending, or shown again.
TogglePanel ==
  /\ Moves /\ enabled' = ~enabled
  /\ drawn' = NoData /\ weeklyError' = FALSE
  /\ asked' = IF enabled THEN NoData ELSE Selection
  /\ cancelled' = [c \in Chart |-> IF asked[c] # NoData[c] THEN asked[c] ELSE cancelled[c]]
  /\ UNCHANGED <<today, mobile, pc, bucket, anchor, reference, weekStart, frame, wanted>>
  /\ Cursor(cursor, IF enabled THEN NoDay ELSE pendingCursor, drawn["weekly"] # NoData["weekly"])
  /\ overlapped' = (overlapped \/ enabled)
-----------------------------------------------------------------------------
\* An answer is shown; an error takes the data away.
Answer(c) ==
  /\ asked[c] # NoData[c]
  /\ \E data \in {asked[c], NoData[c]} :
       /\ drawn' = [drawn EXCEPT ![c] = data]
       /\ weeklyError' = IF c = "weekly" THEN data = NoData[c] ELSE weeklyError
  /\ asked' = [asked EXCEPT ![c] = NoData[c]]
  /\ UNCHANGED <<moves, today, mobile, enabled, pc, bucket, anchor, reference, weekStart, frame, cancelled,
                 wanted, overlapped>>
  /\ Cursor(cursor, pendingCursor, c = "weekly" /\ (drawn'[c] # NoData[c] \/ drawn[c] # NoData[c]))

\* Plausible bug: the answer of a cancelled request is shown.
LateShown(c) ==
  /\ cancelled[c] # NoData[c]
  /\ drawn' = [drawn EXCEPT ![c] = cancelled[c]]
  /\ cancelled' = [cancelled EXCEPT ![c] = NoData[c]]
  /\ UNCHANGED <<moves, today, mobile, enabled, pc, bucket, anchor, reference, weekStart, cursor,
                 pendingCursor, frame, asked, weeklyError, wanted, overlapped>>

\* The answer of a cancelled request changes nothing.
Late(c) ==
  /\ cancelled[c] # NoData[c]
  /\ cancelled' = [cancelled EXCEPT ![c] = NoData[c]]
  /\ UNCHANGED <<moves, today, mobile, enabled, pc, bucket, anchor, reference, weekStart, cursor,
                 pendingCursor, frame, drawn, asked, weeklyError, wanted, overlapped>>

NextDay ==
  /\ today < LastShown
  /\ today' = today + 1
  /\ UNCHANGED <<moves, mobile, enabled, pc, bucket, anchor, reference, weekStart, cursor, pendingCursor,
                 frame, drawn, asked, cancelled, weeklyError, wanted, overlapped>>

PageNext ==
  \/ \E d \in 0 .. LastShown : PickDate(d)
  \/ \E step \in {-1, 1} : MoveDay(step) \/ MoveWeek(step) \/ MoveSummary(step)
  \/ \E b \in Bucket : ChangeBucket(b)
  \/ \E p \in PanelPc : SwitchPc(p)
  \/ \E c \in Chart : Answer(c) \/ Late(c)
  \/ Frame \/ NewData \/ TogglePanel \/ NextDay

PageSpec == PageInit /\ [][PageNext]_pageVars
-----------------------------------------------------------------------------
\* Once nothing is loading, the data shown are those of the PC, the period and
\* the week selected, in whatever order answers came (cancelled in both hooks).
SettledShowsSelection ==
  enabled => \A c \in Chart : asked[c] = NoData[c] => drawn[c] \in {NoData[c], Selection[c]}

\* Neither the timeline nor the chart gets past the present, also while another
\* week than the one selected is shown (moveTimeline, changeReferenceDate).
NotPastToday ==
  /\ mobile /\ enabled => VisibleDay <= today
  /\ weekStart <= WeekOf(today)
  /\ Period(bucket, anchor) <= Period(bucket, today)

\* On a mobile page the day shown in the end is the one chosen last, unless it was
\* chosen while another choice was pending, which then comes back (useUptimeNavigation).
ChosenDayIsShown ==
  mobile /\ enabled /\ asked["weekly"] = NoData["weekly"] /\ frame = NoDay /\ ~overlapped => VisibleDay = wanted

\* The three together: what the page shows is what was chosen, up to today.
PageHolds == SettledShowsSelection /\ NotPastToday /\ ChosenDayIsShown
=============================================================================
