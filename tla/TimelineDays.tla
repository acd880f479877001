----------------------------- MODULE TimelineDays -----------------------------
(***************************************************************************)
(* The timeline of days: the server cuts the time a PC was online by day   *)
(* and gives each piece as HH:MM (get_weekly_timeline); the browser turns  *)
(* the pieces into bars (buildTimelineDays).  Pieces are in seconds of the *)
(* day, bars in minutes.                                                   *)
(***************************************************************************)
EXTENDS Integers, FiniteSetsExt, Functions

CONSTANTS Days, MinutesPerDay, SecondsPerMinute

ASSUME TimelineAssumption == Days \in Nat /\ {MinutesPerDay, SecondsPerMinute} \subseteq Nat \ {0}

VARIABLE pieces   \* pieces[d]: the times online on day d, at least a second apart

Midnight == MinutesPerDay * SecondsPerMinute
Piece == {p \in [from : 0 .. Midnight - 1, to : 1 .. Midnight] : p.from < p.to}
Seconds(p) == p.to - p.from

TimelineInit == pieces = [d \in 1 .. Days |-> {}]

\* The PC was online once more on day d.
Online(d, p) ==
  /\ \A q \in pieces[d] : q.to < p.from
  /\ pieces' = [pieces EXCEPT ![d] = @ \cup {p}]

TimelineNext == \E d \in 1 .. Days, p \in Piece : Online(d, p)

TimelineSpec == TimelineInit /\ [][TimelineNext]_pieces
-----------------------------------------------------------------------------
\* The server gives a piece as two times of the day; midnight is 00:00.
Start(p) == p.from \div SecondsPerMinute
End(p) == (p.to \div SecondsPerMinute) % MinutesPerDay

\* A bar is that of a piece (the key of the browser), from one minute to another.
Bar(p, from, to, seconds) == [of |-> p, from |-> from, to |-> to, seconds |-> seconds]

\* Plausible bug: a piece that ends at midnight is taken as it is given.
OwnBarUnsplit(p) == Bar(p, Start(p), End(p), Seconds(p))

\* The bar on the day of the piece: until midnight when the end is not after the start.
OwnBar(p) ==
  IF End(p) > Start(p) THEN Bar(p, Start(p), End(p), Seconds(p))
  ELSE Bar(p, Start(p), MinutesPerDay, (MinutesPerDay - Start(p)) * SecondsPerMinute)

\* The rest of such a piece on the next day.
Rest(p) == IF End(p) > Start(p) \/ End(p) = 0 THEN {} ELSE {Bar(p, 0, End(p), End(p) * SecondsPerMinute)}

Bars(d) ==
  {OwnBar(p) : p \in pieces[d]} \cup (IF d = 1 THEN {} ELSE UNION {Rest(p) : p \in pieces[d - 1]})

ShownSeconds(d) == SumFunction([b \in Bars(d) |-> b.seconds])
ShownMinutes(d) == UNION {b.from .. b.to - 1 : b \in Bars(d)}
-----------------------------------------------------------------------------
WithinAMinute(p) == p.to < Midnight /\ Start(p) = p.to \div SecondsPerMinute
MinuteOf(m) == m * SecondsPerMinute .. (m + 1) * SecondsPerMinute - 1
OnlineAt(d) == UNION {p.from .. p.to - 1 : p \in pieces[d]}

\* Every whole minute online is shown on its day (buildTimelineDays).
WholeMinutesShown ==
  \A d \in 1 .. Days : \A m \in 0 .. MinutesPerDay - 1 : MinuteOf(m) \subseteq OnlineAt(d) => m \in ShownMinutes(d)

Plain(d) == \A e \in {d, d - 1} \cap (1 .. Days) : \A p \in pieces[e] : ~WithinAMinute(p)

\* Unless a piece lies within a minute, nothing is shown but minutes at least
\* partly online, and no two bars overlap (buildTimelineDays).
BarsAreOfTheDay ==
  \A d \in 1 .. Days : Plain(d) =>
    /\ \A m \in ShownMinutes(d) : MinuteOf(m) \cap OnlineAt(d) # {}
    /\ \A b, c \in Bars(d) : b # c => b.to <= c.from \/ c.to <= b.from

\* The bars of a day show what was online, and the total is right but for the
\* minute a day ends in (buildTimelineDays).
DaysAreRight ==
  /\ WholeMinutesShown
  /\ BarsAreOfTheDay
  /\ \A d \in 1 .. Days : Plain(d) => ShownSeconds(d) - Cardinality(OnlineAt(d)) \in 0 .. SecondsPerMinute - 1

\* A day shows times of that day alone (the intervals of a day are times of that
\* day: docs/backend/api/openapi.md:194).
DayShowsItself ==
  \A d \in 1 .. Days : \A m \in ShownMinutes(d) : MinuteOf(m) \cap OnlineAt(d) # {}
=============================================================================
