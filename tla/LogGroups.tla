------------------------------ MODULE LogGroups ------------------------------
(***************************************************************************)
(* The groups of the log panel (logGrouping.ts) and which of them are      *)
(* folded (useLogsPanelState.ts) while the list below changes: rows come   *)
(* on top, older pages at the end, and a reload shortens it to one page.   *)
(* A group is found again by its key only.                                 *)
(***************************************************************************)
EXTENDS Integers, SequencesExt

CONSTANTS
  LogJob,      \* jobs that write rows; other rows are "plain" or "periodic"
  PageLength,  \* rows of a page
  LastRow      \* bound for TLC on the rows written

ASSUME GroupAssumption ==
  /\ LogJob \cap {"plain", "periodic"} = {}
  /\ PageLength \in Nat \ {0}

VARIABLES
  written,     \* the rows of the table: written[id] is what the row is of
  first, last, \* the list shows the rows first .. last; none if first > last
  collapsed,   \* collapsedGroupKeys
  current,     \* currentGroupKeys
  opened,      \* history: the rows of the periodic groups the user has open
  inherited    \* history: a block that came while another went away, and the rows it then had

groupVars == <<written, first, last, collapsed, current, opened, inherited>>

Kind == {"plain", "periodic"} \cup LogJob
Shown == first .. last

\* The rows next to row i that belong to one block with it.
Block(i, rows) == {j \in rows : \A k \in (i .. j) \cup (j .. i) : written[k] = written[i]}

RowsWith(i, rows) == IF written[i] \in LogJob THEN {j \in rows : written[j] = written[i]} ELSE Block(i, rows)

\* A block of periodic rows is named after its oldest row, which stays the same
\* when rows come on top; other blocks after their newest; a job after itself.
KeyOf(i, rows) ==
  [of |-> written[i],
   at |-> CASE written[i] = "periodic" -> Min(Block(i, rows))
            [] written[i] = "plain" -> Max(Block(i, rows))
            [] OTHER -> 0]

\* buildLogGroups
Groups(rows) == {[key |-> KeyOf(i, rows), rows |-> RowsWith(i, rows)] : i \in rows}
Keys(rows) == {g.key : g \in Groups(rows)}
Periodic(keys) == {k \in keys : k.of = "periodic"}

GroupInit ==
  /\ written = <<>> /\ first = 1 /\ last = 0
  /\ collapsed = {} /\ current = {} /\ opened = {} /\ inherited = {}
-----------------------------------------------------------------------------
Nearest(k, keys) == CHOOSE a \in keys : \A b \in keys :
  LET far(c) == IF c.at > k.at THEN c.at - k.at ELSE k.at - c.at
  IN far(a) < far(b) \/ (far(a) = far(b) /\ a.at >= b.at)

OldestOf(keys) == CHOOSE k \in keys : \A l \in keys : k.at <= l.at

\* The key k gives its state to the nearest of the added keys that has none yet.
HandOver(added, k, map) ==
  LET free == added \ DOMAIN map
  IN IF free = {} THEN map
     ELSE [b \in DOMAIN map \cup {Nearest(k, free)} |-> IF b \in DOMAIN map THEN map[b] ELSE k]

\* buildPeriodicTransferMap: the keys that went away give their state, the oldest last.
Transfer(removed, added) ==
  MapThenFoldSet(LAMBDA k, map : HandOver(added, k, map), <<>>, LAMBDA k : k, OldestOf, removed)

\* Plausible bug: a block is new whenever its key is.
SyncGroupsWithoutTransfer(rows) ==
  LET keys == Keys(rows)
  IN /\ current' = keys
     /\ collapsed' = (collapsed \cap keys) \cup (Periodic(keys) \ current)

\* SYNC_GROUP_KEYS: folded groups that are still there stay so, blocks whose key
\* changed take their state over, and the other new blocks are folded.
SyncGroups(rows) ==
  LET keys == Keys(rows)
      added == Periodic(keys \ current)
      from == Transfer(Periodic(current \ keys), added)
  IN /\ current' = keys
     /\ collapsed' = (collapsed \cap keys) \cup {k \in added : k \in DOMAIN from => from[k] \in collapsed}

\* What the user has open follows the rows of a block.
Follow(rows) ==
  LET blocks == {g.rows : g \in {h \in Groups(rows) : h.key.of = "periodic"}}
      gone == \E i \in Shown \ rows : written[i] = "periodic" /\ Block(i, Shown) \cap rows = {}
      came == {b \in blocks : b \cap Shown = {}}
  IN /\ opened' = UNION {b \in blocks : b \cap opened # {}}
     /\ inherited' = UNION {b \in blocks : b \cap inherited # {} \/ (gone /\ b \in came)}

Show(from, to) ==
  /\ first' = from /\ last' = to
  /\ SyncGroups(from .. to) /\ Follow(from .. to)

\* The server writes a row.
WriteRow(kind) ==
  /\ Len(written) < LastRow
  /\ written' = Append(written, kind)
  /\ UNCHANGED <<first, last, collapsed, current, opened, inherited>>

\* The list is loaded again: its newest page.
ReloadRows ==
  /\ written # <<>>
  /\ UNCHANGED written
  /\ Show(Max({1, Len(written) - PageLength + 1}), Len(written))

\* The next page is added.
ShowOlder ==
  /\ first \in 2 .. last
  /\ UNCHANGED written
  /\ Show(Max({1, first - PageLength}), last)

\* The log is cleared.
ClearAll ==
  /\ first <= last
  /\ written' = <<>> /\ first' = 1 /\ last' = 0
  /\ collapsed' = {} /\ current' = {} /\ opened' = {} /\ inherited' = {}

\* TOGGLE_GROUP
Toggle(g) ==
  /\ collapsed' = SymDiff(collapsed, {g.key})
  /\ opened' = IF g.key.of # "periodic" THEN opened
               ELSE IF g.key \in collapsed THEN opened \cup g.rows ELSE opened \ g.rows
  /\ inherited' = inherited \ g.rows
  /\ UNCHANGED <<written, first, last, current>>

GroupNext ==
  \/ \E kind \in Kind : WriteRow(kind)
  \/ ReloadRows \/ ShowOlder \/ ClearAll
  \/ \E g \in Groups(Shown) : Toggle(g)

GroupSpec == GroupInit /\ [][GroupNext]_groupVars
-----------------------------------------------------------------------------
\* A block of periodic rows that the user opened stays open, and one nobody opened
\* stays folded, whatever rows come before or after it and are taken off the list
\* (LogsPanel.test.tsx: 273, 395, 439, 483) - unless the block came in the same
\* update in which another one went away, whose state it may be given.
FoldsFollowBlocks ==
  \A g \in Groups(Shown) : g.key.of = "periodic" =>
    /\ g.rows \cap opened # {} => g.key \notin collapsed
    /\ g.rows \cap (opened \cup inherited) = {} => g.key \in collapsed
=============================================================================
