----------------------------- MODULE ScrollLocks -----------------------------
(***************************************************************************)
(* How dialogs keep the page from scrolling.  The settings and the dialogs *)
(* of their token section share useBodyScrollLock, which keeps one         *)
(* snapshot of the body's style for all its locks.  The dialogs of the PC  *)
(* list (PcList.tsx) and the front view and the confirmation of the logs   *)
(* (LogsPanel.tsx) each keep the style they found, and put it back.        *)
(***************************************************************************)
EXTENDS Naturals, SequencesExt

CONSTANTS
  Depth,   \* how far the page can be scrolled
  MaxOpen  \* bound for TLC on dialogs open at a time

VARIABLES
  open,       \* the dialogs open, in the order they were opened
  style,      \* what the body is set to: [overflow, fixed]
  scrollY,
  original,   \* originalStyle, or NoStyle
  fixedScrollY, hadFixedLock,
  found,      \* found[d]: the style that a dialog with its own lock found
  tab,        \* whether the token section is mounted
  at,         \* history: where the page was when it was last free
  crossed,    \* history: a dialog was closed under one with another kind of lock
  resynced    \* history: a lock, not the last, came or went while the page was fixed

lockVars == <<open, style, scrollY, original, fixedScrollY, hadFixedLock, found, tab, at, crossed, resynced>>
shared == <<original, fixedScrollY, hadFixedLock>>

Shared == {"settings", "token"}
Own == {"pc", "focus", "confirm"}
Free == [overflow |-> "visible", fixed |-> FALSE]
Hidden == [overflow |-> "hidden", fixed |-> FALSE]
NoStyle == [overflow |-> "none", fixed |-> FALSE]
Opened == ToSet(open)
Locks(ds) == ds \cap Shared

LockInit ==
  /\ open = <<>> /\ style = Free /\ scrollY \in 0 .. Depth
  /\ original = NoStyle /\ fixedScrollY = 0 /\ hadFixedLock = FALSE
  /\ found = [d \in Own |-> NoStyle] /\ tab = FALSE
  /\ at = scrollY /\ crossed = FALSE /\ resynced = FALSE
-----------------------------------------------------------------------------
\* A fixed body has no scroll position of its own.
PageY(s) == IF s.fixed THEN 0 ELSE scrollY

\* Plausible bug: a released lock gives the page free although others remain.
SyncFrees(locks) ==
  IF Cardinality(locks) < Cardinality(Locks(Opened)) \/ locks = {}
  THEN /\ style' = IF original = NoStyle THEN style ELSE original
       /\ scrollY' = IF original # NoStyle /\ hadFixedLock THEN fixedScrollY ELSE scrollY
       /\ original' = NoStyle /\ fixedScrollY' = 0 /\ hadFixedLock' = FALSE
  ELSE /\ original' = IF original = NoStyle THEN style ELSE original
       /\ style' = [overflow |-> "hidden", fixed |-> "settings" \in locks]
       /\ fixedScrollY' = IF "settings" \in locks THEN PageY(style) ELSE fixedScrollY
       /\ hadFixedLock' = (hadFixedLock \/ "settings" \in locks)
       /\ scrollY' = PageY(style')

\* syncBodyScrollLock: the last lock to go puts style and position back; otherwise
\* the style is set again from the first snapshot and the position is taken again.
Sync(locks) ==
  IF locks = {}
  THEN /\ style' = IF original = NoStyle THEN style ELSE original
       /\ scrollY' = IF original # NoStyle /\ hadFixedLock THEN fixedScrollY ELSE scrollY
       /\ original' = NoStyle /\ fixedScrollY' = 0 /\ hadFixedLock' = FALSE
  ELSE /\ original' = IF original = NoStyle THEN style ELSE original
       /\ style' = [overflow |-> "hidden", fixed |-> "settings" \in locks]
       /\ fixedScrollY' = IF "settings" \in locks THEN PageY(style) ELSE fixedScrollY
       /\ hadFixedLock' = (hadFixedLock \/ "settings" \in locks)
       /\ scrollY' = PageY(style')

Resync(locks) == Sync(locks) /\ resynced' = (resynced \/ (style.fixed /\ locks # {}))

\* A dialog is opened; its lock is set, or the overflow found is kept and set.
OpenDialog(d) ==
  /\ d \notin Opened /\ Len(open) < MaxOpen
  /\ d = "token" => tab
  /\ open' = Append(open, d)
  /\ at' = IF open = <<>> THEN scrollY ELSE at
  /\ IF d \in Shared
     THEN /\ Sync(Locks(Opened \cup {d})) /\ UNCHANGED found
          /\ resynced' = (open # <<>> /\ (resynced \/ style.fixed))
     ELSE /\ found' = [found EXCEPT ![d] = style]
          /\ style' = [style EXCEPT !.overflow = "hidden"]
          /\ resynced' = (open # <<>> /\ resynced)
          /\ UNCHANGED <<scrollY, shared>>
  /\ UNCHANGED <<tab, crossed>>

\* It is closed by the user, or with the page or the row it belongs to.
CloseDialog(d) ==
  LET place == CHOOSE i \in DOMAIN open : open[i] = d
      above == {open[i] : i \in place + 1 .. Len(open)}
  IN /\ open' = RemoveAt(open, place)
     /\ crossed' = (crossed \/ \E e \in above : {d, e} \cap Own # {})
     /\ IF d \in Shared
        THEN Resync(Locks(Opened \ {d})) /\ UNCHANGED found
        ELSE /\ style' = [style EXCEPT !.overflow = found[d].overflow]
             /\ found' = [found EXCEPT ![d] = NoStyle]
             /\ UNCHANGED <<scrollY, shared, resynced>>
     /\ UNCHANGED <<tab, at>>

\* The token section comes or goes; its hook runs without a lock.
SwitchTab ==
  /\ "token" \notin Opened
  /\ tab' = ~tab
  /\ Resync(Locks(Opened))
  /\ UNCHANGED <<open, found, at, crossed>>

Scroll(y) ==
  /\ style = Free /\ y # scrollY
  /\ scrollY' = y
  /\ at' = IF open = <<>> THEN y ELSE at
  /\ UNCHANGED <<open, style, shared, found, tab, crossed, resynced>>

LockNext ==
  \/ \E d \in Shared \cup Own : OpenDialog(d)
  \/ \E d \in Opened : CloseDialog(d)
  \/ SwitchTab
  \/ \E y \in 0 .. Depth : Scroll(y)

LockSpec == LockInit /\ [][LockNext]_lockVars
-----------------------------------------------------------------------------
\* The page is held as long as a dialog is open and is free afterwards, where it
\* was before - unless a dialog was closed under one with another kind of lock,
\* which then puts back a style long gone; and a lock that is not the last and comes or
\* goes while the page is fixed loses the place (useBodyScrollLock, PcList, LogsPanel).
HeldWhileOpen ==
  ~crossed => IF open # <<>> THEN style.overflow = "hidden"
              ELSE style = Free /\ (resynced \/ scrollY = at)
=============================================================================
