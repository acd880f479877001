------------------------------- MODULE LogPull -------------------------------
(***************************************************************************)
(* How the log panel (LogsPanel.tsx) asks for older pages: by a button, or *)
(* on a touch screen by pulling further down at the end of the list, one   *)
(* page for each touch.  Loads, reloads and the clearing of the log, which *)
(* useLogsData does (LogPaging), start and end in between.                 *)
(***************************************************************************)
EXTENDS Naturals

CONSTANTS Threshold   \* moves that make a pull (28 pixels)

VARIABLES
  isMobile,
  pageLoading, pageLoadingMore, hasMore,        \* from useLogsData
  reloading,      \* an answer that loadLogsRequestSeqRef still lets in is under way
  overtaken,      \* the page under way was asked for before a newer load or a clear
  confirmOpen, clearLoading,
  loadMoreInFlight,
  autoLoadArmed, requiresNewTouch,      \* autoLoadArmedRef, autoLoadRequiresNewTouchRef
  startedNearBottom, pullDistance, gestureConsumed,
  loads                                 \* history: pages asked for since the finger came down

pullVars == <<isMobile, pageLoading, pageLoadingMore, hasMore, reloading, overtaken, confirmOpen,
              clearLoading, loadMoreInFlight, autoLoadArmed, requiresNewTouch,
              startedNearBottom, pullDistance, gestureConsumed, loads>>
list == <<pageLoading, pageLoadingMore, hasMore, reloading, overtaken>>
dialog == <<confirmOpen, clearLoading>>
touch == <<startedNearBottom, pullDistance, gestureConsumed>>
arming == <<autoLoadArmed, requiresNewTouch>>

PullInit ==
  /\ isMobile \in BOOLEAN
  /\ pageLoading = TRUE /\ pageLoadingMore = FALSE /\ hasMore = FALSE
  /\ reloading = TRUE /\ overtaken = FALSE
  /\ confirmOpen = FALSE /\ clearLoading = FALSE /\ loadMoreInFlight = FALSE
  /\ autoLoadArmed = TRUE /\ requiresNewTouch = FALSE
  /\ startedNearBottom = FALSE /\ pullDistance = 0 /\ gestureConsumed = FALSE
  /\ loads = 0
-----------------------------------------------------------------------------
Listens == isMobile /\ hasMore
Still == ~pageLoading /\ ~pageLoadingMore /\ ~clearLoading

\* The effect on hasMore: a list that has more again is armed.
Rearm ==
  IF isMobile /\ hasMore' /\ ~hasMore THEN autoLoadArmed' = TRUE /\ requiresNewTouch' = FALSE
  ELSE UNCHANGED arming

\* handleLoadMore
PullMore ==
  /\ Still /\ hasMore /\ ~loadMoreInFlight
  /\ loadMoreInFlight' = TRUE /\ pageLoadingMore' = TRUE /\ overtaken' = FALSE

ShowMoreButton ==
  /\ ~isMobile /\ PullMore
  /\ UNCHANGED <<isMobile, pageLoading, hasMore, reloading, dialog, arming, touch, loads>>

\* The call returns: a page that was overtaken is dropped. One that a clear has
\* only begun to overtake still counts.
LoadMoreEnds ==
  /\ loadMoreInFlight
  /\ loadMoreInFlight' = FALSE /\ pageLoadingMore' = FALSE
  /\ hasMore' \in IF overtaken THEN {hasMore} ELSE BOOLEAN
  /\ Rearm
  /\ UNCHANGED <<isMobile, pageLoading, reloading, overtaken, dialog, touch, loads>>

\* loadLogs, by a button, an event or after an operation, also while one runs.
ReloadPage ==
  /\ pageLoading' = TRUE /\ reloading' = TRUE
  /\ pageLoadingMore' = FALSE /\ overtaken' = TRUE
  /\ UNCHANGED <<isMobile, hasMore, dialog, loadMoreInFlight, arming, touch, loads>>

\* The answer of the newest load, or its error.
ReloadEnds ==
  /\ reloading
  /\ reloading' = FALSE /\ pageLoading' = FALSE /\ hasMore' \in BOOLEAN
  /\ Rearm
  /\ UNCHANGED <<isMobile, pageLoadingMore, overtaken, dialog, loadMoreInFlight, touch, loads>>

OpenConfirm ==
  /\ ~pageLoading /\ ~clearLoading /\ ~confirmOpen
  /\ confirmOpen' = TRUE
  /\ UNCHANGED <<isMobile, list, clearLoading, loadMoreInFlight, arming, touch, loads>>

CloseConfirm ==
  /\ confirmOpen /\ ~clearLoading
  /\ confirmOpen' = FALSE
  /\ UNCHANGED <<isMobile, list, clearLoading, loadMoreInFlight, arming, touch, loads>>

ConfirmClear ==
  /\ confirmOpen /\ ~clearLoading
  /\ clearLoading' = TRUE /\ pageLoadingMore' = FALSE
  /\ UNCHANGED <<isMobile, pageLoading, hasMore, reloading, overtaken, confirmOpen, loadMoreInFlight,
                 arming, touch, loads>>

\* The dialog closes when the log was cleared, and stays after an error. What is
\* under way then is overtaken; a load leaves its mark of loading behind.
ClearEnds ==
  /\ clearLoading /\ clearLoading' = FALSE
  /\ \/ /\ hasMore' = FALSE /\ confirmOpen' = FALSE
        /\ reloading' = FALSE /\ overtaken' = TRUE
     \/ UNCHANGED <<hasMore, confirmOpen, reloading, overtaken>>
  /\ UNCHANGED <<isMobile, pageLoading, pageLoadingMore, loadMoreInFlight, arming, touch, loads>>
-----------------------------------------------------------------------------
\* handleTouchStart; without a listener the touch is not seen.
TouchStart(near, scrollable) ==
  /\ isMobile
  /\ loads' = 0
  /\ IF Listens
     THEN /\ autoLoadArmed' = (autoLoadArmed \/ requiresNewTouch \/ (~scrollable /\ Still))
          /\ requiresNewTouch' = FALSE
          /\ pullDistance' = 0 /\ gestureConsumed' = FALSE /\ startedNearBottom' = near
     ELSE UNCHANGED <<arming, touch>>
  /\ UNCHANGED <<isMobile, list, dialog, loadMoreInFlight>>

\* Plausible bug: a page asked for does not wait for a new touch.
TouchMoveOnce(down, near) ==
  /\ Listens /\ startedNearBottom /\ ~gestureConsumed
  /\ autoLoadArmed /\ ~requiresNewTouch /\ ~loadMoreInFlight /\ Still
  /\ pullDistance' = IF down THEN 0 ELSE IF pullDistance < Threshold THEN pullDistance + 1 ELSE pullDistance
  /\ IF near /\ pullDistance' = Threshold
     THEN /\ PullMore
          /\ gestureConsumed' = TRUE /\ autoLoadArmed' = FALSE
          /\ loads' = loads + 1
     ELSE UNCHANGED <<pageLoadingMore, overtaken, loadMoreInFlight, gestureConsumed, autoLoadArmed, loads>>
  /\ UNCHANGED <<isMobile, pageLoading, hasMore, reloading, dialog, requiresNewTouch, startedNearBottom>>

\* handleTouchMove: the moves up add to the pull, a move down ends it. At the end
\* of the list (or without a range to scroll) a long enough pull asks for a page.
TouchMove(down, near) ==
  /\ Listens /\ startedNearBottom /\ ~gestureConsumed
  /\ autoLoadArmed /\ ~requiresNewTouch /\ ~loadMoreInFlight /\ Still
  /\ pullDistance' = IF down THEN 0 ELSE IF pullDistance < Threshold THEN pullDistance + 1 ELSE pullDistance
  /\ IF near /\ pullDistance' = Threshold
     THEN /\ PullMore
          /\ gestureConsumed' = TRUE /\ autoLoadArmed' = FALSE /\ requiresNewTouch' = TRUE
          /\ loads' = loads + 1
     ELSE UNCHANGED <<pageLoadingMore, overtaken, loadMoreInFlight, gestureConsumed, arming, loads>>
  /\ UNCHANGED <<isMobile, pageLoading, hasMore, reloading, dialog, startedNearBottom>>

\* handleTouchEnd, also of one finger of several.
TouchEnd ==
  /\ Listens
  /\ pullDistance' = 0 /\ gestureConsumed' = FALSE /\ startedNearBottom' = FALSE
  /\ UNCHANGED <<isMobile, list, dialog, loadMoreInFlight, arming, loads>>

PullNext ==
  \/ ShowMoreButton \/ LoadMoreEnds \/ ReloadPage \/ ReloadEnds
  \/ OpenConfirm \/ CloseConfirm \/ ConfirmClear \/ ClearEnds
  \/ \E b, c \in BOOLEAN : TouchStart(b, c) \/ TouchMove(b, c)
  \/ TouchEnd

PullSpec == PullInit /\ [][PullNext]_pullVars
-----------------------------------------------------------------------------
\* A touch asks for one page at most, also when the list is loaded again or gets
\* more rows under the finger (LogsPanel.test.tsx: 637); and as long as there is
\* more, the list is armed or the next touch will arm it: no order of loads,
\* clears and touches leaves it without a way on.
OnePagePerTouch ==
  /\ loads <= 1
  /\ isMobile /\ hasMore => autoLoadArmed \/ requiresNewTouch
=============================================================================
