----------------------------- MODULE TokenSession -----------------------------
(***************************************************************************)
(* The token of a browser tab: the token stored for all tabs (api/auth.ts),*)
(* the tab's copy of it and what the server said of it last                *)
(* (useTokenValidation), which open or lock the dashboard (App), the       *)
(* requests refused with 401 (http.ts) and the tokens saved in the         *)
(* settings (useAdminTokens).  A state change, the render and the effects  *)
(* that follow it are one step.                                            *)
(***************************************************************************)
EXTENDS Naturals, FiniteSets

CONSTANTS
  Token, None,
  Revalidation,        \* revalidations in flight
  MaxChanges,  \* tokens saved or cleared, here and in other tabs
  MaxSaves     \* saves in flight

ASSUME SessionAssumption == None \notin Token /\ MaxChanges \in Nat /\ MaxSaves \in Nat

VARIABLES
  accepted,     \* tokens the server accepts
  stored,       \* localStorage
  storedState,  \* storedBearerToken, the tab's copy
  validation,   \* tokenValidation: the token and whether it is valid
  first,        \* the check of storedState: none, asked or its verdict
  again,        \* again[i]: a later check of storedState
  saves,        \* handleSaveBearerToken: tokens asked about, with the verdict
  sent,         \* a request sent with the stored token, with its verdict
  changes,
  confirmed,    \* history: tokens a check of this tab found accepted
  reason,       \* history: why validation is not valid
  saved,        \* history: the token saved last, while nothing happened since
  lagged        \* history: a refusal was handled before the storage event

sessionVars == <<accepted, stored, storedState, validation, first, again, saves, sent, changes, confirmed,
                 reason, saved, lagged>>

NoValidation == [token |-> None, valid |-> FALSE]
NoRequest == [token |-> None, verdict |-> "none"]
Unasked == [i \in Revalidation |-> "none"]
Asking(k) == IF k = None THEN "none" ELSE "asked"

Verified == storedState # None /\ validation = [token |-> storedState, valid |-> TRUE]
Pending == storedState # None /\ validation.token # storedState
Locked == storedState # None /\ validation = [token |-> storedState, valid |-> FALSE]

\* A check may fail for other reasons than the token.
Verdicts(k) == {IF k \in accepted THEN "ok" ELSE "refused", "failed"}

SessionInit ==
  /\ accepted \in SUBSET Token
  /\ stored \in Token \cup {None} /\ storedState = stored
  /\ validation = NoValidation
  /\ first = Asking(stored) /\ again = Unasked
  /\ saves = {} /\ sent = NoRequest
  /\ changes = 0
  /\ confirmed = {} /\ reason = "none" /\ saved = None /\ lagged = FALSE
-----------------------------------------------------------------------------
\* Plausible bug: checks are not cancelled, and their answer is taken for the
\* token shown.
ShowUncancelled(k) ==
  /\ storedState' = k
  /\ UNCHANGED again
  /\ first' = IF k = storedState \/ first # "none" THEN first ELSE Asking(k)

\* syncTokenState and the effects on storedBearerToken: another token is
\* checked, and checks of the one before are cancelled.
Show(k) ==
  /\ storedState' = k
  /\ IF k = storedState THEN UNCHANGED <<first, again>>
     ELSE first' = Asking(k) /\ again' = Unasked

\* setTokenValidation.
Validate(k, verdict) ==
  /\ validation' = [token |-> k, valid |-> verdict = "ok"]
  /\ reason' = IF verdict = "ok" THEN "none" ELSE verdict
  /\ saved' = IF verdict = "ok" THEN saved ELSE None

Expel(k) ==
  /\ k \in accepted
  /\ accepted' = accepted \ {k}
  /\ UNCHANGED <<stored, storedState, validation, first, again, saves, sent, changes, confirmed, reason,
                 saved, lagged>>

\* Another tab stores a token it has checked, or clears it.
OtherTab(k) ==
  /\ changes < MaxChanges /\ changes' = changes + 1
  /\ k # stored /\ k \in accepted \cup {None}
  /\ stored' = k /\ saved' = None
  /\ UNCHANGED <<accepted, storedState, validation, first, again, saves, sent, confirmed, reason, lagged>>

StorageEvent ==
  /\ stored # storedState
  /\ Show(stored)
  /\ UNCHANGED <<accepted, stored, validation, saves, sent, changes, confirmed, reason, saved, lagged>>
-----------------------------------------------------------------------------
(* Checks. *)

Confirm(verdict) == confirmed' = IF verdict = "ok" THEN confirmed \cup {storedState} ELSE confirmed

ReadFirst ==
  /\ first = "asked"
  /\ first' \in Verdicts(storedState)
  /\ Confirm(first')
  /\ UNCHANGED <<accepted, stored, storedState, validation, again, saves, sent, changes, reason, saved,
                 lagged>>

FirstDone ==
  /\ first \notin {"none", "asked"}
  /\ Validate(storedState, first)
  /\ first' = "none"
  /\ again' = IF first = "ok" THEN again ELSE Unasked
  /\ UNCHANGED <<accepted, stored, storedState, saves, sent, changes, confirmed, lagged>>

\* The interval, or a focus when the last check is long ago.
Revalidate(i) ==
  /\ Verified /\ again[i] = "none"
  /\ again' = [again EXCEPT ![i] = "asked"]
  /\ UNCHANGED <<accepted, stored, storedState, validation, first, saves, sent, changes, confirmed, reason,
                 saved, lagged>>

ReadAgain(i) ==
  /\ again[i] = "asked"
  /\ \E v \in Verdicts(storedState) : again' = [again EXCEPT ![i] = v] /\ Confirm(v)
  /\ UNCHANGED <<accepted, stored, storedState, validation, first, saves, sent, changes, reason, saved,
                 lagged>>

\* Plausible bug: a failed revalidation is taken for a transient error.
AgainForgiving(i) ==
  /\ again[i] \notin {"none", "asked"}
  /\ IF again[i] = "ok" THEN Validate(storedState, "ok") ELSE UNCHANGED <<validation, reason, saved>>
  /\ again' = [again EXCEPT ![i] = "none"]
  /\ UNCHANGED <<accepted, stored, storedState, first, saves, sent, changes, confirmed, lagged>>

AgainDone(i) ==
  /\ again[i] \notin {"none", "asked"}
  /\ Validate(storedState, again[i])
  /\ again' = IF again[i] = "ok" THEN [again EXCEPT ![i] = "none"] ELSE Unasked
  /\ UNCHANGED <<accepted, stored, storedState, first, saves, sent, changes, confirmed, lagged>>
-----------------------------------------------------------------------------
(* Requests with the stored token; a route that needs none is not marked. *)

Send ==
  /\ stored # None /\ sent = NoRequest
  /\ sent' = [token |-> stored, verdict |-> "asked"]
  /\ UNCHANGED <<accepted, stored, storedState, validation, first, again, saves, changes, confirmed, reason,
                 saved, lagged>>

Answer ==
  /\ sent.verdict = "asked"
  /\ sent' = IF sent.token \in accepted THEN NoRequest ELSE [sent EXCEPT !.verdict = "refused"]
  /\ UNCHANGED <<accepted, stored, storedState, validation, first, again, saves, changes, confirmed, reason,
                 saved, lagged>>

\* handleInvalidToken marks the token stored now, whichever was refused.
Refused ==
  /\ sent.verdict = "refused"
  /\ sent' = NoRequest
  /\ IF stored = None THEN UNCHANGED <<validation, reason, again, saved, lagged>>
     ELSE /\ Validate(stored, IF stored = sent.token THEN "refused" ELSE "crossed")
          /\ again' = Unasked
          /\ lagged' = (lagged \/ stored # storedState)
  /\ UNCHANGED <<accepted, stored, storedState, first, saves, changes, confirmed>>
-----------------------------------------------------------------------------
(* The token field of the settings. Its guard bearerSaving ends when the     *)
(* panel is closed, so any number of saves may be in flight.                 *)

Save(k) ==
  /\ changes < MaxChanges /\ changes' = changes + 1
  /\ Cardinality(saves) < MaxSaves
  /\ saves' = saves \cup {[token |-> k, verdict |-> "asked"]}
  /\ UNCHANGED <<accepted, stored, storedState, validation, first, again, sent, confirmed, reason, saved,
                 lagged>>

ReadSave(s) ==
  /\ s.verdict = "asked"
  /\ \E v \in Verdicts(s.token) : saves' = (saves \ {s}) \cup {[s EXCEPT !.verdict = v]}
  /\ UNCHANGED <<accepted, stored, storedState, validation, first, again, sent, changes, confirmed, reason,
                 saved, lagged>>

\* Plausible bug: the refusal of a token that is tried out counts as one of the
\* stored token.
SaveDoneMarks(s) ==
  /\ s.verdict # "asked"
  /\ saves' = saves \ {s}
  /\ IF s.verdict = "ok"
     THEN stored' = s.token /\ Show(s.token) /\ saved' = s.token /\ UNCHANGED <<validation, reason>>
     ELSE /\ validation' = IF s.verdict = "refused" /\ stored # None
                            THEN [token |-> stored, valid |-> FALSE] ELSE validation
          /\ UNCHANGED <<stored, storedState, first, again, reason, saved>>
  /\ UNCHANGED <<accepted, sent, changes, confirmed, lagged>>

\* A token the server accepts is stored, and shown when it is another one.
SaveDone(s) ==
  /\ s.verdict # "asked"
  /\ saves' = saves \ {s}
  /\ IF s.verdict = "ok" THEN stored' = s.token /\ Show(s.token) /\ saved' = s.token
     ELSE UNCHANGED <<stored, storedState, first, again, saved>>
  /\ UNCHANGED <<accepted, validation, sent, changes, confirmed, reason, lagged>>

Clear ==
  /\ stored # None
  /\ stored' = None /\ Show(None) /\ saved' = None
  /\ UNCHANGED <<accepted, validation, saves, sent, changes, confirmed, reason, lagged>>

SessionNext ==
  \/ \E k \in Token : Expel(k) \/ Save(k)
  \/ \E k \in Token \cup {None} : OtherTab(k)
  \/ StorageEvent \/ ReadFirst \/ FirstDone \/ Send \/ Answer \/ Refused \/ Clear
  \/ \E i \in Revalidation : Revalidate(i) \/ ReadAgain(i) \/ AgainDone(i)
  \/ \E s \in saves : ReadSave(s) \/ SaveDone(s)

\* Storage events arrive, checks are answered or fail, and the interval runs.
SessionFairness ==
  /\ WF_sessionVars(StorageEvent) /\ WF_sessionVars(ReadFirst) /\ WF_sessionVars(FirstDone)
  /\ \A i \in Revalidation :
       WF_sessionVars(Revalidate(i)) /\ WF_sessionVars(ReadAgain(i)) /\ WF_sessionVars(AgainDone(i))
SessionSpec == SessionInit /\ [][SessionNext]_sessionVars /\ SessionFairness
-----------------------------------------------------------------------------
\* The dashboard is open only with a token a check of this tab found accepted,
\* whatever changed while checks were in flight (cancelled, useTokenValidation).
AdmittedWasAccepted == Verified => storedState \in confirmed

\* It is locked only when the server refuses the token, a check failed, or a
\* request with another token was refused (dispatchStoredTokenInvalid).
LockedOnlyWithReason == Locked => storedState \notin accepted \/ reason \in {"failed", "crossed"}

\* A tab with a token the server no longer accepts is locked in the end
\* (interval of useTokenValidation).
RevokedLocksOut == Verified /\ storedState \notin accepted ~> ~(Verified /\ storedState \notin accepted)

\* The gate does not check for ever, unless a refusal was handled before the
\* storage event of another tab's change (isTokenValidationPending).
PendingEnds == Pending ~> ~Pending \/ lagged

\* Both together: every check gets somewhere (useTokenValidation).
ChecksEnd == RevokedLocksOut /\ PendingEnds

\* TokenGateScreen asks to save the right token: a token saved after the server
\* accepted it is not shown as invalid, while no check or request says so.
SavedIsAdmitted == saved # None /\ storedState = saved => ~Locked
=============================================================================
