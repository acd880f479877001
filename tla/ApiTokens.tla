------------------------------ MODULE ApiTokens -----------------------------
(***************************************************************************)
(* API tokens: creation, revocation and deletion by requests that are      *)
(* authenticated with tokens themselves, and the mode without              *)
(* authentication while no token is active.  Every repository call is one  *)
(* transaction and one step; requests run on several threads.              *)
(***************************************************************************)
EXTENDS Naturals, FiniteSets

CONSTANTS
  Token,    \* tokens that may ever be created
  Handler,   \* threads serving requests
  NoToken,
  Expiring  \* TRUE: tokens may be created with an expiry date

ASSUME TokenAssumption == Expiring \in BOOLEAN /\ NoToken \notin Token \cup Handler

VARIABLES
  row,   \* row[k]: the api_tokens table
  req,   \* req[t]: the admin request thread t is serving
  alone  \* history: no two requests have overlapped so far

tokensVars == <<row, req, alone>>

Role == {"admin", "device"}

\* expiry is "none", "ahead" or "past"; revoker (history) is the thread whose
\* revoked_at is stored.
NoRow == [state |-> "absent", role |-> NoToken, expiry |-> "none", revoker |-> NoToken]
NoReq ==
  [at |-> "none", token |-> NoToken, target |-> NoToken, op |-> "none", role |-> NoToken, past |-> {}]

TokensInit ==
  /\ row = [k \in Token |-> NoRow]
  /\ req = [t \in Handler |-> NoReq]
  /\ alone = TRUE

\* revoked_at IS NULL AND (expires_at IS NULL OR expires_at > now)
Active(k) == row[k].state = "issued" /\ row[k].expiry # "past"
ActiveTokens == {k \in Token : Active(k)}
ActiveAdmins == {k \in ActiveTokens : row[k].role = "admin"}

AtStage(t, stage) == req[t].at = stage
Move(t, r) == req' = [req EXCEPT ![t] = r]
Done(t) == Move(t, NoReq)
Starts(t) == alone' = (alone /\ \A u \in Handler : AtStage(u, "none"))

\* What comes after the guards: create_api_token, revoke_api_token or
\* delete_api_token.
Entry == [create |-> "count", revoke |-> "load", delete |-> "check"]
Admit(t) == Move(t, [req[t] EXCEPT !.at = Entry[req[t].op]])
-----------------------------------------------------------------------------
\* A request for an admin operation presents a token it once was given, or
\* none; require_bearer_token lets it pass while no token is active.
Arrive(t, op, k) ==
  /\ AtStage(t, "none")
  /\ k \in Token => row[k].state # "absent"
  /\ \E target \in (IF op = "create" THEN {NoToken} ELSE {j \in Token : row[j].state # "absent"}) :
       Move(t, [NoReq EXCEPT !.op = op, !.token = k, !.target = target, !.at =
                  IF ActiveTokens = {} THEN Entry[op] ELSE "lookup"])
  /\ Starts(t)
  /\ UNCHANGED row

\* create_api_token.py calls create_token without a request.
CommandLine(t) ==
  /\ AtStage(t, "none")
  /\ Move(t, [NoReq EXCEPT !.op = "create", !.at = "count"])
  /\ Starts(t)
  /\ UNCHANGED row

\* authenticate_bearer_token: the active row of the token, else 401, ...
Lookup(t) ==
  /\ AtStage(t, "lookup")
  /\ IF req[t].token \in ActiveTokens THEN Move(t, [req[t] EXCEPT !.at = "fetch"])
     ELSE Done(t)
  /\ UNCHANGED <<row, alone>>

\* ... then, after last_used_at is written, its row again, and
\* require_admin_token.
Fetch(t) ==
  LET k == req[t].token
  IN /\ AtStage(t, "fetch")
     /\ IF row[k].state # "absent" /\ row[k].role = "admin" THEN Admit(t) ELSE Done(t)
     /\ UNCHANGED <<row, alone>>
-----------------------------------------------------------------------------
\* Plausible bug: the role asked for is taken as it is.
DecideRoleAsAsked(t, asked) ==
  /\ AtStage(t, "count")
  /\ Move(t, [req[t] EXCEPT !.at = "insert", !.role = IF asked = NoToken THEN "device" ELSE asked])
  /\ UNCHANGED <<row, alone>>

\* create_token: the first active token is an admin token whatever role is
\* asked for, later ones default to device.
DecideRole(t, asked) ==
  /\ AtStage(t, "count")
  /\ Move(t, [req[t] EXCEPT !.at = "insert", !.role =
                IF ActiveTokens = {} THEN "admin" ELSE IF asked = NoToken THEN "device" ELSE asked])
  /\ UNCHANGED <<row, alone>>

Insert(t, expiry) ==
  /\ AtStage(t, "insert")
  /\ \E k \in Token :
       /\ row[k] = NoRow
       /\ row' = [row EXCEPT ![k] = [NoRow EXCEPT !.state = "issued", !.role = req[t].role,
                                                  !.expiry = expiry]]
  /\ Done(t)
  /\ UNCHANGED alone

\* Active admin tokens, with the time of day revoke_token took before.
AdminsCounted(t) == {k \in Token : row[k].state = "issued" /\ row[k].role = "admin"} \ req[t].past

\* revoke_token reads the row: an active admin token is counted first, ...
Load(t) ==
  LET k == req[t].target
  IN /\ AtStage(t, "load")
     /\ IF row[k].state # "issued" THEN Done(t)
        ELSE IF k \in ActiveAdmins
        THEN Move(t, [req[t] EXCEPT !.at = "admins", !.past = {j \in Token : row[j].expiry = "past"}])
        ELSE Move(t, [req[t] EXCEPT !.at = "revoke"])
     /\ UNCHANGED <<row, alone>>

\* Plausible bug: all active tokens are counted.
CountAllTokens(t) ==
  /\ AtStage(t, "admins")
  /\ IF Cardinality(ActiveTokens) <= 1 THEN Done(t) ELSE Move(t, [req[t] EXCEPT !.at = "revoke"])
  /\ UNCHANGED <<row, alone>>

\* ... the last active admin token cannot be revoked ...
CountAdmins(t) ==
  /\ AtStage(t, "admins")
  /\ IF Cardinality(AdminsCounted(t)) <= 1 THEN Done(t)
     ELSE Move(t, [req[t] EXCEPT !.at = "revoke", !.past = {}])
  /\ UNCHANGED <<row, alone>>

\* ... and revoked_at is written where it is NULL.
Revoke(t) ==
  LET k == req[t].target
  IN /\ AtStage(t, "revoke")
     /\ row' = IF row[k].state = "issued"
               THEN [row EXCEPT ![k].state = "revoked", ![k].revoker = t] ELSE row
     /\ Done(t)
     /\ UNCHANGED alone

\* Plausible bug: the row need not be revoked.
CheckNothing(t) ==
  /\ AtStage(t, "check")
  /\ Move(t, [req[t] EXCEPT !.at = "delete"])
  /\ UNCHANGED <<row, alone>>

\* delete_token: only a revoked token, ...
Check(t) ==
  /\ AtStage(t, "check")
  /\ IF row[req[t].target].state = "revoked" THEN Move(t, [req[t] EXCEPT !.at = "delete"])
     ELSE Done(t)
  /\ UNCHANGED <<row, alone>>

\* ... which the DELETE asks for again. Identifiers are never reused.
DeleteToken(t) ==
  LET k == req[t].target
  IN /\ AtStage(t, "delete")
     /\ row' = IF row[k].state = "revoked" THEN [row EXCEPT ![k].state = "absent"] ELSE row
     /\ Done(t)
     /\ UNCHANGED alone

Expire(k) ==
  /\ row[k].state # "absent" /\ row[k].expiry = "ahead"
  /\ row' = [row EXCEPT ![k].expiry = "past"]
  /\ UNCHANGED <<req, alone>>
-----------------------------------------------------------------------------
TokensNext ==
  \/ \E t \in Handler :
       \/ \E op \in {"create", "revoke", "delete"}, k \in Token \cup {NoToken} : Arrive(t, op, k)
       \/ CommandLine(t) \/ Lookup(t) \/ Fetch(t)
       \/ \E asked \in Role \cup {NoToken} : DecideRole(t, asked)
       \/ \E expiry \in {"none"} \cup (IF Expiring THEN {"ahead"} ELSE {}) : Insert(t, expiry)
       \/ Load(t) \/ CountAdmins(t) \/ Revoke(t) \/ Check(t) \/ DeleteToken(t)
  \/ \E k \in Token : Expire(k)

TokensSpec == TokensInit /\ [][TokensNext]_tokensVars
-----------------------------------------------------------------------------
\* Types of the stored rows and of the requests; a stored token has a role.
TokensTypeOK ==
  /\ row \in [Token -> [state: {"absent", "issued", "revoked"}, role: Role \cup {NoToken},
                        expiry: {"none", "ahead", "past"}, revoker: Handler \cup {NoToken}]]
  /\ alone \in BOOLEAN
  /\ \A k \in Token : row[k].state # "absent" => row[k].role \in Role
  /\ req \in [Handler ->
       [at: {"none", "lookup", "fetch", "count", "insert", "load", "admins", "revoke", "check", "delete"},
        token: Token \cup {NoToken}, target: Token \cup {NoToken},
        op: {"none", "create", "revoke", "delete"}, role: Role \cup {NoToken},
        past: SUBSET Token]]

\* No two requests have overlapped and no token has expired so far.
Undisturbed == alone /\ \A k \in Token : row[k].expiry # "past"

\* Tokens can always be administered: while any token is active, so that
\* authentication is required, an admin token is (create_token, revoke_token).
Administrable == Undisturbed /\ ActiveTokens # {} => ActiveAdmins # {}

\* Types, and the tokens stay administrable (api_token_service).
TokensHold == TokensTypeOK /\ Administrable

\* No request takes the last active admin token away (docstring of
\* revoke_token), while nothing disturbs its count.
AdminRemains == [][Undisturbed /\ req' # req /\ ActiveAdmins # {} => ActiveAdmins' # {}]_tokensVars

\* The time of a revocation is never overwritten, and a row is deleted only
\* after its revocation, whatever requests run at the same time.
RevokedOnce ==
  [][\A k \in Token :
       /\ row[k].state = "issued" => row'[k].state # "absent"
       /\ row[k].revoker # NoToken => row'[k].revoker = row[k].revoker]_tokensVars

\* Both: what a revocation may not do (revoke_token, delete_token).
RevocationRules == AdminRemains /\ RevokedOnce
=============================================================================
