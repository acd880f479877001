------------------------------ MODULE TokenPanel ------------------------------
(***************************************************************************)
(* The API tokens in the settings (useAdminTokens, TokensSection): the     *)
(* field of the token this browser uses, the list of all tokens, and their *)
(* creation, revocation and deletion.  Four operations and a reload may be *)
(* in flight together, and each ends by loading the list.                  *)
(***************************************************************************)
EXTENDS Naturals, FiniteSets

CONSTANTS
  Token, NoToken,
  MaxAtOnce   \* operations and loads in flight together

ASSUME PanelAssumption == NoToken \notin Token /\ MaxAtOnce \in Nat

Operation == {"save", "create", "revoke", "delete"}
Loader == Operation \cup {"reload"}

VARIABLES
  server,         \* state of each token in the backend: absent, active, revoked or gone
  admin,          \* tokens with the role admin
  stored,         \* localStorage
  currentBearerToken, \* the field
  apiTokens,      \* the list shown: the states of the tokens when it was read
  tokenAccessDenied,
  tokensLoading,
  op,             \* op[p]: the operation p in flight
  load,           \* load[p]: the request for the list sent at its end
  overtyped,      \* history: the field was given something during a creation
  listed,         \* history: the last load succeeded, and none was in flight with it
  own,            \* history: states given to tokens by this panel, not changed since, and
                  \* whose answer was not lost
  cleared         \* history: cleared with nothing in flight, and nothing done since

panelVars == <<server, admin, stored, currentBearerToken, apiTokens, tokenAccessDenied, tokensLoading, op, load,
               overtyped, listed, own, cleared>>

NoTokens == [k \in Token |-> "absent"]
NoOp == [at |-> "none", token |-> NoToken, by |-> NoToken, auto |-> FALSE, field |-> NoToken,
         alone |-> FALSE, unlisted |-> FALSE]
NoLoad == [at |-> "none", by |-> NoToken, seen |-> NoTokens, clean |-> FALSE]

Active == {k \in Token : server[k] = "active"}
ActiveShown == {k \in Token : apiTokens[k] = "active"}

\* What the backend lets through: everything while no token is active.
Admits(k) == Active = {} \/ k \in Active \cap admin

InFlight(p) == op[p].at \in {"asked", "served"}
Busy == {p \in Loader : load[p] # NoLoad} \cup {p \in Operation : op[p] # NoOp}
Loading == {p \in Loader : load[p].at # "none"}

\* loadTokens, with the token k.
LoadTokens(p, k) ==
  /\ load' = [q \in Loader |->
                IF q = p THEN [NoLoad EXCEPT !.at = "asked", !.by = k, !.clean = (Loading \ {p} = {})]
                ELSE [load[q] EXCEPT !.clean = FALSE]]
  /\ tokensLoading' = TRUE

\* The panel is mounted on the tab of the tokens.
PanelInit ==
  /\ server \in [Token -> {"absent", "active"}]
  /\ admin \in SUBSET {k \in Token : server[k] # "absent"}
  /\ stored \in {k \in Token : server[k] # "absent"} \cup {NoToken}
  /\ currentBearerToken = stored /\ overtyped = FALSE
  /\ apiTokens = NoTokens /\ tokenAccessDenied = FALSE /\ listed = FALSE
  /\ op = [p \in Operation |-> NoOp]
  /\ load = [p \in Loader |->
               IF p = "reload" THEN [NoLoad EXCEPT !.at = "asked", !.by = stored, !.clean = TRUE]
               ELSE NoLoad]
  /\ tokensLoading = TRUE
  /\ own = NoTokens /\ cleared = FALSE
-----------------------------------------------------------------------------
(* Other clients, and the list. *)

Elsewhere(k) ==
  /\ \/ server[k] = "absent" /\ server' = [server EXCEPT ![k] = "active"]
        /\ \E r \in {{}, {k}} : admin' = IF Active = {} THEN admin \cup {k} ELSE admin \cup r
     \/ server[k] = "active" /\ server' = [server EXCEPT ![k] = "revoked"] /\ UNCHANGED admin
  /\ own' = [own EXCEPT ![k] = "absent"]
  /\ UNCHANGED <<stored, currentBearerToken, apiTokens, tokenAccessDenied, tokensLoading, op, load,
                 overtyped, listed, cleared>>

ReadList(p) ==
  /\ load[p].at = "asked"
  /\ \/ Admits(load[p].by) /\ load' = [load EXCEPT ![p] = [@ EXCEPT !.at = "read", !.by = NoToken, !.seen = server]]
     \/ ~Admits(load[p].by) /\ load' = [load EXCEPT ![p] = [@ EXCEPT !.at = "denied", !.by = NoToken]]
  /\ UNCHANGED <<server, admin, stored, currentBearerToken, apiTokens, tokenAccessDenied, tokensLoading, op,
                 overtyped, listed, own, cleared>>

\* The list is shown, or hidden when the backend denies it; a list that cannot be
\* loaded leaves the old one.
TokensArrive(p) ==
  /\ load[p] # NoLoad
  /\ load' = [load EXCEPT ![p] = NoLoad]
  /\ tokensLoading' = FALSE
  /\ tokenAccessDenied' = (load[p].at = "denied")
  /\ apiTokens' = IF load[p].at = "asked" THEN apiTokens ELSE load[p].seen
  /\ listed' = (load[p].at = "read" /\ load[p].clean)
  /\ op' = IF p \in Operation THEN [op EXCEPT ![p] = NoOp] ELSE op
  /\ UNCHANGED <<server, admin, stored, currentBearerToken, overtyped, own, cleared>>

\* The button is disabled while a list is loading, and hidden with the list.
ReloadTokens ==
  /\ ~tokensLoading /\ ~tokenAccessDenied /\ load["reload"] = NoLoad /\ Cardinality(Busy) < MaxAtOnce
  /\ LoadTokens("reload", stored)
  /\ UNCHANGED <<server, admin, stored, currentBearerToken, apiTokens, tokenAccessDenied, op, overtyped,
                 listed, own, cleared>>
-----------------------------------------------------------------------------
(* The field. *)

TypeIn(k) ==
  /\ currentBearerToken' = k /\ overtyped' = InFlight("create")
  /\ UNCHANGED <<server, admin, stored, apiTokens, tokenAccessDenied, tokensLoading, op, load, listed, own,
                 cleared>>

\* confirmClearBearerToken, while no save is in flight.
Clear ==
  /\ op["save"].at = "none"
  /\ stored' = NoToken /\ currentBearerToken' = NoToken /\ overtyped' = InFlight("create")
  /\ apiTokens' = NoTokens /\ tokenAccessDenied' = TRUE
  /\ cleared' = (Loading = {} /\ \A p \in Operation : ~InFlight(p))
  /\ UNCHANGED <<server, admin, tokensLoading, op, load, listed, own>>
-----------------------------------------------------------------------------
(* Operations: asked, served or failed, and landed in the panel. *)

Begin(p, r) ==
  /\ op[p].at = "none" /\ Cardinality(Busy) < MaxAtOnce
  /\ op' = [op EXCEPT ![p] = [r EXCEPT !.at = "asked", !.by = stored]]
  /\ UNCHANGED <<server, admin, stored, currentBearerToken, apiTokens, tokenAccessDenied, tokensLoading, load,
                 overtyped, listed, own, cleared>>

Save == currentBearerToken # NoToken /\ Begin("save", [NoOp EXCEPT !.token = currentBearerToken])

\* handleCreateToken remembers the field and whether the token will configure
\* this browser (unlisted is history: the list was out of date then).
Creation(auto) ==
  [NoOp EXCEPT !.auto = auto, !.field = currentBearerToken,
               !.unlisted = (auto /\ (~listed \/ ActiveShown # Active))]

\* Plausible bug: whether a token is active does not matter.
CreateAuto ==
  /\ ~tokenAccessDenied
  /\ Begin("create", Creation(currentBearerToken = NoToken))

\* The token configures this browser when the list shows no active token and the
\* field is empty.
Create ==
  /\ ~tokenAccessDenied
  /\ Begin("create", Creation(ActiveShown = {} /\ currentBearerToken = NoToken))

Revoke(k) == ~tokenAccessDenied /\ apiTokens[k] = "active" /\ Begin("revoke", [NoOp EXCEPT !.token = k])
Delete(k) == ~tokenAccessDenied /\ apiTokens[k] = "revoked" /\ Begin("delete", [NoOp EXCEPT !.token = k])

Give(k, state) == server' = [server EXCEPT ![k] = state] /\ own' = [own EXCEPT ![k] = state]

\* The backend: /api/auth/me, create_token, revoke_token (never the last active
\* admin) and delete_token.
Serve(p) ==
  LET k == op[p].token
  IN /\ op[p].at = "asked"
     /\ \/ /\ p = "save" /\ k \in Active
           /\ op' = [op EXCEPT ![p] = [@ EXCEPT !.at = "served", !.by = NoToken]] /\ UNCHANGED <<server, admin, own>>
        \/ /\ p = "create" /\ Admits(op[p].by)
           /\ \E new \in Token, r \in BOOLEAN :
                /\ server[new] = "absent"
                /\ Give(new, "active")
                /\ admin' = IF Active = {} \/ r THEN admin \cup {new} ELSE admin
                /\ op' = [op EXCEPT ![p] = [@ EXCEPT !.at = "served", !.by = NoToken, !.token = new,
                                                    !.alone = (op[p].auto /\ Active = {})]]
        \/ /\ p \in {"revoke", "delete"} /\ op[p].by # NoToken /\ Admits(op[p].by)
           /\ p = "revoke" => server[k] \in {"active", "revoked"} /\ (Active \cap admin # {k})
           /\ p = "delete" => server[k] = "revoked"
           /\ Give(k, IF p = "revoke" THEN "revoked" ELSE "gone")
           /\ op' = [op EXCEPT ![p] = [@ EXCEPT !.at = "served", !.by = NoToken]] /\ UNCHANGED admin
     /\ UNCHANGED <<stored, currentBearerToken, apiTokens, tokenAccessDenied, tokensLoading, load,
                    overtyped, listed, cleared>>

\* The state that an operation gives to its token.
Given(p) == CASE p = "create" -> "active" [] p = "revoke" -> "revoked" [] p = "delete" -> "gone"
              [] OTHER -> "absent"

\* The backend refuses, the request fails, or what the backend did remains
\* unknown because its answer is lost; the list is not loaded then.
Fail(p) ==
  /\ op[p].at \in {"asked", "served"}
  /\ own' = [k \in Token |-> IF op[p].at = "served" /\ k = op[p].token /\ own[k] = Given(p)
                            THEN "absent" ELSE own[k]]
  /\ op' = [op EXCEPT ![p] = NoOp]
  /\ overtyped' = (overtyped /\ p # "create")
  /\ UNCHANGED <<server, admin, stored, currentBearerToken, apiTokens, tokenAccessDenied, tokensLoading, load,
                 listed, cleared>>

\* A saved or automatic token is stored and shown in the field; after a creation
\* the field gets what it held at the click. Then the list is loaded.
Land(p) ==
  LET new == op[p].token
      keeps == p = "save" \/ op[p].auto
  IN /\ op[p].at = "served"
     /\ op' = [op EXCEPT ![p] = [NoOp EXCEPT !.at = "listing"]]
     /\ stored' = IF keeps THEN new ELSE stored
     /\ currentBearerToken' = IF keeps THEN new ELSE IF p = "create" THEN op[p].field ELSE currentBearerToken
     /\ overtyped' = (IF p = "save" THEN InFlight("create") ELSE overtyped /\ p # "create")
     /\ tokenAccessDenied' = (tokenAccessDenied /\ p # "create")
     /\ cleared' = FALSE
     /\ LoadTokens(p, stored')
     /\ UNCHANGED <<server, admin, apiTokens, listed, own>>

PanelNext ==
  \/ \E k \in Token : Elsewhere(k) \/ Revoke(k) \/ Delete(k)
  \/ \E k \in {NoToken} \cup {j \in Token : server[j] # "absent"} : TypeIn(k)
  \/ \E p \in Loader : ReadList(p) \/ TokensArrive(p)
  \/ \E p \in Operation : Serve(p) \/ Fail(p) \/ Land(p)
  \/ ReloadTokens \/ Clear \/ Save \/ Create

PanelSpec == PanelInit /\ [][PanelNext]_panelVars
-----------------------------------------------------------------------------
\* Only the first token configures the browser by itself (docs/frontend/features/
\* ui.md), when the list was up to date at the click (handleCreateToken).
AutoOnlyFirst ==
  LET c == op["create"] IN c.at = "served" /\ c.auto => c.alone \/ c.unlisted

\* A creation puts back the text the field had at the click, so it had better be
\* the one in it, unless something was entered meanwhile (handleCreateToken).
FieldIsKept == InFlight("create") /\ ~overtyped => op["create"].field = currentBearerToken

\* After a clear with nothing in flight the tokens stay hidden until a token is
\* saved or created (handleClearBearerToken).
ClearedStaysHidden == cleared => tokenAccessDenied /\ apiTokens = NoTokens

\* When everything has ended, the list shows what the panel was told it did,
\* unless the last load failed or was in flight with another one. What was done
\* and not answered it shows after the next load only: the error loads no list
\* (handleCreateToken, handleRevokeToken, handleDeleteToken).
OwnChangesShown ==
  listed /\ Loading = {} /\ ~tokenAccessDenied /\ (\A p \in Operation : op[p] = NoOp) =>
    \A k \in Token : own[k] # "absent" => apiTokens[k] = own[k]

\* The four together (useAdminTokens).
PanelHolds ==
  /\ AutoOnlyFirst
  /\ FieldIsKept
  /\ ClearedStaysHidden
  /\ OwnChangesShown
=============================================================================
