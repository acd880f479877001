-------------------------- MODULE ApiTokensProofs ---------------------------
(***************************************************************************)
(* The token rules hold for every set of tokens and handler threads.  The  *)
(* inductive invariant says what a request has made sure of at each of its *)
(* stages: no other request runs, so what it counted is still so.          *)
(***************************************************************************)
EXTENDS ApiTokens, FiniteSetTheorems, TLAPS

Stage == {"none", "lookup", "fetch", "count", "insert", "load", "admins", "revoke", "check",
          "delete"}
ReqType == [at: Stage, token: Token \cup {NoToken}, target: Token \cup {NoToken},
            op: {"none", "create", "revoke", "delete"}, role: Role \cup {NoToken},
            past: SUBSET Token]
RowType == [state: {"absent", "issued", "revoked"}, role: Role \cup {NoToken},
            expiry: {"none", "ahead", "past"}, revoker: Handler \cup {NoToken}]

\* Stages and operations fit: who revokes or deletes has a target, who inserts
\* has decided on a role.
ReqHolds(t) ==
  /\ req[t].op \in {"revoke", "delete"} => req[t].target \in Token
  /\ req[t].at \in {"lookup", "fetch"} => req[t].op # "none"
  /\ req[t].at \in {"load", "admins", "revoke"} => req[t].op = "revoke"
  /\ req[t].at \in {"check", "delete"} => req[t].op = "delete"
  /\ req[t].at = "insert" => req[t].role \in Role

\* Requests have not overlapped: at most one is under way.
Solo ==
  alone => \A t, u \in Handler : t # u => AtStage(t, "none") \/ AtStage(u, "none")

\* What an undisturbed request has made sure of.
Sure(t) ==
  /\ AtStage(t, "insert") /\ ActiveTokens = {} => req[t].role = "admin"
  /\ AtStage(t, "revoke") /\ req[t].target \in ActiveAdmins =>
       \E k \in ActiveAdmins : k # req[t].target

\* An issued token has no revocation to overwrite.
IssuedUnrevoked == \A k \in Token : row[k].state = "issued" => row[k].revoker = NoToken

\* The inductive invariant.
TokensInv ==
  /\ TokensHold
  /\ Solo
  /\ IssuedUnrevoked
  /\ \A t \in Handler : ReqHolds(t)
  /\ Undisturbed => \A t \in Handler : Sure(t)
-----------------------------------------------------------------------------
\* What the types say of one row and one request.
LEMMA TypeFacts ==
  ASSUME TokensTypeOK
  PROVE  /\ row \in [Token -> RowType] /\ req \in [Handler -> ReqType]
         /\ NoToken \notin Token /\ NoToken \notin Handler
         /\ NoReq \in ReqType /\ NoReq.at = "none" /\ NoReq.op = "none"
  BY TokenAssumption DEF TokensTypeOK, RowType, ReqType, Stage, NoReq

\* Moving one request leaves the others.
LEMMA MoveFacts ==
  ASSUME TokensTypeOK, NEW t \in Handler, NEW r \in ReqType, Move(t, r)
  PROVE  /\ req' \in [Handler -> ReqType]
         /\ req'[t] = r /\ \A u \in Handler \ {t} : req'[u] = req[u]
  BY TypeFacts DEF Move

\* Moving on to the next stage keeps what the request carries.
LEMMA StageFacts ==
  ASSUME NEW q \in ReqType, NEW s \in Stage, NEW r, r = [q EXCEPT !.at = s]
  PROVE  /\ r \in ReqType /\ r.at = s /\ r.op = q.op /\ r.target = q.target
         /\ r.role = q.role
  BY DEF ReqType

\* How a step of thread t leaves its own request and those of the others.
ReqMoves(t) ==
  /\ req' \in [Handler -> ReqType] /\ \A u \in Handler \ {t} : req'[u] = req[u]
  /\ IF AtStage(t, "none") THEN alone' = (alone /\ \A u \in Handler : AtStage(u, "none"))
     ELSE alone' = alone
  /\ \/ req'[t] = NoReq
     \/ /\ AtStage(t, "none")
        /\ req'[t].op = "create" /\ req'[t].at \in {"lookup", "count"}
     \/ /\ AtStage(t, "none")
        /\ req'[t].op \in {"revoke", "delete"} /\ req'[t].target \in Token
        /\ req'[t].at \in {"lookup", Entry[req'[t].op]}
     \/ /\ req'[t].op = req[t].op /\ req'[t].target = req[t].target
        /\ \/ AtStage(t, "lookup") /\ req'[t].at = "fetch"
           \/ AtStage(t, "fetch") /\ req'[t].at = Entry[req[t].op]
           \/ /\ AtStage(t, "count") /\ req'[t].at = "insert" /\ row' = row
              /\ req'[t].role \in Role /\ (ActiveTokens = {} => req'[t].role = "admin")
           \/ /\ AtStage(t, "load") /\ req'[t].at \in {"admins", "revoke"} /\ row' = row
              /\ req'[t].at = "revoke" => req[t].target \notin ActiveAdmins
           \/ /\ AtStage(t, "admins") /\ req'[t].at = "revoke" /\ row' = row
              /\ ~(Cardinality(AdminsCounted(t)) <= 1)
           \/ AtStage(t, "check") /\ req'[t].at = "delete"

\* How a step of thread t leaves the table: it issues a token where there was
\* none, revokes an issued one, or forgets a revoked one.
RowMoves(t) ==
  \/ row' = row
  \/ \E k \in Token :
       /\ row' \in [Token -> RowType] /\ \A j \in Token \ {k} : row'[j] = row[j]
       /\ req'[t] = NoReq
       /\ \/ /\ AtStage(t, "insert") /\ row[k].state = "absent"
             /\ row[k].expiry = "none" /\ row[k].revoker = NoToken
             /\ row'[k].state = "issued" /\ row'[k].role = req[t].role
             /\ row'[k].expiry \in {"none", "ahead"} /\ row'[k].revoker = NoToken
          \/ /\ AtStage(t, "revoke") /\ k = req[t].target
             /\ row[k].state = "issued" /\ row'[k].state = "revoked"
             /\ row'[k].role = row[k].role /\ row'[k].expiry = row[k].expiry
          \/ /\ AtStage(t, "delete") /\ k = req[t].target
             /\ row[k].state = "revoked" /\ row'[k].state = "absent"
             /\ row'[k].role = row[k].role /\ row'[k].expiry = row[k].expiry
             /\ row'[k].revoker = row[k].revoker

\* The steps of one thread.
ThreadStep(t) ==
  \/ \E op \in {"create", "revoke", "delete"}, k \in Token \cup {NoToken} : Arrive(t, op, k)
  \/ CommandLine(t) \/ Lookup(t) \/ Fetch(t)
  \/ \E asked \in Role \cup {NoToken} : DecideRole(t, asked)
  \/ \E expiry \in {"none", "ahead"} : Insert(t, expiry)
  \/ Load(t) \/ CountAdmins(t) \/ Revoke(t) \/ Check(t) \/ DeleteToken(t)

LEMMA DoneFacts ==
  ASSUME TokensTypeOK, NEW t \in Handler, Done(t)
  PROVE  /\ req' \in [Handler -> ReqType] /\ req'[t] = NoReq
         /\ \A u \in Handler \ {t} : req'[u] = req[u]
  BY TypeFacts, MoveFacts DEF Done

LEMMA ThreadReq ==
  ASSUME TokensTypeOK, NEW t \in Handler, ReqHolds(t), ThreadStep(t)
  PROVE  ReqMoves(t)
<1> USE TypeFacts
<1>0. req[t] \in ReqType
  OBVIOUS
<1>1. ASSUME Done(t), alone' = alone, ~AtStage(t, "none") PROVE ReqMoves(t)
  BY <1>1, DoneFacts DEF ReqMoves
<1>2. ASSUME NEW op \in {"create", "revoke", "delete"}, NEW k \in Token \cup {NoToken},
             Arrive(t, op, k)
      PROVE  ReqMoves(t)
  <2>1. PICK target \in (IF op = "create" THEN {NoToken}
                         ELSE {j \in Token : row[j].state # "absent"}) :
          Move(t, [NoReq EXCEPT !.op = op, !.token = k, !.target = target, !.at =
                     IF ActiveTokens = {} THEN Entry[op] ELSE "lookup"])
    BY <1>2 DEF Arrive
  <2> DEFINE s == IF ActiveTokens = {} THEN Entry[op] ELSE "lookup"
             r == [at |-> s, token |-> k, target |-> target, op |-> op, role |-> NoToken,
                   past |-> {}]
  <2>2. Move(t, r)
    <3>1. PICK q : q = [NoReq EXCEPT !.op = op, !.token = k, !.target = target, !.at =
                          IF ActiveTokens = {} THEN Entry[op] ELSE "lookup"]
      OBVIOUS
    <3>2. q = r
      BY <3>1 DEF NoReq
    <3> QED BY <2>1, <3>1, <3>2
  <2>3. s \in {"lookup", Entry[op]} /\ s \in Stage /\ target \in Token \cup {NoToken}
    BY DEF Entry, Stage
  <2> HIDE DEF s
  <2>4. r \in ReqType
    BY <2>3 DEF ReqType
  <2>5. req'[t] = r /\ req' \in [Handler -> ReqType]
        /\ \A u \in Handler \ {t} : req'[u] = req[u]
    BY <2>2, <2>4, MoveFacts
  <2>6. /\ req'[t].op = op /\ req'[t].target = target
        /\ req'[t].at \in {"lookup", Entry[req'[t].op]}
    BY <2>3, <2>5
  <2>7. AtStage(t, "none") /\ alone' = (alone /\ \A u \in Handler : AtStage(u, "none"))
    BY <1>2 DEF Arrive, Starts
  <2>8. op = "create" => Entry[op] = "count"
    BY DEF Entry
  <2>9. op # "create" => target \in Token
    BY <2>1
  <2> QED BY <2>5, <2>6, <2>7, <2>8, <2>9 DEF ReqMoves
<1>3. ASSUME CommandLine(t) PROVE ReqMoves(t)
  <2> DEFINE r == [at |-> "count", token |-> NoToken, target |-> NoToken, op |-> "create",
                   role |-> NoToken, past |-> {}]
  <2>1. Move(t, r)
    <3>1. PICK q : q = [NoReq EXCEPT !.op = "create", !.at = "count"]
      OBVIOUS
    <3>2. q = r
      BY <3>1 DEF NoReq
    <3> QED BY <1>3, <3>1, <3>2 DEF CommandLine
  <2>2. r \in ReqType
    BY DEF ReqType, Stage
  <2>3. /\ req'[t] = r /\ req' \in [Handler -> ReqType]
        /\ \A u \in Handler \ {t} : req'[u] = req[u]
    BY <2>1, <2>2, MoveFacts
  <2>4. AtStage(t, "none") /\ alone' = (alone /\ \A u \in Handler : AtStage(u, "none"))
    BY <1>3 DEF CommandLine, Starts
  <2> QED BY <2>3, <2>4 DEF ReqMoves
\* A request that moves to stage s.
<1>4. ASSUME NEW s \in Stage, Move(t, [req[t] EXCEPT !.at = s])
      PROVE  /\ req' \in [Handler -> ReqType] /\ \A u \in Handler \ {t} : req'[u] = req[u]
             /\ req'[t].at = s /\ req'[t].op = req[t].op /\ req'[t].target = req[t].target
             /\ req'[t].role = req[t].role
  <2>1. PICK r : r = [req[t] EXCEPT !.at = s]
    OBVIOUS
  <2>2. /\ r \in ReqType /\ r.at = s /\ r.op = req[t].op /\ r.target = req[t].target
        /\ r.role = req[t].role
    BY <1>0, <2>1, StageFacts
  <2>3. Move(t, r)
    BY <1>4, <2>1
  <2> QED BY <2>2, <2>3, MoveFacts
<1>5. ASSUME Lookup(t) PROVE ReqMoves(t)
  <2>1. AtStage(t, "lookup") /\ ~AtStage(t, "none") /\ alone' = alone
    BY <1>5 DEF Lookup, AtStage
  <2>2. CASE Move(t, [req[t] EXCEPT !.at = "fetch"])
    BY <1>4, <2>1, <2>2 DEF ReqMoves, Stage
  <2> QED BY <1>1, <1>5, <2>1, <2>2 DEF Lookup
<1>6. ASSUME Fetch(t) PROVE ReqMoves(t)
  <2>1. AtStage(t, "fetch") /\ ~AtStage(t, "none") /\ alone' = alone
    BY <1>6 DEF Fetch, AtStage
  <2>2. CASE Admit(t)
    <3>1. req[t].op \in {"create", "revoke", "delete"}
      BY <1>0, <2>1 DEF ReqHolds, AtStage, ReqType
    <3>2. Entry[req[t].op] \in Stage
      BY <3>1 DEF Entry, Stage
    <3> QED BY <1>4, <2>1, <2>2, <3>2 DEF Admit, ReqMoves
  <2> QED BY <1>1, <1>6, <2>1, <2>2 DEF Fetch
<1>7. ASSUME NEW asked \in Role \cup {NoToken}, DecideRole(t, asked) PROVE ReqMoves(t)
  <2> DEFINE role == IF ActiveTokens = {} THEN "admin"
                     ELSE IF asked = NoToken THEN "device" ELSE asked
  <2>1. PICK r : r = [req[t] EXCEPT !.at = "insert", !.role = role]
    OBVIOUS
  <2>2. role \in Role /\ (ActiveTokens = {} => role = "admin")
    BY DEF Role
  <2> HIDE DEF role
  <2>3. /\ r \in ReqType /\ r.at = "insert" /\ r.op = req[t].op /\ r.target = req[t].target
        /\ r.role = role
    BY <1>0, <2>1, <2>2 DEF ReqType, Stage
  <2>4. Move(t, r)
    BY <1>7, <2>1 DEF DecideRole, role
  <2>5. AtStage(t, "count") /\ ~AtStage(t, "none") /\ alone' = alone /\ row' = row
    BY <1>7 DEF DecideRole, AtStage
  <2> QED BY <2>2, <2>3, <2>4, <2>5, MoveFacts DEF ReqMoves
<1>8. ASSUME NEW expiry \in {"none", "ahead"}, Insert(t, expiry) PROVE ReqMoves(t)
  BY <1>1, <1>8 DEF Insert, AtStage
<1>9. ASSUME Load(t) PROVE ReqMoves(t)
  <2>1. AtStage(t, "load") /\ ~AtStage(t, "none") /\ alone' = alone /\ row' = row
    BY <1>9 DEF Load, AtStage
  <2>2. CASE Move(t, [req[t] EXCEPT !.at = "admins", !.past = {j \in Token : row[j].expiry = "past"}])
    <3>1. PICK r : r = [req[t] EXCEPT !.at = "admins",
                                      !.past = {j \in Token : row[j].expiry = "past"}]
      OBVIOUS
    <3>2. /\ r \in ReqType /\ r.at = "admins" /\ r.op = req[t].op
          /\ r.target = req[t].target
      BY <1>0, <3>1 DEF ReqType, Stage
    <3>3. Move(t, r)
      BY <2>2, <3>1
    <3> QED BY <2>1, <3>2, <3>3, MoveFacts DEF ReqMoves
  <2>3. CASE req[t].target \notin ActiveAdmins /\ Move(t, [req[t] EXCEPT !.at = "revoke"])
    BY <1>4, <2>1, <2>3 DEF ReqMoves, Stage
  <2> QED BY <1>1, <1>9, <2>1, <2>2, <2>3 DEF Load
<1>10. ASSUME CountAdmins(t) PROVE ReqMoves(t)
  <2>1. AtStage(t, "admins") /\ ~AtStage(t, "none") /\ alone' = alone /\ row' = row
    BY <1>10 DEF CountAdmins, AtStage
  <2>2. CASE /\ ~(Cardinality(AdminsCounted(t)) <= 1)
             /\ Move(t, [req[t] EXCEPT !.at = "revoke", !.past = {}])
    <3>1. PICK r : r = [req[t] EXCEPT !.at = "revoke", !.past = {}]
      OBVIOUS
    <3>2. /\ r \in ReqType /\ r.at = "revoke" /\ r.op = req[t].op
          /\ r.target = req[t].target
      BY <1>0, <3>1 DEF ReqType, Stage
    <3>3. Move(t, r)
      BY <2>2, <3>1
    <3> QED BY <2>1, <2>2, <3>2, <3>3, MoveFacts DEF ReqMoves
  <2> QED BY <1>1, <1>10, <2>1, <2>2 DEF CountAdmins
<1>11. ASSUME Revoke(t) PROVE ReqMoves(t)
  BY <1>1, <1>11 DEF Revoke, AtStage
<1>12. ASSUME Check(t) PROVE ReqMoves(t)
  <2>1. AtStage(t, "check") /\ ~AtStage(t, "none") /\ alone' = alone
    BY <1>12 DEF Check, AtStage
  <2>2. CASE Move(t, [req[t] EXCEPT !.at = "delete"])
    BY <1>4, <2>1, <2>2 DEF ReqMoves, Stage
  <2> QED BY <1>1, <1>12, <2>1, <2>2 DEF Check
<1>13. ASSUME DeleteToken(t) PROVE ReqMoves(t)
  BY <1>1, <1>13 DEF DeleteToken, AtStage
<1> QED
  BY <1>2, <1>3, <1>5, <1>6, <1>7, <1>8, <1>9, <1>10, <1>11, <1>12, <1>13 DEF ThreadStep

LEMMA ThreadRow ==
  ASSUME TokensTypeOK, NEW t \in Handler, ReqHolds(t), ThreadStep(t)
  PROVE  RowMoves(t)
<1> USE TypeFacts
<1>1. ASSUME NEW expiry \in {"none", "ahead"}, Insert(t, expiry) PROVE RowMoves(t)
  <2>1. PICK k \in Token :
          /\ row[k] = NoRow
          /\ row' = [row EXCEPT ![k] = [NoRow EXCEPT !.state = "issued", !.role = req[t].role,
                                                     !.expiry = expiry]]
    BY <1>1 DEF Insert
  <2> DEFINE r == [state |-> "issued", role |-> req[t].role, expiry |-> expiry,
                   revoker |-> NoToken]
  <2>2. row' = [row EXCEPT ![k] = r]
    <3>1. PICK q : q = [NoRow EXCEPT !.state = "issued", !.role = req[t].role,
                                     !.expiry = expiry]
      OBVIOUS
    <3>2. q = r
      BY <3>1 DEF NoRow
    <3> QED BY <2>1, <3>1, <3>2
  <2>3. r \in RowType
    <3>1. req[t].role \in Role
      BY <1>1 DEF Insert, AtStage, ReqHolds
    <3> QED BY <3>1 DEF RowType
  <2>4. /\ row[k].state = "absent" /\ row[k].expiry = "none" /\ row[k].revoker = NoToken
    BY <2>1 DEF NoRow
  <2>5. /\ row' \in [Token -> RowType] /\ row'[k] = r
        /\ \A j \in Token \ {k} : row'[j] = row[j]
    BY <2>2, <2>3
  <2>6. AtStage(t, "insert") /\ req'[t] = NoReq
    BY <1>1, DoneFacts DEF Insert
  <2> QED BY <2>4, <2>5, <2>6 DEF RowMoves
<1>2. ASSUME Revoke(t) PROVE RowMoves(t)
  <2> DEFINE k == req[t].target
  <2>1. CASE row[k].state = "issued"
    <3>1. k \in Token /\ AtStage(t, "revoke") /\ req'[t] = NoReq
      BY <1>2, DoneFacts DEF Revoke, AtStage, ReqHolds
    <3>2. row' = [row EXCEPT ![k].state = "revoked", ![k].revoker = t]
      BY <1>2, <2>1 DEF Revoke
    <3> HIDE DEF k
    <3>3. /\ row' \in [Token -> RowType]
          /\ \A j \in Token \ {k} : row'[j] = row[j]
          /\ row'[k].state = "revoked" /\ row'[k].role = row[k].role
          /\ row'[k].expiry = row[k].expiry
      BY <3>1, <3>2 DEF RowType
    <3> QED BY <2>1, <3>1, <3>3 DEF RowMoves, k
  <2>2. CASE row[k].state # "issued"
    BY <1>2, <2>2 DEF Revoke, RowMoves
  <2> QED BY <2>1, <2>2
<1>3. ASSUME DeleteToken(t) PROVE RowMoves(t)
  <2> DEFINE k == req[t].target
  <2>1. CASE row[k].state = "revoked"
    <3>1. k \in Token /\ AtStage(t, "delete") /\ req'[t] = NoReq
      BY <1>3, DoneFacts DEF DeleteToken, AtStage, ReqHolds
    <3>2. row' = [row EXCEPT ![k].state = "absent"]
      BY <1>3, <2>1 DEF DeleteToken
    <3> HIDE DEF k
    <3>3. /\ row' \in [Token -> RowType]
          /\ \A j \in Token \ {k} : row'[j] = row[j]
          /\ row'[k].state = "absent" /\ row'[k].role = row[k].role
          /\ row'[k].expiry = row[k].expiry /\ row'[k].revoker = row[k].revoker
      BY <3>1, <3>2 DEF RowType
    <3> QED BY <2>1, <3>1, <3>3 DEF RowMoves, k
  <2>2. CASE row[k].state # "revoked"
    BY <1>3, <2>2 DEF DeleteToken, RowMoves
  <2> QED BY <2>1, <2>2
<1>4. ASSUME UNCHANGED row PROVE RowMoves(t)
  BY <1>4 DEF RowMoves
<1> QED
  BY <1>1, <1>2, <1>3, <1>4
  DEF ThreadStep, Arrive, CommandLine, Lookup, Fetch, DecideRole, Load, CountAdmins, Check
-----------------------------------------------------------------------------
LEMMA InvFacts ==
  ASSUME TokensInv
  PROVE  /\ TokensTypeOK /\ Administrable /\ Solo /\ IssuedUnrevoked
         /\ row \in [Token -> RowType] /\ req \in [Handler -> ReqType]
         /\ \A t \in Handler : ReqHolds(t)
         /\ Undisturbed => \A t \in Handler : Sure(t)
  BY TypeFacts DEF TokensInv, TokensHold

\* No step of an undisturbed request takes the last active admin token away.
LEMMA AdminsStay ==
  ASSUME TokensInv, NEW t \in Handler, ThreadStep(t), Undisturbed, ActiveAdmins # {}
  PROVE  ActiveAdmins' # {}
<1>0. RowMoves(t) /\ Sure(t) /\ row \in [Token -> RowType]
  BY ThreadRow, InvFacts
<1>1. ASSUME NEW a \in ActiveAdmins, row'[a] = row[a] PROVE a \in ActiveAdmins'
  BY <1>1 DEF ActiveAdmins, ActiveTokens, Active
<1>2. ASSUME row' = row PROVE ActiveAdmins' # {}
  BY <1>1, <1>2
<1>3. ASSUME NEW k \in Token, \A j \in Token \ {k} : row'[j] = row[j], k \notin ActiveAdmins
      PROVE  ActiveAdmins' # {}
  BY <1>1, <1>3 DEF ActiveAdmins, ActiveTokens
<1>4. ASSUME NEW k \in Token, \A j \in Token \ {k} : row'[j] = row[j], row[k].state # "issued"
      PROVE  ActiveAdmins' # {}
  <2>1. k \notin ActiveAdmins
    BY <1>4 DEF ActiveAdmins, ActiveTokens, Active
  <2> QED BY <1>3, <1>4, <2>1
<1>5. ASSUME NEW k \in Token, \A j \in Token \ {k} : row'[j] = row[j],
             AtStage(t, "revoke"), k = req[t].target
      PROVE  ActiveAdmins' # {}
  <2>1. CASE k \notin ActiveAdmins
    BY <1>3, <1>5, <2>1
  <2>2. CASE k \in ActiveAdmins
    <3>1. PICK a \in ActiveAdmins : a # k
      BY <1>0, <1>5, <2>2 DEF Sure
    <3>2. row'[a] = row[a]
      BY <1>5, <3>1 DEF ActiveAdmins, ActiveTokens
    <3> QED BY <1>1, <3>1, <3>2
  <2> QED BY <2>1, <2>2
<1> QED BY <1>0, <1>2, <1>4, <1>5 DEF RowMoves

LEMMA ThreadInv ==
  ASSUME TokensInv, NEW t \in Handler, ThreadStep(t) PROVE TokensInv'
<1>0. /\ TokensTypeOK /\ Administrable /\ Solo /\ IssuedUnrevoked
      /\ row \in [Token -> RowType] /\ req \in [Handler -> ReqType]
      /\ \A u \in Handler : ReqHolds(u)
      /\ Undisturbed => \A u \in Handler : Sure(u)
      /\ ReqMoves(t) /\ RowMoves(t)
  BY InvFacts, ThreadReq, ThreadRow
<1>1. row' \in [Token -> RowType] /\ req' \in [Handler -> ReqType] /\ alone' \in BOOLEAN
  BY <1>0 DEF ReqMoves, RowMoves, TokensTypeOK
<1>2. \A k \in Token : row'[k].state # "absent" => row'[k].role \in Role
  <2>1. \A k \in Token : row[k].state # "absent" => row[k].role \in Role
    BY <1>0 DEF TokensTypeOK
  <2>2. AtStage(t, "insert") => req[t].role \in Role
    BY <1>0 DEF ReqHolds, AtStage
  <2> QED BY <1>0, <2>1, <2>2 DEF RowMoves
<1>3. TokensTypeOK'
  BY <1>1, <1>2 DEF TokensTypeOK, RowType, ReqType, Stage
<1>4. \A u \in Handler : ReqHolds(u)'
  <2>1. \A u \in Handler \ {t} : ReqHolds(u)'
    BY <1>0 DEF ReqMoves, ReqHolds
  <2>2. ReqHolds(t)'
    <3>1. ReqHolds(t) /\ req[t] \in ReqType /\ Role \subseteq {"admin", "device"}
      BY <1>0 DEF Role
    <3> QED BY <1>0, <3>1 DEF ReqMoves, ReqHolds, NoReq, AtStage, Entry, ReqType
  <2> QED BY <2>1, <2>2
<1>5. alone' => alone /\ \A u \in Handler \ {t} : AtStage(u, "none") /\ AtStage(u, "none")'
  BY <1>0 DEF ReqMoves, Solo, AtStage
<1>6. Solo'
  BY <1>5 DEF Solo
<1>7. IssuedUnrevoked'
  BY <1>0 DEF RowMoves, IssuedUnrevoked
<1>8. Undisturbed' => Undisturbed
  <2>1. \A k \in Token : row'[k].expiry # "past" => row[k].expiry # "past"
    BY <1>0 DEF RowMoves
  <2> QED BY <1>5, <2>1 DEF Undisturbed
<1>9. ASSUME Undisturbed' PROVE Sure(t)'
  <2>0. Undisturbed /\ Sure(t)
    BY <1>0, <1>8, <1>9
  <2>1. ASSUME AtStage(t, "insert")', ActiveTokens' = {} PROVE req'[t].role = "admin"
    <3>1. row' = row /\ (ActiveTokens = {} => req'[t].role = "admin")
      BY <1>0, <2>1 DEF ReqMoves, AtStage, NoReq, Entry, ReqHolds, ReqType
    <3> QED BY <2>1, <3>1 DEF ActiveTokens, Active
  <2>2. ASSUME AtStage(t, "revoke")', req'[t].target \in ActiveAdmins'
        PROVE  \E k \in ActiveAdmins' : k # req'[t].target
    <3>1. /\ row' = row /\ req'[t].target = req[t].target
          /\ \/ req[t].target \notin ActiveAdmins
             \/ ~(Cardinality(AdminsCounted(t)) <= 1)
      BY <1>0, <2>2 DEF ReqMoves, AtStage, NoReq, Entry, ReqHolds, ReqType
    <3>2. ActiveAdmins' = ActiveAdmins
      BY <3>1 DEF ActiveAdmins, ActiveTokens, Active
    <3>3. AdminsCounted(t) \subseteq ActiveAdmins
      BY <2>0 DEF AdminsCounted, ActiveAdmins, ActiveTokens, Active, Undisturbed
    <3>4. ASSUME AdminsCounted(t) \subseteq {req[t].target}
          PROVE  Cardinality(AdminsCounted(t)) <= 1
      <4>1. AdminsCounted(t) = {} \/ AdminsCounted(t) = {req[t].target}
        BY <3>4
      <4>2. Cardinality({}) = 0
        BY FS_EmptySet
      <4>3. Cardinality({req[t].target}) = 1
        BY FS_Singleton
      <4> QED BY <4>1, <4>2, <4>3
    <3>5. PICK k \in AdminsCounted(t) : k # req[t].target
      BY <2>2, <3>1, <3>2, <3>4
    <3> QED BY <3>1, <3>2, <3>3, <3>5
  <2> QED BY <2>1, <2>2 DEF Sure
<1>10. Undisturbed' => \A u \in Handler : Sure(u)'
  <2>1. ASSUME Undisturbed', NEW u \in Handler \ {t} PROVE Sure(u)'
    <3>1. AtStage(u, "none")'
      BY <1>5, <2>1 DEF Undisturbed
    <3> QED BY <3>1 DEF Sure, AtStage
  <2> QED BY <1>9, <2>1
<1>11. Administrable'
  <2>1. SUFFICES ASSUME Undisturbed', ActiveTokens' # {} PROVE ActiveAdmins' # {}
    BY DEF Administrable
  <2>2. Undisturbed /\ Sure(t)
    BY <1>0, <1>8, <2>1
  <2>3. CASE ActiveTokens # {}
    <3>1. ActiveAdmins # {}
      BY <1>0, <2>2, <2>3 DEF Administrable
    <3> QED BY <2>2, <3>1, AdminsStay
  <2>4. CASE ActiveTokens = {}
    <3>1. PICK k \in Token : Active(k)'
      BY <2>1 DEF ActiveTokens
    <3>2. ~Active(k)
      BY <2>4 DEF ActiveTokens
    <3>3. AtStage(t, "insert") /\ row'[k].role = req[t].role
      BY <1>0, <3>1, <3>2 DEF RowMoves, Active
    <3>4. row'[k].role = "admin"
      BY <2>2, <2>4, <3>3 DEF Sure
    <3> QED BY <3>1, <3>4 DEF ActiveAdmins, ActiveTokens
  <2> QED BY <2>3, <2>4
<1> QED BY <1>3, <1>4, <1>6, <1>7, <1>10, <1>11 DEF TokensInv, TokensHold

LEMMA ExpireInv ==
  ASSUME TokensInv, NEW k \in Token, Expire(k) PROVE TokensInv' /\ ~Undisturbed'
<1>0. /\ TokensTypeOK /\ Solo /\ IssuedUnrevoked /\ row \in [Token -> RowType]
      /\ \A u \in Handler : ReqHolds(u)
      /\ req' = req /\ alone' = alone
  BY InvFacts DEF Expire
<1>1. /\ row' \in [Token -> RowType] /\ row'[k].expiry = "past"
      /\ \A j \in Token : /\ row'[j].state = row[j].state /\ row'[j].role = row[j].role
                          /\ row'[j].revoker = row[j].revoker
  BY <1>0 DEF Expire, RowType
<1>2. TokensTypeOK' /\ IssuedUnrevoked'
  BY <1>0, <1>1 DEF TokensTypeOK, RowType, IssuedUnrevoked
<1>3. ~Undisturbed'
  BY <1>1 DEF Undisturbed
<1>4. Solo' /\ \A u \in Handler : ReqHolds(u)'
  BY <1>0 DEF Solo, AtStage, ReqHolds
<1> QED BY <1>2, <1>3, <1>4 DEF TokensInv, TokensHold, Administrable

LEMMA TokenSteps ==
  ASSUME TokensNext
  PROVE  (\E t \in Handler : ThreadStep(t)) \/ (\E k \in Token : Expire(k))
  BY DEF TokensNext, ThreadStep

LEMMA TokensInvInit == TokensInit => TokensInv
<1> SUFFICES ASSUME TokensInit PROVE TokensInv
  OBVIOUS
<1>1. NoReq \in ReqType /\ NoReq.at = "none" /\ NoReq.op = "none"
  BY DEF NoReq, ReqType, Stage
<1>2. NoRow \in RowType /\ NoRow.state = "absent"
  BY DEF NoRow, RowType
<1>3. TokensTypeOK
  BY <1>1, <1>2 DEF TokensInit, TokensTypeOK, RowType, ReqType, Stage
<1>4. \A k \in Token : row[k].state = "absent"
  BY <1>2 DEF TokensInit
<1>5. \A t \in Handler : req[t].at = "none" /\ req[t].op = "none"
  BY <1>1 DEF TokensInit
<1>6. ActiveTokens = {}
  BY <1>4 DEF ActiveTokens, Active
<1> QED
  BY <1>3, <1>4, <1>5, <1>6
  DEF TokensInv, TokensHold, Administrable, Solo, AtStage, IssuedUnrevoked, ReqHolds, Sure

LEMMA TokensInvNext == TokensInv /\ [TokensNext]_tokensVars => TokensInv'
<1> SUFFICES ASSUME TokensInv, [TokensNext]_tokensVars PROVE TokensInv'
  OBVIOUS
<1>1. CASE UNCHANGED tokensVars
  BY <1>1
  DEF tokensVars, TokensInv, TokensHold, TokensTypeOK, Administrable, Undisturbed, ActiveTokens,
      ActiveAdmins, Active, Solo, AtStage, IssuedUnrevoked, ReqHolds, Sure
<1> QED BY <1>1, TokenSteps, ThreadInv, ExpireInv

\* Rows and requests keep their types, and as long as no two requests overlap
\* and no token expires, an admin token is active whenever any token is.
THEOREM TokensAlwaysHold == TokensSpec => []TokensHold
<1>1. TokensInv => TokensHold
  BY DEF TokensInv
<1> QED BY <1>1, TokensInvInit, TokensInvNext, PTL DEF TokensSpec

\* No undisturbed request takes the last active admin token away; a revocation
\* is never overwritten, and only a revoked token is deleted, whatever overlaps.
THEOREM RevocationRulesHold == TokensSpec => RevocationRules
<1> DEFINE Remains == Undisturbed /\ req' # req /\ ActiveAdmins # {} => ActiveAdmins' # {}
           Once == \A k \in Token :
                     /\ row[k].state = "issued" => row'[k].state # "absent"
                     /\ row[k].revoker # NoToken => row'[k].revoker = row[k].revoker
<1>1. TokensInv /\ [TokensNext]_tokensVars => [Remains]_tokensVars
  <2> SUFFICES ASSUME TokensInv, TokensNext PROVE Remains
    OBVIOUS
  <2>1. ASSUME NEW k \in Token, Expire(k) PROVE req' = req
    BY <2>1 DEF Expire
  <2> QED BY <2>1, TokenSteps, AdminsStay
<1>2. TokensInv /\ [TokensNext]_tokensVars => [Once]_tokensVars
  <2> SUFFICES ASSUME TokensInv, TokensNext PROVE Once
    OBVIOUS
  <2>0. row \in [Token -> RowType] /\ IssuedUnrevoked
    BY InvFacts
  <2>1. ASSUME NEW t \in Handler, ThreadStep(t) PROVE Once
    <3>1. RowMoves(t)
      BY <2>1, ThreadRow, InvFacts
    <3> QED BY <2>0, <3>1 DEF RowMoves, IssuedUnrevoked
  <2>2. ASSUME NEW k \in Token, Expire(k) PROVE Once
    BY <2>0, <2>2 DEF Expire, RowType
  <2> QED BY <2>1, <2>2, TokenSteps
<1>3. TokensSpec => []TokensInv
  BY TokensInvInit, TokensInvNext, PTL DEF TokensSpec
<1>4. TokensSpec => AdminRemains
  BY <1>1, <1>3, PTL DEF TokensSpec, AdminRemains
<1>5. TokensSpec => RevokedOnce
  BY <1>2, <1>3, PTL DEF TokensSpec, RevokedOnce
<1> QED BY <1>4, <1>5 DEF RevocationRules
=============================================================================
