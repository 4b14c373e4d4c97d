-------------------------- MODULE TenantTokensProofs --------------------------
(***************************************************************************)
(* Proofs about the tenant's tokens, for any number of users, tokens,        *)
(* tickets and requests.  Token ids are handed out in order, so a new token  *)
(* never takes the row of an old one; one exchange at a time has the row of  *)
(* a ticket, which is live until the exchange commits; and what a request    *)
(* has read of its token names the user the token was issued to.             *)
(***************************************************************************)
EXTENDS TenantTokens, FiniteSetTheorems, TLAPS

Owners == Users \union {Nobody}
TokenType == [live : BOOLEAN, scope : {"all", "empty", "register", "plugin", "mobile"}, owner : Owners,
              mintedFor : Owners, expired : BOOLEAN, revoked : BOOLEAN, from : Tickets \union {"none", "rotation"}]
TicketType == [state : {"none", "live", "used"}, kind : {"plugin", "mobile"}, user : Owners,
               expired : BOOLEAN, for : Owners]
RequestType ==
    [pc : {"idle", "stamp", "user", "update", "mark", "issue", "profile", "done"}, tok : Tokens \union {0},
     tick : Tickets \union {"none"}, owner : Owners, need : Needs \union {"viewer"}, ok : BOOLEAN,
     late : BOOLEAN, row : TokenType]

TokenTypes ==
    /\ role \in [Users -> Roles \union {"gone"}] /\ tok \in [Tokens -> TokenType]
    /\ tick \in [Tickets -> TicketType] /\ lock \in [Tickets -> Requests \union {Nobody}]
    /\ req \in [Requests -> RequestType]

\* The rows in use are the first ones, and the others are blank.
Live == {k \in Tokens : tok[k].live}
RowsInOrder ==
    /\ Live = 1..Cardinality(Live) /\ Cardinality(Live) \in Nat
    /\ \A k \in Tokens : ~tok[k].live => tok[k] = NoToken

\* The tokens issued from a ticket.
IssuedFrom(t) == {k \in Tokens : tok[k].from = t}
UsedOnce(t) == IF tick[t].state = "used" THEN \E k \in Tokens : IssuedFrom(t) = {k} ELSE IssuedFrom(t) = {}

\* A token about to be revoked by its bearer is in use.  An exchange under way has loaded a ticket that exists, and the owner it has
\* read is the user that asked for it; one that has marked the ticket has its row.
Exchange(r) ==
    /\ req[r].pc = "update" => req[r].tok \in Tokens /\ tok[req[r].tok].live
    /\ req[r].pc \in {"mark", "issue"} =>
          /\ req[r].tick \in Tickets /\ tick[req[r].tick].state # "none"
          /\ req[r].owner # Nobody => req[r].owner = tick[req[r].tick].for
    /\ req[r].pc = "issue" => lock[req[r].tick] = r
Marked(t) == lock[t] # Nobody => /\ tick[t].state = "live"
                                 /\ req[lock[t]].pc = "issue" /\ req[lock[t]].tick = t
TicketOfItsUser(t) == tick[t].user # Nobody => tick[t].user = tick[t].for

\* A request that came too late has found a session of a user that is gone, or
\* was refused.
LateRequest(r) ==
    /\ req[r].pc \in {"stamp", "user"} => /\ req[r].owner = req[r].row.owner
                                          /\ req[r].owner # Nobody => req[r].owner = req[r].row.mintedFor
    /\ req[r].pc \in {"stamp", "user"} /\ req[r].late =>
          /\ Session(req[r].row.scope) /\ req[r].row.mintedFor # Nobody
          /\ role[req[r].row.mintedFor] = "gone"
    /\ req[r].pc = "done" /\ req[r].late /\ ~NoAuth => ~req[r].ok

TokensInv ==
    /\ TokenTypes /\ RowsInOrder /\ SessionOfItsUser
    /\ \A t \in Tickets : UsedOnce(t) /\ Marked(t) /\ TicketOfItsUser(t)
    /\ \A r \in Requests : Exchange(r) /\ LateRequest(r)

-----------------------------------------------------------------------------
(* Lemmas: rows of tokens.                                                   *)

\* The next id is that of a blank row.
LEMMA NextIsBlank ==
    ASSUME TokensAssumption, TokensInv, CanIssue
    PROVE  /\ NextToken \in Tokens /\ NextToken = Cardinality(Live) + 1 /\ Cardinality(Live) \in Nat
           /\ tok[NextToken] = NoToken
<1>1. NextToken \in Tokens /\ NextToken = Cardinality(Live) + 1 BY DEF CanIssue, NextToken, Live
<1>2. Live = 1..Cardinality(Live) /\ Cardinality(Live) \in Nat BY DEF TokensInv, RowsInOrder
<1>3. NextToken \notin Live BY <1>1, <1>2
<1> QED BY <1>1, <1>2, <1>3 DEF Live, TokensInv, RowsInOrder

\* A token that is issued takes the next row.
LEMMA NewRow ==
    ASSUME TokensAssumption, TokensInv, CanIssue, tok'[NextToken].live,
           \A k \in Tokens \ {NextToken} : /\ tok'[k].live = tok[k].live
                                           /\ ~tok[k].live => tok'[k] = tok[k]
    PROVE  RowsInOrder'
<1> DEFINE n == Cardinality(Live)
<1>1. NextToken \in Tokens /\ NextToken = n + 1 /\ n \in Nat BY NextIsBlank
<1>2. Live = 1..n BY DEF TokensInv, RowsInOrder
<1>3. Live' = Live \union {n + 1} BY <1>1 DEF Live
<1>4. Live' = 1..(n + 1) BY <1>1, <1>2, <1>3
<1>5. Cardinality(1..(n + 1)) = n + 1 BY <1>1, FS_Interval
<1>6. Cardinality(Live') = n + 1 BY <1>4, <1>5
<1>7. \A k \in Tokens : ~tok'[k].live => tok'[k] = NoToken
  BY <1>1 DEF TokensInv, RowsInOrder
<1> QED BY <1>1, <1>4, <1>6, <1>7 DEF RowsInOrder

\* A change of a row in use leaves the order alone.
LEMMA SameRows ==
    ASSUME TokensInv,
           \A k \in Tokens : tok'[k].live = tok[k].live /\ (~tok[k].live => tok'[k] = tok[k])
    PROVE  RowsInOrder'
<1>1. Live' = Live BY DEF Live
<1> QED BY <1>1 DEF TokensInv, RowsInOrder

-----------------------------------------------------------------------------
(* Lemmas: steps that change only tokens, or only one request.               *)

LEMMA TokenStep ==
    ASSUME TokensInv, UNCHANGED <<role, tick, lock, req>>, tok' \in [Tokens -> TokenType],
           RowsInOrder', SessionOfItsUser', \A t \in Tickets : IssuedFrom(t)' = IssuedFrom(t),
           \A k \in Tokens : tok[k].live => tok'[k].live
    PROVE  TokensInv'
<1>1. TokenTypes' BY DEF TokensInv, TokenTypes
<1>2. ASSUME NEW t \in Tickets PROVE UsedOnce(t)' /\ Marked(t)' /\ TicketOfItsUser(t)'
  <2>1. UsedOnce(t)' BY DEF TokensInv, UsedOnce
  <2> QED BY <2>1 DEF TokensInv, Marked, TicketOfItsUser
<1>3. ASSUME NEW r \in Requests PROVE Exchange(r)' /\ LateRequest(r)'
  BY DEF TokensInv, Exchange, LateRequest
<1> QED BY <1>1, <1>2, <1>3 DEF TokensInv

LEMMA RequestStep ==
    ASSUME TokensAssumption, TokensInv, UNCHANGED <<role, tok, tick, lock>>,
           NEW r \in Requests, NEW v \in RequestType, req' = [req EXCEPT ![r] = v],
           req[r].pc # "issue", Exchange(r)', LateRequest(r)'
    PROVE  TokensInv'
<1>1. TokenTypes' BY DEF TokensInv, TokenTypes
<1>2. RowsInOrder' /\ SessionOfItsUser' BY DEF TokensInv, RowsInOrder, Live, SessionOfItsUser
<1>3. \A q \in Requests : q # r => req'[q] = req[q] BY DEF TokensInv, TokenTypes
<1>4. ASSUME NEW t \in Tickets PROVE UsedOnce(t)' /\ Marked(t)' /\ TicketOfItsUser(t)'
  <2>1. UsedOnce(t)' BY DEF TokensInv, UsedOnce, IssuedFrom
  <2>2. Marked(t)'
    <3>1. lock[t] # Nobody => lock[t] \in Requests BY DEF TokensInv, TokenTypes
    <3>2. lock[t] # r BY DEF TokensInv, Marked, TokensAssumption
    <3> QED BY <1>3, <3>1, <3>2 DEF TokensInv, Marked
  <2> QED BY <2>1, <2>2 DEF TokensInv, TicketOfItsUser
<1>5. ASSUME NEW q \in Requests, q # r PROVE Exchange(q)' /\ LateRequest(q)'
  BY <1>3, <1>5 DEF TokensInv, Exchange, LateRequest
<1> QED BY <1>1, <1>2, <1>4, <1>5 DEF TokensInv

LEMMA IdleTyped == ASSUME TokensAssumption PROVE NoToken \in TokenType /\ Idle \in RequestType /\ NoTicket \in TicketType
BY DEF NoToken, TokenType, Idle, RequestType, NoTicket, TicketType, Owners

-----------------------------------------------------------------------------
(* The inductive invariant.                                                  *)

LEMMA TokensInit == ASSUME TokensAssumption, TokenInit PROVE TokensInv
<1>1. TokenTypes
  BY IdleTyped DEF TokenInit, TokenTypes, Roles
<1>2. RowsInOrder
  <2>1. Live = {} BY DEF TokenInit, Live, NoToken
  <2>2. Cardinality(Live) = 0 BY <2>1, FS_EmptySet
  <2> QED BY <2>1, <2>2 DEF TokenInit, RowsInOrder
<1>3. \A t \in Tickets : UsedOnce(t) /\ Marked(t) /\ TicketOfItsUser(t)
  BY DEF TokenInit, UsedOnce, IssuedFrom, NoToken, NoTicket, Marked, TicketOfItsUser, TokensAssumption
<1>4. \A r \in Requests : Exchange(r) /\ LateRequest(r) BY DEF TokenInit, Exchange, LateRequest, Idle
<1> QED BY <1>1, <1>2, <1>3, <1>4 DEF TokenInit, TokensInv, SessionOfItsUser, NoToken

\* A change of a role or the removal of a user: nobody comes back.
LEMMA UserKeeps ==
    ASSUME TokensAssumption, TokensInv, NEW u \in Users,
           RemoveUser(u) \/ \E ro \in Roles : ChangeRole(u, ro)
    PROVE  TokensInv'
<1>1. /\ role' \in [Users -> Roles \union {"gone"}]
      /\ \A v \in Users : role[v] = "gone" => role'[v] = "gone"
  BY DEF RemoveUser, ChangeRole, TokensInv, TokenTypes
<1>2. UNCHANGED <<lock, req>> BY DEF RemoveUser, ChangeRole
<1>3. ASSUME NEW k \in Tokens
      PROVE  /\ tok'[k] \in TokenType /\ tok'[k].live = tok[k].live /\ tok'[k].from = tok[k].from
             /\ tok'[k].mintedFor = tok[k].mintedFor /\ tok'[k].owner \in {Nobody, tok[k].owner}
             /\ tok[k] = NoToken => tok'[k] = tok[k]
  <2>1. tok[k] \in TokenType BY DEF TokensInv, TokenTypes
  <2>2. tok'[k] = tok[k] \/ (tok[k].owner = u /\ tok'[k] = [tok[k] EXCEPT !.owner = Nobody])
    BY DEF RemoveUser, ChangeRole
  <2>3. NoToken.owner # u BY DEF NoToken, TokensAssumption
  <2> QED BY <2>1, <2>2, <2>3 DEF TokenType, Owners
<1>4. ASSUME NEW t \in Tickets
      PROVE  /\ tick'[t] \in TicketType /\ tick'[t].state = tick[t].state /\ tick'[t].for = tick[t].for
             /\ tick'[t].user \in {Nobody, tick[t].user}
  <2>1. tick[t] \in TicketType BY DEF TokensInv, TokenTypes
  <2>2. tick'[t] = tick[t] \/ tick'[t] = [tick[t] EXCEPT !.user = Nobody]
    BY DEF RemoveUser, ChangeRole
  <2> QED BY <2>1, <2>2 DEF TicketType, Owners
<1>5. DOMAIN tok' = Tokens /\ DOMAIN tick' = Tickets /\ tok' = [k \in Tokens |-> tok'[k]] /\ tick' = [t \in Tickets |-> tick'[t]]
  BY DEF RemoveUser, ChangeRole, TokensInv, TokenTypes
<1>6. TokenTypes' BY <1>1, <1>2, <1>3, <1>4, <1>5 DEF TokensInv, TokenTypes
<1>7. RowsInOrder'
  <2>1. \A k \in Tokens : tok'[k].live = tok[k].live /\ (~tok[k].live => tok'[k] = tok[k])
    BY <1>3 DEF TokensInv, RowsInOrder
  <2> QED BY <2>1, SameRows
<1>8. SessionOfItsUser' BY <1>3 DEF TokensInv, SessionOfItsUser
<1>9. ASSUME NEW t \in Tickets PROVE UsedOnce(t)' /\ Marked(t)' /\ TicketOfItsUser(t)'
  <2>1. IssuedFrom(t)' = IssuedFrom(t) BY <1>3 DEF IssuedFrom
  <2>2. UsedOnce(t)' BY <1>4, <2>1 DEF TokensInv, UsedOnce
  <2> QED BY <1>2, <1>4, <2>2 DEF TokensInv, Marked, TicketOfItsUser
<1>10. ASSUME NEW r \in Requests PROVE Exchange(r)' /\ LateRequest(r)'
  <2>1. Exchange(r)' BY <1>2, <1>3, <1>4 DEF TokensInv, Exchange
  <2>2. req[r].row.mintedFor \in Users \union {Nobody}
    BY DEF TokensInv, TokenTypes, RequestType, TokenType, Owners
  <2>3. LateRequest(r)' BY <1>1, <1>2, <2>2 DEF TokensInv, LateRequest
  <2> QED BY <2>1, <2>3
<1> QED BY <1>6, <1>7, <1>8, <1>9, <1>10 DEF TokensInv
\* A token that is issued by hand: its row was blank and it comes from no ticket.
LEMMA CreateKeeps ==
    ASSUME TokensAssumption, TokensInv, UNCHANGED <<role, tick, lock, req>>, CanIssue,
           NEW v \in TokenType, v.live, v.from = "none", v.owner = v.mintedFor,
           tok' = [tok EXCEPT ![NextToken] = v]
    PROVE  TokensInv'
<1>1. NextToken \in Tokens /\ tok[NextToken] = NoToken BY NextIsBlank
<1>2. tok' \in [Tokens -> TokenType] BY <1>1 DEF TokensInv, TokenTypes
<1>3. tok'[NextToken] = v /\ \A k \in Tokens \ {NextToken} : tok'[k] = tok[k]
  BY <1>1 DEF TokensInv, TokenTypes
<1>4. RowsInOrder' BY <1>3, NewRow
<1>5. SessionOfItsUser' BY <1>3 DEF TokensInv, SessionOfItsUser
<1>6. ASSUME NEW t \in Tickets PROVE IssuedFrom(t)' = IssuedFrom(t)
  <2>1. t # "none" BY DEF TokensAssumption
  <2>2. tok[NextToken].from = "none" BY <1>1 DEF NoToken
  <2>3. \A k \in Tokens : tok'[k].from = tok[k].from BY <1>3, <2>2
  <2> QED BY <2>3 DEF IssuedFrom
<1>7. \A k \in Tokens : tok[k].live => tok'[k].live BY <1>3
<1> QED BY <1>2, <1>4, <1>5, <1>6, <1>7, TokenStep

LEMMA CreateTokenKeeps ==
    ASSUME TokensAssumption, TokensInv,
           CreateNoAuthSession \/ \E u \in Owners, s \in Scopes : CreateToken(u, s)
    PROVE  TokensInv'
<1>1. CASE CreateNoAuthSession
  <2> DEFINE v == [NoToken EXCEPT !.live = TRUE, !.scope = "plugin"]
  <2>1. v \in TokenType /\ v.live /\ v.from = "none" /\ v.owner = v.mintedFor
    BY DEF NoToken, TokenType, Owners
  <2>2. CanIssue /\ tok' = [tok EXCEPT ![NextToken] = v] /\ UNCHANGED <<role, tick, lock, req>>
    BY <1>1 DEF CreateNoAuthSession
  <2> HIDE DEF v
  <2> QED BY <2>1, <2>2, CreateKeeps
<1>2. ASSUME NEW u \in Owners, NEW s \in Scopes, CreateToken(u, s) PROVE TokensInv'
  <2> DEFINE v == [NoToken EXCEPT !.live = TRUE, !.scope = s, !.owner = u, !.mintedFor = u]
  <2>1. v \in TokenType /\ v.live /\ v.from = "none" /\ v.owner = v.mintedFor
    BY DEF NoToken, TokenType, Owners, TokensAssumption
  <2>2. CanIssue /\ tok' = [tok EXCEPT ![NextToken] = v] /\ UNCHANGED <<role, tick, lock, req>>
    BY <1>2 DEF CreateToken
  <2> HIDE DEF v
  <2> QED BY <2>1, <2>2, CreateKeeps
<1> QED BY <1>1, <1>2

\* A row in use is revoked or expires.
LEMMA RowKeeps ==
    ASSUME TokensAssumption, TokensInv, NEW k \in Tokens, Revoke(k) \/ TokenExpires(k)
    PROVE  TokensInv'
<1>1. tok[k] \in TokenType /\ tok[k].live
  BY DEF Revoke, TokenExpires, TokensInv, TokenTypes
<1>2. PICK v \in {[tok[k] EXCEPT !.revoked = TRUE], [tok[k] EXCEPT !.expired = TRUE]} :
         tok' = [tok EXCEPT ![k] = v]
  BY DEF Revoke, TokenExpires
<1>3. /\ v \in TokenType /\ v.live = tok[k].live /\ v.from = tok[k].from
      /\ v.owner = tok[k].owner /\ v.mintedFor = tok[k].mintedFor
  BY <1>1, <1>2 DEF TokenType
<1>4. tok' \in [Tokens -> TokenType] BY <1>2, <1>3 DEF TokensInv, TokenTypes
<1>5. tok'[k] = v /\ \A j \in Tokens \ {k} : tok'[j] = tok[j] BY <1>2 DEF TokensInv, TokenTypes
<1>6. RowsInOrder' BY <1>1, <1>3, <1>5, SameRows
<1>7. SessionOfItsUser' BY <1>3, <1>5 DEF TokensInv, SessionOfItsUser
<1>8. \A t \in Tickets : IssuedFrom(t)' = IssuedFrom(t) BY <1>3, <1>5 DEF IssuedFrom
<1>9. UNCHANGED <<role, tick, lock, req>> BY DEF Revoke, TokenExpires
<1>10. \A j \in Tokens : tok[j].live => tok'[j].live BY <1>3, <1>5
<1> QED BY <1>4, <1>6, <1>7, <1>8, <1>9, <1>10, TokenStep

\* The rows after a rotation: the old one is revoked, the new one was blank.
LEMMA RotatedRows ==
    ASSUME TokensAssumption, TokensInv, NEW k \in Tokens, Rotate(k)
    PROVE  /\ NextToken \in Tokens /\ NextToken # k /\ tok[NextToken] = NoToken
           /\ tok'[k] = [tok[k] EXCEPT !.revoked = TRUE]
           /\ tok'[NextToken] = [tok[k] EXCEPT !.expired = FALSE, !.revoked = FALSE, !.from = "rotation"]
           /\ \A j \in Tokens \ {k, NextToken} : tok'[j] = tok[j]
           /\ DOMAIN tok' = Tokens /\ tok' = [j \in Tokens |-> tok'[j]]
<1>1. CanIssue /\ tok[k].live BY DEF Rotate
<1>2. NextToken \in Tokens /\ tok[NextToken] = NoToken BY <1>1, NextIsBlank
<1>3. NextToken # k BY <1>1, <1>2 DEF NoToken
<1> HIDE DEF NextToken
<1> QED BY <1>2, <1>3 DEF Rotate, TokensInv, TokenTypes

LEMMA RotateKeeps ==
    ASSUME TokensAssumption, TokensInv, NEW k \in Tokens, Rotate(k)
    PROVE  TokensInv'
<1>1. /\ NextToken \in Tokens /\ NextToken # k /\ tok[NextToken] = NoToken
      /\ tok'[k] = [tok[k] EXCEPT !.revoked = TRUE]
      /\ tok'[NextToken] = [tok[k] EXCEPT !.expired = FALSE, !.revoked = FALSE, !.from = "rotation"]
      /\ \A j \in Tokens \ {k, NextToken} : tok'[j] = tok[j]
      /\ DOMAIN tok' = Tokens /\ tok' = [j \in Tokens |-> tok'[j]]
  BY RotatedRows
<1>2. CanIssue /\ tok[k].live /\ UNCHANGED <<role, tick, lock, req>> BY DEF Rotate
<1>3. tok[k] \in TokenType BY DEF TokensInv, TokenTypes
<1>4. /\ tok'[k] \in TokenType /\ tok'[k].live = tok[k].live /\ tok'[k].from = tok[k].from
      /\ tok'[k].owner = tok[k].owner /\ tok'[k].mintedFor = tok[k].mintedFor
  BY <1>1, <1>3 DEF TokenType
<1>5. /\ tok'[NextToken] \in TokenType /\ tok'[NextToken].live = tok[k].live
      /\ tok'[NextToken].from = "rotation"
      /\ tok'[NextToken].owner = tok[k].owner /\ tok'[NextToken].mintedFor = tok[k].mintedFor
  BY <1>1, <1>3 DEF TokenType
<1>6. tok' \in [Tokens -> TokenType] BY <1>1, <1>4, <1>5 DEF TokensInv, TokenTypes
<1>7. RowsInOrder'
  <2>1. tok'[NextToken].live BY <1>2, <1>5
  <2>2. \A j \in Tokens \ {NextToken} : tok'[j].live = tok[j].live /\ (~tok[j].live => tok'[j] = tok[j])
    BY <1>1, <1>2, <1>4
  <2> QED BY <1>2, <2>1, <2>2, NewRow
<1>8. SessionOfItsUser'
  <2>1. \A j \in Tokens : tok[j].owner # Nobody => tok[j].owner = tok[j].mintedFor
    BY DEF TokensInv, SessionOfItsUser
  <2>2. ASSUME NEW j \in Tokens PROVE tok'[j].owner # Nobody => tok'[j].owner = tok'[j].mintedFor
    <3>1. CASE j = k BY <1>4, <2>1, <3>1
    <3>2. CASE j = NextToken BY <1>5, <2>1, <3>2
    <3>3. CASE j # k /\ j # NextToken BY <1>1, <2>1, <3>3
    <3> QED BY <3>1, <3>2, <3>3
  <2> QED BY <2>2 DEF SessionOfItsUser
<1>9. ASSUME NEW t \in Tickets PROVE IssuedFrom(t)' = IssuedFrom(t)
  <2>1. t # "none" /\ t # "rotation" BY DEF TokensAssumption
  <2>2. tok[NextToken].from = "none" BY <1>1 DEF NoToken
  <2>3. \A j \in Tokens : tok'[j].from = t <=> tok[j].from = t BY <1>1, <1>4, <1>5, <2>1, <2>2
  <2> QED BY <2>3 DEF IssuedFrom
<1>10. \A j \in Tokens : tok[j].live => tok'[j].live
  <2>1. \A j \in Tokens : j \in {k, NextToken} \/ tok'[j] = tok[j] BY <1>1
  <2> QED BY <1>2, <1>4, <1>5, <2>1
<1> QED BY <1>2, <1>6, <1>7, <1>8, <1>9, <1>10, TokenStep

\* A ticket is created or expires.
LEMMA TicketKeeps ==
    ASSUME TokensAssumption, TokensInv, NEW t \in Tickets,
           TicketExpires(t) \/ \E u \in Owners, kind \in {"plugin", "mobile"} : CreateTicket(t, kind, u)
    PROVE  TokensInv'
<1>1. UNCHANGED <<role, tok, lock, req>> BY DEF TicketExpires, CreateTicket
<1>2. tick[t] \in TicketType /\ DOMAIN tick = Tickets BY DEF TokensInv, TokenTypes
<1>3. PICK v \in TicketType :
         /\ tick' = [tick EXCEPT ![t] = v] /\ v.state = "live" /\ tick[t].state # "used"
         /\ \/ v.user = tick[t].user /\ v.for = tick[t].for /\ tick[t].state = "live"
            \/ v.user = v.for /\ tick[t].state = "none"
  <2>1. CASE TicketExpires(t)
    <3> DEFINE v == [tick[t] EXCEPT !.expired = TRUE]
    <3>1. v \in TicketType BY <1>2 DEF TicketType
    <3>2. /\ tick' = [tick EXCEPT ![t] = v] /\ v.state = "live" /\ tick[t].state = "live"
          /\ v.user = tick[t].user /\ v.for = tick[t].for
      BY <1>2, <2>1 DEF TicketExpires, TicketType
    <3> QED BY <3>1, <3>2
  <2>2. ASSUME NEW u \in Owners, NEW kind \in {"plugin", "mobile"}, CreateTicket(t, kind, u)
        PROVE  \E v \in TicketType :
                  /\ tick' = [tick EXCEPT ![t] = v] /\ v.state = "live" /\ tick[t].state # "used"
                  /\ v.user = v.for /\ tick[t].state = "none"
    <3> DEFINE v == [NoTicket EXCEPT !.state = "live", !.kind = kind, !.user = u, !.for = u]
    <3>1. v \in TicketType /\ v.state = "live" /\ v.user = v.for
      BY DEF NoTicket, TicketType, Owners
    <3>2. tick' = [tick EXCEPT ![t] = v] /\ tick[t].state = "none" BY <2>2 DEF CreateTicket
    <3> QED BY <3>1, <3>2
  <2> QED BY <2>1, <2>2
<1>4. tick'[t] = v /\ \A q \in Tickets \ {t} : tick'[q] = tick[q] BY <1>2, <1>3
<1>5. TokenTypes' BY <1>1, <1>3 DEF TokensInv, TokenTypes
<1>6. RowsInOrder' /\ SessionOfItsUser' BY <1>1 DEF TokensInv, RowsInOrder, Live, SessionOfItsUser
<1>7. ASSUME NEW q \in Tickets PROVE UsedOnce(q)' /\ Marked(q)' /\ TicketOfItsUser(q)'
  <2>1. IssuedFrom(q)' = IssuedFrom(q) BY <1>1 DEF IssuedFrom
  <2>2. UsedOnce(q)' BY <1>3, <1>4, <2>1 DEF TokensInv, UsedOnce
  <2>3. Marked(q)' BY <1>1, <1>3, <1>4 DEF TokensInv, Marked
  <2>4. TicketOfItsUser(q)' BY <1>3, <1>4 DEF TokensInv, TicketOfItsUser
  <2> QED BY <2>2, <2>3, <2>4
<1>8. ASSUME NEW r \in Requests PROVE Exchange(r)' /\ LateRequest(r)'
  <2>1. Exchange(r)'
    <3>1. Exchange(r) BY DEF TokensInv
    <3>2. ASSUME req[r].pc \in {"mark", "issue"}
          PROVE  /\ tick'[req[r].tick].state # "none"
                 /\ req[r].owner # Nobody => req[r].owner = tick'[req[r].tick].for
      BY <1>3, <1>4, <3>1, <3>2 DEF Exchange
    <3> QED BY <1>1, <3>1, <3>2 DEF Exchange
  <2> QED BY <1>1, <2>1 DEF TokensInv, LateRequest
<1> QED BY <1>5, <1>6, <1>7, <1>8 DEF TokensInv

\* A request that ends, or one that begins to revoke a token or to exchange a ticket.
LEMMA SimpleRequestKeeps ==
    ASSUME TokensAssumption, TokensInv, NEW r \in Requests,
           \/ Answer(r) \/ Profile(r) \/ \E k \in Tokens : BeginSelfRevoke(r, k)
           \/ \E t \in Tickets, m \in BOOLEAN : LoadTicket(r, t, m)
    PROVE  TokensInv'
<1>1. UNCHANGED <<role, tok, tick, lock>> /\ req[r].pc # "issue"
  BY DEF Answer, Profile, BeginSelfRevoke, LoadTicket
<1>2. DOMAIN req = Requests BY DEF TokensInv, TokenTypes
<1>3. CASE Answer(r) \/ Profile(r)
  <2>1. req' = [req EXCEPT ![r] = Idle] BY <1>3 DEF Answer, Profile
  <2>2. req'[r] = Idle BY <1>2, <2>1
  <2>3. Exchange(r)' /\ LateRequest(r)' BY <2>2 DEF Exchange, LateRequest, Idle
  <2> QED BY <1>1, <2>1, <2>3, IdleTyped, RequestStep
<1>4. ASSUME NEW k \in Tokens, BeginSelfRevoke(r, k) PROVE TokensInv'
  <2> DEFINE v == [Idle EXCEPT !.pc = "update", !.tok = k]
  <2>1. v \in RequestType /\ v.pc = "update" /\ v.tok = k
    BY IdleTyped DEF Idle, RequestType, Owners
  <2>2. req' = [req EXCEPT ![r] = v] /\ tok[k].live BY <1>4 DEF BeginSelfRevoke
  <2> HIDE DEF v
  <2>3. req'[r] = v BY <1>2, <2>2
  <2>4. Exchange(r)' /\ LateRequest(r)' BY <1>1, <2>1, <2>2, <2>3 DEF Exchange, LateRequest
  <2> QED BY <1>1, <2>1, <2>2, <2>4, RequestStep
<1>5. ASSUME NEW t \in Tickets, NEW m \in BOOLEAN, LoadTicket(r, t, m) PROVE TokensInv'
  <2> DEFINE v == [Idle EXCEPT !.pc = "mark", !.tick = t, !.owner = tick[t].user]
  <2>1. tick[t].user \in Owners BY DEF TokensInv, TokenTypes, TicketType
  <2>2. v \in RequestType /\ v.pc = "mark" /\ v.tick = t /\ v.owner = tick[t].user
    BY <2>1, IdleTyped DEF Idle, RequestType, Owners
  <2>3. req' = [req EXCEPT ![r] = v] /\ tick[t].state = "live" BY <1>5 DEF LoadTicket
  <2> HIDE DEF v
  <2>4. req'[r] = v BY <1>2, <2>3
  <2>5. Exchange(r)' /\ LateRequest(r)'
    BY <1>1, <2>2, <2>3, <2>4 DEF TokensInv, TicketOfItsUser, Exchange, LateRequest
  <2> QED BY <1>1, <2>2, <2>3, <2>5, RequestStep
<1> QED BY <1>3, <1>4, <1>5

\* authenticate_tenant_token: what is found is a live token, what comes too late is a session.
LEMMA FindTokenKeeps ==
    ASSUME TokensAssumption, TokensInv, NEW r \in Requests, NEW k \in Tokens, NEW need \in Needs,
           FindToken(r, k, need)
    PROVE  TokensInv'
<1> DEFINE v == [Idle EXCEPT !.pc = "stamp", !.tok = k, !.need = need, !.late = TooLate(k),
                             !.owner = tok[k].owner, !.row = tok[k]]
<1>1. tok[k] \in TokenType /\ tok[k].owner \in Owners BY DEF TokensInv, TokenTypes, TokenType
<1>2. TooLate(k) \in BOOLEAN BY DEF TooLate
<1>3. /\ v \in RequestType /\ v.pc = "stamp" /\ v.late = TooLate(k) /\ v.owner = tok[k].owner
      /\ v.row = tok[k]
  BY <1>1, <1>2, IdleTyped DEF Idle, RequestType
<1>4. req' = [req EXCEPT ![r] = v] /\ ~tok[k].revoked /\ req[r].pc # "issue"
      /\ UNCHANGED <<role, tok, tick, lock>>
  BY DEF FindToken
<1> HIDE DEF v
<1>5. req'[r] = v BY <1>4 DEF TokensInv, TokenTypes
<1>6. Exchange(r)' BY <1>3, <1>5 DEF Exchange
<1>7. LateRequest(r)'
  BY <1>3, <1>4, <1>5 DEF TokensInv, SessionOfItsUser, LateRequest, TooLate
<1> QED BY <1>3, <1>4, <1>6, <1>7, RequestStep

LEMMA StampKeeps == ASSUME TokensAssumption, TokensInv, NEW r \in Requests, Stamp(r) PROVE TokensInv'
<1> DEFINE v == [req[r] EXCEPT !.pc = "user"]
<1>1. req[r] \in RequestType /\ DOMAIN req = Requests BY DEF TokensInv, TokenTypes
<1>2. /\ v \in RequestType /\ v.pc = "user" /\ v.late = req[r].late /\ v.owner = req[r].owner
      /\ v.row = req[r].row
  BY <1>1 DEF RequestType
<1>3. req' = [req EXCEPT ![r] = v] /\ req[r].pc = "stamp" /\ UNCHANGED <<role, tok, tick, lock>>
  BY DEF Stamp
<1> HIDE DEF v
<1>4. req'[r] = v BY <1>1, <1>3
<1>5. Exchange(r)' BY <1>2, <1>4 DEF Exchange
<1>6. LateRequest(r)' BY <1>2, <1>3, <1>4 DEF TokensInv, LateRequest
<1> QED BY <1>2, <1>3, <1>5, <1>6, RequestStep

\* A session of nobody, or of a user that is gone, is allowed nothing.
LEMMA AuthorizeKeeps == ASSUME TokensAssumption, TokensInv, NEW r \in Requests, Authorize(r) PROVE TokensInv'
<1> DEFINE scope == req[r].row.scope  u == req[r].owner
           known == /\ scope = "mobile" => u # Nobody
                    /\ Session(scope) /\ u # Nobody => role[u] # "gone"
           ok == known /\ Allowed(scope, u, req[r].need)
           v == [req[r] EXCEPT !.pc = "done", !.ok = ok]
<1>1. req[r] \in RequestType /\ DOMAIN req = Requests BY DEF TokensInv, TokenTypes
<1>2. ok \in BOOLEAN BY DEF Allowed, RoleAllows
<1>3. req' = [req EXCEPT ![r] = v] /\ req[r].pc = "user" /\ UNCHANGED <<role, tok, tick, lock>>
  BY DEF Authorize
<1>4. ASSUME req[r].late, ~NoAuth PROVE ~ok
  <2>1. Session(scope) /\ (u # Nobody => role[u] = "gone")
    BY <1>3, <1>4 DEF TokensInv, LateRequest
  <2>2. CASE u # Nobody BY <2>1, <2>2
  <2>3. CASE u = Nobody
    <3>1. \A n : ~RoleAllows(u, n) BY <2>3 DEF RoleAllows
    <3>2. scope \in {"plugin", "mobile"} BY <2>1 DEF Session
    <3>3. ~Allowed(scope, u, req[r].need) BY <1>4, <3>1, <3>2 DEF Allowed
    <3> QED BY <3>3
  <2> QED BY <2>2, <2>3
<1> HIDE DEF ok
<1>5. v \in RequestType /\ v.pc = "done" /\ v.late = req[r].late /\ v.ok = ok
  BY <1>1, <1>2 DEF RequestType
<1> HIDE DEF v
<1>6. req'[r] = v BY <1>1, <1>3
<1>7. Exchange(r)' BY <1>5, <1>6 DEF Exchange
<1>8. LateRequest(r)' BY <1>4, <1>5, <1>6 DEF LateRequest
<1> QED BY <1>3, <1>5, <1>7, <1>8, RequestStep

\* revoke_plugin_studio_token_with_audit: the row that was found is in use or blank, and keeps its user.
LEMMA SelfRevokeKeeps == ASSUME TokensAssumption, TokensInv, NEW r \in Requests, SelfRevoke(r) PROVE TokensInv'
<1> DEFINE k == req[r].tok  v == [tok[k] EXCEPT !.revoked = TRUE]
<1>1. k \in Tokens /\ tok[k] \in TokenType /\ tok[k].live
  BY DEF SelfRevoke, TokensInv, TokenTypes, Exchange
<1>2. /\ v \in TokenType /\ v.live = tok[k].live /\ v.from = tok[k].from
      /\ v.owner = tok[k].owner /\ v.mintedFor = tok[k].mintedFor
  BY <1>1 DEF TokenType
<1>3. tok' = [tok EXCEPT ![k] = v] /\ req' = [req EXCEPT ![r] = Idle] /\ req[r].pc = "update"
      /\ UNCHANGED <<role, tick, lock>>
  BY DEF SelfRevoke
<1> HIDE DEF k, v
<1>4. tok'[k] = v /\ \A j \in Tokens \ {k} : tok'[j] = tok[j] BY <1>1, <1>3 DEF TokensInv, TokenTypes
<1>5. req'[r] = Idle /\ \A q \in Requests \ {r} : req'[q] = req[q] BY <1>3 DEF TokensInv, TokenTypes
<1>6. TokenTypes' BY <1>1, <1>2, <1>3, IdleTyped DEF TokensInv, TokenTypes
<1>7. RowsInOrder' BY <1>1, <1>2, <1>4, SameRows
<1>8. SessionOfItsUser' BY <1>2, <1>4 DEF TokensInv, SessionOfItsUser
<1>9. ASSUME NEW t \in Tickets PROVE UsedOnce(t)' /\ Marked(t)' /\ TicketOfItsUser(t)'
  <2>1. IssuedFrom(t)' = IssuedFrom(t) BY <1>2, <1>4 DEF IssuedFrom
  <2>2. UsedOnce(t)' BY <1>3, <2>1 DEF TokensInv, UsedOnce
  <2>3. lock[t] # Nobody => lock[t] \in Requests \ {r} BY <1>3 DEF TokensInv, TokenTypes, Marked
  <2>4. Marked(t)' BY <1>3, <1>5, <2>3 DEF TokensInv, Marked
  <2> QED BY <1>3, <2>2, <2>4 DEF TokensInv, TicketOfItsUser
<1>10. ASSUME NEW q \in Requests PROVE Exchange(q)' /\ LateRequest(q)'
  <2>1. CASE q = r BY <1>5, <2>1 DEF Exchange, LateRequest, Idle
  <2>2. CASE q # r
    <3>1. \A j \in Tokens : tok[j].live => tok'[j].live BY <1>2, <1>4
    <3> QED BY <1>3, <1>5, <2>2, <3>1 DEF TokensInv, Exchange, LateRequest
  <2> QED BY <2>1, <2>2
<1> QED BY <1>6, <1>7, <1>8, <1>9, <1>10 DEF TokensInv

\* The conditional update takes the row of a ticket that nobody has and nobody has used.
LEMMA MarkUsedKeeps == ASSUME TokensAssumption, TokensInv, NEW r \in Requests, MarkUsed(r) PROVE TokensInv'
<1> DEFINE t == req[r].tick
<1>1. /\ req[r].pc = "mark" /\ t \in Tickets /\ lock[t] = Nobody /\ UNCHANGED <<role, tok, tick>>
      /\ req[r] \in RequestType /\ DOMAIN req = Requests /\ DOMAIN lock = Tickets
  BY DEF MarkUsed, TokensInv, TokenTypes, Exchange
<1>2. CASE tick[t].state # "live"
  <2>1. req' = [req EXCEPT ![r] = Idle] /\ UNCHANGED lock BY <1>2 DEF MarkUsed
  <2>2. req'[r] = Idle BY <1>1, <2>1
  <2>3. Exchange(r)' /\ LateRequest(r)' BY <2>2 DEF Exchange, LateRequest, Idle
  <2> QED BY <1>1, <2>1, <2>3, IdleTyped, RequestStep
<1>3. CASE tick[t].state = "live"
  <2> DEFINE v == [req[r] EXCEPT !.pc = "issue"]
  <2>1. lock' = [lock EXCEPT ![t] = r] /\ req' = [req EXCEPT ![r] = v] BY <1>3 DEF MarkUsed
  <2>2. /\ v \in RequestType /\ v.pc = "issue" /\ v.tick = t /\ v.owner = req[r].owner
        /\ v.late = req[r].late
    BY <1>1 DEF RequestType
  <2> HIDE DEF v
  <2>3. req'[r] = v /\ \A q \in Requests \ {r} : req'[q] = req[q] BY <1>1, <2>1
  <2>4. lock'[t] = r /\ \A s \in Tickets \ {t} : lock'[s] = lock[s] BY <1>1, <2>1
  <2>5. TokenTypes' BY <1>1, <2>1, <2>2 DEF TokensInv, TokenTypes
  <2>6. RowsInOrder' /\ SessionOfItsUser' BY <1>1 DEF TokensInv, RowsInOrder, Live, SessionOfItsUser
  <2>7. ASSUME NEW s \in Tickets PROVE UsedOnce(s)' /\ Marked(s)' /\ TicketOfItsUser(s)'
    <3>1. UsedOnce(s)' BY <1>1 DEF TokensInv, UsedOnce, IssuedFrom
    <3>2. CASE s = t BY <1>1, <1>3, <2>2, <2>3, <2>4, <3>1, <3>2 DEF TokensInv, Marked, TicketOfItsUser
    <3>3. CASE s # t
      <4>1. lock[s] # Nobody => lock[s] \in Requests \ {r} BY <1>1 DEF TokensInv, TokenTypes, Marked
      <4>2. Marked(s)' BY <1>1, <2>3, <2>4, <3>3, <4>1 DEF TokensInv, Marked
      <4> QED BY <1>1, <3>1, <4>2 DEF TokensInv, TicketOfItsUser
    <3> QED BY <3>2, <3>3
  <2>8. ASSUME NEW q \in Requests PROVE Exchange(q)' /\ LateRequest(q)'
    <3>1. CASE q = r BY <1>1, <2>2, <2>3, <2>4, <3>1 DEF TokensInv, Exchange, LateRequest
    <3>2. CASE q # r
      <4>1. Exchange(q) /\ LateRequest(q) /\ req'[q] = req[q] BY <2>3, <3>2 DEF TokensInv
      <4>2. req[q].pc = "issue" => req[q].tick # t
        BY <1>1, <4>1 DEF Exchange, TokensAssumption
      <4>3. Exchange(q)' BY <1>1, <2>4, <4>1, <4>2 DEF Exchange
      <4> QED BY <1>1, <4>1, <4>3 DEF LateRequest
    <3> QED BY <3>1, <3>2
  <2> QED BY <2>5, <2>6, <2>7, <2>8 DEF TokensInv
<1> QED BY <1>2, <1>3

\* The exchange commits: the token that is issued is the first and only one of its ticket.
LEMMA IssueTokenKeeps == ASSUME TokensAssumption, TokensInv, NEW r \in Requests, IssueToken(r) PROVE TokensInv'
<1> DEFINE t == req[r].tick  n == NextToken
<1>1. /\ req[r].pc = "issue" /\ t \in Tickets /\ lock[t] = r /\ r # Nobody /\ tick[t].state = "live"
      /\ (req[r].owner # Nobody => req[r].owner = tick[t].for)
  BY DEF IssueToken, TokensInv, Exchange, Marked, TokensAssumption
<1>2. /\ req[r] \in RequestType /\ tick[t] \in TicketType
      /\ DOMAIN req = Requests /\ DOMAIN lock = Tickets /\ DOMAIN tick = Tickets /\ DOMAIN tok = Tokens
  BY <1>1 DEF TokensInv, TokenTypes
<1>3. CanIssue /\ lock' = [lock EXCEPT ![t] = Nobody] /\ UNCHANGED role BY DEF IssueToken
<1>4. lock'[t] = Nobody /\ \A s \in Tickets \ {t} : lock'[s] = lock[s] BY <1>1, <1>2, <1>3
<1>5. PICK w \in RequestType : /\ req' = [req EXCEPT ![r] = w] /\ w.pc \in {"idle", "profile"}
  <2>1. CASE UserExists(req[r].owner)
    <3> DEFINE p == IF tick[t].kind = "plugin" THEN "profile" ELSE "idle"
               w == [req[r] EXCEPT !.pc = p]
    <3>1. w \in RequestType /\ w.pc \in {"idle", "profile"} BY <1>2 DEF RequestType
    <3>2. req' = [req EXCEPT ![r] = w] BY <2>1 DEF IssueToken
    <3> QED BY <3>1, <3>2
  <2>2. CASE ~UserExists(req[r].owner)
    <3>1. req' = [req EXCEPT ![r] = Idle] BY <2>2 DEF IssueToken
    <3> QED BY <3>1, IdleTyped DEF Idle
  <2> QED BY <2>1, <2>2
<1>6. req'[r] = w /\ \A q \in Requests \ {r} : req'[q] = req[q] BY <1>2, <1>5
<1>7. \A q \in Requests \ {r} : req[q].pc = "issue" => req[q].tick # t BY <1>1 DEF TokensInv, Exchange
<1>8. ASSUME NEW s \in Tickets \ {t} PROVE lock[s] # Nobody => lock[s] \in Requests \ {r}
  BY DEF TokensInv, TokenTypes, Marked
\* What the commit leaves of the tokens and the tickets is enough for the requests and the rows.
<1>9. ASSUME tok' \in [Tokens -> TokenType], tick' \in [Tickets -> TicketType], RowsInOrder', SessionOfItsUser',
             \A s \in Tickets : UsedOnce(s)',
             \A k \in Tokens : tok[k].live => tok'[k].live,
             \A s \in Tickets : /\ s # t => tick'[s] = tick[s]
                                /\ tick'[s].user = tick[s].user /\ tick'[s].for = tick[s].for
                                /\ tick[s].state # "none" => tick'[s].state # "none"
      PROVE  TokensInv'
  <2>1. TokenTypes' BY <1>1, <1>3, <1>5, <1>9 DEF TokensInv, TokenTypes
  <2>2. ASSUME NEW s \in Tickets PROVE Marked(s)' /\ TicketOfItsUser(s)'
    <3>1. TicketOfItsUser(s)' BY <1>9 DEF TokensInv, TicketOfItsUser
    <3>2. CASE s = t BY <1>4, <3>1, <3>2 DEF Marked
    <3>3. CASE s # t
      <4>1. Marked(s) /\ (lock[s] # Nobody => req'[lock[s]] = req[lock[s]]) BY <1>6, <1>8, <3>3 DEF TokensInv
      <4> QED BY <1>4, <1>9, <3>1, <3>3, <4>1 DEF Marked
    <3> QED BY <3>2, <3>3
  <2>3. ASSUME NEW q \in Requests PROVE Exchange(q)' /\ LateRequest(q)'
    <3>1. CASE q = r BY <1>5, <1>6, <3>1 DEF Exchange, LateRequest
    <3>2. CASE q # r
      <4>1. Exchange(q) /\ LateRequest(q) /\ req'[q] = req[q] BY <1>6, <3>2 DEF TokensInv
      <4>2. Exchange(q)' BY <1>4, <1>7, <1>9, <3>2, <4>1 DEF Exchange
      <4> QED BY <1>3, <4>1, <4>2 DEF LateRequest
    <3> QED BY <3>1, <3>2
  <2> QED BY <1>9, <2>1, <2>2, <2>3 DEF TokensInv
<1>10. CASE ~UserExists(req[r].owner)
  <2>1. UNCHANGED <<tok, tick>> BY <1>10 DEF IssueToken
  <2>2. RowsInOrder' /\ SessionOfItsUser' BY <2>1 DEF TokensInv, RowsInOrder, Live, SessionOfItsUser
  <2>3. \A s \in Tickets : UsedOnce(s)' BY <2>1 DEF TokensInv, UsedOnce, IssuedFrom
  <2>4. tok' \in [Tokens -> TokenType] /\ tick' \in [Tickets -> TicketType]
    BY <2>1 DEF TokensInv, TokenTypes
  <2> QED BY <1>9, <2>1, <2>2, <2>3, <2>4
<1>11. CASE UserExists(req[r].owner)
  <2> DEFINE v == [NoToken EXCEPT !.live = TRUE, !.scope = tick[t].kind,
                                  !.owner = req[r].owner, !.mintedFor = tick[t].for, !.from = t]
             x == [tick[t] EXCEPT !.state = "used"]
  <2>1. tok' = [tok EXCEPT ![n] = v] /\ tick' = [tick EXCEPT ![t] = x] BY <1>11 DEF IssueToken
  <2>2. v \in TokenType /\ v.live /\ v.owner = req[r].owner /\ v.mintedFor = tick[t].for /\ v.from = t
    BY <1>1, <1>2 DEF NoToken, TokenType, TicketType, RequestType, Owners
  <2>3. x \in TicketType /\ x.state = "used" /\ x.user = tick[t].user /\ x.for = tick[t].for
    BY <1>2 DEF TicketType
  <2>4. n \in Tokens /\ tok[n] = NoToken BY <1>3, NextIsBlank
  <2>5. ~tok[n].live /\ tok[n].from = "none" BY <2>4 DEF NoToken
  <2> HIDE DEF v, x, n
  <2>6. tok'[n] = v /\ \A k \in Tokens \ {n} : tok'[k] = tok[k] BY <1>2, <2>1, <2>4
  <2>7. tick'[t] = x /\ \A s \in Tickets \ {t} : tick'[s] = tick[s] BY <1>1, <1>2, <2>1
  <2>8. tok' \in [Tokens -> TokenType] /\ tick' \in [Tickets -> TicketType]
    BY <1>1, <2>1, <2>2, <2>3, <2>4 DEF TokensInv, TokenTypes
  <2>9. RowsInOrder' BY <1>3, <2>2, <2>6, NewRow DEF n
  <2>10. SessionOfItsUser' BY <1>1, <2>2, <2>6 DEF TokensInv, SessionOfItsUser
  <2>11. ASSUME NEW s \in Tickets PROVE UsedOnce(s)'
    <3>1. UsedOnce(s) /\ s # "none" BY DEF TokensInv, TokensAssumption
    <3>2. CASE s = t
      <4>1. IssuedFrom(s) = {} BY <1>1, <3>1, <3>2 DEF UsedOnce
      <4>2. IssuedFrom(s)' = {n} BY <2>2, <2>4, <2>6, <3>2, <4>1 DEF IssuedFrom
      <4> QED BY <2>3, <2>4, <2>7, <3>2, <4>2 DEF UsedOnce
    <3>3. CASE s # t
      <4>1. IssuedFrom(s)' = IssuedFrom(s) BY <2>2, <2>4, <2>5, <2>6, <3>1, <3>3 DEF IssuedFrom
      <4> QED BY <2>7, <3>1, <3>3, <4>1 DEF UsedOnce
    <3> QED BY <3>2, <3>3
  <2>12. \A k \in Tokens : tok[k].live => tok'[k].live BY <2>5, <2>6
  <2>13. \A s \in Tickets : /\ s # t => tick'[s] = tick[s]
                            /\ tick'[s].user = tick[s].user /\ tick'[s].for = tick[s].for
                            /\ tick[s].state # "none" => tick'[s].state # "none"
    BY <2>3, <2>7
  <2> QED BY <1>9, <2>8, <2>9, <2>10, <2>11, <2>12, <2>13
<1> QED BY <1>10, <1>11

LEMMA TokensKept == ASSUME TokensAssumption, TokensInv, [TokenNext]_tokenVars PROVE TokensInv'
<1>1. CASE UNCHANGED tokenVars
  BY <1>1 DEF tokenVars, TokensInv, TokenTypes, RowsInOrder, Live, SessionOfItsUser, UsedOnce, IssuedFrom, Marked,
              TicketOfItsUser, Exchange, LateRequest
<1>2. ASSUME NEW u \in Users, RemoveUser(u) \/ (\E ro \in Roles : ChangeRole(u, ro)) PROVE TokensInv'
  BY <1>2, UserKeeps
<1>3. CASE CreateNoAuthSession \/ \E u \in Users \union {Nobody}, s \in Scopes : CreateToken(u, s)
  BY <1>3, CreateTokenKeeps DEF Owners
<1>4. ASSUME NEW k \in Tokens, Revoke(k) \/ Rotate(k) \/ TokenExpires(k) PROVE TokensInv'
  BY <1>4, RowKeeps, RotateKeeps
<1>5. ASSUME NEW t \in Tickets,
             TicketExpires(t) \/ (\E u \in Users \union {Nobody}, kind \in {"plugin", "mobile"} :
                                      CreateTicket(t, kind, u))
      PROVE  TokensInv'
  BY <1>5, TicketKeeps DEF Owners
<1>6. ASSUME NEW r \in Requests,
             \/ \E k \in Tokens : BeginSelfRevoke(r, k) \/ (\E need \in Needs : FindToken(r, k, need))
             \/ SelfRevoke(r) \/ Stamp(r) \/ Authorize(r) \/ Answer(r)
             \/ \E t \in Tickets, m \in BOOLEAN : LoadTicket(r, t, m)
             \/ MarkUsed(r) \/ IssueToken(r) \/ Profile(r)
      PROVE  TokensInv'
  BY <1>6, SimpleRequestKeeps, FindTokenKeeps, SelfRevokeKeeps, StampKeeps, AuthorizeKeeps, MarkUsedKeeps,
     IssueTokenKeeps
<1> QED BY <1>1, <1>2, <1>3, <1>4, <1>5, <1>6 DEF TokenNext

-----------------------------------------------------------------------------
(* Theorems.                                                                 *)

LEMMA TokensInvariant == ASSUME TokensAssumption PROVE TokenSpec => []TokensInv
<1>1. TokenInit => TokensInv BY TokensInit
<1>2. TokensInv /\ [TokenNext]_tokenVars => TokensInv' BY TokensKept
<1> QED BY <1>1, <1>2, PTL DEF TokenSpec

\* Rows of users, tokens and tickets and the requests in flight are what the hub's code lets them be.
THEOREM TokensTypeCorrect == ASSUME TokensAssumption PROVE TokenSpec => []TokenTypeOK
<1>1. TokensInv => TokenTypeOK
  <2> SUFFICES ASSUME TokensInv PROVE TokenTypeOK OBVIOUS
  <2>1. \A k \in Tokens : tok[k] \in TokenType BY DEF TokensInv, TokenTypes
  <2>2. \A t \in Tickets : tick[t] \in TicketType BY DEF TokensInv, TokenTypes
  <2>3. \A r \in Requests : req[r] \in RequestType BY DEF TokensInv, TokenTypes
  <2> QED BY <2>1, <2>2, <2>3 DEF TokenTypeOK, TokensInv, TokenTypes, TokenType, TicketType, RequestType, Owners
<1> QED BY <1>1, TokensInvariant, PTL

\* A login ticket is worth one session: however many exchanges of it race, and whatever users are
\* removed between their statements, a used ticket has exactly one token and an unused one none.
THEOREM OneSessionPerTicket == ASSUME TokensAssumption PROVE TokenSpec => []TicketUsedOnce
<1>1. TokensInv => TicketUsedOnce
  <2> SUFFICES ASSUME TokensInv, NEW t \in Tickets
               PROVE  Cardinality({k \in Tokens : tok[k].from = t}) = (IF tick[t].state = "used" THEN 1 ELSE 0)
    BY DEF TicketUsedOnce
  <2>1. UsedOnce(t) /\ IssuedFrom(t) = {k \in Tokens : tok[k].from = t} BY DEF TokensInv, IssuedFrom
  <2>2. CASE tick[t].state = "used"
    <3>1. PICK k \in Tokens : IssuedFrom(t) = {k} BY <2>1, <2>2 DEF UsedOnce
    <3>2. Cardinality({k}) = 1 BY FS_Singleton
    <3> QED BY <2>1, <2>2, <3>1, <3>2
  <2>3. CASE tick[t].state # "used"
    <3>1. IssuedFrom(t) = {} BY <2>1, <2>3 DEF UsedOnce
    <3> QED BY <2>1, <2>3, <3>1, FS_EmptySet
  <2> QED BY <2>2, <2>3
<1> QED BY <1>1, TokensInvariant, PTL

\* With authentication on, a request that begins after its token was revoked, or after the user its
\* session was issued to was removed, is refused, also where the exchange that issued the session was
\* under way during the removal.
THEOREM TooLateIsRefused == ASSUME TokensAssumption PROVE TokenSpec => []LateRequestsRefused
<1>1. TokensInv => LateRequestsRefused BY DEF TokensInv, LateRequest, LateRequestsRefused
<1> QED BY <1>1, TokensInvariant, PTL

\* A session belongs to the user that asked for its ticket, or to nobody.
THEOREM SessionsKeepTheirUser == ASSUME TokensAssumption PROVE TokenSpec => []SessionOfItsUser
<1>1. TokensInv => SessionOfItsUser BY DEF TokensInv
<1> QED BY <1>1, TokensInvariant, PTL

\* What the run checks of tokens, tickets and requests, for every number of them.
THEOREM TokensAreHonoured == ASSUME TokensAssumption PROVE TokenSpec => []TokensHonoured
<1>1. TokenTypeOK /\ TicketUsedOnce /\ SessionOfItsUser /\ LateRequestsRefused => TokensHonoured
  BY DEF TokensHonoured
<1> QED BY <1>1, TokensTypeCorrect, OneSessionPerTicket, SessionsKeepTheirUser, TooLateIsRefused, PTL

\* No step brings a revoked token back: a new token takes a blank row, also the successor of a
\* rotation, and the stamp of a request writes last_used_at alone.
THEOREM RevocationIsFinal == ASSUME TokensAssumption PROVE TokenSpec => RevokedStays
<1>1. TokensInv /\ [TokenNext]_tokenVars => [RevokedStaysStep]_tokenVars
  <2> SUFFICES ASSUME TokensInv, TokenNext, NEW k \in Tokens, tok[k].revoked PROVE tok'[k].revoked
    BY DEF RevokedStaysStep
  <2>1. tok[k] \in TokenType /\ DOMAIN tok = Tokens BY DEF TokensInv, TokenTypes
  <2>2. CanIssue => NextToken \in Tokens /\ NextToken # k
    BY NextIsBlank DEF NoToken
  <2> HIDE DEF NextToken
  <2>3. CASE UNCHANGED tok BY <2>3
  <2>4. ASSUME NEW v, CanIssue, tok' = [tok EXCEPT ![NextToken] = v] PROVE tok'[k].revoked
    BY <2>1, <2>2, <2>4
  <2>5. ASSUME NEW u \in Users, RemoveUser(u) PROVE tok'[k].revoked
    BY <2>1, <2>5 DEF RemoveUser, TokenType
  <2>6. ASSUME NEW j \in Tokens, Revoke(j) \/ TokenExpires(j) PROVE tok'[k].revoked
    BY <2>1, <2>6 DEF Revoke, TokenExpires, TokensInv, TokenTypes, TokenType
  <2>7. ASSUME NEW j \in Tokens, Rotate(j) PROVE tok'[k].revoked
    <3>1. CanIssue BY <2>7 DEF Rotate
    <3>2. CASE j = k
      <4>1. tok'[k] = [tok[k] EXCEPT !.revoked = TRUE] BY <2>7, <3>2, RotatedRows
      <4> QED BY <2>1, <4>1 DEF TokenType
    <3>3. CASE j # k
      <4>1. tok'[k] = tok[k] BY <2>2, <2>7, <3>1, <3>3, RotatedRows
      <4> QED BY <4>1
    <3> QED BY <3>2, <3>3
  <2>8. ASSUME NEW r \in Requests, SelfRevoke(r) PROVE tok'[k].revoked
    BY <2>1, <2>8 DEF SelfRevoke, TokensInv, TokenTypes, TokenType, Exchange
  <2>9. CASE CreateNoAuthSession \/ \E u \in Users \union {Nobody}, s \in Scopes : CreateToken(u, s)
    BY <2>4, <2>9 DEF CreateNoAuthSession, CreateToken
  <2>10. ASSUME NEW r \in Requests, IssueToken(r) PROVE tok'[k].revoked
    BY <2>3, <2>4, <2>10 DEF IssueToken
  <2> QED
    BY <2>3, <2>5, <2>6, <2>7, <2>8, <2>9, <2>10
    DEF TokenNext, ChangeRole, TicketExpires, CreateTicket, BeginSelfRevoke, FindToken, Stamp, Authorize, Answer,
        LoadTicket, MarkUsed, Profile
<1> QED BY <1>1, TokensInvariant, PTL DEF TokenSpec, RevokedStays
=============================================================================
