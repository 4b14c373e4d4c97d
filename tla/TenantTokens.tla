----------------------------- MODULE TenantTokens -----------------------------
(***************************************************************************)
(* Bearer tokens of one tenant: API tokens, the session tokens of Studio     *)
(* plugins and mobile apps, and the one-use login tickets those are issued   *)
(* from.  A request is answered by several statements, other requests and    *)
(* the removal of its user come between them.                                *)
(***************************************************************************)
EXTENDS Naturals, FiniteSets

CONSTANTS Users,      \* users of the tenant
          Tokens,     \* token ids, 1..n, handed out in order
          Tickets,    \* login tickets
          Requests,   \* requests in flight
          NoAuth,     \* the hub runs without authentication
          Scopes,     \* scopes of the API tokens that are created
          Needs       \* what is asked for with a token

Roles == {"viewer", "operator", "tenant_admin"}
Nobody == "nobody"
TokensAssumption == /\ IsFiniteSet(Tokens) /\ Tokens = 1..Cardinality(Tokens) /\ NoAuth \in BOOLEAN
                    /\ Scopes \subseteq {"all", "empty", "register", "plugin"}
                    /\ Needs \subseteq Roles \union {"viewerRoute", "register", "plugin"}
                    /\ Nobody \notin Users \union Requests /\ Tickets \intersect {"none", "rotation"} = {}

VARIABLES role,    \* users; "gone" once removed
          tok,     \* rows of tenant_tokens
          tick,    \* rows of plugin_login_tickets
          lock,    \* ticket rows held by a transaction
          req      \* requests

tokenVars == <<role, tok, tick, lock, req>>

NoToken == [live |-> FALSE, scope |-> "empty", owner |-> Nobody, mintedFor |-> Nobody,
            expired |-> FALSE, revoked |-> FALSE, from |-> "none"]
NoTicket == [state |-> "none", kind |-> "plugin", user |-> Nobody, expired |-> FALSE, for |-> Nobody]
Idle == [pc |-> "idle", tok |-> 0, tick |-> "none", owner |-> Nobody, need |-> "viewer", ok |-> FALSE,
         late |-> FALSE, row |-> NoToken]

TokenTypeOK ==
    /\ role \in [Users -> Roles \union {"gone"}]
    /\ \A k \in Tokens : tok[k].owner \in Users \union {Nobody} /\ tok[k].revoked \in BOOLEAN
    /\ \A t \in Tickets : tick[t].state \in {"none", "live", "used"}
    /\ \A r \in Requests : req[r].pc \in {"idle", "stamp", "user", "update", "mark", "issue", "profile", "done"}

TokenInit ==
    /\ role = [u \in Users |-> "operator"] /\ tok = [k \in Tokens |-> NoToken]
    /\ tick = [t \in Tickets |-> NoTicket] /\ lock = [t \in Tickets |-> Nobody]
    /\ req = [r \in Requests |-> Idle]

NextToken == Cardinality({k \in Tokens : tok[k].live}) + 1
CanIssue == NextToken \in Tokens
UserExists(u) == IF u = Nobody THEN TRUE ELSE role[u] # "gone"
Session(scope) == scope \in {"plugin", "mobile"}

-----------------------------------------------------------------------------
(* Users: a removed user is taken out of the rows that name it (SET NULL).   *)

ChangeRole(u, ro) ==
    /\ role[u] # "gone" /\ ro # role[u] /\ role' = [role EXCEPT ![u] = ro]
    /\ UNCHANGED <<tok, tick, lock, req>>
RemoveUser(u) ==
    /\ role[u] # "gone" /\ role' = [role EXCEPT ![u] = "gone"]
    /\ tok' = [k \in Tokens |-> IF tok[k].owner = u THEN [tok[k] EXCEPT !.owner = Nobody] ELSE tok[k]]
    /\ tick' = [t \in Tickets |-> IF tick[t].user = u THEN [tick[t] EXCEPT !.user = Nobody] ELSE tick[t]]
    /\ UNCHANGED <<lock, req>>

-----------------------------------------------------------------------------
(* API tokens.                                                               *)

CreateToken(u, s) ==
    /\ CanIssue /\ UserExists(u) /\ s \in Scopes
    /\ tok' = [tok EXCEPT ![NextToken] = [NoToken EXCEPT !.live = TRUE, !.scope = s, !.owner = u, !.mintedFor = u]]
    /\ UNCHANGED <<role, tick, lock, req>>

\* create_no_auth_plugin_session_with_audit: a plugin token of nobody.
CreateNoAuthSession ==
    /\ NoAuth /\ CanIssue
    /\ tok' = [tok EXCEPT ![NextToken] = [NoToken EXCEPT !.live = TRUE, !.scope = "plugin"]]
    /\ UNCHANGED <<role, tick, lock, req>>

Revoke(k) ==
    /\ tok[k].live /\ ~tok[k].revoked /\ tok' = [tok EXCEPT ![k].revoked = TRUE]
    /\ UNCHANGED <<role, tick, lock, req>>

\* The old token is revoked (or is already), its successor has its scopes and its creator.
Rotate(k) ==
    /\ tok[k].live /\ CanIssue
    /\ tok' = [tok EXCEPT ![k].revoked = TRUE,
                          ![NextToken] = [tok[k] EXCEPT !.expired = FALSE, !.revoked = FALSE, !.from = "rotation"]]
    /\ UNCHANGED <<role, tick, lock, req>>

TokenExpires(k) ==
    /\ tok[k].live /\ ~tok[k].expired /\ tok' = [tok EXCEPT ![k].expired = TRUE]
    /\ UNCHANGED <<role, tick, lock, req>>

\* revoke_plugin_studio_token_with_audit: the row, then the conditional update.
BeginSelfRevoke(r, k) ==
    /\ req[r].pc = "idle" /\ tok[k].live /\ tok[k].scope = "plugin"
    /\ req' = [req EXCEPT ![r] = [Idle EXCEPT !.pc = "update", !.tok = k]]
    /\ UNCHANGED <<role, tok, tick, lock>>
SelfRevoke(r) ==
    /\ req[r].pc = "update" /\ tok' = [tok EXCEPT ![req[r].tok].revoked = TRUE]
    /\ req' = [req EXCEPT ![r] = Idle] /\ UNCHANGED <<role, tick, lock>>

-----------------------------------------------------------------------------
(* authenticate_tenant_token and the authorize_* checks.                     *)

\* A user removed or a token revoked before the request begins: it comes too late.
TooLate(k) == tok[k].revoked \/ (Session(tok[k].scope) /\ tok[k].mintedFor # Nobody
                                 /\ role[tok[k].mintedFor] = "gone")

FindToken(r, k, need) ==
    /\ req[r].pc = "idle" /\ tok[k].live /\ need \in Needs /\ ~tok[k].revoked /\ ~tok[k].expired
    /\ req' = [req EXCEPT ![r] = [Idle EXCEPT !.pc = "stamp", !.tok = k, !.need = need, !.late = TooLate(k),
                                              !.owner = tok[k].owner, !.row = tok[k]]]
    /\ UNCHANGED <<role, tok, tick, lock>>

\* last_used_at is the only column written.
Stamp(r) ==
    /\ req[r].pc = "stamp" /\ req' = [req EXCEPT ![r].pc = "user"]
    /\ UNCHANGED <<role, tok, tick, lock>>

Rank(ro) == CASE ro = "viewer" -> 0 [] ro = "operator" -> 1 [] OTHER -> 2
RoleAllows(u, need) == IF u = Nobody THEN FALSE ELSE role[u] # "gone" /\ Rank(role[u]) >= Rank(need)

\* tenant_token_allows_role, authorize_tenant, authorize_agent_registration, authorize_plugin_studio
Allowed(scope, u, need) ==
    \/ need = "register" /\ scope \in {"all", "register"}
    \/ need = "plugin" /\ scope = "plugin" /\ (NoAuth \/ RoleAllows(u, "operator"))
    \/ need = "viewerRoute" /\ (scope \in {"all", "empty"} \/ (scope = "mobile" /\ RoleAllows(u, "viewer")))
    \/ need \in Roles /\ (scope = "all" \/ (scope = "mobile" /\ RoleAllows(u, need)))

\* The user of a session token is loaded now; one that is gone, or a mobile token of nobody, is no
\* token.  The token itself is as it was found.
Authorize(r) ==
    LET scope == req[r].row.scope  u == req[r].owner
        known == /\ scope = "mobile" => u # Nobody
                 /\ Session(scope) /\ u # Nobody => role[u] # "gone" IN
    /\ req[r].pc = "user"
    /\ req' = [req EXCEPT ![r].pc = "done", ![r].ok = known /\ Allowed(scope, u, req[r].need)]
    /\ UNCHANGED <<role, tok, tick, lock>>

Answer(r) ==
    /\ req[r].pc = "done" /\ req' = [req EXCEPT ![r] = Idle] /\ UNCHANGED <<role, tok, tick, lock>>

-----------------------------------------------------------------------------
(* Login tickets.                                                            *)

CreateTicket(t, kind, u) ==
    /\ tick[t].state = "none"
    /\ IF NoAuth THEN u = Nobody ELSE u # Nobody /\ RoleAllows(u, "operator")
    /\ tick' = [tick EXCEPT ![t] = [NoTicket EXCEPT !.state = "live", !.kind = kind, !.user = u, !.for = u]]
    /\ UNCHANGED <<role, tok, lock, req>>
TicketExpires(t) ==
    /\ tick[t].state = "live" /\ ~tick[t].expired /\ tick' = [tick EXCEPT ![t].expired = TRUE]
    /\ UNCHANGED <<role, tok, lock, req>>

\* The row as it is committed, its expiry and, for a mobile ticket, its code challenge.
LoadTicket(r, t, verifierMatches) ==
    /\ req[r].pc = "idle" /\ tick[t].state = "live" /\ ~tick[t].expired
    /\ tick[t].kind = "mobile" => verifierMatches
    /\ req' = [req EXCEPT ![r] = [Idle EXCEPT !.pc = "mark", !.tick = t, !.owner = tick[t].user]]
    /\ UNCHANGED <<role, tok, tick, lock>>

\* Mutant: the ticket is marked without looking at it again.
MarkUsedAgain(r) ==
    LET t == req[r].tick IN
    /\ req[r].pc = "mark" /\ lock[t] = Nobody
    /\ lock' = [lock EXCEPT ![t] = r] /\ req' = [req EXCEPT ![r].pc = "issue"]
    /\ UNCHANGED <<role, tok, tick>>

\* update_many ... used_at IS NULL: waits for another exchange of the ticket, then finds it used.
MarkUsed(r) ==
    LET t == req[r].tick IN
    /\ req[r].pc = "mark" /\ lock[t] = Nobody
    /\ IF tick[t].state = "live"
       THEN lock' = [lock EXCEPT ![t] = r] /\ req' = [req EXCEPT ![r].pc = "issue"]
       ELSE req' = [req EXCEPT ![r] = Idle] /\ UNCHANGED lock
    /\ UNCHANGED <<role, tok, tick>>

\* insert_tenant_token, audit event, commit; a user that is gone rolls everything back.
IssueToken(r) ==
    LET t == req[r].tick IN
    /\ req[r].pc = "issue" /\ CanIssue
    /\ IF UserExists(req[r].owner)
       THEN /\ tok' = [tok EXCEPT ![NextToken] = [NoToken EXCEPT !.live = TRUE, !.scope = tick[t].kind,
                                     !.owner = req[r].owner, !.mintedFor = tick[t].for, !.from = t]]
            /\ tick' = [tick EXCEPT ![t].state = "used"]
            /\ req' = [req EXCEPT ![r].pc = IF tick[t].kind = "plugin" THEN "profile" ELSE "idle"]
       ELSE req' = [req EXCEPT ![r] = Idle] /\ UNCHANGED <<tok, tick>>
    /\ lock' = [lock EXCEPT ![t] = Nobody] /\ UNCHANGED role

\* The plugin's answer names its user; one removed by now makes it an error.
Profile(r) ==
    /\ req[r].pc = "profile" /\ req' = [req EXCEPT ![r] = Idle] /\ UNCHANGED <<role, tok, tick, lock>>

-----------------------------------------------------------------------------
TokenNext ==
    \/ \E u \in Users : RemoveUser(u) \/ (\E ro \in Roles : ChangeRole(u, ro))
    \/ \E u \in Users \union {Nobody}, s \in Scopes : CreateToken(u, s)
    \/ CreateNoAuthSession
    \/ \E k \in Tokens : Revoke(k) \/ Rotate(k) \/ TokenExpires(k)
    \/ \E t \in Tickets : TicketExpires(t) \/ (\E u \in Users \union {Nobody}, kind \in {"plugin", "mobile"} :
                                                   CreateTicket(t, kind, u))
    \/ \E r \in Requests :
          \/ \E k \in Tokens : BeginSelfRevoke(r, k) \/ (\E need \in Needs : FindToken(r, k, need))
          \/ SelfRevoke(r) \/ Stamp(r) \/ Authorize(r) \/ Answer(r)
          \/ \E t \in Tickets, m \in BOOLEAN : LoadTicket(r, t, m)
          \/ MarkUsed(r) \/ IssueToken(r) \/ Profile(r)

TokenSpec == TokenInit /\ [][TokenNext]_tokenVars

-----------------------------------------------------------------------------
\* A ticket is used exactly if one token was issued from it, whatever exchanges of it raced and
\* whatever users were removed meanwhile.
TicketUsedOnce ==
    \A t \in Tickets : Cardinality({k \in Tokens : tok[k].from = t}) = (IF tick[t].state = "used" THEN 1 ELSE 0)

\* "Tenant-token revocation sets revoked_at; revoked tokens are excluded from bearer
\* authentication": a request that begins after its token was revoked, or after the user its
\* session was issued to was removed, is refused - also if the token was issued only later.
LateRequestsRefused == ~NoAuth => \A r \in Requests : req[r].pc = "done" /\ req[r].late => ~req[r].ok

\* Nothing brings a revoked token back, neither the last_used_at of a request that had found it
\* live nor a rotation.
RevokedStaysStep ==
    \A k \in Tokens : tok[k].revoked => tok'[k].revoked
RevokedStays == [][RevokedStaysStep]_tokenVars

\* A session token never belongs to a user other than the one that asked for the ticket.
SessionOfItsUser ==
    \A k \in Tokens : tok[k].owner # Nobody => tok[k].owner = tok[k].mintedFor

\* A login ticket gives one token to its own user, however many exchanges race, and a request that
\* begins after its token or its user is gone is refused (auth/plugin_tickets.rs,
\* auth/tenant_tokens.rs).
TokensHonoured == TokenTypeOK /\ TicketUsedOnce /\ SessionOfItsUser /\ LateRequestsRefused
=============================================================================
