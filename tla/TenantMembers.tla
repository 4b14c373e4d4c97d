---------------------------- MODULE TenantMembers ----------------------------
(***************************************************************************)
(* The members of a tenant: join links, membership of external identities,  *)
(* role changes and removals, as transactions of PostgreSQL (READ           *)
(* COMMITTED, rows locked by SELECT ... FOR UPDATE and by updates until the  *)
(* end of the transaction).  On SQLite a write transaction excludes the      *)
(* others, which allows fewer behaviours.                                    *)
(***************************************************************************)
EXTENDS Naturals, FiniteSets

CONSTANTS Identities,  \* verified external identities
          EmailOf,     \* their verified email addresses
          Links,       \* join links
          LinkRole, LinkEmail, MaxUses,  \* what a link was created with
          Requests,    \* requests in flight
          Changes,     \* what administrators ask for: roles, and "gone" for a removal
          MaxUsers     \* bound: users ever inserted

Roles == {"tenant_admin", "operator", "viewer"}
NoEmail == "any"
\* The addresses of users: the bootstrap administrator's and the identities'.
Emails == {EmailOf[i] : i \in Identities} \union {"root"}
MembersAssumption == /\ LinkRole \in [Links -> Roles] /\ MaxUses \in [Links -> Nat \ {0}]
                     /\ IsFiniteSet(Requests) /\ "nobody" \notin Requests
                     /\ MaxUsers \in Nat /\ Changes \subseteq Roles \union {"gone"}

VARIABLES tenant,   \* the tenant row exists
          users,    \* rows of users with their identities
          lastId,   \* user ids handed out
          links,    \* rows of join_links
          locks,    \* rows (users by id, links by name) held by a transaction
          req,      \* the requests
          admitted  \* every user that ever entered through a link

vars == <<tenant, users, lastId, links, locks, req, admitted>>

NoLink == "none"
Idle == [pc |-> "idle", id |-> 0, to |-> "viewer", link |-> NoLink, ident |-> "none", seen |-> {}]
U(n) == <<"user", n>>
L(l) == <<"link", l>>
Rows == {U(n) : n \in 1..MaxUsers} \union {L(l) : l \in Links}
Nobody == "nobody"

TypeOK ==
    /\ tenant \in BOOLEAN /\ lastId \in 0..MaxUsers
    /\ users \subseteq [id : 1..MaxUsers, ident : Identities \union {"none"}, email : Emails, role : Roles]
    /\ links \in [Links -> [state : {"none", "live", "revoked"}, expired : BOOLEAN, used : Nat]]
    /\ locks \in [Rows -> Requests \union {Nobody}]
    /\ \A r \in Requests : req[r].pc \in {"idle", "consume", "insert", "lockUser", "admins", "lockAdmins", "write"}

Init ==
    /\ tenant = FALSE /\ users = {} /\ lastId = 0
    /\ links = [l \in Links |-> [state |-> "none", expired |-> FALSE, used |-> 0]]
    /\ locks = [x \in Rows |-> Nobody] /\ req = [r \in Requests |-> Idle] /\ admitted = {}

Free(x, r) == locks[x] \in {Nobody, r}
\* A transaction ends, by commit or rollback: its locks go with it.
Unlocked(r) == [x \in Rows |-> IF locks[x] = r THEN Nobody ELSE locks[x]]
End(r) == locks' = Unlocked(r) /\ req' = [req EXCEPT ![r] = Idle]

-----------------------------------------------------------------------------
(* A tenant starts with one administrator.                                   *)

Bootstrap ==
    /\ ~tenant /\ lastId < MaxUsers /\ tenant' = TRUE /\ lastId' = lastId + 1
    /\ users' = {[id |-> lastId + 1, ident |-> "none", email |-> "root", role |-> "tenant_admin"]}
    /\ UNCHANGED <<links, locks, req, admitted>>
SelfCreate(i) ==
    /\ ~tenant /\ lastId < MaxUsers /\ tenant' = TRUE /\ lastId' = lastId + 1
    /\ users' = {[id |-> lastId + 1, ident |-> i, email |-> EmailOf[i], role |-> "tenant_admin"]}
    /\ UNCHANGED <<links, locks, req, admitted>>

-----------------------------------------------------------------------------
(* Join links.                                                               *)

CreateLink(l) ==
    /\ tenant /\ links[l].state = "none" /\ links' = [links EXCEPT ![l].state = "live"]
    /\ UNCHANGED <<tenant, users, lastId, locks, req, admitted>>
\* The update waits for the row.
RevokeLink(l) ==
    /\ links[l].state = "live" /\ locks[L(l)] = Nobody /\ links' = [links EXCEPT ![l].state = "revoked"]
    /\ UNCHANGED <<tenant, users, lastId, locks, req, admitted>>
LinkExpires(l) ==
    /\ links[l].state # "none" /\ ~links[l].expired /\ links' = [links EXCEPT ![l].expired = TRUE]
    /\ UNCHANGED <<tenant, users, lastId, locks, req, admitted>>

ValidLink(l) == links[l].state = "live" /\ links[l].used < MaxUses[l] /\ ~links[l].expired
EmailAllowed(l, i) == LinkEmail[l] \in {NoEmail, EmailOf[i]}
Member(i) == \E u \in users : u.ident = i

\* Bound: acceptances under way may each insert a user.
Accepting == Cardinality({q \in Requests : req[q].pc \in {"consume", "insert"}})

\* load_valid_join_link_by_hash, the email, find_external_user_tx: a member is answered as it is.
BeginAccept(r, l, i) ==
    /\ req[r].pc = "idle" /\ ValidLink(l) /\ EmailAllowed(l, i) /\ ~Member(i) /\ lastId + Accepting < MaxUsers
    /\ req' = [req EXCEPT ![r] = [Idle EXCEPT !.pc = "consume", !.link = l, !.ident = i]]
    /\ UNCHANGED <<tenant, users, lastId, links, locks, admitted>>

\* consume_join_link_use_tx: one conditional update; "now" is the beginning of the request.
Consume(r) ==
    LET l == req[r].link IN
    /\ req[r].pc = "consume" /\ Free(L(l), r)
    /\ IF links[l].state = "live" /\ links[l].used < MaxUses[l]
       THEN locks' = [locks EXCEPT ![L(l)] = r] /\ req' = [req EXCEPT ![r].pc = "insert"] ELSE End(r)
    /\ UNCHANGED <<tenant, users, lastId, links, admitted>>

\* The unique constraints on (tenant, email) and (tenant, provider, subject).
Unique(i) == \A u \in users : u.email # EmailOf[i] /\ u.ident # i

\* insert_user, insert_identity, the audit events and the commit; a refused insertion rolls back.
InsertMember(r) ==
    LET l == req[r].link  i == req[r].ident
        u == [id |-> lastId + 1, ident |-> i, email |-> EmailOf[i], role |-> LinkRole[l]] IN
    /\ req[r].pc = "insert"
    /\ IF Unique(i)
       THEN /\ users' = users \union {u} /\ lastId' = lastId + 1
            /\ links' = [links EXCEPT ![l].used = @ + 1]
            /\ admitted' = admitted \union {[id |-> u.id, link |-> l]}
       ELSE UNCHANGED <<users, lastId, links, admitted>>
    /\ End(r) /\ UNCHANGED tenant

-----------------------------------------------------------------------------
(* Role changes and removals by an administrator ("gone" removes).           *)

Role(u) == (CHOOSE x \in users : x.id = u).role
Present(u) == \E x \in users : x.id = u
Admins == {x.id : x \in {y \in users : y.role = "tenant_admin"}}

BeginChange(r, u, to) ==
    /\ tenant /\ req[r].pc = "idle" /\ Present(u)
    /\ req' = [req EXCEPT ![r] = [Idle EXCEPT !.pc = "lockUser", !.id = u, !.to = to]]
    /\ UNCHANGED <<tenant, users, lastId, links, locks, admitted>>

\* select_user_locked
LockUser(r) ==
    LET u == req[r].id IN
    /\ req[r].pc = "lockUser" /\ Free(U(u), r)
    /\ IF ~Present(u) THEN End(r)
       ELSE /\ locks' = [locks EXCEPT ![U(u)] = r]
            /\ req' = [req EXCEPT ![r].pc = IF Role(u) = "tenant_admin" /\ req[r].to # "tenant_admin"
                                            THEN "admins" ELSE "write"]
    /\ UNCHANGED <<tenant, users, lastId, links, admitted>>

\* ensure_other_admin_remains: the statement sees the committed administrators ...
SeeAdmins(r) ==
    /\ req[r].pc = "admins" /\ req' = [req EXCEPT ![r].pc = "lockAdmins", ![r].seen = Admins]
    /\ UNCHANGED <<tenant, users, lastId, links, locks, admitted>>

\* Mutant: the administrators are counted without their locks.
LockAdminsUnlocked(r) ==
    /\ req[r].pc = "lockAdmins"
    /\ IF Cardinality(req[r].seen) <= 1 THEN End(r)
       ELSE req' = [req EXCEPT ![r].pc = "write"] /\ UNCHANGED locks
    /\ UNCHANGED <<tenant, users, lastId, links, admitted>>

\* ... waits for each of their rows, and keeps those that still are administrators.
LockAdmins(r) ==
    LET still == req[r].seen \cap Admins IN
    /\ req[r].pc = "lockAdmins" /\ \A u \in req[r].seen : Free(U(u), r)
    /\ IF Cardinality(still) <= 1 THEN End(r)
       ELSE /\ locks' = [x \in Rows |-> IF x \in {U(u) : u \in still} THEN r ELSE locks[x]]
            /\ req' = [req EXCEPT ![r].pc = "write"]
    /\ UNCHANGED <<tenant, users, lastId, links, admitted>>

Rerole(u, to) == {IF x.id = u THEN [x EXCEPT !.role = to] ELSE x : x \in users}
Removed(u) == {x \in users : x.id # u}

\* update_user_role or delete_user (the identity goes with the user), audit event, commit.
WriteChange(r) ==
    LET u == req[r].id IN
    /\ req[r].pc = "write"
    /\ users' = (IF req[r].to = "gone" THEN Removed(u) ELSE Rerole(u, req[r].to))
    /\ End(r) /\ UNCHANGED <<tenant, lastId, links, admitted>>

Waits(r, q) == req[r].pc = "lockAdmins" /\ \E u \in req[r].seen : locks[U(u)] = q /\ q # r
\* The database ends one of two transactions that wait for each other.
DeadlockDetected(r) ==
    /\ \E q \in Requests : q # r /\ Waits(r, q) /\ Waits(q, r)
    /\ End(r) /\ UNCHANGED <<tenant, users, lastId, links, admitted>>

-----------------------------------------------------------------------------
Step(r) == \/ Consume(r) \/ InsertMember(r) \/ LockUser(r) \/ SeeAdmins(r) \/ LockAdmins(r)
           \/ WriteChange(r) \/ DeadlockDetected(r)
Next ==
    \/ Bootstrap
    \/ \E i \in Identities : SelfCreate(i)
    \/ \E l \in Links : CreateLink(l) \/ RevokeLink(l) \/ LinkExpires(l)
    \/ \E r \in Requests :
          \/ \E l \in Links, i \in Identities : BeginAccept(r, l, i)
          \/ \E u \in 1..MaxUsers, to \in Changes : BeginChange(r, u, to)
          \/ Step(r)

Spec == Init /\ [][Next]_vars
\* Transactions run on, and the database grants a lock to every transaction that waits for it.
FairSpec == Spec /\ \A r \in Requests : SF_vars(Step(r))

-----------------------------------------------------------------------------
\* Whatever role changes and removals run at once, a tenant never loses its last administrator.
AdminRemains == tenant => Admins # {}

\* The uses counted on a link are exactly the members that entered through it, at most the
\* number it allows, whatever acceptances were refused half-way.
UsesExact ==
    \A l \in Links : /\ links[l].used = Cardinality({a \in admitted : a.link = l})
                     /\ links[l].used <= MaxUses[l]

\* An external identity is at most one member, although two acceptances of it may both have
\* found no member.
OneMembership == \A u, v \in users : u.ident = v.ident /\ u.ident # "none" => u = v

\* A tenant keeps an administrator, its links count their members and an identity is one member.
MembersSafe == TypeOK /\ AdminRemains /\ UsesExact /\ OneMembership

\* Nobody enters through a link once it is revoked, even if the link was valid when the request began.
RevokedLinkClosed == [][\A l \in Links : links[l].state = "revoked" => links'[l].used = links[l].used]_vars

\* Every request ends: the transactions that wait for each other are resolved and no lock is left.
RequestsEnd == \A r \in Requests : (req[r].pc # "idle") ~> (req[r].pc = "idle")
=============================================================================
