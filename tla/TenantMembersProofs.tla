------------------------- MODULE TenantMembersProofs -------------------------
(***************************************************************************)
(* Proofs about the members of a tenant, for any number of requests, users,  *)
(* links and identities.  What a transaction has read and locked stays as it *)
(* read it until it writes: the user it changes, a second administrator that *)
(* remains, and the link it uses.                                            *)
(***************************************************************************)
EXTENDS TenantMembers, FiniteSetTheorems, TLAPS

UserType == [id : 1..MaxUsers, ident : Identities \union {"none"}, email : Emails, role : Roles]
LinkType == [state : {"none", "live", "revoked"}, expired : BOOLEAN, used : Nat]
Changing == {"lockUser", "admins", "lockAdmins", "write"}
RequestType ==
    [pc : {"idle", "consume", "insert"} \cup Changing, id : 0..MaxUsers, to : Roles \cup {"gone"},
     link : Links \cup {NoLink}, ident : Identities \cup {"none"}, seen : SUBSET (1..MaxUsers)]

MembersTypes ==
    /\ tenant \in BOOLEAN /\ lastId \in 0..MaxUsers /\ users \subseteq UserType
    /\ links \in [Links -> LinkType] /\ locks \in [Rows -> Requests \union {Nobody}]
    /\ req \in [Requests -> RequestType]
    /\ admitted \subseteq [id : 1..MaxUsers, link : Links]

\* User ids are handed out once.
IdsUnique ==
    /\ \A x, y \in users : x.id = y.id => x = y
    /\ \A x \in users : x.id <= lastId
    /\ \A a \in admitted : a.id <= lastId

\* Before there is a tenant there is nothing else.
NothingBefore ==
    ~tenant => /\ users = {} /\ \A l \in Links : links[l].state = "none"
               /\ \A r \in Requests : req[r].pc = "idle"

\* Every acceptance under way has an id left.
IdsLeft == lastId + Accepting <= MaxUsers

\* An acceptance that counted its use holds the link, live and with a use left.
HoldsLink(r) ==
    /\ req[r].pc \in {"consume", "insert"} => req[r].link \in Links /\ req[r].ident \in Identities
    /\ req[r].pc = "insert" =>
          /\ locks[L(req[r].link)] = r /\ links[req[r].link].state = "live"
          /\ links[req[r].link].used < MaxUses[req[r].link]

\* A change holds its user; one that takes an administrator's role away also
\* holds an administrator that stays.
HoldsUser(r) ==
    /\ req[r].pc \in Changing => req[r].id \in 1..MaxUsers
    /\ req[r].pc \in {"admins", "lockAdmins", "write"} => locks[U(req[r].id)] = r /\ Present(req[r].id)
    /\ (req[r].pc = "write" /\ req[r].id \in Admins /\ req[r].to # "tenant_admin") =>
          \E v \in Admins : v # req[r].id /\ locks[U(v)] = r

MembersInv ==
    /\ MembersTypes /\ IdsUnique /\ NothingBefore /\ IdsLeft
    /\ OneMembership /\ AdminRemains /\ UsesExact /\ IsFiniteSet(admitted)
    /\ \A r \in Requests : HoldsLink(r) /\ HoldsUser(r)

----------------------------------------------------------------------------
(* Rows, users and counts                                                   *)

LEMMA RowsApart ==
    /\ \A m, n : U(m) = U(n) <=> m = n
    /\ \A l, k : L(l) = L(k) <=> l = k
    /\ \A n, l : U(n) # L(l)
    /\ \A n \in 1..MaxUsers : U(n) \in Rows
    /\ \A l \in Links : L(l) \in Rows
  BY DEF U, L, Rows

LEMMA AdminsAre ==
    \A v : v \in Admins <=> \E x \in users : x.id = v /\ x.role = "tenant_admin"
  BY DEF Admins

\* Users and their administrators have ids of rows.
LEMMA AdminsPresent ==
    ASSUME MembersTypes
    PROVE  \A v \in Admins : v \in 1..MaxUsers /\ Present(v)
  BY AdminsAre DEF MembersTypes, UserType, Present

\* The role of a user that is present.
LEMMA RoleIs ==
    ASSUME MembersTypes, IdsUnique, NEW u, Present(u)
    PROVE  Role(u) = "tenant_admin" <=> u \in Admins
<1>1. PICK x \in users : x.id = u
  BY DEF Present
<1>2. (CHOOSE y \in users : y.id = u) = x
  BY <1>1 DEF IdsUnique
<1>3. u \in Admins <=> x.role = "tenant_admin"
  BY <1>1, AdminsAre DEF IdsUnique
<1> QED
  BY <1>2, <1>3 DEF Role

Accepts(q) == req[q].pc \in {"consume", "insert"}

\* A step of one request moves the number of acceptances by its own.
LEMMA AcceptingMoves ==
    ASSUME MembersAssumption, NEW r \in Requests, \A q \in Requests : q # r => req'[q] = req[q]
    PROVE  /\ Accepting \in Nat /\ Accepting' \in Nat
           /\ (Accepts(r) <=> Accepts(r)') => Accepting' = Accepting
           /\ ~Accepts(r) /\ Accepts(r)' => Accepting' = Accepting + 1
           /\ Accepts(r) /\ ~Accepts(r)' => Accepting' = Accepting - 1
<1> DEFINE A == {q \in Requests : Accepts(q)}
           B == {q \in Requests : Accepts(q)'}
<1>1. Accepting = Cardinality(A) /\ Accepting' = Cardinality(B)
  BY DEF Accepting, Accepts
<1>2. A \in SUBSET Requests /\ B \in SUBSET Requests /\ IsFiniteSet(Requests)
  BY DEF MembersAssumption
<1>3. \A q \in Requests : q # r => (Accepts(q)' <=> Accepts(q))
  BY DEF Accepts
<1>4. /\ (Accepts(r) <=> Accepts(r)') => A = B
      /\ ~Accepts(r) /\ Accepts(r)' => B = A \cup {r} /\ r \notin A
      /\ Accepts(r) /\ ~Accepts(r)' => B = A \ {r} /\ r \in A
  BY <1>3
<1> HIDE DEF A, B
<1>5. IsFiniteSet(A) /\ IsFiniteSet(B)
  BY <1>2, FS_Subset
<1>6. Cardinality(A) \in Nat /\ Cardinality(B) \in Nat
  BY <1>5, FS_CardinalityType
<1>7. ASSUME ~Accepts(r), Accepts(r)' PROVE Cardinality(B) = Cardinality(A) + 1
  BY <1>4, <1>5, <1>7, FS_AddElement
<1>8. ASSUME Accepts(r), ~Accepts(r)' PROVE Cardinality(B) = Cardinality(A) - 1
  BY <1>4, <1>5, <1>8, FS_RemoveElement
<1> QED
  BY <1>1, <1>4, <1>6, <1>7, <1>8

\* What is locked for another request is not touched by a step of r: then that
\* request still holds what it needs.  (r is no request when a step is nobody's.)
LEMMA OthersHold ==
    ASSUME MembersAssumption, MembersInv, NEW r,
           \A q \in Requests : q # r => req'[q] = req[q],
           \A x \in Rows : locks[x] \notin {Nobody, r} => locks'[x] = locks[x],
           \A v \in 1..MaxUsers : locks[U(v)] \notin {Nobody, r} /\ Present(v) =>
               Present(v)' /\ (v \in Admins <=> v \in Admins'),
           \A l \in Links : locks[L(l)] \notin {Nobody, r} =>
               links'[l].state = links[l].state /\ links'[l].used = links[l].used,
           NEW q \in Requests, q # r
    PROVE  HoldsLink(q)' /\ HoldsUser(q)'
<1>0. /\ HoldsLink(q) /\ HoldsUser(q) /\ q # Nobody /\ req'[q] = req[q] /\ MembersTypes
  BY DEF MembersInv, MembersAssumption, Nobody
<1>1. HoldsLink(q)'
  BY <1>0, RowsApart DEF HoldsLink
<1>2. HoldsUser(q)'
  <2>1. req[q].pc \in Changing => req[q].id \in 1..MaxUsers
    BY <1>0 DEF HoldsUser
  <2>2. ASSUME req[q].pc \in {"admins", "lockAdmins", "write"}
        PROVE  /\ locks'[U(req[q].id)] = q /\ Present(req[q].id)'
               /\ req[q].id \in Admins <=> req[q].id \in Admins'
    <3>1. req[q].id \in 1..MaxUsers /\ locks[U(req[q].id)] = q /\ Present(req[q].id)
      BY <1>0, <2>2 DEF HoldsUser, Changing
    <3>2. req'[q].id = req[q].id
      BY <1>0
    <3> QED
      BY <1>0, <3>1, <3>2, RowsApart
  <2>3. ASSUME req[q].pc = "write", req[q].id \in Admins', req[q].to # "tenant_admin"
        PROVE  \E v \in Admins' : v # req[q].id /\ locks'[U(v)] = q
    <3>1. PICK v \in Admins : v # req[q].id /\ locks[U(v)] = q
      BY <1>0, <2>2, <2>3 DEF HoldsUser
    <3>2. v \in 1..MaxUsers /\ Present(v)
      BY <1>0, AdminsPresent
    <3> QED
      BY <1>0, <3>1, <3>2, RowsApart
  <2> QED
    BY <1>0, <2>1, <2>2, <2>3 DEF HoldsUser
<1> QED
  BY <1>1, <1>2

----------------------------------------------------------------------------
(* Steps that only lock and look                                            *)

\* A step of request r that leaves the tables alone.
LEMMA LookingStep ==
    ASSUME MembersAssumption, MembersInv, NEW r \in Requests, NEW x \in RequestType,
           req' = [req EXCEPT ![r] = x], UNCHANGED <<tenant, users, lastId, links, admitted>>,
           locks' \in [Rows -> Requests \union {Nobody}],
           \A y \in Rows : locks[y] \notin {Nobody, r} => locks'[y] = locks[y],
           tenant, Accepts(r)' => Accepts(r) \/ lastId + Accepting < MaxUsers,
           HoldsLink(r)', HoldsUser(r)'
    PROVE  MembersInv'
<1>0. MembersTypes /\ IdsUnique /\ IdsLeft /\ OneMembership /\ AdminRemains /\ UsesExact
  BY DEF MembersInv
<1>1. /\ req' \in [Requests -> RequestType] /\ \A q \in Requests : q # r => req'[q] = req[q]
  BY <1>0 DEF MembersTypes
<1>2. MembersTypes' /\ IdsUnique' /\ NothingBefore'
  BY <1>0, <1>1 DEF MembersTypes, IdsUnique, NothingBefore
<1>3. OneMembership' /\ AdminRemains' /\ UsesExact' /\ IsFiniteSet(admitted)'
  BY <1>0 DEF OneMembership, AdminRemains, UsesExact, Admins, MembersInv
<1>4. IdsLeft'
  BY <1>0, <1>1, AcceptingMoves DEF IdsLeft, MembersTypes, MembersAssumption
<1>5. \A v : (Present(v) <=> Present(v)') /\ (v \in Admins <=> v \in Admins')
  BY DEF Present, Admins
<1>6. ASSUME NEW q \in Requests, q # r PROVE HoldsLink(q)' /\ HoldsUser(q)'
  BY <1>1, <1>5, <1>6, OthersHold
<1> QED
  BY <1>2, <1>3, <1>4, <1>6 DEF MembersInv

LEMMA IdleIsRequest == ASSUME MembersAssumption PROVE Idle \in RequestType
  BY DEF Idle, RequestType, Roles, MembersAssumption

\* A transaction that ends gives its locks back and nobody else's.
LEMMA EndMoves ==
    ASSUME MembersAssumption, MembersTypes, NEW r \in Requests, End(r)
    PROVE  /\ Idle \in RequestType /\ req' = [req EXCEPT ![r] = Idle] /\ req'[r] = Idle
           /\ \A q \in Requests : q # r => req'[q] = req[q]
           /\ locks' \in [Rows -> Requests \union {Nobody}]
           /\ \A y \in Rows : locks[y] \notin {Nobody, r} => locks'[y] = locks[y]
           /\ HoldsLink(r)' /\ HoldsUser(r)' /\ ~Accepts(r)'
<1>1. Idle \in RequestType
  BY IdleIsRequest
<1>2. req' = [req EXCEPT ![r] = Idle] /\ locks' = Unlocked(r)
  BY DEF End
<1>3. req'[r] = Idle /\ \A q \in Requests : q # r => req'[q] = req[q]
  BY <1>2 DEF MembersTypes
<1>4. /\ locks' \in [Rows -> Requests \union {Nobody}]
      /\ \A y \in Rows : locks[y] \notin {Nobody, r} => locks'[y] = locks[y]
  BY <1>2 DEF Unlocked, MembersTypes
<1>5. HoldsLink(r)' /\ HoldsUser(r)' /\ ~Accepts(r)'
  BY <1>3 DEF HoldsLink, HoldsUser, Accepts, Idle, Changing
<1> QED
  BY <1>1, <1>2, <1>3, <1>4, <1>5

\* A transaction ends without a change.
LEMMA EndStep ==
    ASSUME MembersAssumption, MembersInv, NEW r \in Requests, End(r), req[r].pc # "idle",
           UNCHANGED <<tenant, users, lastId, links, admitted>>
    PROVE  MembersInv'
<1>1. MembersTypes /\ tenant
  BY DEF MembersInv, NothingBefore
<1> QED
  BY <1>1, EndMoves, LookingStep

\* An acceptance begins, and counts its use under the lock of the link.
LEMMA AcceptStep ==
    ASSUME MembersAssumption, MembersInv, NEW r \in Requests,
           (\E l \in Links, i \in Identities : BeginAccept(r, l, i)) \/ Consume(r)
    PROVE  MembersInv'
<1>0. /\ MembersTypes /\ req[r] \in RequestType /\ locks \in [Rows -> Requests \union {Nobody}]
      /\ HoldsLink(r) /\ UNCHANGED <<tenant, users, lastId, links, admitted>>
  BY DEF MembersInv, MembersTypes, BeginAccept, Consume
<1>1. ASSUME NEW l \in Links, NEW i \in Identities, BeginAccept(r, l, i) PROVE MembersInv'
  <2> DEFINE x == [Idle EXCEPT !.pc = "consume", !.link = l, !.ident = i]
  <2>1. req' = [req EXCEPT ![r] = x] /\ locks' = locks /\ lastId + Accepting < MaxUsers
    BY <1>1 DEF BeginAccept
  <2>2. x \in RequestType /\ x.pc = "consume" /\ x.link = l /\ x.ident = i
    <3>1. Idle \in RequestType
      BY IdleIsRequest
    <3> QED
      BY <3>1 DEF RequestType
  <2> HIDE DEF x
  <2>3. req'[r] = x
    BY <1>0, <2>1 DEF MembersTypes
  <2>4. HoldsLink(r)' /\ HoldsUser(r)'
    BY <2>2, <2>3 DEF HoldsLink, HoldsUser, Changing
  <2>5. tenant
    BY <1>1 DEF BeginAccept, ValidLink, MembersInv, NothingBefore
  <2> QED
    BY <1>0, <2>1, <2>2, <2>4, <2>5, LookingStep
<1>2. CASE Consume(r)
  <2> DEFINE l == req[r].link
  <2>1. l \in Links /\ req[r].ident \in Identities /\ req[r].pc = "consume" /\ locks[L(l)] \in {Nobody, r}
    BY <1>0, <1>2 DEF Consume, HoldsLink, Free
  <2>2. CASE links[l].state = "live" /\ links[l].used < MaxUses[l]
    <3> DEFINE x == [req[r] EXCEPT !.pc = "insert"]
    <3>1. req' = [req EXCEPT ![r] = x] /\ locks' = [locks EXCEPT ![L(l)] = r]
      BY <1>2, <2>2 DEF Consume
    <3>2. x \in RequestType /\ x.pc = "insert" /\ x.link = l /\ x.ident = req[r].ident
      BY <1>0 DEF RequestType
    <3> HIDE DEF x
    <3>3. req'[r] = x
      BY <1>0, <3>1 DEF MembersTypes
    <3>4. /\ locks' \in [Rows -> Requests \union {Nobody}] /\ locks'[L(l)] = r
          /\ \A y \in Rows : locks[y] \notin {Nobody, r} => locks'[y] = locks[y]
      BY <1>0, <2>1, <3>1, RowsApart
    <3>5. HoldsLink(r)' /\ HoldsUser(r)'
      BY <1>0, <2>1, <2>2, <3>2, <3>3, <3>4 DEF HoldsLink, HoldsUser, Changing
    <3>6. tenant /\ Accepts(r)
      BY <2>1 DEF MembersInv, NothingBefore, Accepts
    <3> QED
      BY <1>0, <3>1, <3>2, <3>4, <3>5, <3>6, LookingStep
  <2>3. CASE ~(links[l].state = "live" /\ links[l].used < MaxUses[l])
    <3>1. End(r)
      BY <1>2, <2>3 DEF Consume
    <3> QED
      BY <1>0, <2>1, <3>1, EndStep
  <2> QED
    BY <2>2, <2>3
<1> QED
  BY <1>1, <1>2

\* A change begins, locks its user, and looks for the other administrators.
LEMMA ChangeStep ==
    ASSUME MembersAssumption, MembersInv, NEW r \in Requests,
           \/ \E u \in 1..MaxUsers, to \in Changes : BeginChange(r, u, to)
           \/ LockUser(r) \/ SeeAdmins(r)
    PROVE  MembersInv'
<1>0. /\ MembersTypes /\ req[r] \in RequestType /\ locks \in [Rows -> Requests \union {Nobody}]
      /\ HoldsUser(r) /\ UNCHANGED <<tenant, users, lastId, links, admitted>> /\ IdsUnique
  BY DEF MembersInv, MembersTypes, BeginChange, LockUser, SeeAdmins
<1>1. /\ \A v : Present(v)' <=> Present(v)
      /\ Admins' = Admins
  BY <1>0 DEF Present, Admins
<1>2. ASSUME NEW u \in 1..MaxUsers, NEW to \in Changes, BeginChange(r, u, to) PROVE MembersInv'
  <2> DEFINE x == [Idle EXCEPT !.pc = "lockUser", !.id = u, !.to = to]
  <2>1. req' = [req EXCEPT ![r] = x] /\ locks' = locks /\ tenant
    BY <1>2 DEF BeginChange
  <2>2. x \in RequestType /\ x.pc = "lockUser" /\ x.id = u
    <3>1. Idle \in RequestType /\ u \in 0..MaxUsers /\ to \in Roles \cup {"gone"}
      BY IdleIsRequest DEF MembersAssumption
    <3> QED
      BY <3>1 DEF RequestType, Changing
  <2> HIDE DEF x
  <2>3. req'[r] = x
    BY <1>0, <2>1 DEF MembersTypes
  <2>4. HoldsLink(r)' /\ HoldsUser(r)' /\ ~Accepts(r)'
    BY <2>2, <2>3 DEF HoldsLink, HoldsUser, Changing, Accepts
  <2> QED
    BY <1>0, <2>1, <2>2, <2>4, LookingStep
<1>3. CASE LockUser(r)
  <2> DEFINE u == req[r].id
  <2>1. req[r].pc = "lockUser" /\ u \in 1..MaxUsers /\ locks[U(u)] \in {Nobody, r}
    BY <1>0, <1>3 DEF LockUser, HoldsUser, Changing, Free
  <2>2. CASE ~Present(u)
    <3>1. End(r)
      BY <1>3, <2>2 DEF LockUser
    <3> QED
      BY <1>0, <2>1, <3>1, EndStep
  <2>3. CASE Present(u)
    <3> DEFINE pc == IF Role(u) = "tenant_admin" /\ req[r].to # "tenant_admin" THEN "admins" ELSE "write"
               x == [req[r] EXCEPT !.pc = pc]
    <3>1. req' = [req EXCEPT ![r] = x] /\ locks' = [locks EXCEPT ![U(u)] = r]
      BY <1>3, <2>3 DEF LockUser
    <3>2. pc \in {"admins", "write"} /\ (pc = "write" => u \notin Admins \/ req[r].to = "tenant_admin")
      BY <1>0, <2>3, RoleIs
    <3> HIDE DEF pc
    <3>3. x \in RequestType /\ x.pc = pc /\ x.id = u /\ x.to = req[r].to
      BY <1>0, <3>2 DEF RequestType, Changing
    <3> HIDE DEF x
    <3>4. req'[r] = x
      BY <1>0, <3>1 DEF MembersTypes
    <3>5. /\ locks' \in [Rows -> Requests \union {Nobody}] /\ locks'[U(u)] = r
          /\ \A y \in Rows : locks[y] \notin {Nobody, r} => locks'[y] = locks[y]
      BY <1>0, <2>1, <3>1, RowsApart
    <3>6. HoldsLink(r)' /\ ~Accepts(r)'
      BY <3>2, <3>3, <3>4 DEF HoldsLink, Accepts
    <3>7. HoldsUser(r)'
      BY <1>1, <2>1, <2>3, <3>2, <3>3, <3>4, <3>5 DEF HoldsUser, Changing
    <3>8. tenant
      BY <2>1 DEF MembersInv, NothingBefore
    <3> QED
      BY <1>0, <3>1, <3>3, <3>5, <3>6, <3>7, <3>8, LookingStep
  <2> QED
    BY <2>2, <2>3
<1>4. CASE SeeAdmins(r)
  <2> DEFINE x == [req[r] EXCEPT !.pc = "lockAdmins", !.seen = Admins]
  <2>1. req' = [req EXCEPT ![r] = x] /\ locks' = locks /\ req[r].pc = "admins"
    BY <1>4 DEF SeeAdmins
  <2>2. Admins \in SUBSET (1..MaxUsers)
    BY <1>0, AdminsPresent
  <2>3. x \in RequestType /\ x.pc = "lockAdmins" /\ x.id = req[r].id
    BY <1>0, <2>2 DEF RequestType, Changing
  <2> HIDE DEF x
  <2>4. req'[r] = x
    BY <1>0, <2>1 DEF MembersTypes
  <2>5. HoldsLink(r)' /\ ~Accepts(r)'
    BY <2>3, <2>4 DEF HoldsLink, Accepts
  <2>6. HoldsUser(r)'
    BY <1>0, <1>1, <2>1, <2>3, <2>4 DEF HoldsUser, Changing
  <2>7. tenant
    BY <2>1 DEF MembersInv, NothingBefore
  <2> QED
    BY <1>0, <2>1, <2>3, <2>5, <2>6, <2>7, LookingStep
<1> QED
  BY <1>2, <1>3, <1>4

\* ensure_other_admin_remains: with every administrator that was seen locked,
\* and two of them left, one stays whoever is changed.
LEMMA LockAdminsStep ==
    ASSUME MembersAssumption, MembersInv, NEW r \in Requests, LockAdmins(r)
    PROVE  MembersInv'
<1> DEFINE still == req[r].seen \cap Admins
           u == req[r].id
<1>0. /\ MembersTypes /\ req[r] \in RequestType /\ locks \in [Rows -> Requests \union {Nobody}]
      /\ HoldsUser(r) /\ UNCHANGED <<tenant, users, lastId, links, admitted>>
      /\ req[r].seen \in SUBSET (1..MaxUsers) /\ req[r].pc = "lockAdmins"
  BY DEF MembersInv, MembersTypes, LockAdmins, RequestType
<1>1. /\ \A v : Present(v)' <=> Present(v)
      /\ Admins' = Admins
  BY <1>0 DEF Present, Admins
<1>2. u \in 1..MaxUsers /\ locks[U(u)] = r /\ Present(u) /\ tenant
  BY <1>0 DEF HoldsUser, Changing, MembersInv, NothingBefore
<1>3. CASE Cardinality(still) <= 1
  <2>1. End(r)
    BY <1>3 DEF LockAdmins
  <2> QED
    BY <1>0, <2>1, EndStep
<1>4. CASE ~(Cardinality(still) <= 1)
  <2> DEFINE x == [req[r] EXCEPT !.pc = "write"]
  <2>1. /\ req' = [req EXCEPT ![r] = x]
        /\ locks' = [y \in Rows |-> IF y \in {U(v) : v \in still} THEN r ELSE locks[y]]
        /\ \A v \in req[r].seen : locks[U(v)] \in {Nobody, r}
    BY <1>4 DEF LockAdmins, Free
  <2>2. PICK v \in still : v # u
    <3>1. SUFFICES ASSUME still \subseteq {u} PROVE FALSE
      OBVIOUS
    <3>2. IsFiniteSet({u}) /\ Cardinality({u}) = 1
      BY FS_Singleton
    <3>3. still \in SUBSET {u}
      BY <3>1
    <3> HIDE DEF still, u
    <3>4. Cardinality(still) <= 1
      BY <3>2, <3>3, FS_Subset
    <3> QED
      BY <1>4, <3>4
  <2>3. x \in RequestType /\ x.pc = "write" /\ x.id = u
    BY <1>0 DEF RequestType, Changing
  <2> HIDE DEF x
  <2>4. req'[r] = x
    BY <1>0, <2>1 DEF MembersTypes
  <2>5. /\ locks' \in [Rows -> Requests \union {Nobody}]
        /\ \A y \in Rows : locks[y] \notin {Nobody, r} => locks'[y] = locks[y]
        /\ \A y \in Rows : locks[y] = r => locks'[y] = r
        /\ \A w \in still : U(w) \in Rows /\ locks'[U(w)] = r
    BY <1>0, <2>1, RowsApart
  <2>6. HoldsLink(r)' /\ ~Accepts(r)'
    BY <2>3, <2>4 DEF HoldsLink, Accepts
  <2>7. HoldsUser(r)'
    <3>1. locks'[U(u)] = r
      BY <1>2, <2>5, RowsApart
    <3>2. v \in Admins /\ v # u /\ locks'[U(v)] = r
      BY <2>2, <2>5
    <3> HIDE DEF u, still
    <3> QED
      BY <1>1, <1>2, <2>3, <2>4, <3>1, <3>2 DEF HoldsUser
  <2> QED
    BY <1>0, <1>2, <2>1, <2>3, <2>5, <2>6, <2>7, LookingStep
<1> QED
  BY <1>3, <1>4

----------------------------------------------------------------------------
(* Steps that write                                                         *)

\* What a change of user u does to the table: nothing to the others.
LEMMA ChangedUsers ==
    ASSUME MembersAssumption, MembersTypes, IdsUnique, OneMembership, NEW u, NEW to \in Roles \cup {"gone"},
           users' = (IF to = "gone" THEN Removed(u) ELSE Rerole(u, to)),
           UNCHANGED <<lastId, admitted>>
    PROVE  /\ users' \subseteq UserType /\ IdsUnique' /\ OneMembership'
           /\ \A v : v # u => (Present(v)' <=> Present(v)) /\ (v \in Admins' <=> v \in Admins)
           /\ Present(u) /\ to = "tenant_admin" => u \in Admins'
<1>1. CASE to = "gone"
  <2>1. users' = {x \in users : x.id # u}
    BY <1>1 DEF Removed
  <2> QED
    BY <1>1, <2>1, AdminsAre DEF MembersTypes, IdsUnique, OneMembership, Present, Admins
<1>2. CASE to # "gone"
  <2> DEFINE N(x) == IF x.id = u THEN [x EXCEPT !.role = to] ELSE x
  <2>1. users' = {N(x) : x \in users}
    BY <1>2 DEF Rerole
  <2>2. \A x \in users : /\ N(x) \in UserType /\ N(x).id = x.id /\ N(x).ident = x.ident
                         /\ x.id # u => N(x) = x
                         /\ x.id = u => N(x).role = to
    BY <1>2 DEF MembersTypes, UserType
  <2> HIDE DEF N
  <2>3. users' \subseteq UserType
    BY <2>1, <2>2
  <2>4. IdsUnique'
    BY <2>1, <2>2 DEF IdsUnique
  <2>5. OneMembership'
    BY <2>1, <2>2 DEF OneMembership
  <2>6. ASSUME NEW v, v # u PROVE (Present(v)' <=> Present(v)) /\ (v \in Admins' <=> v \in Admins)
    <3>1. \A x \in users' : x.id = v => x \in users
      BY <2>1, <2>2, <2>6
    <3>2. \A x \in users : x.id = v => x \in users'
      BY <2>1, <2>2, <2>6
    <3> QED
      BY <3>1, <3>2 DEF Present, Admins
  <2>7. ASSUME Present(u), to = "tenant_admin" PROVE u \in Admins'
    <3>1. PICK x \in users : x.id = u
      BY <2>7 DEF Present
    <3>2. N(x) \in users' /\ N(x).id = u /\ N(x).role = "tenant_admin"
      BY <2>1, <2>2, <2>7, <3>1
    <3> QED
      BY <3>2 DEF Admins
  <2> QED
    BY <2>3, <2>4, <2>5, <2>6, <2>7
<1> QED
  BY <1>1, <1>2

\* The change is written: if it takes the role of an administrator away, the
\* other one it holds remains.
LEMMA WriteStep ==
    ASSUME MembersAssumption, MembersInv, NEW r \in Requests, WriteChange(r)
    PROVE  MembersInv'
<1> DEFINE u == req[r].id
<1>0. /\ MembersTypes /\ req[r] \in RequestType /\ HoldsUser(r) /\ IdsUnique /\ OneMembership
      /\ UNCHANGED <<tenant, lastId, links, admitted>> /\ req[r].pc = "write" /\ End(r)
      /\ req[r].to \in Roles \cup {"gone"} /\ AdminRemains /\ IdsLeft
  BY DEF MembersInv, MembersTypes, WriteChange, RequestType
<1>1. u \in 1..MaxUsers /\ locks[U(u)] = r /\ Present(u) /\ tenant /\ r # Nobody
  BY <1>0 DEF HoldsUser, Changing, MembersInv, NothingBefore, MembersAssumption, Nobody
<1>2. users' = (IF req[r].to = "gone" THEN Removed(u) ELSE Rerole(u, req[r].to))
  BY DEF WriteChange
<1> HIDE DEF u
<1>3. /\ users' \subseteq UserType /\ IdsUnique' /\ OneMembership'
      /\ \A v : v # u => (Present(v)' <=> Present(v)) /\ (v \in Admins' <=> v \in Admins)
      /\ Present(u) /\ req[r].to = "tenant_admin" => u \in Admins'
  BY <1>0, <1>2, ChangedUsers
<1>4. /\ Idle \in RequestType /\ req' = [req EXCEPT ![r] = Idle]
      /\ \A q \in Requests : q # r => req'[q] = req[q]
      /\ locks' \in [Rows -> Requests \union {Nobody}]
      /\ \A y \in Rows : locks[y] \notin {Nobody, r} => locks'[y] = locks[y]
      /\ HoldsLink(r)' /\ HoldsUser(r)' /\ ~Accepts(r)'
  BY <1>0, EndMoves
<1>5. MembersTypes' /\ NothingBefore'
  <2>1. req' \in [Requests -> RequestType]
    BY <1>0, <1>4 DEF MembersTypes
  <2> QED
    BY <1>0, <1>1, <1>3, <1>4, <2>1 DEF MembersTypes, NothingBefore
<1>6. AdminRemains'
  <2>1. PICK v \in Admins : TRUE
    BY <1>0, <1>1 DEF AdminRemains
  <2>2. CASE u \in Admins /\ req[r].to # "tenant_admin"
    <3>1. \E w \in Admins : w # u
      BY <1>0, <2>2 DEF HoldsUser, u
    <3> QED
      BY <1>3, <3>1 DEF AdminRemains
  <2>3. CASE u \notin Admins
    BY <1>3, <2>1, <2>3 DEF AdminRemains
  <2>4. CASE req[r].to = "tenant_admin"
    BY <1>1, <1>3, <2>4 DEF AdminRemains
  <2> QED
    BY <2>2, <2>3, <2>4
<1>7. IdsLeft' /\ UsesExact' /\ IsFiniteSet(admitted)'
  <2>1. ~Accepts(r)
    BY <1>0 DEF Accepts
  <2>2. Accepting' = Accepting
    BY <1>4, <2>1, AcceptingMoves
  <2> QED
    BY <1>0, <2>2 DEF IdsLeft, UsesExact, MembersInv
<1>8. ASSUME NEW q \in Requests, q # r PROVE HoldsLink(q)' /\ HoldsUser(q)'
  <2>1. \A v \in 1..MaxUsers : locks[U(v)] \notin {Nobody, r} /\ Present(v) =>
            Present(v)' /\ (v \in Admins <=> v \in Admins')
    BY <1>1, <1>3
  <2>2. \A l \in Links : links'[l].state = links[l].state /\ links'[l].used = links[l].used
    BY <1>0
  <2> QED
    BY <1>4, <1>8, <2>1, <2>2, OthersHold
<1> QED
  BY <1>3, <1>4, <1>5, <1>6, <1>7, <1>8 DEF MembersInv

\* A member is inserted, with the use of its link, or the insertion is refused
\* by a constraint and everything is rolled back.
LEMMA InsertStep ==
    ASSUME MembersAssumption, MembersInv, NEW r \in Requests, InsertMember(r)
    PROVE  MembersInv'
<1> DEFINE l == req[r].link
           i == req[r].ident
           u == [id |-> lastId + 1, ident |-> i, email |-> EmailOf[i], role |-> LinkRole[l]]
<1>0. /\ MembersTypes /\ req[r] \in RequestType /\ HoldsLink(r) /\ IdsUnique /\ OneMembership
      /\ UNCHANGED tenant /\ req[r].pc = "insert" /\ End(r) /\ AdminRemains /\ IdsLeft /\ UsesExact
      /\ IsFiniteSet(admitted) /\ lastId \in Nat /\ MaxUsers \in Nat
  BY DEF MembersInv, MembersTypes, InsertMember, MembersAssumption
<1>1. /\ l \in Links /\ i \in Identities /\ locks[L(l)] = r /\ links[l].used < MaxUses[l]
      /\ tenant /\ r # Nobody /\ Accepts(r)
  BY <1>0 DEF HoldsLink, MembersInv, NothingBefore, MembersAssumption, Nobody, Accepts
<1>2. CASE ~Unique(i)
  <2>1. UNCHANGED <<tenant, users, lastId, links, admitted>>
    BY <1>0, <1>2 DEF InsertMember
  <2> QED
    BY <1>0, <2>1, EndStep
<1>3. CASE Unique(i)
  <2>1. /\ users' = users \union {u} /\ lastId' = lastId + 1
        /\ links' = [links EXCEPT ![l].used = @ + 1]
        /\ admitted' = admitted \union {[id |-> lastId + 1, link |-> l]}
    BY <1>3 DEF InsertMember
  <2>2. /\ req' \in [Requests -> RequestType] /\ \A q \in Requests : q # r => req'[q] = req[q]
        /\ locks' \in [Rows -> Requests \union {Nobody}]
        /\ \A y \in Rows : locks[y] \notin {Nobody, r} => locks'[y] = locks[y]
        /\ HoldsLink(r)' /\ HoldsUser(r)' /\ ~Accepts(r)'
    BY <1>0, EndMoves DEF MembersTypes
  <2>3. Accepting' = Accepting - 1 /\ Accepting' \in Nat /\ Accepting \in Nat
    BY <1>1, <2>2, AcceptingMoves
  <2>4. IdsLeft' /\ lastId + 1 \in 1..MaxUsers
    BY <1>0, <2>1, <2>3 DEF IdsLeft
  <2>5. u \in UserType /\ u.id = lastId + 1 /\ u.ident = i
    <3>1. EmailOf[i] \in Emails
      BY <1>1 DEF Emails
    <3> QED
      BY <1>1, <2>4, <3>1 DEF UserType, MembersAssumption
  <2> HIDE DEF u
  <2>6. \A k \in Links : /\ links'[k].state = links[k].state
                         /\ links'[k].used = IF k = l THEN links[k].used + 1 ELSE links[k].used
                         /\ links[k] \in LinkType /\ links'[k] \in LinkType
    <3>1. links' = [links EXCEPT ![l] = [links[l] EXCEPT !.used = links[l].used + 1]]
      BY <2>1
    <3>2. links[l] \in LinkType /\ links \in [Links -> LinkType]
      BY <1>0, <1>1 DEF MembersTypes
    <3>3. /\ [links[l] EXCEPT !.used = links[l].used + 1] \in LinkType
          /\ [links[l] EXCEPT !.used = links[l].used + 1].state = links[l].state
          /\ [links[l] EXCEPT !.used = links[l].used + 1].used = links[l].used + 1
      BY <3>2 DEF LinkType
    <3> QED
      BY <1>1, <3>1, <3>2, <3>3
  <2>7. links' \in [Links -> LinkType]
    BY <1>0, <2>1, <2>6 DEF MembersTypes
  <2>8. MembersTypes'
    BY <1>0, <1>1, <2>1, <2>2, <2>4, <2>5, <2>7 DEF MembersTypes
  <2>9. IdsUnique' /\ NothingBefore'
    <3>1. \A x \in users : x.id \in Nat /\ x.id <= lastId
      BY <1>0 DEF MembersTypes, UserType, IdsUnique
    <3>2. \A a \in admitted : a.id \in Nat /\ a.id <= lastId
      BY <1>0 DEF MembersTypes, IdsUnique
    <3> QED
      BY <1>0, <1>1, <2>1, <2>5, <3>1, <3>2 DEF IdsUnique, NothingBefore
  <2>10. OneMembership'
    BY <1>0, <1>3, <2>1, <2>5 DEF OneMembership, Unique
  <2>11. AdminRemains'
    BY <1>0, <1>1, <2>1 DEF AdminRemains, Admins
  <2>12. IsFiniteSet(admitted') /\ UsesExact'
    <3> DEFINE a == [id |-> lastId + 1, link |-> l]
               In(k) == {b \in admitted : b.link = k}
               In2(k) == {b \in admitted' : b.link = k}
    <3>1. a \notin admitted /\ a.link = l
      BY <1>0 DEF IdsUnique, MembersTypes
    <3>2. \A k \in Links : k # l => In2(k) = In(k)
      BY <2>1, <3>1
    <3>3. In2(l) = In(l) \cup {a} /\ a \notin In(l) /\ \A k \in Links : In(k) \in SUBSET admitted
      BY <2>1, <3>1
    <3>4. IsFiniteSet(admitted')
      BY <1>0, <2>1, FS_AddElement
    <3>5. \A k \in Links : IsFiniteSet(In(k))
      <4> HIDE DEF In
      <4> QED
        BY <1>0, <3>3, FS_Subset
    <3>6. Cardinality(In2(l)) = Cardinality(In(l)) + 1
      <4> HIDE DEF In, In2, a
      <4> QED
        BY <1>1, <3>3, <3>5, FS_AddElement
    <3>7. \A k \in Links : links[k].used = Cardinality(In(k)) /\ links[k].used <= MaxUses[k]
      BY <1>0 DEF UsesExact
    <3>8. \A k \in Links : links[k].used \in Nat /\ MaxUses[k] \in Nat
      BY <2>6 DEF LinkType, MembersAssumption
    <3>9. ASSUME NEW k \in Links
          PROVE  links'[k].used = Cardinality(In2(k)) /\ links'[k].used <= MaxUses[k]
      <4> HIDE DEF In, In2, a
      <4>1. CASE k = l
        BY <1>1, <2>6, <3>6, <3>7, <3>8, <4>1
      <4>2. CASE k # l
        BY <2>6, <3>2, <3>7, <4>2
      <4> QED
        BY <4>1, <4>2
    <3> QED
      BY <3>4, <3>9 DEF UsesExact
  <2>13. ASSUME NEW q \in Requests, q # r PROVE HoldsLink(q)' /\ HoldsUser(q)'
    <3>1. ASSUME NEW v \in 1..MaxUsers, Present(v)
          PROVE  Present(v)' /\ (v \in Admins <=> v \in Admins')
      <4>1. v # lastId + 1
        BY <1>0, <3>1 DEF Present, IdsUnique, MembersTypes, UserType
      <4>2. \A x \in users' : x.id = v <=> x \in users /\ x.id = v
        BY <2>1, <2>5, <4>1
      <4> QED
        BY <2>1, <3>1, <4>2 DEF Present, Admins
    <3>2. \A k \in Links : locks[L(k)] \notin {Nobody, r} =>
              links'[k].state = links[k].state /\ links'[k].used = links[k].used
      BY <1>1, <2>6
    <3> QED
      BY <2>2, <2>13, <3>1, <3>2, OthersHold
  <2> QED
    BY <2>2, <2>4, <2>8, <2>9, <2>10, <2>11, <2>12, <2>13 DEF MembersInv
<1> QED
  BY <1>2, <1>3

\* The first administrator of a tenant.
LEMMA FirstStep ==
    ASSUME MembersAssumption, MembersInv, Bootstrap \/ \E i \in Identities : SelfCreate(i)
    PROVE  MembersInv'
<1>0. /\ MembersTypes /\ IdsUnique /\ UsesExact /\ IsFiniteSet(admitted) /\ lastId \in Nat /\ MaxUsers \in Nat
      /\ UNCHANGED <<links, locks, req, admitted>> /\ ~tenant /\ tenant' = TRUE /\ lastId < MaxUsers
      /\ lastId' = lastId + 1
  BY DEF MembersInv, MembersTypes, Bootstrap, SelfCreate, MembersAssumption
<1>1. \A r \in Requests : req[r].pc = "idle"
  BY <1>0 DEF MembersInv, NothingBefore
<1>2. PICK u \in UserType : users' = {u} /\ u.id = lastId + 1 /\ u.role = "tenant_admin"
  <2>1. lastId + 1 \in 1..MaxUsers
    BY <1>0
  <2>2. CASE Bootstrap
    <3> DEFINE u == [id |-> lastId + 1, ident |-> "none", email |-> "root", role |-> "tenant_admin"]
    <3>1. users' = {u}
      BY <2>2 DEF Bootstrap
    <3>2. "root" \in Emails
      BY DEF Emails
    <3>3. "none" \in Identities \union {"none"} /\ "tenant_admin" \in Roles
      BY DEF Roles
    <3>4. u \in UserType
      BY <2>1, <3>2, <3>3 DEF UserType
    <3> QED
      BY <3>1, <3>4
  <2>3. ASSUME NEW i \in Identities, SelfCreate(i)
        PROVE  \E u \in UserType : users' = {u} /\ u.id = lastId + 1 /\ u.role = "tenant_admin"
    <3> DEFINE u == [id |-> lastId + 1, ident |-> i, email |-> EmailOf[i], role |-> "tenant_admin"]
    <3>1. users' = {u}
      BY <2>3 DEF SelfCreate
    <3>2. EmailOf[i] \in Emails
      BY DEF Emails
    <3>3. u \in UserType
      BY <2>1, <3>2 DEF UserType, Roles
    <3> QED
      BY <3>1, <3>3
  <2> QED
    BY <2>2, <2>3
<1>3. MembersTypes'
  BY <1>0, <1>2 DEF MembersTypes
<1>4. IdsUnique' /\ NothingBefore' /\ OneMembership' /\ AdminRemains'
  BY <1>0, <1>2 DEF IdsUnique, NothingBefore, OneMembership, AdminRemains, Admins, MembersTypes
<1>5. IdsLeft'
  <2>1. {q \in Requests : req'[q].pc \in {"consume", "insert"}} = {}
    BY <1>0, <1>1
  <2>2. Accepting' = 0
    BY <2>1, FS_EmptySet DEF Accepting
  <2> QED
    BY <1>0, <2>2 DEF IdsLeft
<1>6. UsesExact' /\ IsFiniteSet(admitted)'
  BY <1>0 DEF UsesExact
<1>7. ASSUME NEW r \in Requests PROVE HoldsLink(r)' /\ HoldsUser(r)'
  BY <1>0, <1>1 DEF HoldsLink, HoldsUser, Changing
<1> QED
  BY <1>3, <1>4, <1>5, <1>6, <1>7 DEF MembersInv

\* Links are created, expire, and are revoked while nobody holds them.
LEMMA LinkStep ==
    ASSUME MembersAssumption, MembersInv, NEW l \in Links,
           CreateLink(l) \/ RevokeLink(l) \/ LinkExpires(l)
    PROVE  MembersInv'
<1>0. /\ MembersTypes /\ IdsUnique /\ UsesExact /\ IsFiniteSet(admitted) /\ IdsLeft /\ OneMembership
      /\ AdminRemains /\ UNCHANGED <<tenant, users, lastId, locks, req, admitted>>
      /\ links \in [Links -> LinkType] /\ links[l] \in LinkType
  BY DEF MembersInv, MembersTypes, CreateLink, RevokeLink, LinkExpires
<1>1. tenant
  BY DEF CreateLink, RevokeLink, LinkExpires, MembersInv, NothingBefore
<1>2. PICK x \in LinkType : /\ links' = [links EXCEPT ![l] = x] /\ x.used = links[l].used
                            /\ x.state = links[l].state \/ links[l].state = "none" \/ locks[L(l)] = Nobody
  <2>1. CASE CreateLink(l)
    <3> DEFINE x == [links[l] EXCEPT !.state = "live"]
    <3>1. links' = [links EXCEPT ![l] = x] /\ links[l].state = "none"
      BY <2>1 DEF CreateLink
    <3>2. x \in LinkType /\ x.used = links[l].used
      BY <1>0 DEF LinkType
    <3> QED
      BY <3>1, <3>2
  <2>2. CASE RevokeLink(l)
    <3> DEFINE x == [links[l] EXCEPT !.state = "revoked"]
    <3>1. links' = [links EXCEPT ![l] = x] /\ locks[L(l)] = Nobody
      BY <2>2 DEF RevokeLink
    <3>2. x \in LinkType /\ x.used = links[l].used
      BY <1>0 DEF LinkType
    <3> QED
      BY <3>1, <3>2
  <2>3. CASE LinkExpires(l)
    <3> DEFINE x == [links[l] EXCEPT !.expired = TRUE]
    <3>1. links' = [links EXCEPT ![l] = x]
      BY <2>3 DEF LinkExpires
    <3>2. x \in LinkType /\ x.used = links[l].used /\ x.state = links[l].state
      BY <1>0 DEF LinkType
    <3> QED
      BY <3>1, <3>2
  <2> QED
    BY <2>1, <2>2, <2>3
<1>3. \A k \in Links : links'[k].used = links[k].used /\ (k # l => links'[k] = links[k])
  BY <1>0, <1>2
<1>4. MembersTypes' /\ NothingBefore'
  BY <1>0, <1>1, <1>2 DEF MembersTypes, NothingBefore
<1>5. IdsUnique' /\ OneMembership' /\ AdminRemains' /\ IdsLeft' /\ UsesExact' /\ IsFiniteSet(admitted)'
  BY <1>0, <1>3 DEF IdsUnique, OneMembership, AdminRemains, Admins, IdsLeft, Accepting, UsesExact
<1>6. ASSUME NEW r \in Requests PROVE HoldsLink(r)' /\ HoldsUser(r)'
  <2>1. HoldsLink(r) /\ HoldsUser(r) /\ r # Nobody
    BY DEF MembersInv, MembersAssumption, Nobody
  <2>2. HoldsUser(r)'
    BY <1>0, <2>1 DEF HoldsUser, Present, Admins
  <2>3. req[r].pc = "insert" /\ req[r].link = l => links'[l].state = "live"
    BY <1>0, <1>2, <2>1 DEF HoldsLink
  <2> QED
    BY <1>0, <1>3, <2>1, <2>2, <2>3 DEF HoldsLink
<1> QED
  BY <1>4, <1>5, <1>6 DEF MembersInv

LEMMA MembersInit == ASSUME MembersAssumption, Init PROVE MembersInv
<1>1. Idle \in RequestType
  BY IdleIsRequest
<1>2. MembersTypes
  <2>1. tenant \in BOOLEAN /\ users \subseteq UserType /\ admitted \subseteq [id : 1..MaxUsers, link : Links]
    BY DEF Init
  <2>2. lastId \in 0..MaxUsers
    BY DEF Init, MembersAssumption
  <2>3. links \in [Links -> LinkType]
    BY DEF Init, LinkType
  <2>4. locks \in [Rows -> Requests \union {Nobody}] /\ req \in [Requests -> RequestType]
    BY <1>1 DEF Init
  <2> QED
    BY <2>1, <2>2, <2>3, <2>4 DEF MembersTypes
<1>3. IsFiniteSet(admitted) /\ Cardinality({}) = 0
  BY FS_EmptySet DEF Init
<1>4. IdsUnique /\ NothingBefore /\ OneMembership /\ AdminRemains
  <2>1. users = {} /\ admitted = {} /\ ~tenant
    BY DEF Init
  <2>2. IdsUnique /\ OneMembership
    BY <2>1 DEF IdsUnique, OneMembership
  <2>3. AdminRemains
    BY <2>1 DEF AdminRemains
  <2>4. NothingBefore
    BY DEF Init, NothingBefore, Idle
  <2> QED
    BY <2>2, <2>3, <2>4
<1>5. UsesExact
  <2>1. \A l \in Links : {a \in admitted : a.link = l} = {}
    BY DEF Init
  <2> QED
    BY <1>3, <2>1 DEF Init, UsesExact, MembersAssumption
<1>6. IdsLeft
  <2>1. {q \in Requests : req[q].pc \in {"consume", "insert"}} = {}
    BY DEF Init, Idle
  <2>2. Accepting = 0
    BY <1>3, <2>1 DEF Accepting
  <2> QED
    BY <2>2 DEF Init, IdsLeft, MembersAssumption
<1>7. ASSUME NEW r \in Requests PROVE HoldsLink(r) /\ HoldsUser(r)
  BY DEF Init, Idle, HoldsLink, HoldsUser, Changing
<1> QED
  BY <1>2, <1>3, <1>4, <1>5, <1>6, <1>7 DEF MembersInv

LEMMA MembersStep == ASSUME MembersAssumption, MembersInv, [Next]_vars PROVE MembersInv'
<1>1. CASE UNCHANGED vars
  BY <1>1 DEF vars, MembersInv, MembersTypes, IdsUnique, NothingBefore, IdsLeft, Accepting,
              OneMembership, AdminRemains, Admins, UsesExact, HoldsLink, HoldsUser, Present
<1>2. ASSUME NEW r \in Requests, DeadlockDetected(r) PROVE MembersInv'
  <2>1. End(r) /\ UNCHANGED <<tenant, users, lastId, links, admitted>> /\ req[r].pc # "idle"
    BY <1>2 DEF DeadlockDetected, Waits
  <2> QED
    BY <2>1, EndStep
<1> QED
  BY <1>1, <1>2, FirstStep, LinkStep, AcceptStep, ChangeStep, LockAdminsStep, WriteStep, InsertStep
  DEF Next, Step

LEMMA MembersInvariant == ASSUME MembersAssumption PROVE Spec => []MembersInv
  BY MembersInit, MembersStep, PTL DEF Spec

----------------------------------------------------------------------------
(* Theorems                                                                 *)

\* The types.
THEOREM MembersTypeCorrect == ASSUME MembersAssumption PROVE Spec => []TypeOK
<1>1. MembersInv => TypeOK
  BY DEF MembersInv, MembersTypes, UserType, LinkType, RequestType, Changing, TypeOK
<1> QED
  BY <1>1, MembersInvariant, PTL

\* However many role changes and removals run at once, a tenant keeps an
\* administrator (ensure_other_admin_remains and its locks).
THEOREM AdminAlwaysRemains == ASSUME MembersAssumption PROVE Spec => []AdminRemains
<1>1. MembersInv => AdminRemains
  BY DEF MembersInv
<1> QED
  BY <1>1, MembersInvariant, PTL

\* An external identity is at most one member, although two acceptances of it
\* may both have found none.
THEOREM MembershipIsUnique == ASSUME MembersAssumption PROVE Spec => []OneMembership
<1>1. MembersInv => OneMembership
  BY DEF MembersInv
<1> QED
  BY <1>1, MembersInvariant, PTL

\* The uses of a link are the members that entered through it, and at most as
\* many as it allows (consume_join_link_use_tx).
THEOREM LinkUsesExact == ASSUME MembersAssumption PROVE Spec => []UsesExact
<1>1. MembersInv => UsesExact
  BY DEF MembersInv
<1> QED
  BY <1>1, MembersInvariant, PTL

\* A step counts no use of a link that is revoked.
LEMMA RevokedStep ==
    ASSUME MembersAssumption, MembersInv, [Next]_vars, NEW l \in Links, links[l].state = "revoked"
    PROVE  links'[l].used = links[l].used
<1>0. links \in [Links -> LinkType]
  BY DEF MembersInv, MembersTypes
<1>1. CASE UNCHANGED vars \/ Bootstrap \/ \E i \in Identities : SelfCreate(i)
  BY <1>1 DEF vars, Bootstrap, SelfCreate
<1>2. ASSUME NEW k \in Links, CreateLink(k) \/ RevokeLink(k) \/ LinkExpires(k)
      PROVE  links'[l].used = links[l].used
  BY <1>0, <1>2 DEF CreateLink, RevokeLink, LinkExpires, LinkType
<1>3. ASSUME NEW r \in Requests, InsertMember(r) PROVE links'[l].used = links[l].used
  <2>1. links' = links \/ links' = [links EXCEPT ![req[r].link].used = @ + 1]
    BY <1>3 DEF InsertMember
  <2>2. req[r].link # l
    BY <1>3 DEF MembersInv, HoldsLink, InsertMember
  <2> QED
    BY <1>0, <2>1, <2>2
<1>4. ASSUME NEW r \in Requests,
             \/ \E k \in Links, i \in Identities : BeginAccept(r, k, i)
             \/ \E u \in 1..MaxUsers, to \in Changes : BeginChange(r, u, to)
             \/ Consume(r) \/ LockUser(r) \/ SeeAdmins(r) \/ LockAdmins(r) \/ WriteChange(r)
             \/ DeadlockDetected(r)
      PROVE  links' = links
  BY <1>4, Zenon DEF BeginAccept, BeginChange, Consume, LockUser, SeeAdmins, LockAdmins, WriteChange,
                     DeadlockDetected
<1> QED
  BY <1>1, <1>2, <1>3, <1>4 DEF Next, Step

\* Nobody enters through a link once it is revoked, even if the link was valid
\* when the request began: the transaction that counted its use holds the row.
THEOREM RevokedLinksClosed == ASSUME MembersAssumption PROVE Spec => RevokedLinkClosed
<1>1. MembersInv /\ [Next]_vars =>
          [\A l \in Links : links[l].state = "revoked" => links'[l].used = links[l].used]_vars
  BY RevokedStep
<1> QED
  BY <1>1, MembersInvariant, PTL DEF Spec, RevokedLinkClosed

\* Everything the runs check of the membership tables, for any number of identities, links and
\* requests.
THEOREM MembersAreSafe == ASSUME MembersAssumption PROVE Spec => []MembersSafe
BY MembersTypeCorrect, AdminAlwaysRemains, LinkUsesExact, MembershipIsUnique, PTL
   DEF MembersSafe

=============================================================================
