--------------------------- MODULE GrpcConnections ---------------------------
(***************************************************************************)
(* The transports of the Hub's gRPC listener: a global semaphore, a slot    *)
(* per source address until a credential is accepted, then a slot per       *)
(* agent and tenant.  A call holds a share of its transport's slot, so a    *)
(* slot may outlive the transport.                                          *)
(***************************************************************************)
EXTENDS Naturals, FiniteSets

CONSTANTS Conns,        \* transports, each dialled once
          Peers, Agents, Tenants,
          TenantOf,     \* [Agents -> Tenants]
          MaxConns,     \* max_connections
          MaxPeer,      \* max_unauthenticated_connections_per_peer
          MaxAgent,     \* MAX_AUTHENTICATED_CONNECTIONS_PER_AGENT (8)
          MaxTenant,    \* MAX_AUTHENTICATED_CONNECTIONS_PER_TENANT (128)
          Tls           \* whether the listener speaks TLS

ASSUME GrpcAssumption ==
    /\ IsFiniteSet(Conns) /\ MaxConns \in Nat \ {0} /\ MaxPeer \in Nat \ {0}
    /\ MaxAgent \in Nat \ {0} /\ MaxTenant \in Nat \ {0} /\ TenantOf \in [Agents -> Tenants] /\ Tls \in BOOLEAN

VARIABLES phase,    \* where a transport is
          peer,     \* its source address
          slot,     \* its slot: none, held for its peer, or held for an agent
          calls,    \* whether a call that has not finished its hello shares the slot
          permits,  \* free permits of the semaphore
          ready,    \* the listener holds a permit and accepts
          counts    \* the counts of peers, agents and tenants

grpcVars == <<phase, peer, slot, calls, permits, ready, counts>>

Free == [kind |-> "none"]
Setup(p) == [kind |-> "setup", peer |-> p]
Authenticated(a) == [kind |-> "auth", agent |-> a]

GrpcTypeOK ==
    /\ phase \in [Conns -> {"new", "backlog", "handshake", "preface", "up", "gone"}]
    /\ peer \in [Conns -> Peers] /\ calls \in [Conns -> BOOLEAN]
    /\ slot \in [Conns -> {Free} \cup {Setup(p) : p \in Peers} \cup {Authenticated(a) : a \in Agents}]
    /\ permits \in 0..MaxConns /\ ready \in BOOLEAN
    /\ counts \in [peers : [Peers -> Nat], agents : [Agents -> Nat], tenants : [Tenants -> Nat]]

GrpcInit ==
    /\ phase = [c \in Conns |-> "new"] /\ peer \in [Conns -> Peers]
    /\ slot = [c \in Conns |-> Free] /\ calls = [c \in Conns |-> FALSE]
    /\ permits = MaxConns /\ ready = FALSE
    /\ counts = [peers |-> [p \in Peers |-> 0], agents |-> [a \in Agents |-> 0],
                 tenants |-> [t \in Tenants |-> 0]]

\* try_acquire.
CanAcquire(p) == counts.peers[p] < MaxPeer
TryAcquire(p) == [counts EXCEPT !.peers[p] = @ + 1]

\* authenticate: the slot moves from its peer to an agent, if the quotas allow it.
CanAuthenticate(a) == counts.agents[a] < MaxAgent /\ counts.tenants[TenantOf[a]] < MaxTenant
Authenticate(c, a) ==
    /\ counts' = [counts EXCEPT !.peers[slot[c].peer] = @ - 1, !.agents[a] = @ + 1,
                                !.tenants[TenantOf[a]] = @ + 1]
    /\ slot' = [slot EXCEPT ![c] = Authenticated(a)]

\* release: what the last holder of a slot gives back.
Released(s) ==
    IF s.kind = "setup" THEN [counts EXCEPT !.peers[s.peer] = @ - 1]
    ELSE IF s.kind = "auth"
    THEN [counts EXCEPT !.agents[s.agent] = @ - 1, !.tenants[TenantOf[s.agent]] = @ - 1]
    ELSE counts

\* Mutant: the transport gives the slot back although a call still shares it.
DropShareEarly(c, last) ==
    counts' = Released(slot[c]) /\ slot' = [slot EXCEPT ![c] = Free]

\* The share of the transport, or of its call, in the slot is dropped.
DropShare(c, last) ==
    IF last THEN counts' = Released(slot[c]) /\ slot' = [slot EXCEPT ![c] = Free]
    ELSE UNCHANGED <<counts, slot>>

-----------------------------------------------------------------------------
\* incoming: the listener takes a permit before it accepts.
Dial(c) ==
    /\ phase[c] = "new" /\ phase' = [phase EXCEPT ![c] = "backlog"]
    /\ UNCHANGED <<peer, slot, calls, permits, ready, counts>>
TakePermit ==
    /\ ~ready /\ permits > 0 /\ ready' = TRUE /\ permits' = permits - 1
    /\ UNCHANGED <<phase, peer, slot, calls, counts>>
Accept(c) ==
    /\ ready /\ phase[c] = "backlog" /\ ready' = FALSE
    /\ IF CanAcquire(peer[c])
       THEN /\ counts' = TryAcquire(peer[c]) /\ slot' = [slot EXCEPT ![c] = Setup(peer[c])]
            /\ phase' = [phase EXCEPT ![c] = IF Tls THEN "handshake" ELSE "preface"] /\ UNCHANGED permits
       ELSE /\ permits' = permits + 1 /\ phase' = [phase EXCEPT ![c] = "gone"]
            /\ UNCHANGED <<counts, slot>>
    /\ UNCHANGED <<peer, calls>>

AcceptFails ==
    /\ ready /\ ready' = FALSE /\ permits' = permits + 1
    /\ UNCHANGED <<phase, peer, slot, calls, counts>>

\* The transport is dropped: the handshake fails or times out, the preface does not come in time,
\* or the connection ends.
Drop(c) ==
    /\ phase' = [phase EXCEPT ![c] = "gone"] /\ permits' = permits + 1
    /\ DropShare(c, ~calls[c]) /\ UNCHANGED <<peer, calls, ready>>
HandshakeEnds(c, ok) ==
    /\ phase[c] = "handshake"
    /\ IF ok THEN phase' = [phase EXCEPT ![c] = "preface"]
                  /\ UNCHANGED <<peer, slot, calls, permits, ready, counts>>
       ELSE Drop(c)
PrefaceArrives(c) ==
    /\ phase[c] = "preface" /\ phase' = [phase EXCEPT ![c] = "up"]
    /\ UNCHANGED <<peer, slot, calls, permits, ready, counts>>

PrefaceTimesOut(c) == phase[c] = "preface" /\ Drop(c)
ConnectionEnds(c) == phase[c] = "up" /\ Drop(c)

\* A reverse-connect or camera call starts and waits for its hello.
CallStarts(c) ==
    /\ phase[c] = "up" /\ ~calls[c] /\ calls' = [calls EXCEPT ![c] = TRUE]
    /\ UNCHANGED <<phase, peer, slot, permits, ready, counts>>

\* The call drops its share: no hello came, it was refused, or its credential was accepted.
CallEnds(c) ==
    /\ calls[c] /\ calls' = [calls EXCEPT ![c] = FALSE]
    /\ DropShare(c, phase[c] = "gone") /\ UNCHANGED <<phase, peer, permits, ready>>

\* mark_authenticated after the credential of agent a was accepted; the call keeps its share until
\* it ends (CallEnds).  The transport may have gone meanwhile.
MarkAuthenticated(c, a) ==
    /\ calls[c] /\ slot[c].kind = "setup" /\ CanAuthenticate(a)
    /\ Authenticate(c, a) /\ UNCHANGED <<phase, peer, calls, permits, ready>>

-----------------------------------------------------------------------------
GrpcNext ==
    \/ TakePermit \/ AcceptFails
    \/ \E c \in Conns :
          \/ Dial(c) \/ Accept(c) \/ \E ok \in BOOLEAN : HandshakeEnds(c, ok)
          \/ PrefaceArrives(c) \/ PrefaceTimesOut(c) \/ ConnectionEnds(c)
          \/ CallStarts(c) \/ CallEnds(c) \/ \E a \in Agents : MarkAuthenticated(c, a)

GrpcSpec == GrpcInit /\ [][GrpcNext]_grpcVars

\* The listener goes on accepting, its backlog is served in order and errors of accept pass;
\* set-up deadlines fire.
Fairness ==
    /\ WF_grpcVars(TakePermit) /\ \A c \in Conns : SF_grpcVars(Accept(c))
    /\ \A c \in Conns : WF_grpcVars(HandshakeEnds(c, FALSE)) /\ WF_grpcVars(PrefaceTimesOut(c))
LiveSpec == GrpcSpec /\ Fairness

-----------------------------------------------------------------------------
\* The counts are the slots that are held, so that a release finds its count ("gRPC connection
\* permit count") and no quota leaks, although a slot is shared by a transport and its calls.
CountsExact ==
    /\ \A p \in Peers : counts.peers[p] = Cardinality({c \in Conns : slot[c] = Setup(p)})
    /\ \A a \in Agents : counts.agents[a] = Cardinality({c \in Conns : slot[c] = Authenticated(a)})
    /\ \A t \in Tenants : counts.tenants[t] =
           Cardinality({c \in Conns : slot[c].kind = "auth" /\ TenantOf[slot[c].agent] = t})

\* A slot is held exactly as long as its transport or one of its calls lives.
SlotsHeld == \A c \in Conns :
    (slot[c] # Free) <=> (phase[c] \in {"handshake", "preface", "up"} \/ calls[c])

\* "64 simultaneous unauthenticated/setup transports per source IP", "established quotas of 8
\* connections per Agent and 128 per tenant", "at most 1,024 transports globally".
QuotasHold ==
    /\ \A p \in Peers : counts.peers[p] <= MaxPeer
    /\ \A a \in Agents : counts.agents[a] <= MaxAgent
    /\ \A t \in Tenants : counts.tenants[t] <= MaxTenant
    /\ Cardinality({c \in Conns : phase[c] \in {"handshake", "preface", "up"}})
          + permits + (IF ready THEN 1 ELSE 0) = MaxConns

\* The counts of the connection quotas are the slots that are held, a slot is held as long as its
\* transport or one of its calls lives, and the quotas of peers, agents, tenants and the listener
\* hold (grpc_connection_limit.rs).
SlotsExact == GrpcTypeOK /\ CountsExact /\ SlotsHeld /\ QuotasHold

\* Clients that connect and stay silent cannot keep the listener from the next one: with every
\* transport in set-up, a permit comes free and the next client is answered.
NextIsAnswered ==
    \A c \in Conns : (phase[c] = "backlog" /\ \A d \in Conns : phase[d] # "up")
        ~> (phase[c] # "backlog" \/ \E d \in Conns : phase[d] = "up")
=============================================================================
