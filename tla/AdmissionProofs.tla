---------------------------- MODULE AdmissionProofs ----------------------------
(***************************************************************************)
(* Proofs about what the hub lets in: the transports of the gRPC listener   *)
(* and the external tokens its verifier accepts.                            *)
(*                                                                         *)
(* The transports, for any number of transports, peers, agents and tenants  *)
(* and for any limits.  A step moves at most one slot and one transport, so  *)
(* each count changes by what that one contributed before and contributes   *)
(* after it.                                                               *)
(*                                                                         *)
(* The key cache, for any number of requests and keys and any TTL and        *)
(* cooldown.  The cache is as old as the last fetch, one request refreshes   *)
(* at a time, and what a request has in hand was young enough when it took   *)
(* it.                                                                     *)
(***************************************************************************)
EXTENDS GrpcConnections, JwksCache, FiniteSetTheorems, TLAPS

-----------------------------------------------------------------------------
(* The transports of the gRPC listener. *)


Slots == {Free} \cup {Setup(p) : p \in Peers} \cup {Authenticated(a) : a \in Agents}
Live == {"handshake", "preface", "up"}

\* The slots a peer, an agent and a tenant are charged for, and the transports that hold a permit.
OfPeer(p) == {c \in Conns : slot[c] = Setup(p)}
OfAgent(a) == {c \in Conns : slot[c] = Authenticated(a)}
OfTenant(t) == {c \in Conns : slot[c].kind = "auth" /\ TenantOf[slot[c].agent] = t}
Transports == {c \in Conns : phase[c] \in Live}

\* What one slot contributes to a count.
ForPeer(s, p) == IF s = Setup(p) THEN 1 ELSE 0
ForAgent(s, a) == IF s = Authenticated(a) THEN 1 ELSE 0
ForTenant(s, t) == IF s.kind = "auth" /\ TenantOf[s.agent] = t THEN 1 ELSE 0
ForListener(ph) == IF ph \in Live THEN 1 ELSE 0

\* A call starts on a transport that is up, and may outlive it.
CallsStartUp == \A c \in Conns : calls[c] => phase[c] \in {"up", "gone"}

GrpcInv == GrpcTypeOK /\ CountsExact /\ SlotsHeld /\ QuotasHold /\ CallsStartUp

-----------------------------------------------------------------------------
\* A set that differs from another in one transport has as many elements, but for that one.
LEMMA CountMoves ==
    ASSUME NEW S \in SUBSET Conns, NEW T \in SUBSET Conns, NEW c \in Conns,
           \A d \in Conns \ {c} : d \in S <=> d \in T
    PROVE  /\ Cardinality(S) \in Nat /\ Cardinality(T) \in Nat
           /\ Cardinality(T) = Cardinality(S) - (IF c \in S THEN 1 ELSE 0) + (IF c \in T THEN 1 ELSE 0)
<1>1. IsFiniteSet(S) /\ IsFiniteSet(T)
  BY GrpcAssumption, FS_Subset
<1>2. Cardinality(S) \in Nat /\ Cardinality(T) \in Nat
  BY <1>1, FS_CardinalityType
<1>3. S \ {c} = T \ {c}
  OBVIOUS
<1>4. /\ Cardinality(S \ {c}) = IF c \in S THEN Cardinality(S) - 1 ELSE Cardinality(S)
      /\ Cardinality(T \ {c}) = IF c \in T THEN Cardinality(T) - 1 ELSE Cardinality(T)
  BY <1>1, FS_RemoveElement
<1> QED
  BY <1>2, <1>3, <1>4

\* A set of transports has a count.
LEMMA CountIsNat == \A S \in SUBSET Conns : Cardinality(S) \in Nat
BY GrpcAssumption, FS_Subset, FS_CardinalityType

\* The three kinds of slots are told apart, and so are the slots of two peers or two agents.
LEMMA SlotShapes ==
    /\ Free.kind = "none"
    /\ \A p : Setup(p).kind = "setup" /\ Setup(p).peer = p
    /\ \A a : Authenticated(a).kind = "auth" /\ Authenticated(a).agent = a
    /\ \A s \in Slots : \/ s = Free
                        \/ s.kind = "setup" /\ s.peer \in Peers /\ s = Setup(s.peer)
                        \/ s.kind = "auth" /\ s.agent \in Agents /\ s = Authenticated(s.agent)
<1>1. Free.kind = "none"
  BY DEF Free
<1>2. \A p : Setup(p).kind = "setup" /\ Setup(p).peer = p
  BY DEF Setup
<1>3. \A a : Authenticated(a).kind = "auth" /\ Authenticated(a).agent = a
  BY DEF Authenticated
<1> QED
  BY <1>1, <1>2, <1>3 DEF Slots

\* The type of the state, in the terms used here.
LEMMA TypeFacts ==
    ASSUME GrpcTypeOK
    PROVE  /\ slot \in [Conns -> Slots] /\ counts.peers \in [Peers -> Nat]
           /\ counts.agents \in [Agents -> Nat] /\ counts.tenants \in [Tenants -> Nat]
           /\ \A c \in Conns : slot[c] \in Slots
BY DEF GrpcTypeOK, Slots
-----------------------------------------------------------------------------
\* A step that puts slot s in the place of c's moves each count by what c contributed and s
\* contributes (the slot itself is one of PeerConnections::counts, grpc_connection_limit/peer.rs).
LEMMA SlotMoves ==
    ASSUME GrpcTypeOK, NEW c \in Conns, NEW s \in Slots, slot' = [slot EXCEPT ![c] = s]
    PROVE  /\ \A p \in Peers : Cardinality(OfPeer(p))' =
                  Cardinality(OfPeer(p)) - ForPeer(slot[c], p) + ForPeer(s, p)
           /\ \A a \in Agents : Cardinality(OfAgent(a))' =
                  Cardinality(OfAgent(a)) - ForAgent(slot[c], a) + ForAgent(s, a)
           /\ \A t \in Tenants : Cardinality(OfTenant(t))' =
                  Cardinality(OfTenant(t)) - ForTenant(slot[c], t) + ForTenant(s, t)
<1>0. slot \in [Conns -> Slots]
  BY TypeFacts
<1>1. slot'[c] = s /\ \A d \in Conns \ {c} : slot'[d] = slot[d]
  BY <1>0
<1>2. ASSUME NEW p \in Peers
      PROVE  Cardinality(OfPeer(p))' = Cardinality(OfPeer(p)) - ForPeer(slot[c], p) + ForPeer(s, p)
  <2>1. /\ OfPeer(p) \in SUBSET Conns /\ OfPeer(p)' \in SUBSET Conns
        /\ \A d \in Conns \ {c} : d \in OfPeer(p) <=> d \in OfPeer(p)'
        /\ c \in OfPeer(p) <=> slot[c] = Setup(p)
        /\ c \in OfPeer(p)' <=> s = Setup(p)
    BY <1>1 DEF OfPeer
  <2> QED
    BY <2>1, CountMoves DEF ForPeer
<1>3. ASSUME NEW a \in Agents
      PROVE  Cardinality(OfAgent(a))' = Cardinality(OfAgent(a)) - ForAgent(slot[c], a) + ForAgent(s, a)
  <2>1. /\ OfAgent(a) \in SUBSET Conns /\ OfAgent(a)' \in SUBSET Conns
        /\ \A d \in Conns \ {c} : d \in OfAgent(a) <=> d \in OfAgent(a)'
        /\ c \in OfAgent(a) <=> slot[c] = Authenticated(a)
        /\ c \in OfAgent(a)' <=> s = Authenticated(a)
    BY <1>1 DEF OfAgent
  <2> QED
    BY <2>1, CountMoves DEF ForAgent
<1>4. ASSUME NEW t \in Tenants
      PROVE  Cardinality(OfTenant(t))' = Cardinality(OfTenant(t)) - ForTenant(slot[c], t) + ForTenant(s, t)
  <2>1. /\ OfTenant(t) \in SUBSET Conns /\ OfTenant(t)' \in SUBSET Conns
        /\ \A d \in Conns \ {c} : d \in OfTenant(t) <=> d \in OfTenant(t)'
        /\ c \in OfTenant(t) <=> slot[c].kind = "auth" /\ TenantOf[slot[c].agent] = t
        /\ c \in OfTenant(t)' <=> s.kind = "auth" /\ TenantOf[s.agent] = t
    BY <1>1 DEF OfTenant
  <2> QED
    BY <2>1, CountMoves DEF ForTenant
<1> QED
  BY <1>2, <1>3, <1>4

\* The counts of the sets above, as the invariant states them.
LEMMA CountsAre ==
    CountsExact <=> /\ \A p \in Peers : counts.peers[p] = Cardinality(OfPeer(p))
                    /\ \A a \in Agents : counts.agents[a] = Cardinality(OfAgent(a))
                    /\ \A t \in Tenants : counts.tenants[t] = Cardinality(OfTenant(t))
BY DEF CountsExact, OfPeer, OfAgent, OfTenant

\* A transport that changes its phase moves the permits in use by one at most.
LEMMA PhaseMoves ==
    ASSUME GrpcTypeOK, NEW c \in Conns, NEW ph, phase' = [phase EXCEPT ![c] = ph]
    PROVE  /\ Cardinality(Transports) \in Nat /\ Cardinality(Transports)' \in Nat
           /\ Cardinality(Transports)' = Cardinality(Transports) - ForListener(phase[c]) + ForListener(ph)
           /\ phase'[c] = ph /\ \A d \in Conns \ {c} : phase'[d] = phase[d]
<1>1. phase'[c] = ph /\ \A d \in Conns \ {c} : phase'[d] = phase[d]
  BY DEF GrpcTypeOK
<1>2. /\ Transports \in SUBSET Conns /\ Transports' \in SUBSET Conns
      /\ \A d \in Conns \ {c} : d \in Transports <=> d \in Transports'
      /\ c \in Transports <=> phase[c] \in Live
      /\ c \in Transports' <=> ph \in Live
  BY <1>1 DEF Transports
<1> QED
  BY <1>1, <1>2, CountMoves DEF ForListener

\* The permits: a transport holds one, the listener one while it accepts, and the rest are free.
Permits == Cardinality(Transports) + permits + (IF ready THEN 1 ELSE 0) = MaxConns
WithinQuotas ==
    /\ \A p \in Peers : counts.peers[p] <= MaxPeer
    /\ \A a \in Agents : counts.agents[a] <= MaxAgent
    /\ \A t \in Tenants : counts.tenants[t] <= MaxTenant
LEMMA QuotasAre == QuotasHold <=> WithinQuotas /\ Permits
BY DEF QuotasHold, WithinQuotas, Permits, Transports, Live

-----------------------------------------------------------------------------
CountTypes(N) == [peers : [Peers -> N], agents : [Agents -> N], tenants : [Tenants -> N]]

\* What slot s in the place of c's does to the counts.
Moved(c, s) ==
    /\ \A p \in Peers : counts'.peers[p] = counts.peers[p] - ForPeer(slot[c], p) + ForPeer(s, p)
    /\ \A a \in Agents : counts'.agents[a] = counts.agents[a] - ForAgent(slot[c], a) + ForAgent(s, a)
    /\ \A t \in Tenants : counts'.tenants[t] = counts.tenants[t] - ForTenant(slot[c], t) + ForTenant(s, t)

\* Counts that move with a slot stay exact, and never fall below zero: a release finds its count
\* (the expect and the subtraction of decrement, grpc_connection_limit/peer.rs).
LEMMA CountsStep ==
    ASSUME GrpcInv, NEW c \in Conns, NEW s \in Slots, slot' = [slot EXCEPT ![c] = s],
           counts' \in CountTypes(Int), Moved(c, s)
    PROVE  CountsExact' /\ counts' \in CountTypes(Nat)
<1> USE DEF GrpcInv
<1>1. CountsExact'
  <2>1. /\ \A p \in Peers : counts.peers[p] = Cardinality(OfPeer(p))
        /\ \A a \in Agents : counts.agents[a] = Cardinality(OfAgent(a))
        /\ \A t \in Tenants : counts.tenants[t] = Cardinality(OfTenant(t))
    BY CountsAre
  <2>2. /\ \A p \in Peers : counts'.peers[p] = Cardinality(OfPeer(p))'
        /\ \A a \in Agents : counts'.agents[a] = Cardinality(OfAgent(a))'
        /\ \A t \in Tenants : counts'.tenants[t] = Cardinality(OfTenant(t))'
    BY <2>1, SlotMoves DEF Moved
  <2> QED
    BY <2>2 DEF CountsExact, OfPeer, OfAgent, OfTenant
<1>2. /\ \A p \in Peers : counts'.peers[p] \in Nat
      /\ \A a \in Agents : counts'.agents[a] \in Nat
      /\ \A t \in Tenants : counts'.tenants[t] \in Nat
  BY <1>1, CountIsNat DEF CountsExact
<1> QED
  BY <1>1, <1>2 DEF CountTypes

\* What the last holder of a slot gives back is what the slot contributed.
LEMMA ReleaseMoves ==
    ASSUME GrpcTypeOK, NEW c \in Conns, counts' = Released(slot[c])
    PROVE  counts' \in CountTypes(Int) /\ Moved(c, Free)
<1>1. slot[c] \in Slots
  BY TypeFacts
<1>2. counts \in CountTypes(Nat)
  BY DEF GrpcTypeOK, CountTypes
<1>3. /\ \A p \in Peers : ForPeer(Free, p) = 0
      /\ \A a \in Agents : ForAgent(Free, a) = 0
      /\ \A t \in Tenants : ForTenant(Free, t) = 0
  BY SlotShapes DEF ForPeer, ForAgent, ForTenant
<1>4. CASE slot[c] = Free
  <2>1. counts' = counts
    BY <1>4, SlotShapes DEF Released
  <2> QED
    BY <1>2, <1>3, <1>4, <2>1 DEF CountTypes, Moved
<1>5. CASE slot[c].kind = "setup" /\ slot[c].peer \in Peers /\ slot[c] = Setup(slot[c].peer)
  <2> DEFINE q == slot[c].peer
  <2>1. counts' = [counts EXCEPT !.peers[q] = @ - 1]
    BY <1>5 DEF Released
  <2>2. /\ \A p \in Peers : ForPeer(slot[c], p) = IF p = q THEN 1 ELSE 0
        /\ \A a \in Agents : ForAgent(slot[c], a) = 0
        /\ \A t \in Tenants : ForTenant(slot[c], t) = 0
    BY <1>5, SlotShapes DEF ForPeer, ForAgent, ForTenant
  <2>3. q \in Peers
    BY <1>5
  <2> HIDE DEF q
  <2> QED
    BY <1>2, <1>3, <2>1, <2>2, <2>3 DEF CountTypes, Moved
<1>6. CASE slot[c].kind = "auth" /\ slot[c].agent \in Agents /\ slot[c] = Authenticated(slot[c].agent)
  <2> DEFINE b == slot[c].agent
  <2>1. counts' = [counts EXCEPT !.agents[b] = @ - 1, !.tenants[TenantOf[b]] = @ - 1]
    BY <1>6 DEF Released
  <2>2. /\ \A p \in Peers : ForPeer(slot[c], p) = 0
        /\ \A a \in Agents : ForAgent(slot[c], a) = IF a = b THEN 1 ELSE 0
        /\ \A t \in Tenants : ForTenant(slot[c], t) = IF t = TenantOf[b] THEN 1 ELSE 0
    BY <1>6, SlotShapes DEF ForPeer, ForAgent, ForTenant
  <2>3. b \in Agents /\ TenantOf[b] \in Tenants
    BY <1>6, GrpcAssumption
  <2> HIDE DEF b
  <2>4. /\ counts'.peers = counts.peers
        /\ counts'.agents = [counts.agents EXCEPT ![b] = @ - 1]
        /\ counts'.tenants = [counts.tenants EXCEPT ![TenantOf[b]] = @ - 1]
    BY <1>2, <2>1 DEF CountTypes
  <2>5. counts' \in CountTypes(Int)
    <3>1. [counts.agents EXCEPT ![b] = @ - 1] \in [Agents -> Int]
      BY <1>2, <2>3 DEF CountTypes
    <3>2. [counts.tenants EXCEPT ![TenantOf[b]] = @ - 1] \in [Tenants -> Int]
      BY <1>2, <2>3 DEF CountTypes
    <3>3. counts' = [peers |-> counts.peers, agents |-> [counts.agents EXCEPT ![b] = @ - 1],
                     tenants |-> [counts.tenants EXCEPT ![TenantOf[b]] = @ - 1]]
      BY <1>2, <2>1 DEF CountTypes
    <3>4. counts.peers \in [Peers -> Int]
      BY <1>2 DEF CountTypes
    <3> QED
      BY <3>1, <3>2, <3>3, <3>4 DEF CountTypes
  <2> QED
    BY <1>2, <1>3, <2>2, <2>3, <2>4, <2>5 DEF CountTypes, Moved
<1> QED
  BY <1>1, <1>4, <1>5, <1>6, SlotShapes

\* A holder drops its share: the last one gives the slot back, the others leave it.
LEMMA ShareDropped ==
    ASSUME GrpcInv, NEW c \in Conns, NEW last \in BOOLEAN, DropShare(c, last)
    PROVE  /\ counts' \in CountTypes(Nat) /\ CountsExact' /\ WithinQuotas'
           /\ slot' \in [Conns -> Slots] /\ slot'[c] = (IF last THEN Free ELSE slot[c])
           /\ \A d \in Conns \ {c} : slot'[d] = slot[d]
<1> USE DEF GrpcInv
<1>1. slot \in [Conns -> Slots] /\ Free \in Slots /\ counts \in CountTypes(Nat) /\ WithinQuotas
  BY TypeFacts, QuotasAre DEF Slots, GrpcTypeOK, CountTypes
<1>2. CASE last
  <2>1. counts' = Released(slot[c]) /\ slot' = [slot EXCEPT ![c] = Free]
    BY <1>2 DEF DropShare
  <2>2. counts' \in CountTypes(Int) /\ Moved(c, Free)
    BY <2>1, ReleaseMoves
  <2>3. CountsExact' /\ counts' \in CountTypes(Nat)
    BY <1>1, <2>1, <2>2, CountsStep
  <2>4. WithinQuotas'
    <3>1. /\ \A p \in Peers : counts'.peers[p] <= counts.peers[p]
          /\ \A a \in Agents : counts'.agents[a] <= counts.agents[a]
          /\ \A t \in Tenants : counts'.tenants[t] <= counts.tenants[t]
      BY <1>1, <2>2, <2>3, SlotShapes DEF Moved, ForPeer, ForAgent, ForTenant, CountTypes
    <3> QED
      BY <1>1, <2>3, <3>1, GrpcAssumption DEF WithinQuotas, CountTypes
  <2> QED
    BY <1>1, <1>2, <2>1, <2>3, <2>4
<1>3. CASE ~last
  <2>1. counts' = counts /\ slot' = slot
    BY <1>3 DEF DropShare
  <2> QED
    BY <1>1, <1>3, <2>1 DEF CountsExact, WithinQuotas
<1> QED
  BY <1>2, <1>3

\* What a transport that goes away leaves: its permit is free again.
LEMMA DropKeeps ==
    ASSUME GrpcInv, NEW c \in Conns, phase[c] \in Live, Drop(c)
    PROVE  GrpcInv'
<1> USE DEF GrpcInv
<1>0. /\ phase' = [phase EXCEPT ![c] = "gone"] /\ permits' = permits + 1
      /\ DropShare(c, ~calls[c]) /\ UNCHANGED <<peer, calls, ready>>
  BY DEF Drop
<1>1. calls[c] \in BOOLEAN /\ (~calls[c]) \in BOOLEAN
  BY DEF GrpcTypeOK
<1>2. /\ counts' \in CountTypes(Nat) /\ CountsExact' /\ WithinQuotas'
      /\ slot' \in [Conns -> Slots] /\ slot'[c] = (IF ~calls[c] THEN Free ELSE slot[c])
      /\ \A d \in Conns \ {c} : slot'[d] = slot[d]
  BY <1>0, <1>1, ShareDropped
<1>3. /\ Cardinality(Transports) \in Nat /\ Cardinality(Transports)' \in Nat
      /\ Cardinality(Transports)' = Cardinality(Transports) - 1
      /\ phase'[c] = "gone" /\ \A d \in Conns \ {c} : phase'[d] = phase[d]
  <2>1. ForListener(phase[c]) = 1 /\ ForListener("gone") = 0
    BY DEF ForListener, Live
  <2>2. GrpcTypeOK
    OBVIOUS
  <2>3. /\ Cardinality(Transports) \in Nat /\ Cardinality(Transports)' \in Nat
        /\ Cardinality(Transports)' =
               Cardinality(Transports) - ForListener(phase[c]) + ForListener("gone")
        /\ phase'[c] = "gone" /\ \A d \in Conns \ {c} : phase'[d] = phase[d]
    BY <1>0, <2>2, PhaseMoves
  <2> QED
    BY <2>1, <2>3
<1>4. Permits
  BY QuotasAre
<1>5. permits \in Nat /\ MaxConns \in Nat /\ ready \in BOOLEAN
  BY GrpcAssumption DEF GrpcTypeOK
<1>6. Permits' /\ permits' \in 0..MaxConns
  BY <1>0, <1>3, <1>4, <1>5 DEF Permits
<1>7. GrpcTypeOK'
  BY <1>0, <1>2, <1>6 DEF GrpcTypeOK, CountTypes, Slots
<1>8. SlotsHeld' /\ CallsStartUp'
  BY <1>0, <1>1, <1>2, <1>3 DEF SlotsHeld, CallsStartUp, Live
<1>9. QuotasHold'
  BY <1>2, <1>6 DEF QuotasHold, WithinQuotas, Permits, Transports, Live
<1> QED
  BY <1>2, <1>7, <1>8, <1>9

\* A step that moves no slot and no count, and keeps the permits accounted for.
LEMMA SlotsRest ==
    ASSUME GrpcInv, UNCHANGED <<slot, counts>>, SlotsHeld', CallsStartUp', Permits',
           permits' \in 0..MaxConns, ready' \in BOOLEAN, peer' = peer, calls' \in [Conns -> BOOLEAN],
           phase' \in [Conns -> {"new", "backlog", "handshake", "preface", "up", "gone"}]
    PROVE  GrpcInv'
<1> USE DEF GrpcInv
<1>1. GrpcTypeOK'
  BY DEF GrpcTypeOK
<1>2. CountsExact'
  BY DEF CountsExact
<1>3. WithinQuotas'
  BY QuotasAre DEF WithinQuotas
<1>4. QuotasHold'
  BY <1>3 DEF QuotasHold, WithinQuotas, Permits, Transports, Live
<1> QED
  BY <1>1, <1>2, <1>4

\* A transport goes from one phase to another and keeps its permit and its slot, or has neither.
LEMMA PhaseKeeps ==
    ASSUME GrpcInv, NEW c \in Conns, NEW ph \in {"new", "backlog", "handshake", "preface", "up", "gone"},
           phase' = [phase EXCEPT ![c] = ph], phase[c] \in Live <=> ph \in Live,
           ~calls[c], UNCHANGED <<peer, slot, calls, permits, ready, counts>>
    PROVE  GrpcInv'
<1> USE DEF GrpcInv
<1>1. GrpcTypeOK
  OBVIOUS
<1>2. /\ Cardinality(Transports) \in Nat
      /\ Cardinality(Transports)' = Cardinality(Transports) - ForListener(phase[c]) + ForListener(ph)
      /\ phase'[c] = ph /\ \A d \in Conns \ {c} : phase'[d] = phase[d]
  BY <1>1, PhaseMoves
<1>3. Cardinality(Transports)' = Cardinality(Transports)
  BY <1>2 DEF ForListener
<1>4. Permits'
  BY <1>3, QuotasAre DEF Permits
<1>5. SlotsHeld' /\ CallsStartUp'
  BY <1>2 DEF SlotsHeld, CallsStartUp, Live
<1> QED
  BY <1>4, <1>5, SlotsRest DEF GrpcTypeOK

-----------------------------------------------------------------------------
LEMMA TakePermitKeeps == ASSUME GrpcInv, TakePermit PROVE GrpcInv'
<1> USE DEF GrpcInv
<1>1. permits \in Nat /\ permits > 0 /\ ~ready /\ ready' = TRUE /\ permits' = permits - 1
      /\ UNCHANGED <<phase, peer, slot, calls, counts>> /\ MaxConns \in Nat
  BY GrpcAssumption DEF TakePermit, GrpcTypeOK
<1>2. Cardinality(Transports) \in Nat /\ Cardinality(Transports)' = Cardinality(Transports)
  BY <1>1, CountIsNat DEF Transports
<1>3. Permits' /\ permits' \in 0..MaxConns
  BY <1>1, <1>2, QuotasAre DEF Permits
<1>4. SlotsHeld' /\ CallsStartUp'
  BY <1>1 DEF SlotsHeld, CallsStartUp
<1> QED
  BY <1>1, <1>3, <1>4, SlotsRest DEF GrpcTypeOK

LEMMA AcceptFailsKeeps == ASSUME GrpcInv, AcceptFails PROVE GrpcInv'
<1> USE DEF GrpcInv
<1>1. permits \in Nat /\ ready /\ ready' = FALSE /\ permits' = permits + 1
      /\ UNCHANGED <<phase, peer, slot, calls, counts>> /\ MaxConns \in Nat
  BY GrpcAssumption DEF AcceptFails, GrpcTypeOK
<1>2. Cardinality(Transports) \in Nat /\ Cardinality(Transports)' = Cardinality(Transports)
  BY <1>1, CountIsNat DEF Transports
<1>3. Permits' /\ permits' \in 0..MaxConns
  BY <1>1, <1>2, QuotasAre DEF Permits
<1>4. SlotsHeld' /\ CallsStartUp'
  BY <1>1 DEF SlotsHeld, CallsStartUp
<1> QED
  BY <1>1, <1>3, <1>4, SlotsRest DEF GrpcTypeOK

LEMMA DialKeeps == ASSUME GrpcInv, NEW c \in Conns, Dial(c) PROVE GrpcInv'
<1>1. ~calls[c]
  BY DEF Dial, GrpcInv, CallsStartUp
<1> QED
  BY <1>1, PhaseKeeps DEF Dial, Live

LEMMA PrefaceArrivesKeeps == ASSUME GrpcInv, NEW c \in Conns, PrefaceArrives(c) PROVE GrpcInv'
<1>1. ~calls[c]
  BY DEF PrefaceArrives, GrpcInv, CallsStartUp
<1> QED
  BY <1>1, PhaseKeeps DEF PrefaceArrives, Live

LEMMA HandshakeEndsKeeps ==
    ASSUME GrpcInv, NEW c \in Conns, NEW ok \in BOOLEAN, HandshakeEnds(c, ok) PROVE GrpcInv'
<1>1. ~calls[c] /\ phase[c] = "handshake"
  BY DEF HandshakeEnds, GrpcInv, CallsStartUp
<1>2. CASE ok
  BY <1>1, <1>2, PhaseKeeps DEF HandshakeEnds, Live
<1>3. CASE ~ok
  BY <1>1, <1>3, DropKeeps DEF HandshakeEnds, Live
<1> QED
  BY <1>2, <1>3

LEMMA PrefaceTimesOutKeeps == ASSUME GrpcInv, NEW c \in Conns, PrefaceTimesOut(c) PROVE GrpcInv'
BY DropKeeps DEF PrefaceTimesOut, Live

LEMMA ConnectionEndsKeeps == ASSUME GrpcInv, NEW c \in Conns, ConnectionEnds(c) PROVE GrpcInv'
BY DropKeeps DEF ConnectionEnds, Live

LEMMA CallStartsKeeps == ASSUME GrpcInv, NEW c \in Conns, CallStarts(c) PROVE GrpcInv'
<1> USE DEF GrpcInv
<1>1. /\ phase[c] = "up" /\ calls' = [calls EXCEPT ![c] = TRUE]
      /\ UNCHANGED <<phase, peer, slot, permits, ready, counts>>
  BY DEF CallStarts
<1>2. calls' \in [Conns -> BOOLEAN] /\ calls'[c] = TRUE /\ \A d \in Conns \ {c} : calls'[d] = calls[d]
  BY <1>1 DEF GrpcTypeOK
<1>3. SlotsHeld' /\ CallsStartUp'
  BY <1>1, <1>2 DEF SlotsHeld, CallsStartUp
<1>4. Permits'
  BY <1>1, QuotasAre DEF Permits, Transports
<1> QED
  BY <1>1, <1>2, <1>3, <1>4, SlotsRest DEF GrpcTypeOK

\* The last share of a slot is the call's when its transport has gone.
LEMMA CallEndsKeeps == ASSUME GrpcInv, NEW c \in Conns, CallEnds(c) PROVE GrpcInv'
<1> USE DEF GrpcInv
<1>1. /\ calls[c] /\ calls' = [calls EXCEPT ![c] = FALSE]
      /\ DropShare(c, phase[c] = "gone") /\ UNCHANGED <<phase, peer, permits, ready>>
  BY DEF CallEnds
<1>2. calls' \in [Conns -> BOOLEAN] /\ calls'[c] = FALSE /\ \A d \in Conns \ {c} : calls'[d] = calls[d]
  BY <1>1 DEF GrpcTypeOK
<1>3. /\ counts' \in CountTypes(Nat) /\ CountsExact' /\ WithinQuotas'
      /\ slot' \in [Conns -> Slots] /\ slot'[c] = (IF phase[c] = "gone" THEN Free ELSE slot[c])
      /\ \A d \in Conns \ {c} : slot'[d] = slot[d]
  <2>1. (phase[c] = "gone") \in BOOLEAN
    OBVIOUS
  <2> QED
    BY <1>1, <2>1, ShareDropped
<1>4. phase[c] \in {"up", "gone"}
  BY <1>1 DEF CallsStartUp
<1>5. SlotsHeld' /\ CallsStartUp'
  BY <1>1, <1>2, <1>3, <1>4 DEF SlotsHeld, CallsStartUp
<1>6. Permits'
  BY <1>1, QuotasAre DEF Permits, Transports
<1>7. QuotasHold'
  BY <1>3, <1>6 DEF QuotasHold, WithinQuotas, Permits, Transports, Live
<1>8. GrpcTypeOK'
  BY <1>1, <1>2, <1>3 DEF GrpcTypeOK, CountTypes, Slots
<1> QED
  BY <1>3, <1>5, <1>7, <1>8

\* An accepted transport takes a slot of its peer and the permit of the listener; one too many
\* gives the permit back.
LEMMA AcceptKeeps == ASSUME GrpcInv, NEW c \in Conns, Accept(c) PROVE GrpcInv'
<1> USE DEF GrpcInv
<1>0. GrpcTypeOK /\ permits \in Nat /\ MaxConns \in Nat /\ MaxPeer \in Nat /\ peer[c] \in Peers /\ Permits /\ WithinQuotas
  BY GrpcAssumption, QuotasAre DEF GrpcTypeOK
<1>1. ready /\ phase[c] = "backlog" /\ ready' = FALSE /\ UNCHANGED <<peer, calls>> /\ ~calls[c]
  BY DEF Accept, CallsStartUp
<1>2. slot[c] = Free
  BY <1>1 DEF SlotsHeld
<1>3. CASE CanAcquire(peer[c])
  <2> DEFINE q == peer[c]
             ph == IF Tls THEN "handshake" ELSE "preface"
  <2>1. /\ counts' = [counts EXCEPT !.peers[q] = @ + 1] /\ slot' = [slot EXCEPT ![c] = Setup(q)]
        /\ phase' = [phase EXCEPT ![c] = ph] /\ permits' = permits /\ counts.peers[q] < MaxPeer
    BY <1>3 DEF Accept, TryAcquire, CanAcquire
  <2>2. q \in Peers /\ Setup(q) \in Slots /\ ph \in {"handshake", "preface"}
    BY <1>0 DEF Slots
  <2> HIDE DEF q, ph
  <2>3. counts \in CountTypes(Nat)
    BY <1>0 DEF GrpcTypeOK, CountTypes
  <2>4. counts' \in CountTypes(Int)
    BY <2>1, <2>2, <2>3 DEF CountTypes
  <2>5. /\ \A p \in Peers : counts'.peers[p] = IF p = q THEN counts.peers[p] + 1 ELSE counts.peers[p]
        /\ counts'.agents = counts.agents /\ counts'.tenants = counts.tenants
    BY <2>1, <2>2, <2>3 DEF CountTypes
  <2>6. Moved(c, Setup(q))
    <3>1. /\ \A p \in Peers : ForPeer(slot[c], p) = 0 /\ ForPeer(Setup(q), p) = IF p = q THEN 1 ELSE 0
          /\ \A a \in Agents : ForAgent(slot[c], a) = 0 /\ ForAgent(Setup(q), a) = 0
          /\ \A t \in Tenants : ForTenant(slot[c], t) = 0 /\ ForTenant(Setup(q), t) = 0
      BY <1>2, SlotShapes DEF ForPeer, ForAgent, ForTenant
    <3> QED
      BY <2>3, <2>5, <3>1 DEF Moved, CountTypes
  <2>7. CountsExact' /\ counts' \in CountTypes(Nat)
    BY <2>1, <2>2, <2>4, <2>6, CountsStep
  <2>8. WithinQuotas'
    BY <1>0, <2>1, <2>2, <2>3, <2>5 DEF WithinQuotas, CountTypes
  <2>9. /\ Cardinality(Transports) \in Nat
        /\ Cardinality(Transports)' = Cardinality(Transports) + 1
        /\ phase'[c] = ph /\ \A d \in Conns \ {c} : phase'[d] = phase[d]
    <3>1. ForListener(phase[c]) = 0 /\ ForListener(ph) = 1
      BY <1>1, <2>2 DEF ForListener, Live
    <3>2. /\ Cardinality(Transports) \in Nat
          /\ Cardinality(Transports)' = Cardinality(Transports) - ForListener(phase[c]) + ForListener(ph)
          /\ phase'[c] = ph /\ \A d \in Conns \ {c} : phase'[d] = phase[d]
      BY <1>0, <2>1, PhaseMoves
    <3> QED
      BY <3>1, <3>2
  <2>10. Permits'
    BY <1>0, <1>1, <2>1, <2>9 DEF Permits
  <2>11. GrpcTypeOK'
    BY <1>0, <1>1, <2>1, <2>2, <2>7 DEF GrpcTypeOK, CountTypes, Slots
  <2>12. SlotsHeld' /\ CallsStartUp'
    <3>1. slot'[c] # Free /\ \A d \in Conns \ {c} : slot'[d] = slot[d]
      BY <1>0, <2>1, SlotShapes, TypeFacts
    <3> QED
      BY <1>1, <2>2, <2>9, <3>1 DEF SlotsHeld, CallsStartUp
  <2>13. QuotasHold'
    BY <2>8, <2>10 DEF QuotasHold, WithinQuotas, Permits, Transports, Live
  <2> QED
    BY <2>7, <2>11, <2>12, <2>13
<1>4. CASE ~CanAcquire(peer[c])
  <2>1. permits' = permits + 1 /\ phase' = [phase EXCEPT ![c] = "gone"] /\ UNCHANGED <<counts, slot>>
    BY <1>4 DEF Accept
  <2>2. ForListener(phase[c]) = 0 /\ ForListener("gone") = 0
    BY <1>1 DEF ForListener, Live
  <2>3. /\ Cardinality(Transports) \in Nat
        /\ Cardinality(Transports)' = Cardinality(Transports) - ForListener(phase[c]) + ForListener("gone")
        /\ phase'[c] = "gone" /\ \A d \in Conns \ {c} : phase'[d] = phase[d]
    BY <1>0, <2>1, PhaseMoves
  <2>4. Permits' /\ permits' \in 0..MaxConns
    BY <1>0, <1>1, <2>1, <2>2, <2>3 DEF Permits
  <2>5. SlotsHeld' /\ CallsStartUp'
    BY <1>1, <2>1, <2>3 DEF SlotsHeld, CallsStartUp
  <2> QED
    BY <1>0, <1>1, <2>1, <2>4, <2>5, SlotsRest DEF GrpcTypeOK
<1> QED
  BY <1>3, <1>4

\* An accepted credential moves the slot from its peer to its agent and tenant at once.
LEMMA MarkAuthenticatedKeeps ==
    ASSUME GrpcInv, NEW c \in Conns, NEW b \in Agents, MarkAuthenticated(c, b) PROVE GrpcInv'
<1> USE DEF GrpcInv
<1> DEFINE q == slot[c].peer
           u == TenantOf[b]
<1>0. GrpcTypeOK /\ MaxAgent \in Nat /\ MaxTenant \in Nat /\ MaxPeer \in Nat /\ u \in Tenants
      /\ Permits /\ WithinQuotas /\ slot \in [Conns -> Slots] /\ counts \in CountTypes(Nat)
  BY GrpcAssumption, QuotasAre, TypeFacts DEF GrpcTypeOK, CountTypes
<1>1. /\ calls[c] /\ slot[c].kind = "setup" /\ counts.agents[b] < MaxAgent /\ counts.tenants[u] < MaxTenant
      /\ counts' = [counts EXCEPT !.peers[q] = @ - 1, !.agents[b] = @ + 1, !.tenants[u] = @ + 1]
      /\ slot' = [slot EXCEPT ![c] = Authenticated(b)]
      /\ UNCHANGED <<phase, peer, calls, permits, ready>>
  BY DEF MarkAuthenticated, CanAuthenticate, Authenticate
<1>2. q \in Peers /\ slot[c] = Setup(q) /\ Authenticated(b) \in Slots
  <2>1. slot[c] \in Slots /\ slot[c] # Free
    BY <1>0, <1>1, SlotShapes
  <2> QED
    BY <1>1, <2>1, SlotShapes DEF Slots
<1> HIDE DEF q, u
<1>3. /\ counts'.peers = [counts.peers EXCEPT ![q] = @ - 1]
      /\ counts'.agents = [counts.agents EXCEPT ![b] = @ + 1]
      /\ counts'.tenants = [counts.tenants EXCEPT ![u] = @ + 1]
      /\ counts' = [peers |-> [counts.peers EXCEPT ![q] = @ - 1],
                    agents |-> [counts.agents EXCEPT ![b] = @ + 1],
                    tenants |-> [counts.tenants EXCEPT ![u] = @ + 1]]
  BY <1>0, <1>1 DEF CountTypes
<1>4. counts' \in CountTypes(Int)
  <2>1. [counts.peers EXCEPT ![q] = @ - 1] \in [Peers -> Int]
    BY <1>0, <1>2 DEF CountTypes
  <2>2. [counts.agents EXCEPT ![b] = @ + 1] \in [Agents -> Int]
    BY <1>0 DEF CountTypes
  <2>3. [counts.tenants EXCEPT ![u] = @ + 1] \in [Tenants -> Int]
    BY <1>0 DEF CountTypes
  <2> QED
    BY <1>3, <2>1, <2>2, <2>3 DEF CountTypes
<1>5. /\ \A p \in Peers : counts'.peers[p] = IF p = q THEN counts.peers[p] - 1 ELSE counts.peers[p]
      /\ \A a \in Agents : counts'.agents[a] = IF a = b THEN counts.agents[a] + 1 ELSE counts.agents[a]
      /\ \A t \in Tenants : counts'.tenants[t] = IF t = u THEN counts.tenants[t] + 1 ELSE counts.tenants[t]
  BY <1>0, <1>2, <1>3 DEF CountTypes
<1>6. Moved(c, Authenticated(b))
  <2>1. \A p \in Peers : ForPeer(slot[c], p) = (IF p = q THEN 1 ELSE 0) /\ ForPeer(Authenticated(b), p) = 0
    BY <1>2, SlotShapes DEF ForPeer
  <2>2. \A a \in Agents : ForAgent(slot[c], a) = 0 /\ ForAgent(Authenticated(b), a) = (IF a = b THEN 1 ELSE 0)
    BY <1>2, SlotShapes DEF ForAgent
  <2>3. \A t \in Tenants : ForTenant(slot[c], t) = 0 /\ ForTenant(Authenticated(b), t) = (IF t = u THEN 1 ELSE 0)
    BY <1>2, SlotShapes DEF ForTenant, u
  <2> QED
    BY <1>0, <1>5, <2>1, <2>2, <2>3 DEF Moved, CountTypes
<1>7. CountsExact' /\ counts' \in CountTypes(Nat)
  BY <1>1, <1>2, <1>4, <1>6, CountsStep
<1>8. WithinQuotas'
  BY <1>0, <1>1, <1>2, <1>5 DEF WithinQuotas, CountTypes
<1>9. Permits'
  BY <1>0, <1>1 DEF Permits, Transports
<1>10. QuotasHold'
  BY <1>8, <1>9 DEF QuotasHold, WithinQuotas, Permits, Transports, Live
<1>11. GrpcTypeOK'
  BY <1>0, <1>1, <1>2, <1>7 DEF GrpcTypeOK, CountTypes, Slots
<1>12. SlotsHeld' /\ CallsStartUp'
  <2>1. slot'[c] # Free /\ slot[c] # Free /\ \A d \in Conns \ {c} : slot'[d] = slot[d]
    BY <1>0, <1>1, <1>2, SlotShapes
  <2> QED
    BY <1>1, <2>1 DEF SlotsHeld, CallsStartUp
<1> QED
  BY <1>7, <1>10, <1>11, <1>12

-----------------------------------------------------------------------------
LEMMA GrpcInitially == GrpcInit => GrpcInv
<1> SUFFICES ASSUME GrpcInit PROVE GrpcInv
  OBVIOUS
<1>1. GrpcTypeOK
  <2>1. phase \in [Conns -> {"new", "backlog", "handshake", "preface", "up", "gone"}]
    BY DEF GrpcInit
  <2>2. peer \in [Conns -> Peers] /\ calls \in [Conns -> BOOLEAN] /\ ready \in BOOLEAN
    BY DEF GrpcInit
  <2>3. slot \in [Conns -> Slots]
    BY DEF GrpcInit, Slots
  <2>4. permits \in 0..MaxConns
    BY GrpcAssumption DEF GrpcInit
  <2>5. counts \in [peers : [Peers -> Nat], agents : [Agents -> Nat], tenants : [Tenants -> Nat]]
    BY DEF GrpcInit
  <2> QED
    BY <2>1, <2>2, <2>3, <2>4, <2>5 DEF GrpcTypeOK, Slots
<1>2. CountsExact
  <2>1. \A c \in Conns : slot[c] = Free
    BY DEF GrpcInit
  <2>2. /\ \A p \in Peers : OfPeer(p) = {}
        /\ \A a \in Agents : OfAgent(a) = {}
        /\ \A t \in Tenants : OfTenant(t) = {}
    BY <2>1, SlotShapes DEF OfPeer, OfAgent, OfTenant
  <2>3. /\ \A p \in Peers : counts.peers[p] = 0
        /\ \A a \in Agents : counts.agents[a] = 0
        /\ \A t \in Tenants : counts.tenants[t] = 0
    BY DEF GrpcInit
  <2> QED
    BY <2>2, <2>3, CountsAre, FS_EmptySet
<1>3. SlotsHeld /\ CallsStartUp
  BY DEF GrpcInit, SlotsHeld, CallsStartUp
<1>4. QuotasHold
  <2>1. Transports = {}
    BY DEF Transports, GrpcInit, Live
  <2>2. Permits
    BY <2>1, FS_EmptySet, GrpcAssumption DEF Permits, GrpcInit
  <2>3. WithinQuotas
    BY GrpcAssumption DEF WithinQuotas, GrpcInit
  <2> QED
    BY <2>2, <2>3, QuotasAre
<1> QED
  BY <1>1, <1>2, <1>3, <1>4 DEF GrpcInv

LEMMA GrpcStep == GrpcInv /\ [GrpcNext]_grpcVars => GrpcInv'
<1> SUFFICES ASSUME GrpcInv, [GrpcNext]_grpcVars PROVE GrpcInv'
  OBVIOUS
<1>1. CASE TakePermit
  BY <1>1, TakePermitKeeps
<1>2. CASE AcceptFails
  BY <1>2, AcceptFailsKeeps
<1>3. ASSUME NEW c \in Conns,
             \/ Dial(c) \/ Accept(c) \/ \E ok \in BOOLEAN : HandshakeEnds(c, ok)
             \/ PrefaceArrives(c) \/ PrefaceTimesOut(c) \/ ConnectionEnds(c)
             \/ CallStarts(c) \/ CallEnds(c) \/ \E a \in Agents : MarkAuthenticated(c, a)
      PROVE  GrpcInv'
  BY <1>3, DialKeeps, AcceptKeeps, HandshakeEndsKeeps, PrefaceArrivesKeeps, PrefaceTimesOutKeeps,
     ConnectionEndsKeeps, CallStartsKeeps, CallEndsKeeps, MarkAuthenticatedKeeps
<1>4. CASE UNCHANGED grpcVars
  BY <1>4 DEF GrpcInv, GrpcTypeOK, CountsExact, SlotsHeld, QuotasHold, CallsStartUp, grpcVars
<1> QED
  BY <1>1, <1>2, <1>3, <1>4 DEF GrpcNext

\* Whatever order transports are dialled, set up, authenticated and lost in, and however long a
\* call keeps a share of the slot of a transport that has gone: the counts of the quotas are the
\* slots that are held, a slot is held exactly as long as someone shares it, and the quotas of
\* peers, agents, tenants and the listener hold (grpc_connection_limit.rs, peer.rs).
THEOREM SlotsAreExact == GrpcSpec => []SlotsExact
<1>1. GrpcInv => SlotsExact
  BY DEF GrpcInv, SlotsExact
<1> QED
  BY <1>1, GrpcInitially, GrpcStep, PTL DEF GrpcSpec

\* The decrement of a release always finds its count: every slot that is held is counted, for its
\* peer or for its agent and tenant (the expect in decrement, grpc_connection_limit/peer.rs).
ReleaseFindsCount == \A c \in Conns :
    /\ slot[c].kind = "setup" => counts.peers[slot[c].peer] > 0
    /\ slot[c].kind = "auth" => counts.agents[slot[c].agent] > 0 /\ counts.tenants[TenantOf[slot[c].agent]] > 0

\* No release of a slot panics: its count is there and above zero.
THEOREM NoReleasePanics == GrpcSpec => []ReleaseFindsCount
<1>1. ASSUME GrpcInv PROVE ReleaseFindsCount
  <2>1. SUFFICES ASSUME NEW c \in Conns
                 PROVE  /\ slot[c].kind = "setup" => counts.peers[slot[c].peer] > 0
                        /\ slot[c].kind = "auth" => /\ counts.agents[slot[c].agent] > 0
                                                    /\ counts.tenants[TenantOf[slot[c].agent]] > 0
    BY DEF ReleaseFindsCount
  <2>2. slot[c] \in Slots
    BY <1>1, TypeFacts DEF GrpcInv
  <2>3. \A S \in SUBSET Conns : c \in S => Cardinality(S) > 0
    <3>1. \A S \in SUBSET Conns : c \in S => Cardinality(S) # 0
      BY GrpcAssumption, FS_Subset, FS_EmptySet
    <3> QED
      BY <3>1, CountIsNat
  <2>4. ASSUME slot[c].kind = "setup" PROVE counts.peers[slot[c].peer] > 0
    <3>1. slot[c].peer \in Peers /\ slot[c] = Setup(slot[c].peer)
      BY <2>2, <2>4, SlotShapes
    <3>2. c \in OfPeer(slot[c].peer) /\ OfPeer(slot[c].peer) \in SUBSET Conns
      BY <3>1 DEF OfPeer
    <3>3. counts.peers[slot[c].peer] = Cardinality(OfPeer(slot[c].peer))
      BY <1>1, <3>1, CountsAre DEF GrpcInv
    <3> QED
      BY <2>3, <3>2, <3>3
  <2>5. ASSUME slot[c].kind = "auth"
        PROVE  counts.agents[slot[c].agent] > 0 /\ counts.tenants[TenantOf[slot[c].agent]] > 0
    <3>1. /\ slot[c].agent \in Agents /\ slot[c] = Authenticated(slot[c].agent)
          /\ TenantOf[slot[c].agent] \in Tenants
      BY <2>2, <2>5, SlotShapes, GrpcAssumption
    <3>2. /\ c \in OfAgent(slot[c].agent) /\ OfAgent(slot[c].agent) \in SUBSET Conns
          /\ c \in OfTenant(TenantOf[slot[c].agent]) /\ OfTenant(TenantOf[slot[c].agent]) \in SUBSET Conns
      BY <2>5, <3>1 DEF OfAgent, OfTenant
    <3>3. /\ counts.agents[slot[c].agent] = Cardinality(OfAgent(slot[c].agent))
          /\ counts.tenants[TenantOf[slot[c].agent]] = Cardinality(OfTenant(TenantOf[slot[c].agent]))
      BY <1>1, <3>1, CountsAre DEF GrpcInv
    <3> QED
      BY <2>3, <3>2, <3>3
  <2> QED
    BY <2>4, <2>5
<1> QED
  BY <1>1, GrpcInitially, GrpcStep, PTL DEF GrpcSpec

-----------------------------------------------------------------------------
(* The key cache of the external verifier. *)


CacheType == [some : BOOLEAN, keys : SUBSET Keys, at : Nat]
RequestType ==
    [pc : {"idle", "lock", "check", "fetch", "store", "find", "claims", "done"}, kid : Keys \cup {"none"},
     unknown : BOOLEAN, from : Nat, got : CacheType,
     result : {"none", "verified", "refused", "unknownKey", "jwksError"}]

JwksTypes ==
    /\ now \in 0..MaxTime /\ published \in SUBSET Keys /\ cache \in CacheType
    /\ holder \in Verifications \cup {"none"} /\ ver \in [Verifications -> RequestType] /\ fetches \in SUBSET Nat

\* The cache is of the last fetch, and no fetch lies in the future.
CacheIsNewest == cache.at <= now /\ \A f \in fetches : cache.some /\ f <= cache.at

\* Only the holder of refresh_lock refreshes.
Refreshes(r) == ver[r].pc \in {"check", "fetch", "store"} => holder = r

\* A fetch is made, and its answer was given, a cooldown after every earlier one.
Spaced(r) ==
    /\ ver[r].pc = "fetch" => \A f \in fetches : now >= f + Cooldown
    /\ ver[r].pc = "store" => \A f \in fetches : ver[r].got.at >= f + Cooldown
    /\ ver[r].pc = "store" => ver[r].got.some

\* The keys in hand were younger than the TTL, and than the cooldown when they
\* were looked at for an unknown key.
Recent(r) ==
    /\ ver[r].from <= now
    /\ (ver[r].pc \in {"find", "claims"} \/ ver[r].result = "verified") => ver[r].got.at + Ttl > ver[r].from
    /\ ver[r].pc = "find" /\ ver[r].unknown => ver[r].got.at + Cooldown > ver[r].from
    /\ ver[r].result = "unknownKey" => ver[r].got.at + Cooldown > ver[r].from
    /\ ver[r].pc # "done" => ver[r].result = "none"

JwksInv ==
    /\ JwksTypes /\ CacheIsNewest
    /\ \A r \in Verifications : Refreshes(r) /\ Spaced(r) /\ Recent(r)

----------------------------------------------------------------------------
\* A request that is replaced by a well-typed one leaves the others alone.
LEMMA RequestMoves ==
    ASSUME JwksTypes, NEW r \in Verifications, NEW x \in RequestType, ver' = [ver EXCEPT ![r] = x]
    PROVE  /\ ver' \in [Verifications -> RequestType] /\ ver'[r] = x
           /\ \A q \in Verifications : q # r => ver'[q] = ver[q]
  BY DEF JwksTypes

\* A step of request r at one moment: only who holds refresh_lock, or takes it
\* when it is free, moves it, and only the holder adds a fetch.  Such a step
\* that is right for r is right for every request.
LEMMA RequestFrame ==
    ASSUME JwksAssumption, JwksInv, NEW r \in Verifications, NEW x \in RequestType,
           ver' = [ver EXCEPT ![r] = x], UNCHANGED <<now, published>>,
           cache' \in CacheType, holder' \in Verifications \cup {"none"}, fetches' \in SUBSET Nat,
           holder' # holder \/ fetches' # fetches => holder \in {r, "none"},
           CacheIsNewest', Refreshes(r)', Spaced(r)', Recent(r)'
    PROVE  JwksInv'
<1>1. JwksTypes
  BY DEF JwksInv
<1>2. /\ ver' \in [Verifications -> RequestType]
      /\ \A q \in Verifications : q # r => ver'[q] = ver[q]
  BY <1>1, RequestMoves
<1>3. JwksTypes'
  BY <1>1, <1>2 DEF JwksTypes
<1>4. ASSUME NEW q \in Verifications, q # r PROVE Refreshes(q)' /\ Spaced(q)' /\ Recent(q)'
  <2>1. Refreshes(q) /\ Spaced(q) /\ Recent(q) /\ ver'[q] = ver[q]
    BY <1>2, <1>4 DEF JwksInv
  <2>2. ver[q].pc \in {"check", "fetch", "store"} => holder' = holder /\ fetches' = fetches
    BY <1>4, <2>1 DEF Refreshes, JwksAssumption
  <2>3. Refreshes(q)' /\ Recent(q)'
    BY <2>1, <2>2 DEF Refreshes, Recent
  <2>4. Spaced(q)'
    BY <2>1, <2>2 DEF Spaced
  <2> QED
    BY <2>3, <2>4
<1> QED
  BY <1>3, <1>4 DEF JwksInv

\* The steps of a request that take, give back or keep the lock and leave cache
\* and fetches alone.
LEMMA QuietStep ==
    ASSUME JwksAssumption, JwksInv, NEW r \in Verifications, NEW x \in RequestType,
           ver' = [ver EXCEPT ![r] = x], UNCHANGED <<now, published, cache, fetches>>,
           holder' \in Verifications \cup {"none"}, holder' # holder => holder \in {r, "none"},
           Refreshes(r)', Spaced(r)', Recent(r)'
    PROVE  JwksInv'
<1>1. JwksTypes /\ CacheIsNewest
  BY DEF JwksInv
<1>2. CacheIsNewest' /\ cache' \in CacheType /\ fetches' \in SUBSET Nat
  BY <1>1 DEF CacheIsNewest, JwksTypes
<1> QED
  BY <1>2, RequestFrame

\* cached_or_fetch begins with keys younger than the TTL, or queues.
LEMMA BeginStep ==
    ASSUME JwksAssumption, JwksInv, NEW r \in Verifications, NEW k \in Keys, BeginVerify(r, k)
    PROVE  JwksInv'
<1>0. /\ now \in Nat /\ cache \in CacheType /\ cache.at <= now /\ holder \in Verifications \cup {"none"}
      /\ JwksTypes /\ Ttl \in Nat /\ cache.at \in Nat
  BY DEF JwksInv, JwksTypes, CacheIsNewest, CacheType, JwksAssumption
<1> DEFINE pc == IF Fresh(Ttl) THEN "find" ELSE "lock"
           x == [NotVerifying EXCEPT !.kid = k, !.from = now, !.got = cache, !.pc = pc]
<1>1. ver' = [ver EXCEPT ![r] = x] /\ UNCHANGED <<now, published, cache, holder, fetches>>
  BY DEF BeginVerify
<1>2. /\ x \in RequestType /\ x.pc = pc /\ x.from = now /\ x.got = cache /\ ~x.unknown
      /\ x.result = "none"
  <2>1. pc \in {"find", "lock"}
    OBVIOUS
  <2> HIDE DEF pc
  <2> QED
    BY <1>0, <2>1 DEF RequestType, NotVerifying, NoCache
<1>3. ver'[r] = x
  BY <1>0, <1>1, <1>2, RequestMoves
<1>4. pc = "find" => now - cache.at < Ttl
  BY DEF Fresh
<1>5. pc \in {"find", "lock"}
  OBVIOUS
<1> HIDE DEF x, pc
<1>6. Refreshes(r)' /\ Spaced(r)' /\ Recent(r)'
  BY <1>0, <1>1, <1>2, <1>3, <1>4, <1>5 DEF Refreshes, Spaced, Recent
<1> QED
  BY <1>0, <1>1, <1>2, <1>6, QuietStep

\* Under the lock the cache is looked at again: it is young enough, or a fetch
\* is due.
LEMMA CheckStep ==
    ASSUME JwksAssumption, JwksInv, NEW r \in Verifications, CheckAge(r)
    PROVE  JwksInv'
<1>0. /\ now \in Nat /\ cache \in CacheType /\ CacheIsNewest /\ holder \in Verifications \cup {"none"}
      /\ JwksTypes /\ Ttl \in Nat /\ Cooldown \in Nat /\ Cooldown <= Ttl /\ cache.at \in Nat
      /\ ver[r] \in RequestType /\ fetches \in SUBSET Nat /\ Recent(r) /\ ver[r].from \in Nat
  BY DEF JwksInv, JwksTypes, CacheType, JwksAssumption, RequestType
<1>1. holder = r /\ ver[r].pc = "check" /\ UNCHANGED <<now, published, cache, fetches>>
  BY DEF CheckAge, JwksInv, Refreshes
<1> DEFINE age == IF ver[r].unknown THEN Cooldown ELSE Ttl
<1>2. age \in Nat /\ Cooldown <= age /\ age <= Ttl
  BY <1>0
<1>3. CASE Fresh(age)
  <2> DEFINE x == [ver[r] EXCEPT !.pc = "find", !.got = cache]
  <2>1. ver' = [ver EXCEPT ![r] = x] /\ holder' = "none"
    BY <1>3 DEF CheckAge
  <2>2. /\ x \in RequestType /\ x.pc = "find" /\ x.got = cache /\ x.from = ver[r].from
        /\ x.unknown = ver[r].unknown /\ x.result = ver[r].result
    BY <1>0 DEF RequestType
  <2>3. ver'[r] = x
    BY <1>0, <2>1, <2>2, RequestMoves
  <2>4. now - cache.at < age /\ (ver[r].unknown => age = Cooldown)
    BY <1>3 DEF Fresh
  <2> HIDE DEF x, age
  <2>5. Refreshes(r)' /\ Spaced(r)' /\ Recent(r)'
    BY <1>0, <1>1, <1>2, <2>2, <2>3, <2>4 DEF Refreshes, Spaced, Recent
  <2> QED
    BY <1>0, <1>1, <2>1, <2>2, <2>5, QuietStep
<1>4. CASE ~Fresh(age)
  <2> DEFINE x == [ver[r] EXCEPT !.pc = "fetch"]
  <2>1. ver' = [ver EXCEPT ![r] = x] /\ holder' = holder
    BY <1>4 DEF CheckAge
  <2>2. /\ x \in RequestType /\ x.pc = "fetch" /\ x.got = ver[r].got /\ x.from = ver[r].from
        /\ x.unknown = ver[r].unknown /\ x.result = ver[r].result
    BY <1>0 DEF RequestType
  <2>3. ver'[r] = x
    BY <1>0, <2>1, <2>2, RequestMoves
  <2>4. ~cache.some \/ ~(now - cache.at < age)
    BY <1>4 DEF Fresh
  <2> HIDE DEF x, age
  <2>5. \A f \in fetches : now >= f + Cooldown
    <3> SUFFICES ASSUME NEW f \in fetches PROVE now >= f + Cooldown
      OBVIOUS
    <3>1. cache.some /\ f <= cache.at /\ f \in Nat
      BY <1>0 DEF CacheIsNewest
    <3> QED
      BY <1>0, <1>2, <2>4, <3>1
  <2>6. Refreshes(r)' /\ Spaced(r)' /\ Recent(r)'
    BY <1>0, <1>1, <2>1, <2>2, <2>3, <2>5 DEF Refreshes, Spaced, Recent
  <2> QED
    BY <1>0, <1>1, <2>1, <2>2, <2>6, QuietStep
<1> QED
  BY <1>3, <1>4

\* The provider answers, or fails.
LEMMA FetchStep ==
    ASSUME JwksAssumption, JwksInv, NEW r \in Verifications, Fetch(r) \/ FetchFails(r)
    PROVE  JwksInv'
<1>0. /\ now \in Nat /\ holder \in Verifications \cup {"none"} /\ published \in SUBSET Keys
      /\ JwksTypes /\ ver[r] \in RequestType /\ Recent(r) /\ Spaced(r)
  BY DEF JwksInv, JwksTypes
<1>1. holder = r /\ ver[r].pc = "fetch" /\ UNCHANGED <<now, published, cache, fetches>>
  BY DEF Fetch, FetchFails, JwksInv, Refreshes
<1>2. CASE Fetch(r)
  <2> DEFINE y == [some |-> TRUE, keys |-> published, at |-> now]
             x == [ver[r] EXCEPT !.pc = "store", !.got = y]
  <2>1. y \in CacheType /\ y.at = now /\ y.some
    BY <1>0 DEF CacheType
  <2>2. ver' = [ver EXCEPT ![r] = x] /\ holder' = holder
    BY <1>2 DEF Fetch
  <2> HIDE DEF y
  <2>3. /\ x \in RequestType /\ x.pc = "store" /\ x.got = y /\ x.from = ver[r].from
        /\ x.unknown = ver[r].unknown /\ x.result = ver[r].result
    BY <1>0, <2>1 DEF RequestType
  <2>4. ver'[r] = x
    BY <1>0, <2>2, <2>3, RequestMoves
  <2> HIDE DEF x
  <2>5. Refreshes(r)' /\ Spaced(r)' /\ Recent(r)'
    BY <1>0, <1>1, <2>1, <2>2, <2>3, <2>4 DEF Refreshes, Spaced, Recent
  <2> QED
    BY <1>0, <1>1, <2>2, <2>3, <2>5, QuietStep
<1>3. CASE FetchFails(r)
  <2> DEFINE x == [ver[r] EXCEPT !.pc = "done", !.result = "jwksError"]
  <2>1. ver' = [ver EXCEPT ![r] = x] /\ holder' = "none"
    BY <1>3 DEF FetchFails
  <2>2. /\ x \in RequestType /\ x.pc = "done" /\ x.got = ver[r].got /\ x.from = ver[r].from
        /\ x.result = "jwksError"
    BY <1>0 DEF RequestType
  <2>3. ver'[r] = x
    BY <1>0, <2>1, <2>2, RequestMoves
  <2> HIDE DEF x
  <2>4. Refreshes(r)' /\ Spaced(r)' /\ Recent(r)'
    BY <1>0, <1>1, <2>2, <2>3 DEF Refreshes, Spaced, Recent
  <2> QED
    BY <1>0, <1>1, <2>1, <2>2, <2>4, QuietStep
<1> QED
  BY <1>2, <1>3

\* The holder stores its answer as of now and gives the lock back.
LEMMA StoreStep ==
    ASSUME JwksAssumption, JwksInv, NEW r \in Verifications, Store(r)
    PROVE  JwksInv'
<1>0. /\ now \in Nat /\ JwksTypes /\ ver[r] \in RequestType /\ Recent(r) /\ CacheIsNewest
      /\ ver[r].got \in CacheType /\ cache.at \in Nat /\ fetches \in SUBSET Nat /\ ver[r].from \in Nat
      /\ Ttl \in Nat /\ Cooldown \in Nat \ {0} /\ Cooldown <= Ttl
  BY DEF JwksInv, JwksTypes, RequestType, CacheType, JwksAssumption
<1>1. /\ holder = r /\ ver[r].pc = "store" /\ UNCHANGED <<now, published>> /\ holder' = "none"
      /\ fetches' = fetches \cup {now}
  BY DEF Store, JwksInv, Refreshes
<1> DEFINE y == [ver[r].got EXCEPT !.at = now]
           x == [ver[r] EXCEPT !.pc = "find", !.got = y]
<1>2. y \in CacheType /\ y.at = now /\ cache' = y /\ y.some = ver[r].got.some
  BY <1>0 DEF CacheType, Store
<1>3. ver' = [ver EXCEPT ![r] = x]
  BY <1>0 DEF Store, JwksTypes
<1> HIDE DEF y
<1>4. /\ x \in RequestType /\ x.pc = "find" /\ x.got = y /\ x.from = ver[r].from
      /\ x.result = ver[r].result
  BY <1>0, <1>2 DEF RequestType
<1>5. ver'[r] = x
  BY <1>0, <1>3, <1>4, RequestMoves
<1> HIDE DEF x
<1>6. Refreshes(r)' /\ Spaced(r)' /\ Recent(r)'
  BY <1>0, <1>1, <1>2, <1>4, <1>5 DEF Refreshes, Spaced, Recent
<1>7. y.some
  BY <1>1, <1>2 DEF JwksInv, Spaced
<1>8. CacheIsNewest'
  BY <1>0, <1>1, <1>2, <1>7 DEF CacheIsNewest
<1>9. fetches' \in SUBSET Nat /\ holder' \in Verifications \cup {"none"}
  BY <1>0, <1>1
<1> QED
  BY <1>0, <1>1, <1>2, <1>3, <1>4, <1>6, <1>8, <1>9, RequestFrame

\* The steps that look into the keys in hand, and the lock.
LEMMA LookStep ==
    ASSUME JwksAssumption, JwksInv, NEW r \in Verifications,
           TakeRefreshLock(r) \/ Find(r) \/ Answer(r) \/ \E sound \in BOOLEAN : CheckClaims(r, sound)
    PROVE  JwksInv'
<1>0. /\ JwksTypes /\ ver[r] \in RequestType /\ Recent(r) /\ holder \in Verifications \cup {"none"}
      /\ now \in Nat
  BY DEF JwksInv, JwksTypes
<1>1. UNCHANGED <<now, published, cache, fetches>>
  BY DEF TakeRefreshLock, Find, Answer, CheckClaims
<1>2. CASE TakeRefreshLock(r)
  <2> DEFINE x == [ver[r] EXCEPT !.pc = "check"]
  <2>1. ver' = [ver EXCEPT ![r] = x] /\ holder = "none" /\ holder' = r /\ ver[r].pc = "lock"
    BY <1>2 DEF TakeRefreshLock
  <2>2. /\ x \in RequestType /\ x.pc = "check" /\ x.got = ver[r].got /\ x.from = ver[r].from
        /\ x.result = ver[r].result
    BY <1>0 DEF RequestType
  <2>3. ver'[r] = x
    BY <1>0, <2>1, <2>2, RequestMoves
  <2> HIDE DEF x
  <2>4. Refreshes(r)' /\ Spaced(r)' /\ Recent(r)'
    BY <1>0, <1>1, <2>1, <2>2, <2>3 DEF Refreshes, Spaced, Recent
  <2> QED
    BY <1>0, <1>1, <2>1, <2>2, <2>4, QuietStep
<1>3. CASE Answer(r)
  <2>1. ver' = [ver EXCEPT ![r] = NotVerifying] /\ holder' = holder
    BY <1>3 DEF Answer
  <2>2. NotVerifying \in RequestType
    BY DEF RequestType, NotVerifying, NoCache, CacheType
  <2>3. ver'[r] = NotVerifying
    BY <1>0, <2>1, <2>2, RequestMoves
  <2>4. Refreshes(r)' /\ Spaced(r)' /\ Recent(r)'
    BY <1>0, <1>1, <2>3 DEF Refreshes, Spaced, Recent, NotVerifying
  <2> QED
    BY <1>0, <1>1, <2>1, <2>2, <2>4, QuietStep
<1>4. CASE Find(r)
  <2>0. ver[r].pc = "find" /\ holder' = holder /\ ver[r].result = "none"
    BY <1>0, <1>4 DEF Find, Recent
  <2>1. PICK x : /\ ver' = [ver EXCEPT ![r] = x]
                 /\ \/ x = [ver[r] EXCEPT !.pc = "claims"]
                    \/ x = [ver[r] EXCEPT !.pc = "lock", !.unknown = TRUE]
                    \/ x = [ver[r] EXCEPT !.pc = "done", !.result = "unknownKey"] /\ ver[r].unknown
    <3>1. CASE ver[r].kid \in ver[r].got.keys
      BY <1>0, <1>4, <3>1 DEF Find, JwksTypes
    <3>2. CASE ver[r].kid \notin ver[r].got.keys /\ ~ver[r].unknown
      BY <1>0, <1>4, <3>2 DEF Find, JwksTypes
    <3>3. CASE ver[r].kid \notin ver[r].got.keys /\ ver[r].unknown
      BY <1>0, <1>4, <3>3 DEF Find, JwksTypes
    <3> QED
      BY <3>1, <3>2, <3>3
  <2>2. /\ x \in RequestType /\ x.pc \in {"claims", "lock", "done"} /\ x.got = ver[r].got
        /\ x.from = ver[r].from
        /\ x.pc # "done" => x.result = ver[r].result
        /\ x.pc = "done" => x.result = "unknownKey" /\ ver[r].unknown
    BY <1>0, <2>1 DEF RequestType
  <2>3. ver'[r] = x
    BY <1>0, <2>1, <2>2, RequestMoves
  <2>4. Refreshes(r)' /\ Spaced(r)' /\ Recent(r)'
    BY <1>0, <1>1, <2>0, <2>2, <2>3 DEF Refreshes, Spaced, Recent
  <2> QED
    BY <1>0, <1>1, <2>0, <2>1, <2>2, <2>4, QuietStep
<1>5. ASSUME NEW sound \in BOOLEAN, CheckClaims(r, sound) PROVE JwksInv'
  <2> DEFINE res == IF sound THEN "verified" ELSE "refused"
             x == [ver[r] EXCEPT !.pc = "done", !.result = res]
  <2>1. ver' = [ver EXCEPT ![r] = x] /\ holder' = holder /\ ver[r].pc = "claims"
    BY <1>5 DEF CheckClaims
  <2>2. res \in {"verified", "refused"}
    OBVIOUS
  <2> HIDE DEF res
  <2>3. /\ x \in RequestType /\ x.pc = "done" /\ x.got = ver[r].got /\ x.from = ver[r].from
        /\ x.result = res
    BY <1>0, <2>2 DEF RequestType
  <2>4. ver'[r] = x
    BY <1>0, <2>1, <2>3, RequestMoves
  <2> HIDE DEF x
  <2>5. Refreshes(r)' /\ Spaced(r)' /\ Recent(r)'
    BY <1>0, <1>1, <2>1, <2>2, <2>3, <2>4 DEF Refreshes, Spaced, Recent
  <2> QED
    BY <1>0, <1>1, <2>1, <2>3, <2>5, QuietStep
<1> QED
  BY <1>2, <1>3, <1>4, <1>5

\* Time passes, and the provider rotates its keys.
LEMMA OutsideStep ==
    ASSUME JwksAssumption, JwksInv, Tick \/ \E k \in Keys : Publish(k)
    PROVE  JwksInv'
<1>0. /\ JwksTypes /\ now \in Nat /\ MaxTime \in Nat /\ cache.at \in Nat /\ Cooldown \in Nat
      /\ \A r \in Verifications : ver[r].from \in Nat /\ ver[r].got.at \in Nat
      /\ fetches \in SUBSET Nat /\ CacheIsNewest
      /\ \A r \in Verifications : Refreshes(r) /\ Spaced(r) /\ Recent(r)
  BY DEF JwksInv, JwksTypes, RequestType, CacheType, JwksAssumption
<1>1. /\ UNCHANGED <<cache, holder, ver, fetches>> /\ now' \in 0..MaxTime /\ now' >= now
      /\ published' \in SUBSET Keys
  BY <1>0 DEF Tick, Publish, JwksTypes
<1>2. JwksTypes' /\ CacheIsNewest'
  BY <1>0, <1>1 DEF JwksTypes, CacheIsNewest
<1>3. ASSUME NEW r \in Verifications PROVE Refreshes(r)' /\ Spaced(r)' /\ Recent(r)'
  BY <1>0, <1>1 DEF Refreshes, Spaced, Recent
<1> QED
  BY <1>2, <1>3 DEF JwksInv

LEMMA JwksInvariant == ASSUME JwksAssumption PROVE JwksSpec => []JwksInv
<1>1. ASSUME JwksInit PROVE JwksInv
  <2>1. NotVerifying \in RequestType /\ NoCache \in CacheType
    BY DEF RequestType, NotVerifying, NoCache, CacheType
  <2>2. JwksTypes /\ CacheIsNewest
    BY <1>1, <2>1 DEF JwksInit, JwksTypes, CacheIsNewest, NoCache, JwksAssumption
  <2>3. ASSUME NEW r \in Verifications PROVE Refreshes(r) /\ Spaced(r) /\ Recent(r)
    BY <1>1 DEF JwksInit, NotVerifying, Refreshes, Spaced, Recent
  <2> QED
    BY <2>2, <2>3 DEF JwksInv
<1>2. ASSUME JwksInv, [JwksNext]_jwksVars PROVE JwksInv'
  <2>1. CASE UNCHANGED jwksVars
    BY <1>2, <2>1 DEF jwksVars, JwksInv, JwksTypes, CacheIsNewest, Refreshes, Spaced, Recent
  <2>2. CASE JwksNext
    BY <1>2, <2>2, OutsideStep, BeginStep, CheckStep, FetchStep, StoreStep, LookStep DEF JwksNext, VerifyStep
  <2> QED
    BY <1>2, <2>1, <2>2
<1> QED
  BY <1>1, <1>2, PTL DEF JwksSpec

----------------------------------------------------------------------------
(* Theorems                                                                 *)

\* The types.
THEOREM JwksTypeCorrect == ASSUME JwksAssumption PROVE JwksSpec => []JwksTypeOK
<1>1. JwksInv => JwksTypeOK
  BY DEF JwksInv, JwksTypes, CacheIsNewest, CacheType, RequestType, JwksTypeOK
<1> QED
  BY <1>1, JwksInvariant, PTL

\* However many requests carry unknown keys, the provider's successful answers
\* are a cooldown apart (refresh_lock and the second look at the cache).
THEOREM ProviderIsSpared == ASSUME JwksAssumption PROVE JwksSpec => []FetchesSpaced
<1>1. JwksInv => FetchesSpaced
  BY DEF JwksInv, Spaced, FetchesSpaced
<1> QED
  BY <1>1, JwksInvariant, PTL

\* No token is accepted with keys that were older than the TTL when its
\* verification began.
THEOREM AcceptedByRecentKeys == ASSUME JwksAssumption PROVE JwksSpec => []KeysRecent
<1>1. JwksInv => KeysRecent
  BY DEF JwksInv, Recent, KeysRecent
<1> QED
  BY <1>1, JwksInvariant, PTL

\* A key is refused as unknown only against keys younger than the cooldown.
THEOREM RefusedByRecentKeys == ASSUME JwksAssumption PROVE JwksSpec => []UnknownIsRecent
<1>1. JwksInv => UnknownIsRecent
  BY DEF JwksInv, Recent, UnknownIsRecent
<1> QED
  BY <1>1, JwksInvariant, PTL

\* Everything the runs check of the key cache, for every set of requests and keys.
THEOREM VerifierIsSafe == ASSUME JwksAssumption PROVE JwksSpec => []VerifierSafe
BY JwksTypeCorrect, ProviderIsSpared, AcceptedByRecentKeys, RefusedByRecentKeys, PTL
   DEF VerifierSafe
================================================================================
