--------------------------- MODULE AgentSessions ---------------------------
(***************************************************************************)
(* The reverse-connection sessions of ONE agent over a set of hub          *)
(* replicas (crates/pandar-hub/src/sessions.rs, grpc.rs, grpc/inbound.rs,   *)
(* runtime.rs, repositories/agents/connections.rs).                        *)
(*                                                                         *)
(* Every replica keeps an in-memory registry with at most one session of   *)
(* the agent and a transition lease (an async mutex) for it.  The replicas *)
(* share the agent's database row, whose current_session_id is the fence   *)
(* of every session-scoped write, and a control plane (NATS) on which a    *)
(* replica that accepts the agent tells its siblings to close theirs.      *)
(*                                                                         *)
(* The registry, the lease and the row are all keyed by the agent, so one  *)
(* agent is enough.  A session token is a fresh UUID made by the replica   *)
(* that accepts the stream: HubOf names that replica.                      *)
(***************************************************************************)
EXTENDS Naturals

CONSTANTS
    Hubs,        \* hub replicas
    Sessions,    \* session tokens, each used for one connection
    HubOf,       \* the replica whose connect_stream made the token
    NoSession,   \* absent session: SQL NULL, an empty registry slot
    MaxFaults,   \* bound on crashes, failed or lost steps and admin closes
    Timeouts     \* heartbeats may be later than STALE_SESSION_TIMEOUT

ASSUME HubOfAssumption == HubOf \in [Sessions -> Hubs]
ASSUME NoSessionAssumption == NoSession \notin Sessions
ASSUME MaxFaultsAssumption == MaxFaults \in Nat
ASSUME TimeoutsAssumption == Timeouts \in BOOLEAN

VARIABLES
    row,       \* agents row: [status, session] (session = current_session_id)
    registry,  \* SessionRegistry.sessions of each replica
    lease,     \* the replica's transition lease: its holder, or Free
    conn,      \* phase of the connection that owns the token
    fresh,     \* the registered session's heartbeat is within STALE_SESSION_TIMEOUT
    sweep,     \* expire_stale: the stale session being expired, and its phase
    control,   \* AgentClose messages in flight, one per receiving replica
    epoch,     \* history: order of the claim_online_session calls (0: none)
    claims,    \* history: number of claims so far
    faults     \* history: faults taken, bounded by MaxFaults

vars == <<row, registry, lease, conn, fresh, sweep, control, epoch,
          claims, faults>>

Phases == {"new", "claimed", "registered", "open", "ending", "removing",
           "closed"}
Maybe == Sessions \cup {NoSession}
Free == <<"free", NoSession>>
Holders == {"connect", "disconnect", "dispatch", "expire"} \X Sessions
Sweeps == [session : Sessions, phase : {"stale", "removing"}]
Idle == [session |-> NoSession, phase |-> "idle"]

\* AgentClose carries the publishing replica; cause is history: the session
\* whose connect published it, or NoSession for an administrative close.
Messages == [to : Hubs, source : Hubs, cause : Maybe]

TypeOK ==
    /\ row \in [status : {"online", "offline"}, session : Maybe]
    /\ registry \in [Hubs -> Maybe]
    /\ lease \in [Hubs -> Holders \cup {Free}]
    /\ conn \in [Sessions -> Phases]
    /\ fresh \in [Hubs -> BOOLEAN]
    /\ sweep \in [Hubs -> {Idle} \cup Sweeps]
    /\ control \in SUBSET Messages
    /\ epoch \in [Sessions -> Nat]
    /\ claims \in Nat
    /\ faults \in 0..MaxFaults

Init ==
    /\ row = [status |-> "offline", session |-> NoSession]
    /\ registry = [h \in Hubs |-> NoSession]
    /\ lease = [h \in Hubs |-> Free]
    /\ conn = [s \in Sessions |-> "new"]
    /\ fresh = [h \in Hubs |-> FALSE]
    /\ sweep = [h \in Hubs |-> Idle]
    /\ control = {}
    /\ epoch = [s \in Sessions |-> 0]
    /\ claims = 0
    /\ faults = 0

----------------------------------------------------------------------------
(* Shared operations.                                                      *)

\* Mutant: the transition lease is not taken.
LeaseNeverHeld(h) == TRUE

\* transition_lease: the agent's mutex in this replica is not held.
LeaseFree(h) == lease[h] = Free

IsCurrent(s) == registry[HubOf[s]] = s

\* begin_current_agent_transaction: the row lock succeeds and the row still
\* names the session; otherwise AgentSessionNotCurrent.
RowNames(s) == row.session = s

\* Mutants: the offline write is not fenced by the token; it writes a status
\* no reader knows.
MarkOfflineUnfenced(s) == [status |-> "offline", session |-> NoSession]
MarkOfflineUnknownStatus(s) ==
    IF RowNames(s) THEN [status |-> "expired", session |-> NoSession] ELSE row

\* mark_offline_if_current: a row that names another session is left alone.
MarkOffline(s) ==
    IF RowNames(s) THEN [status |-> "offline", session |-> NoSession] ELSE row

\* The registry entry of the replica is dropped, and with it its heartbeat time.
EmptySlot(h) ==
    /\ registry' = [registry EXCEPT ![h] = NoSession]
    /\ fresh' = [fresh EXCEPT ![h] = FALSE]

\* The session's pump sees its close channel ready: register and
\* close_local_agent signal it, and every other removal from the registry drops
\* the last sender, after which recv() returns at once.
Closed(s) == conn[s] \notin {"new", "claimed"} /\ ~IsCurrent(s)

\* control_plane().publish(AgentClose): every other replica gets a copy; the
\* publisher ignores its own (handle_control_message returns early).
PublishClose(h, s) ==
    control \cup {[to |-> g, source |-> h, cause |-> s] : g \in Hubs \ {h}}

Fault == faults < MaxFaults /\ faults' = faults + 1

----------------------------------------------------------------------------
(* AgentControlService::connect_stream                                     *)

\* Takes the lease and claims the agent row for the new token.
ClaimOnline(s) ==
    LET h == HubOf[s] IN
    /\ conn[s] = "new"
    /\ LeaseFree(h)
    /\ lease' = [lease EXCEPT ![h] = <<"connect", s>>]
    /\ row' = [status |-> "online", session |-> s]
    /\ conn' = [conn EXCEPT ![s] = "claimed"]
    /\ claims' = claims + 1
    /\ epoch' = [epoch EXCEPT ![s] = claims + 1]
    /\ UNCHANGED <<registry, fresh, sweep, control, faults>>

\* SessionRegistry::register, end of the lease, then the AgentClose publish.
Register(s) ==
    LET h == HubOf[s] IN
    /\ conn[s] = "claimed"
    /\ registry' = [registry EXCEPT ![h] = s]
    /\ fresh' = [fresh EXCEPT ![h] = TRUE]
    /\ lease' = [lease EXCEPT ![h] = Free]
    /\ conn' = [conn EXCEPT ![s] = "registered"]
    /\ control' = PublishClose(h, s)
    /\ UNCHANGED <<row, sweep, epoch, claims, faults>>

\* The inbound handler and the outbound pump are spawned.
SpawnTasks(s) ==
    /\ conn[s] = "registered"
    /\ conn' = [conn EXCEPT ![s] = "open"]
    /\ UNCHANGED <<row, registry, lease, fresh, sweep, control, epoch,
                   claims, faults>>

\* The client resets the stream while connect_stream runs: the handler future
\* is dropped, its lease guard with it, and no task will ever disconnect.
AbandonConnect(s) ==
    LET h == HubOf[s] IN
    /\ conn[s] \in {"claimed", "registered"}
    /\ Fault
    /\ lease' = IF conn[s] = "claimed" THEN [lease EXCEPT ![h] = Free] ELSE lease
    /\ conn' = [conn EXCEPT ![s] = "closed"]
    /\ UNCHANGED <<row, registry, fresh, sweep, control, epoch, claims>>

----------------------------------------------------------------------------
(* The two tasks of an open connection                                     *)

\* The inbound loop of spawn_inbound_handler breaks (EOF, error or bad event).
InboundEnds(s) ==
    /\ conn[s] = "open"
    /\ conn' = [conn EXCEPT ![s] = "ending"]
    /\ UNCHANGED <<row, registry, lease, fresh, sweep, control, epoch,
                   claims, faults>>

\* disconnect_session up to the database: a session that is no longer current
\* in this registry touches nothing.
Disconnect(s) ==
    LET h == HubOf[s] IN
    /\ conn[s] = "ending"
    /\ LeaseFree(h)
    /\ IF IsCurrent(s)
       THEN /\ row' = MarkOffline(s)
            /\ lease' = [lease EXCEPT ![h] = <<"disconnect", s>>]
            /\ conn' = [conn EXCEPT ![s] = "removing"]
       ELSE /\ conn' = [conn EXCEPT ![s] = "closed"]
            /\ UNCHANGED <<row, lease>>
    /\ UNCHANGED <<registry, fresh, sweep, control, epoch, claims, faults>>

\* mark_offline_if_current fails: the session stays in the registry.
DisconnectError(s) ==
    /\ conn[s] = "ending"
    /\ LeaseFree(HubOf[s])
    /\ IsCurrent(s)
    /\ Fault
    /\ conn' = [conn EXCEPT ![s] = "closed"]
    /\ UNCHANGED <<row, registry, lease, fresh, sweep, control, epoch, claims>>

\* remove_if_current, then the lease guard is dropped.
RemoveIfCurrent(s) ==
    IF IsCurrent(s) THEN EmptySlot(HubOf[s]) ELSE UNCHANGED <<registry, fresh>>

DisconnectRemove(s) ==
    /\ conn[s] = "removing"
    /\ RemoveIfCurrent(s)
    /\ lease' = [lease EXCEPT ![HubOf[s]] = Free]
    /\ conn' = [conn EXCEPT ![s] = "closed"]
    /\ UNCHANGED <<row, sweep, control, epoch, claims, faults>>

\* Mutant: a heartbeat refreshes the registry whatever the row says.
HeartbeatUnfenced(s) ==
    /\ conn[s] = "open"
    /\ LeaseFree(HubOf[s])
    /\ IsCurrent(s)
    /\ fresh' = [fresh EXCEPT ![HubOf[s]] = TRUE]
    /\ UNCHANGED <<row, registry, lease, conn, sweep, control, epoch, claims, faults>>

\* handle_event(Heartbeat): under the lease, ignored unless the registry and
\* the row both name the session.
Heartbeat(s) ==
    /\ conn[s] = "open"
    /\ LeaseFree(HubOf[s])
    /\ IsCurrent(s)
    /\ RowNames(s)
    /\ row' = [row EXCEPT !.status = "online"]
    /\ fresh' = [fresh EXCEPT ![HubOf[s]] = TRUE]
    /\ UNCHANGED <<registry, lease, conn, sweep, control, epoch, claims, faults>>

\* STALE_SESSION_TIMEOUT passes without an accepted heartbeat.
GoStale(s) ==
    /\ Timeouts
    /\ IsCurrent(s)
    /\ fresh[HubOf[s]]
    /\ fresh' = [fresh EXCEPT ![HubOf[s]] = FALSE]
    /\ UNCHANGED <<row, registry, lease, conn, sweep, control, epoch,
                   claims, faults>>

----------------------------------------------------------------------------
(* SessionRegistry::expire_stale                                           *)

\* The stale sessions are collected without the lease.
CollectStale(h) ==
    /\ sweep[h] = Idle
    /\ registry[h] # NoSession
    /\ ~fresh[h]
    /\ sweep' = [sweep EXCEPT ![h] = [session |-> registry[h], phase |-> "stale"]]
    /\ UNCHANGED <<row, registry, lease, conn, fresh, control, epoch,
                   claims, faults>>

\* Under the lease token and staleness are checked again before the row is
\* marked offline.
ExpireStale(h) ==
    LET s == sweep[h].session IN
    /\ sweep[h].phase = "stale"
    /\ LeaseFree(h)
    /\ IF registry[h] = s /\ ~fresh[h]
       THEN /\ row' = MarkOffline(s)
            /\ lease' = [lease EXCEPT ![h] = <<"expire", s>>]
            /\ sweep' = [sweep EXCEPT ![h].phase = "removing"]
       ELSE /\ sweep' = [sweep EXCEPT ![h] = Idle]
            /\ UNCHANGED <<row, lease>>
    /\ UNCHANGED <<registry, conn, fresh, control, epoch, claims, faults>>

\* mark_offline_if_current fails: the sweep returns the error.
ExpireError(h) ==
    /\ sweep[h].phase = "stale"
    /\ LeaseFree(h)
    /\ Fault
    /\ sweep' = [sweep EXCEPT ![h] = Idle]
    /\ UNCHANGED <<row, registry, lease, conn, fresh, control, epoch, claims>>

ExpireRemove(h) ==
    LET s == sweep[h].session IN
    /\ sweep[h].phase = "removing"
    /\ RemoveIfCurrent(s)
    /\ lease' = [lease EXCEPT ![h] = Free]
    /\ sweep' = [sweep EXCEPT ![h] = Idle]
    /\ UNCHANGED <<row, conn, control, epoch, claims, faults>>

----------------------------------------------------------------------------
(* Closing from outside                                                    *)

\* close_local_agent removes whatever session the replica has and leaves the
\* row as it is.
CloseLocal(h) ==
    /\ LeaseFree(h)
    /\ EmptySlot(h)

\* handle_control_message(AgentClose) from another replica.
ReceiveClose(m) ==
    /\ m \in control
    /\ CloseLocal(m.to)
    /\ control' = control \ {m}
    /\ UNCHANGED <<row, lease, conn, sweep, epoch, claims, faults>>

\* AppState::close_agent after a credential is rotated or revoked.
CloseAgent(h) ==
    /\ Fault
    /\ CloseLocal(h)
    /\ control' = PublishClose(h, NoSession)
    /\ UNCHANGED <<row, lease, conn, sweep, epoch, claims>>

\* The control plane is at most once: a publish or a delivery may be lost.
LoseClose(m) ==
    /\ m \in control
    /\ Fault
    /\ control' = control \ {m}
    /\ UNCHANGED <<row, registry, lease, conn, fresh, sweep, epoch, claims>>

----------------------------------------------------------------------------
(* The lease as other session-scoped work holds it, and process failure    *)

\* dispatch_next_queued_for_session takes the lease for a registered session.
HoldLease(s) ==
    /\ conn[s] \in {"open", "ending", "closed"}
    /\ LeaseFree(HubOf[s])
    /\ lease' = [lease EXCEPT ![HubOf[s]] = <<"dispatch", s>>]
    /\ UNCHANGED <<row, registry, conn, fresh, sweep, control, epoch,
                   claims, faults>>

DropLease(s) ==
    /\ lease[HubOf[s]] = <<"dispatch", s>>
    /\ lease' = [lease EXCEPT ![HubOf[s]] = Free]
    /\ UNCHANGED <<row, registry, conn, fresh, sweep, control, epoch,
                   claims, faults>>

\* A replica stops: registry, leases, tasks and undelivered control messages
\* are gone; the row keeps what it says.
Crash(h) ==
    /\ Fault
    /\ EmptySlot(h)
    /\ lease' = [lease EXCEPT ![h] = Free]
    /\ conn' = [s \in Sessions |->
                  IF HubOf[s] = h /\ conn[s] # "new" THEN "closed" ELSE conn[s]]
    /\ sweep' = [sweep EXCEPT ![h] = Idle]
    /\ control' = {m \in control : m.to # h}
    /\ UNCHANGED <<row, epoch, claims>>

----------------------------------------------------------------------------

SessionStep(s) ==
    \/ ClaimOnline(s) \/ Register(s) \/ SpawnTasks(s) \/ AbandonConnect(s)
    \/ InboundEnds(s) \/ Disconnect(s) \/ DisconnectError(s) \/ DisconnectRemove(s)
    \/ Heartbeat(s) \/ GoStale(s)
    \/ HoldLease(s) \/ DropLease(s)

HubStep(h) ==
    \/ CollectStale(h) \/ ExpireStale(h) \/ ExpireError(h) \/ ExpireRemove(h)
    \/ CloseAgent(h) \/ Crash(h)

Next ==
    \/ \E s \in Sessions : SessionStep(s)
    \/ \E h \in Hubs : HubStep(h)
    \/ \E m \in control : ReceiveClose(m) \/ LoseClose(m)

\* A session that is not heard any more.
GoesUnheard(s) == GoStale(s) /\ (conn[s] = "closed" \/ ~RowNames(s))

\* The tokio mutex is FIFO, so a task that asks for the lease gets it (strong
\* fairness); spawned tasks and the 15 s sweep keep running; a session whose
\* heartbeats are no longer accepted grows stale.  Nothing is assumed of the
\* agent, of the network or of the control plane.
Fairness ==
    /\ \A s \in Sessions :
        /\ WF_vars(Register(s)) /\ WF_vars(DisconnectRemove(s))
        /\ WF_vars(DropLease(s))
        /\ SF_vars(Disconnect(s))
        /\ WF_vars(GoesUnheard(s))
    /\ \A h \in Hubs :
        /\ WF_vars(CollectStale(h)) /\ WF_vars(ExpireRemove(h))
        /\ SF_vars(ExpireStale(h))

Spec == Init /\ [][Next]_vars
FairSpec == Spec /\ Fairness

----------------------------------------------------------------------------
(* Properties                                                              *)

\* The newest claimed session, while its replica has it registered and is not
\* removing it, is the one the agent row names: no disconnect, expiry or crash
\* of an older session ever takes the row away from it.  Everything fenced by
\* begin_current_agent_transaction relies on it.
NewestRegisteredIsPersisted ==
    \A s \in Sessions :
        /\ IsCurrent(s)
        /\ epoch[s] = claims
        /\ conn[s] # "removing"
        /\ sweep[HubOf[s]] # [session |-> s, phase |-> "removing"]
        => RowNames(s)

\* In one replica a connection that has been registered is never shadowed by
\* an older one: claim and register of two racing connects cannot interleave.
NoShadowing ==
    \A s \in Sessions :
        /\ conn[s] \in {"registered", "open", "ending", "removing"}
        /\ registry[HubOf[s]] # NoSession
        => epoch[registry[HubOf[s]]] >= epoch[s]

\* A registry entry nobody can use any more (its tasks are gone, or the row
\* names another session) is reaped, even if AgentClose was lost: the stale
\* sweep gets it because its heartbeats are not accepted.
UnusableSessionReaped ==
    \A s \in Sessions :
        (IsCurrent(s) /\ (conn[s] = "closed" \/ ~RowNames(s))) ~> ~IsCurrent(s)

\* docs/architecture.md:239: "Replacing a live session closes the previous
\* response stream while preserving the newer session."  An AgentClose that a
\* connect published removes only sessions older than that connect.
NewerSessionPreserved ==
    [][\A m \in control :
         (ReceiveClose(m) /\ m.cause # NoSession /\ registry[m.to] # NoSession)
            => epoch[registry[m.to]] < epoch[m.cause]]_vars

----------------------------------------------------------------------------
(* The inductive invariant behind the two safety properties                *)

\* A task between two steps of a leased section holds the lease.
LeaseHeld ==
    /\ \A s \in Sessions :
        /\ conn[s] = "claimed" => lease[HubOf[s]] = <<"connect", s>>
        /\ conn[s] = "removing" => lease[HubOf[s]] = <<"disconnect", s>>
    /\ \A h \in Hubs :
        sweep[h].phase = "removing" => lease[h] = <<"expire", sweep[h].session>>

\* The sweep of a replica works on sessions of that replica.
SweepOwn ==
    \A h \in Hubs : sweep[h].phase # "idle" =>
        sweep[h].session \in Sessions /\ HubOf[sweep[h].session] = h

\* So does its registry, and only on sessions past register.
RegistryOwn ==
    \A h \in Hubs : registry[h] # NoSession =>
        HubOf[registry[h]] = h /\ conn[registry[h]] \notin {"new", "claimed"}

\* Claims are numbered 1, 2, ... without repetition.
EpochOrder ==
    /\ \A s \in Sessions : epoch[s] <= claims /\ (conn[s] = "new" <=> epoch[s] = 0)
    /\ \A s, t \in Sessions : epoch[s] = epoch[t] /\ s # t => epoch[s] = 0

\* The row names nobody or the newest claim.
RowNewest == row.session # NoSession => epoch[row.session] = claims

\* A connection that is about to register is the newest of its replica, and if
\* nobody claimed since, the row is still its own.
ClaimNewest ==
    \A s \in Sessions : conn[s] = "claimed" =>
        /\ \A t \in Sessions : HubOf[t] = HubOf[s] => epoch[t] <= epoch[s]
        /\ epoch[s] = claims => RowNames(s)

SessionInv ==
    /\ TypeOK /\ LeaseHeld /\ SweepOwn /\ RegistryOwn /\ EpochOrder /\ RowNewest
    /\ ClaimNewest /\ NewestRegisteredIsPersisted /\ NoShadowing

============================================================================
