------------------------------ MODULE StudioState ------------------------------
(***************************************************************************)
(* The state of the plugin's connection session that is under its mutex     *)
(* (ConnectionState, StudioState, DeliveryState) and the operations on it,  *)
(* as functions from one state record to the next.                          *)
(*                                                                          *)
(* printer_epoch and cache_generation are one field, cacheGen: every        *)
(* operation that moves one of them moves the other.  The status report of  *)
(* a printer is not kept; a device is known by its dev_id, its Hub          *)
(* printer id and whether it is online.  connected_notifications keeps the  *)
(* ticket of the signal for its time: within a second of it no other signal *)
(* is issued for the device, later another one may be.                      *)
(***************************************************************************)
EXTENDS Naturals, Sequences, FiniteSets, SequencesExt

CONSTANTS
    Devs,        \* dev_ids, numbered in their order
    None

StudioAssumption == Devs \subseteq Nat /\ None \notin Devs

Kinds == {"connected", "message", "localConnect", "cloudOffline", "localOffline", "localLost"}
Listeners == {"cloudMessage", "localMessage", "printerConnected", "localConnected"}

NoFn == [x \in {} |-> x]
Without(f, S) == Restrict(f, DOMAIN f \ S)
With(f, x, v) == [y \in DOMAIN f \cup {x} |-> IF y = x THEN v ELSE f[y]]

NewState(hub, token, tenant, listeners) ==
    [hub |-> hub, token |-> token, tenant |-> tenant, gen |-> 0, acct |-> 0,
     reach |-> "unknown", pendReach |-> "none", auth |-> "unknown", pendAuth |-> FALSE,
     fresh |-> FALSE, printers |-> NoFn, unconfirmed |-> {}, pendOff |-> {},
     degraded |-> FALSE, errPending |-> FALSE, degOff |-> {},
     tickets |-> NoFn, next |-> 0,
     selected |-> None, subs |-> {}, inited |-> {}, notified |-> NoFn,
     local |-> [target |-> None, gen |-> 0, connected |-> FALSE],
     listeners |-> listeners, transition |-> FALSE, cacheGen |-> 1,
     issued |-> NoFn, nextStudio |-> 0, offline |-> NoFn, connect |-> {},
     cloudStatus |-> {}, localStatus |-> {}]

-------------------------------------------------------------------------------
(* StudioState                                                              *)

CloudTarget(s, d) == s.selected = d \/ d \in s.subs

NextLocal(l) == [target |-> None, gen |-> l.gen + 1, connected |-> FALSE]

InvalidateCache(s) == [s EXCEPT !.cacheGen = @ + 1, !.issued = NoFn]

ClearStreamWork(s) ==
    [InvalidateCache(s) EXCEPT !.offline = NoFn, !.connect = {}, !.cloudStatus = {},
                               !.localStatus = {}, !.inited = {}, !.notified = NoFn]

ResetAccount(s, pending) ==
    LET d == s.local.target
        l == IF d = None THEN [s.local EXCEPT !.connected = FALSE] ELSE NextLocal(s.local)
    IN  [InvalidateCache(s) EXCEPT
            !.local = l, !.selected = None, !.subs = {}, !.inited = {}, !.notified = NoFn,
            !.transition = pending, !.connect = {}, !.cloudStatus = {}, !.localStatus = {},
            !.offline = IF d = None THEN @
                        ELSE With(@, d, [local |-> l.gen, cloud |-> FALSE, forced |-> FALSE])]

ConnectionChanged(s) ==
    [s EXCEPT !.inited = {}, !.notified = NoFn,
              !.issued = RestrictValues(@, LAMBDA t : t.kind \in {"localOffline", "localLost"})]

ForgetCloud(s, d) == [s EXCEPT !.inited = @ \ {d}, !.notified = Without(@, {d})]

\* queue_offline_with_policy.  A local generation of 0 is no local part.
StudioOffline(s, d, forced) ==
    LET isLocal == s.local.target = d
        l == IF isLocal THEN NextLocal(s.local) ELSE s.local
        mine == IF isLocal THEN l.gen ELSE 0
        old == IF d \in DOMAIN s.offline THEN s.offline[d]
               ELSE [local |-> 0, cloud |-> TRUE, forced |-> FALSE]
        work == [local |-> IF old.local # 0 THEN old.local ELSE mine,
                 cloud |-> TRUE, forced |-> old.forced \/ forced]
    IN  [ForgetCloud(s, d) EXCEPT
                  !.issued = RestrictValues(@, LAMBDA t : t.dev # d), !.local = l,
                  !.connect = @ \ {d}, !.cloudStatus = @ \ {d}, !.localStatus = @ \ {d},
                  !.offline = With(@, d, work)]

QueueCloudStatus(s, d) ==
    IF "cloudMessage" \in s.listeners /\ CloudTarget(s, d)
    THEN [s EXCEPT !.cloudStatus = @ \cup {d},
                   !.connect = IF "printerConnected" \in s.listeners THEN @ \cup {d} ELSE @]
    ELSE s

QueueLocalStatus(s, d) ==
    IF "localMessage" \in s.listeners /\ s.local.connected /\ s.local.target = d
    THEN [s EXCEPT !.localStatus = @ \cup {d}]
    ELSE s

QueueStatus(s, d) == QueueLocalStatus(QueueCloudStatus(s, d), d)

StudioRecover(s, d) ==
    [s EXCEPT !.offline = IF d \in DOMAIN @ /\ @[d].forced THEN @ ELSE Without(@, {d}),
              !.cloudStatus = @ \ {d}, !.localStatus = @ \ {d}]

SetListener(s, kind, present) ==
    LET t == [s EXCEPT !.listeners = IF present THEN @ \cup {kind} ELSE @ \ {kind}]
    IN  CASE ~present /\ kind = "cloudMessage" -> [t EXCEPT !.cloudStatus = {}]
          [] ~present /\ kind = "localMessage" -> [t EXCEPT !.localStatus = {}]
          [] ~present /\ kind = "printerConnected" -> [t EXCEPT !.connect = {}]
          [] OTHER -> t

RetireCloudTarget(s, d) ==
    [ForgetCloud(s, d) EXCEPT !.connect = @ \ {d}, !.cloudStatus = @ \ {d},
              !.issued = RestrictValues(@, LAMBDA t : t.dev # d \/ ~t.cloud)]

\* heartbeat_plan: the status thread goes round again without waiting.
Busy(s) ==
    \/ s.connect # {} \/ s.cloudStatus # {} \/ s.localStatus # {} \/ DOMAIN s.offline # {}
    \/ \E t \in DOMAIN s.issued : ~s.issued[t].claimed

-------------------------------------------------------------------------------
(* Deliveries to Studio                                                     *)

Online(s, d) == d \in DOMAIN s.printers /\ s.printers[d].online

StudioEligible(s, d) ==
    ~s.transition /\ s.reach = "connected" /\ s.auth # "rejected" /\ s.fresh /\ Online(s, d)

\* A delivery of a kind: cloud says that it goes to the cloud side of Studio.
Delivery(s, kind, d, cloud, lgen, flag) ==
    [kind |-> kind, dev |-> d, cloud |-> cloud, lgen |-> lgen, flag |-> flag,
     acct |-> s.acct, cacheGen |-> s.cacheGen, claimed |-> FALSE]

Issue(s, delivery) ==
    [s EXCEPT !.nextStudio = @ + 1, !.issued = With(@, s.nextStudio + 1, delivery)]

CanConnected(s, d) ==
    /\ StudioEligible(s, d) /\ "printerConnected" \in s.listeners /\ CloudTarget(s, d)
    /\ d \notin s.inited

IssueConnected(s, d) ==
    Issue([s EXCEPT !.notified = With(@, d, s.nextStudio + 1)],
          Delivery(s, "connected", d, TRUE, s.nextStudio + 1, FALSE))

ListenerReady(s, d, cloud, lgen) ==
    IF cloud THEN "cloudMessage" \in s.listeners /\ CloudTarget(s, d)
    ELSE /\ "localMessage" \in s.listeners /\ s.local.connected
         /\ s.local.target = d /\ s.local.gen = lgen

CanLocalConnect(s, d) == "localConnected" \in s.listeners /\ StudioEligible(s, d)

IssueLocalConnect(s, d) ==
    LET l == [target |-> d, gen |-> s.local.gen + 1, connected |-> FALSE]
    IN  Issue([s EXCEPT !.local = l], Delivery(s, "localConnect", d, FALSE, l.gen, FALSE))

DeliveryValid(s, t) ==
    /\ t.acct = s.acct /\ t.cacheGen = s.cacheGen
    /\ CASE t.kind = "connected" ->
                 /\ CanConnected(s, t.dev)
                 /\ t.dev \in DOMAIN s.notified /\ s.notified[t.dev] = t.lgen
         [] t.kind = "message" ->
                 StudioEligible(s, t.dev) /\ ListenerReady(s, t.dev, t.cloud, t.lgen)
         [] t.kind = "localConnect" ->
                 /\ CanLocalConnect(s, t.dev) /\ ~s.local.connected
                 /\ s.local.target = t.dev /\ s.local.gen = t.lgen
         [] t.kind = "cloudOffline" ->
                 (t.flag \/ ~StudioEligible(s, t.dev)) /\ ListenerReady(s, t.dev, TRUE, 0)
         [] OTHER ->
                 /\ ~StudioEligible(s, t.dev) /\ s.local.target = None /\ s.local.gen = t.lgen
                 /\ (IF t.kind = "localOffline" THEN "localMessage" ELSE "localConnected")
                        \in s.listeners

Rollback(s, t) ==
    CASE t.kind = "connected" /\ t.dev \in DOMAIN s.notified /\ s.notified[t.dev] = t.lgen ->
             [s EXCEPT !.notified = Without(@, {t.dev})]
      [] t.kind = "localConnect" /\ s.local.target = t.dev /\ s.local.gen = t.lgen ->
             [s EXCEPT !.local = NextLocal(@)]
      [] OTHER -> s

Forget(s, n) == [s EXCEPT !.issued = Without(@, {n})]

CanClaim(s, n) == n \in DOMAIN s.issued /\ ~s.issued[n].claimed /\ DeliveryValid(s, s.issued[n])

ClaimDelivery(s, n) ==
    CASE CanClaim(s, n) -> [s EXCEPT !.issued[n].claimed = TRUE]
      [] n \in DOMAIN s.issued /\ ~s.issued[n].claimed -> Rollback(Forget(s, n), s.issued[n])
      [] OTHER -> s

Completed(s, t) ==
    CASE t.kind = "message" /\ t.cloud /\ t.flag ->
             [s EXCEPT !.inited = @ \cup {t.dev}, !.notified = Without(@, {t.dev})]
      [] t.kind = "localConnect" -> [s EXCEPT !.local.connected = TRUE]
      [] OTHER -> s

CompleteDelivery(s, n, delivered) ==
    IF n \notin DOMAIN s.issued THEN s
    ELSE LET t == s.issued[n]
             r == Forget(s, n)
         IN  IF delivered /\ DeliveryValid(r, t) THEN Completed(r, t) ELSE Rollback(r, t)

\* take_work: the offline work of a device, in the order of its tickets.
OfflineWork(s, d) ==
    LET o == s.offline[d]
    IN  (IF o.cloud /\ ListenerReady(s, d, TRUE, 0)
         THEN <<Delivery(s, "cloudOffline", d, TRUE, 0, o.forced)>> ELSE <<>>)
        \o (IF o.local # 0 /\ "localMessage" \in s.listeners
            THEN <<Delivery(s, "localOffline", d, FALSE, o.local, FALSE)>> ELSE <<>>)
        \o (IF o.local # 0 /\ "localConnected" \in s.listeners
            THEN <<Delivery(s, "localLost", d, FALSE, o.local, FALSE)>> ELSE <<>>)

Each(S, Work(_)) == FlattenSeq([i \in 1..Cardinality(S) |-> Work(SetToSortSeq(S, <)[i])])

\* take_work: the deliveries that are due.  quiet: devices signalled within the last second.
DueWork(s, quiet) ==
    Each(DOMAIN s.offline, LAMBDA d : OfflineWork(s, d))
    \o Each({d \in s.connect \ quiet : CanConnected(s, d)},
            LAMBDA d : <<Delivery(s, "connected", d, TRUE, 0, FALSE)>>)
    \o Each({d \in s.cloudStatus : ListenerReady(s, d, TRUE, 0) /\ StudioEligible(s, d)},
            LAMBDA d : <<Delivery(s, "message", d, TRUE, 0, d \notin s.inited)>>)
    \o Each({d \in s.localStatus : ListenerReady(s, d, FALSE, s.local.gen) /\ StudioEligible(s, d)},
            LAMBDA d : <<Delivery(s, "message", d, FALSE, s.local.gen, FALSE)>>)

\* The tickets of the work that TakeWork issues.
WorkTickets(s, quiet) == [i \in 1..Len(DueWork(s, quiet)) |-> s.nextStudio + i]

TakeWork(s, quiet) ==
    LET due == DueWork(s, quiet)
        Signal(d, i) == due[i].kind = "connected" /\ due[i].dev = d
        told == {d \in Devs : \E i \in DOMAIN due : Signal(d, i)}
        ticket(d) == s.nextStudio + CHOOSE i \in DOMAIN due : Signal(d, i)
        numbered == [i \in DOMAIN due |->
                        IF due[i].kind = "connected"
                        THEN [due[i] EXCEPT !.lgen = s.nextStudio + i] ELSE due[i]]
    IN  [s EXCEPT
            !.offline = NoFn, !.connect = {}, !.cloudStatus = {}, !.localStatus = {},
            !.nextStudio = @ + Len(due),
            !.notified = [d \in DOMAIN @ \cup told |-> IF d \in told THEN ticket(d) ELSE @[d]],
            !.issued = [n \in DOMAIN @ \cup {s.nextStudio + i : i \in DOMAIN due} |->
                            IF n > s.nextStudio THEN numbered[n - s.nextStudio] ELSE @[n]]]

-------------------------------------------------------------------------------
(* DeliveryState and ConnectionState                                        *)

ClearDeliveries(s) ==
    [s EXCEPT !.pendReach = "none", !.pendAuth = FALSE, !.pendOff = {}, !.degOff = {},
              !.unconfirmed = {}, !.tickets = NoFn]

NotAuth(t) == t.kind # "auth"

ResetAuthDelivery(s) ==
    [s EXCEPT !.auth = "unknown", !.pendAuth = FALSE, !.tickets = RestrictValues(@, NotAuth)]

CaptureOnline(s) ==
    IF s.fresh THEN [s EXCEPT !.unconfirmed = @ \cup {d \in DOMAIN s.printers : Online(s, d)}]
    ELSE s

SetReachability(s, r) ==
    IF s.reach = r THEN s
    ELSE ConnectionChanged(
            [s EXCEPT !.reach = r, !.pendReach = r,
                      !.tickets = RestrictValues(@, LAMBDA t : t.kind # "reach")])

RejectAuth(s) ==
    IF s.auth = "rejected" THEN s
    ELSE [s EXCEPT !.auth = "rejected", !.pendAuth = TRUE, !.tickets = RestrictValues(@, NotAuth)]

AcceptAuth(s) ==
    [s EXCEPT !.auth = "accepted", !.pendAuth = FALSE, !.tickets = RestrictValues(@, NotAuth)]

HasOffline(s, d) ==
    d \in s.pendOff \/ \E n \in DOMAIN s.tickets : s.tickets[n] = [kind |-> "offline", dev |-> d]

QueueOffline(s, d) ==
    IF HasOffline(s, d) THEN s
    ELSE StudioOffline([s EXCEPT !.pendOff = @ \cup {d}], d, FALSE)

QueueForcedOffline(s, d) ==
    LET t == [s EXCEPT !.degOff = @ \cup {d},
                       !.pendOff = IF HasOffline(s, d) THEN @ ELSE @ \cup {d}]
    IN  StudioOffline(t, d, TRUE)

RecoverOnline(s, d) ==
    LET t == IF d \in s.degOff THEN s
             ELSE [s EXCEPT !.pendOff = @ \ {d},
                            !.tickets = RestrictValues(@, LAMBDA x : x # [kind |-> "offline", dev |-> d])]
    IN  StudioRecover(t, d)

\* An operation applied to every device of a set, in their order.
ForEach(s, S, Op(_, _)) == FoldLeft(Op, s, SetToSortSeq(S, <))

\* What every change of the account, the token, the Hub or the tenant has in common.
NewGeneration(s) ==
    [s EXCEPT !.gen = @ + 1, !.fresh = FALSE, !.degraded = FALSE, !.errPending = FALSE]

UpdateAccount(s, hub, token) ==
    CASE s.hub = hub /\ s.token = token -> s
      [] s.hub # hub ->
             NewGeneration(ResetAccount(
                 ClearDeliveries([s EXCEPT !.hub = hub, !.token = token, !.reach = "unknown",
                                           !.auth = "unknown", !.printers = NoFn]),
                 s.transition))
      [] OTHER ->
             LET t == ResetAuthDelivery(ClearDeliveries(CaptureOnline([s EXCEPT !.token = token])))
             IN  NewGeneration(IF s.transition THEN InvalidateCache(t) ELSE ClearStreamWork(t))

\* Mutant: the printers of the old account stay in the cache.
SetAccountEpochKeeps(s, e) ==
    IF s.acct = e THEN s
    ELSE NewGeneration(ResetAccount(ClearDeliveries([s EXCEPT !.acct = e, !.auth = "unknown"]),
                                    s.transition))

SetAccountEpoch(s, e) ==
    IF s.acct = e THEN s
    ELSE NewGeneration(ResetAccount(
             ClearDeliveries([s EXCEPT !.acct = e, !.auth = "unknown", !.printers = NoFn]),
             s.transition))

SetTenant(s, tenant) ==
    IF s.tenant = tenant THEN s
    ELSE NewGeneration(ResetAccount(
             ClearDeliveries([s EXCEPT !.tenant = tenant, !.auth = "unknown",
                                       !.reach = "unknown", !.printers = NoFn]),
             s.transition))

BeginTransition(s) ==
    NewGeneration(ResetAccount(
        ClearDeliveries([s EXCEPT !.acct = @ + 1, !.auth = "unknown", !.printers = NoFn]), TRUE))

FinishTransition(s, e) == IF s.acct = e THEN [s EXCEPT !.transition = FALSE] ELSE s

\* connection_result_from_state.
IsConnected(s) == s.reach = "connected" /\ s.auth = "accepted" /\ s.fresh

-------------------------------------------------------------------------------
(* What the printer event stream does to the cache (stream/cache.rs)        *)

ProjectOffline(s) ==
    [s EXCEPT !.printers = [d \in DOMAIN @ |-> [@[d] EXCEPT !.online = FALSE]]]

ObserveHealth(s, healthy) ==
    IF ~healthy THEN SetReachability(s, "disconnected")
    ELSE LET t == IF s.fresh /\ s.auth = "accepted" THEN SetReachability(s, "connected") ELSE s
             went == {d \in DOMAIN s.printers : Online(s, d)}
             dark == InvalidateCache(ProjectOffline([t EXCEPT !.degraded = TRUE, !.errPending = TRUE]))
         IN  IF s.degraded THEN t
             ELSE [ForEach(dark, went, QueueForcedOffline) EXCEPT !.unconfirmed = {}]

AuthRejected(s) ==
    RejectAuth(ClearStreamWork(ClearDeliveries(
        [s EXCEPT !.fresh = FALSE, !.printers = NoFn, !.degraded = FALSE, !.errPending = FALSE])))

Replaced(s, d, p) == d \in DOMAIN s.printers /\ s.printers[d].id # p.id

Committed(s, next) ==
    AcceptAuth([s EXCEPT !.unconfirmed = {}, !.printers = next, !.fresh = TRUE, !.degraded = FALSE])

ApplySnapshot(s, next) ==
    LET on == {d \in DOMAIN next : next[d].online}
        repl == {d \in DOMAIN next : Replaced(s, d, next[d])}
        off == ({d \in DOMAIN s.printers : Online(s, d) /\ d \notin on} \cup s.unconfirmed) \ repl
        s1 == ForEach(InvalidateCache(s), off, QueueOffline)
        s2 == ForEach(s1, repl, QueueForcedOffline)
        s3 == ForEach(s2, on \ repl, RecoverOnline)
    IN  ForEach(SetReachability(Committed(s3, next), "connected"), on, QueueStatus)

ApplyUpsert(s, d, p) ==
    LET t == InvalidateCache(s)
        u == CASE Replaced(s, d, p) -> QueueForcedOffline(t, d)
               [] ~Replaced(s, d, p) /\ Online(s, d) /\ ~p.online -> QueueOffline(t, d)
               [] ~Replaced(s, d, p) /\ p.online -> RecoverOnline(t, d)
               [] OTHER -> t
        v == [u EXCEPT !.printers = With(@, d, p)]
    IN  IF p.online THEN QueueStatus(v, d) ELSE v

ApplyRemoval(s, d, id) ==
    IF d \in DOMAIN s.printers /\ s.printers[d].id = id
    THEN [QueueForcedOffline(InvalidateCache(s), d) EXCEPT !.printers = Without(@, {d})]
    ELSE s
===============================================================================
