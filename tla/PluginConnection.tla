--------------------------- MODULE PluginConnection ---------------------------
(***************************************************************************)
(* The threads around the connection session of the network plugin: the     *)
(* stream worker that dials the Hub and applies its frames to the printer   *)
(* cache, the status thread and the account drain that carry transitions,   *)
(* offline notices and status reports to Studio, Studio's own calls, and    *)
(* the account changes.  Every acquisition of the state mutex is one step;  *)
(* a callback into Studio runs outside it, under the callback gate.         *)
(***************************************************************************)
EXTENDS StudioState

CONSTANTS
    Hubs, Tokens, Tenants,
    PrinterIds,     \* Hub printer ids
    Threads,        \* the dispatching threads; "status" is one of them
    Budget          \* bounds: kind of event -> how often it happens

ConnectionAssumption ==
    /\ "status" \in Threads /\ Threads \subseteq {"status", "drain", "api"}
    /\ Budget \in [{"frame", "drop", "health", "account", "rotate", "hub", "epoch", "select",
                    "local", "push", "version", "listen", "fail"} -> Nat]

VARIABLES
    s,        \* the state under the mutex
    w,        \* the stream worker
    wake,     \* the worker's Notify holds a permit
    th,       \* the dispatching threads
    gate,     \* the thread inside the callback gate, or None
    woken,    \* status_wake_generation differs from what the status thread observed
    acc,      \* the account change in progress
    cbs,      \* account callbacks queued: the epochs of finished changes
    told,     \* what Studio was told last: reachability, each device, local connection
    left      \* events left

vars == <<s, w, wake, th, gate, woken, acc, cbs, told, left>>

IdleThread == [pc |-> "idle", reach |-> 0, auth |-> 0, up |-> FALSE, rejected |-> FALSE,
               off |-> {}, work |-> <<>>, cur |-> 0, delivery |-> None, ok |-> FALSE,
               then |-> None, epoch |-> 0]
NoWorker == [pc |-> "none", gen |-> 0, acct |-> 0, outage |-> FALSE, staged |-> NoFn,
             ret |-> "none", src |-> <<>>]
NoChange == [pc |-> "none", token |-> None, tenant |-> None, epoch |-> 0]

Source(st) == <<st.hub, st.tenant, st.acct>>
Printers == [id : PrinterIds, online : BOOLEAN]

\* Every variable has its type.
TypeOK ==
    /\ s.reach \in {"unknown", "connected", "disconnected"}
    /\ s.auth \in {"unknown", "accepted", "rejected"}
    /\ DOMAIN s.printers \subseteq Devs /\ s.local.target \in Devs \cup {None}
    /\ s.pendOff \subseteq Devs /\ DOMAIN s.offline \subseteq Devs
    /\ \A n \in DOMAIN s.issued : n \in 1..s.nextStudio /\ s.issued[n].kind \in Kinds
    /\ gate \in Threads \cup {None} /\ wake \in BOOLEAN /\ woken \in BOOLEAN
    /\ \A k \in DOMAIN left : left[k] \in 0..Budget[k]

Init ==
    /\ \E h \in Hubs, t \in Tokens, n \in Tenants : s = NewState(h, t, n, Listeners)
    /\ w = NoWorker /\ wake = FALSE /\ gate = None /\ woken = FALSE
    /\ th = [t \in Threads |-> IdleThread] /\ acc = NoChange /\ cbs = <<>>
    /\ told = [reach |-> "none", dev |-> [d \in Devs |-> "none"], local |-> None]
    /\ left = Budget

Spend(k) == left[k] > 0 /\ left' = [left EXCEPT ![k] = @ - 1]
Go(t, r) == th' = [th EXCEPT ![t] = r]
At(t, pc) == Go(t, [th[t] EXCEPT !.pc = pc])

-------------------------------------------------------------------------------
(* Waking the worker and the status thread                                  *)

\* wake_worker: the worker is spawned at its first wake.
WakeWorker ==
    /\ wake' = (w.pc # "none" \/ wake)
    /\ w' = IF w.pc = "none" THEN [w EXCEPT !.pc = "config"] ELSE w

\* shim_wake_status_dispatcher: the generation is moved and the waiters are notified, without
\* the mutex the status thread waits with.
WakeStatus(threads) ==
    /\ woken' = TRUE
    /\ th' = [threads EXCEPT !["status"].pc = IF @ = "blocked" THEN "check" ELSE @]

Changed == WakeWorker /\ WakeStatus(th)

-------------------------------------------------------------------------------
(* Account changes                                                          *)

\* update, outside of an account change: a no-auth token rotation, or another Hub.
Rotate ==
    \E h \in Hubs, t \in Tokens :
        /\ <<h, t>> # <<s.hub, s.token>> /\ Spend(IF h = s.hub THEN "rotate" ELSE "hub")
        /\ s' = UpdateAccount(s, h, t) /\ Changed
        /\ UNCHANGED <<gate, acc, cbs, told>>

\* begin_account_transition, then the new account's token and tenant, then the callback.
BeginAccount ==
    \E t \in Tokens, n \in Tenants :
        /\ acc.pc = "none" /\ Spend("account")
        /\ s' = BeginTransition(s) /\ Changed
        /\ acc' = [pc |-> "token", token |-> t, tenant |-> n, epoch |-> s.acct + 1]
        /\ UNCHANGED <<gate, cbs, told>>

SyncToken ==
    /\ acc.pc = "token"
    /\ s' = UpdateAccount(s, s.hub, acc.token)
    /\ IF s' = s THEN UNCHANGED <<w, wake, th, woken>> ELSE Changed
    /\ acc' = [acc EXCEPT !.pc = "tenant"]
    /\ UNCHANGED <<gate, cbs, told, left>>

SyncTenant ==
    /\ acc.pc = "tenant"
    /\ s' = SetTenant(s, acc.tenant)
    /\ IF s' = s THEN UNCHANGED <<w, wake, th, woken>> ELSE Changed
    /\ acc' = NoChange /\ cbs' = Append(cbs, acc.epoch)
    /\ UNCHANGED <<gate, told, left>>

EpochSet ==
    /\ Spend("epoch")
    /\ s' = SetAccountEpoch(s, s.acct + 1) /\ Changed
    /\ UNCHANGED <<gate, acc, cbs, told>>

-------------------------------------------------------------------------------
(* Studio's calls                                                           *)

CachedStatus(st, d) == IF Online(st, d) THEN QueueCloudStatus(st, d) ELSE st

SetSelected(d) ==
    LET prev == s.selected
        t == [s EXCEPT !.selected = d]
        r == IF prev # d /\ prev # None /\ prev \notin s.subs THEN RetireCloudTarget(t, prev) ELSE t
    IN  /\ Spend("select") /\ d # prev
        /\ s' = IF CloudTarget(s, d) THEN r ELSE CachedStatus(r, d)
        /\ WakeStatus(th) /\ UNCHANGED <<w, wake, gate, acc, cbs, told>>

AddSubscription(d) ==
    /\ Spend("select") /\ d \notin s.subs
    /\ LET t == [s EXCEPT !.subs = @ \cup {d}]
       IN  s' = IF CloudTarget(s, d) THEN t ELSE CachedStatus(t, d)
    /\ WakeStatus(th) /\ UNCHANGED <<w, wake, gate, acc, cbs, told>>

DelSubscription(d) ==
    /\ Spend("select") /\ d \in s.subs
    /\ LET t == [s EXCEPT !.subs = @ \ {d}]
       IN  s' = IF CloudTarget(t, d) THEN t ELSE RetireCloudTarget(t, d)
    /\ UNCHANGED <<w, wake, th, gate, woken, acc, cbs, told>>

DisconnectLocal ==
    /\ Spend("local")
    /\ s' = [s EXCEPT !.local = NextLocal(@),
                      !.issued = RestrictValues(@, LAMBDA t : t.cloud)]
    /\ told' = [told EXCEPT !.local = None]
    /\ UNCHANGED <<w, wake, th, gate, woken, acc, cbs>>

Listen(kind, present) ==
    /\ Spend("listen") /\ present # (kind \in s.listeners)
    /\ s' = SetListener(s, kind, present)
    /\ WakeStatus(th) /\ UNCHANGED <<w, wake, gate, acc, cbs, told>>

\* connection_refresh: the first one starts the stream worker.
Refresh ==
    /\ w.pc = "none" /\ WakeWorker
    /\ UNCHANGED <<s, th, gate, woken, acc, cbs, told, left>>

\* bambu_network_connect_printer, on a thread of Studio.
ConnectLocal(t, d) ==
    /\ t = "api" /\ th[t].pc = "idle" /\ CanLocalConnect(s, d) /\ Spend("local")
    /\ s' = IssueLocalConnect(s, d)
    /\ told' = [told EXCEPT !.local = None]
    /\ Go(t, [IdleThread EXCEPT !.pc = "claim", !.work = <<s.nextStudio + 1>>])
    /\ UNCHANGED <<w, wake, gate, woken, acc, cbs>>

StatusOf(d, cloud) ==
    [dev |-> d, cloud |-> cloud, lgen |-> s.local.gen, cacheGen |-> 0, init |-> FALSE]

\* A pushall of Studio: the connected signal on the cloud side, then the status report.
PushAll(t, d, cloud) ==
    /\ t = "api" /\ th[t].pc = "idle" /\ Spend("push")
    /\ ~s.transition /\ ListenerReady(s, d, cloud, s.local.gen)
    /\ \/ /\ cloud /\ CanConnected(s, d)
          /\ s' = IssueConnected(s, d)
          /\ Go(t, [IdleThread EXCEPT !.pc = "claim", !.work = <<s.nextStudio + 1>>,
                                      !.then = StatusOf(d, cloud)])
       \/ /\ ~cloud \/ ~CanConnected(s, d) \/ d \in DOMAIN s.notified
          /\ Go(t, [IdleThread EXCEPT !.pc = "then", !.then = StatusOf(d, cloud)])
          /\ UNCHANGED s
    /\ UNCHANGED <<w, wake, gate, woken, acc, cbs, told>>

\* A get_version of Studio: the snapshot of the session, then the answer, which initialises the
\* cloud side and is given up when the cache has moved meanwhile.
GetVersion(t, d, cloud) ==
    /\ t = "api" /\ th[t].pc = "idle" /\ Spend("version")
    /\ ~s.transition /\ ListenerReady(s, d, cloud, s.local.gen) /\ d \in DOMAIN s.printers
    /\ Go(t, [IdleThread EXCEPT !.pc = "then",
                    !.then = [dev |-> d, cloud |-> cloud, lgen |-> s.local.gen,
                              cacheGen |-> s.cacheGen, init |-> cloud]])
    /\ UNCHANGED <<s, w, wake, gate, woken, acc, cbs, told>>

PrepareMessage(t) ==
    LET m == th[t].then
        ready == /\ m.cacheGen \in {0, s.cacheGen}
                 /\ ListenerReady(s, m.dev, m.cloud, m.lgen) /\ StudioEligible(s, m.dev)
    IN  /\ th[t].pc = "then"
        /\ s' = IF ready
                THEN Issue(s, Delivery(s, "message", m.dev, m.cloud,
                                       IF m.cloud THEN 0 ELSE m.lgen, m.init))
                ELSE s
        /\ Go(t, IF ready THEN [IdleThread EXCEPT !.pc = "claim", !.work = <<s.nextStudio + 1>>]
                 ELSE IdleThread)
        /\ UNCHANGED <<w, wake, gate, woken, acc, cbs, told, left>>

-------------------------------------------------------------------------------
(* The dispatching threads                                                  *)

\* The status thread observes the wake generation and asks whether work is admitted.
StatusRound ==
    /\ th["status"].pc = "idle"
    /\ woken' = FALSE
    /\ At("status", IF s.transition THEN "plan" ELSE "trans")
    /\ UNCHANGED <<s, w, wake, gate, acc, cbs, told, left>>

\* The account drain takes the callback of a finished account change.
DrainStart ==
    /\ "drain" \in Threads /\ th["drain"].pc = "idle" /\ cbs # <<>>
    /\ cbs' = Tail(cbs)
    /\ Go("drain", [IdleThread EXCEPT !.pc = "trans", !.epoch = Head(cbs)])
    /\ UNCHANGED <<s, w, wake, gate, woken, acc, told, left>>

TakeTransition(t) ==
    LET r == s.pendReach # "none"
        a == s.pendAuth
        nr == IF r THEN s.next + 1 ELSE 0
        na == IF a THEN s.next + (IF r THEN 2 ELSE 1) ELSE 0
        one == IF r THEN With(s.tickets, nr, [kind |-> "reach"]) ELSE s.tickets
    IN  /\ th[t].pc = "trans"
        /\ s' = [s EXCEPT !.pendReach = "none", !.pendAuth = FALSE,
                          !.next = @ + (IF r THEN 1 ELSE 0) + (IF a THEN 1 ELSE 0),
                          !.tickets = IF a THEN With(one, na, [kind |-> "auth"]) ELSE one]
        /\ Go(t, [th[t] EXCEPT !.pc = "off", !.reach = nr, !.auth = na, !.up = IsConnected(s),
                               !.rejected = s.auth = "rejected"])
        /\ UNCHANGED <<w, wake, gate, woken, acc, cbs, told, left>>

TakeOffline(t) ==
    LET seq == SetToSortSeq(s.pendOff, <)
        new == {s.next + i : i \in DOMAIN seq}
    IN  /\ th[t].pc = "off"
        /\ s' = [s EXCEPT !.pendOff = {}, !.degOff = @ \ s.pendOff, !.next = @ + Len(seq),
                          !.tickets = [n \in DOMAIN @ \cup new |->
                              IF n \in new THEN [kind |-> "offline", dev |-> seq[n - s.next]]
                              ELSE @[n]]]
        /\ Go(t, [th[t] EXCEPT !.pc = "reach", !.off = new])
        /\ UNCHANGED <<w, wake, gate, woken, acc, cbs, told, left>>

\* dispatch_connection_transition: each part is claimed and invoked under the gate.
ClaimTransition(t, from, n, busy, free) ==
    /\ th[t].pc = from
    /\ \/ /\ n # 0 /\ gate = None
          /\ IF n \in DOMAIN s.tickets
             THEN /\ s' = [s EXCEPT !.tickets = Without(@, {n})]
                  /\ gate' = t /\ At(t, busy)
             ELSE At(t, free) /\ UNCHANGED <<s, gate>>
       \/ n = 0 /\ At(t, free) /\ UNCHANGED <<s, gate>>
    /\ UNCHANGED <<w, wake, woken, acc, cbs, told, left>>

ClaimReach(t) == ClaimTransition(t, "reach", th[t].reach, "sayReach", "auth")
ClaimAuth(t) == ClaimTransition(t, "auth", th[t].auth, "sayAuth", "offClaim")

\* retry_connection_callback.
Retry(st, r) ==
    LET want == IF r.up THEN "connected" ELSE "disconnected"
    IN  [st EXCEPT !.pendReach = IF r.reach # 0 /\ st.reach = want THEN want ELSE @,
                   !.pendAuth = @ \/ (r.auth # 0 /\ st.auth = "rejected")]

SayTransition(t, from, event, next) ==
    /\ th[t].pc = from /\ gate' = None /\ At(t, next)
    /\ \/ told' = [told EXCEPT !.reach = event] /\ UNCHANGED <<s, left>>
       \/ Spend("fail") /\ s' = Retry(s, th[t]) /\ UNCHANGED told
    /\ UNCHANGED <<w, wake, woken, acc, cbs>>

SayReach(t) == SayTransition(t, "sayReach", IF th[t].up THEN "up" ELSE "down", "auth")

SayAuth(t) ==
    \/ th[t].rejected /\ SayTransition(t, "sayAuth", "rejected", "offClaim")
    \/ /\ ~th[t].rejected /\ th[t].pc = "sayAuth" /\ gate' = None /\ At(t, "offClaim")
       /\ UNCHANGED <<s, w, wake, woken, acc, cbs, told, left>>

ClaimOffline(t) ==
    /\ th[t].pc = "offClaim"
    /\ s' = [s EXCEPT !.tickets = Without(@, th[t].off)]
    /\ At(t, "work")
    /\ UNCHANGED <<w, wake, gate, woken, acc, cbs, told, left>>

StudioTakeWork(t) ==
    /\ th[t].pc = "work"
    /\ \E quiet \in SUBSET DOMAIN s.notified :
        /\ s' = TakeWork(s, quiet)
        /\ Go(t, [th[t] EXCEPT !.pc = "claim", !.work = WorkTickets(s, quiet)])
    /\ UNCHANGED <<w, wake, gate, woken, acc, cbs, told, left>>

ClaimWork(t) ==
    /\ th[t].pc = "claim" /\ th[t].work # <<>> /\ gate = None
    /\ LET n == Head(th[t].work)
       IN  /\ s' = ClaimDelivery(s, n)
           /\ gate' = IF CanClaim(s, n) THEN t ELSE None
           /\ Go(t, [th[t] EXCEPT !.work = Tail(@), !.cur = n,
                                  !.pc = IF CanClaim(s, n) THEN "invoke" ELSE "claim",
                                  !.delivery = IF CanClaim(s, n) THEN s.issued[n] ELSE None])
    /\ UNCHANGED <<w, wake, woken, acc, cbs, told, left>>

Heard(dl) ==
    CASE dl.kind = "localConnect" -> [told EXCEPT !.local = dl.dev]
      [] dl.kind = "localLost" -> [told EXCEPT !.local = None]
      [] dl.cloud -> [told EXCEPT !.dev[dl.dev] =
                          CASE dl.kind = "cloudOffline" -> "offline"
                            [] dl.kind = "message" -> "status"
                            [] OTHER -> @]
      [] OTHER -> told

InvokeWork(t) ==
    /\ th[t].pc = "invoke"
    /\ \/ /\ told' = Heard(th[t].delivery) /\ UNCHANGED left
          /\ Go(t, [th[t] EXCEPT !.pc = "complete", !.ok = TRUE])
       \/ /\ Spend("fail") /\ UNCHANGED told
          /\ Go(t, [th[t] EXCEPT !.pc = "complete", !.ok = FALSE])
    /\ UNCHANGED <<s, w, wake, gate, woken, acc, cbs>>

\* connect_printer also returns whether the delivery was completed.
CompleteWork(t) ==
    /\ th[t].pc = "complete"
    /\ s' = CompleteDelivery(s, th[t].cur, th[t].ok)
    /\ gate' = None
    /\ Go(t, [th[t] EXCEPT !.pc = "claim", !.delivery = None, !.cur = 0, !.ok = FALSE])
    /\ told' = IF th[t].delivery.kind = "localConnect" /\ ~s'.local.connected
               THEN [told EXCEPT !.local = None] ELSE told
    /\ UNCHANGED <<w, wake, woken, acc, cbs, left>>

\* The last ticket is done: take_stream_error, and for the account drain finish_account_transition.
WorkDone(t) ==
    /\ th[t].pc = "claim" /\ th[t].work = <<>>
    /\ CASE t = "status" -> s' = [s EXCEPT !.errPending = FALSE] /\ At(t, "plan")
         [] t = "drain" -> s' = [s EXCEPT !.errPending = FALSE] /\ At(t, "finish")
         [] t = "api" -> /\ UNCHANGED s
                         /\ Go(t, IF th[t].then = None THEN IdleThread
                                  ELSE [IdleThread EXCEPT !.pc = "then", !.then = th[t].then])
    /\ UNCHANGED <<w, wake, gate, woken, acc, cbs, told, left>>

FinishAccount ==
    /\ "drain" \in Threads /\ th["drain"].pc = "finish"
    /\ s' = FinishTransition(s, th["drain"].epoch)
    /\ IF s.acct = th["drain"].epoch
       THEN WakeWorker /\ WakeStatus([th EXCEPT !["drain"] = IdleThread])
       ELSE Go("drain", IdleThread) /\ UNCHANGED <<w, wake, woken>>
    /\ UNCHANGED <<gate, acc, cbs, told, left>>

\* heartbeat_plan, then the wait of the status thread: a busy plan is not waited for.
Plan ==
    /\ th["status"].pc = "plan"
    /\ Go("status", [IdleThread EXCEPT !.pc = IF Busy(s) THEN "idle" ELSE "check"])
    /\ UNCHANGED <<s, w, wake, gate, woken, acc, cbs, told, left>>

\* The predicate of the condition variable is evaluated ...
CheckWoken ==
    /\ th["status"].pc = "check"
    /\ At("status", IF woken THEN "idle" ELSE "blocking")
    /\ UNCHANGED <<s, w, wake, gate, woken, acc, cbs, told, left>>

\* ... and then the thread blocks.  A session without a token waits two seconds at most.
Block ==
    /\ th["status"].pc = "blocking"
    /\ At("status", "blocked")
    /\ UNCHANGED <<s, w, wake, gate, woken, acc, cbs, told, left>>

-------------------------------------------------------------------------------
(* The stream worker                                                        *)

HasConfig(st) == ~st.transition /\ st.tenant # None
Fenced == s.gen # w.gen \/ s.acct # w.acct
GenerationChanged == ~HasConfig(s) \/ s.gen # w.gen

\* The configuration is read; without one the worker waits for a wake.
ReadConfig ==
    /\ w.pc = "config"
    /\ IF HasConfig(s)
       THEN /\ w' = [w EXCEPT !.pc = "dial", !.gen = s.gen, !.acct = s.acct, !.outage = TRUE,
                              !.staged = NoFn, !.src = Source(s)]
            /\ UNCHANGED wake
       ELSE wake /\ wake' = FALSE /\ UNCHANGED w
    /\ UNCHANGED <<s, th, gate, woken, acc, cbs, told, left>>

Streaming == w.pc \in {"dial", "await", "staging", "live"}

\* The wake of a worker that dials, streams, backs off, or waits after a rejection.
WorkerWoken ==
    /\ wake /\ wake' = FALSE /\ (Streaming \/ w.pc \in {"backoff", "parked"})
    /\ w' = IF GenerationChanged THEN [w EXCEPT !.pc = "config", !.staged = NoFn] ELSE w
    /\ UNCHANGED <<s, th, gate, woken, acc, cbs, told, left>>

\* connect_async: accepted, refused, or answered 401 or 403.
Dial ==
    /\ w.pc = "dial"
    /\ \/ /\ w' = [w EXCEPT !.pc = IF Fenced THEN "config" ELSE "await"]
          /\ UNCHANGED <<s, th, woken, left>>
       \/ Spend("drop") /\ w' = [w EXCEPT !.pc = "backoff"] /\ UNCHANGED <<s, th, woken>>
       \/ /\ Spend("drop") /\ w' = [w EXCEPT !.pc = "parked", !.outage = FALSE]
          /\ s' = IF Fenced THEN s ELSE AuthRejected(s)
          /\ WakeStatus(th)
    /\ UNCHANGED <<wake, gate, acc, cbs, told>>

\* The stream breaks, idles out, or breaks the protocol.
StreamFails ==
    /\ w.pc \in {"await", "staging", "live"} /\ Spend("drop")
    /\ w' = [w EXCEPT !.pc = "backoff", !.staged = NoFn, !.outage = TRUE]
    /\ UNCHANGED <<s, wake, th, gate, woken, acc, cbs, told>>

Redial ==
    /\ w.pc = "backoff" /\ w' = [w EXCEPT !.pc = "config"]
    /\ UNCHANGED <<s, wake, th, gate, woken, acc, cbs, told, left>>

\* handle_text: a frame is applied unless the fence has moved; a frame out of phase is a failure.
Frame(next, pc, staged) ==
    IF Fenced THEN w' = [w EXCEPT !.pc = "config", !.staged = NoFn] /\ UNCHANGED <<s, th, woken>>
    ELSE /\ s' = next /\ WakeStatus(th)
         /\ w' = [w EXCEPT !.pc = pc, !.staged = staged, !.outage = @ /\ pc # "live"]

SnapshotBegin ==
    /\ w.pc = "await" /\ Spend("frame")
    /\ w' = [w EXCEPT !.pc = "staging", !.staged = NoFn] /\ WakeStatus(th)
    /\ UNCHANGED <<s, wake, gate, acc, cbs, told>>

StagePrinter(d, p) ==
    /\ w.pc = "staging" /\ d \notin DOMAIN w.staged /\ WakeStatus(th)
    /\ \A e \in DOMAIN w.staged : e < d
    /\ w' = [w EXCEPT !.staged = With(@, d, p)]
    /\ UNCHANGED <<s, wake, gate, acc, cbs, told, left>>

Tagged(p) == [id |-> p.id, online |-> p.online, src |-> w.src]

SnapshotEnd ==
    /\ w.pc = "staging"
    /\ Frame(ApplySnapshot(s, [d \in DOMAIN w.staged |-> Tagged(w.staged[d])]), "live", NoFn)
    /\ UNCHANGED <<wake, gate, acc, cbs, told, left>>

Upsert(d, p) ==
    /\ w.pc = "live" /\ Spend("frame")
    /\ Frame(ApplyUpsert(s, d, Tagged(p)), "live", NoFn)
    /\ UNCHANGED <<wake, gate, acc, cbs, told>>

Removal(d, id) ==
    /\ w.pc = "live" /\ Spend("frame")
    /\ Frame(ApplyRemoval(s, d, id), "live", NoFn)
    /\ UNCHANGED <<wake, gate, acc, cbs, told>>

\* The outage has lasted: the Hub's health is asked for; meanwhile the stream is not polled.
HealthDue ==
    /\ w.outage /\ w.pc \in {"dial", "await", "staging", "backoff"} /\ Spend("health")
    /\ w' = [w EXCEPT !.pc = "health", !.ret = w.pc]
    /\ UNCHANGED <<s, wake, th, gate, woken, acc, cbs, told>>

HealthDone(healthy) ==
    /\ w.pc = "health"
    /\ s' = IF Fenced THEN s ELSE ObserveHealth(s, healthy)
    /\ w' = [w EXCEPT !.pc = w.ret, !.ret = "none"]
    /\ WakeStatus(th)
    /\ UNCHANGED <<wake, gate, acc, cbs, told, left>>

-------------------------------------------------------------------------------

AccountStep == Rotate \/ BeginAccount \/ SyncToken \/ SyncTenant \/ EpochSet
StudioStep ==
    \/ \E d \in Devs : SetSelected(d) \/ AddSubscription(d) \/ DelSubscription(d)
    \/ DisconnectLocal \/ Refresh
    \/ \E k \in Listeners, b \in BOOLEAN : Listen(k, b)
    \/ \E t \in Threads, d \in Devs : ConnectLocal(t, d) \/ \E c \in BOOLEAN : PushAll(t, d, c) \/ GetVersion(t, d, c)
Dispatch(t) ==
    \/ PrepareMessage(t) \/ TakeTransition(t) \/ TakeOffline(t) \/ ClaimReach(t) \/ SayReach(t)
    \/ ClaimAuth(t) \/ SayAuth(t) \/ ClaimOffline(t) \/ StudioTakeWork(t) \/ ClaimWork(t)
    \/ InvokeWork(t) \/ CompleteWork(t) \/ WorkDone(t)
StatusStep == StatusRound \/ Plan \/ CheckWoken \/ Block
DrainStep == DrainStart \/ FinishAccount
StreamStep ==
    \/ ReadConfig \/ WorkerWoken \/ Dial \/ StreamFails \/ Redial \/ SnapshotBegin \/ SnapshotEnd
    \/ \E d \in Devs : \/ \E p \in Printers : StagePrinter(d, p) \/ Upsert(d, p)
                       \/ \E i \in PrinterIds : Removal(d, i)
    \/ HealthDue \/ \E b \in BOOLEAN : HealthDone(b)

Next ==
    \/ AccountStep \/ StudioStep \/ StatusStep \/ DrainStep \/ StreamStep
    \/ \E t \in Threads : Dispatch(t)

Spec == Init /\ [][Next]_vars

-------------------------------------------------------------------------------
(* Properties                                                               *)

\* Every cached printer was streamed for the Hub, tenant and account that are current: frames of
\* an older stream, which may arrive until the worker sees its wake, are stopped by the fence.
CacheOfAccount == \A d \in DOMAIN s.printers : s.printers[d].src = Source(s)

\* While the stream is degraded no cached printer passes for online, so no report is delivered
\* from a cache that nobody refreshes.
DegradedIsDark == s.degraded => \A d \in DOMAIN s.printers : ~s.printers[d].online

\* A ticket that can still be claimed was issued for the present account and cache: every change
\* of one of them has dropped the tickets before it.
IssuedCurrent ==
    \A n \in DOMAIN s.issued : s.issued[n].acct = s.acct /\ s.issued[n].cacheGen = s.cacheGen

\* The local connection the plugin serves is the one Studio was told of last, although connects,
\* losses and disconnects are delivered by different threads.
LocalTold == s.local.connected => told.local = s.local.target

\* As long as Studio asks for no version, a device that counts as initialised on the cloud side was
\* last reported to Studio as present, although reports and offline notices are delivered by the
\* status thread and by Studio's own calls: else Studio would show it offline and no connected
\* signal would be sent again.
InitializedMeansTold ==
    left["version"] = Budget["version"] => \A d \in s.inited : told.dev[d] = "status"

\* A transition waiting to be told, or handed back by a callback that failed, is the present
\* reachability: Studio is never told of a state that has passed.
TransitionHonest == s.pendReach # "none" => s.pendReach = s.reach

\* The status thread does not sleep through a wake: "queued work wakes the dispatcher".
SleeperIsWoken == th["status"].pc = "blocked" => ~woken

\* "Preserve the local-loss transition": when an account change has taken Studio's local
\* connection away, the loss is queued, ticketed or told, or the connect is still being delivered.
LossOnItsWay(d) ==
    \/ d \in DOMAIN s.offline /\ s.offline[d].local # 0
    \/ \E n \in DOMAIN s.issued : s.issued[n].kind = "localLost" /\ s.issued[n].dev = d
    \/ \E t \in Threads : th[t].delivery # None
                         /\ th[t].delivery.kind \in {"localLost", "localConnect"}
LocalLossPreserved ==
    \A d \in Devs : told.local = d /\ s.local.target # d => LossOnItsWay(d)
===============================================================================
