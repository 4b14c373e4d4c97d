------------------------- MODULE PluginLifetimeProofs -------------------------
(***************************************************************************)
(* Proofs about the life of the plugin's Agent object, for any number of    *)
(* threads of Studio: nobody is left inside an agent that is deleted.       *)
(*                                                                         *)
(* What a thread holds follows from where it is: its leases, the callback    *)
(* gate and the account mutex.  A request to destroy ends new leases, the    *)
(* finalizer is started by the thread that releases the last one (or by the  *)
(* destroy itself), and the reclaiming thread passes a worker's join only    *)
(* when the worker has left its loop, which it never enters again.           *)
(***************************************************************************)
EXTENDS PluginLifetime, FiniteSetTheorems, TLAPS

\* Where the threads of each kind can be.
Places(t) ==
    IF t \in Studio THEN {"out", "leased", "delivered", "finalize"} \cup InCallback \cup Reclaiming
    ELSE IF t = "deferred" THEN {"unborn", "finalize", "out"} \cup Reclaiming
    ELSE IF t = "status"
    THEN {"top", "leased", "delivered", "decide", "committed", "asleep", "exited"} \cup InCallback
    ELSE IF t = "firmware" THEN {"top", "leased", "delivered", "exited"} \cup InCallback
    ELSE {"top", "request", "answered", "gated", "unlock", "done", "exited"} \cup InCallback

LifeTypes ==
    /\ \A t \in Threads : pc[t] \in Places(t)
    /\ pc = [t \in Threads |-> pc[t]] /\ held = [t \in Threads |-> held[t]]
    /\ life = [requested |-> life.requested, started |-> life.started]
    /\ life.requested \in BOOLEAN /\ life.started \in BOOLEAN
    /\ gate \in Threads \cup {"none"} /\ account \in {"none", "model"} /\ epoch \in 0..MaxEpoch
    /\ stop \in SUBSET Workers /\ woken \in BOOLEAN /\ destroy \in {"no", "outer", "inner"}
    /\ task \in [job : {"none", "queued"}, busy : BOOLEAN, count : 0..MaxTasks, epoch : 0..MaxEpoch]
    /\ told \in Nat /\ returned \in BOOLEAN /\ freed \in BOOLEAN

\* Where a thread holds callback_mutex.
AtGate == InCallback \cup {"gated"}

\* The leases of a thread, by where it is.
LeasesAt(p) == IF p = "nested" THEN 2
               ELSE IF p \in {"leased", "delivered", "answered", "gated", "unlock", "callback", "returning"} THEN 1
               ELSE 0
HoldsByPlace ==
    /\ \A t \in Threads : held[t] = LeasesAt(pc[t])
    /\ \A t \in Threads : pc[t] \in AtGate <=> gate = t
    /\ account = "model" <=> pc["model"] \in InCallback

\* The finalizer: asked for, started once, by one thread.
Ends == Reclaiming \cup {"finalize"}
OneEnds == \A t, u \in Threads : pc[t] \in Ends /\ pc[u] \in Ends => t = u
Finalizer ==
    /\ OneEnds
    /\ life.requested <=> destroy # "no"
    /\ life.started => life.requested
    /\ destroy = "outer" => life.started
    /\ \A t \in Threads : pc[t] = "finalize" => life.requested /\ ~life.started /\ \A u \in Threads : held[u] = 0
    /\ \A t \in Threads : pc[t] \in Reclaiming => life.started /\ ~freed
    /\ freed => life.started /\ \A t \in Threads : pc[t] \notin Ends
    /\ destroy = "outer" /\ returned => freed
    /\ returned => destroy # "no"

\* How far the reclaiming thread is, and what it has seen.
Gone(w) == pc[w] = "exited"
PastJoin == [w \in Workers |->
    IF w = "model" THEN {"stop_status", "join_status", "stop_firmware", "join_firmware", "wait_leases", "delete"}
    ELSE IF w = "status" THEN {"stop_firmware", "join_firmware", "wait_leases", "delete"}
    ELSE {"wait_leases", "delete"}]
Reclaimed ==
    /\ \A t \in Threads : \A w \in Workers : pc[t] \in PastJoin[w] => Gone(w)
    /\ \A t \in Threads : pc[t] = "delete" => \A u \in Threads : held[u] = 0
    /\ freed => /\ \A w \in Workers : Gone(w)
                /\ \A u \in Threads : held[u] = 0

\* The model task: a slot that is busy, a request that counts once, and a gate that is closed.
Pending == IF task.job = "queued" \/ pc["model"] \in {"request", "answered", "gated"} THEN 1 ELSE 0
ModelTask ==
    /\ "model" \in stop => task.job = "none" /\ pc["model"] \notin InCallback
    /\ task.job = "queued" => task.busy /\ pc["model"] = "top"
    /\ pc["model"] \in {"request", "answered", "gated", "unlock", "done"} \cup InCallback => task.busy
    /\ pc["model"] \in InCallback => task.epoch = epoch
    /\ told + Pending <= task.count
    /\ pc["model"] = "exited" => "model" \in stop

LifeInv == LifeTypes /\ HoldsByPlace /\ Finalizer /\ Reclaimed /\ ModelTask

-----------------------------------------------------------------------------
\* The plugin's own threads are none of Studio's.
LEMMA Kinds ==
    /\ Workers \subseteq Threads /\ "deferred" \in Threads /\ "none" \notin Threads
    /\ "model" \in Workers /\ "status" \in Workers /\ "firmware" \in Workers
    /\ Workers \cap Studio = {} /\ "deferred" \notin Studio /\ "deferred" \notin Workers
    /\ \A t \in Threads : t \in Studio \/ t \in Workers \/ t = "deferred"
BY LifetimeAssumption DEF Threads, Workers

\* Only a thread of Studio or the deferred finalizer reclaims the agent.
LEMMA PlaceFacts ==
    ASSUME LifeInv
    PROVE  /\ \A w \in Workers : pc[w] \notin Ends
           /\ \A t \in Threads : pc[t] \in Places(t)
           /\ \A t \in Threads : pc[t] \in {"leased", "delivered"} => t \in Studio \/ t \in {"status", "firmware"}
           /\ \A t \in Threads : pc[t] \in InCallback => t # "deferred"
           /\ \A t \in Threads : held[t] = LeasesAt(pc[t]) /\ held[t] \in Nat
<1>1. \A t \in Threads : pc[t] \in Places(t)
  BY DEF LifeInv, LifeTypes
<1>2. \A w \in Workers : pc[w] \notin Ends
  BY <1>1, Kinds DEF Places, Workers, Ends, Reclaiming, InCallback, AtGate
<1>3. \A t \in Threads : pc[t] \in {"leased", "delivered"} => t \in Studio \/ t \in {"status", "firmware"}
  BY <1>1, Kinds DEF Places, Workers, Reclaiming, InCallback, AtGate
<1>4. \A t \in Threads : pc[t] \in InCallback => t # "deferred"
  BY <1>1, Kinds DEF Places, Reclaiming, InCallback, AtGate
<1>5. \A t \in Threads : held[t] = LeasesAt(pc[t]) /\ held[t] \in Nat
  BY DEF LifeInv, HoldsByPlace, LeasesAt
<1> QED
  BY <1>1, <1>2, <1>3, <1>4, <1>5

\* Only the model worker holds the gate outside a callback.
LEMMA OnlyModelIsGated ==
    ASSUME NEW t \in Threads \ {"model"}, NEW x \in Places(t)
    PROVE  x \in AtGate <=> x \in InCallback
BY Kinds DEF Places, AtGate, InCallback, Reclaiming, Workers

\* A thread goes from one place to another.
LEMMA Going ==
    ASSUME LifeTypes, NEW t \in Threads, NEW x, pc' = [pc EXCEPT ![t] = x]
    PROVE  /\ pc' = [u \in Threads |-> pc'[u]]
           /\ pc'[t] = x /\ \A u \in Threads \ {t} : pc'[u] = pc[u]
BY DEF LifeTypes

LEMMA Holding ==
    ASSUME LifeTypes, NEW t \in Threads, NEW n, held' = [held EXCEPT ![t] = n]
    PROVE  /\ held' = [u \in Threads |-> held'[u]]
           /\ held'[t] = n /\ \A u \in Threads \ {t} : held'[u] = held[u]
BY DEF LifeTypes

-----------------------------------------------------------------------------
\* A step of thread t, which neither ends the agent nor has left its loop: what the finalizer and
\* the reclaiming thread rely on stays, since a destroyed agent gives no lease.
LEMMA OthersEnd ==
    ASSUME LifeInv, NEW t \in Threads, pc[t] \notin Ends, pc'[t] \notin Ends, pc[t] # "exited",
           \A u \in Threads \ {t} : pc'[u] = pc[u], UNCHANGED <<life, destroy, returned, freed>>,
           \A u \in Threads : held'[u] \in Nat /\ (held'[u] <= held[u] \/ ~life.requested)
    PROVE  Finalizer' /\ Reclaimed'
<1> USE DEF LifeInv
<1>1. \A u \in Threads : pc'[u] \in Ends => u # t /\ pc'[u] = pc[u]
  OBVIOUS
<1>2. \A u \in Threads : life.requested /\ held[u] = 0 => held'[u] = 0
  OBVIOUS
<1>3. \A u \in Threads : (pc'[u] = "finalize" \/ pc'[u] \in Reclaiming) => u # t /\ pc'[u] = pc[u]
  BY <1>1 DEF Ends
<1>4. Finalizer'
  <2>1. OneEnds'
    BY <1>1 DEF Finalizer, OneEnds
  <2>2. \A u \in Threads : pc'[u] = "finalize" =>
            life.requested /\ ~life.started /\ \A v \in Threads : held'[v] = 0
    BY <1>2, <1>3 DEF Finalizer
  <2>3. \A u \in Threads : pc'[u] \in Reclaiming => life.started /\ ~freed
    BY <1>3 DEF Finalizer
  <2>4. freed => life.started /\ \A u \in Threads : pc'[u] \notin Ends
    BY <1>1 DEF Finalizer
  <2> QED
    BY <2>1, <2>2, <2>3, <2>4 DEF Finalizer
<1>5. Reclaimed'
  <2>1. \A w \in Workers : Gone(w) => Gone(w)'
    BY Kinds DEF Gone
  <2>2. \A u \in Threads : \A w \in Workers : pc'[u] \in PastJoin[w] => u # t /\ pc'[u] = pc[u]
    BY <1>3 DEF PastJoin, Reclaiming
  <2>3. \A u \in Threads : \A w \in Workers : pc'[u] \in PastJoin[w] => Gone(w)'
    BY <2>1, <2>2 DEF Reclaimed
  <2>4. \A u \in Threads : pc'[u] = "delete" => \A v \in Threads : held'[v] = 0
    BY <1>2, <1>3 DEF Reclaimed, Finalizer, Reclaiming
  <2>5. freed => \A v \in Threads : held'[v] = 0
    BY <1>2 DEF Reclaimed, Finalizer
  <2> QED
    BY <2>1, <2>3, <2>4, <2>5 DEF Reclaimed
<1> QED
  BY <1>4, <1>5

\* The model task rests while its worker stays where it is.
LEMMA TaskRests ==
    ASSUME LifeInv, UNCHANGED <<task, stop, told, epoch>>, pc'["model"] = pc["model"]
    PROVE  ModelTask'
BY DEF LifeInv, ModelTask, Pending

\* The leases of one thread follow its place, those of the others rest.
HoldsAt(t, x) ==
    /\ held' = [u \in Threads |-> held'[u]]
    /\ held'[t] = LeasesAt(x) /\ \A u \in Threads \ {t} : held'[u] = held[u]

\* A thread that neither ends the agent nor left its loop goes to x.
LEMMA Moves ==
    ASSUME LifeInv, NEW t \in Threads, NEW x \in Places(t) \ Ends, pc' = [pc EXCEPT ![t] = x],
           pc[t] \notin Ends, pc[t] # "exited", HoldsAt(t, x),
           LeasesAt(x) <= LeasesAt(pc[t]) \/ ~life.requested,
           UNCHANGED <<life, destroy, returned, freed>>,
           x \in AtGate <=> gate' = t, \A u \in Threads \ {t} : gate' = u <=> gate = u,
           gate' \in Threads \cup {"none"}, account' \in {"none", "model"},
           account' = "model" <=> pc'["model"] \in InCallback, epoch' \in 0..MaxEpoch,
           stop' \in SUBSET Workers, woken' \in BOOLEAN, told' \in Nat, ModelTask',
           task' \in [job : {"none", "queued"}, busy : BOOLEAN, count : 0..MaxTasks, epoch : 0..MaxEpoch]
    PROVE  LifeInv'
<1> USE DEF LifeInv
<1>1. pc' = [u \in Threads |-> pc'[u]] /\ pc'[t] = x /\ \A u \in Threads \ {t} : pc'[u] = pc[u]
  BY Going
<1>2. held' = [u \in Threads |-> held'[u]] /\ \A u \in Threads : held'[u] = LeasesAt(pc'[u])
  BY <1>1 DEF HoldsAt, HoldsByPlace
<1>3. LifeTypes'
  <2>1. \A u \in Threads : pc'[u] \in Places(u)
    BY <1>1 DEF LifeTypes
  <2>2. \A u : Places(u)' = Places(u)
    BY DEF Places
  <2> QED
    BY <1>1, <1>2, <2>1, <2>2 DEF LifeTypes
<1>4. HoldsByPlace'
  BY <1>1, <1>2 DEF HoldsByPlace
<1>5. Finalizer' /\ Reclaimed'
  <2>1. \A u \in Threads : held'[u] \in Nat /\ (held'[u] <= held[u] \/ ~life.requested)
    BY <1>1, <1>2, PlaceFacts DEF LeasesAt
  <2> QED
    BY <1>1, <2>1, OthersEnd
<1> QED
  BY <1>3, <1>4, <1>5

\* A thread other than the model worker moves inside or outside its callback.
LEMMA SimpleMove ==
    ASSUME LifeInv, NEW t \in Threads \ {"model"}, NEW x \in Places(t) \ Ends, pc' = [pc EXCEPT ![t] = x],
           pc[t] \notin Ends, pc[t] # "exited", HoldsAt(t, x),
           LeasesAt(x) <= LeasesAt(pc[t]) \/ ~life.requested,
           x \in InCallback <=> pc[t] \in InCallback, woken' \in BOOLEAN,
           UNCHANGED <<life, gate, account, epoch, stop, task, told, destroy, returned, freed>>
    PROVE  LifeInv'
<1>1. pc'["model"] = pc["model"]
  BY Going, Kinds DEF LifeInv
<1>2. ModelTask'
  BY <1>1, TaskRests
<1>3. /\ pc[t] \in AtGate <=> gate = t
      /\ account = "model" <=> pc["model"] \in InCallback
      /\ gate \in Threads \cup {"none"} /\ account \in {"none", "model"} /\ epoch \in 0..MaxEpoch
      /\ stop \in SUBSET Workers /\ told \in Nat
      /\ task \in [job : {"none", "queued"}, busy : BOOLEAN, count : 0..MaxTasks, epoch : 0..MaxEpoch]
  BY DEF LifeInv, LifeTypes, HoldsByPlace
<1>4. x \in AtGate <=> gate = t
  BY <1>3, PlaceFacts, OnlyModelIsGated
<1> QED
  BY <1>1, <1>2, <1>3, <1>4, Moves

\* acquire: a lease more, unless the destruction was requested.
LEMMA Acquires ==
    ASSUME LifeInv, NEW t \in Threads, NEW x, Acquire(t), LeasesAt(x) = LeasesAt(pc[t]) + 1
    PROVE  HoldsAt(t, x) /\ ~life.requested
<1>1. held[t] = LeasesAt(pc[t])
  BY PlaceFacts
<1> QED
  BY <1>1, Holding DEF Acquire, HoldsAt, LifeInv

\* release: a lease less.
LEMMA Releases ==
    ASSUME LifeInv, NEW t \in Threads, NEW x, held' = [held EXCEPT ![t] = @ - 1],
           LeasesAt(pc[t]) = LeasesAt(x) + 1
    PROVE  HoldsAt(t, x)
<1>1. held[t] = LeasesAt(pc[t])
  BY PlaceFacts
<1>2. LeasesAt(x) \in Int
  BY DEF LeasesAt
<1>3. held[t] - 1 = LeasesAt(x)
  BY <1>1, <1>2
<1>4. held' = [held EXCEPT ![t] = LeasesAt(x)]
  BY <1>3
<1>5. LifeTypes
  BY DEF LifeInv
<1> QED
  BY <1>4, <1>5, Holding DEF HoldsAt

LEMMA Keeps ==
    ASSUME LifeInv, NEW t \in Threads, NEW x, held' = held, LeasesAt(pc[t]) = LeasesAt(x)
    PROVE  HoldsAt(t, x)
BY PlaceFacts DEF HoldsAt, LifeInv, LifeTypes
-----------------------------------------------------------------------------
LEMMA StudioCallsKeeps == ASSUME LifeInv, NEW t \in Threads, StudioCalls(t) PROVE LifeInv'
<1>1. t \in Studio /\ t # "model" /\ pc[t] = "out" /\ pc' = [pc EXCEPT ![t] = "leased"] /\ Acquire(t)
  BY Kinds DEF StudioCalls, Go
<1>2. HoldsAt(t, "leased") /\ ~life.requested
  BY <1>1, Acquires DEF LeasesAt
<1>3. "leased" \in Places(t) \ Ends
  BY <1>1 DEF Places, Ends, Reclaiming
<1>4. woken \in BOOLEAN
  BY DEF LifeInv, LifeTypes
<1> QED
  BY <1>1, <1>2, <1>3, <1>4, SimpleMove DEF StudioCalls, Ends, Reclaiming, InCallback, AtGate

\* A thread that takes the gate is the only one in a callback.
LEMMA CallbackKeeps == ASSUME LifeInv, NEW t \in Threads, Callback(t) PROVE LifeInv'
<1>1. /\ t # "model" /\ t \in Studio \cup {"status", "firmware"} /\ pc[t] = "leased" /\ gate = "none"
      /\ gate' = t /\ pc' = [pc EXCEPT ![t] = "callback"]
      /\ UNCHANGED <<held, life, account, epoch, stop, woken, task, told, destroy, returned, freed>>
  BY Kinds DEF Callback, Go, Workers
<1>2. HoldsAt(t, "callback")
  BY <1>1, Keeps DEF LeasesAt
<1>3. "callback" \in Places(t) \ Ends
  BY <1>1 DEF Places, Ends, Reclaiming, InCallback, AtGate
<1>4. pc'["model"] = pc["model"]
  BY <1>1, Going, Kinds DEF LifeInv
<1>5. ModelTask'
  BY <1>1, <1>4, TaskRests
<1>6. /\ account = "model" <=> pc["model"] \in InCallback
      /\ account \in {"none", "model"} /\ epoch \in 0..MaxEpoch
      /\ stop \in SUBSET Workers /\ told \in Nat /\ woken \in BOOLEAN
      /\ task \in [job : {"none", "queued"}, busy : BOOLEAN, count : 0..MaxTasks, epoch : 0..MaxEpoch]
  BY DEF LifeInv, LifeTypes, HoldsByPlace
<1>7. \A u \in Threads \ {t} : gate' = u <=> gate = u
  BY <1>1, Kinds
<1>8. LeasesAt("callback") <= LeasesAt(pc[t]) /\ pc[t] \notin Ends /\ pc[t] # "exited" /\ "callback" \in AtGate
  BY <1>1 DEF LeasesAt, Ends, Reclaiming, InCallback, AtGate
<1> QED
  BY <1>1, <1>2, <1>3, <1>4, <1>5, <1>6, <1>7, <1>8, Moves

\* The model task while its worker goes from one place of its callback to another.
LEMMA TaskInside ==
    ASSUME LifeInv, UNCHANGED <<task, stop, told, epoch>>, pc["model"] \in InCallback,
           pc'["model"] \in InCallback
    PROVE  ModelTask'
BY DEF LifeInv, ModelTask, Pending, InCallback, AtGate

\* A thread goes from one place of its callback to another.
LEMMA InsideMove ==
    ASSUME LifeInv, NEW t \in Threads, pc[t] \in InCallback, NEW x \in InCallback,
           pc' = [pc EXCEPT ![t] = x], HoldsAt(t, x), LeasesAt(x) <= LeasesAt(pc[t]) \/ ~life.requested,
           UNCHANGED <<life, gate, account, epoch, stop, woken, task, told, destroy, returned, freed>>
    PROVE  LifeInv'
<1>1. x \in Places(t) \ Ends /\ pc[t] \notin Ends /\ pc[t] # "exited"
  BY PlaceFacts, Kinds DEF Places, Ends, Reclaiming, InCallback, AtGate, Workers
<1>2. pc'[t] = x /\ \A u \in Threads \ {t} : pc'[u] = pc[u]
  BY Going DEF LifeInv
<1>3. /\ pc[t] \in AtGate <=> gate = t
      /\ account = "model" <=> pc["model"] \in InCallback
      /\ gate \in Threads \cup {"none"} /\ account \in {"none", "model"} /\ epoch \in 0..MaxEpoch
      /\ stop \in SUBSET Workers /\ told \in Nat /\ woken \in BOOLEAN
      /\ task \in [job : {"none", "queued"}, busy : BOOLEAN, count : 0..MaxTasks, epoch : 0..MaxEpoch]
  BY DEF LifeInv, LifeTypes, HoldsByPlace
<1>4. pc'["model"] \in InCallback <=> pc["model"] \in InCallback
  BY <1>2, Kinds
<1>5. ModelTask'
  <2>1. CASE t = "model"
    BY <1>2, <2>1, TaskInside
  <2>2. CASE t # "model"
    BY <1>2, <2>2, TaskRests, Kinds
  <2> QED
    BY <2>1, <2>2
<1>6. x \in AtGate /\ gate = t
  BY <1>3 DEF AtGate
<1> QED
  BY <1>1, <1>3, <1>4, <1>5, <1>6, Moves

LEMMA NestedCallKeeps == ASSUME LifeInv, NEW t \in Threads, NestedCall(t) PROVE LifeInv'
<1>1. pc[t] = "callback" /\ pc' = [pc EXCEPT ![t] = "nested"] /\ Acquire(t)
  BY DEF NestedCall, Go
<1>2. HoldsAt(t, "nested") /\ ~life.requested
  BY <1>1, Acquires DEF LeasesAt
<1> QED
  BY <1>1, <1>2, InsideMove DEF NestedCall, InCallback, AtGate

\* A nested call is never the last lease: the callback has one of its own.
LEMMA NestedReturnKeeps == ASSUME LifeInv, NEW t \in Threads, NestedReturn(t) PROVE LifeInv'
<1>1. pc[t] = "nested" /\ held' = [held EXCEPT ![t] = @ - 1] /\ held[t] = 2
  BY PlaceFacts DEF NestedReturn, Release, LeasesAt
<1>2. ~LastLease(t)
  BY <1>1 DEF LastLease
<1>3. pc' = [pc EXCEPT ![t] = "returning"]
  BY <1>2 DEF NestedReturn, Release
<1>4. LeasesAt(pc[t]) = 2 /\ LeasesAt("returning") = 1
  BY <1>1 DEF LeasesAt
<1>5. LeasesAt(pc[t]) = LeasesAt("returning") + 1 /\ LeasesAt("returning") <= LeasesAt(pc[t])
  BY <1>4
<1>6. HoldsAt(t, "returning")
  BY <1>1, <1>5, Releases
<1> QED
  BY <1>1, <1>3, <1>5, <1>6, InsideMove DEF NestedReturn, InCallback, AtGate

\* A callback returns and the gate is open; the model worker also unlocks the account.
LEMMA CallbackReturnsKeeps == ASSUME LifeInv, NEW t \in Threads, CallbackReturns(t) PROVE LifeInv'
<1> DEFINE x == IF t = "model" THEN "unlock" ELSE "delivered"
<1>1. /\ pc[t] \in {"callback", "returning"} /\ gate' = "none"
      /\ account' = (IF account = t THEN "none" ELSE account) /\ pc' = [pc EXCEPT ![t] = x]
      /\ UNCHANGED <<held, life, epoch, stop, woken, task, told, destroy, returned, freed>>
  BY DEF CallbackReturns, Go
<1>2. pc[t] \in InCallback /\ t # "deferred"
  BY <1>1, PlaceFacts DEF InCallback, AtGate
<1>3. x \in Places(t) \ Ends /\ pc[t] \notin Ends /\ pc[t] # "exited" /\ x \notin InCallback /\ x \notin AtGate
  BY <1>1, <1>2, Kinds DEF Places, Ends, Reclaiming, InCallback, AtGate, Workers
<1>4. HoldsAt(t, x) /\ LeasesAt(x) <= LeasesAt(pc[t])
  BY <1>1, Keeps DEF LeasesAt
<1>5. /\ gate = t /\ (account = "model" <=> pc["model"] \in InCallback)
      /\ \A u \in Threads : pc[u] \in AtGate <=> gate = u
      /\ account \in {"none", "model"} /\ epoch \in 0..MaxEpoch
      /\ stop \in SUBSET Workers /\ told \in Nat /\ woken \in BOOLEAN
      /\ task \in [job : {"none", "queued"}, busy : BOOLEAN, count : 0..MaxTasks, epoch : 0..MaxEpoch]
  BY <1>2 DEF LifeInv, LifeTypes, HoldsByPlace, AtGate
<1>6. pc'[t] = x /\ \A u \in Threads \ {t} : pc'[u] = pc[u]
  BY <1>1, Going DEF LifeInv
<1>7. account' = "none" /\ pc'["model"] \notin InCallback
  BY <1>1, <1>3, <1>5, <1>6, Kinds DEF AtGate
<1>8. ModelTask'
  <2>1. CASE t = "model"
    BY <1>1, <1>2, <1>6, <2>1 DEF LifeInv, ModelTask, Pending, InCallback, AtGate
  <2>2. CASE t # "model"
    BY <1>1, <1>6, <2>2, TaskRests, Kinds
  <2> QED
    BY <2>1, <2>2
<1>9. \A u \in Threads \ {t} : gate' = u <=> gate = u
  BY <1>1, <1>5, Kinds
<1>10. gate' # t
  BY <1>1, Kinds
<1> HIDE DEF x
<1> QED
  BY <1>1, <1>3, <1>4, <1>5, <1>7, <1>8, <1>9, <1>10, Moves

-----------------------------------------------------------------------------
\* The last lease of an agent whose destruction was requested: nobody else is at the finalizer,
\* and nobody has a lease after it.
LEMMA LastOne ==
    ASSUME LifeInv, NEW t \in Threads, LastLease(t)
    PROVE  /\ life.requested /\ ~life.started /\ ~freed /\ held[t] = 1
           /\ \A u \in Threads \ {t} : held[u] = 0
           /\ \A u \in Threads : pc[u] \notin Ends
<1>1. life.requested /\ ~life.started /\ Leases = {t} /\ held[t] = 1
  BY DEF LastLease
<1>2. \A u \in Threads \ {t} : held[u] = 0
  BY <1>1, PlaceFacts DEF Leases
<1>3. \A u \in Threads : pc[u] # "finalize"
  BY <1>1 DEF LifeInv, Finalizer
<1>4. ~freed /\ \A u \in Threads : pc[u] \notin Reclaiming
  BY <1>1 DEF LifeInv, Finalizer
<1> QED
  BY <1>1, <1>2, <1>3, <1>4 DEF Ends

\* The finalizer starts on thread e while t gives back the last lease.
LEMMA LastLeaseGoes ==
    ASSUME LifeInv, NEW t \in Threads, NEW e \in Threads, NEW after \in Places(t) \ Ends, LastLease(t),
           e = t \/ e = "deferred", e = t => t \in Studio, pc[t] \notin AtGate, after \notin AtGate,
           LeasesAt(after) = 0, held' = [held EXCEPT ![t] = @ - 1], pc' = [u \in Threads |-> pc'[u]],
           pc'[e] = "finalize", e # t => pc'[t] = after, \A u \in Threads \ {e, t} : pc'[u] = pc[u],
           UNCHANGED <<life, gate, account, epoch, stop, woken, task, told, destroy, returned, freed>>,
           ModelTask'
    PROVE  LifeInv'
<1> USE DEF LifeInv
<1>1. /\ life.requested /\ ~life.started /\ ~freed /\ held[t] = 1
      /\ \A u \in Threads \ {t} : held[u] = 0
      /\ \A u \in Threads : pc[u] \notin Ends
  BY LastOne
<1>2. held' = [u \in Threads |-> held'[u]] /\ \A u \in Threads : held'[u] = 0
  <2>1. held' = [held EXCEPT ![t] = 0]
    BY <1>1
  <2> QED
    BY <1>1, <2>1, Holding
<1>3. e \notin Workers /\ "finalize" \in Places(e) /\ pc[e] \notin AtGate
  <2>1. e \notin Workers /\ "finalize" \in Places(e)
    BY Kinds DEF Places
  <2>2. e = "deferred" => pc[e] \notin AtGate
    BY PlaceFacts, Kinds, OnlyModelIsGated
  <2> QED
    BY <2>1, <2>2
<1>4. LifeTypes'
  <2>1. \A u \in Threads : pc'[u] \in Places(u)
    BY <1>3, PlaceFacts
  <2>2. \A u : Places(u)' = Places(u)
    BY DEF Places
  <2> QED
    BY <1>2, <2>1, <2>2 DEF LifeTypes
<1>5. \A u \in Threads : /\ pc'[u] \in AtGate <=> pc[u] \in AtGate
                         /\ pc'[u] \in InCallback <=> pc[u] \in InCallback
  BY <1>3 DEF InCallback, AtGate
<1>6. HoldsByPlace'
  <2>1. \A u \in Threads : LeasesAt(pc'[u]) = 0
    BY <1>1, PlaceFacts DEF LeasesAt
  <2> QED
    BY <1>2, <1>5, <2>1, Kinds DEF HoldsByPlace
<1>7. \A u \in Threads : pc'[u] \in Ends => u = e
  BY <1>1
<1>8. \A u \in Threads : pc'[u] \notin Reclaiming
  BY <1>1, <1>7 DEF Ends, Reclaiming
<1>9. Finalizer'
  <2>1. OneEnds'
    BY <1>7 DEF OneEnds
  <2> QED
    BY <1>1, <1>2, <1>8, <2>1 DEF Finalizer
<1>10. Reclaimed'
  BY <1>1, <1>8 DEF Reclaimed, PastJoin, Reclaiming
<1> QED
  BY <1>4, <1>6, <1>9, <1>10

\* ~AgentCallLease on the outermost lease of a thread.
LEMMA ReleaseKeeps ==
    ASSUME LifeInv, NEW t \in Threads, NEW after \in Places(t) \ Ends, Release(t, after),
           pc[t] \in {"leased", "delivered", "unlock"}, after \notin InCallback, LeasesAt(after) = 0,
           t = "model" => pc[t] = "unlock" /\ after = "done",
           UNCHANGED <<life, gate, account, epoch, stop, woken, task, told, destroy, returned, freed>>
    PROVE  LifeInv'
<1>1. /\ LeasesAt(pc[t]) = 1 /\ pc[t] \notin AtGate /\ pc[t] \notin Ends /\ pc[t] # "exited"
      /\ after \notin AtGate
  BY DEF LeasesAt, InCallback, AtGate, Ends, Reclaiming
<1>2. held' = [held EXCEPT ![t] = @ - 1] /\ HoldsAt(t, after)
  <2>1. held' = [held EXCEPT ![t] = @ - 1] /\ LeasesAt(pc[t]) = LeasesAt(after) + 1
    BY <1>1 DEF Release
  <2> QED
    BY <2>1, Releases
<1>3. t \in Studio \/ t \in Workers
  BY Kinds, PlaceFacts DEF Places, Reclaiming
<1>4. /\ gate # t /\ account \in {"none", "model"} /\ epoch \in 0..MaxEpoch
      /\ gate \in Threads \cup {"none"} /\ stop \in SUBSET Workers /\ told \in Nat /\ woken \in BOOLEAN
      /\ task \in [job : {"none", "queued"}, busy : BOOLEAN, count : 0..MaxTasks, epoch : 0..MaxEpoch]
      /\ account = "model" <=> pc["model"] \in InCallback
  BY <1>1 DEF LifeInv, LifeTypes, HoldsByPlace
<1>5. ASSUME pc'["model"] = (IF t = "model" THEN after ELSE pc["model"])
      PROVE  ModelTask' /\ (pc'["model"] \in InCallback <=> pc["model"] \in InCallback)
  <2>1. CASE t # "model"
    BY <1>5, <2>1, TaskRests
  <2>2. CASE t = "model"
    BY <1>5, <2>2 DEF LifeInv, ModelTask, Pending, InCallback, AtGate
  <2> QED
    BY <2>1, <2>2
<1>6. CASE ~LastLease(t)
  <2>1. pc' = [pc EXCEPT ![t] = after]
    BY <1>6 DEF Release
  <2>2. ModelTask' /\ (pc'["model"] \in InCallback <=> pc["model"] \in InCallback)
    BY <1>5, <2>1, Going, Kinds DEF LifeInv
  <2>3. LeasesAt(after) <= LeasesAt(pc[t])
    BY <1>1
  <2>4. /\ after \in AtGate <=> gate' = t
        /\ account' = "model" <=> pc'["model"] \in InCallback
        /\ \A u \in Threads \ {t} : gate' = u <=> gate = u
    BY <1>1, <1>4, <2>2
  <2> QED
    BY <1>1, <1>2, <1>4, <2>1, <2>2, <2>3, <2>4, Moves
<1>7. CASE LastLease(t) /\ t \in Workers
  <2>1. pc' = [pc EXCEPT ![t] = after, !["deferred"] = "finalize"]
    BY <1>7 DEF Release
  <2>2. /\ pc' = [u \in Threads |-> pc'[u]] /\ pc'["deferred"] = "finalize" /\ pc'[t] = after
        /\ \A u \in Threads \ {"deferred", t} : pc'[u] = pc[u]
    BY <1>7, <2>1, Kinds DEF LifeInv, LifeTypes
  <2>3. ModelTask'
    BY <1>5, <2>2, Kinds
  <2> QED
    BY <1>1, <1>2, <1>7, <2>2, <2>3, LastLeaseGoes, Kinds
<1>8. CASE LastLease(t) /\ t \in Studio
  <2>1. pc' = [pc EXCEPT ![t] = "finalize"]
    BY <1>8, Kinds DEF Release
  <2>2. pc' = [u \in Threads |-> pc'[u]] /\ pc'[t] = "finalize" /\ \A u \in Threads \ {t} : pc'[u] = pc[u]
    BY <2>1, Going DEF LifeInv
  <2>3. ModelTask'
    BY <1>5, <1>8, <2>2, Kinds
  <2> QED
    BY <1>1, <1>2, <1>8, <2>2, <2>3, LastLeaseGoes
<1> QED
  BY <1>3, <1>6, <1>7, <1>8

LEMMA CallReturnsKeeps == ASSUME LifeInv, NEW t \in Threads, CallReturns(t) PROVE LifeInv'
<1> DEFINE x == CASE t \in Studio -> "out" [] t = "status" -> "decide" [] OTHER -> "top"
<1>1. pc[t] \in {"leased", "delivered"} /\ Release(t, x)
  BY DEF CallReturns
<1>2. t \in Studio \/ t \in {"status", "firmware"}
  BY <1>1, PlaceFacts
<1>3. x \in Places(t) \ Ends /\ x \notin InCallback /\ LeasesAt(x) = 0 /\ t # "model"
  <2>1. CASE t \in Studio
    BY <2>1, Kinds DEF Places, Ends, Reclaiming, InCallback, AtGate, LeasesAt
  <2>2. CASE t = "status"
    BY <2>2, Kinds DEF Places, Ends, Reclaiming, InCallback, AtGate, LeasesAt
  <2>3. CASE t = "firmware"
    BY <2>3, Kinds DEF Places, Ends, Reclaiming, InCallback, AtGate, LeasesAt
  <2> QED
    BY <1>2, <2>1, <2>2, <2>3
<1> HIDE DEF x
<1> QED
  BY <1>1, <1>3, ReleaseKeeps DEF CallReturns

LEMMA TaskReleasesKeeps == ASSUME LifeInv, TaskReleases PROVE LifeInv'
<1>1. "model" \in Threads /\ pc["model"] = "unlock" /\ Release("model", "done")
  BY Kinds DEF TaskReleases
<1>2. "done" \in Places("model") \ Ends /\ "done" \notin InCallback /\ LeasesAt("done") = 0
  BY Kinds DEF Places, Ends, Reclaiming, InCallback, AtGate, LeasesAt
<1> QED
  BY <1>1, <1>2, ReleaseKeeps DEF TaskReleases

-----------------------------------------------------------------------------
\* A worker outside its callback goes on without a lease, before and after.
LEMMA IdleMove ==
    ASSUME LifeInv, NEW t \in {"status", "firmware"}, NEW x \in Places(t) \ Ends, pc' = [pc EXCEPT ![t] = x],
           pc[t] \notin Ends, pc[t] # "exited", pc[t] \notin InCallback, x \notin InCallback,
           LeasesAt(pc[t]) = 0, LeasesAt(x) = 0, held' = held, woken' \in BOOLEAN,
           UNCHANGED <<life, gate, account, epoch, stop, task, told, destroy, returned, freed>>
    PROVE  LifeInv'
<1>1. t \in Threads \ {"model"}
  BY Kinds DEF Workers
<1>2. HoldsAt(t, x)
  BY <1>1, Keeps
<1>3. LeasesAt(x) <= LeasesAt(pc[t])
  OBVIOUS
<1> QED
  BY <1>1, <1>2, <1>3, SimpleMove

LEMMA WorkerTopKeeps == ASSUME LifeInv, NEW t \in Threads, WorkerTop(t) PROVE LifeInv'
<1>1. /\ t \in {"status", "firmware"} /\ pc[t] = "top"
      /\ UNCHANGED <<life, gate, account, epoch, stop, task, told, destroy, returned, freed>>
  BY DEF WorkerTop
<1>2. woken' \in BOOLEAN
  BY DEF WorkerTop, LifeInv, LifeTypes
<1>3. /\ {"exited", "leased"} \subseteq Places(t) \ Ends /\ pc[t] \notin Ends /\ pc[t] # "exited"
      /\ pc[t] \notin InCallback /\ "exited" \notin InCallback /\ "leased" \notin InCallback
      /\ LeasesAt(pc[t]) = 0 /\ LeasesAt("exited") = 0 /\ LeasesAt("leased") = 1
  BY <1>1, Kinds DEF Places, Ends, Reclaiming, InCallback, AtGate, LeasesAt, Workers
<1>4. CASE t \in stop
  <2>1. pc' = [pc EXCEPT ![t] = "exited"] /\ held' = held
    BY <1>4 DEF WorkerTop, Go
  <2> QED
    BY <1>1, <1>2, <1>3, <2>1, IdleMove
<1>5. CASE t \notin stop
  <2>1. pc' = [pc EXCEPT ![t] = "leased"] /\ Acquire(t)
    BY <1>5 DEF WorkerTop, Go
  <2>2. LeasesAt("leased") = LeasesAt(pc[t]) + 1 /\ t \in Threads \ {"model"}
    BY <1>1, <1>3, Kinds
  <2>3. HoldsAt(t, "leased") /\ ~life.requested
    BY <2>1, <2>2, Acquires
  <2> QED
    BY <1>1, <1>2, <1>3, <2>1, <2>2, <2>3, SimpleMove
<1> QED
  BY <1>4, <1>5

\* The places of the status worker in its wait.
LEMMA StatusPlaces ==
    /\ "status" \in {"status", "firmware"}
    /\ \A x \in {"top", "decide", "committed", "asleep", "exited"} :
          /\ x \in Places("status") \ Ends /\ x \notin InCallback /\ LeasesAt(x) = 0 /\ x \notin Ends
BY Kinds DEF Places, Ends, Reclaiming, InCallback, AtGate, LeasesAt, Workers

LEMMA StatusChecksKeeps == ASSUME LifeInv, StatusChecks PROVE LifeInv'
<1> DEFINE x == IF "status" \in stop THEN "exited" ELSE IF woken THEN "top" ELSE "committed"
<1>1. /\ pc["status"] = "decide" /\ pc' = [pc EXCEPT !["status"] = x]
      /\ UNCHANGED <<held, life, gate, account, epoch, stop, woken, task, told, destroy, returned, freed>>
  BY DEF StatusChecks, Go
<1>2. x \in {"top", "committed", "exited"} /\ woken \in BOOLEAN
  BY DEF LifeInv, LifeTypes
<1> HIDE DEF x
<1> QED
  BY <1>1, <1>2, StatusPlaces, IdleMove

LEMMA StatusSleepsKeeps == ASSUME LifeInv, StatusSleeps PROVE LifeInv'
<1>1. woken \in BOOLEAN
  BY DEF LifeInv, LifeTypes
<1> QED
  BY <1>1, StatusPlaces, IdleMove DEF StatusSleeps, Go

LEMMA StatusTimeoutKeeps == ASSUME LifeInv, StatusTimeout PROVE LifeInv'
<1>1. woken \in BOOLEAN
  BY DEF LifeInv, LifeTypes
<1> QED
  BY <1>1, StatusPlaces, IdleMove DEF StatusTimeout, Go

LEMMA WakeStatusKeeps == ASSUME LifeInv, WakeStatus PROVE LifeInv'
<1>1. /\ woken' = TRUE /\ pc' = Notified
      /\ UNCHANGED <<held, life, gate, account, epoch, stop, task, told, destroy, returned, freed>>
  BY DEF WakeStatus
<1>2. CASE pc["status"] = "asleep"
  BY <1>1, <1>2, StatusPlaces, IdleMove DEF Notified
<1>3. CASE pc["status"] # "asleep"
  <2>1. pc' = pc
    BY <1>1, <1>3 DEF Notified
  <2> QED
    BY <1>1, <2>1 DEF LifeInv, LifeTypes, Places, HoldsByPlace, Finalizer, OneEnds, Reclaimed, Gone,
                      ModelTask, Pending
<1> QED
  BY <1>2, <1>3

\* A call on the agent changes no thread: the task is queued.
LEMMA EnqueueModelTaskKeeps == ASSUME LifeInv, NEW t \in Threads, EnqueueModelTask(t) PROVE LifeInv'
<1> USE DEF LifeInv
<1>1. /\ task.count < MaxTasks /\ ~task.busy /\ "model" \notin stop
      /\ task' = [task EXCEPT !.job = "queued", !.busy = TRUE, !.count = @ + 1]
      /\ UNCHANGED <<pc, held, life, gate, account, epoch, stop, woken, told, destroy, returned, freed>>
  BY DEF EnqueueModelTask
<1>2. task \in [job : {"none", "queued"}, busy : BOOLEAN, count : 0..MaxTasks, epoch : 0..MaxEpoch]
  BY DEF LifeTypes
<1>3. /\ task' \in [job : {"none", "queued"}, busy : BOOLEAN, count : 0..MaxTasks, epoch : 0..MaxEpoch]
      /\ task'.job = "queued" /\ task'.busy = TRUE /\ task'.count = task.count + 1 /\ task'.epoch = task.epoch
  <2>1. task' = [job |-> "queued", busy |-> TRUE, count |-> task.count + 1, epoch |-> task.epoch]
    BY <1>1, <1>2
  <2>2. task.count + 1 \in 0..MaxTasks /\ task.epoch \in 0..MaxEpoch
    BY <1>1, <1>2, LifetimeAssumption
  <2> QED
    BY <2>1, <2>2
<1>4. LifeTypes'
  BY <1>1, <1>3 DEF LifeTypes, Places
<1>5. HoldsByPlace' /\ Finalizer' /\ Reclaimed'
  BY <1>1 DEF HoldsByPlace, Finalizer, OneEnds, Reclaimed, Gone
<1>6. pc["model"] = "top"
  <2>1. pc["model"] \in Places("model")
    BY PlaceFacts, Kinds
  <2> QED
    BY <1>1, <2>1, Kinds DEF Places, ModelTask, Workers
<1>7. told \in Nat /\ task.count \in Nat /\ told + Pending <= task.count /\ Pending \in {0, 1}
  BY <1>2, LifetimeAssumption DEF LifeTypes, ModelTask, Pending
<1>8. told' + Pending' <= task'.count
  BY <1>1, <1>3, <1>6, <1>7 DEF Pending
<1>9. ModelTask'
  BY <1>1, <1>3, <1>6, <1>8 DEF ModelTask, InCallback, AtGate
<1> QED
  BY <1>4, <1>5, <1>9

\* The account does not change while the model task's callback has it locked.
LEMMA ChangeAccountKeeps == ASSUME LifeInv, NEW t \in Threads, ChangeAccount(t) PROVE LifeInv'
<1> USE DEF LifeInv
<1>1. /\ account = "none" /\ epoch < MaxEpoch /\ epoch' = epoch + 1
      /\ UNCHANGED <<pc, held, life, gate, account, stop, woken, task, told, destroy, returned, freed>>
  BY DEF ChangeAccount
<1>2. epoch' \in 0..MaxEpoch
  BY <1>1, LifetimeAssumption DEF LifeTypes
<1>3. LifeTypes'
  BY <1>1, <1>2 DEF LifeTypes, Places
<1>4. HoldsByPlace' /\ Finalizer' /\ Reclaimed'
  BY <1>1 DEF HoldsByPlace, Finalizer, OneEnds, Reclaimed, Gone
<1>5. pc["model"] \notin InCallback
  BY <1>1 DEF HoldsByPlace
<1>6. ModelTask'
  BY <1>1, <1>5 DEF ModelTask, Pending
<1> QED
  BY <1>3, <1>4, <1>6

-----------------------------------------------------------------------------
TaskType == [job : {"none", "queued"}, busy : BOOLEAN, count : 0..MaxTasks, epoch : 0..MaxEpoch]

\* The model worker, outside its callback before and after.
LEMMA ModelMove ==
    ASSUME LifeInv, NEW x \in {"top", "request", "answered", "unlock", "done", "exited"},
           pc' = [pc EXCEPT !["model"] = x], pc["model"] \notin AtGate, pc["model"] # "exited",
           HoldsAt("model", x), LeasesAt(x) <= LeasesAt(pc["model"]) \/ ~life.requested, task' \in TaskType,
           UNCHANGED <<life, gate, account, epoch, stop, woken, told, destroy, returned, freed>>,
           pc'["model"] = x => ModelTask'
    PROVE  LifeInv'
<1>1. /\ "model" \in Threads /\ x \in Places("model") \ Ends /\ x \notin AtGate /\ x \notin InCallback
      /\ pc["model"] \notin Ends /\ pc["model"] \notin InCallback
  BY Kinds, PlaceFacts DEF Places, Ends, Reclaiming, InCallback, AtGate, Workers
<1>2. pc'["model"] = x
  BY <1>1, Going DEF LifeInv
<1>3. /\ gate # "model" /\ account = "none" /\ epoch \in 0..MaxEpoch
      /\ gate \in Threads \cup {"none"} /\ stop \in SUBSET Workers /\ told \in Nat /\ woken \in BOOLEAN
  BY <1>1 DEF LifeInv, LifeTypes, HoldsByPlace
<1>4. /\ x \in AtGate <=> gate' = "model"
      /\ account' = "model" <=> pc'["model"] \in InCallback
      /\ \A u \in Threads \ {"model"} : gate' = u <=> gate = u
  BY <1>1, <1>2, <1>3
<1>5. task' \in [job : {"none", "queued"}, busy : BOOLEAN, count : 0..MaxTasks, epoch : 0..MaxEpoch]
  BY DEF TaskType
<1> QED
  BY <1>1, <1>2, <1>3, <1>4, <1>5, Moves

\* The facts about the model task a step of its worker starts from.
LEMMA TaskFacts ==
    ASSUME LifeInv
    PROVE  /\ task \in TaskType /\ task.count \in Nat /\ told \in Nat /\ Pending \in {0, 1}
           /\ told + Pending <= task.count /\ task.count <= MaxTasks /\ MaxTasks \in Nat
           /\ epoch \in 0..MaxEpoch /\ woken \in BOOLEAN
           /\ "model" \in Threads /\ held["model"] = LeasesAt(pc["model"])
<1>1. task \in TaskType /\ told \in Nat /\ epoch \in 0..MaxEpoch /\ woken \in BOOLEAN
  BY DEF LifeInv, LifeTypes, TaskType
<1>2. told + Pending <= task.count /\ Pending \in {0, 1}
  BY DEF LifeInv, ModelTask, Pending
<1>3. MaxTasks \in Nat /\ task.count \in Nat /\ task.count <= MaxTasks
  BY <1>1, LifetimeAssumption DEF TaskType
<1> QED
  BY <1>1, <1>2, <1>3, Kinds, PlaceFacts

LEMMA TakeTaskKeeps == ASSUME LifeInv, TakeTask PROVE LifeInv'
<1>1. /\ pc["model"] = "top" /\ ("model" \in stop \/ task.job = "queued")
      /\ UNCHANGED <<held, life, gate, account, epoch, stop, woken, told, destroy, returned, freed>>
  BY DEF TakeTask
<1>2. pc["model"] \notin AtGate /\ pc["model"] # "exited" /\ LeasesAt(pc["model"]) = 0
  BY <1>1 DEF InCallback, AtGate, LeasesAt
<1>3. CASE "model" \in stop
  <2>1. pc' = [pc EXCEPT !["model"] = "exited"] /\ task' = [task EXCEPT !.job = "none", !.busy = FALSE]
    BY <1>3 DEF TakeTask, Go
  <2>2. /\ task' \in TaskType /\ task'.job = "none" /\ task'.busy = FALSE
        /\ task'.count = task.count /\ task'.epoch = task.epoch
    BY <2>1, TaskFacts DEF TaskType
  <2>3. LeasesAt("exited") = 0
    BY DEF LeasesAt
  <2>4. HoldsAt("model", "exited") /\ LeasesAt("exited") <= LeasesAt(pc["model"])
    BY <1>1, <1>2, <2>3, Keeps, TaskFacts
  <2>5. ASSUME pc'["model"] = "exited" PROVE ModelTask'
    <3>1. told' + Pending' <= task'.count
      BY <1>1, <2>2, <2>5, TaskFacts DEF Pending
    <3> QED
      BY <1>1, <1>3, <2>2, <2>5, <3>1 DEF ModelTask, InCallback, AtGate
  <2> QED
    BY <1>1, <1>2, <2>1, <2>2, <2>4, <2>5, ModelMove
<1>4. CASE "model" \notin stop
  <2>1. pc' = [pc EXCEPT !["model"] = "request"] /\ task' = [task EXCEPT !.job = "none", !.epoch = epoch]
    BY <1>4 DEF TakeTask, Go
  <2>2. /\ task' \in TaskType /\ task'.job = "none" /\ task'.busy = task.busy
        /\ task'.count = task.count /\ task'.epoch = epoch
    BY <2>1, TaskFacts DEF TaskType
  <2>3. LeasesAt("request") = 0
    BY DEF LeasesAt
  <2>4. HoldsAt("model", "request") /\ LeasesAt("request") <= LeasesAt(pc["model"])
    BY <1>1, <1>2, <2>3, Keeps, TaskFacts
  <2>5. task.job = "queued" /\ task.busy
    BY <1>1, <1>4 DEF LifeInv, ModelTask
  <2>6. ASSUME pc'["model"] = "request" PROVE ModelTask'
    <3>1. Pending = 1 /\ Pending' = 1
      BY <2>5, <2>6 DEF Pending
    <3>2. told' + Pending' <= task'.count
      BY <1>1, <2>2, <3>1, TaskFacts
    <3> QED
      BY <1>1, <1>4, <2>2, <2>5, <2>6, <3>2 DEF ModelTask, InCallback, AtGate
  <2> QED
    BY <1>1, <1>2, <2>1, <2>2, <2>4, <2>6, ModelMove
<1> QED
  BY <1>3, <1>4

LEMMA TaskAnsweredKeeps == ASSUME LifeInv, TaskAnswered PROVE LifeInv'
<1>1. /\ pc["model"] = "request"
      /\ UNCHANGED <<life, gate, account, epoch, stop, woken, task, told, destroy, returned, freed>>
  BY DEF TaskAnswered
<1>2. /\ pc["model"] \notin AtGate /\ pc["model"] # "exited" /\ LeasesAt(pc["model"]) = 0
      /\ LeasesAt("answered") = 1 /\ LeasesAt("done") = 0
  BY <1>1 DEF InCallback, AtGate, LeasesAt
<1>3. task.busy /\ task.job = "none" /\ Pending = 1
  BY <1>1, TaskFacts DEF LifeInv, ModelTask, Pending, TaskType
<1>4. CASE Acquire("model") /\ pc' = [pc EXCEPT !["model"] = "answered"]
  <2>1. LeasesAt("answered") = LeasesAt(pc["model"]) + 1
    BY <1>2
  <2>2. HoldsAt("model", "answered") /\ ~life.requested
    BY <1>4, <2>1, Acquires, TaskFacts
  <2>3. ASSUME pc'["model"] = "answered" PROVE ModelTask'
    BY <1>1, <1>3, <2>3 DEF LifeInv, ModelTask, Pending, InCallback, AtGate
  <2> QED
    BY <1>1, <1>2, <1>4, <2>2, <2>3, ModelMove, TaskFacts
<1>5. CASE pc' = [pc EXCEPT !["model"] = "done"] /\ held' = held
  <2>1. HoldsAt("model", "done") /\ LeasesAt("done") <= LeasesAt(pc["model"])
    BY <1>2, <1>5, Keeps, TaskFacts
  <2>2. ASSUME pc'["model"] = "done" PROVE ModelTask'
    <3>1. Pending' = 0
      BY <1>1, <1>3, <2>2 DEF Pending
    <3>2. told' + Pending' <= task'.count
      BY <1>1, <1>3, <3>1, TaskFacts
    <3> QED
      BY <1>1, <1>3, <2>2, <3>2 DEF LifeInv, ModelTask, InCallback, AtGate
  <2> QED
    BY <1>1, <1>2, <1>5, <2>1, <2>2, ModelMove, TaskFacts
<1> QED
  BY <1>4, <1>5 DEF TaskAnswered, Go

LEMMA TaskDoneKeeps == ASSUME LifeInv, TaskDone PROVE LifeInv'
<1>1. /\ pc["model"] = "done" /\ pc' = [pc EXCEPT !["model"] = "top"] /\ task' = [task EXCEPT !.busy = FALSE]
      /\ UNCHANGED <<held, life, gate, account, epoch, stop, woken, told, destroy, returned, freed>>
  BY DEF TaskDone, Go
<1>2. /\ pc["model"] \notin AtGate /\ pc["model"] # "exited" /\ LeasesAt(pc["model"]) = 0
      /\ LeasesAt("top") = 0
  BY <1>1 DEF InCallback, AtGate, LeasesAt
<1>3. /\ task' \in TaskType /\ task'.job = task.job /\ task'.busy = FALSE
      /\ task'.count = task.count /\ task'.epoch = task.epoch
  BY <1>1, TaskFacts DEF TaskType
<1>4. HoldsAt("model", "top") /\ LeasesAt("top") <= LeasesAt(pc["model"])
  BY <1>1, <1>2, Keeps, TaskFacts
<1>5. task.job = "none"
  BY <1>1, TaskFacts DEF LifeInv, ModelTask, TaskType
<1>6. ASSUME pc'["model"] = "top" PROVE ModelTask'
  <2>1. Pending' = 0
    BY <1>3, <1>5, <1>6 DEF Pending
  <2>2. told' + Pending' <= task'.count
    BY <1>1, <1>3, <2>1, TaskFacts
  <2> QED
    BY <1>1, <1>3, <1>5, <1>6, <2>2 DEF LifeInv, ModelTask, InCallback, AtGate
<1> QED
  BY <1>1, <1>2, <1>3, <1>4, <1>6, ModelMove

\* The model worker takes the callback gate; nothing was checked yet.
LEMMA TaskTakesGateKeeps == ASSUME LifeInv, TaskTakesGate PROVE LifeInv'
<1>1. /\ pc["model"] = "answered" /\ gate = "none" /\ gate' = "model" /\ pc' = [pc EXCEPT !["model"] = "gated"]
      /\ UNCHANGED <<held, life, account, epoch, stop, woken, task, told, destroy, returned, freed>>
  BY DEF TaskTakesGate, Go
<1>2. /\ pc["model"] \notin InCallback /\ pc["model"] # "exited" /\ pc["model"] \notin Ends
      /\ LeasesAt(pc["model"]) = 1 /\ LeasesAt("gated") = 1
  BY <1>1 DEF InCallback, LeasesAt, Ends, Reclaiming
<1>3. HoldsAt("model", "gated") /\ LeasesAt("gated") <= LeasesAt(pc["model"])
  BY <1>1, <1>2, Keeps, TaskFacts
<1>4. "gated" \in Places("model") \ Ends /\ "gated" \in AtGate /\ "gated" \notin InCallback
  BY Kinds DEF Places, Ends, Reclaiming, InCallback, AtGate, Workers
<1>5. pc'["model"] = "gated"
  BY <1>1, Going, TaskFacts DEF LifeInv
<1>6. ModelTask'
  <2>1. Pending' = Pending
    BY <1>1, <1>5 DEF Pending
  <2>2. task.busy /\ task.job = "none" /\ told + Pending <= task.count
    BY <1>1, TaskFacts DEF LifeInv, ModelTask, TaskType
  <2> QED
    BY <1>1, <1>4, <1>5, <2>1, <2>2 DEF ModelTask
<1>7. \A u \in Threads \ {"model"} : gate' = u <=> gate = u
  BY <1>1, Kinds
<1>8. /\ account' \in {"none", "model"} /\ (account' = "model" <=> pc'["model"] \in InCallback)
      /\ stop \in SUBSET Workers /\ gate' \in Threads \cup {"none"}
  BY <1>1, <1>2, <1>4, <1>5, Kinds DEF LifeInv, LifeTypes, HoldsByPlace
<1> QED
  BY <1>1, <1>2, <1>3, <1>4, <1>6, <1>7, <1>8, TaskFacts, Moves DEF TaskType

\* With both gates held the checks are made, and what they found stays true for the callback.
LEMMA TaskGateKeeps == ASSUME LifeInv, TaskGate PROVE LifeInv'
<1>1. /\ pc["model"] = "gated" /\ account = "none"
      /\ UNCHANGED <<held, life, epoch, stop, woken, task, destroy, returned, freed>>
  BY DEF TaskGate
<1>2. /\ pc["model"] \notin InCallback /\ pc["model"] # "exited" /\ pc["model"] \notin Ends
      /\ LeasesAt(pc["model"]) = 1 /\ LeasesAt("callback") = 1 /\ LeasesAt("unlock") = 1
  BY <1>1 DEF InCallback, LeasesAt, Ends, Reclaiming
<1>3. task.busy /\ task.job = "none" /\ Pending = 1
  BY <1>1, TaskFacts DEF LifeInv, ModelTask, Pending, TaskType
<1>4. gate = "model" /\ \A u \in Threads \ {"model"} : gate # u
  BY <1>1, TaskFacts DEF LifeInv, HoldsByPlace, AtGate
<1>5. CASE "model" \notin stop /\ task.epoch = epoch
  <2>1. gate' = gate /\ account' = "model" /\ told' = told + 1 /\ pc' = [pc EXCEPT !["model"] = "callback"]
    BY <1>5 DEF TaskGate, Go
  <2>2. HoldsAt("model", "callback") /\ LeasesAt("callback") <= LeasesAt(pc["model"])
    BY <1>1, <1>2, Keeps, TaskFacts
  <2>3. "callback" \in Places("model") \ Ends /\ "callback" \in InCallback /\ "callback" \in AtGate
    BY Kinds DEF Places, Ends, Reclaiming, InCallback, AtGate, Workers
  <2>4. pc'["model"] = "callback"
    BY <2>1, Going, TaskFacts DEF LifeInv
  <2>5. ModelTask'
    <3>1. Pending' = 0
      BY <1>1, <1>3, <2>4 DEF Pending
    <3>2. told' + Pending' <= task'.count
      BY <1>1, <1>3, <2>1, <3>1, TaskFacts
    <3> QED
      BY <1>1, <1>3, <1>5, <2>4, <3>2 DEF ModelTask
  <2>6. told' \in Nat /\ stop \in SUBSET Workers /\ gate' \in Threads \cup {"none"}
    BY <1>4, <2>1, TaskFacts DEF LifeInv, LifeTypes
  <2> QED
    BY <1>1, <1>2, <1>4, <2>1, <2>2, <2>3, <2>4, <2>5, <2>6, TaskFacts, Moves DEF TaskType
<1>6. CASE ~("model" \notin stop /\ task.epoch = epoch)
  <2>1. gate' = "none" /\ pc' = [pc EXCEPT !["model"] = "unlock"] /\ UNCHANGED <<account, told>>
    BY <1>6 DEF TaskGate, Go
  <2>2. HoldsAt("model", "unlock") /\ LeasesAt("unlock") <= LeasesAt(pc["model"])
    BY <1>1, <1>2, Keeps, TaskFacts
  <2>3. "unlock" \in Places("model") \ Ends /\ "unlock" \notin InCallback /\ "unlock" \notin AtGate
    BY Kinds DEF Places, Ends, Reclaiming, InCallback, AtGate, Workers
  <2>4. pc'["model"] = "unlock"
    BY <2>1, Going, TaskFacts DEF LifeInv
  <2>5. ModelTask'
    <3>1. Pending' = 0
      BY <1>1, <1>3, <2>4 DEF Pending
    <3>2. told' + Pending' <= task'.count
      BY <1>1, <1>3, <2>1, <3>1, TaskFacts
    <3> QED
      BY <1>1, <1>3, <2>4, <3>2 DEF LifeInv, ModelTask, InCallback
  <2>6. /\ gate' # "model" /\ gate' \in Threads \cup {"none"} /\ stop \in SUBSET Workers
        /\ \A u \in Threads \ {"model"} : gate' = u <=> gate = u
    BY <1>4, <2>1, Kinds DEF LifeInv, LifeTypes
  <2> QED
    BY <1>1, <1>2, <2>1, <2>2, <2>3, <2>4, <2>5, <2>6, TaskFacts, Moves DEF TaskType
<1> QED
  BY <1>5, <1>6

-----------------------------------------------------------------------------
\* The other threads rest; the status worker may be woken.
OthersRest(t) ==
    /\ pc' = [u \in Threads |-> pc'[u]]
    /\ \A u \in Threads \ {t} : \/ pc'[u] = pc[u]
                                \/ u = "status" /\ pc[u] = "asleep" /\ pc'[u] = "top"

LEMMA GoRests ==
    ASSUME LifeInv, NEW t \in Threads, NEW x, Go(t, x)
    PROVE  OthersRest(t) /\ pc'[t] = x
BY Going DEF LifeInv, Go, OthersRest

\* The thread that ends the agent moves: what the others hold rests.
LEMMA EndTypes ==
    ASSUME LifeInv, NEW t \in Threads \ Workers, OthersRest(t), pc[t] \in Ends \cup {"out"},
           pc'[t] \in Ends \cup {"out"}, UNCHANGED <<held, gate, account, epoch, told>>,
           life' = [requested |-> life'.requested, started |-> life'.started],
           life'.requested \in BOOLEAN, life'.started \in BOOLEAN, stop' \in SUBSET Workers,
           woken' \in BOOLEAN, task' \in TaskType, destroy' \in {"no", "outer", "inner"},
           returned' \in BOOLEAN, freed' \in BOOLEAN
    PROVE  LifeTypes' /\ HoldsByPlace'
<1> USE DEF LifeInv
<1>1. t \in Studio \/ t = "deferred"
  BY Kinds
<1>2. Ends \cup {"out"} \subseteq Places(t)
  BY <1>1, Kinds DEF Places, Ends
<1>3. \A u \in Threads : pc'[u] \in Places(u)
  <2>1. "status" \notin Studio /\ "top" \in Places("status")
    BY Kinds DEF Places
  <2> QED
    BY <1>2, <2>1, PlaceFacts DEF OthersRest
<1>4. \A u : Places(u)' = Places(u)
  BY DEF Places
<1>5. LifeTypes'
  BY <1>3, <1>4 DEF LifeTypes, OthersRest, TaskType
<1>6. \A p \in Ends \cup {"out", "asleep", "top"} : LeasesAt(p) = 0 /\ p \notin InCallback /\ p \notin AtGate
  BY DEF Ends, Reclaiming, LeasesAt, InCallback, AtGate
<1>7. \A u \in Threads : /\ LeasesAt(pc'[u]) = LeasesAt(pc[u]) /\ (pc'[u] \in AtGate <=> pc[u] \in AtGate)
                         /\ pc'[u] \in InCallback <=> pc[u] \in InCallback
  BY <1>6 DEF OthersRest
<1>8. HoldsByPlace'
  BY <1>7, Kinds DEF HoldsByPlace
<1> QED
  BY <1>5, <1>8

\* The reclaiming thread takes its next step.
LEMMA ReclaimMove ==
    ASSUME LifeInv, NEW t \in Threads, pc[t] \in Reclaiming, OthersRest(t), pc'[t] \in Reclaiming,
           UNCHANGED <<held, life, gate, account, epoch, told, destroy, returned, freed>>,
           stop' \in SUBSET Workers, woken' \in BOOLEAN, task' \in TaskType, ModelTask',
           \A w \in Workers : pc'[t] \in PastJoin[w] => Gone(w),
           pc'[t] = "delete" => \A u \in Threads : held[u] = 0
    PROVE  LifeInv'
<1> USE DEF LifeInv
<1>1. t \in Threads \ Workers /\ pc[t] \in Ends /\ pc'[t] \in Ends
  BY PlaceFacts DEF Ends
<1>2. \A u \in Threads \ {t} : pc[u] \notin Ends /\ pc'[u] \notin Ends
  BY <1>1 DEF Finalizer, OneEnds, OthersRest, Ends, Reclaiming
<1>3. LifeTypes' /\ HoldsByPlace'
  <2>1. /\ life = [requested |-> life.requested, started |-> life.started]
        /\ life.requested \in BOOLEAN /\ life.started \in BOOLEAN
        /\ destroy \in {"no", "outer", "inner"} /\ returned \in BOOLEAN /\ freed \in BOOLEAN
    BY DEF LifeTypes
  <2> QED
    BY <1>1, <2>1, EndTypes
<1>4. life.started /\ ~freed /\ pc'[t] # "finalize"
  BY DEF Finalizer, Reclaiming
<1>5. Finalizer'
  <2>1. OneEnds'
    BY <1>2 DEF OneEnds
  <2>2. \A u \in Threads : pc'[u] # "finalize"
    BY <1>2, <1>4 DEF Ends
  <2> QED
    BY <1>4, <2>1, <2>2 DEF Finalizer
<1>6. Reclaimed'
  <2>1. \A w \in Workers : Gone(w) => Gone(w)'
    BY <1>1, Kinds DEF Gone, OthersRest
  <2>2. \A u \in Threads \ {t} : \A w \in Workers : pc'[u] \notin PastJoin[w] /\ pc'[u] # "delete"
    BY <1>2 DEF PastJoin, Ends, Reclaiming
  <2>3. \A u \in Threads : \A w \in Workers : pc'[u] \in PastJoin[w] => Gone(w)'
    BY <2>1, <2>2 DEF Gone
  <2>4. \A u \in Threads : pc'[u] = "delete" => \A v \in Threads : held'[v] = 0
    BY <2>2, Kinds
  <2>5. PastJoin' = PastJoin
    BY DEF PastJoin
  <2> QED
    BY <1>4, <2>3, <2>4, <2>5 DEF Reclaimed
<1> QED
  BY <1>3, <1>5, <1>6

\* What the reclaiming thread finds, and what rests while the model worker does.
LEMMA ReclaimFacts ==
    ASSUME LifeInv, NEW t \in Threads, pc[t] \in Reclaiming
    PROVE  /\ t \notin Workers /\ stop \in SUBSET Workers /\ woken \in BOOLEAN /\ task \in TaskType
           /\ \A w \in Workers : pc[t] \in PastJoin[w] => Gone(w)
<1>1. t \notin Workers
  BY PlaceFacts DEF Ends
<1> QED
  BY <1>1, TaskFacts DEF LifeInv, LifeTypes, Reclaimed

LEMMA JoinKeeps ==
    ASSUME LifeInv, NEW t \in Threads, Joins(t) PROVE LifeInv'
<1>1. PICK at, w, after :
          /\ <<at, w, after>> \in {<<"join_model", "model", "stop_status">>,
                 <<"join_status", "status", "stop_firmware">>, <<"join_firmware", "firmware", "wait_leases">>}
          /\ Join(t, at, w, after)
  BY DEF Joins
<1>2. pc[t] \in Reclaiming /\ after \in Reclaiming /\ after # "delete" /\ w \in Workers /\ Gone(w)
  BY <1>1, Kinds DEF Join, Reclaiming, Gone
<1>3. OthersRest(t) /\ pc'[t] = after
  BY <1>1, GoRests DEF Join
<1>4. pc'["model"] = pc["model"]
  BY <1>2, <1>3, ReclaimFacts, Kinds DEF OthersRest
<1>5. UNCHANGED <<held, life, gate, account, epoch, stop, woken, task, told, destroy, returned, freed>>
  BY <1>1 DEF Join
<1>6. ModelTask'
  BY <1>4, <1>5, TaskRests
<1>7. \A v \in Workers : after \in PastJoin[v] => v = w \/ pc[t] \in PastJoin[v]
  BY <1>1 DEF Join, PastJoin, Workers
<1>8. \A v \in Workers : pc'[t] \in PastJoin[v] => Gone(v)
  BY <1>2, <1>3, <1>7, ReclaimFacts
<1> QED
  BY <1>2, <1>3, <1>5, <1>6, <1>8, ReclaimFacts, ReclaimMove

LEMMA StopFirmwareKeeps == ASSUME LifeInv, NEW t \in Threads, StopFirmware(t) PROVE LifeInv'
<1>1. /\ pc[t] = "stop_firmware" /\ stop' = stop \cup {"firmware"} /\ Go(t, "join_firmware")
      /\ UNCHANGED <<held, life, gate, account, epoch, woken, task, told, destroy, returned, freed>>
  BY DEF StopFirmware
<1>2. pc[t] \in Reclaiming /\ OthersRest(t) /\ pc'[t] = "join_firmware"
  BY <1>1, GoRests DEF Reclaiming
<1>3. pc'["model"] = pc["model"]
  BY <1>2, ReclaimFacts, Kinds DEF OthersRest
<1>4. ModelTask'
  BY <1>1, <1>3 DEF LifeInv, ModelTask, Pending
<1>5. \A v \in Workers : pc'[t] \in PastJoin[v] => pc[t] \in PastJoin[v]
  BY <1>1, <1>2 DEF PastJoin, Workers
<1>6. stop' \in SUBSET Workers
  BY <1>1, <1>2, ReclaimFacts, Kinds
<1>7. pc'[t] \in Reclaiming /\ pc'[t] # "delete"
  BY <1>2 DEF Reclaiming
<1> QED
  BY <1>1, <1>2, <1>4, <1>5, <1>6, <1>7, ReclaimFacts, ReclaimMove

LEMMA StopStatusKeeps == ASSUME LifeInv, NEW t \in Threads, StopStatus(t) PROVE LifeInv'
<1>1. /\ pc[t] = "stop_status" /\ stop' = stop \cup {"status"} /\ woken' = TRUE
      /\ pc' = [Notified EXCEPT ![t] = "join_status"]
      /\ UNCHANGED <<held, life, gate, account, epoch, task, told, destroy, returned, freed>>
  BY DEF StopStatus
<1>2. pc[t] \in Reclaiming
  BY <1>1 DEF Reclaiming
<1>3. OthersRest(t) /\ pc'[t] = "join_status"
  <2>1. pc = [u \in Threads |-> pc[u]]
    BY DEF LifeInv, LifeTypes
  <2>2. t # "status"
    BY <1>2, ReclaimFacts, Kinds
  <2> QED
    BY <1>1, <2>1, <2>2 DEF OthersRest, Notified
<1>4. pc'["model"] = pc["model"]
  BY <1>2, <1>3, ReclaimFacts, Kinds DEF OthersRest
<1>5. ModelTask'
  BY <1>1, <1>4 DEF LifeInv, ModelTask, Pending
<1>6. \A v \in Workers : pc'[t] \in PastJoin[v] => pc[t] \in PastJoin[v]
  BY <1>1, <1>3 DEF PastJoin, Workers
<1>7. stop' \in SUBSET Workers /\ woken' \in BOOLEAN
  BY <1>1, <1>2, ReclaimFacts, Kinds
<1>8. pc'[t] \in Reclaiming /\ pc'[t] # "delete"
  BY <1>3 DEF Reclaiming
<1> QED
  BY <1>1, <1>2, <1>3, <1>5, <1>6, <1>7, <1>8, ReclaimFacts, ReclaimMove

\* The gate is free when the model task is stopped, so its callback does not run; none starts later.
LEMMA StopModelKeeps == ASSUME LifeInv, NEW t \in Threads, StopModel(t) PROVE LifeInv'
<1>1. /\ pc[t] = "stop_model" /\ gate = "none" /\ stop' = stop \cup {"model"} /\ Go(t, "join_model")
      /\ task' = [task EXCEPT !.job = "none"]
      /\ UNCHANGED <<held, life, gate, account, epoch, woken, told, destroy, returned, freed>>
  BY DEF StopModel
<1>2. pc[t] \in Reclaiming /\ OthersRest(t) /\ pc'[t] = "join_model"
  BY <1>1, GoRests DEF Reclaiming
<1>3. pc'["model"] = pc["model"] /\ pc["model"] \notin InCallback
  BY <1>1, <1>2, ReclaimFacts, Kinds DEF OthersRest, LifeInv, HoldsByPlace, AtGate
<1>4. /\ task' \in TaskType /\ task'.job = "none" /\ task'.busy = task.busy
      /\ task'.count = task.count /\ task'.epoch = task.epoch
  BY <1>1, TaskFacts DEF TaskType
<1>5. ModelTask'
  <2>1. Pending' <= Pending /\ Pending' \in {0, 1}
    BY <1>3, <1>4 DEF Pending
  <2>2. told' + Pending' <= task'.count
    BY <1>1, <1>4, <2>1, TaskFacts
  <2> QED
    BY <1>1, <1>3, <1>4, <2>2 DEF LifeInv, ModelTask
<1>6. \A v \in Workers : pc'[t] \notin PastJoin[v]
  BY <1>2 DEF PastJoin, Workers
<1>7. stop' \in SUBSET Workers
  BY <1>1, <1>2, ReclaimFacts, Kinds
<1>8. pc'[t] \in Reclaiming /\ pc'[t] # "delete"
  BY <1>2 DEF Reclaiming
<1> QED
  BY <1>1, <1>2, <1>4, <1>5, <1>6, <1>7, <1>8, ReclaimFacts, ReclaimMove

\* No lease is left when the reclaiming thread goes on to the delete.
LEMMA WaitForLeasesKeeps == ASSUME LifeInv, NEW t \in Threads, WaitForLeases(t) PROVE LifeInv'
<1>1. /\ pc[t] = "wait_leases" /\ Leases = {} /\ Go(t, "delete")
      /\ UNCHANGED <<held, life, gate, account, epoch, stop, woken, task, told, destroy, returned, freed>>
  BY DEF WaitForLeases
<1>2. pc[t] \in Reclaiming /\ OthersRest(t) /\ pc'[t] = "delete" /\ pc'[t] \in Reclaiming
  BY <1>1, GoRests DEF Reclaiming
<1>3. pc'["model"] = pc["model"]
  BY <1>2, ReclaimFacts, Kinds DEF OthersRest
<1>4. ModelTask'
  BY <1>1, <1>3, TaskRests
<1>5. \A v \in Workers : pc[t] \in PastJoin[v]
  BY <1>1 DEF PastJoin, Workers
<1>6. \A u \in Threads : held[u] = 0
  BY <1>1, PlaceFacts DEF Leases
<1> QED
  BY <1>1, <1>2, <1>4, <1>5, <1>6, ReclaimFacts, ReclaimMove

\* Nobody holds a lease and the workers are gone: the agent is deleted.
LEMMA DeleteKeeps == ASSUME LifeInv, NEW t \in Threads, Delete(t) PROVE LifeInv'
<1> USE DEF LifeInv
<1>1. /\ pc[t] = "delete" /\ freed' = TRUE /\ returned' = TRUE /\ Go(t, "out")
      /\ UNCHANGED <<held, life, gate, account, epoch, stop, woken, task, told, destroy>>
  BY DEF Delete
<1>2. /\ pc[t] \in Reclaiming /\ pc[t] \in Ends /\ OthersRest(t) /\ pc'[t] = "out" /\ pc'[t] \notin Ends
      /\ t \in Threads \ Workers
  BY <1>1, GoRests, PlaceFacts DEF Reclaiming, Ends
<1>3. LifeTypes' /\ HoldsByPlace'
  <2>1. /\ life = [requested |-> life.requested, started |-> life.started]
        /\ life.requested \in BOOLEAN /\ life.started \in BOOLEAN /\ destroy \in {"no", "outer", "inner"}
    BY DEF LifeTypes
  <2> QED
    BY <1>1, <1>2, <2>1, EndTypes, ReclaimFacts
<1>4. pc'["model"] = pc["model"]
  BY <1>2, Kinds DEF OthersRest
<1>5. ModelTask'
  BY <1>1, <1>4, TaskRests
<1>6. \A u \in Threads : pc'[u] \notin Ends
  BY <1>2 DEF Finalizer, OneEnds, OthersRest, Ends, Reclaiming
<1>7. Finalizer'
  <2>1. life.started /\ life.requested
    BY <1>2 DEF Finalizer
  <2>2. \A u \in Threads : pc'[u] # "finalize" /\ pc'[u] \notin Reclaiming
    BY <1>6 DEF Ends
  <2> QED
    BY <1>1, <1>6, <2>1, <2>2 DEF Finalizer, OneEnds
<1>8. Reclaimed'
  <2>1. \A w \in Workers : Gone(w)
    BY <1>1 DEF Reclaimed, PastJoin, Workers
  <2>2. \A w \in Workers : Gone(w)'
    BY <1>2, <2>1, Kinds DEF Gone, OthersRest
  <2>3. \A u \in Threads : held[u] = 0
    BY <1>1 DEF Reclaimed
  <2> QED
    BY <1>1, <2>2, <2>3 DEF Reclaimed
<1> QED
  BY <1>3, <1>5, <1>7, <1>8

\* finalize_agent_destroy starts the reclaiming once.
LEMMA FinalizeKeeps == ASSUME LifeInv, NEW t \in Threads, Finalize(t) PROVE LifeInv'
<1> USE DEF LifeInv
<1>1. life.requested /\ ~life.started /\ pc[t] = "finalize" /\ ~freed /\ destroy # "outer"
  BY DEF Finalize, Finalizer
<1>2. /\ life' = [life EXCEPT !.started = TRUE] /\ Go(t, "stop_model")
      /\ UNCHANGED <<held, gate, account, epoch, stop, woken, task, told, destroy, returned, freed>>
  BY <1>1 DEF Finalize
<1>3. life' = [requested |-> TRUE, started |-> TRUE]
  BY <1>1, <1>2 DEF LifeTypes
<1>4. /\ pc[t] \in Ends /\ OthersRest(t) /\ pc'[t] = "stop_model" /\ pc'[t] \in Ends
      /\ t \in Threads \ Workers
  BY <1>1, <1>2, GoRests, PlaceFacts DEF Reclaiming, Ends
<1>5. LifeTypes' /\ HoldsByPlace'
  <2>1. /\ life' = [requested |-> life'.requested, started |-> life'.started]
        /\ life'.requested \in BOOLEAN /\ life'.started \in BOOLEAN
    BY <1>3
  <2>2. /\ destroy \in {"no", "outer", "inner"} /\ stop \in SUBSET Workers /\ woken \in BOOLEAN
        /\ task \in TaskType /\ returned \in BOOLEAN /\ freed \in BOOLEAN
    BY DEF LifeTypes, TaskType
  <2> QED
    BY <1>2, <1>4, <2>1, <2>2, EndTypes
<1>6. pc'["model"] = pc["model"]
  BY <1>4, Kinds DEF OthersRest
<1>7. ModelTask'
  BY <1>2, <1>6, TaskRests
<1>8. \A u \in Threads \ {t} : pc'[u] \notin Ends
  BY <1>4 DEF Finalizer, OneEnds, OthersRest, Ends, Reclaiming
<1>9. Finalizer'
  <2>1. \A u \in Threads : pc'[u] # "finalize"
    BY <1>4, <1>8 DEF Ends
  <2>2. OneEnds'
    BY <1>8 DEF OneEnds
  <2> QED
    BY <1>1, <1>2, <1>3, <2>1, <2>2 DEF Finalizer
<1>10. Reclaimed'
  <2>1. \A u \in Threads : pc'[u] # "delete" /\ \A w \in Workers : pc'[u] \notin PastJoin[w]
    BY <1>4, <1>8 DEF PastJoin, Ends, Reclaiming
  <2>2. PastJoin' = PastJoin
    BY DEF PastJoin
  <2> QED
    BY <1>1, <1>2, <2>1, <2>2 DEF Reclaimed
<1> QED
  BY <1>5, <1>7, <1>9, <1>10

\* A destroy from outside: nobody has asked before, and the calling thread reclaims.
LEMMA DestroyOutsideKeeps == ASSUME LifeInv, NEW t \in Threads, DestroyOutside(t) PROVE LifeInv'
<1> USE DEF LifeInv
<1>1. /\ t \in Studio /\ pc[t] = "out" /\ destroy = "no" /\ destroy' = "outer"
      /\ life' = [requested |-> TRUE, started |-> TRUE] /\ Go(t, "stop_model")
      /\ UNCHANGED <<held, gate, account, epoch, stop, woken, task, told, returned, freed>>
  BY DEF DestroyOutside
<1>2. ~life.requested /\ ~life.started /\ ~freed /\ (\A u \in Threads : pc[u] \notin Ends)
  BY <1>1 DEF Finalizer, Ends
<1>3. OthersRest(t) /\ pc'[t] = "stop_model" /\ pc'[t] \in Ends /\ t \in Threads \ Workers
  BY <1>1, GoRests, Kinds DEF Reclaiming, Ends
<1>4. LifeTypes' /\ HoldsByPlace'
  <2>1. /\ life' = [requested |-> life'.requested, started |-> life'.started]
        /\ life'.requested \in BOOLEAN /\ life'.started \in BOOLEAN
    BY <1>1
  <2>2. /\ stop \in SUBSET Workers /\ woken \in BOOLEAN
        /\ task \in TaskType /\ returned \in BOOLEAN /\ freed \in BOOLEAN
    BY DEF LifeTypes, TaskType
  <2> QED
    BY <1>1, <1>3, <2>1, <2>2, EndTypes
<1>5. pc'["model"] = pc["model"]
  BY <1>3, Kinds DEF OthersRest
<1>6. ModelTask'
  BY <1>1, <1>5, TaskRests
<1>7. \A u \in Threads \ {t} : pc'[u] \notin Ends
  BY <1>2, <1>3 DEF OthersRest, Ends, Reclaiming
<1>8. Finalizer'
  <2>1. \A u \in Threads : pc'[u] # "finalize"
    BY <1>3, <1>7 DEF Ends
  <2>2. OneEnds'
    BY <1>7 DEF OneEnds
  <2>3. ~returned
    BY <1>1, <1>2 DEF Finalizer
  <2> QED
    BY <1>1, <1>2, <2>1, <2>2, <2>3 DEF Finalizer
<1>9. Reclaimed'
  <2>1. \A u \in Threads : pc'[u] # "delete" /\ \A w \in Workers : pc'[u] \notin PastJoin[w]
    BY <1>3, <1>7 DEF PastJoin, Ends, Reclaiming
  <2>2. PastJoin' = PastJoin
    BY DEF PastJoin
  <2> QED
    BY <1>1, <1>2, <2>1, <2>2 DEF Reclaimed
<1> QED
  BY <1>4, <1>6, <1>8, <1>9

\* A destroy from inside a callback closes the agent and moves no thread.
LEMMA DestroyInsideKeeps == ASSUME LifeInv, NEW t \in Threads, DestroyInside(t) PROVE LifeInv'
<1> USE DEF LifeInv
<1>1. /\ destroy = "no" /\ destroy' = "inner" /\ life' = [life EXCEPT !.requested = TRUE] /\ returned' = TRUE
      /\ UNCHANGED <<pc, held, gate, account, epoch, stop, woken, task, told, freed>>
  BY DEF DestroyInside
<1>2. life' = [requested |-> TRUE, started |-> life.started] /\ life.started \in BOOLEAN
  BY <1>1 DEF LifeTypes
<1>3. ~life.started /\ ~freed /\ (\A u \in Threads : pc[u] \notin Ends)
  BY <1>1 DEF Finalizer, Ends
<1>4. LifeTypes'
  <2>1. /\ life' = [requested |-> life'.requested, started |-> life'.started]
        /\ life'.requested \in BOOLEAN /\ life'.started \in BOOLEAN
    BY <1>2
  <2> QED
    BY <1>1, <2>1 DEF LifeTypes, Places
<1>5. HoldsByPlace' /\ Reclaimed'
  BY <1>1 DEF HoldsByPlace, Reclaimed, Gone, PastJoin
<1>6. Finalizer'
  <2>1. \A u \in Threads : pc'[u] # "finalize" /\ pc'[u] \notin Reclaiming
    BY <1>1, <1>3 DEF Ends
  <2> QED
    BY <1>1, <1>2, <1>3, <2>1 DEF Finalizer, OneEnds
<1>7. ModelTask'
  BY <1>1, TaskRests
<1> QED
  BY <1>4, <1>5, <1>6, <1>7

-----------------------------------------------------------------------------
LEMMA LifeInitially == LifeInit => LifeInv
<1> SUFFICES ASSUME LifeInit PROVE LifeInv
  OBVIOUS
<1> USE DEF LifeInit
<1>1. \A t \in Threads : \/ t \in Studio /\ pc[t] = "out"
                         \/ t = "deferred" /\ pc[t] = "unborn"
                         \/ t \in Workers /\ pc[t] = "top"
  <2> TAKE t \in Threads
  <2>1. CASE t \in Studio
    BY <2>1
  <2>2. CASE t = "deferred"
    BY <2>2, Kinds
  <2>3. CASE t \in Workers
    BY <2>3, Kinds
  <2> QED
    BY <2>1, <2>2, <2>3, Kinds
<1>2. pc["model"] = "top"
  BY <1>1, Kinds
<1>3. \A t \in Threads : pc[t] \in {"out", "unborn", "top"} /\ held[t] = 0
  BY <1>1
<1>4. \A t \in Threads : /\ pc[t] \notin Ends /\ pc[t] \notin Reclaiming /\ pc[t] # "finalize" /\ pc[t] # "delete"
                         /\ pc[t] \notin InCallback /\ LeasesAt(pc[t]) = 0
                         /\ \A w \in Workers : pc[t] \notin PastJoin[w]
  BY <1>3 DEF Ends, Reclaiming, InCallback, AtGate, LeasesAt, PastJoin
<1>5. LifeTypes
  <2>1. \A t \in Threads : pc[t] \in Places(t)
    BY <1>1, Kinds DEF Places, Workers
  <2>2. pc = [t \in Threads |-> pc[t]] /\ held = [t \in Threads |-> held[t]]
    OBVIOUS
  <2>3. task \in [job : {"none", "queued"}, busy : BOOLEAN, count : 0..MaxTasks, epoch : 0..MaxEpoch]
    BY LifetimeAssumption
  <2>4. epoch \in 0..MaxEpoch /\ told \in Nat
    BY LifetimeAssumption
  <2> QED
    BY <2>1, <2>2, <2>3, <2>4 DEF LifeTypes
<1>6. HoldsByPlace
  BY <1>2, <1>3, <1>4, Kinds DEF HoldsByPlace, InCallback, AtGate
<1>7. Finalizer
  BY <1>4 DEF Finalizer, OneEnds
<1>8. Reclaimed
  BY <1>4 DEF Reclaimed
<1>9. ModelTask
  BY <1>2 DEF ModelTask, Pending, InCallback, AtGate
<1> QED
  BY <1>5, <1>6, <1>7, <1>8, <1>9 DEF LifeInv

\* Every step of a thread keeps the invariant.
LEMMA LifeStep == LifeInv /\ [LifeNext]_lifeVars => LifeInv'
<1> SUFFICES ASSUME LifeInv, [LifeNext]_lifeVars PROVE LifeInv'
  OBVIOUS
<1>1. ASSUME NEW t \in Threads, Step(t) PROVE LifeInv'
  BY <1>1, NestedReturnKeeps, CallbackReturnsKeeps, CallReturnsKeeps, WorkerTopKeeps, FinalizeKeeps,
     StopModelKeeps, StopStatusKeeps, StopFirmwareKeeps, JoinKeeps, WaitForLeasesKeeps, DeleteKeeps DEF Step
<1>2. ASSUME NEW t \in Threads,
             \/ StudioCalls(t) \/ EnqueueModelTask(t) \/ ChangeAccount(t) \/ Callback(t) \/ NestedCall(t)
             \/ DestroyOutside(t) \/ DestroyInside(t)
      PROVE  LifeInv'
  BY <1>2, StudioCallsKeeps, EnqueueModelTaskKeeps, ChangeAccountKeeps, CallbackKeeps, NestedCallKeeps,
     DestroyOutsideKeeps, DestroyInsideKeeps
<1>3. CASE StatusChecks \/ StatusSleeps \/ StatusTimeout \/ WakeStatus
  BY <1>3, StatusChecksKeeps, StatusSleepsKeeps, StatusTimeoutKeeps, WakeStatusKeeps
<1>4. CASE TakeTask \/ TaskAnswered \/ TaskTakesGate \/ TaskGate \/ TaskReleases \/ TaskDone
  BY <1>4, TakeTaskKeeps, TaskAnsweredKeeps, TaskTakesGateKeeps, TaskGateKeeps, TaskReleasesKeeps, TaskDoneKeeps
<1>5. CASE UNCHANGED lifeVars
  BY <1>5 DEF lifeVars, LifeInv, LifeTypes, Places, HoldsByPlace, Finalizer, OneEnds, Reclaimed, Gone,
              ModelTask, Pending
<1> QED
  BY <1>1, <1>2, <1>3, <1>4, <1>5 DEF LifeNext

\* Where every thread is, what it holds, and how far the reclaiming is, in every reachable state
\* (shim_agent_lifetime.hpp, shim_abi_user.hpp, shim_model_task.hpp, shim_status_heartbeat.hpp).
THEOREM LifeInvAlways == LifeSpec => []LifeInv
<1>1. LifeInit => LifeInv
  BY LifeInitially
<1>2. LifeInv /\ [LifeNext]_lifeVars => LifeInv'
  BY LifeStep
<1> QED
  BY <1>1, <1>2, PTL DEF LifeSpec

-----------------------------------------------------------------------------
LEMMA LifeTyped == LifeInv => TypeOK
<1> SUFFICES ASSUME LifeInv PROVE TypeOK
  OBVIOUS
<1> USE DEF LifeInv
<1> DEFINE All == {"out", "unborn", "top", "leased", "delivered", "decide", "committed", "asleep",
                   "exited", "request", "answered", "gated", "unlock", "done", "finalize"} \cup InCallback \cup Reclaiming
<1>1. pc \in [Threads -> All]
  <2>1. \A t \in Threads : Places(t) \subseteq All
    BY DEF Places
  <2> HIDE DEF All
  <2> QED
    BY <2>1, PlaceFacts DEF LifeTypes
<1>2. held \in [Threads -> 0..2]
  <2>1. \A t \in Threads : held[t] \in 0..2
    BY DEF HoldsByPlace, LeasesAt
  <2> QED
    BY <2>1 DEF LifeTypes
<1>3. told \in 0..MaxTasks
  BY TaskFacts
<1>4. life \in [requested : BOOLEAN, started : BOOLEAN]
  BY DEF LifeTypes
<1>5. account \in Threads \cup {"none"}
  BY Kinds DEF LifeTypes
<1> QED
  BY <1>1, <1>2, <1>3, <1>4, <1>5 DEF TypeOK, LifeTypes

\* A freed agent: nobody in a place where the object is used.
LEMMA FreedUnused == LifeInv => NothingUsesFreed
<1> SUFFICES ASSUME LifeInv, freed PROVE NothingUsesFreed
  BY DEF NothingUsesFreed
<1> USE DEF LifeInv
<1>1. \A w \in Workers : pc[w] = "exited"
  BY DEF Reclaimed, Gone
<1>2. \A t \in Threads : held[t] = 0
  BY DEF Reclaimed
<1>3. Leases = {}
  BY <1>2 DEF Leases
<1>4. \A t \in Threads : pc[t] \notin InCallback \cup {"leased", "delivered"}
  BY <1>2 DEF HoldsByPlace, LeasesAt, InCallback, AtGate
<1>5. \A t \in Threads : pc[t] \notin Reclaiming \cup {"finalize"}
  BY DEF Finalizer, Ends
<1> QED
  BY <1>1, <1>3, <1>4, <1>5 DEF NothingUsesFreed

LEMMA ReclaimedByOne == LifeInv => OneReclaimer
<1> SUFFICES ASSUME LifeInv PROVE OneReclaimer
  OBVIOUS
<1> DEFINE S == {t \in Threads : pc[t] \in Reclaiming \cup {"finalize"}}
<1>1. \A t, u \in S : t = u
  BY DEF LifeInv, Finalizer, OneEnds, Ends
<1>2. Cardinality(S) <= 1
  <2>1. CASE S = {}
    BY <2>1, FS_EmptySet
  <2>2. CASE S # {}
    <3>1. PICK t : t \in S
      BY <2>2
    <3>2. S = {t}
      BY <1>1, <3>1
    <3> QED
      BY <3>2, FS_Singleton
  <2> QED
    BY <2>1, <2>2
<1>3. \A w \in Workers : pc[w] \notin Reclaiming
  BY PlaceFacts DEF Ends
<1> QED
  BY <1>2, <1>3 DEF OneReclaimer

\* A deleted agent is referenced by nobody, one thread at most reclaims it, nobody calls Studio
\* back after a destroy from outside returned, and a model-task callback is given an object of the
\* current account, whatever the number of Studio's threads, of tasks and of account changes
\* (AgentLifetime, bambu_network_destroy_agent, run_model_task_request).
THEOREM DestroyIsCleanAlways == LifeSpec => []DestroyIsClean
<1>1. LifeInv => DestroyIsClean
  <2> SUFFICES ASSUME LifeInv PROVE DestroyIsClean
    OBVIOUS
  <2>1. QuietAfterDestroy
    <3>1. freed => \A t \in Threads : pc[t] \notin InCallback
      BY FreedUnused DEF NothingUsesFreed
    <3> QED
      BY <3>1 DEF QuietAfterDestroy, LifeInv, Finalizer, ModelTask
  <2>2. TaskIsCurrent
    BY DEF TaskIsCurrent, LifeInv, ModelTask
  <2> QED
    BY <2>1, <2>2, LifeTyped, FreedUnused, ReclaimedByOne DEF DestroyIsClean
<1> QED
  BY <1>1, LifeInvAlways, PTL
=============================================================================
