--------------------------- MODULE PluginLifetime ---------------------------
(***************************************************************************)
(* The life of the plugin's Agent object in the C++ shim: Studio's threads  *)
(* call into it under a lease, three worker threads of its own (status,     *)
(* firmware, model task) call Studio back, and bambu_network_destroy_agent, *)
(* called from outside or from inside a callback, stops and joins the       *)
(* workers, waits for the leases and frees the object.                      *)
(*                                                                         *)
(* The status worker's wait is split at the point where its predicate was   *)
(* evaluated and the thread does not sleep yet: the notifier does not take  *)
(* its mutex. Studio calls nothing on an agent it knows to be freed.        *)
(***************************************************************************)
EXTENDS Naturals, FiniteSets

CONSTANTS
    Studio,         \* threads of Bambu Studio
    LoggedOut,      \* the status worker waits with a time-out of 2 seconds
    MaxTasks,       \* model tasks Studio asks for
    MaxEpoch        \* changes of the account

ASSUME LifetimeAssumption ==
    /\ IsFiniteSet(Studio) /\ Studio \cap {"status", "firmware", "model", "deferred", "none"} = {}
    /\ LoggedOut \in BOOLEAN /\ MaxTasks \in Nat /\ MaxEpoch \in Nat

Workers == {"status", "firmware", "model"}
Threads == Studio \cup Workers \cup {"deferred"}

VARIABLES
    pc,         \* where each thread is
    held,       \* leases of each thread; their sum is leases_
    life,       \* [requested, started]: destroy_requested_ and finalizer_started_
    gate,       \* thread that holds callback_mutex
    account,    \* thread that holds account_mutex
    epoch,      \* the account as the model task's snapshot sees it
    stop,       \* workers told to stop
    woken,      \* status_wake_generation moved since the status worker read it
    task,       \* [job, busy, count, epoch]: the model-task slot and its request
    told,       \* model tasks whose object was written and whose callback ran
    destroy,    \* "no", "outer", "inner": how destroy was called
    returned,   \* destroy returned to Studio
    freed       \* the Agent was deleted

lifeVars == <<pc, held, life, gate, account, epoch, stop, woken, task, told, destroy, returned, freed>>

Leases == {t \in Threads : held[t] > 0}
InCallback == {"callback", "nested", "returning"}
Reclaiming == {"stop_model", "join_model", "stop_status", "join_status",
               "stop_firmware", "join_firmware", "wait_leases", "delete"}

LifeInit ==
    /\ pc = [t \in Threads |-> CASE t \in Studio -> "out"
                                 [] t = "deferred" -> "unborn"
                                 [] OTHER -> "top"]
    /\ held = [t \in Threads |-> 0]
    /\ life = [requested |-> FALSE, started |-> FALSE]
    /\ gate = "none"
    /\ account = "none"
    /\ epoch = 0
    /\ stop = {}
    /\ woken = FALSE
    /\ task = [job |-> "none", busy |-> FALSE, count |-> 0, epoch |-> 0]
    /\ told = 0
    /\ destroy = "no"
    /\ returned = FALSE
    /\ freed = FALSE

Go(t, there) == pc' = [pc EXCEPT ![t] = there]

\* AgentLifetime::acquire succeeds.
Acquire(t) == /\ ~life.requested
              /\ held' = [held EXCEPT ![t] = @ + 1]

\* What release() answers to thread t, whose last lease goes.
LastLease(t) == /\ life.requested
                /\ ~life.started
                /\ Leases = {t}
                /\ held[t] = 1

\* Mutant: the finalizer runs on the worker that released the last lease.
ReleaseInline(t, after) ==
    /\ held' = [held EXCEPT ![t] = @ - 1]
    /\ pc' = IF LastLease(t) THEN [pc EXCEPT ![t] = "finalize"] ELSE [pc EXCEPT ![t] = after]

\* ~AgentCallLease: the last lease of a destroyed agent starts the finalizer,
\* on a thread of its own when a worker holds it.
Release(t, after) ==
    /\ held' = [held EXCEPT ![t] = @ - 1]
    /\ pc' = IF ~LastLease(t) THEN [pc EXCEPT ![t] = after]
             ELSE IF t \in Workers THEN [pc EXCEPT ![t] = after, !["deferred"] = "finalize"]
             ELSE [pc EXCEPT ![t] = "finalize"]

-----------------------------------------------------------------------------
(* Studio's calls. *)

\* An ABI function enters: AgentAccess takes the lease or the call fails.
StudioCalls(t) ==
    /\ t \in Studio
    /\ pc[t] = "out"
    /\ ~freed /\ destroy # "outer" /\ ~returned
    /\ Acquire(t)
    /\ Go(t, "leased")
    /\ UNCHANGED <<life, gate, account, epoch, stop, woken, task, told, destroy, returned, freed>>

\* bambu_network_get_subtask with a model task: enqueue_model_task.
EnqueueModelTask(t) ==
    /\ t \in Studio
    /\ pc[t] = "leased"
    /\ task.count < MaxTasks
    /\ ~task.busy
    /\ "model" \notin stop
    /\ task' = [task EXCEPT !.job = "queued", !.busy = TRUE, !.count = @ + 1]
    /\ UNCHANGED <<pc, held, life, gate, account, epoch, stop, woken, told, destroy, returned, freed>>

\* A call that changes the account does so under account_mutex.
ChangeAccount(t) ==
    /\ t \in Studio
    /\ pc[t] = "leased"
    /\ account = "none"
    /\ epoch < MaxEpoch
    /\ epoch' = epoch + 1
    /\ UNCHANGED <<pc, held, life, gate, account, stop, woken, task, told, destroy, returned, freed>>

-----------------------------------------------------------------------------
(* Callbacks: a leased thread invokes Studio under callback_mutex. *)

Callback(t) ==
    /\ t \in Studio \cup {"status", "firmware"}
    /\ pc[t] = "leased"
    /\ gate = "none"
    /\ gate' = t
    /\ Go(t, "callback")
    /\ UNCHANGED <<held, life, account, epoch, stop, woken, task, told, destroy, returned, freed>>

\* Inside a callback Studio calls the plugin again: a nested lease.
NestedCall(t) ==
    /\ pc[t] = "callback"
    /\ Acquire(t)
    /\ Go(t, "nested")
    /\ UNCHANGED <<life, gate, account, epoch, stop, woken, task, told, destroy, returned, freed>>

NestedReturn(t) ==
    /\ pc[t] = "nested"
    /\ Release(t, "returning")
    /\ UNCHANGED <<life, gate, account, epoch, stop, woken, task, told, destroy, returned, freed>>

CallbackReturns(t) ==
    /\ pc[t] \in {"callback", "returning"}
    /\ gate' = "none"
    /\ account' = IF account = t THEN "none" ELSE account
    /\ Go(t, IF t = "model" THEN "unlock" ELSE "delivered")
    /\ UNCHANGED <<held, life, epoch, stop, woken, task, told, destroy, returned, freed>>

\* The call or dispatch ends and its lease is released.
CallReturns(t) ==
    /\ pc[t] \in {"leased", "delivered"}
    /\ Release(t, CASE t \in Studio -> "out" [] t = "status" -> "decide" [] OTHER -> "top")
    /\ UNCHANGED <<life, gate, account, epoch, stop, woken, task, told, destroy, returned, freed>>

-----------------------------------------------------------------------------
(* The status and firmware workers. *)

\* The loop condition; a destroyed agent gives no lease and the loop spins.
WorkerTop(t) ==
    /\ t \in {"status", "firmware"}
    /\ pc[t] = "top"
    /\ woken' = IF t = "status" THEN FALSE ELSE woken
    /\ IF t \in stop THEN Go(t, "exited") /\ UNCHANGED held
       ELSE Acquire(t) /\ Go(t, "leased")
    /\ UNCHANGED <<life, gate, account, epoch, stop, task, told, destroy, returned, freed>>

\* After a dispatch that left nothing to do: the wait's predicate.
StatusChecks ==
    /\ pc["status"] = "decide"
    /\ Go("status", IF "status" \in stop THEN "exited" ELSE IF woken THEN "top" ELSE "committed")
    /\ UNCHANGED <<held, life, gate, account, epoch, stop, woken, task, told, destroy, returned, freed>>

StatusSleeps ==
    /\ pc["status"] = "committed"
    /\ Go("status", "asleep")
    /\ UNCHANGED <<held, life, gate, account, epoch, stop, woken, task, told, destroy, returned, freed>>

StatusTimeout ==
    /\ LoggedOut
    /\ pc["status"] = "asleep"
    /\ Go("status", "top")
    /\ UNCHANGED <<held, life, gate, account, epoch, stop, woken, task, told, destroy, returned, freed>>

\* shim_wake_status_dispatcher: a notification reaches a sleeping thread only.
Notified == IF pc["status"] = "asleep" THEN [pc EXCEPT !["status"] = "top"] ELSE pc

WakeStatus ==
    /\ ~freed
    /\ ~life.started
    /\ woken' = TRUE
    /\ pc' = Notified
    /\ UNCHANGED <<held, life, gate, account, epoch, stop, task, told, destroy, returned, freed>>

-----------------------------------------------------------------------------
(* The model-task worker. *)

TakeTask ==
    /\ pc["model"] = "top"
    /\ "model" \in stop \/ task.job = "queued"
    /\ IF "model" \in stop
       THEN /\ Go("model", "exited")
            /\ task' = [task EXCEPT !.job = "none", !.busy = FALSE]
       ELSE /\ Go("model", "request")
            /\ task' = [task EXCEPT !.job = "none", !.epoch = epoch]
    /\ UNCHANGED <<held, life, gate, account, epoch, stop, woken, told, destroy, returned, freed>>

\* run_model_task_request: the answer of the hub, which needs no lease.
TaskAnswered ==
    /\ pc["model"] = "request"
    /\ \/ Acquire("model") /\ Go("model", "answered")
       \/ Go("model", "done") /\ UNCHANGED held   \* refused, cancelled, malformed, or no lease
    /\ UNCHANGED <<life, gate, account, epoch, stop, woken, task, told, destroy, returned, freed>>

\* callback_mutex, and behind it account_mutex.
TaskTakesGate ==
    /\ pc["model"] = "answered"
    /\ gate = "none"
    /\ gate' = "model"
    /\ Go("model", "gated")
    /\ UNCHANGED <<held, life, account, epoch, stop, woken, task, told, destroy, returned, freed>>

\* Under both of them the checks, then the eight fields and the callback.
TaskGate ==
    /\ pc["model"] = "gated"
    /\ account = "none"
    /\ IF "model" \notin stop /\ task.epoch = epoch
       THEN /\ account' = "model"
            /\ told' = told + 1
            /\ Go("model", "callback")
            /\ UNCHANGED gate
       ELSE gate' = "none" /\ Go("model", "unlock") /\ UNCHANGED <<account, told>>
    /\ UNCHANGED <<held, life, epoch, stop, woken, task, destroy, returned, freed>>

TaskReleases ==
    /\ pc["model"] = "unlock"
    /\ Release("model", "done")
    /\ UNCHANGED <<life, gate, account, epoch, stop, woken, task, told, destroy, returned, freed>>

TaskDone ==
    /\ pc["model"] = "done"
    /\ task' = [task EXCEPT !.busy = FALSE]
    /\ Go("model", "top")
    /\ UNCHANGED <<held, life, gate, account, epoch, stop, woken, told, destroy, returned, freed>>

-----------------------------------------------------------------------------
(* bambu_network_destroy_agent and reclaim_agent. *)

\* A thread without a lease destroys: it reclaims the agent itself.
DestroyOutside(t) ==
    /\ t \in Studio
    /\ pc[t] = "out"
    /\ destroy = "no"
    /\ destroy' = "outer"
    /\ life' = [requested |-> TRUE, started |-> TRUE]
    /\ Go(t, "stop_model")
    /\ UNCHANGED <<held, gate, account, epoch, stop, woken, task, told, returned, freed>>

\* A thread inside a callback only asks for it.
DestroyInside(t) ==
    /\ pc[t] \in InCallback
    /\ destroy = "no"
    /\ destroy' = "inner"
    /\ life' = [life EXCEPT !.requested = TRUE]
    /\ returned' = TRUE
    /\ UNCHANGED <<pc, held, gate, account, epoch, stop, woken, task, told, freed>>

\* finalize_agent_destroy
Finalize(t) ==
    /\ pc[t] = "finalize"
    /\ life' = [life EXCEPT !.started = TRUE]
    /\ Go(t, IF life.started THEN "out" ELSE "stop_model")
    /\ UNCHANGED <<held, gate, account, epoch, stop, woken, task, told, destroy, returned, freed>>

StopModel(t) ==
    /\ pc[t] = "stop_model"
    /\ gate = "none"
    /\ stop' = stop \cup {"model"}
    /\ task' = [task EXCEPT !.job = "none"]
    /\ Go(t, "join_model")
    /\ UNCHANGED <<held, life, gate, account, epoch, woken, told, destroy, returned, freed>>

StopStatus(t) ==
    /\ pc[t] = "stop_status"
    /\ stop' = stop \cup {"status"}
    /\ woken' = TRUE
    /\ pc' = [Notified EXCEPT ![t] = "join_status"]
    /\ UNCHANGED <<held, life, gate, account, epoch, task, told, destroy, returned, freed>>

StopFirmware(t) ==
    /\ pc[t] = "stop_firmware"
    /\ stop' = stop \cup {"firmware"}
    /\ Go(t, "join_firmware")
    /\ UNCHANGED <<held, life, gate, account, epoch, woken, task, told, destroy, returned, freed>>

\* A join returns when the thread has ended.
Join(t, at, worker, after) ==
    /\ pc[t] = at
    /\ pc[worker] = "exited"
    /\ Go(t, after)
    /\ UNCHANGED <<held, life, gate, account, epoch, stop, woken, task, told, destroy, returned, freed>>

Joins(t) == \/ Join(t, "join_model", "model", "stop_status")
            \/ Join(t, "join_status", "status", "stop_firmware")
            \/ Join(t, "join_firmware", "firmware", "wait_leases")

\* Mutant: the agent is deleted without waiting for Studio's calls.
WaitForLeasesNot(t) ==
    /\ pc[t] = "wait_leases"
    /\ Go(t, "delete")
    /\ UNCHANGED <<held, life, gate, account, epoch, stop, woken, task, told, destroy, returned, freed>>

WaitForLeases(t) ==
    /\ pc[t] = "wait_leases"
    /\ Leases = {}
    /\ Go(t, "delete")
    /\ UNCHANGED <<held, life, gate, account, epoch, stop, woken, task, told, destroy, returned, freed>>

Delete(t) ==
    /\ pc[t] = "delete"
    /\ freed' = TRUE
    /\ returned' = TRUE
    /\ Go(t, "out")
    /\ UNCHANGED <<held, life, gate, account, epoch, stop, woken, task, told, destroy>>

-----------------------------------------------------------------------------
\* What a thread does by itself once it is inside the plugin.
Step(t) ==
    \/ NestedReturn(t) \/ CallbackReturns(t) \/ CallReturns(t) \/ WorkerTop(t)
    \/ Finalize(t) \/ StopModel(t) \/ StopStatus(t) \/ StopFirmware(t) \/ Joins(t)
    \/ WaitForLeases(t) \/ Delete(t)

LifeNext ==
    \/ \E t \in Threads : \/ Step(t)
                          \/ StudioCalls(t) \/ EnqueueModelTask(t) \/ ChangeAccount(t)
                          \/ Callback(t) \/ NestedCall(t)
                          \/ DestroyOutside(t) \/ DestroyInside(t)
    \/ StatusChecks \/ StatusSleeps \/ StatusTimeout \/ WakeStatus
    \/ TakeTask \/ TaskAnswered \/ TaskTakesGate \/ TaskGate \/ TaskReleases \/ TaskDone

LifeSpec == LifeInit /\ [][LifeNext]_lifeVars

\* Threads run and Studio's callbacks return; a mutex that is contended is
\* taken in the end by the thread that waits for it.
Fairness ==
    /\ \A t \in Threads : WF_lifeVars(Step(t))
    /\ WF_lifeVars(StatusChecks) /\ WF_lifeVars(StatusSleeps) /\ WF_lifeVars(StatusTimeout)
    /\ WF_lifeVars(TakeTask) /\ WF_lifeVars(TaskAnswered) /\ SF_lifeVars(TaskTakesGate) /\ WF_lifeVars(TaskGate)
    /\ WF_lifeVars(TaskReleases) /\ WF_lifeVars(TaskDone)

FairSpec == LifeSpec /\ Fairness

-----------------------------------------------------------------------------
TypeOK ==
    /\ pc \in [Threads -> {"out", "unborn", "top", "leased", "delivered", "decide", "committed", "asleep",
                           "exited", "request", "answered", "gated", "unlock", "done", "finalize"}
                           \cup InCallback \cup Reclaiming]
    /\ held \in [Threads -> 0..2]
    /\ life \in [requested: BOOLEAN, started: BOOLEAN]
    /\ gate \in Threads \cup {"none"}
    /\ account \in Threads \cup {"none"}
    /\ epoch \in 0..MaxEpoch
    /\ stop \subseteq Workers
    /\ woken \in BOOLEAN
    /\ task \in [job: {"none", "queued"}, busy: BOOLEAN, count: 0..MaxTasks, epoch: 0..MaxEpoch]
    /\ told \in 0..MaxTasks
    /\ destroy \in {"no", "outer", "inner"}
    /\ returned \in BOOLEAN
    /\ freed \in BOOLEAN

\* A deleted agent is referenced by nobody: its workers have ended, no lease
\* is held, no thread is about to finalize it again (reclaim_agent's order).
NothingUsesFreed ==
    freed => /\ \A w \in Workers : pc[w] = "exited"
             /\ Leases = {}
             /\ \A t \in Threads : pc[t] \notin Reclaiming \cup InCallback \cup {"finalize", "leased", "delivered"}

\* One thread at most reclaims the agent, and a worker never does: it would
\* join itself (AgentCallLease's detached finalizer).
OneReclaimer ==
    /\ Cardinality({t \in Threads : pc[t] \in Reclaiming \cup {"finalize"}}) <= 1
    /\ \A w \in Workers : pc[w] \notin Reclaiming

\* Once a destroy called from outside has returned, Studio is called back
\* by nobody; and once the workers' gate was closed no model task reports.
QuietAfterDestroy ==
    /\ destroy = "outer" /\ returned => \A t \in Threads : pc[t] \notin InCallback
    /\ "model" \in stop => pc["model"] \notin InCallback

\* While the model task's callback runs, the object it was given belongs to
\* the account that is current: both gates are held from the check on.
TaskIsCurrent == pc["model"] \in InCallback => task.epoch = epoch /\ task.busy

\* A deleted agent is referenced by nobody, one thread at most reclaims it, after a destroy from
\* outside returned nobody calls Studio back, and the object a model-task callback is given is of
\* the current account (shim_agent_lifetime.hpp, shim_abi_user.hpp, shim_model_task.hpp).
DestroyIsClean ==
    TypeOK /\ NothingUsesFreed /\ OneReclaimer /\ QuietAfterDestroy /\ TaskIsCurrent

\* What docs/compatibility/bambu-studio-plugin.md says of every destroy: no
\* callback starts after it returned.
NoCallbackAfterDestroy ==
    [][returned => \A t \in Threads : pc'[t] \in InCallback => pc[t] \in InCallback]_lifeVars

\* stop_status_heartbeat notifies without status_thread_mutex: a worker that has evaluated its
\* predicate and does not wait yet misses it, and without a time-out nobody wakes it again.
StatusMissedStop == ~LoggedOut /\ "status" \in stop /\ pc["status"] \in {"committed", "asleep"}

\* A destroy, from outside or from inside a callback, ends with the agent deleted; signed in, where
\* the status worker waits without a time-out, it ends unless that worker missed its notification.
DestroyEnds == life.requested ~> (freed \/ StatusMissedStop)

\* The slot of the model task is given back: get_subtask works again.
SlotReturns == task.busy ~> ~task.busy

=============================================================================
