--------------------------- MODULE AccountCallbacks ---------------------------
(***************************************************************************)
(* How account changes of the plugin reach Studio: a change is applied      *)
(* under the account lock and queues its callbacks, any thread then drains  *)
(* the queue, one at a time; the printer cache is only read by requests     *)
(* admitted for the present account.                                        *)
(***************************************************************************)
EXTENDS Naturals, Sequences

CONSTANTS Threads,     \* threads of Studio that change the account or read the cache
          Actions,     \* the kinds of account changes that happen
          MaxChanges,  \* bound: account changes
          MaxFrames,   \* bound: changes of the printer cache
          MaxQueue     \* bound: callbacks waiting

\* MUTATION_REPLACE comes from a bootstrap ("boot") or from a load or a refresh ("replace"),
\* MUTATION_CLEAR from the logout of a session ("logout") or of none ("clear").
Mutations == {"boot", "replace", "login", "logout", "clear", "httpError", "hub", "servers",
              "restoreFailure"}
CallbackAssumption == Actions \subseteq Mutations /\ MaxChanges \in Nat /\ MaxFrames \in Nat

VARIABLES acct,      \* the account: its token, its epoch
          pending,   \* account_transition_pending
          queue,     \* callbacks of the account session
          draining,  \* a thread drains them
          th,        \* where a thread is and what it holds
          told,      \* the login state Studio was told last
          last,      \* the last change of the account, or "late" for an announcement after it
          admitted,  \* printer_cache_admission_pending
          printers,  \* printer_epoch: changes with every change of the cache
          cache,     \* printers_fresh, and whether the printers are those of the present account
          answered   \* what the last request that was answered as current had copied

vars == <<acct, pending, queue, draining, th, told, last, admitted, printers, cache, answered>>
cacheVars == <<admitted, printers, cache, answered>>

NoCallback == [kind |-> "none", epoch |-> 0, token |-> 0, login |-> "none", guard |-> "none",
               error |-> FALSE]
Idle == [pc |-> "idle", cb |-> NoCallback, result |-> "none", acct |-> 0, printers |-> 0,
         copy |-> "none"]

TypeOK ==
    /\ acct \in [token : 0..2, epoch : Nat] /\ pending \in BOOLEAN /\ draining \in BOOLEAN
    /\ \A t \in Threads : th[t].pc \in {"idle", "result", "drain", "pop", "transition", "finish",
                                        "match", "notify", "error", "clear", "serve", "finalize"}
    /\ told \in {"none", "in", "out"} /\ last \in Mutations \cup {"none", "late"}
    /\ admitted \in BOOLEAN /\ printers \in Nat /\ cache \in [fresh : BOOLEAN, own : BOOLEAN]

Init ==
    /\ acct = [token |-> 0, epoch |-> 0] /\ pending = FALSE /\ queue = <<>> /\ draining = FALSE
    /\ th = [t \in Threads |-> Idle] /\ told = "none" /\ last = "none" /\ admitted = FALSE
    /\ printers = 0 /\ cache = [fresh |-> FALSE, own |-> FALSE] /\ answered = "none"

Go(t, pc) == th' = [th EXCEPT ![t].pc = pc]

\* What requests have copied is no longer what is cached, or no longer of the account.
Outdated(f) == [t \in Threads |-> [f[t] EXCEPT !.copy = IF @ = "none" THEN @ ELSE "past"]]

-----------------------------------------------------------------------------
(* apply_mutation, under the account lock.                                   *)

\* read_replacement: what the account becomes.  Token 0 is no token; a session the hub issues is
\* not the one it replaces.
NewToken(m) == CASE m \in {"boot", "replace", "login", "restoreFailure"} ->
                        IF acct.token = 1 THEN 2 ELSE 1
                 [] m = "httpError" -> acct.token
                 [] OTHER -> 0

\* The conditions of the transactions: everything but a logout needs an account at rest, and what
\* brings an account back or moves to other servers an empty one.
Admits(m) ==
    /\ m \notin {"logout", "clear"} => ~pending
    /\ m \in {"clear", "boot", "servers", "restoreFailure"} => acct.token = 0
    /\ m = "logout" => acct.token # 0

\* Bound: changes, changes of the cache, callbacks waiting.
Room == acct.epoch < MaxChanges /\ printers < MaxChanges + MaxFrames /\ Len(queue) < MaxQueue
Transits(m) == m \notin {"boot", "replace", "httpError"}

\* The callback a change queues: the notification, the account it must still be, the error.
Queued(m, a) ==
    LET cb == [kind |-> "transition", epoch |-> a.epoch, token |-> a.token, login |-> "none",
               guard |-> "any", error |-> FALSE]
    IN  CASE m = "login" -> <<[cb EXCEPT !.login = "in"]>>
          [] m = "logout" -> <<[cb EXCEPT !.login = "out", !.guard = "same"]>>
          [] m = "clear" -> <<[cb EXCEPT !.guard = "same"]>>
          [] m \in {"hub", "servers"} -> <<cb>>
          [] m = "restoreFailure" -> <<[cb EXCEPT !.login = "in", !.guard = "same", !.error = TRUE]>>
          [] m = "httpError" -> <<[NoCallback EXCEPT !.kind = "error"]>>
          [] OTHER -> <<>>

\* begin_account_transition and sync_sessions clear the cache, or leave it stale: it is not served
\* before the stream of the new account has filled it.
Apply(t, m) ==
    LET a == [token |-> NewToken(m),
              epoch |-> IF Transits(m) THEN acct.epoch + 1 ELSE acct.epoch]
        f == [th EXCEPT ![t].pc = IF m = "boot" THEN "result" ELSE "drain",
                        ![t].result = IF m = "boot" THEN "login" ELSE "none"]
    IN  /\ th[t].pc = "idle" /\ m \in Actions /\ Admits(m) /\ Room
        /\ acct' = a
        /\ queue' = queue \o Queued(m, a)
        /\ pending' = (pending \/ Transits(m))
        /\ IF m = "httpError"
           THEN th' = f /\ UNCHANGED <<last, printers, cache>>
           ELSE /\ th' = Outdated(f) /\ last' = m
                /\ printers' = printers + 1 /\ cache' = [fresh |-> FALSE, own |-> FALSE]
        /\ UNCHANGED <<draining, told, admitted, answered>>

\* A bootstrap that commits nothing: it failed and is to be reported, or there was nothing to do.
BootstrapFails(t, report) ==
    /\ th[t].pc = "idle" /\ "boot" \in Actions /\ Room
    /\ th' = [th EXCEPT ![t].pc = "result", ![t].result = IF report THEN "error" ELSE "none"]
    /\ UNCHANGED <<acct, pending, queue, draining, told, last, cacheVars>>

\* apply_lifecycle_result, after the account lock was released: the login is announced whatever
\* has become of the account since.
LifecycleResult(t) ==
    LET cb == CASE th[t].result = "login" -> <<[NoCallback EXCEPT !.kind = "login", !.login = "in"]>>
                [] th[t].result = "error" -> <<[NoCallback EXCEPT !.kind = "error"]>>
                [] OTHER -> <<>>
    IN  /\ th[t].pc = "result"
        /\ queue' = queue \o cb
        /\ th' = [th EXCEPT ![t].pc = "drain", ![t].result = "none"]
        /\ last' = IF th[t].result # "login" THEN last
                   ELSE IF acct.token # 0 THEN "boot" ELSE "late"
        /\ UNCHANGED <<acct, pending, draining, told, cacheVars>>

-----------------------------------------------------------------------------
(* pandar_plugin_account_session_drain.                                      *)

\* Mutant: a second thread drains beside the first.
DrainBeside(t) ==
    /\ th[t].pc = "drain" /\ draining' = TRUE /\ Go(t, "pop")
    /\ UNCHANGED <<acct, pending, queue, told, last, cacheVars>>

Drain(t) ==
    /\ th[t].pc = "drain" /\ draining' = TRUE /\ Go(t, IF draining THEN "idle" ELSE "pop")
    /\ UNCHANGED <<acct, pending, queue, told, last, cacheVars>>

Pop(t) ==
    /\ th[t].pc = "pop"
    /\ IF queue = <<>> THEN Go(t, "clear") /\ UNCHANGED queue
       ELSE /\ queue' = Tail(queue)
            /\ th' = [th EXCEPT ![t].cb = Head(queue),
                                ![t].pc = CASE Head(queue).kind = "transition" -> "transition"
                                            [] Head(queue).kind = "error" -> "error"
                                            [] OTHER -> "notify"]
    /\ UNCHANGED <<acct, pending, draining, told, last, cacheVars>>

\* The waiting transition and offline notices are dispatched, then the transition is finished.
DispatchTransition(t) ==
    /\ th[t].pc = "transition" /\ Go(t, "finish")
    /\ UNCHANGED <<acct, pending, queue, draining, told, last, cacheVars>>
FinishTransition(t) ==
    /\ th[t].pc = "finish" /\ Go(t, "match")
    /\ pending' = (pending /\ acct.epoch # th[t].cb.epoch)
    /\ UNCHANGED <<acct, queue, draining, told, last, cacheVars>>

\* ExpectedAccount::matches
MatchesView(cb) == ~pending /\ acct.epoch = cb.epoch /\ acct.token = cb.token

Match(t) ==
    /\ th[t].pc = "match"
    /\ Go(t, IF th[t].cb.guard = "any" \/ MatchesView(th[t].cb) THEN "notify" ELSE "pop")
    /\ UNCHANGED <<acct, pending, queue, draining, told, last, cacheVars>>

\* invoke_user_login, then the error of a failed restore if the account is still the same.
Notify(t) ==
    /\ th[t].pc = "notify"
    /\ told' = IF th[t].cb.login = "none" THEN told ELSE th[t].cb.login
    /\ Go(t, IF th[t].cb.error /\ MatchesView(th[t].cb) THEN "error" ELSE "pop")
    /\ UNCHANGED <<acct, pending, queue, draining, last, cacheVars>>
HttpError(t) ==
    /\ th[t].pc = "error" /\ Go(t, "pop")
    /\ UNCHANGED <<acct, pending, queue, draining, told, last, cacheVars>>

ClearDraining(t) ==
    /\ th[t].pc = "clear" /\ draining' = FALSE /\ th' = [th EXCEPT ![t] = Idle]
    /\ UNCHANGED <<acct, pending, queue, told, last, cacheVars>>

-----------------------------------------------------------------------------
(* pandar_plugin_core_printer_refresh: print-info and background requests.   *)

\* The stream of the account fills or changes the cache (PluginConnection!CacheOfAccount).
CacheChanges ==
    /\ MaxFrames > 0 /\ printers < MaxChanges + MaxFrames /\ acct.token # 0
    /\ printers' = printers + 1 /\ cache' = [fresh |-> TRUE, own |-> TRUE]
    /\ th' = Outdated(th)
    /\ UNCHANGED <<acct, pending, queue, draining, told, last, admitted, answered>>

\* The account is captured first; it may have changed when the request is admitted.
BeginAdmission(t) ==
    /\ MaxFrames > 0 /\ th[t].pc = "idle" /\ ~pending /\ ~admitted
    /\ admitted' = TRUE /\ th' = [th EXCEPT ![t].pc = "serve", ![t].acct = acct.epoch]
    /\ UNCHANGED <<acct, pending, queue, draining, told, last, printers, cache, answered>>

\* A fresh projection is copied, or the wait for one ends and the guard gives the admission back.
Serve(t, found) ==
    /\ th[t].pc = "serve"
    /\ IF found
       THEN /\ cache.fresh
            /\ th' = [th EXCEPT ![t].pc = "finalize", ![t].printers = printers,
                                ![t].copy = IF cache.own THEN "present" ELSE "past"]
            /\ UNCHANGED admitted
       ELSE th' = [th EXCEPT ![t] = Idle] /\ admitted' = FALSE
    /\ UNCHANGED <<acct, pending, queue, draining, told, last, printers, cache, answered>>

SnapshotCurrent(t) == ~pending /\ acct.epoch = th[t].acct /\ printers = th[t].printers

Finalize(t) ==
    /\ th[t].pc = "finalize"
    /\ answered' = IF SnapshotCurrent(t) THEN th[t].copy ELSE answered
    /\ admitted' = FALSE /\ th' = [th EXCEPT ![t] = Idle]
    /\ UNCHANGED <<acct, pending, queue, draining, told, last, printers, cache>>

-----------------------------------------------------------------------------
Delivery(t) == \/ Drain(t) \/ Pop(t) \/ DispatchTransition(t) \/ FinishTransition(t) \/ Match(t)
               \/ Notify(t) \/ HttpError(t) \/ ClearDraining(t)
Next ==
    \/ CacheChanges
    \/ \E t \in Threads :
          \/ \E m \in Actions : Apply(t, m)
          \/ (\E report \in BOOLEAN : BootstrapFails(t, report)) \/ LifecycleResult(t)
          \/ Delivery(t)
          \/ BeginAdmission(t) \/ (\E f \in BOOLEAN : Serve(t, f)) \/ Finalize(t)

Spec == Init /\ [][Next]_vars

-----------------------------------------------------------------------------
Quiet == \A t \in Threads : th[t].pc = "idle"

\* Once every callback is delivered, Studio was told the login state of the account if the last
\* change was one that announces itself, although the changes were made and the callbacks delivered
\* by different threads.  A load, a refresh, a change of the hub and the logout of an empty account
\* announce nothing, and the announcement of a bootstrap may come after the account it is about.
Announced == {"login", "logout", "restoreFailure", "boot"}
ToldTheAccount ==
    Quiet /\ queue = <<>> /\ last \in Announced => told = IF acct.token # 0 THEN "in" ELSE "out"

\* Once every callback is delivered, no account transition is pending: dispatch is admitted again.
TransitionEnds == Quiet /\ queue = <<>> => ~pending

\* What a request answers as current are the printers that are cached at that moment, and they are
\* those of the account that is signed in.
ServedPresent == answered # "past"

\* One request at a time is admitted to the cache, and none leaves the admission behind.
AdmissionOwned ==
    LET inside == {t \in Threads : th[t].pc \in {"serve", "finalize"}}
    IN  (admitted <=> inside # {}) /\ \A t, u \in inside : t = u

\* "reentrant_login_callback_is_drained_after_the_current_callback": a callback queued while
\* another thread drains is delivered by it.
NothingLeftQueued == Quiet => queue = <<>>
=============================================================================
