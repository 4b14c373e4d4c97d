---------------------------- MODULE AccountLogout ----------------------------
(***************************************************************************)
(* The logout coordinator of the network plugin (connection/account_logout):*)
(* an atomic word with a generation and a phase, a map of outcomes under a  *)
(* mutex, and a condition variable.  One caller owns a logout; requested    *)
(* callers join it as followers, and turn a passive logout into a requested *)
(* one as long as it is not sealed; passive callers return at once.         *)
(*                                                                          *)
(* Every load, compare-exchange and store of the word, and every            *)
(* acquisition of the mutex, is a step of its own.  A wait on the condition *)
(* variable releases the mutex and ends at a notify_all.                    *)
(***************************************************************************)
EXTENDS Naturals, FiniteSets

CONSTANTS
    Threads, None,
    MaxGen,     \* bound: logouts of the session
    MaxCalls    \* bound: calls of a thread

LogoutAssumption == IsFiniteSet(Threads) /\ None \notin Threads /\ MaxGen \in Nat /\ MaxCalls \in Nat

VARIABLES
    word,      \* the state word: generation and phase
    lock,      \* the thread inside the mutex, or None
    comp,      \* completions: generation -> followers and outcome; followers = 0 is no entry
    asleep,    \* threads waiting on the condition variable
    th,        \* what a thread is doing
    calls,     \* calls a thread has made
    sealed     \* how the work of a generation was sealed

vars == <<word, lock, comp, asleep, th, calls, sealed>>

Phases == {"idle", "passiveActive", "requestedActive", "passiveFinalizing",
           "requestedFinalizing", "passiveCommitted", "requestedCommitted"}
Requested == {"requestedActive", "requestedFinalizing", "requestedCommitted"}
Outcomes == {"done", "aborted"}

Word(g, ph) == [gen |-> g, phase |-> ph]
NoEntry == [followers |-> 0, outcome |-> "none"]
Idle == [pc |-> "idle", req |-> FALSE, obs |-> Word(0, "idle"), gen |-> 0, out |-> "none",
         sealReq |-> FALSE, back |-> "none"]

\* Every variable has its type.
TypeOK ==
    /\ word.gen \in 0..MaxGen /\ word.phase \in Phases
    /\ lock \in Threads \cup {None} /\ asleep \subseteq Threads
    /\ \A g \in 1..MaxGen : comp[g].followers \in 0..Cardinality(Threads)
    /\ calls \in [Threads -> 0..MaxCalls]
    /\ sealed \in [1..MaxGen -> {"none", "passive", "requested"}]

Init ==
    /\ word = Word(0, "idle") /\ lock = None /\ asleep = {}
    /\ comp = [g \in 1..MaxGen |-> NoEntry]
    /\ th = [t \in Threads |-> Idle] /\ calls = [t \in Threads |-> 0]
    /\ sealed = [g \in 1..MaxGen |-> "none"]

Go(t, r) == th' = [th EXCEPT ![t] = r]
At(t, pc) == Go(t, [th[t] EXCEPT !.pc = pc])
Owner(t) == th[t].pc \in {"work", "finLoad", "finCas", "sealLoad", "sealCas", "complete",
                          "reLoad", "reCas"}

-------------------------------------------------------------------------------
(* begin_account_logout                                                     *)

Call(t, req) ==
    /\ th[t].pc = "idle" /\ calls[t] < MaxCalls
    /\ calls' = [calls EXCEPT ![t] = @ + 1]
    /\ Go(t, [Idle EXCEPT !.pc = "load", !.req = req])
    /\ UNCHANGED <<word, lock, comp, asleep, sealed>>

\* begin: the word is loaded; a passive caller of a busy session is answered at once.
Load(t) ==
    LET w == word IN
    /\ th[t].pc = "load"
    /\ CASE w.phase = "idle" -> w.gen < MaxGen /\ Go(t, [th[t] EXCEPT !.pc = "own", !.obs = w])
         [] w.phase # "idle" /\ th[t].req -> Go(t, [th[t] EXCEPT !.pc = "join", !.obs = w])
         [] OTHER -> Go(t, Idle)
    /\ UNCHANGED <<word, lock, comp, asleep, calls, sealed>>

\* The compare-exchange of an idle word makes its caller the owner.
Own(t) ==
    LET o == th[t].obs IN
    /\ th[t].pc = "own"
    /\ IF word = o
       THEN /\ word' = Word(o.gen + 1, IF th[t].req THEN "requestedActive" ELSE "passiveActive")
            /\ Go(t, [th[t] EXCEPT !.pc = "work", !.gen = o.gen + 1])
       ELSE At(t, "load") /\ UNCHANGED word
    /\ UNCHANGED <<lock, comp, asleep, calls, sealed>>

\* What a requested caller finds once it has the mutex.
Joinable(o, w) ==
    IF o.phase \in Requested THEN w.gen = o.gen /\ w.phase \in Requested ELSE w = o

Registered(g) == [comp EXCEPT ![g].followers = @ + 1]

\* unregister_follower
Unregistered(g) == IF comp[g].followers = 1 THEN [comp EXCEPT ![g] = NoEntry]
                                            ELSE [comp EXCEPT ![g].followers = @ - 1]

\* A requested logout is joined; a passive one is registered with first and upgraded next; for one
\* that is committed the caller sleeps.
Join(t) ==
    LET o == th[t].obs IN
    /\ th[t].pc = "join" /\ lock = None
    /\ CASE ~Joinable(o, word) -> At(t, "load") /\ UNCHANGED <<lock, comp, asleep>>
         [] Joinable(o, word) /\ o.phase \in Requested ->
              /\ comp' = Registered(o.gen)
              /\ asleep' = {}
              /\ Go(t, [th[t] EXCEPT !.pc = "wait", !.gen = o.gen]) /\ UNCHANGED lock
         [] Joinable(o, word) /\ o.phase = "passiveCommitted" ->
              At(t, "sleep") /\ asleep' = asleep \cup {t} /\ UNCHANGED <<lock, comp>>
         [] OTHER -> /\ comp' = Registered(o.gen) /\ lock' = t
                     /\ Go(t, [th[t] EXCEPT !.pc = "upgrade", !.gen = o.gen])
                     /\ UNCHANGED asleep
    /\ UNCHANGED <<word, calls, sealed>>

Upgraded(ph) == IF ph = "passiveActive" THEN "requestedActive" ELSE "requestedFinalizing"

\* Mutant: an upgrade is not compared with the word that was observed.
UpgradeStore(t) ==
    LET o == th[t].obs IN
    /\ th[t].pc = "upgrade" /\ lock' = None /\ asleep' = {}
    /\ word' = Word(o.gen, Upgraded(o.phase)) /\ At(t, "wait")
    /\ UNCHANGED <<comp, calls, sealed>>

\* The upgrade of the observed word, still under the mutex.
Upgrade(t) ==
    LET o == th[t].obs IN
    /\ th[t].pc = "upgrade" /\ lock' = None
    /\ IF word = o
       THEN /\ word' = Word(o.gen, Upgraded(o.phase)) /\ asleep' = {}
            /\ At(t, "wait") /\ UNCHANGED comp
       ELSE comp' = Unregistered(o.gen) /\ At(t, "load") /\ UNCHANGED <<word, asleep>>
    /\ UNCHANGED <<calls, sealed>>

\* wait_while: the committed word is looked at again after each notification.
Sleep(t) ==
    /\ th[t].pc = "sleep" /\ t \notin asleep /\ lock = None
    /\ IF word = th[t].obs THEN asleep' = asleep \cup {t} /\ UNCHANGED th
                           ELSE At(t, "load") /\ UNCHANGED asleep
    /\ UNCHANGED <<word, lock, comp, calls, sealed>>

\* AccountLogoutFollower::wait takes the outcome of its own generation.
Wait(t) ==
    LET g == th[t].gen IN
    /\ th[t].pc = "wait" /\ t \notin asleep /\ lock = None
    /\ IF comp[g].outcome # "none"
       THEN /\ comp' = Unregistered(g) /\ UNCHANGED asleep
            /\ Go(t, [th[t] EXCEPT !.pc = "answered", !.out = comp[g].outcome])
       ELSE asleep' = asleep \cup {t} /\ UNCHANGED <<comp, th>>
    /\ UNCHANGED <<word, lock, calls, sealed>>

Return(t) ==
    /\ th[t].pc = "answered" /\ Go(t, Idle)
    /\ UNCHANGED <<word, lock, comp, asleep, calls, sealed>>

-------------------------------------------------------------------------------
(* The owner: its work, and the callbacks that may log out again.           *)

\* A logout from inside the owner's own work only upgrades the word (upgrade_reentrant).
Reenter(t) ==
    /\ th[t].pc \in {"work", "sealLoad"} /\ calls[t] < MaxCalls
    /\ calls' = [calls EXCEPT ![t] = @ + 1]
    /\ Go(t, [th[t] EXCEPT !.pc = "reLoad", !.back = th[t].pc])
    /\ UNCHANGED <<word, lock, comp, asleep, sealed>>

ReenterLoad(t) ==
    /\ th[t].pc = "reLoad"
    /\ Go(t, [th[t] EXCEPT !.obs = word,
                 !.pc = IF word.phase \in {"passiveActive", "passiveFinalizing"} THEN "reCas"
                                                                                 ELSE th[t].back])
    /\ UNCHANGED <<word, lock, comp, asleep, calls, sealed>>

ReenterCas(t) ==
    LET o == th[t].obs IN
    /\ th[t].pc = "reCas"
    /\ IF word = o THEN word' = Word(o.gen, Upgraded(o.phase)) /\ At(t, th[t].back)
                   ELSE At(t, "reLoad") /\ UNCHANGED word
    /\ UNCHANGED <<lock, comp, asleep, calls, sealed>>

\* The transaction is over, or the owner is dropped (abort takes the same three steps).
Work(t, out) ==
    /\ th[t].pc = "work"
    /\ Go(t, [th[t] EXCEPT !.pc = "finLoad", !.out = out])
    /\ UNCHANGED <<word, lock, comp, asleep, calls, sealed>>

\* begin_finalization
FinLoad(t) ==
    /\ th[t].pc = "finLoad"
    /\ Go(t, [th[t] EXCEPT !.obs = word,
                 !.pc = IF word.gen = th[t].gen
                           /\ word.phase \in {"passiveActive", "requestedActive"}
                        THEN "finCas" ELSE "sealLoad"])
    /\ UNCHANGED <<word, lock, comp, asleep, calls, sealed>>

Finalizing(ph) == IF ph = "passiveActive" THEN "passiveFinalizing" ELSE "requestedFinalizing"

FinCas(t) ==
    LET o == th[t].obs IN
    /\ th[t].pc = "finCas"
    /\ IF word = o THEN word' = Word(o.gen, Finalizing(o.phase)) /\ At(t, "sealLoad")
                   ELSE At(t, "finLoad") /\ UNCHANGED word
    /\ UNCHANGED <<lock, comp, asleep, calls, sealed>>

\* seal_finalization: from here on a request is no longer merged into this logout.
SealLoad(t) ==
    /\ th[t].pc = "sealLoad"
    /\ Go(t, [th[t] EXCEPT !.obs = word,
                 !.pc = IF word.gen = th[t].gen
                           /\ word.phase \in {"passiveFinalizing", "requestedFinalizing"}
                        THEN "sealCas" ELSE "complete"])
    /\ UNCHANGED <<word, lock, comp, asleep, calls, sealed>>

SealCas(t) ==
    LET o == th[t].obs req == o.phase = "requestedFinalizing" IN
    /\ th[t].pc = "sealCas"
    /\ IF word = o
       THEN /\ word' = Word(o.gen, IF req THEN "requestedCommitted" ELSE "passiveCommitted")
            /\ sealed' = [sealed EXCEPT ![o.gen] = IF req THEN "requested" ELSE "passive"]
            /\ Go(t, [th[t] EXCEPT !.pc = "complete", !.sealReq = req])
       ELSE At(t, "sealLoad") /\ UNCHANGED <<word, sealed>>
    /\ UNCHANGED <<lock, comp, asleep, calls>>

\* complete: outcome, word and wake-up under the mutex.
Complete(t) ==
    LET g == th[t].gen IN
    /\ th[t].pc = "complete" /\ lock = None
    /\ comp' = IF th[t].sealReq /\ comp[g].followers > 0
               THEN [comp EXCEPT ![g].outcome = th[t].out] ELSE comp
    /\ word' = Word(g, "idle")
    /\ asleep' = {}
    /\ Go(t, Idle)
    /\ UNCHANGED <<lock, calls, sealed>>

-------------------------------------------------------------------------------
Step(t) ==
    \/ Load(t) \/ Own(t) \/ Join(t) \/ Upgrade(t) \/ Sleep(t) \/ Wait(t) \/ Return(t)
    \/ ReenterLoad(t) \/ ReenterCas(t) \/ FinLoad(t) \/ FinCas(t) \/ SealLoad(t) \/ SealCas(t)
    \/ Complete(t) \/ \E o \in Outcomes : Work(t, o)

Next == \E t \in Threads : Step(t) \/ Reenter(t) \/ \E req \in BOOLEAN : Call(t, req)

\* A thread inside a call goes on: it holds no other lock and every wait is notified.
Fairness == \A t \in Threads : WF_vars(Step(t))

Spec == Init /\ [][Next]_vars
FairSpec == Spec /\ Fairness

-------------------------------------------------------------------------------
(* Properties.                                                              *)

\* Two threads never run the logout work of one session at a time (AccountLogoutOwner).
OneOwner == \A s, t \in Threads : Owner(s) /\ Owner(t) => s = t

\* The logout that a requested caller joined is never sealed as a passive one: a request that
\* arrives while a passive logout finalizes is not merged into work that revokes nothing.
RequestHonoured ==
    \A t \in Threads : th[t].pc \in {"wait", "answered"} => sealed[th[t].gen] # "passive"

\* The completions map has exactly the callers that still wait for their outcome: nothing is left
\* behind, and no waiting caller's entry is removed under it (the expect of wait).
CompletionsExact ==
    \A g \in 1..MaxGen :
        comp[g].followers = Cardinality({t \in Threads : th[t].gen = g
                                                         /\ th[t].pc \in {"upgrade", "wait"}})

\* A sleeping follower's logout is still running: complete wakes everyone it answers.
NoLostWakeup ==
    \A t \in asleep : IF th[t].pc = "wait" THEN comp[th[t].gen].outcome = "none"
                                           ELSE word = th[t].obs

\* A logout is run by one owner, as what its callers asked for, and every caller that waits for it
\* is counted and woken.
LogoutSafe == TypeOK /\ OneOwner /\ RequestHonoured /\ CompletionsExact /\ NoLostWakeup

\* Every call returns.
CallsReturn == \A t \in Threads : th[t].pc # "idle" ~> th[t].pc = "idle"

===============================================================================
