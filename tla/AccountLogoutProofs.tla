------------------------- MODULE AccountLogoutProofs -------------------------
(***************************************************************************)
(* Proofs about the logout coordinator for any number of threads, calls and *)
(* generations.  LogoutInv is inductive: the owner's generation is the one  *)
(* of the word, whoever waits for a logout waits for one that is requested  *)
(* or over, and a sleeper's word can only be changed by the step that wakes *)
(* it.                                                                      *)
(***************************************************************************)
EXTENDS AccountLogout, FiniteSetTheorems, TLAPS

PCs == {"idle", "load", "own", "join", "upgrade", "sleep", "wait", "answered", "work", "finLoad",
        "finCas", "sealLoad", "sealCas", "complete", "reLoad", "reCas"}
WordType == [gen : 0..MaxGen, phase : Phases]
ThreadType ==
    [pc : PCs, req : BOOLEAN, obs : WordType, gen : 0..MaxGen, out : Outcomes \cup {"none"},
     sealReq : BOOLEAN, back : {"none", "work", "sealLoad"}]

Active == {"passiveActive", "requestedActive"}
Final == {"passiveFinalizing", "requestedFinalizing"}
Upgradable == {"passiveActive", "passiveFinalizing"}

\* The types, with those of the threads.
LogoutTypes ==
    /\ word \in WordType /\ lock \in Threads \cup {None} /\ asleep \in SUBSET Threads
    /\ comp \in [1..MaxGen -> [followers : Int, outcome : Outcomes \cup {"none"}]]
    /\ th \in [Threads -> ThreadType] /\ calls \in [Threads -> 0..MaxCalls]
    /\ sealed \in [1..MaxGen -> {"none", "passive", "requested"}]

\* What a thread has observed when it is about to act on it.
Observed(t) ==
    /\ th[t].obs.phase # "idle" => th[t].obs.gen \in 1..MaxGen
    /\ th[t].pc = "own" => th[t].obs.phase = "idle" /\ th[t].obs.gen + 1 \in 1..MaxGen
    /\ th[t].pc = "join" => th[t].obs.phase # "idle"
    /\ th[t].pc = "upgrade" => th[t].obs.phase \in Upgradable /\ th[t].gen = th[t].obs.gen
    /\ th[t].pc = "sleep" => th[t].obs.phase = "passiveCommitted"
    /\ th[t].pc = "finCas" => th[t].obs.gen = th[t].gen /\ th[t].obs.phase \in Active
    /\ th[t].pc = "sealCas" => th[t].obs.gen = th[t].gen /\ th[t].obs.phase \in Final
    /\ th[t].pc = "reCas" => th[t].obs.phase \in Upgradable
    /\ th[t].pc \in {"reLoad", "reCas"} => th[t].back \in {"work", "sealLoad"}
    /\ th[t].pc \in {"wait", "answered"} => th[t].gen \in 1..MaxGen

\* The word belongs to the owner.
OwnerHasWord(t) == Owner(t) => word.phase # "idle" /\ word.gen = th[t].gen /\ th[t].gen \in 1..MaxGen

\* A caller that waits, or was answered, joined a logout that is requested or
\* over by now.
JoinedRequested(t) ==
    th[t].pc \in {"wait", "answered"} =>
        \/ word.gen > th[t].gen
        \/ word.gen = th[t].gen /\ word.phase \in Requested \cup {"idle"}

\* A logout that was sealed as passive is past its finalization.
SealedPast(g) ==
    sealed[g] = "passive" =>
        \/ word.gen > g
        \/ word.gen = g /\ word.phase \in {"passiveCommitted", "idle"}

\* Who sleeps waits for an outcome or for the end of a committed logout.
Sleeper(t) ==
    t \in asleep =>
        \/ th[t].pc = "wait" /\ comp[th[t].gen].outcome = "none"
        \/ th[t].pc = "sleep" /\ word = th[t].obs

WordStarted == word.phase # "idle" => word.gen \in 1..MaxGen

LogoutInv ==
    /\ LogoutTypes /\ WordStarted /\ OneOwner
    /\ \A t \in Threads : Observed(t) /\ OwnerHasWord(t) /\ JoinedRequested(t) /\ Sleeper(t)
    /\ \A g \in 1..MaxGen : SealedPast(g)

----------------------------------------------------------------------------
(* What a step of thread t leaves to the other threads                      *)

\* How the word moves: an idle one is taken, the owner or an upgrade moves an
\* uncommitted one within its generation and never back from requested, and the
\* owner's completion, which wakes everyone, makes it idle.
WordMoves(t) ==
    \/ word' = word
    \/ word.phase = "idle" /\ word'.gen = word.gen + 1 /\ word'.phase # "idle"
    \/ /\ word'.gen = word.gen /\ word.phase \in Active \cup Final /\ word'.phase # "idle"
       /\ word.phase \in Requested => word'.phase \in Requested
    \/ word' = Word(word.gen, "idle") /\ asleep' = {} /\ Owner(t)

\* Nobody else falls asleep, and no outcome is set that is not announced.
SleepMoves(t) ==
    \A s \in asleep' \ {t} :
        /\ s \in asleep
        /\ th[s].pc = "wait" => comp'[th[s].gen].outcome \in {comp[th[s].gen].outcome, "none"}

\* The thread's own part of the invariant, after its step.
OwnPart(t) == Observed(t) /\ OwnerHasWord(t) /\ JoinedRequested(t) /\ Sleeper(t)

\* A step that moves the word legally and is right for its own thread is right
\* for every thread.
LEMMA Frame ==
    ASSUME LogoutAssumption, LogoutInv, LogoutTypes', NEW t \in Threads,
           \A s \in Threads : s # t => th'[s] = th[s],
           WordMoves(t), SleepMoves(t), OwnPart(t)',
           Owner(t)' => Owner(t) \/ word.phase = "idle"
    PROVE  /\ WordStarted' /\ OneOwner'
           /\ \A s \in Threads : OwnPart(s)'
           /\ sealed' = sealed => \A g \in 1..MaxGen : SealedPast(g)'
<1>0. /\ word.gen \in Nat /\ word'.gen \in 0..MaxGen /\ MaxGen \in Nat
      /\ \A s \in Threads : th[s].gen \in Nat
  BY DEF LogoutInv, LogoutTypes, WordType, ThreadType, LogoutAssumption
<1>1. LogoutTypes /\ WordStarted /\ OneOwner /\ \A s \in Threads : OwnPart(s)
  BY DEF LogoutInv, OwnPart
<1>2. WordStarted'
  BY <1>0, <1>1 DEF WordMoves, WordStarted, Word, Active, Final
<1>3. ASSUME NEW s \in Threads, s # t PROVE Observed(s)'
  BY <1>1, <1>3 DEF OwnPart, Observed
<1>4. ASSUME NEW s \in Threads, s # t PROVE OwnerHasWord(s)'
  <2> SUFFICES ASSUME Owner(s) PROVE word'.phase # "idle" /\ word'.gen = th[s].gen /\ th[s].gen \in 1..MaxGen
    BY <1>4 DEF OwnerHasWord, Owner
  <2>1. word.phase # "idle" /\ word.gen = th[s].gen /\ th[s].gen \in 1..MaxGen
    BY <1>1 DEF OwnPart, OwnerHasWord
  <2>2. ~Owner(t)
    BY <1>1, <1>4 DEF OneOwner
  <2> QED
    BY <2>1, <2>2 DEF WordMoves
<1>5. ASSUME NEW s \in Threads, s # t PROVE JoinedRequested(s)'
  <2> SUFFICES ASSUME th[s].pc \in {"wait", "answered"}
               PROVE  \/ word'.gen > th[s].gen
                      \/ word'.gen = th[s].gen /\ word'.phase \in Requested \cup {"idle"}
    BY <1>5 DEF JoinedRequested
  <2>1. \/ word.gen > th[s].gen
        \/ word.gen = th[s].gen /\ word.phase \in Requested \cup {"idle"}
    BY <1>1 DEF OwnPart, JoinedRequested
  <2> QED
    BY <1>0, <2>1 DEF WordMoves, Word, Active, Final
<1>6. ASSUME NEW s \in Threads, s # t PROVE Sleeper(s)'
  <2> SUFFICES ASSUME s \in asleep'
               PROVE  \/ th[s].pc = "wait" /\ comp'[th[s].gen].outcome = "none"
                      \/ th[s].pc = "sleep" /\ word' = th[s].obs
    BY <1>6 DEF Sleeper
  <2>1. /\ s \in asleep
        /\ th[s].pc = "wait" => comp'[th[s].gen].outcome \in {comp[th[s].gen].outcome, "none"}
    BY <1>6 DEF SleepMoves
  <2>2. \/ th[s].pc = "wait" /\ comp[th[s].gen].outcome = "none"
        \/ th[s].pc = "sleep" /\ word = th[s].obs
    BY <1>1, <2>1 DEF OwnPart, Sleeper
  <2>3. CASE th[s].pc = "wait"
    BY <2>1, <2>2, <2>3
  <2>4. CASE th[s].pc = "sleep" /\ word = th[s].obs
    <3>1. word.phase = "passiveCommitted"
      BY <1>1, <2>4 DEF OwnPart, Observed
    <3>2. word' = word
      BY <3>1 DEF WordMoves, Active, Final
    <3> QED
      BY <2>4, <3>2
  <2> QED
    BY <2>2, <2>3, <2>4
<1>7. OneOwner'
  <2> SUFFICES ASSUME NEW s \in Threads, NEW r \in Threads, Owner(s)', Owner(r)', s # r PROVE FALSE
    BY DEF OneOwner
  <2>1. \A u \in Threads : u # t => (Owner(u)' => Owner(u))
    BY DEF Owner
  <2>2. \A u \in Threads : Owner(u) => word.phase # "idle"
    BY <1>1 DEF OwnPart, OwnerHasWord
  <2> QED
    BY <1>1, <2>1, <2>2 DEF OneOwner
<1>8. ASSUME NEW g \in 1..MaxGen, sealed' = sealed PROVE SealedPast(g)'
  <2> SUFFICES ASSUME sealed[g] = "passive"
               PROVE  \/ word'.gen > g
                      \/ word'.gen = g /\ word'.phase \in {"passiveCommitted", "idle"}
    BY <1>8 DEF SealedPast
  <2>1. \/ word.gen > g
        \/ word.gen = g /\ word.phase \in {"passiveCommitted", "idle"}
    BY DEF LogoutInv, SealedPast
  <2> QED
    BY <1>0, <2>1 DEF WordMoves, Word, Active, Final
<1> QED
  BY <1>2, <1>3, <1>4, <1>5, <1>6, <1>7, <1>8 DEF OwnPart

----------------------------------------------------------------------------
(* One lemma per kind of step                                               *)

\* A thread outside the coordinator is well typed.
LEMMA IdleTyped == ASSUME LogoutAssumption PROVE Idle \in ThreadType
  BY DEF Idle, ThreadType, PCs, WordType, Word, Phases, Outcomes, LogoutAssumption

\* A thread that is replaced by a well-typed one leaves the others alone.
LEMMA GoMoves ==
    ASSUME LogoutTypes, NEW t \in Threads, NEW r \in ThreadType, Go(t, r)
    PROVE  /\ th' \in [Threads -> ThreadType] /\ th'[t] = r
           /\ \A s \in Threads : s # t => th'[s] = th[s]
  BY DEF LogoutTypes, Go

\* Who sleeps is at the condition variable.
LEMMA SleepersWait ==
    ASSUME LogoutInv, NEW t \in Threads, th[t].pc \notin {"wait", "sleep"}
    PROVE  t \notin asleep
  BY DEF LogoutInv, Sleeper

\* A step that only moves its own thread, which neither waits nor becomes owner.
LEMMA Quiet ==
    ASSUME LogoutAssumption, LogoutInv, NEW t \in Threads, NEW r \in ThreadType, Go(t, r),
           UNCHANGED <<word, lock, comp, asleep, sealed>>, calls' \in [Threads -> 0..MaxCalls],
           th[t].pc \notin {"wait", "sleep"}, r.pc \notin {"wait", "sleep"},
           Owner(t)' => Owner(t) /\ r.gen = th[t].gen,
           r.pc = "answered" => FALSE, Observed(t)'
    PROVE  LogoutInv'
<1>1. LogoutTypes
  BY DEF LogoutInv
<1>2. /\ th' \in [Threads -> ThreadType] /\ th'[t] = r
      /\ \A s \in Threads : s # t => th'[s] = th[s]
  BY <1>1, GoMoves
<1>3. LogoutTypes'
  BY <1>1, <1>2 DEF LogoutTypes
<1>4. WordMoves(t) /\ SleepMoves(t)
  BY DEF WordMoves, SleepMoves
<1>5. OwnPart(t)'
  <2>1. Sleeper(t)' /\ JoinedRequested(t)'
    BY <1>2, SleepersWait DEF Sleeper, JoinedRequested
  <2>2. OwnerHasWord(t)'
    BY <1>2 DEF LogoutInv, OwnerHasWord
  <2> QED
    BY <2>1, <2>2 DEF OwnPart
<1> QED
  BY <1>2, <1>3, <1>4, <1>5, Frame DEF LogoutInv, OwnPart

\* A step that may move word, map and sleepers, of a thread outside the waits
\* or inside them.
LEMMA Moving ==
    ASSUME LogoutAssumption, LogoutInv, NEW t \in Threads, NEW r \in ThreadType, Go(t, r),
           UNCHANGED <<calls, sealed>>, word' \in WordType, lock' \in Threads \cup {None},
           asleep' \in SUBSET Threads,
           comp' \in [1..MaxGen -> [followers : Int, outcome : Outcomes \cup {"none"}]],
           WordMoves(t), SleepMoves(t), Owner(t)' => Owner(t) \/ word.phase = "idle", OwnPart(t)'
    PROVE  LogoutInv'
<1>1. LogoutTypes
  BY DEF LogoutInv
<1>2. /\ th' \in [Threads -> ThreadType]
      /\ \A s \in Threads : s # t => th'[s] = th[s]
  BY <1>1, GoMoves
<1>3. LogoutTypes'
  BY <1>1, <1>2 DEF LogoutTypes
<1> QED
  BY <1>2, <1>3, Frame DEF LogoutInv, OwnPart

\* A call begins, or is made by the owner's own callbacks.
LEMMA CallStep ==
    ASSUME LogoutAssumption, LogoutInv, NEW t \in Threads,
           (\E req \in BOOLEAN : Call(t, req)) \/ Reenter(t)
    PROVE  LogoutInv'
<1>0. LogoutTypes /\ Observed(t)
  BY DEF LogoutInv
<1>1. ASSUME NEW req \in BOOLEAN, Call(t, req) PROVE LogoutInv'
  <2>4. calls' \in [Threads -> 0..MaxCalls]
    <3>1. calls[t] < MaxCalls /\ calls' = [calls EXCEPT ![t] = @ + 1]
      BY <1>1, Zenon DEF Call
    <3>2. calls \in [Threads -> 0..MaxCalls] /\ MaxCalls \in Nat
      BY <1>0 DEF LogoutTypes, LogoutAssumption
    <3>3. calls[t] \in 0..MaxCalls
      BY <3>2
    <3>4. calls[t] + 1 \in 0..MaxCalls
      BY <3>1, <3>2, <3>3
    <3> QED
      BY <3>1, <3>2, <3>4
  <2> DEFINE r == [Idle EXCEPT !.pc = "load", !.req = req]
  <2>1. r \in ThreadType
    BY IdleTyped DEF ThreadType, PCs
  <2>2. th'[t] = r /\ Go(t, r)
    BY <1>0, <1>1, <2>1, GoMoves DEF Call
  <2>3. Observed(t)' /\ ~Owner(t)'
    BY <2>2 DEF Observed, Owner, Idle, Word
  <2> QED
    BY <1>1, <2>1, <2>2, <2>3, <2>4, Quiet DEF Call, Idle
<1>2. CASE Reenter(t)
  <2> DEFINE r == [th[t] EXCEPT !.pc = "reLoad", !.back = th[t].pc]
  <2>1. r \in ThreadType
    BY <1>0, <1>2 DEF Reenter, LogoutTypes, ThreadType, PCs
  <2>2. th'[t] = r /\ Go(t, r) /\ Owner(t) /\ r.gen = th[t].gen /\ r.pc = "reLoad" /\ r.obs = th[t].obs
        /\ r.back \in {"work", "sealLoad"}
    BY <1>0, <1>2, <2>1, GoMoves DEF Reenter, Owner, LogoutTypes, ThreadType
  <2>3. Observed(t)'
    BY <1>0, <2>2 DEF Observed
  <2>4. calls' \in [Threads -> 0..MaxCalls]
    BY <1>0, <1>2 DEF Reenter, LogoutTypes, LogoutAssumption
  <2> QED
    BY <1>2, <2>1, <2>2, <2>3, <2>4, Quiet DEF Reenter
<1> QED
  BY <1>1, <1>2

\* Loads of the word, the work itself and the return of an answered caller.
LEMMA LoadStep ==
    ASSUME LogoutAssumption, LogoutInv, NEW t \in Threads,
           Load(t) \/ Return(t) \/ ReenterLoad(t) \/ FinLoad(t) \/ SealLoad(t)
             \/ \E out \in Outcomes : Work(t, out)
    PROVE  LogoutInv'
<1>0. /\ LogoutTypes /\ Observed(t) /\ WordStarted /\ th[t] \in ThreadType /\ word \in WordType
      /\ OwnerHasWord(t)
  BY DEF LogoutInv, LogoutTypes
<1>1. Idle \in ThreadType
  BY IdleTyped
<1>2. \A r \in ThreadType : Go(t, r) => th'[t] = r
  BY <1>0, GoMoves
<1>3. CASE Go(t, Idle) /\ (Load(t) \/ Return(t))
  <2>1. th'[t] = Idle
    BY <1>1, <1>2, <1>3
  <2>2. Observed(t)' /\ ~Owner(t)'
    BY <2>1 DEF Observed, Owner, Idle, Word
  <2> QED
    BY <1>0, <1>1, <1>3, <2>2, Quiet DEF Load, Return, Idle, LogoutTypes
<1>4. CASE Load(t) /\ ~Go(t, Idle)
  <2>1. PICK pc \in {"own", "join"} :
          /\ Go(t, [th[t] EXCEPT !.pc = pc, !.obs = word])
          /\ pc = "own" => word.phase = "idle" /\ word.gen < MaxGen
          /\ pc = "join" => word.phase # "idle"
    BY <1>4 DEF Load
  <2> DEFINE r == [th[t] EXCEPT !.pc = pc, !.obs = word]
  <2>2. r \in ThreadType /\ r.pc = pc /\ r.obs = word
    BY <1>0 DEF ThreadType, PCs
  <2>3. th'[t] = r
    BY <1>2, <2>1, <2>2
  <2>4. Observed(t)' /\ ~Owner(t)'
    BY <1>0, <2>1, <2>2, <2>3 DEF Observed, Owner, WordStarted, WordType, LogoutAssumption
  <2> QED
    BY <1>0, <1>4, <2>1, <2>2, <2>4, Quiet DEF Load, LogoutTypes
<1>5. CASE ReenterLoad(t) \/ FinLoad(t) \/ SealLoad(t)
  <2>1. PICK pc \in {"reCas", "work", "finCas", "sealLoad", "sealCas", "complete"} :
          /\ Go(t, [th[t] EXCEPT !.obs = word, !.pc = pc])
          /\ pc = "reCas" => word.phase \in Upgradable /\ th[t].pc = "reLoad"
          /\ pc = "finCas" => word.gen = th[t].gen /\ word.phase \in Active
          /\ pc = "sealCas" => word.gen = th[t].gen /\ word.phase \in Final
    <3>1. CASE ReenterLoad(t)
      BY <1>0, <3>1 DEF ReenterLoad, Upgradable, Observed
    <3>2. CASE FinLoad(t)
      BY <3>2 DEF FinLoad, Active
    <3>3. CASE SealLoad(t)
      BY <3>3 DEF SealLoad, Final
    <3> QED
      BY <1>5, <3>1, <3>2, <3>3
  <2> DEFINE r == [th[t] EXCEPT !.obs = word, !.pc = pc]
  <2>2. r \in ThreadType /\ r.pc = pc /\ r.obs = word /\ r.gen = th[t].gen /\ r.back = th[t].back
    BY <1>0 DEF ThreadType, PCs
  <2>3. th'[t] = r
    BY <1>2, <2>1, <2>2
  <2> HIDE DEF r
  <2>4. Owner(t) /\ th[t].pc \notin {"wait", "sleep"}
    BY <1>5 DEF ReenterLoad, FinLoad, SealLoad, Owner
  <2>5. Observed(t)'
    BY <1>0, <2>1, <2>2, <2>3 DEF Observed, WordStarted
  <2>6. UNCHANGED <<word, lock, comp, asleep, sealed, calls>>
    BY <1>5 DEF ReenterLoad, FinLoad, SealLoad
  <2>7. Go(t, r)
    BY <2>1 DEF r
  <2> QED
    BY <1>0, <2>1, <2>2, <2>4, <2>5, <2>6, <2>7, Quiet DEF LogoutTypes
<1>6. ASSUME NEW out \in Outcomes, Work(t, out) PROVE LogoutInv'
  <2> DEFINE r == [th[t] EXCEPT !.pc = "finLoad", !.out = out]
  <2>1. r \in ThreadType /\ r.pc = "finLoad" /\ r.obs = th[t].obs /\ r.gen = th[t].gen
    BY <1>0 DEF ThreadType, PCs
  <2>2. Go(t, r) /\ Owner(t)
    BY <1>6 DEF Work, Owner
  <2>3. th'[t] = r
    BY <1>2, <2>1, <2>2
  <2> HIDE DEF r
  <2>4. Observed(t)'
    BY <1>0, <2>1, <2>3 DEF Observed
  <2> QED
    BY <1>0, <1>6, <2>1, <2>2, <2>4, Quiet DEF Work, LogoutTypes
<1> QED
  BY <1>3, <1>4, <1>5, <1>6 DEF Return

\* What the compare-exchanges of the word have in common: the word is the one
\* observed and moves within its generation, or the thread loads it again.
LEMMA CasStep ==
    ASSUME LogoutAssumption, LogoutInv, NEW t \in Threads,
           Own(t) \/ ReenterCas(t) \/ FinCas(t)
    PROVE  LogoutInv'
<1>0. /\ LogoutTypes /\ Observed(t) /\ WordStarted /\ th[t] \in ThreadType /\ word \in WordType
      /\ OwnerHasWord(t) /\ comp \in [1..MaxGen -> [followers : Int, outcome : Outcomes \cup {"none"}]]
      /\ lock \in Threads \cup {None} /\ asleep \in SUBSET Threads
  BY DEF LogoutInv, LogoutTypes
<1>1. t \notin asleep /\ UNCHANGED <<lock, comp, asleep, calls, sealed>>
  BY SleepersWait DEF Own, ReenterCas, FinCas
<1>2. SleepMoves(t)
  BY <1>1 DEF SleepMoves
<1>3. CASE word # th[t].obs
  <2>1. PICK pc \in {"load", "reLoad", "finLoad"} :
          /\ Go(t, [th[t] EXCEPT !.pc = pc]) /\ word' = word
          /\ pc # "load" => Owner(t)
          /\ pc = "reLoad" => th[t].pc = "reCas"
    BY <1>3 DEF Own, ReenterCas, FinCas, At, Owner
  <2> DEFINE r == [th[t] EXCEPT !.pc = pc]
  <2>2. /\ r \in ThreadType /\ r.pc = pc /\ r.obs = th[t].obs /\ r.gen = th[t].gen
        /\ r.back = th[t].back
    BY <1>0 DEF ThreadType, PCs
  <2>3. th'[t] = r
    BY <1>0, <2>1, <2>2, GoMoves
  <2> HIDE DEF r
  <2>4. Observed(t)' /\ (Owner(t)' => Owner(t))
    BY <1>0, <2>1, <2>2, <2>3 DEF Observed, Owner
  <2>5. OwnerHasWord(t)' /\ Sleeper(t)' /\ JoinedRequested(t)'
    BY <1>0, <1>1, <2>1, <2>2, <2>3, <2>4 DEF OwnerHasWord, Sleeper, JoinedRequested
  <2>6. Go(t, r) /\ WordMoves(t)
    BY <2>1 DEF WordMoves, r
  <2> QED
    BY <1>0, <1>1, <1>2, <2>1, <2>2, <2>4, <2>5, <2>6, Moving DEF OwnPart
<1>4. CASE word = th[t].obs /\ Own(t)
  <2> DEFINE g == th[t].obs.gen + 1
             r == [th[t] EXCEPT !.pc = "work", !.gen = g]
  <2>1. g \in 1..MaxGen /\ word.phase = "idle" /\ g = word.gen + 1
    BY <1>0, <1>4 DEF Own, Observed
  <2>2. PICK ph \in Active : word' = Word(g, ph) /\ Go(t, r)
    BY <1>4 DEF Own, Active
  <2>3. word' \in WordType /\ word'.gen = g /\ word'.phase # "idle"
    BY <2>1, <2>2 DEF Word, WordType, Active, Phases
  <2>4. r \in ThreadType /\ r.pc = "work" /\ r.obs = th[t].obs /\ r.gen = g
    <3>1. g \in 0..MaxGen
      BY <2>1 DEF LogoutAssumption
    <3> HIDE DEF g
    <3> QED
      BY <1>0, <3>1 DEF ThreadType, PCs
  <2>5. th'[t] = r
    BY <1>0, <2>2, <2>4, GoMoves
  <2> HIDE DEF r, g
  <2>6. Observed(t)' /\ OwnerHasWord(t)' /\ Sleeper(t)' /\ JoinedRequested(t)'
    BY <1>0, <1>1, <2>1, <2>3, <2>4, <2>5
    DEF Observed, OwnerHasWord, Sleeper, JoinedRequested
  <2>7. WordMoves(t)
    BY <2>1, <2>3 DEF WordMoves
  <2> QED
    BY <1>0, <1>1, <1>2, <2>1, <2>2, <2>3, <2>4, <2>6, <2>7, Moving DEF OwnPart
<1>5. CASE word = th[t].obs /\ (ReenterCas(t) \/ FinCas(t))
  <2>0. Owner(t) /\ word.phase # "idle" /\ word.gen = th[t].gen /\ th[t].gen \in 1..MaxGen
    BY <1>0, <1>5 DEF ReenterCas, FinCas, Owner, OwnerHasWord
  <2>1. PICK ph \in Active \cup Final, pc \in {"work", "sealLoad"} :
          /\ word' = Word(word.gen, ph) /\ Go(t, [th[t] EXCEPT !.pc = pc])
          /\ word.phase \in Requested => ph \in Requested
          /\ word.phase \in Active \cup Final
    <3>1. CASE ReenterCas(t)
      <4>1. word.phase \in Upgradable /\ th[t].back \in {"work", "sealLoad"}
        BY <1>0, <1>5, <3>1 DEF ReenterCas, Observed
      <4>2. word' = Word(word.gen, Upgraded(word.phase)) /\ Go(t, [th[t] EXCEPT !.pc = th[t].back])
        BY <1>5, <3>1 DEF ReenterCas, At
      <4>3. Upgraded(word.phase) \in Active \cup Final /\ word.phase \in Active \cup Final
            /\ word.phase \notin Requested
        BY <4>1 DEF Upgraded, Upgradable, Active, Final, Requested
      <4> QED
        BY <4>1, <4>2, <4>3
    <3>2. CASE FinCas(t)
      <4>1. word.phase \in Active
        BY <1>0, <1>5, <3>2 DEF FinCas, Observed
      <4>2. word' = Word(word.gen, Finalizing(word.phase)) /\ Go(t, [th[t] EXCEPT !.pc = "sealLoad"])
        BY <1>5, <3>2 DEF FinCas, At
      <4>3. /\ Finalizing(word.phase) \in Active \cup Final /\ word.phase \in Active \cup Final
            /\ word.phase \in Requested => Finalizing(word.phase) \in Requested
        BY <4>1 DEF Finalizing, Active, Final, Requested
      <4> QED
        BY <4>2, <4>3
    <3> QED
      BY <1>5, <3>1, <3>2
  <2> DEFINE r == [th[t] EXCEPT !.pc = pc]
  <2>2. word' \in WordType /\ word'.gen = word.gen /\ word'.phase = ph /\ ph # "idle"
    BY <1>0, <2>1 DEF Word, WordType, Active, Final, Phases
  <2>3. r \in ThreadType /\ r.pc = pc /\ r.obs = th[t].obs /\ r.gen = th[t].gen
    BY <1>0 DEF ThreadType, PCs
  <2>4. th'[t] = r
    BY <1>0, <2>1, <2>3, GoMoves
  <2>5. Go(t, r)
    BY <2>1
  <2> HIDE DEF r
  <2>6. Observed(t)' /\ OwnerHasWord(t)' /\ Sleeper(t)' /\ JoinedRequested(t)'
    BY <1>0, <1>1, <2>0, <2>2, <2>3, <2>4
    DEF Observed, OwnerHasWord, Sleeper, JoinedRequested
  <2>7. WordMoves(t)
    BY <2>1, <2>2 DEF WordMoves
  <2> QED
    BY <1>0, <1>1, <1>2, <2>0, <2>2, <2>3, <2>5, <2>6, <2>7, Moving DEF OwnPart
<1> QED
  BY <1>3, <1>4, <1>5

\* The finalization is sealed.  Whoever waits for this generation waits for a
\* requested one, so that a passive seal betrays nobody.
LEMMA SealStep ==
    ASSUME LogoutAssumption, LogoutInv, NEW t \in Threads, SealCas(t)
    PROVE  LogoutInv'
<1>0. /\ LogoutTypes /\ Observed(t) /\ WordStarted /\ th[t] \in ThreadType /\ word \in WordType
      /\ OwnerHasWord(t) /\ Owner(t) /\ MaxGen \in Nat
  BY DEF LogoutInv, LogoutTypes, SealCas, Owner, LogoutAssumption
<1>1. t \notin asleep /\ UNCHANGED <<lock, comp, asleep, calls>>
  BY SleepersWait DEF SealCas
<1>2. SleepMoves(t)
  BY <1>1 DEF SleepMoves
<1>3. CASE word # th[t].obs
  <2> DEFINE r == [th[t] EXCEPT !.pc = "sealLoad"]
  <2>1. Go(t, r) /\ UNCHANGED <<word, sealed>>
    BY <1>3 DEF SealCas, At
  <2>2. r \in ThreadType /\ r.pc = "sealLoad" /\ r.obs = th[t].obs /\ r.gen = th[t].gen
    BY <1>0 DEF ThreadType, PCs
  <2>3. th'[t] = r
    BY <1>0, <2>1, <2>2, GoMoves
  <2> HIDE DEF r
  <2>4. Observed(t)'
    BY <1>0, <2>2, <2>3 DEF Observed
  <2>5. th[t].pc = "sealCas" /\ calls' \in [Threads -> 0..MaxCalls]
    BY <1>0, <1>1 DEF SealCas, LogoutTypes
  <2> QED
    BY <1>0, <1>1, <2>1, <2>2, <2>4, <2>5, Quiet
<1>4. CASE word = th[t].obs
  <2>0. word.phase \in Final /\ word.gen = th[t].gen /\ th[t].gen \in 1..MaxGen /\ word.gen \in 1..MaxGen
    BY <1>0, <1>4 DEF SealCas, Observed, OwnerHasWord
  <2>1. PICK kind \in {"requested", "passive"} :
          /\ kind = "requested" <=> word.phase = "requestedFinalizing"
          /\ word' = Word(word.gen, IF kind = "requested" THEN "requestedCommitted" ELSE "passiveCommitted")
          /\ sealed' = [sealed EXCEPT ![word.gen] = kind]
          /\ Go(t, [th[t] EXCEPT !.pc = "complete", !.sealReq = (kind = "requested")])
    <3>1. CASE word.phase = "requestedFinalizing"
      BY <1>4, <3>1 DEF SealCas
    <3>2. CASE word.phase # "requestedFinalizing"
      BY <1>4, <3>2 DEF SealCas
    <3> QED
      BY <3>1, <3>2
  <2> DEFINE r == [th[t] EXCEPT !.pc = "complete", !.sealReq = (kind = "requested")]
  <2>2. /\ word' \in WordType /\ word'.gen = word.gen /\ word'.phase # "idle"
        /\ kind = "passive" => word'.phase = "passiveCommitted"
        /\ word.phase \in Requested => word'.phase \in Requested
    BY <1>0, <2>0, <2>1 DEF Word, WordType, Phases, Final, Requested
  <2>3. r \in ThreadType /\ r.pc = "complete" /\ r.obs = th[t].obs /\ r.gen = th[t].gen
    BY <1>0 DEF ThreadType, PCs
  <2>4. /\ th' \in [Threads -> ThreadType] /\ th'[t] = r
        /\ \A s \in Threads : s # t => th'[s] = th[s]
    BY <1>0, <2>1, <2>3, GoMoves
  <2> HIDE DEF r
  <2>5. sealed' \in [1..MaxGen -> {"none", "passive", "requested"}]
    BY <1>0, <2>0, <2>1 DEF LogoutTypes
  <2>6. LogoutTypes'
    BY <1>0, <1>1, <2>2, <2>4, <2>5 DEF LogoutTypes
  <2>7. Observed(t)' /\ OwnerHasWord(t)' /\ Sleeper(t)' /\ JoinedRequested(t)'
    BY <1>0, <1>1, <2>0, <2>2, <2>3, <2>4
    DEF Observed, OwnerHasWord, Sleeper, JoinedRequested
  <2>8. WordMoves(t)
    BY <2>0, <2>2 DEF WordMoves
  <2>9. ASSUME NEW g \in 1..MaxGen PROVE SealedPast(g)'
    <3>1. CASE g = word.gen
      BY <1>0, <2>0, <2>1, <2>2, <3>1 DEF SealedPast, LogoutTypes
    <3>2. CASE g # word.gen
      <4>1. sealed'[g] = sealed[g]
        BY <1>0, <2>0, <2>1, <3>2 DEF LogoutTypes
      <4> QED
        BY <2>2, <3>2, <4>1 DEF SealedPast, LogoutInv
    <3> QED
      BY <3>1, <3>2
  <2> QED
    BY <1>0, <1>2, <2>4, <2>6, <2>7, <2>8, <2>9, Frame DEF LogoutInv, OwnPart
<1> QED
  BY <1>3, <1>4

\* A requested caller registers with a requested logout, or registers and goes
\* on to upgrade a passive one, or sleeps until a committed one is over.
LEMMA JoinStep ==
    ASSUME LogoutAssumption, LogoutInv, NEW t \in Threads, Join(t)
    PROVE  LogoutInv'
<1>0. /\ LogoutTypes /\ Observed(t) /\ WordStarted /\ th[t] \in ThreadType /\ word \in WordType
      /\ comp \in [1..MaxGen -> [followers : Int, outcome : Outcomes \cup {"none"}]]
      /\ lock \in Threads \cup {None} /\ asleep \in SUBSET Threads
  BY DEF LogoutInv, LogoutTypes
<1> DEFINE g == th[t].obs.gen
<1>1. /\ t \notin asleep /\ UNCHANGED <<word, calls, sealed>> /\ g \in 1..MaxGen
      /\ th[t].obs.phase # "idle"
  BY <1>0, SleepersWait DEF Join, Observed
<1>2. WordMoves(t)
  BY <1>1 DEF WordMoves
<1>3. /\ comp' \in [1..MaxGen -> [followers : Int, outcome : Outcomes \cup {"none"}]]
      /\ \A h \in 1..MaxGen : comp'[h].outcome = comp[h].outcome
  <2>1. comp' = comp \/ comp' = Registered(g)
    BY Zenon DEF Join
  <2> HIDE DEF g
  <2>2. CASE comp' = Registered(g)
    <3>1. comp' = [comp EXCEPT ![g] = [comp[g] EXCEPT !.followers = comp[g].followers + 1]]
      BY <1>0, <1>1, <2>2 DEF Registered
    <3>2. /\ [comp[g] EXCEPT !.followers = comp[g].followers + 1]
               \in [followers : Int, outcome : Outcomes \cup {"none"}]
          /\ [comp[g] EXCEPT !.followers = comp[g].followers + 1].outcome = comp[g].outcome
      BY <1>0, <1>1
    <3> QED
      BY <1>0, <1>1, <3>1, <3>2
  <2> QED
    BY <1>0, <2>1, <2>2
<1>4. PICK pc \in {"load", "wait", "sleep", "upgrade"}, h \in {th[t].gen, g} :
        /\ Go(t, [th[t] EXCEPT !.pc = pc, !.gen = h])
        /\ pc = "wait" => h = g /\ word.gen = g /\ word.phase \in Requested /\ asleep' = {}
        /\ pc = "sleep" => word = th[t].obs /\ word.phase = "passiveCommitted"
        /\ pc = "upgrade" => h = g /\ th[t].obs.phase \in Upgradable
        /\ pc \in {"load", "upgrade"} => asleep' = asleep
        /\ pc = "sleep" => asleep' = asleep \cup {t}
        /\ lock' \in Threads \cup {None}
  <2>0. th[t] = [th[t] EXCEPT !.gen = th[t].gen]
    BY <1>0 DEF ThreadType
  <2>1. CASE ~Joinable(th[t].obs, word)
    <3>1. Go(t, [th[t] EXCEPT !.pc = "load"]) /\ UNCHANGED <<lock, asleep>>
      BY <2>1 DEF Join, At
    <3>2. [th[t] EXCEPT !.pc = "load"] = [th[t] EXCEPT !.pc = "load", !.gen = th[t].gen]
      BY <1>0 DEF ThreadType
    <3> QED
      BY <1>0, <3>1, <3>2
  <2>2. CASE Joinable(th[t].obs, word) /\ th[t].obs.phase \in Requested
    <3>0. th[t].obs.phase # "passiveCommitted"
      BY <2>2 DEF Requested
    <3>1. Go(t, [th[t] EXCEPT !.pc = "wait", !.gen = g]) /\ asleep' = {} /\ UNCHANGED lock
      BY <2>2, <3>0, Zenon DEF Join
    <3> QED
      BY <1>0, <2>2, <3>1 DEF Joinable
  <2>3. CASE Joinable(th[t].obs, word) /\ th[t].obs.phase = "passiveCommitted"
    <3>1. Go(t, [th[t] EXCEPT !.pc = "sleep"]) /\ asleep' = asleep \cup {t} /\ UNCHANGED lock
      BY <2>3 DEF Join, At, Requested
    <3>2. [th[t] EXCEPT !.pc = "sleep"] = [th[t] EXCEPT !.pc = "sleep", !.gen = th[t].gen]
      BY <1>0 DEF ThreadType
    <3> QED
      BY <1>0, <2>3, <3>1, <3>2 DEF Joinable, Requested
  <2>4. CASE Joinable(th[t].obs, word) /\ th[t].obs.phase \notin Requested \cup {"passiveCommitted"}
    <3>1. Go(t, [th[t] EXCEPT !.pc = "upgrade", !.gen = g]) /\ lock' = t /\ UNCHANGED asleep
      BY <2>4 DEF Join
    <3>2. th[t].obs.phase \in Upgradable
      BY <1>0, <1>1, <2>4 DEF ThreadType, WordType, Phases, Upgradable, Requested
    <3> QED
      BY <3>1, <3>2
  <2> QED
    BY <2>1, <2>2, <2>3, <2>4
<1> DEFINE r == [th[t] EXCEPT !.pc = pc, !.gen = h]
<1>5. r \in ThreadType /\ r.pc = pc /\ r.obs = th[t].obs /\ r.gen = h
  <2>1. h \in 0..MaxGen
    BY <1>0, <1>1, <1>4 DEF ThreadType, LogoutAssumption
  <2> HIDE DEF g
  <2> QED
    BY <1>0, <2>1 DEF ThreadType, PCs
<1>6. th'[t] = r /\ Go(t, r)
  BY <1>0, <1>4, <1>5, GoMoves
<1> HIDE DEF r, g
<1>7. Observed(t)' /\ ~Owner(t)'
  BY <1>0, <1>1, <1>4, <1>5, <1>6 DEF Observed, Owner, g
<1>8. OwnerHasWord(t)' /\ JoinedRequested(t)'
  BY <1>1, <1>4, <1>5, <1>6, <1>7 DEF OwnerHasWord, JoinedRequested
<1>9. Sleeper(t)'
  BY <1>1, <1>4, <1>5, <1>6 DEF Sleeper
<1>10. SleepMoves(t)
  <2> SUFFICES ASSUME NEW s \in asleep' \ {t}
               PROVE  /\ s \in asleep
                      /\ th[s].pc = "wait" => comp'[th[s].gen].outcome \in {comp[th[s].gen].outcome, "none"}
    BY DEF SleepMoves
  <2>1. s \in asleep /\ s \in Threads
    BY <1>0, <1>4
  <2>2. th[s].pc = "wait" => th[s].gen \in 1..MaxGen
    BY <2>1 DEF LogoutInv, Observed
  <2> QED
    BY <1>3, <2>1, <2>2
<1>11. lock' \in Threads \cup {None} /\ asleep' \in SUBSET Threads
  BY <1>0, <1>4
<1> QED
  BY <1>0, <1>1, <1>2, <1>3, <1>5, <1>6, <1>7, <1>8, <1>9, <1>10, <1>11, Moving DEF OwnPart

\* unregister_follower takes one follower off and sets no outcome.
LEMMA UnregisterTyped ==
    ASSUME NEW g \in 1..MaxGen,
           comp \in [1..MaxGen -> [followers : Int, outcome : Outcomes \cup {"none"}]]
    PROVE  /\ Unregistered(g) \in [1..MaxGen -> [followers : Int, outcome : Outcomes \cup {"none"}]]
           /\ Unregistered(g)[g].followers = comp[g].followers - 1
           /\ \A h \in 1..MaxGen : h # g => Unregistered(g)[h] = comp[h]
           /\ \A h \in 1..MaxGen : Unregistered(g)[h].outcome \in {comp[h].outcome, "none"}
<1>1. CASE comp[g].followers = 1
  BY <1>1 DEF Unregistered, NoEntry
<1>2. CASE comp[g].followers # 1
  <2>1. Unregistered(g) = [comp EXCEPT ![g] = [comp[g] EXCEPT !.followers = comp[g].followers - 1]]
    BY <1>2 DEF Unregistered
  <2>2. /\ [comp[g] EXCEPT !.followers = comp[g].followers - 1]
             \in [followers : Int, outcome : Outcomes \cup {"none"}]
        /\ [comp[g] EXCEPT !.followers = comp[g].followers - 1].outcome = comp[g].outcome
        /\ [comp[g] EXCEPT !.followers = comp[g].followers - 1].followers = comp[g].followers - 1
    OBVIOUS
  <2> QED
    BY <2>1, <2>2
<1> QED
  BY <1>1, <1>2

\* The upgrade of the observed word, or the way back to its load.
LEMMA UpgradeStep ==
    ASSUME LogoutAssumption, LogoutInv, NEW t \in Threads, Upgrade(t)
    PROVE  LogoutInv'
<1>0. /\ LogoutTypes /\ Observed(t) /\ WordStarted /\ th[t] \in ThreadType /\ word \in WordType
      /\ comp \in [1..MaxGen -> [followers : Int, outcome : Outcomes \cup {"none"}]]
      /\ lock \in Threads \cup {None} /\ asleep \in SUBSET Threads
  BY DEF LogoutInv, LogoutTypes
<1>1. /\ t \notin asleep /\ UNCHANGED <<calls, sealed>> /\ lock' \in Threads \cup {None}
      /\ th[t].obs.phase \in Upgradable /\ th[t].gen = th[t].obs.gen /\ th[t].gen \in 1..MaxGen
  BY <1>0, SleepersWait DEF Upgrade, Observed, Upgradable
<1>2. CASE word = th[t].obs
  <2> DEFINE r == [th[t] EXCEPT !.pc = "wait"]
  <2>1. /\ word' = Word(word.gen, Upgraded(word.phase)) /\ asleep' = {} /\ comp' = comp
        /\ Go(t, r)
    BY <1>2 DEF Upgrade, At
  <2>2. /\ word' \in WordType /\ word'.gen = word.gen /\ word'.phase \in Requested
        /\ word'.phase # "idle" /\ word.phase \in Active \cup Final
    BY <1>0, <1>1, <1>2, <2>1
    DEF Word, WordType, Upgraded, Upgradable, Phases, Requested, Active, Final
  <2>3. r \in ThreadType /\ r.pc = "wait" /\ r.obs = th[t].obs /\ r.gen = th[t].gen
    BY <1>0 DEF ThreadType, PCs
  <2>4. th'[t] = r
    BY <1>0, <2>1, <2>3, GoMoves
  <2> HIDE DEF r
  <2>5. Observed(t)' /\ ~Owner(t)' /\ Sleeper(t)' /\ JoinedRequested(t)'
    BY <1>0, <1>1, <1>2, <2>1, <2>2, <2>3, <2>4
    DEF Observed, Owner, Sleeper, JoinedRequested
  <2>6. WordMoves(t) /\ SleepMoves(t)
    BY <2>1, <2>2 DEF WordMoves, SleepMoves
  <2> QED
    BY <1>0, <1>1, <2>1, <2>2, <2>3, <2>5, <2>6, Moving DEF OwnPart, OwnerHasWord
<1>3. CASE word # th[t].obs
  <2> DEFINE r == [th[t] EXCEPT !.pc = "load"]
  <2>1. UNCHANGED <<word, asleep>> /\ comp' = Unregistered(th[t].gen) /\ Go(t, r)
    BY <1>1, <1>3 DEF Upgrade, At
  <2>2. /\ comp' \in [1..MaxGen -> [followers : Int, outcome : Outcomes \cup {"none"}]]
        /\ \A h \in 1..MaxGen : comp'[h].outcome \in {comp[h].outcome, "none"}
    BY <1>0, <1>1, <2>1, UnregisterTyped
  <2>3. r \in ThreadType /\ r.pc = "load" /\ r.obs = th[t].obs /\ r.gen = th[t].gen
    BY <1>0 DEF ThreadType, PCs
  <2>4. th'[t] = r
    BY <1>0, <2>1, <2>3, GoMoves
  <2> HIDE DEF r
  <2>5. Observed(t)' /\ ~Owner(t)' /\ Sleeper(t)' /\ JoinedRequested(t)'
    BY <1>0, <1>1, <2>1, <2>3, <2>4 DEF Observed, Owner, Sleeper, JoinedRequested
  <2>6. WordMoves(t)
    BY <2>1 DEF WordMoves
  <2>7. SleepMoves(t)
    BY <1>0, <2>1, <2>2 DEF SleepMoves, LogoutInv, Observed
  <2> QED
    BY <1>0, <1>1, <2>1, <2>2, <2>3, <2>5, <2>6, <2>7, Moving DEF OwnPart, OwnerHasWord
<1> QED
  BY <1>2, <1>3

\* A notified caller looks at the committed word again.
LEMMA SleepStep ==
    ASSUME LogoutAssumption, LogoutInv, NEW t \in Threads, Sleep(t)
    PROVE  LogoutInv'
<1>0. /\ LogoutTypes /\ Observed(t) /\ th[t] \in ThreadType /\ word \in WordType
      /\ comp \in [1..MaxGen -> [followers : Int, outcome : Outcomes \cup {"none"}]]
      /\ lock \in Threads \cup {None} /\ asleep \in SUBSET Threads
      /\ th \in [Threads -> ThreadType]
  BY DEF LogoutInv, LogoutTypes
<1>1. /\ UNCHANGED <<word, lock, comp, calls, sealed>> /\ t \notin asleep
      /\ asleep' \in SUBSET Threads /\ asleep' \subseteq asleep \cup {t} /\ th[t].pc = "sleep"
  BY <1>0 DEF Sleep
<1>2. PICK pc \in {"sleep", "load"} :
        /\ Go(t, [th[t] EXCEPT !.pc = pc])
        /\ t \in asleep' => pc = "sleep" /\ word = th[t].obs
  <2>1. CASE word = th[t].obs
    <3>1. th' = th
      BY <2>1 DEF Sleep
    <3>2. [th[t] EXCEPT !.pc = "sleep"] = th[t]
      BY <1>0, <1>1 DEF ThreadType
    <3>3. Go(t, [th[t] EXCEPT !.pc = "sleep"])
      BY <1>0, <3>1, <3>2 DEF Go
    <3> QED
      BY <2>1, <3>3
  <2>2. CASE word # th[t].obs
    BY <1>1, <2>2 DEF Sleep, At
  <2> QED
    BY <2>1, <2>2
<1> DEFINE r == [th[t] EXCEPT !.pc = pc]
<1>3. r \in ThreadType /\ r.pc = pc /\ r.obs = th[t].obs /\ r.gen = th[t].gen
  BY <1>0 DEF ThreadType, PCs
<1>4. th'[t] = r /\ Go(t, r)
  BY <1>0, <1>2, <1>3, GoMoves
<1> HIDE DEF r
<1>5. Observed(t)' /\ ~Owner(t)' /\ Sleeper(t)' /\ JoinedRequested(t)'
  BY <1>0, <1>1, <1>2, <1>3, <1>4 DEF Observed, Owner, Sleeper, JoinedRequested
<1>6. WordMoves(t) /\ SleepMoves(t)
  BY <1>1 DEF WordMoves, SleepMoves
<1> QED
  BY <1>0, <1>1, <1>3, <1>4, <1>5, <1>6, Moving DEF OwnPart, OwnerHasWord

\* A follower takes its outcome, or sleeps.
LEMMA WaitStep ==
    ASSUME LogoutAssumption, LogoutInv, NEW t \in Threads, Wait(t)
    PROVE  LogoutInv'
<1>0. /\ LogoutTypes /\ Observed(t) /\ th[t] \in ThreadType /\ word \in WordType
      /\ comp \in [1..MaxGen -> [followers : Int, outcome : Outcomes \cup {"none"}]]
      /\ lock \in Threads \cup {None} /\ asleep \in SUBSET Threads
      /\ th \in [Threads -> ThreadType] /\ JoinedRequested(t)
  BY DEF LogoutInv, LogoutTypes
<1>1. /\ UNCHANGED <<word, lock, calls, sealed>> /\ t \notin asleep
      /\ asleep' \in SUBSET Threads /\ asleep' \subseteq asleep \cup {t} /\ th[t].pc = "wait"
      /\ th[t].gen \in 1..MaxGen
  BY <1>0 DEF Wait, Observed
<1>2. WordMoves(t)
  BY <1>1 DEF WordMoves
<1>3. CASE comp[th[t].gen].outcome # "none"
  <2> DEFINE r == [th[t] EXCEPT !.pc = "answered", !.out = comp[th[t].gen].outcome]
  <2>1. Go(t, r) /\ comp' = Unregistered(th[t].gen) /\ asleep' = asleep
    BY <1>3 DEF Wait
  <2>2. comp[th[t].gen].outcome \in Outcomes \cup {"none"}
    BY <1>0, <1>1
  <2>3. r \in ThreadType /\ r.pc = "answered" /\ r.obs = th[t].obs /\ r.gen = th[t].gen
    BY <1>0, <2>2 DEF ThreadType, PCs
  <2>4. th'[t] = r
    BY <1>0, <2>1, <2>3, GoMoves
  <2> HIDE DEF r
  <2>5. /\ comp' \in [1..MaxGen -> [followers : Int, outcome : Outcomes \cup {"none"}]]
        /\ \A h \in 1..MaxGen : comp'[h].outcome \in {comp[h].outcome, "none"}
    BY <1>0, <1>1, <2>1, UnregisterTyped
  <2>6. SleepMoves(t)
    BY <1>0, <2>1, <2>5 DEF SleepMoves, LogoutInv, Observed
  <2>7. Observed(t)' /\ ~Owner(t)' /\ Sleeper(t)' /\ JoinedRequested(t)'
    BY <1>0, <1>1, <2>1, <2>3, <2>4 DEF Observed, Owner, Sleeper, JoinedRequested
  <2> QED
    BY <1>0, <1>1, <1>2, <2>1, <2>3, <2>5, <2>6, <2>7, Moving DEF OwnPart, OwnerHasWord
<1>4. CASE comp[th[t].gen].outcome = "none"
  <2>1. UNCHANGED <<comp, th>> /\ asleep' = asleep \cup {t}
    BY <1>4 DEF Wait
  <2>2. Go(t, th[t])
    BY <1>0, <2>1 DEF Go
  <2>3. SleepMoves(t)
    BY <2>1 DEF SleepMoves
  <2>4. Observed(t)' /\ ~Owner(t)' /\ Sleeper(t)' /\ JoinedRequested(t)'
    BY <1>0, <1>1, <1>4, <2>1 DEF Observed, Owner, Sleeper, JoinedRequested
  <2> QED
    BY <1>0, <1>1, <1>2, <2>1, <2>2, <2>3, <2>4, Moving DEF OwnPart, OwnerHasWord
<1> QED
  BY <1>3, <1>4

\* The owner ends its logout and wakes everyone.
LEMMA CompleteStep ==
    ASSUME LogoutAssumption, LogoutInv, NEW t \in Threads, Complete(t)
    PROVE  LogoutInv'
<1>0. /\ LogoutTypes /\ OwnerHasWord(t) /\ th[t] \in ThreadType /\ word \in WordType
      /\ comp \in [1..MaxGen -> [followers : Int, outcome : Outcomes \cup {"none"}]]
      /\ lock \in Threads \cup {None} /\ th \in [Threads -> ThreadType]
  BY DEF LogoutInv, LogoutTypes
<1>1. /\ Owner(t) /\ word.gen = th[t].gen /\ th[t].gen \in 1..MaxGen
      /\ word' = Word(word.gen, "idle") /\ asleep' = {} /\ Go(t, Idle)
      /\ UNCHANGED <<lock, calls, sealed>>
  BY <1>0 DEF Complete, Owner, OwnerHasWord
<1>2. comp' \in [1..MaxGen -> [followers : Int, outcome : Outcomes \cup {"none"}]]
  <2>1. \/ comp' = comp
        \/ comp' = [comp EXCEPT ![th[t].gen] = [comp[th[t].gen] EXCEPT !.outcome = th[t].out]]
    BY <1>0, <1>1 DEF Complete
  <2>2. [comp[th[t].gen] EXCEPT !.outcome = th[t].out] \in [followers : Int, outcome : Outcomes \cup {"none"}]
    BY <1>0, <1>1 DEF ThreadType
  <2> QED
    BY <1>0, <1>1, <2>1, <2>2
<1>3. Idle \in ThreadType /\ th'[t] = Idle
  BY <1>0, <1>1, IdleTyped, GoMoves
<1>4. Observed(t)' /\ ~Owner(t)' /\ Sleeper(t)' /\ JoinedRequested(t)'
  BY <1>1, <1>3 DEF Observed, Owner, Sleeper, JoinedRequested, Idle, Word
<1>5. WordMoves(t) /\ SleepMoves(t)
  BY <1>1 DEF WordMoves, SleepMoves
<1>6. word' \in WordType
  BY <1>0, <1>1 DEF WordType, Word, Phases
<1> QED
  BY <1>0, <1>1, <1>2, <1>3, <1>4, <1>5, <1>6, Moving DEF OwnPart, OwnerHasWord

\* LogoutInv holds at the start and every step keeps it.
LEMMA LogoutInit == ASSUME LogoutAssumption, Init PROVE LogoutInv
<1>1. Idle \in ThreadType
  BY IdleTyped
<1>2. LogoutTypes
  BY <1>1 DEF Init, LogoutTypes, WordType, Word, Phases, NoEntry, LogoutAssumption
<1>3. ASSUME NEW t \in Threads PROVE Observed(t) /\ ~Owner(t) /\ Sleeper(t) /\ JoinedRequested(t)
  BY DEF Init, Observed, Owner, Sleeper, JoinedRequested, Idle, Word
<1> QED
  BY <1>2, <1>3 DEF Init, LogoutInv, WordStarted, OneOwner, OwnerHasWord, SealedPast, Word

LEMMA LogoutStep == ASSUME LogoutAssumption, LogoutInv, [Next]_vars PROVE LogoutInv'
<1>1. CASE UNCHANGED vars
  BY <1>1 DEF vars, LogoutInv, LogoutTypes, WordStarted, OneOwner, Observed, Owner, OwnerHasWord,
              JoinedRequested, Sleeper, SealedPast
<1>2. ASSUME NEW t \in Threads, Step(t) \/ Reenter(t) \/ \E req \in BOOLEAN : Call(t, req)
      PROVE  LogoutInv'
  BY <1>2, CallStep, LoadStep, CasStep, SealStep, JoinStep, UpgradeStep, SleepStep, WaitStep,
     CompleteStep DEF Step
<1> QED
  BY <1>1, <1>2 DEF Next

LEMMA LogoutInvariant == ASSUME LogoutAssumption PROVE Spec => []LogoutInv
  BY LogoutInit, LogoutStep, PTL DEF Spec

----------------------------------------------------------------------------
(* The followers and their entries                                          *)

Follows(t, g) == th[t].gen = g /\ th[t].pc \in {"upgrade", "wait"}
Followers(g) == {t \in Threads : Follows(t, g)}

\* What a step of one thread does to the number of followers of a generation.
LEMMA FollowersMove ==
    ASSUME LogoutAssumption, NEW t \in Threads, NEW g, \A s \in Threads : s # t => th'[s] = th[s]
    PROVE  /\ Cardinality(Followers(g)) \in Nat
           /\ (Follows(t, g) <=> Follows(t, g)') => Cardinality(Followers(g)') = Cardinality(Followers(g))
           /\ ~Follows(t, g) /\ Follows(t, g)'
                => Cardinality(Followers(g)') = Cardinality(Followers(g)) + 1
           /\ Follows(t, g) /\ ~Follows(t, g)'
                => Cardinality(Followers(g)') = Cardinality(Followers(g)) - 1
<1>1. IsFiniteSet(Followers(g)) /\ IsFiniteSet(Followers(g)')
  <2>1. IsFiniteSet(Threads)
    BY DEF LogoutAssumption
  <2>2. Followers(g) \subseteq Threads /\ Followers(g)' \subseteq Threads
    BY DEF Followers
  <2> QED
    BY <2>1, <2>2, FS_Subset
<1>2. Cardinality(Followers(g)) \in Nat
  BY <1>1, FS_CardinalityType
<1>3. \A s \in Threads : s # t => (Follows(s, g)' <=> Follows(s, g))
  BY DEF Follows
<1>4. (Follows(t, g) <=> Follows(t, g)') => Followers(g)' = Followers(g)
  BY <1>3 DEF Followers
<1>5. ASSUME ~Follows(t, g), Follows(t, g)'
      PROVE  Cardinality(Followers(g)') = Cardinality(Followers(g)) + 1
  <2>1. Followers(g)' = Followers(g) \cup {t} /\ t \notin Followers(g)
    BY <1>3, <1>5 DEF Followers
  <2> QED
    BY <1>1, <2>1, FS_AddElement
<1>6. ASSUME Follows(t, g), ~Follows(t, g)'
      PROVE  Cardinality(Followers(g)') = Cardinality(Followers(g)) - 1
  <2>1. Followers(g)' = Followers(g) \ {t} /\ t \in Followers(g)
    BY <1>3, <1>6 DEF Followers
  <2> QED
    BY <1>1, <2>1, FS_RemoveElement
<1> QED
  BY <1>2, <1>4, <1>5, <1>6

\* A step registers its thread, takes it off, or leaves the entries alone.
FollowerStep(t) ==
    \A g \in 1..MaxGen :
        comp'[g].followers = comp[g].followers + (IF Follows(t, g)' THEN 1 ELSE 0)
                                               - (IF Follows(t, g) THEN 1 ELSE 0)

\* What a step changes of thread t and of the map of outcomes.
LEMMA Keeps ==
    ASSUME LogoutAssumption, LogoutInv, NEW t \in Threads, Step(t) \/ Reenter(t) \/ \E req \in BOOLEAN : Call(t, req)
    PROVE  \A s \in Threads : s # t => th'[s] = th[s]
<1>1. th \in [Threads -> ThreadType]
  BY DEF LogoutInv, LogoutTypes
<1>2. \/ th' = th
      \/ \E r : th' = [th EXCEPT ![t] = r]
  <2>1. CASE Load(t)
    <3>1. \/ Go(t, [th[t] EXCEPT !.pc = "own", !.obs = word])
          \/ Go(t, [th[t] EXCEPT !.pc = "join", !.obs = word]) \/ Go(t, Idle)
      BY <2>1 DEF Load
    <3> QED
      BY <3>1, Zenon DEF Go
  <2>2. CASE Join(t)
    <3>1. \/ At(t, "load") \/ At(t, "sleep")
          \/ Go(t, [th[t] EXCEPT !.pc = "wait", !.gen = th[t].obs.gen])
          \/ Go(t, [th[t] EXCEPT !.pc = "upgrade", !.gen = th[t].obs.gen])
      BY <2>2, Zenon DEF Join
    <3> QED
      BY <3>1, Zenon DEF Go, At
  <2>3. CASE Own(t) \/ Upgrade(t) \/ Sleep(t) \/ Wait(t) \/ Return(t) \/ Complete(t)
    BY <2>3, Zenon DEF Own, Upgrade, Sleep, Wait, Return, Complete, Go, At
  <2>4. CASE ReenterLoad(t) \/ ReenterCas(t) \/ FinLoad(t) \/ FinCas(t) \/ SealLoad(t) \/ SealCas(t)
    BY <2>4, Zenon DEF ReenterLoad, ReenterCas, FinLoad, FinCas, SealLoad, SealCas, Go, At
  <2>5. CASE Reenter(t) \/ (\E o \in Outcomes : Work(t, o)) \/ \E req \in BOOLEAN : Call(t, req)
    BY <2>5, Zenon DEF Reenter, Work, Call, Go
  <2> QED
    BY <2>1, <2>2, <2>3, <2>4, <2>5 DEF Step
<1> QED
  BY <1>1, <1>2

\* The entries are kept exactly by every step of a thread.
LEMMA FollowersExact ==
    ASSUME LogoutAssumption, LogoutInv, NEW t \in Threads,
           Step(t) \/ Reenter(t) \/ \E req \in BOOLEAN : Call(t, req)
    PROVE  FollowerStep(t)
<1>0. /\ Observed(t) /\ th[t] \in ThreadType /\ th \in [Threads -> ThreadType]
      /\ comp \in [1..MaxGen -> [followers : Int, outcome : Outcomes \cup {"none"}]]
      /\ \A g \in 1..MaxGen : comp[g].followers \in Int
  BY DEF LogoutInv, LogoutTypes
<1>1. CASE comp' = comp /\ th[t].pc \notin {"upgrade", "wait"} /\ th'[t].pc \notin {"upgrade", "wait"}
  BY <1>0, <1>1 DEF FollowerStep, Follows
<1>2. CASE Own(t) \/ ReenterCas(t) \/ FinCas(t) \/ SealCas(t)
  <2>1. comp' = comp /\ th[t].pc \notin {"upgrade", "wait"}
    BY <1>2 DEF Own, ReenterCas, FinCas, SealCas
  <2>2. th'[t].pc \notin {"upgrade", "wait"}
    <3>1. CASE Own(t)
      BY <1>0, <3>1 DEF Own, Go, At, ThreadType
    <3>2. CASE ReenterCas(t)
      BY <1>0, <3>2 DEF ReenterCas, Go, At, ThreadType, Observed
    <3>3. CASE FinCas(t)
      BY <1>0, <3>3 DEF FinCas, Go, At, ThreadType
    <3>4. CASE SealCas(t)
      BY <1>0, <3>4 DEF SealCas, Go, At, ThreadType
    <3> QED
      BY <1>2, <3>1, <3>2, <3>3, <3>4
  <2> QED
    BY <1>1, <2>1, <2>2
<1>3. CASE Load(t)
  <2>1. \/ Go(t, [th[t] EXCEPT !.pc = "own", !.obs = word])
        \/ Go(t, [th[t] EXCEPT !.pc = "join", !.obs = word]) \/ Go(t, Idle)
    BY <1>3 DEF Load
  <2>2. th'[t].pc \notin {"upgrade", "wait"}
    <3>1. CASE Go(t, Idle)
      BY <1>0, <3>1 DEF Go, Idle
    <3>2. CASE Go(t, [th[t] EXCEPT !.pc = "own", !.obs = word])
      BY <1>0, <3>2 DEF Go, ThreadType
    <3>3. CASE Go(t, [th[t] EXCEPT !.pc = "join", !.obs = word])
      BY <1>0, <3>3 DEF Go, ThreadType
    <3> QED
      BY <2>1, <3>1, <3>2, <3>3
  <2> QED
    BY <1>1, <1>3, <2>2 DEF Load
<1>4. CASE ReenterLoad(t) \/ FinLoad(t) \/ SealLoad(t)
  <2>1. comp' = comp /\ th[t].pc \notin {"upgrade", "wait"}
    BY <1>4 DEF ReenterLoad, FinLoad, SealLoad
  <2>2. th'[t].pc \notin {"upgrade", "wait"}
    <3>1. CASE ReenterLoad(t)
      BY <1>0, <3>1 DEF ReenterLoad, Go, ThreadType, Observed
    <3>2. CASE FinLoad(t)
      BY <1>0, <3>2 DEF FinLoad, Go, ThreadType
    <3>3. CASE SealLoad(t)
      BY <1>0, <3>3 DEF SealLoad, Go, ThreadType
    <3> QED
      BY <1>4, <3>1, <3>2, <3>3
  <2> QED
    BY <1>1, <2>1, <2>2
<1>5. CASE Return(t) \/ Reenter(t) \/ (\E o \in Outcomes : Work(t, o)) \/ \E req \in BOOLEAN : Call(t, req)
  <2>1. comp' = comp /\ th[t].pc \notin {"upgrade", "wait"}
    BY <1>5 DEF Return, Reenter, Work, Call
  <2>2. th'[t].pc \notin {"upgrade", "wait"}
    <3>1. CASE Return(t)
      BY <1>0, <3>1 DEF Return, Go, Idle
    <3>2. CASE Reenter(t)
      BY <1>0, <3>2 DEF Reenter, Go, ThreadType
    <3>3. ASSUME NEW o \in Outcomes, Work(t, o) PROVE th'[t].pc \notin {"upgrade", "wait"}
      BY <1>0, <3>3 DEF Work, Go, ThreadType
    <3>4. ASSUME NEW req \in BOOLEAN, Call(t, req) PROVE th'[t].pc \notin {"upgrade", "wait"}
      BY <1>0, <3>4 DEF Call, Go, Idle
    <3> QED
      BY <1>5, <3>1, <3>2, <3>3, <3>4
  <2> QED
    BY <1>1, <2>1, <2>2
<1>6. CASE Sleep(t)
  <2>1. comp' = comp /\ th[t].pc = "sleep" /\ (th' = th \/ Go(t, [th[t] EXCEPT !.pc = "load"]))
    BY <1>6 DEF Sleep, At
  <2>2. th'[t].pc \notin {"upgrade", "wait"}
    BY <1>0, <2>1 DEF Go, ThreadType
  <2> QED
    BY <1>1, <2>1, <2>2
<1>7. CASE Complete(t)
  <2>1. th'[t].pc = "idle" /\ th[t].pc = "complete"
    BY <1>0, <1>7 DEF Complete, Go, Idle
  <2>2. \A g \in 1..MaxGen : comp'[g].followers = comp[g].followers
    BY <1>0, <1>7 DEF Complete
  <2> QED
    BY <1>0, <2>1, <2>2 DEF FollowerStep, Follows
<1>8. CASE Upgrade(t)
  <2>1. th[t].pc = "upgrade" /\ th[t].gen = th[t].obs.gen /\ th[t].gen \in 1..MaxGen
    BY <1>0, <1>8 DEF Upgrade, Observed, Upgradable
  <2>2. CASE word = th[t].obs
    <3>1. comp' = comp /\ th'[t] = [th[t] EXCEPT !.pc = "wait"]
      BY <1>0, <1>8, <2>2 DEF Upgrade, At, Go
    <3>2. th'[t].pc = "wait" /\ th'[t].gen = th[t].gen
      BY <1>0, <3>1 DEF ThreadType
    <3> QED
      BY <1>0, <2>1, <3>1, <3>2 DEF FollowerStep, Follows
  <2>3. CASE word # th[t].obs
    <3>1. comp' = Unregistered(th[t].gen) /\ th'[t] = [th[t] EXCEPT !.pc = "load"]
      BY <1>0, <1>8, <2>1, <2>3 DEF Upgrade, At, Go
    <3>2. th'[t].pc = "load"
      BY <1>0, <3>1 DEF ThreadType
    <3> QED
      BY <1>0, <2>1, <3>1, <3>2, UnregisterTyped DEF FollowerStep, Follows
  <2> QED
    BY <2>2, <2>3
<1>9. CASE Wait(t)
  <2>1. th[t].pc = "wait" /\ th[t].gen \in 1..MaxGen
    BY <1>0, <1>9 DEF Wait, Observed
  <2>2. CASE comp[th[t].gen].outcome = "none"
    BY <1>0, <1>9, <2>2 DEF Wait, FollowerStep, Follows
  <2>3. CASE comp[th[t].gen].outcome # "none"
    <3>1. /\ comp' = Unregistered(th[t].gen)
          /\ th'[t] = [th[t] EXCEPT !.pc = "answered", !.out = comp[th[t].gen].outcome]
      BY <1>0, <1>9, <2>3 DEF Wait, Go
    <3>2. th'[t].pc = "answered"
      BY <1>0, <3>1 DEF ThreadType
    <3> QED
      BY <1>0, <2>1, <3>1, <3>2, UnregisterTyped DEF FollowerStep, Follows
  <2> QED
    BY <2>2, <2>3
<1>10. CASE Join(t)
  <2> DEFINE g == th[t].obs.gen
  <2>1. th[t].pc = "join" /\ g \in 1..MaxGen
    BY <1>0, <1>10 DEF Join, Observed
  <2>2. \/ comp' = comp /\ (At(t, "load") \/ At(t, "sleep"))
        \/ comp' = Registered(g) /\ (\/ Go(t, [th[t] EXCEPT !.pc = "wait", !.gen = g])
                                     \/ Go(t, [th[t] EXCEPT !.pc = "upgrade", !.gen = g]))
    BY <1>10, Zenon DEF Join
  <2> HIDE DEF g
  <2>3. CASE comp' = comp /\ (At(t, "load") \/ At(t, "sleep"))
    <3>1. th'[t].pc \notin {"upgrade", "wait"}
      BY <1>0, <2>3 DEF At, Go, ThreadType
    <3> QED
      BY <1>1, <2>1, <2>3, <3>1
  <2>4. CASE comp' = Registered(g) /\ (\/ Go(t, [th[t] EXCEPT !.pc = "wait", !.gen = g])
                                       \/ Go(t, [th[t] EXCEPT !.pc = "upgrade", !.gen = g]))
    <3>1. th'[t].pc \in {"upgrade", "wait"} /\ th'[t].gen = g
      BY <1>0, <2>4 DEF Go, ThreadType
    <3>2. \A h \in 1..MaxGen : comp'[h].followers = IF h = g THEN comp[h].followers + 1
                                                              ELSE comp[h].followers
      <4>1. comp' = [comp EXCEPT ![g] = [comp[g] EXCEPT !.followers = comp[g].followers + 1]]
        BY <2>4 DEF Registered
      <4> QED
        BY <1>0, <2>1, <4>1
    <3> QED
      BY <1>0, <2>1, <3>1, <3>2 DEF FollowerStep, Follows
  <2> QED
    BY <2>2, <2>3, <2>4
<1> QED
  BY <1>2, <1>3, <1>4, <1>5, <1>6, <1>7, <1>8, <1>9, <1>10 DEF Step

\* One step keeps CompletionsExact.
LEMMA CompletionsStep ==
    ASSUME LogoutAssumption, LogoutInv, CompletionsExact, [Next]_vars
    PROVE  CompletionsExact'
<1>0. CompletionsExact <=> \A g \in 1..MaxGen : comp[g].followers = Cardinality(Followers(g))
  BY DEF CompletionsExact, Followers, Follows
<1>1. CompletionsExact' <=> \A g \in 1..MaxGen : comp'[g].followers = Cardinality(Followers(g)')
  BY DEF CompletionsExact, Followers, Follows
<1>2. CASE UNCHANGED vars
  BY <1>2 DEF vars, CompletionsExact
<1>3. ASSUME NEW t \in Threads, Step(t) \/ Reenter(t) \/ \E req \in BOOLEAN : Call(t, req)
      PROVE  CompletionsExact'
  <2>1. FollowerStep(t) /\ \A s \in Threads : s # t => th'[s] = th[s]
    BY <1>3, FollowersExact, Keeps
  <2>2. ASSUME NEW g \in 1..MaxGen PROVE comp'[g].followers = Cardinality(Followers(g)')
    <3>1. comp[g].followers = Cardinality(Followers(g))
      BY <1>0
    <3>2. comp'[g].followers = comp[g].followers + (IF Follows(t, g)' THEN 1 ELSE 0)
                                                 - (IF Follows(t, g) THEN 1 ELSE 0)
      BY <2>1 DEF FollowerStep
    <3> QED
      BY <2>1, <3>1, <3>2, FollowersMove
  <2> QED
    BY <1>1, <2>2
<1> QED
  BY <1>2, <1>3 DEF Next

LEMMA CompletionsInit == ASSUME LogoutAssumption, Init PROVE CompletionsExact
<1> SUFFICES ASSUME NEW g \in 1..MaxGen
             PROVE  comp[g].followers = Cardinality({t \in Threads : th[t].gen = g
                                                       /\ th[t].pc \in {"upgrade", "wait"}})
  BY DEF CompletionsExact
<1>1. {t \in Threads : th[t].gen = g /\ th[t].pc \in {"upgrade", "wait"}} = {}
  BY DEF Init, Idle
<1>2. Cardinality({}) = 0
  BY FS_EmptySet
<1> QED
  BY <1>1, <1>2 DEF Init, NoEntry

\* A thread that waits was waiting, or has just joined a requested logout.
LEMMA JoinsRequested ==
    ASSUME LogoutAssumption, LogoutInv, NEW t \in Threads,
           Step(t) \/ Reenter(t) \/ \E req \in BOOLEAN : Call(t, req),
           th'[t].pc \in {"wait", "answered"}
    PROVE  /\ sealed' = sealed
           /\ \/ th[t].pc \in {"wait", "answered"} /\ th'[t].gen = th[t].gen
              \/ word'.gen = th'[t].gen /\ word'.phase \in Requested
<1>0. /\ Observed(t) /\ th[t] \in ThreadType /\ th \in [Threads -> ThreadType] /\ word \in WordType
  BY DEF LogoutInv, LogoutTypes
<1>1. CASE Wait(t)
  <2>1. \/ th' = th
        \/ th'[t] = [th[t] EXCEPT !.pc = "answered", !.out = comp[th[t].gen].outcome]
    BY <1>0, <1>1 DEF Wait, Go
  <2>2. th'[t].gen = th[t].gen
    BY <1>0, <2>1 DEF ThreadType
  <2> QED
    BY <1>1, <2>2 DEF Wait
<1>2. CASE Upgrade(t)
  <2>1. word = th[t].obs
    BY <1>0, <1>2 DEF Upgrade, At, Go, ThreadType
  <2>2. th'[t] = [th[t] EXCEPT !.pc = "wait"] /\ word' = Word(th[t].obs.gen, Upgraded(th[t].obs.phase))
    BY <1>0, <1>2, <2>1 DEF Upgrade, At, Go
  <2>3. th'[t].gen = th[t].gen /\ th[t].gen = th[t].obs.gen
    BY <1>0, <1>2, <2>2 DEF Upgrade, Observed, ThreadType
  <2> QED
    BY <1>2, <2>2, <2>3 DEF Upgrade, Word, Upgraded, Requested
<1>3. CASE Join(t)
  <2>1. Joinable(th[t].obs, word) /\ th[t].obs.phase \in Requested
    <3>1. CASE ~Joinable(th[t].obs, word)
      BY <1>0, <1>3, <3>1 DEF Join, At, Go, ThreadType
    <3>2. CASE Joinable(th[t].obs, word) /\ th[t].obs.phase = "passiveCommitted"
      <4>1. At(t, "sleep")
        BY <1>3, <3>2 DEF Join, Requested
      <4> QED
        BY <1>0, <4>1 DEF At, Go, ThreadType
    <3>3. CASE Joinable(th[t].obs, word) /\ th[t].obs.phase \notin Requested \cup {"passiveCommitted"}
      <4>1. Go(t, [th[t] EXCEPT !.pc = "upgrade", !.gen = th[t].obs.gen])
        BY <1>3, <3>3 DEF Join
      <4> QED
        BY <1>0, <4>1 DEF Go, ThreadType
    <3> QED
      BY <3>1, <3>2, <3>3
  <2>2. Go(t, [th[t] EXCEPT !.pc = "wait", !.gen = th[t].obs.gen])
    <3>1. th[t].obs.phase # "passiveCommitted"
      BY <2>1 DEF Requested
    <3> QED
      BY <1>3, <2>1, <3>1, Zenon DEF Join
  <2>3. th'[t].gen = th[t].obs.gen
    BY <1>0, <2>2 DEF Go, ThreadType
  <2> QED
    BY <1>3, <2>1, <2>3 DEF Join, Joinable
<1>4. CASE Load(t) \/ Return(t) \/ Reenter(t) \/ (\E o \in Outcomes : Work(t, o))
             \/ \E req \in BOOLEAN : Call(t, req)
  <2>1. CASE Load(t)
    <3>1. \/ Go(t, [th[t] EXCEPT !.pc = "own", !.obs = word])
          \/ Go(t, [th[t] EXCEPT !.pc = "join", !.obs = word]) \/ Go(t, Idle)
      BY <2>1 DEF Load
    <3>2. CASE Go(t, Idle)
      BY <1>0, <3>2 DEF Go, Idle
    <3>3. CASE Go(t, [th[t] EXCEPT !.pc = "own", !.obs = word])
      BY <1>0, <3>3 DEF Go, ThreadType
    <3>4. CASE Go(t, [th[t] EXCEPT !.pc = "join", !.obs = word])
      BY <1>0, <3>4 DEF Go, ThreadType
    <3> QED
      BY <3>1, <3>2, <3>3, <3>4
  <2>2. CASE Return(t)
    BY <1>0, <2>2 DEF Return, Go, Idle
  <2>3. CASE Reenter(t)
    BY <1>0, <2>3 DEF Reenter, Go, ThreadType
  <2>4. ASSUME NEW o \in Outcomes, Work(t, o) PROVE FALSE
    BY <1>0, <2>4 DEF Work, Go, ThreadType
  <2>5. ASSUME NEW req \in BOOLEAN, Call(t, req) PROVE FALSE
    BY <1>0, <2>5 DEF Call, Go, Idle
  <2> QED
    BY <1>4, <2>1, <2>2, <2>3, <2>4, <2>5
<1>5. CASE Own(t) \/ ReenterCas(t) \/ FinCas(t) \/ SealCas(t)
  <2>1. CASE Own(t)
    BY <1>0, <2>1 DEF Own, Go, At, ThreadType
  <2>2. CASE ReenterCas(t)
    BY <1>0, <2>2 DEF ReenterCas, Go, At, ThreadType, Observed
  <2>3. CASE FinCas(t)
    BY <1>0, <2>3 DEF FinCas, Go, At, ThreadType
  <2>4. CASE SealCas(t)
    <3> DEFINE q == th[t].obs.phase = "requestedFinalizing"
               r == [th[t] EXCEPT !.pc = "complete", !.sealReq = q]
    <3>1. Go(t, r) \/ Go(t, [th[t] EXCEPT !.pc = "sealLoad"])
      BY <2>4, Zenon DEF SealCas, At
    <3>2. CASE Go(t, r)
      <4> HIDE DEF q
      <4>1. th'[t] = r
        BY <1>0, <3>2 DEF Go
      <4>2. r.pc = "complete"
        BY <1>0 DEF ThreadType
      <4> QED
        BY <4>1, <4>2
    <3>3. CASE Go(t, [th[t] EXCEPT !.pc = "sealLoad"])
      BY <1>0, <3>3 DEF Go, ThreadType
    <3> QED
      BY <3>1, <3>2, <3>3
  <2> QED
    BY <1>5, <2>1, <2>2, <2>3, <2>4
<1>6. CASE ReenterLoad(t) \/ FinLoad(t) \/ SealLoad(t)
  <2>1. CASE ReenterLoad(t)
    BY <1>0, <2>1 DEF ReenterLoad, Go, ThreadType, Observed
  <2>2. CASE FinLoad(t)
    BY <1>0, <2>2 DEF FinLoad, Go, ThreadType
  <2>3. CASE SealLoad(t)
    BY <1>0, <2>3 DEF SealLoad, Go, ThreadType
  <2> QED
    BY <1>6, <2>1, <2>2, <2>3
<1>7. CASE Sleep(t) \/ Complete(t)
  <2>1. CASE Sleep(t)
    <3>1. th[t].pc = "sleep" /\ (th' = th \/ Go(t, [th[t] EXCEPT !.pc = "load"]))
      BY <2>1 DEF Sleep, At
    <3> QED
      BY <1>0, <3>1 DEF Go, ThreadType
  <2>2. CASE Complete(t)
    BY <1>0, <2>2 DEF Complete, Go, Idle
  <2> QED
    BY <1>7, <2>1, <2>2
<1> QED
  BY <1>1, <1>2, <1>3, <1>4, <1>5, <1>6, <1>7 DEF Step

\* Only a seal changes how a generation is sealed, and it seals the word's own.
LEMMA SealsTheWord ==
    ASSUME LogoutAssumption, LogoutInv, NEW t \in Threads,
           Step(t) \/ Reenter(t) \/ \E req \in BOOLEAN : Call(t, req), NEW g \in 1..MaxGen,
           sealed'[g] = "passive", sealed[g] # "passive"
    PROVE  word.gen = g /\ word.phase = "passiveFinalizing"
<1>1. sealed' # sealed
  OBVIOUS
<1>2. SealCas(t)
  <2>1. Load(t) \/ Own(t) \/ Join(t) \/ Upgrade(t) \/ Sleep(t) \/ Wait(t) => sealed' = sealed
    BY Zenon DEF Load, Own, Join, Upgrade, Sleep, Wait
  <2>2. Return(t) \/ Reenter(t) \/ ReenterLoad(t) \/ ReenterCas(t) => sealed' = sealed
    BY Zenon DEF Return, Reenter, ReenterLoad, ReenterCas
  <2>3. FinLoad(t) \/ FinCas(t) \/ SealLoad(t) \/ Complete(t) => sealed' = sealed
    BY Zenon DEF FinLoad, FinCas, SealLoad, Complete
  <2>4. (\E o \in Outcomes : Work(t, o)) \/ (\E req \in BOOLEAN : Call(t, req)) => sealed' = sealed
    BY Zenon DEF Work, Call
  <2> QED
    BY <1>1, <2>1, <2>2, <2>3, <2>4 DEF Step
<1>3. word = th[t].obs /\ word.phase \in Final
  BY <1>1, <1>2 DEF SealCas, LogoutInv, Observed
<1>4. sealed' = [sealed EXCEPT ![word.gen] = IF word.phase = "requestedFinalizing"
                                              THEN "requested" ELSE "passive"]
  BY <1>2, <1>3 DEF SealCas
<1> QED
  BY <1>3, <1>4 DEF LogoutInv, LogoutTypes, Final

LEMMA HonouredStep ==
    ASSUME LogoutAssumption, LogoutInv, LogoutInv', RequestHonoured, [Next]_vars
    PROVE  RequestHonoured'
<1>1. CASE UNCHANGED vars
  BY <1>1 DEF vars, RequestHonoured
<1>2. ASSUME NEW t \in Threads, Step(t) \/ Reenter(t) \/ \E req \in BOOLEAN : Call(t, req)
      PROVE  RequestHonoured'
  <2> SUFFICES ASSUME NEW s \in Threads, th'[s].pc \in {"wait", "answered"},
                      sealed'[th'[s].gen] = "passive"
               PROVE  FALSE
    BY DEF RequestHonoured
  <2>1. th'[s].gen \in 1..MaxGen /\ \A r \in Threads : th[r].gen \in Nat
    BY DEF LogoutInv, Observed, LogoutTypes, ThreadType
  <2>2. CASE s = t
    <3>1. sealed' = sealed
      BY <1>2, <2>2, JoinsRequested
    <3>2. ~(th[t].pc \in {"wait", "answered"} /\ th'[t].gen = th[t].gen)
      BY <2>2, <3>1 DEF RequestHonoured
    <3>3. word'.gen = th'[t].gen /\ word'.phase \in Requested
      BY <1>2, <2>2, <3>2, JoinsRequested
    <3>4. \A g \in 1..MaxGen : SealedPast(g)'
      BY DEF LogoutInv
    <3> QED
      BY <2>1, <2>2, <3>3, <3>4 DEF SealedPast, Requested
  <2>3. CASE s # t
    <3>1. th'[s] = th[s]
      BY <1>2, <2>3, Keeps
    <3>2. sealed[th[s].gen] # "passive"
      BY <3>1 DEF RequestHonoured
    <3>3. word.gen = th[s].gen /\ word.phase = "passiveFinalizing"
      BY <1>2, <2>1, <3>1, <3>2, SealsTheWord
    <3>4. JoinedRequested(s)
      BY DEF LogoutInv
    <3> QED
      BY <2>1, <3>1, <3>3, <3>4 DEF JoinedRequested, Requested
  <2> QED
    BY <2>2, <2>3
<1> QED
  BY <1>1, <1>2 DEF Next

----------------------------------------------------------------------------
(* Theorems                                                                 *)

\* Two threads never run the logout work of one session at a time
\* (AccountLogoutOwner), however many threads call it.
THEOREM OneLogoutOwner == ASSUME LogoutAssumption PROVE Spec => []OneOwner
<1>1. LogoutInv => OneOwner
  BY DEF LogoutInv
<1> QED
  BY <1>1, LogoutInvariant, PTL

\* The logout a requested caller joined is never sealed as a passive one.
THEOREM RequestsHonoured == ASSUME LogoutAssumption PROVE Spec => []RequestHonoured
<1>1. Init => RequestHonoured
  BY DEF Init, RequestHonoured, Idle
<1>2. LogoutInv /\ LogoutInv' /\ RequestHonoured /\ [Next]_vars => RequestHonoured'
  BY HonouredStep
<1> QED
  BY <1>1, <1>2, LogoutInvariant, PTL DEF Spec

\* complete wakes everyone it answers: whoever sleeps on the condition variable
\* still has something to wait for.
THEOREM SleepersAreWoken == ASSUME LogoutAssumption PROVE Spec => []NoLostWakeup
<1>1. LogoutInv => NoLostWakeup
  BY DEF LogoutInv, LogoutTypes, Sleeper, NoLostWakeup
<1> QED
  BY <1>1, LogoutInvariant, PTL

\* The completions map counts exactly the callers that wait.
THEOREM CompletionsAreExact == ASSUME LogoutAssumption PROVE Spec => []CompletionsExact
<1>1. Init => CompletionsExact
  BY CompletionsInit
<1>2. LogoutInv /\ CompletionsExact /\ [Next]_vars => CompletionsExact'
  BY CompletionsStep
<1> QED
  BY <1>1, <1>2, LogoutInvariant, PTL DEF Spec

\* The types: no generation has more followers than there are threads.
THEOREM LogoutTypeCorrect == ASSUME LogoutAssumption PROVE Spec => []TypeOK
<1>1. ASSUME LogoutInv, CompletionsExact PROVE TypeOK
  <2>1. ASSUME NEW g \in 1..MaxGen PROVE comp[g].followers \in 0..Cardinality(Threads)
    <3> DEFINE F == {t \in Threads : th[t].gen = g /\ th[t].pc \in {"upgrade", "wait"}}
    <3>1. F \in SUBSET Threads /\ IsFiniteSet(Threads)
      BY DEF LogoutAssumption
    <3>4. comp[g].followers = Cardinality(F)
      BY <1>1 DEF CompletionsExact
    <3> HIDE DEF F
    <3>2. Cardinality(F) <= Cardinality(Threads) /\ IsFiniteSet(F)
      BY <3>1, FS_Subset
    <3>3. Cardinality(F) \in Nat /\ Cardinality(Threads) \in Nat
      BY <3>1, <3>2, FS_CardinalityType
    <3> QED
      BY <3>2, <3>3, <3>4
  <2> QED
    BY <1>1, <2>1 DEF LogoutInv, LogoutTypes, WordType, TypeOK
<1> QED
  BY <1>1, LogoutInvariant, CompletionsAreExact, PTL

\* Everything the runs check of the logout coordinator, for every set of threads.
THEOREM LogoutIsSafe == ASSUME LogoutAssumption PROVE Spec => []LogoutSafe
BY LogoutTypeCorrect, OneLogoutOwner, RequestsHonoured, CompletionsAreExact, SleepersAreWoken, PTL
   DEF LogoutSafe

=============================================================================
