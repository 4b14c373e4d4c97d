------------------------ MODULE CommandDispatchProofs ------------------------
(***************************************************************************)
(* Proofs about AgentSessions and CommandDispatch for every set of          *)
(* replicas, every set of session tokens and assignment of them to          *)
(* replicas, and every set of commands.                                     *)
(*                                                                         *)
(* First the sessions alone.  Then the dispatch, which implements           *)
(* AgentSessions and CommandLedger, and whose delivery is safe by           *)
(* DispatchInv.  Last what the agent says about a command and what the      *)
(* ledger records of it: TerminalIsAgentOutcome and NoProtocolError follow  *)
(* from TalkInv, which is inductive relative to DispatchInv.                *)
(***************************************************************************)
EXTENDS CommandDispatch, WellFoundedInduction, TLAPS


----------------------------------------------------------------------------
(* Type correctness                                                        *)

\* The initial registry, row and leases are well typed.
LEMMA InitType == Init => TypeOK
  BY MaxFaultsAssumption DEF Init, TypeOK, Maybe, Phases, Sweeps, Idle

\* Every connect, disconnect, expiry, close, lease and crash step keeps the types.
LEMMA TypeStep == TypeOK /\ [Next]_vars => TypeOK'
<1> SUFFICES ASSUME TypeOK, [Next]_vars PROVE TypeOK'
  OBVIOUS
<1> USE HubOfAssumption, MaxFaultsAssumption DEF TypeOK, Maybe, Holders, Sweeps, Free,
        Idle, Phases, Messages, LeaseFree, IsCurrent, RowNames, EmptySlot, Fault
<1>1. ASSUME NEW s \in Sessions, ClaimOnline(s) PROVE TypeOK'
  BY <1>1 DEF ClaimOnline
<1>2. ASSUME NEW s \in Sessions, Register(s) PROVE TypeOK'
  BY <1>2 DEF Register, PublishClose
<1>3. ASSUME NEW s \in Sessions, SpawnTasks(s) PROVE TypeOK'
  BY <1>3 DEF SpawnTasks
<1>4. ASSUME NEW s \in Sessions, AbandonConnect(s) PROVE TypeOK'
  BY <1>4 DEF AbandonConnect
<1>5. ASSUME NEW s \in Sessions, InboundEnds(s) PROVE TypeOK'
  BY <1>5 DEF InboundEnds
<1>6. ASSUME NEW s \in Sessions, Disconnect(s) PROVE TypeOK'
  <2>1. row' \in {row, [status |-> "offline", session |-> NoSession]}
    BY <1>6 DEF Disconnect, MarkOffline
  <2>2. row' \in [status : {"online", "offline"}, session : Maybe]
    BY <2>1
  <2>3. CASE IsCurrent(s)
    <3>1. lease' \in [Hubs -> Holders \cup {Free}]
      BY <1>6, <2>3 DEF Disconnect
    <3>2. conn' \in [Sessions -> Phases]
      BY <1>6, <2>3 DEF Disconnect
    <3> QED
      BY <1>6, <2>2, <3>1, <3>2 DEF Disconnect
  <2>4. CASE ~IsCurrent(s)
    BY <1>6, <2>4 DEF Disconnect
  <2> QED
    BY <2>3, <2>4
<1>7. ASSUME NEW s \in Sessions, DisconnectError(s) PROVE TypeOK'
  BY <1>7 DEF DisconnectError
<1>8. ASSUME NEW s \in Sessions, DisconnectRemove(s) PROVE TypeOK'
  BY <1>8 DEF DisconnectRemove, RemoveIfCurrent
<1>9. ASSUME NEW s \in Sessions, Heartbeat(s) PROVE TypeOK'
  BY <1>9 DEF Heartbeat
<1>10. ASSUME NEW s \in Sessions, GoStale(s) PROVE TypeOK'
  BY <1>10 DEF GoStale
<1>11. ASSUME NEW s \in Sessions, HoldLease(s) PROVE TypeOK'
  BY <1>11 DEF HoldLease
<1>12. ASSUME NEW s \in Sessions, DropLease(s) PROVE TypeOK'
  BY <1>12 DEF DropLease
<1>13. ASSUME NEW h \in Hubs, CollectStale(h) PROVE TypeOK'
  BY <1>13 DEF CollectStale
<1>14. ASSUME NEW h \in Hubs, ExpireStale(h) PROVE TypeOK'
  <2>1. row' \in {row, [status |-> "offline", session |-> NoSession]}
    BY <1>14 DEF ExpireStale, MarkOffline
  <2>2. row' \in [status : {"online", "offline"}, session : Maybe]
    BY <2>1
  <2>3. sweep[h] \in Sweeps
    BY <1>14 DEF ExpireStale
  <2>4. CASE registry[h] = sweep[h].session /\ ~fresh[h]
    <3>1. lease' \in [Hubs -> Holders \cup {Free}]
      BY <1>14, <2>4 DEF ExpireStale
    <3>2. sweep' = [sweep EXCEPT ![h] = [session |-> @.session, phase |-> "removing"]]
      BY <1>14, <2>4 DEF ExpireStale
    <3> QED
      BY <1>14, <2>2, <2>3, <2>4, <3>1, <3>2 DEF ExpireStale
  <2>5. CASE ~(registry[h] = sweep[h].session /\ ~fresh[h])
    BY <1>14, <2>5 DEF ExpireStale
  <2> QED
    BY <2>4, <2>5
<1>15. ASSUME NEW h \in Hubs, ExpireError(h) PROVE TypeOK'
  BY <1>15 DEF ExpireError
<1>16. ASSUME NEW h \in Hubs, ExpireRemove(h) PROVE TypeOK'
  BY <1>16 DEF ExpireRemove, RemoveIfCurrent
<1>17. ASSUME NEW h \in Hubs, CloseAgent(h) PROVE TypeOK'
  BY <1>17 DEF CloseAgent, CloseLocal, PublishClose
<1>18. ASSUME NEW h \in Hubs, Crash(h) PROVE TypeOK'
  BY <1>18 DEF Crash
<1>19. ASSUME NEW m \in control, ReceiveClose(m) PROVE TypeOK'
  BY <1>19 DEF ReceiveClose, CloseLocal
<1>20. ASSUME NEW m \in control, LoseClose(m) PROVE TypeOK'
  BY <1>20 DEF LoseClose
<1>21. CASE UNCHANGED vars
  BY <1>21 DEF vars
<1> QED
  BY <1>1, <1>2, <1>3, <1>4, <1>5, <1>6, <1>7, <1>8, <1>9, <1>10,
     <1>11, <1>12, <1>13, <1>14, <1>15, <1>16, <1>17, <1>18, <1>19, <1>20, <1>21
  DEF Next, SessionStep, HubStep

\* Type correctness of the session layer: every reachable state of every
\* instance is well typed.
THEOREM TypeCorrect == Spec => []TypeOK
<1>1. Init => TypeOK
  BY InitType
<1>2. TypeOK /\ [Next]_vars => TypeOK'
  BY TypeStep
<1> QED
  BY <1>1, <1>2, PTL DEF Spec

----------------------------------------------------------------------------
(* The inductive invariant                                                 *)

\* With no connection yet the inductive invariant holds.
LEMMA InitSessionInv == Init => SessionInv
<1> SUFFICES ASSUME Init PROVE SessionInv
  OBVIOUS
<1> USE HubOfAssumption, NoSessionAssumption
<1> QED
  BY InitType DEF Init, SessionInv, LeaseHeld, SweepOwn, RegistryOwn, EpochOrder,
     RowNewest, ClaimNewest, NewestRegisteredIsPersisted, NoShadowing, IsCurrent,
     RowNames, Idle, TypeOK

\* The inductive invariant is kept by every session step.
LEMMA SessionStepInv == SessionInv /\ [Next]_vars => SessionInv'
<1> SUFFICES ASSUME SessionInv, [Next]_vars PROVE SessionInv'
  OBVIOUS
<1>0. TypeOK'
  BY TypeStep DEF SessionInv
<1> USE <1>0, HubOfAssumption, NoSessionAssumption DEF SessionInv, TypeOK, Maybe, Holders, Sweeps, Free,
        Idle, Phases, Messages, LeaseFree, IsCurrent, RowNames, EmptySlot, Fault,
        LeaseHeld, SweepOwn, RegistryOwn, EpochOrder, RowNewest, ClaimNewest,
        NewestRegisteredIsPersisted, NoShadowing
<1>1. ASSUME NEW s \in Sessions, ClaimOnline(s) PROVE SessionInv'
  BY <1>1 DEF ClaimOnline
<1>2. ASSUME NEW s \in Sessions, Register(s) PROVE SessionInv'
  BY <1>2 DEF Register, PublishClose
<1>3. ASSUME NEW s \in Sessions, SpawnTasks(s) PROVE SessionInv'
  BY <1>3 DEF SpawnTasks
<1>4. ASSUME NEW s \in Sessions, AbandonConnect(s) PROVE SessionInv'
  BY <1>4 DEF AbandonConnect
<1>5. ASSUME NEW s \in Sessions, InboundEnds(s) PROVE SessionInv'
  BY <1>5 DEF InboundEnds
<1>6. ASSUME NEW s \in Sessions, Disconnect(s) PROVE SessionInv'
  <2>1. CASE IsCurrent(s)
    <3>1. LeaseHeld'
      <4>1. \A t \in Sessions : conn[t] \in {"claimed", "removing"} => HubOf[t] # HubOf[s]
        BY <1>6 DEF Disconnect
      <4>2. sweep[HubOf[s]].phase # "removing"
        BY <1>6 DEF Disconnect
      <4>3. /\ lease' = [lease EXCEPT ![HubOf[s]] = <<"disconnect", s>>]
            /\ conn' = [conn EXCEPT ![s] = "removing"]
            /\ sweep' = sweep
        BY <1>6, <2>1 DEF Disconnect
      <4> QED
        BY <4>1, <4>2, <4>3
    <3>2. SweepOwn'
      BY <1>6, <2>1 DEF Disconnect, MarkOffline
    <3>3. RegistryOwn'
      BY <1>6, <2>1 DEF Disconnect, MarkOffline
    <3>4. EpochOrder'
      BY <1>6, <2>1 DEF Disconnect, MarkOffline
    <3>5. RowNewest'
      BY <1>6, <2>1 DEF Disconnect, MarkOffline
    <3>6. ClaimNewest'
      BY <1>6, <2>1 DEF Disconnect, MarkOffline
    <3>7. NewestRegisteredIsPersisted'
      BY <1>6, <2>1 DEF Disconnect, MarkOffline
    <3>8. NoShadowing'
      BY <1>6, <2>1 DEF Disconnect, MarkOffline
    <3> QED
      BY <3>1, <3>2, <3>3, <3>4, <3>5, <3>6, <3>7, <3>8
  <2>2. CASE ~(IsCurrent(s))
    BY <1>6, <2>2 DEF Disconnect, MarkOffline
  <2> QED
    BY <2>1, <2>2
<1>7. ASSUME NEW s \in Sessions, DisconnectError(s) PROVE SessionInv'
  BY <1>7 DEF DisconnectError
<1>8. ASSUME NEW s \in Sessions, DisconnectRemove(s) PROVE SessionInv'
  <2>1. LeaseHeld'
    BY <1>8 DEF DisconnectRemove, RemoveIfCurrent
  <2>2. SweepOwn'
    BY <1>8 DEF DisconnectRemove, RemoveIfCurrent
  <2>3. RegistryOwn'
    BY <1>8 DEF DisconnectRemove, RemoveIfCurrent
  <2>4. EpochOrder'
    BY <1>8 DEF DisconnectRemove, RemoveIfCurrent
  <2>5. RowNewest'
    BY <1>8 DEF DisconnectRemove, RemoveIfCurrent
  <2>6. ClaimNewest'
    BY <1>8 DEF DisconnectRemove, RemoveIfCurrent
  <2>7. NewestRegisteredIsPersisted'
    BY <1>8 DEF DisconnectRemove, RemoveIfCurrent
  <2>8. NoShadowing'
    BY <1>8 DEF DisconnectRemove, RemoveIfCurrent
  <2> QED
    BY <2>1, <2>2, <2>3, <2>4, <2>5, <2>6, <2>7, <2>8
<1>9. ASSUME NEW s \in Sessions, Heartbeat(s) PROVE SessionInv'
  BY <1>9 DEF Heartbeat
<1>10. ASSUME NEW s \in Sessions, GoStale(s) PROVE SessionInv'
  BY <1>10 DEF GoStale
<1>11. ASSUME NEW s \in Sessions, HoldLease(s) PROVE SessionInv'
  BY <1>11 DEF HoldLease
<1>12. ASSUME NEW s \in Sessions, DropLease(s) PROVE SessionInv'
  BY <1>12 DEF DropLease
<1>13. ASSUME NEW h \in Hubs, CollectStale(h) PROVE SessionInv'
  BY <1>13 DEF CollectStale
<1>14. ASSUME NEW h \in Hubs, ExpireStale(h) PROVE SessionInv'
  <2>1. CASE registry[h] = sweep[h].session /\ ~fresh[h]
    <3>1. LeaseHeld'
      BY <1>14, <2>1 DEF ExpireStale, MarkOffline
    <3>2. SweepOwn'
      BY <1>14, <2>1 DEF ExpireStale, MarkOffline
    <3>3. RegistryOwn'
      BY <1>14, <2>1 DEF ExpireStale, MarkOffline
    <3>4. EpochOrder'
      BY <1>14, <2>1 DEF ExpireStale, MarkOffline
    <3>5. RowNewest'
      BY <1>14, <2>1 DEF ExpireStale, MarkOffline
    <3>6. ClaimNewest'
      BY <1>14, <2>1 DEF ExpireStale, MarkOffline
    <3>7. NewestRegisteredIsPersisted'
      BY <1>14, <2>1 DEF ExpireStale, MarkOffline
    <3>8. NoShadowing'
      BY <1>14, <2>1 DEF ExpireStale, MarkOffline
    <3> QED
      BY <3>1, <3>2, <3>3, <3>4, <3>5, <3>6, <3>7, <3>8
  <2>2. CASE ~(registry[h] = sweep[h].session /\ ~fresh[h])
    <3>1. /\ sweep' = [sweep EXCEPT ![h] = Idle]
          /\ UNCHANGED <<row, lease, registry, conn, fresh, epoch, claims>>
      BY <1>14, <2>2 DEF ExpireStale
    <3>2. LeaseHeld' /\ SweepOwn'
      BY <3>1
    <3>3. NewestRegisteredIsPersisted'
      BY <1>14, <3>1 DEF ExpireStale
    <3> QED
      BY <3>1, <3>2, <3>3
  <2> QED
    BY <2>1, <2>2
<1>15. ASSUME NEW h \in Hubs, ExpireError(h) PROVE SessionInv'
  BY <1>15 DEF ExpireError
<1>16. ASSUME NEW h \in Hubs, ExpireRemove(h) PROVE SessionInv'
  BY <1>16 DEF ExpireRemove, RemoveIfCurrent
<1>17. ASSUME NEW h \in Hubs, CloseAgent(h) PROVE SessionInv'
  BY <1>17 DEF CloseAgent, CloseLocal, PublishClose
<1>18. ASSUME NEW h \in Hubs, Crash(h) PROVE SessionInv'
  BY <1>18 DEF Crash
<1>19. ASSUME NEW m \in control, ReceiveClose(m) PROVE SessionInv'
  BY <1>19 DEF ReceiveClose, CloseLocal
<1>20. ASSUME NEW m \in control, LoseClose(m) PROVE SessionInv'
  BY <1>20 DEF LoseClose
<1>21. CASE UNCHANGED vars
  BY <1>21 DEF vars
<1> QED
  BY <1>1, <1>2, <1>3, <1>4, <1>5, <1>6, <1>7, <1>8, <1>9, <1>10,
     <1>11, <1>12, <1>13, <1>14, <1>15, <1>16, <1>17, <1>18, <1>19, <1>20, <1>21
  DEF Next, SessionStep, HubStep

\* The newest claimed session keeps the agent row for as long as it is
\* registered: no step of an older connection can take it.
THEOREM NewestKeepsRow == Spec => []NewestRegisteredIsPersisted
<1>1. Init => SessionInv
  BY InitSessionInv
<1>2. SessionInv /\ [Next]_vars => SessionInv'
  BY SessionStepInv
<1>3. SessionInv => NewestRegisteredIsPersisted
  BY DEF SessionInv
<1> QED
  BY <1>1, <1>2, <1>3, PTL DEF Spec

\* A registered connection is never shadowed by an older one of its replica.
THEOREM NeverShadowed == Spec => []NoShadowing
<1>1. Init => SessionInv
  BY InitSessionInv
<1>2. SessionInv /\ [Next]_vars => SessionInv'
  BY SessionStepInv
<1>3. SessionInv => NoShadowing
  BY DEF SessionInv
<1> QED
  BY <1>1, <1>2, <1>3, PTL DEF Spec


----------------------------------------------------------------------------
(* Operators the model is built from                                       *)

\* A nonempty set of commands has an oldest one.
LEMMA OldestIn ==
    ASSUME NEW cs \in SUBSET Commands, cs # {}
    PROVE  Oldest(cs) \in cs
<1> DEFINE LT == {p \in Nat \X Nat : p[1] < p[2]}
<1>1. cs \subseteq Nat
  BY CommandsAssumption
<1>2. IsWellFoundedOn(LT, Nat)
  BY NatLessThanWellFounded, Zenon DEF OpToRel
<1>3. PICK x \in cs : \A y \in cs : ~(<<y, x>> \in LT)
  <2> HIDE DEF LT
  <2> QED BY <1>1, <1>2, WFMin
<1>4. ASSUME NEW y \in cs PROVE x <= y
  <2>1. x \in Nat /\ y \in Nat
    BY <1>1
  <2>2. ~(<<y, x>> \in LT)
    BY <1>3
  <2>3. ~(y < x)
    BY <2>1, <2>2
  <2> QED
    BY <2>1, <2>3
<1> QED
  BY <1>4 DEF Oldest

\* The only command of a pump is its oldest one.
LEMMA OldestOne ==
    ASSUME NEW c \in Commands
    PROVE  Oldest({c}) = c
  BY OldestIn, {c} \in SUBSET Commands, {c} # {}

\* An empty stream names no command.
LEMMA ElemsEmpty == Elems(<<>>) = {}
  BY DEF Elems

\* Sending adds one element to a stream.
LEMMA ElemsAppend ==
    ASSUME NEW S, NEW q \in Seq(S), NEW e \in S
    PROVE  Elems(Append(q, e)) = Elems(q) \cup {e}
<1>1. DOMAIN Append(q, e) = 1..(Len(q) + 1) /\ DOMAIN q = 1..Len(q) /\ Len(q) \in Nat
  OBVIOUS
<1>2. \A i \in 1..(Len(q) + 1) :
        Append(q, e)[i] = IF i = Len(q) + 1 THEN e ELSE q[i]
  OBVIOUS
<1>3. Len(q) + 1 \in 1..(Len(q) + 1) /\ 1..Len(q) \subseteq 1..(Len(q) + 1)
  BY <1>1
<1> QED
  BY <1>1, <1>2, <1>3 DEF Elems

\* Receiving takes an element off a stream and adds none.
LEMMA ElemsHeadTail ==
    ASSUME NEW S, NEW q \in Seq(S), q # <<>>
    PROVE  Head(q) \in Elems(q) /\ Elems(Tail(q)) \subseteq Elems(q)
<1>1. Len(q) \in Nat /\ Len(q) > 0 /\ DOMAIN q = 1..Len(q)
  OBVIOUS
<1>2. DOMAIN Tail(q) = 1..(Len(q) - 1) /\ \A i \in 1..(Len(q) - 1) : Tail(q)[i] = q[i + 1]
  OBVIOUS
<1>3. \A i \in 1..(Len(q) - 1) : i + 1 \in 1..Len(q)
  BY <1>1
<1>4. Head(q) = q[1] /\ 1 \in 1..Len(q)
  BY <1>1
<1> QED
  BY <1>1, <1>2, <1>3, <1>4 DEF Elems

----------------------------------------------------------------------------
(* CommandDispatch implements AgentSessions                                *)

\* Every step of the composition is a session step or leaves the sessions alone.
LEMMA SessionsStep == DispatchNext => [Next]_vars
<1> SUFFICES ASSUME DispatchNext PROVE [Next]_vars
  OBVIOUS
<1> USE DEF Next, SessionStep, HubStep
<1>1. ASSUME NEW c \in Commands, Enqueue(c) \/ Cancel(c) PROVE UNCHANGED vars
  BY <1>1 DEF Enqueue, Cancel
<1>2. ASSUME NEW h \in Hubs, ReceiveWake(h) \/ LoseWake(h) \/ CrashHub(h) PROVE [Next]_vars
  BY <1>2 DEF ReceiveWake, LoseWake, CrashHub
<1>3. ASSUME NEW s \in Sessions, PumpStep(s) PROVE [Next]_vars
  BY <1>3 DEF PumpStep, SpawnPump, PumpRead, PumpEmpty, PumpFail, PumpRefused, PumpMark,
     PumpSend, PumpSendLost, PumpError, PumpWake, PumpStatus, PumpClose, Finalize, FinalizeOne
<1>4. ASSUME NEW s \in Sessions, StreamStep(s) PROVE [Next]_vars
  BY <1>4 DEF StreamStep, AgentTake, AgentFinish, AgentGone, InboundReceive, InboundApply,
     EndInbound, FeatureSnapshot
<1>5. ASSUME SessionOnly PROVE Next
  BY <1>5 DEF SessionOnly
<1> QED
  BY <1>1, <1>2, <1>3, <1>4, <1>5 DEF DispatchNext

\* The pumps and streams add nothing to the sessions: every behaviour of
\* CommandDispatch is one of AgentSessions, and what is proved there holds here.
THEOREM ImplementsSessions == DispatchSpec => Spec
<1>1. DispatchInit => Init
  BY DEF DispatchInit
<1>2. [DispatchNext]_allvars => [Next]_vars
  BY SessionsStep DEF allvars
<1> QED
  BY <1>1, <1>2, PTL DEF DispatchSpec, Spec

\* The invariant of the sessions, as the composition uses it.
LEMMA SessionsInv == Spec => []SessionInv
<1> QED
  BY InitSessionInv, SessionStepInv, PTL DEF Spec

----------------------------------------------------------------------------
(* Types                                                                   *)

\* The initial ledger, pumps and streams are well typed.
LEMMA InitDispatchType == DispatchInit => DispatchTypeOK
  BY InitType DEF DispatchInit, DispatchTypeOK, Statuses, Places, Maybe, At, Events, Answers,
     NoEvent

\* What a pump works on is a set of commands; where it works on one, it is Oldest.
LEMMA PumpCommand ==
    ASSUME DispatchTypeOK, PumpWork, NEW s \in Sessions,
           pump[s].at \in {"send", "fail", "marked", "finalize"}
    PROVE  Oldest(pump[s].todo) \in pump[s].todo /\ Oldest(pump[s].todo) \in Commands
<1>1. pump[s].todo \in SUBSET Commands /\ pump[s].todo # {}
  BY DEF DispatchTypeOK, PumpWork
<1> QED
  BY <1>1, OldestIn

\* A ledger transition writes a known status.
LEMMA TransitionType ==
    ASSUME DispatchTypeOK, NEW c \in Commands,
           NEW action \in {"send", "failqueued", "ack", "reject", "succeed", "fail"},
           Transition(c, action)
    PROVE  cmd' \in [Commands -> Statuses]
  BY DEF DispatchTypeOK, Transition, Target, Statuses

\* The variables a pump moves when it leaves a place.
PumpTypes ==
    /\ pump \in [Sessions -> [at : Places, todo : SUBSET Commands]]
    /\ wake \in [Sessions -> BOOLEAN]
    /\ reply \in [Sessions -> BOOLEAN]

\* Moving a pump keeps the types of pumps and channels.
LEMMA MoveType ==
    ASSUME DispatchTypeOK, NEW s \in Sessions, NEW place \in Places,
           Move(s, At(place)), UNCHANGED <<wake, reply>>
    PROVE  PumpTypes'
  BY DEF DispatchTypeOK, PumpTypes, Move, At

\* So do the three ways a pump stops or goes on after an error.
LEMMA EndedType ==
    ASSUME DispatchTypeOK, NEW s \in Sessions, SessionEnded(s) \/ Stop(s) \/ StreamError(s)
    PROVE  PumpTypes'
<1>1. CASE Stop(s)
  BY <1>1 DEF DispatchTypeOK, PumpTypes, Stop, Move, At, Places
<1>2. CASE StreamError(s)
  BY <1>2 DEF DispatchTypeOK, PumpTypes, StreamError, Move, At, Places
<1> QED
  BY <1>1, <1>2 DEF SessionEnded

\* Every step of pumps, streams, ledger and sessions keeps the types.
LEMMA DispatchTypeStep ==
    DispatchTypeOK /\ PumpWork /\ TypeOK' /\ DispatchNext => DispatchTypeOK'
<1> SUFFICES ASSUME DispatchTypeOK, PumpWork, TypeOK', DispatchNext PROVE DispatchTypeOK'
  OBVIOUS
<1> USE DEF ledger, stream, pumps, dvars, Places
<1>1. ASSUME NEW c \in Commands, Enqueue(c) PROVE DispatchTypeOK'
  BY <1>1 DEF DispatchTypeOK, Enqueue, Statuses
<1>2. ASSUME NEW c \in Commands, Cancel(c) PROVE DispatchTypeOK'
  BY <1>2 DEF DispatchTypeOK, Cancel, Statuses
<1>3. ASSUME NEW h \in Hubs, ReceiveWake(h) PROVE DispatchTypeOK'
  BY <1>3 DEF DispatchTypeOK, ReceiveWake
<1>4. ASSUME NEW h \in Hubs, LoseWake(h) PROVE DispatchTypeOK'
  BY <1>4 DEF DispatchTypeOK, LoseWake
<1>5. ASSUME NEW h \in Hubs, CrashHub(h) PROVE DispatchTypeOK'
  BY <1>5 DEF DispatchTypeOK, CrashHub, At
<1>6. ASSUME NEW s \in Sessions, SpawnPump(s) PROVE DispatchTypeOK'
  BY <1>6 DEF DispatchTypeOK, SpawnPump, Move, At
<1>7. ASSUME NEW s \in Sessions, PumpRead(s) PROVE DispatchTypeOK'
  <2>1. Oldest(Queued) \in Commands
    BY <1>7, OldestIn DEF PumpRead, Queued
  <2> QED
    BY <1>7, <2>1 DEF DispatchTypeOK, PumpRead, Move
<1>8. ASSUME NEW s \in Sessions, PumpEmpty(s) PROVE DispatchTypeOK'
  <2>1. PumpTypes'
    BY <1>8, MoveType, EndedType DEF PumpEmpty
  <2> QED
    BY <1>8, <2>1 DEF DispatchTypeOK, PumpEmpty, PumpTypes
<1>9. ASSUME NEW s \in Sessions, PumpFail(s) PROVE DispatchTypeOK'
  <2>1. cmd' \in [Commands -> Statuses]
    BY <1>9, PumpCommand, TransitionType DEF PumpFail, DispatchTypeOK
  <2>2. PumpTypes'
    BY <1>9, MoveType, EndedType DEF PumpFail
  <2> QED
    BY <1>9, <2>1, <2>2 DEF DispatchTypeOK, PumpFail, PumpTypes
<1>10. ASSUME NEW s \in Sessions, PumpRefused(s) PROVE DispatchTypeOK'
  <2>1. PumpTypes'
    BY <1>10, MoveType, EndedType DEF PumpRefused
  <2> QED
    BY <1>10, <2>1 DEF DispatchTypeOK, PumpRefused, PumpTypes
<1>11. ASSUME NEW s \in Sessions, PumpMark(s) PROVE DispatchTypeOK'
  <2>1. cmd' \in [Commands -> Statuses]
    BY <1>11, PumpCommand, TransitionType DEF PumpMark
  <2> QED
    BY <1>11, <2>1 DEF DispatchTypeOK, PumpMark, Maybe
<1>12. ASSUME NEW s \in Sessions, PumpSend(s) PROVE DispatchTypeOK'
  <2>1. Oldest(pump[s].todo) \in Commands
    BY <1>12, PumpCommand DEF PumpSend
  <2> QED
    BY <1>12, <2>1 DEF DispatchTypeOK, PumpSend, Deliver, Move, At
<1>13. ASSUME NEW s \in Sessions, PumpSendLost(s) PROVE DispatchTypeOK'
  <2>1. PumpTypes'
    BY <1>13, MoveType, EndedType DEF PumpSendLost
  <2> QED
    BY <1>13, <2>1 DEF DispatchTypeOK, PumpSendLost, PumpTypes
<1>14. ASSUME NEW s \in Sessions, PumpError(s) PROVE DispatchTypeOK'
  BY <1>14 DEF DispatchTypeOK, PumpError, StreamError, Move, At
<1>15. ASSUME NEW s \in Sessions, PumpWake(s) PROVE DispatchTypeOK'
  BY <1>15 DEF DispatchTypeOK, PumpWake, Move, At
<1>16. ASSUME NEW s \in Sessions, PumpStatus(s) PROVE DispatchTypeOK'
  BY <1>16 DEF DispatchTypeOK, PumpStatus, Stop, Move, At
<1>17. ASSUME NEW s \in Sessions, PumpClose(s) PROVE DispatchTypeOK'
  BY <1>17 DEF DispatchTypeOK, PumpClose, Move, At
<1>18. ASSUME NEW s \in Sessions, Finalize(s) PROVE DispatchTypeOK'
  <2>1. PumpTypes'
    <3>1. CASE SessionEnded(s)
      BY <3>1, EndedType
    <3>2. CASE ~SessionEnded(s)
      <4>1. Queued \cap Gated \in SUBSET Commands
        BY DEF Queued
      <4>2. /\ pump' = [pump EXCEPT ![s] = [at |-> "finalize", todo |-> Queued \cap Gated]]
            /\ UNCHANGED <<wake, reply>>
        BY <1>18, <3>2, Zenon DEF Finalize, Move
      <4> QED
        BY <4>1, <4>2 DEF DispatchTypeOK, PumpTypes
    <3> QED
      BY <3>1, <3>2
  <2> QED
    BY <1>18, <2>1 DEF DispatchTypeOK, Finalize, PumpTypes
<1>19. ASSUME NEW s \in Sessions, FinalizeOne(s) PROVE DispatchTypeOK'
  <2>1. cmd' \in [Commands -> Statuses]
    BY <1>19, PumpCommand, TransitionType DEF FinalizeOne, DispatchTypeOK
  <2> QED
    <3>1. PumpTypes'
      <4>1. CASE SessionEnded(s)
        BY <4>1, EndedType
      <4>2. CASE ~SessionEnded(s)
        <5>1. /\ pump' = [pump EXCEPT ![s].todo = pump[s].todo \ {Oldest(pump[s].todo)}]
              /\ UNCHANGED <<wake, reply>>
          BY <1>19, <4>2 DEF FinalizeOne
        <5> QED
          BY <5>1 DEF DispatchTypeOK, PumpTypes
      <4> QED
        BY <4>1, <4>2
    <3> QED
      BY <1>19, <2>1, <3>1 DEF DispatchTypeOK, FinalizeOne, PumpTypes
<1>20. ASSUME NEW s \in Sessions, AgentTake(s) PROVE DispatchTypeOK'
  <2> DEFINE c == Head(down[s])
  <2>1. c \in Commands /\ Tail(down[s]) \in Seq(Commands) /\ up[s] \in Seq(Events)
    BY <1>20 DEF DispatchTypeOK, AgentTake
  <2>2. ASSUME NEW kind \in Answers, Say(s, kind, c)
        PROVE  up' \in [Sessions -> Seq(Events)] /\ answer' \in [Commands -> Answers \cup {"none"}]
    BY <2>1, <2>2 DEF DispatchTypeOK, Say, Events
  <2>3. "ack" \in Answers /\ "reject" \in Answers
    BY DEF Answers
  <2> QED
    BY <1>20, <2>1, <2>2, <2>3 DEF DispatchTypeOK, AgentTake
<1>21. ASSUME NEW s \in Sessions, AgentFinish(s) PROVE DispatchTypeOK'
  BY <1>21 DEF DispatchTypeOK, AgentFinish, Say, Events, Answers
<1>22. ASSUME NEW s \in Sessions, AgentGone(s) PROVE DispatchTypeOK'
  BY <1>22 DEF DispatchTypeOK, AgentGone
<1>23. ASSUME NEW s \in Sessions, InboundReceive(s) PROVE DispatchTypeOK'
  BY <1>23 DEF DispatchTypeOK, InboundReceive
<1>24. ASSUME NEW s \in Sessions, InboundApply(s) PROVE DispatchTypeOK'
  <2>1. inb[s] \in Events
    BY <1>24 DEF DispatchTypeOK, InboundApply
  <2>2. cmd' \in [Commands -> Statuses]
    BY <1>24, <2>1, TransitionType DEF InboundApply, DispatchTypeOK, Events, Answers
  <2> QED
    BY <1>24, <2>2 DEF DispatchTypeOK, InboundApply
<1>25. ASSUME NEW s \in Sessions, EndInbound(s) PROVE DispatchTypeOK'
  BY <1>25 DEF DispatchTypeOK, EndInbound
<1>26. ASSUME NEW s \in Sessions, FeatureSnapshot(s) PROVE DispatchTypeOK'
  BY <1>26 DEF DispatchTypeOK, FeatureSnapshot, Maybe
<1>27. CASE SessionOnly
  BY <1>27 DEF DispatchTypeOK, SessionOnly
<1> QED
  BY <1>1, <1>2, <1>3, <1>4, <1>5, <1>6, <1>7, <1>8, <1>9, <1>10, <1>11, <1>12, <1>13, <1>14,
     <1>15, <1>16, <1>17, <1>18, <1>19, <1>20, <1>21, <1>22, <1>23, <1>24, <1>25, <1>26, <1>27
  DEF DispatchNext, PumpStep, StreamStep

----------------------------------------------------------------------------
(* The invariant, conjunct by conjunct                                     *)

\* A step that leaves connections, leases and pumps alone.
LEMMA PumpWorkFrame ==
    PumpWork /\ UNCHANGED <<conn, lease, pump>> => PumpWork'
  BY DEF PumpWork

\* A session step: no connection is new again, and no pump loses its lease.
LEMMA PumpWorkSession ==
    ASSUME PumpWork, UNCHANGED pump,
           \A t \in Sessions : conn[t] \notin {"new", "claimed"} => conn'[t] \notin {"new", "claimed"},
           \A t \in Sessions : lease[HubOf[t]] = <<"dispatch", t>> => lease'[HubOf[t]] = <<"dispatch", t>>
    PROVE  PumpWork'
  BY DEF PumpWork

\* A pump that is at work nowhere: between two dispatches, waiting or done.
Leaves(s) == \E place \in {"drain", "wait", "closing", "done"} : Move(s, At(place))

\* A pump that stops or reports an error is at work nowhere.
LEMMA EndedLeaves ==
    ASSUME NEW s \in Sessions, SessionEnded(s) \/ Stop(s) \/ StreamError(s)
    PROVE  Leaves(s)
  BY DEF Leaves, SessionEnded, Stop, StreamError

\* A pump that leaves its work keeps the lease of nobody.
LEMMA PumpWorkLeaves ==
    ASSUME DispatchTypeOK, PumpWork, NEW s \in Sessions, pump[s].at # "off", Leaves(s),
           UNCHANGED vars \/ DropLease(s)
    PROVE  PumpWork'
<1> USE HubOfAssumption DEF DispatchTypeOK, TypeOK
<1>1. PICK place \in {"drain", "wait", "closing", "done"} : Move(s, At(place))
  BY DEF Leaves
<1>2. conn' = conn
  BY DEF vars, DropLease
<1>3. ASSUME NEW t \in Sessions, t # s PROVE pump'[t] = pump[t]
  BY <1>1, <1>3 DEF Move
<1>4. pump'[s] = At(place)
  BY <1>1 DEF Move
<1>5. ASSUME NEW t \in Sessions, t # s, lease[HubOf[t]] = <<"dispatch", t>>
      PROVE  lease'[HubOf[t]] = <<"dispatch", t>>
  <2>1. CASE UNCHANGED vars
    BY <1>5, <2>1 DEF vars
  <2>2. CASE DropLease(s)
    <3>1. HubOf[t] # HubOf[s]
      BY <1>5, <2>2 DEF DropLease
    <3> QED
      BY <1>5, <2>2, <3>1 DEF DropLease
  <2> QED
    BY <2>1, <2>2
<1>6. ASSUME NEW t \in Sessions, t # s
      PROVE  /\ pump'[t].at # "off" => conn'[t] \notin {"new", "claimed"}
             /\ pump'[t].at \in {"send", "fail", "marked"} =>
                  \E c \in Commands : pump'[t].todo = {c}
             /\ pump'[t].at = "fail" => pump'[t].todo \subseteq Gated \cup GcodeLines
             /\ pump'[t].at = "finalize" => pump'[t].todo # {} /\ pump'[t].todo \subseteq Gated
             /\ pump'[t].at \in {"send", "fail", "marked", "finalize"} =>
                  lease'[HubOf[t]] = <<"dispatch", t>>
  BY <1>2, <1>3, <1>5, <1>6 DEF PumpWork
<1>7. pump'[s].at = place /\ conn'[s] \notin {"new", "claimed"}
  BY <1>2, <1>4 DEF PumpWork, At
<1> QED
  BY <1>6, <1>7 DEF PumpWork

\* A pump that is at work keeps the lease and its command through every step.
LEMMA PumpWorkStep == SessionInv /\ DispatchInv /\ DispatchNext => PumpWork'
<1> SUFFICES ASSUME SessionInv, DispatchInv, DispatchNext PROVE PumpWork'
  OBVIOUS
<1>0. DispatchTypeOK /\ PumpWork /\ TypeOK /\ LeaseHeld /\ SweepOwn
  BY DEF DispatchInv, DispatchTypeOK, SessionInv
<1> USE HubOfAssumption, NoSessionAssumption
    DEF vars, dvars, pumps, stream, LeaseFree, Free, Places, At, Move
<1>1. ASSUME NEW c \in Commands, Enqueue(c) \/ Cancel(c) PROVE PumpWork'
  BY <1>0, <1>1, PumpWorkFrame DEF Enqueue, Cancel
<1>2. ASSUME NEW h \in Hubs, ReceiveWake(h) \/ LoseWake(h) PROVE PumpWork'
  BY <1>0, <1>2, PumpWorkFrame DEF ReceiveWake, LoseWake
<1>3. ASSUME NEW h \in Hubs, CrashHub(h) PROVE PumpWork'
  BY <1>0, <1>3 DEF CrashHub, Crash, PumpWork, DispatchTypeOK, TypeOK
<1>4. ASSUME NEW s \in Sessions, SpawnPump(s) PROVE PumpWork'
  BY <1>0, <1>4 DEF SpawnPump, SpawnTasks, PumpWork, DispatchTypeOK, TypeOK
<1>5. ASSUME NEW s \in Sessions, PumpRead(s) PROVE PumpWork'
  <2>1. Oldest(Queued) \in Commands
    BY <1>5, OldestIn DEF PumpRead, Queued
  <2>2. GateFails(s, Oldest(Queued)) => Oldest(Queued) \in Gated \cup GcodeLines
    BY DEF GateFails
  <2> QED
    BY <1>0, <1>5, <2>1, <2>2 DEF PumpRead, HoldLease, PumpWork, DispatchTypeOK, TypeOK
<1>6. ASSUME NEW s \in Sessions, PumpEmpty(s) PROVE PumpWork'
  <2>1. Leaves(s)
    BY <1>6, EndedLeaves DEF PumpEmpty, Leaves
  <2> QED
    BY <1>0, <1>6, <2>1, PumpWorkLeaves DEF PumpEmpty
<1>7. ASSUME NEW s \in Sessions, PumpFail(s) PROVE PumpWork'
  <2>1. Leaves(s)
    BY <1>7, EndedLeaves DEF PumpFail, Leaves
  <2> QED
    BY <1>0, <1>7, <2>1, PumpWorkLeaves DEF PumpFail
<1>8. ASSUME NEW s \in Sessions, PumpRefused(s) PROVE PumpWork'
  <2>1. Leaves(s)
    BY <1>8, EndedLeaves DEF PumpRefused, Leaves
  <2> QED
    BY <1>0, <1>8, <2>1, PumpWorkLeaves DEF PumpRefused
<1>9. ASSUME NEW s \in Sessions, PumpMark(s) PROVE PumpWork'
  <2>1. pump'[s].at = "marked" /\ pump'[s].todo = pump[s].todo
    BY <1>0, <1>9 DEF PumpMark, DispatchTypeOK
  <2>2. \A t \in Sessions : t # s => pump'[t] = pump[t]
    BY <1>0, <1>9 DEF PumpMark, DispatchTypeOK
  <2>3. UNCHANGED <<conn, lease>> /\ pump[s].at = "send"
    BY <1>9 DEF PumpMark
  <2> QED
    BY <1>0, <2>1, <2>2, <2>3 DEF PumpWork
<1>10. ASSUME NEW s \in Sessions, PumpSend(s) \/ PumpSendLost(s) PROVE PumpWork'
  <2>1. Leaves(s)
    BY <1>10, EndedLeaves DEF PumpSend, PumpSendLost, Leaves
  <2> QED
    BY <1>0, <1>10, <2>1, PumpWorkLeaves DEF PumpSend, PumpSendLost
<1>11. ASSUME NEW s \in Sessions, PumpError(s) PROVE PumpWork'
  <2>1. Leaves(s)
    BY <1>11, EndedLeaves DEF PumpError, Leaves
  <2> QED
    BY <1>0, <1>11, <2>1, PumpWorkLeaves DEF PumpError
<1>12. ASSUME NEW s \in Sessions, PumpWake(s) \/ PumpStatus(s) PROVE PumpWork'
  <2>1. Leaves(s)
    BY <1>12, EndedLeaves DEF PumpWake, PumpStatus, Leaves
  <2> QED
    BY <1>0, <1>12, <2>1, PumpWorkLeaves DEF PumpWake, PumpStatus
<1>13. ASSUME NEW s \in Sessions, PumpClose(s) PROVE PumpWork'
  <2>1. Leaves(s)
    BY <1>13, EndedLeaves DEF PumpClose, Leaves
  <2> QED
    BY <1>0, <1>13, <2>1, PumpWorkLeaves DEF PumpClose
<1>14. ASSUME NEW s \in Sessions, Finalize(s) PROVE PumpWork'
  <2>1. CASE SessionEnded(s) /\ UNCHANGED vars
    BY <1>0, <1>14, <2>1, EndedLeaves, PumpWorkLeaves DEF Finalize
  <2>2. CASE ~(SessionEnded(s) /\ UNCHANGED vars)
    <3>1. /\ Queued \cap Gated # {}
          /\ pump' = [pump EXCEPT ![s] = [at |-> "finalize", todo |-> Queued \cap Gated]]
          /\ HoldLease(s)
      BY <1>14, <2>2, Zenon DEF Finalize, Move
    <3>2. pump'[s].at = "finalize" /\ pump'[s].todo = Queued \cap Gated
      BY <1>0, <3>1 DEF DispatchTypeOK
    <3> QED
      BY <1>0, <1>14, <3>1, <3>2 DEF Finalize, HoldLease, PumpWork, DispatchTypeOK, TypeOK
  <2> QED
    BY <2>1, <2>2
<1>15. ASSUME NEW s \in Sessions, FinalizeOne(s) PROVE PumpWork'
  <2>1. CASE SessionEnded(s) /\ DropLease(s)
    BY <1>0, <1>15, <2>1, EndedLeaves, PumpWorkLeaves DEF FinalizeOne
  <2>2. CASE ~(SessionEnded(s) /\ DropLease(s))
    <3> DEFINE rest == pump[s].todo \ {Oldest(pump[s].todo)}
    <3>1. rest # {} /\ pump' = [pump EXCEPT ![s].todo = rest] /\ UNCHANGED <<conn, lease>>
      BY <1>15, <2>2 DEF FinalizeOne
    <3>2. pump'[s].at = "finalize" /\ pump'[s].todo = rest
      BY <1>0, <1>15, <3>1 DEF DispatchTypeOK, FinalizeOne
    <3>3. \A t \in Sessions : t # s => pump'[t] = pump[t]
      BY <1>0, <3>1 DEF DispatchTypeOK
    <3>4. rest # {} /\ rest \subseteq Gated /\ pump[s].at = "finalize"
      BY <1>0, <1>15, <3>1 DEF PumpWork, FinalizeOne
    <3> HIDE DEF rest
    <3> QED
      BY <1>0, <3>1, <3>2, <3>3, <3>4 DEF PumpWork
  <2> QED
    BY <2>1, <2>2
<1>16. ASSUME NEW s \in Sessions,
              AgentTake(s) \/ AgentFinish(s) \/ AgentGone(s) \/ InboundReceive(s)
                \/ InboundApply(s) \/ FeatureSnapshot(s)
       PROVE  PumpWork'
  BY <1>0, <1>16, PumpWorkFrame
  DEF AgentTake, AgentFinish, AgentGone, InboundReceive, InboundApply, FeatureSnapshot
<1>17. ASSUME NEW s \in Sessions, EndInbound(s) PROVE PumpWork'
  BY <1>0, <1>17 DEF EndInbound, InboundEnds, PumpWork, DispatchTypeOK, TypeOK
<1>18. ASSUME SessionOnly PROVE PumpWork'
  <2>0. UNCHANGED dvars
    BY <1>18 DEF SessionOnly
  <2> USE <1>0, <2>0 DEF PumpWork, DispatchTypeOK, TypeOK
  <2>1. ASSUME NEW s \in Sessions, ClaimOnline(s) PROVE PumpWork'
    BY <2>1 DEF ClaimOnline
  <2>2. ASSUME NEW s \in Sessions, Register(s) \/ AbandonConnect(s) PROVE PumpWork'
    <3>1. conn[s] = "claimed" => lease[HubOf[s]] = <<"connect", s>>
      BY DEF LeaseHeld
    <3>2. CASE Register(s)
      BY <3>1, <3>2, PumpWorkSession DEF Register
    <3>3. CASE AbandonConnect(s)
      BY <3>1, <3>3, PumpWorkSession DEF AbandonConnect
    <3> QED
      BY <2>2, <3>2, <3>3
  <2>3. ASSUME NEW s \in Sessions, Disconnect(s) \/ DisconnectError(s) PROVE PumpWork'
    BY <2>3 DEF Disconnect, DisconnectError
  <2>4. ASSUME NEW s \in Sessions, DisconnectRemove(s) PROVE PumpWork'
    BY <2>4 DEF DisconnectRemove, LeaseHeld
  <2>5. ASSUME NEW s \in Sessions, Heartbeat(s) \/ GoStale(s) PROVE PumpWork'
    BY <2>5, PumpWorkFrame DEF Heartbeat, GoStale
  <2>6. ASSUME NEW h \in Hubs, CollectStale(h) \/ ExpireError(h) \/ CloseAgent(h) PROVE PumpWork'
    BY <2>6, PumpWorkFrame DEF CollectStale, ExpireError, CloseAgent
  <2>7. ASSUME NEW h \in Hubs, ExpireStale(h) PROVE PumpWork'
    <3>1. LeaseFree(h) /\ UNCHANGED conn
      BY <2>7 DEF ExpireStale
    <3>2. \A g \in Hubs : g # h => lease'[g] = lease[g]
      BY <2>7 DEF ExpireStale
    <3>3. ASSUME NEW t \in Sessions, lease[HubOf[t]] = <<"dispatch", t>>
          PROVE  lease'[HubOf[t]] = <<"dispatch", t>>
      <4>1. HubOf[t] \in Hubs
        BY HubOfAssumption
      <4>2. lease[h] # <<"dispatch", t>>
        BY <3>1
      <4> QED
        BY <3>2, <3>3, <4>1, <4>2
    <3> QED
      BY <3>1, <3>3, PumpWorkSession
  <2>8. ASSUME NEW h \in Hubs, ExpireRemove(h) PROVE PumpWork'
    <3>1. lease[h] = <<"expire", sweep[h].session>>
      BY <2>8 DEF ExpireRemove, LeaseHeld
    <3> QED
      BY <2>8, <3>1, PumpWorkSession DEF ExpireRemove
  <2>9. ASSUME NEW m \in control, ReceiveClose(m) \/ LoseClose(m) PROVE PumpWork'
    BY <2>9, PumpWorkFrame DEF ReceiveClose, LoseClose
  <2> QED
    BY <1>18, <2>1, <2>2, <2>3, <2>4, <2>5, <2>6, <2>7, <2>8, <2>9 DEF SessionOnly
<1> QED
  BY <1>1, <1>2, <1>3, <1>4, <1>5, <1>6, <1>7, <1>8, <1>9, <1>10, <1>11, <1>12, <1>13, <1>14,
     <1>15, <1>16, <1>17, <1>18 DEF DispatchNext, PumpStep, StreamStep

\* The conjuncts about commands.
CommandInv ==
    SendIsFirst /\ MarkedIsOwned /\ StreamsOwn /\ OwnerMatchesStatus /\ AtMostOnceDelivery

\* How the ledger moves a command that is not being marked sent.
Moves(c) ==
    \/ cmd'[c] = cmd[c]
    \/ cmd[c] = "none" /\ cmd'[c] = "queued"
    \/ cmd[c] = "queued" /\ cmd'[c] \in {"cancelled", "failed"}
    \/ cmd[c] \in {"sent", "acknowledged"} /\ cmd'[c] \in {"acknowledged", "succeeded", "failed"}

\* No pump starts to send or has marked a command.
PumpsKept ==
    \A t \in Sessions : pump'[t].at \in {"send", "marked"} => pump'[t] = pump[t]

\* The row names no session again.
RowKept ==
    \A t \in Sessions : pump[t].at # "off" /\ RowNames(t)' => RowNames(t)

StreamsKept == \A t \in Sessions : Commands \cap InFlight(t)' \subseteq InFlight(t)

\* A step that starts no send, takes no row and adds nothing to a stream keeps
\* the invariant of the commands.
LEMMA CommandInvFrame ==
    ASSUME DispatchTypeOK, CommandInv, PumpsKept, RowKept, StreamsKept,
           \A c \in Commands : Moves(c), UNCHANGED <<features, sentOn, deliveries>>
    PROVE  CommandInv'
<1>1. SendIsFirst'
  <2> SUFFICES ASSUME NEW s \in Sessions, NEW c \in pump'[s].todo,
                      pump'[s].at = "send", RowNames(s)'
               PROVE  cmd'[c] \in {"queued", "cancelled", "failed"} /\ (c \in Gated => features = s)
    BY DEF SendIsFirst
  <2>1. pump'[s] = pump[s]
    BY DEF PumpsKept
  <2>2. RowNames(s) /\ c \in Commands
    BY <2>1 DEF RowKept, DispatchTypeOK
  <2> QED
    BY <2>1, <2>2 DEF CommandInv, SendIsFirst, Moves
<1>2. MarkedIsOwned'
  <2> SUFFICES ASSUME NEW s \in Sessions, NEW c \in pump'[s].todo, pump'[s].at = "marked"
               PROVE  sentOn[c] = s /\ deliveries[c] = 0
    BY DEF MarkedIsOwned
  <2> QED
    BY DEF PumpsKept, CommandInv, MarkedIsOwned
<1>3. StreamsOwn'
  BY DEF CommandInv, StreamsOwn, StreamsKept
<1>4. OwnerMatchesStatus'
  BY DEF CommandInv, OwnerMatchesStatus, Moves
<1>5. AtMostOnceDelivery'
  BY DEF CommandInv, AtMostOnceDelivery
<1> QED
  BY <1>1, <1>2, <1>3, <1>4, <1>5 DEF CommandInv

\* A transition of the agent or of the final sweep moves one command.
LEMMA TransitionMoves ==
    ASSUME DispatchTypeOK, NEW c \in Commands,
           NEW action \in {"failqueued", "ack", "reject", "succeed", "fail"},
           Transition(c, action)
    PROVE  \A d \in Commands : Moves(d)
<1>1. \A d \in Commands : d # c => cmd'[d] = cmd[d]
  BY DEF DispatchTypeOK, Transition
<1>2. cmd'[c] = IF Applies(c, action) THEN Target[action] ELSE cmd[c]
  BY DEF DispatchTypeOK, Transition
<1>3. Moves(c)
  BY <1>2 DEF Moves, Applies, Allowed, Target
<1> QED
  BY <1>1, <1>3 DEF Moves

\* A pump that leaves its work brings no new command into a pump.
LEMMA LeavesPumps ==
    ASSUME DispatchTypeOK, NEW s \in Sessions, Leaves(s)
    PROVE  PumpsKept
  BY DEF DispatchTypeOK, Leaves, Move, At, PumpsKept

\* Streams that do not change name no new command.
LEMMA StreamsFrame == UNCHANGED <<down, work, up, inb>> => StreamsKept
  BY DEF StreamsKept, InFlight

\* A row that does not change, or names nobody, names no new session.
LEMMA RowFrame == row'.session = row.session \/ row'.session = NoSession => RowKept
  BY NoSessionAssumption DEF RowKept, RowNames

\* The agent takes a command or finishes one: it names no command that was not
\* on its stream.
LEMMA SayKeepsStreams ==
    ASSUME DispatchTypeOK, NEW s \in Sessions, NEW c \in Commands, NEW kind \in Answers,
           c \in InFlight(s), Say(s, kind, c), UNCHANGED inb,
           \A t \in Sessions : t # s => down'[t] = down[t] /\ work'[t] = work[t],
           Elems(down'[s]) \subseteq Elems(down[s]), work'[s] \in {c, work[s], NoCommand}
    PROVE  StreamsKept
<1>1. ASSUME NEW t \in Sessions, t # s PROVE InFlight(t)' = InFlight(t)
  BY <1>1 DEF InFlight, Say, DispatchTypeOK
<1>2. up'[s] = Append(up[s], <<kind, c>>) /\ up[s] \in Seq(Events) /\ <<kind, c>> \in Events
  BY DEF Say, DispatchTypeOK, Events
<1>3. Elems(up'[s]) = Elems(up[s]) \cup {<<kind, c>>}
  BY <1>2, ElemsAppend
<1>4. {e[2] : e \in Elems(up'[s])} \subseteq InFlight(s)
  BY <1>3 DEF InFlight
<1>5. Commands \cap InFlight(s)' \subseteq InFlight(s)
  BY <1>4, CommandsAssumption DEF InFlight
<1> QED
  BY <1>1, <1>5 DEF StreamsKept

\* The steps of the pump other than reading, marking and sending.
LEMMA PumpLeavesInv ==
    ASSUME DispatchTypeOK, CommandInv, NEW s \in Sessions, Leaves(s), UNCHANGED vars \/ DropLease(s),
           \A c \in Commands : Moves(c),
           UNCHANGED <<features, sentOn, deliveries, down, work, up, inb>>
    PROVE  CommandInv'
<1>1. RowKept
  BY RowFrame DEF vars, DropLease
<1> QED
  BY <1>1, LeavesPumps, StreamsFrame, CommandInvFrame

\* Every step keeps what relates ledger, pumps and streams.
LEMMA CommandInvStep == SessionInv /\ DispatchInv /\ DispatchNext => CommandInv'
<1> SUFFICES ASSUME SessionInv, DispatchInv, DispatchNext PROVE CommandInv'
  OBVIOUS
<1>0. DispatchTypeOK /\ CommandInv /\ PumpWork
  BY DEF DispatchInv, CommandInv
<1> USE DEF ledger, stream, pumps
<1>1. ASSUME NEW c \in Commands, Enqueue(c) \/ Cancel(c) PROVE CommandInv'
  <2>1. \A d \in Commands : Moves(d)
    BY <1>0, <1>1 DEF Enqueue, Cancel, Moves, DispatchTypeOK
  <2>2. PumpsKept /\ RowKept
    BY <1>1, RowFrame DEF Enqueue, Cancel, PumpsKept, vars
  <2> QED
    BY <1>0, <1>1, <2>1, <2>2, StreamsFrame, CommandInvFrame DEF Enqueue, Cancel
<1>2. ASSUME NEW h \in Hubs, ReceiveWake(h) \/ LoseWake(h) PROVE CommandInv'
  <2>1. PumpsKept /\ RowKept
    BY <1>2, RowFrame DEF ReceiveWake, LoseWake, PumpsKept, vars
  <2> QED
    BY <1>0, <1>2, <2>1, StreamsFrame, CommandInvFrame DEF ReceiveWake, LoseWake, Moves
<1>3. ASSUME NEW h \in Hubs, CrashHub(h) PROVE CommandInv'
  <2>1. PumpsKept /\ RowKept
    BY <1>0, <1>3, RowFrame DEF CrashHub, Crash, PumpsKept, At, DispatchTypeOK
  <2>2. ASSUME NEW s \in Sessions PROVE Commands \cap InFlight(s)' \subseteq InFlight(s)
    <3>1. \/ InFlight(s)' = InFlight(s)
          \/ down'[s] = <<>> /\ work'[s] = NoCommand /\ up'[s] = <<>> /\ inb'[s] = NoEvent
      BY <1>3 DEF CrashHub, InFlight
    <3> QED
      BY <3>1, ElemsEmpty, CommandsAssumption DEF InFlight, NoEvent
  <2> QED
    BY <1>0, <1>3, <2>1, <2>2, CommandInvFrame DEF CrashHub, Moves, StreamsKept
<1>4. ASSUME NEW s \in Sessions, SpawnPump(s) PROVE CommandInv'
  <2>1. PumpsKept /\ RowKept
    BY <1>0, <1>4, RowFrame DEF SpawnPump, SpawnTasks, Move, At, PumpsKept, DispatchTypeOK
  <2> QED
    BY <1>0, <1>4, <2>1, StreamsFrame, CommandInvFrame DEF SpawnPump, Moves
<1>6. ASSUME NEW s \in Sessions, PumpEmpty(s) PROVE CommandInv'
  <2>1. Leaves(s)
    BY <1>6, EndedLeaves DEF PumpEmpty, Leaves
  <2> QED
    BY <1>0, <1>6, <2>1, PumpLeavesInv DEF PumpEmpty, Moves
<1>7. ASSUME NEW s \in Sessions, PumpFail(s) PROVE CommandInv'
  <2>1. Leaves(s)
    BY <1>7, EndedLeaves DEF PumpFail, Leaves
  <2>2. \A c \in Commands : Moves(c)
    <3>1. CASE UNCHANGED cmd
      BY <3>1 DEF Moves
    <3>2. CASE Transition(Oldest(pump[s].todo), "failqueued")
      BY <1>0, <1>7, <3>2, PumpCommand, TransitionMoves DEF PumpFail
    <3> QED
      BY <1>7, <3>1, <3>2 DEF PumpFail
  <2> QED
    BY <1>0, <1>7, <2>1, <2>2, PumpLeavesInv DEF PumpFail
<1>8. ASSUME NEW s \in Sessions, PumpRefused(s) PROVE CommandInv'
  <2>1. Leaves(s)
    BY <1>8, EndedLeaves DEF PumpRefused, Leaves
  <2> QED
    BY <1>0, <1>8, <2>1, PumpLeavesInv DEF PumpRefused, Moves
<1>9. ASSUME NEW s \in Sessions, PumpSendLost(s) PROVE CommandInv'
  <2>1. Leaves(s)
    BY <1>9, EndedLeaves DEF PumpSendLost, Leaves
  <2> QED
    BY <1>0, <1>9, <2>1, PumpLeavesInv DEF PumpSendLost, Moves
<1>10. ASSUME NEW s \in Sessions, PumpError(s) PROVE CommandInv'
  <2>1. Leaves(s)
    BY <1>10, EndedLeaves DEF PumpError
  <2> QED
    BY <1>0, <1>10, <2>1, PumpLeavesInv DEF PumpError, Moves
<1>11. ASSUME NEW s \in Sessions, PumpWake(s) \/ PumpStatus(s) PROVE CommandInv'
  <2>1. Leaves(s)
    BY <1>11, EndedLeaves DEF PumpWake, PumpStatus, Leaves
  <2> QED
    BY <1>0, <1>11, <2>1, PumpLeavesInv DEF PumpWake, PumpStatus, Moves
<1>12. ASSUME NEW s \in Sessions, PumpClose(s) PROVE CommandInv'
  <2>1. Leaves(s)
    BY <1>12 DEF PumpClose, Leaves
  <2> QED
    BY <1>0, <1>12, <2>1, PumpLeavesInv DEF PumpClose, Moves
<1>13. ASSUME NEW s \in Sessions, Finalize(s) PROVE CommandInv'
  <2>1. PumpsKept /\ RowKept
    <3>1. CASE SessionEnded(s) /\ UNCHANGED vars
      BY <1>0, <3>1, EndedLeaves, LeavesPumps, RowFrame DEF vars
    <3>2. CASE ~(SessionEnded(s) /\ UNCHANGED vars)
      <4>1. /\ pump' = [pump EXCEPT ![s] = [at |-> "finalize", todo |-> Queued \cap Gated]]
            /\ HoldLease(s)
        BY <1>13, <3>2, Zenon DEF Finalize, Move
      <4> QED
        BY <1>0, <4>1, RowFrame DEF HoldLease, PumpsKept, DispatchTypeOK
    <3> QED
      BY <3>1, <3>2
  <2> QED
    BY <1>0, <1>13, <2>1, StreamsFrame, CommandInvFrame DEF Finalize, Moves
<1>14. ASSUME NEW s \in Sessions, FinalizeOne(s) PROVE CommandInv'
  <2>1. \A c \in Commands : Moves(c)
    <3>1. CASE UNCHANGED cmd
      BY <3>1 DEF Moves
    <3>2. CASE Transition(Oldest(pump[s].todo), "failqueued")
      BY <1>0, <1>14, <3>2, PumpCommand, TransitionMoves DEF FinalizeOne
    <3> QED
      BY <1>14, <3>1, <3>2 DEF FinalizeOne
  <2>2. CASE SessionEnded(s) /\ DropLease(s)
    BY <1>0, <1>14, <2>1, <2>2, EndedLeaves, PumpLeavesInv DEF FinalizeOne
  <2>3. CASE ~(SessionEnded(s) /\ DropLease(s))
    <3>1. /\ pump' = [pump EXCEPT ![s].todo = pump[s].todo \ {Oldest(pump[s].todo)}]
          /\ UNCHANGED vars /\ pump[s].at = "finalize"
      BY <1>14, <2>3 DEF FinalizeOne
    <3>2. PumpsKept /\ RowKept
      BY <1>0, <3>1, RowFrame DEF vars, PumpsKept, DispatchTypeOK
    <3> QED
      BY <1>0, <1>14, <2>1, <3>2, StreamsFrame, CommandInvFrame DEF FinalizeOne
  <2> QED
    BY <2>2, <2>3
<1>15. ASSUME NEW s \in Sessions, PumpRead(s) PROVE CommandInv'
  <2> DEFINE c == Oldest(Queued)
             place == IF GateFails(s, c) THEN "fail" ELSE "send"
  <2>1. c \in Commands /\ cmd[c] = "queued"
    BY <1>15, OldestIn DEF PumpRead, Queued
  <2>2. pump' = [pump EXCEPT ![s] = [at |-> place, todo |-> {c}]]
    BY <1>15 DEF PumpRead, Move
  <2>3. pump'[s].at = place /\ pump'[s].todo = {c} /\ \A t \in Sessions : t # s => pump'[t] = pump[t]
    BY <1>0, <2>2 DEF DispatchTypeOK
  <2>4. UNCHANGED <<row, cmd, features, sentOn, deliveries, down, work, up, inb>>
    BY <1>15 DEF PumpRead, HoldLease
  <2>5. place = "send" /\ c \in Gated => features = s
    BY DEF GateFails
  <2>6. SendIsFirst'
    <3> SUFFICES ASSUME NEW t \in Sessions, NEW d \in pump'[t].todo,
                        pump'[t].at = "send", RowNames(t)'
                 PROVE  cmd'[d] \in {"queued", "cancelled", "failed"} /\ (d \in Gated => features' = t)
      BY DEF SendIsFirst
    <3> HIDE DEF c, place
    <3>1. CASE t = s
      BY <2>1, <2>3, <2>4, <2>5, <3>1
    <3>2. CASE t # s
      BY <1>0, <2>3, <2>4, <3>2 DEF CommandInv, SendIsFirst, RowNames
    <3> QED
      BY <3>1, <3>2
  <2>7. MarkedIsOwned'
    <3>1. ASSUME NEW t \in Sessions, pump'[t].at = "marked" PROVE pump'[t] = pump[t]
      BY <2>3, <3>1
    <3> QED
      BY <1>0, <2>4, <3>1 DEF CommandInv, MarkedIsOwned
  <2>8. StreamsOwn'
    BY <1>0, <2>4, StreamsFrame DEF CommandInv, StreamsOwn, StreamsKept
  <2> QED
    BY <1>0, <2>4, <2>6, <2>7, <2>8 DEF CommandInv, OwnerMatchesStatus, AtMostOnceDelivery
<1>16. ASSUME NEW s \in Sessions, PumpMark(s) PROVE CommandInv'
  <2> DEFINE c == Oldest(pump[s].todo)
  <2>1. c \in Commands /\ pump[s].todo = {c}
    <3>1. PICK d \in Commands : pump[s].todo = {d}
      BY <1>0, <1>16 DEF PumpWork, PumpMark
    <3> QED
      BY <3>1, OldestOne
  <2>2. cmd[c] = "queued"
    <3>1. cmd[c] \in {"queued", "cancelled", "failed"}
      BY <1>0, <1>16, <2>1 DEF PumpMark, CommandInv, SendIsFirst
    <3>2. Applies(c, "send") \/ Repeats(c, "send")
      BY <1>16 DEF PumpMark
    <3> QED
      BY <3>1, <3>2 DEF Applies, Allowed, Repeats, Target
  <2>3. sentOn[c] = NoSession /\ deliveries[c] = 0
    BY <1>0, <2>1, <2>2 DEF CommandInv, OwnerMatchesStatus
  <2>4. /\ cmd'[c] = "sent" /\ \A d \in Commands : d # c => cmd'[d] = cmd[d]
        /\ sentOn'[c] = s /\ \A d \in Commands : d # c => sentOn'[d] = sentOn[d]
    BY <1>0, <1>16, <2>1, <2>2 DEF PumpMark, Transition, Applies, Allowed, Target, DispatchTypeOK
  <2>5. /\ pump'[s].at = "marked" /\ pump'[s].todo = {c}
        /\ \A t \in Sessions : t # s => pump'[t] = pump[t]
    BY <1>0, <1>16, <2>1 DEF PumpMark, DispatchTypeOK
  <2>6. UNCHANGED <<row, features, deliveries, down, work, up, inb>> /\ RowNames(s)
    BY <1>16 DEF PumpMark, vars
  <2> HIDE DEF c
  <2>7. SendIsFirst'
    <3> SUFFICES ASSUME NEW t \in Sessions, NEW d \in pump'[t].todo,
                        pump'[t].at = "send", RowNames(t)'
                 PROVE  FALSE
      BY DEF SendIsFirst
    <3> QED
      BY <2>5, <2>6 DEF RowNames
  <2>8. MarkedIsOwned'
    <3> SUFFICES ASSUME NEW t \in Sessions, NEW d \in pump'[t].todo, pump'[t].at = "marked"
                 PROVE  sentOn'[d] = t /\ deliveries'[d] = 0
      BY DEF MarkedIsOwned
    <3>1. CASE t = s
      BY <2>3, <2>4, <2>5, <2>6, <3>1
    <3>2. CASE t # s
      <4>1. d \in Commands /\ sentOn[d] = t /\ deliveries[d] = 0
        BY <1>0, <2>5, <3>2 DEF CommandInv, MarkedIsOwned, DispatchTypeOK
      <4> QED
        BY <2>3, <2>4, <2>6, <4>1, NoSessionAssumption
    <3> QED
      BY <3>1, <3>2
  <2>9. StreamsOwn'
    <3> SUFFICES ASSUME NEW t \in Sessions, NEW d \in Commands \cap InFlight(t)'
                 PROVE  sentOn'[d] = t
      BY DEF StreamsOwn
    <3>1. d \in InFlight(t) /\ sentOn[d] = t
      BY <1>0, <2>6 DEF InFlight, CommandInv, StreamsOwn
    <3> QED
      BY <2>3, <2>4, <3>1, NoSessionAssumption
  <2>10. OwnerMatchesStatus'
    BY <1>0, <2>1, <2>3, <2>4, <2>6, NoSessionAssumption DEF CommandInv, OwnerMatchesStatus
  <2> QED
    BY <1>0, <2>6, <2>7, <2>8, <2>9, <2>10 DEF CommandInv, AtMostOnceDelivery
<1>17. ASSUME NEW s \in Sessions, PumpSend(s) PROVE CommandInv'
  <2> DEFINE c == Oldest(pump[s].todo)
  <2>1. c \in Commands /\ c \in pump[s].todo
    BY <1>0, <1>17, PumpCommand DEF PumpSend
  <2>2. sentOn[c] = s /\ deliveries[c] = 0 /\ pump[s].at = "marked"
    BY <1>0, <1>17, <2>1 DEF PumpSend, CommandInv, MarkedIsOwned
  <2>3. deliveries'[c] = 1 /\ \A d \in Commands : d # c => deliveries'[d] = deliveries[d]
    BY <1>0, <1>17, <2>1, <2>2 DEF PumpSend, Deliver, DispatchTypeOK
  <2>4. /\ \A t \in Sessions : t # s => pump'[t] = pump[t] /\ down'[t] = down[t]
        /\ pump'[s].at = "drain"
        /\ down'[s] \in {down[s], Append(down[s], c)}
    BY <1>0, <1>17 DEF PumpSend, Deliver, Move, At, DispatchTypeOK
  <2>5. UNCHANGED <<row, cmd, features, sentOn, work, up, inb>>
    BY <1>17 DEF PumpSend, DropLease
  <2>6. Elems(down'[s]) \subseteq Elems(down[s]) \cup {c}
    <3>1. down[s] \in Seq(Commands)
      BY <1>0 DEF DispatchTypeOK
    <3>2. Elems(Append(down[s], c)) = Elems(down[s]) \cup {c}
      BY <2>1, <3>1, ElemsAppend
    <3> QED
      BY <2>4, <3>2
  <2> HIDE DEF c
  <2>7. SendIsFirst'
    <3>1. ASSUME NEW t \in Sessions, pump'[t].at = "send" PROVE pump'[t] = pump[t]
      BY <2>4, <3>1
    <3> QED
      BY <1>0, <2>5, <3>1 DEF CommandInv, SendIsFirst, RowNames
  <2>8. MarkedIsOwned'
    <3> SUFFICES ASSUME NEW t \in Sessions, NEW d \in pump'[t].todo, pump'[t].at = "marked"
                 PROVE  sentOn'[d] = t /\ deliveries'[d] = 0
      BY DEF MarkedIsOwned
    <3>1. t # s /\ pump'[t] = pump[t]
      BY <2>4
    <3>2. d \in Commands /\ sentOn[d] = t /\ deliveries[d] = 0
      BY <1>0, <3>1 DEF CommandInv, MarkedIsOwned, DispatchTypeOK
    <3> QED
      BY <2>2, <2>3, <2>5, <3>1, <3>2
  <2>9. StreamsOwn'
    <3> SUFFICES ASSUME NEW t \in Sessions, NEW d \in Commands \cap InFlight(t)'
                 PROVE  sentOn'[d] = t
      BY DEF StreamsOwn
    <3>1. CASE t # s
      <4>1. d \in InFlight(t)
        BY <2>4, <2>5, <3>1 DEF InFlight
      <4> QED
        BY <1>0, <2>5, <4>1 DEF CommandInv, StreamsOwn
    <3>2. CASE t = s
      <4>1. d \in InFlight(s) \/ d = c
        BY <2>5, <2>6, <3>2 DEF InFlight
      <4> QED
        BY <1>0, <2>2, <2>5, <3>2, <4>1 DEF CommandInv, StreamsOwn
    <3> QED
      BY <3>1, <3>2
  <2>10. OwnerMatchesStatus'
    <3> SUFFICES ASSUME NEW d \in Commands, sentOn[d] = NoSession
                 PROVE  deliveries'[d] = 0
      BY <1>0, <2>5 DEF CommandInv, OwnerMatchesStatus
    <3> QED
      BY <1>0, <2>2, <2>3, NoSessionAssumption DEF CommandInv, OwnerMatchesStatus
  <2>11. AtMostOnceDelivery'
    <3> SUFFICES ASSUME NEW d \in Commands PROVE deliveries'[d] <= 1
      BY DEF AtMostOnceDelivery
    <3> QED
      BY <1>0, <2>3 DEF CommandInv, AtMostOnceDelivery
  <2> QED
    BY <2>7, <2>8, <2>9, <2>10, <2>11 DEF CommandInv
<1>18. ASSUME NEW s \in Sessions, AgentTake(s) PROVE CommandInv'
  <2> DEFINE c == Head(down[s])
  <2>1. /\ c \in Commands /\ c \in Elems(down[s])
        /\ Elems(Tail(down[s])) \subseteq Elems(down[s])
    BY <1>0, <1>18, ElemsHeadTail DEF AgentTake, DispatchTypeOK
  <2>2. "ack" \in Answers /\ "reject" \in Answers
    BY DEF Answers
  <2>3. /\ down' = [down EXCEPT ![s] = Tail(@)]
        /\ (Say(s, "ack", c) /\ work' = [work EXCEPT ![s] = c]) \/ (Say(s, "reject", c) /\ UNCHANGED work)
        /\ UNCHANGED inb
    BY <1>18 DEF AgentTake
  <2>4. /\ \A t \in Sessions : t # s => down'[t] = down[t] /\ work'[t] = work[t]
        /\ Elems(down'[s]) \subseteq Elems(down[s]) /\ work'[s] \in {c, work[s], NoCommand}
    BY <1>0, <2>1, <2>3 DEF DispatchTypeOK
  <2>5. c \in InFlight(s)
    BY <2>1 DEF InFlight
  <2> HIDE DEF c
  <2>6. StreamsKept
    BY <1>0, <2>1, <2>2, <2>3, <2>4, <2>5, SayKeepsStreams
  <2>7. PumpsKept /\ RowKept
    BY <1>18, RowFrame DEF AgentTake, PumpsKept, vars
  <2> QED
    BY <1>0, <1>18, <2>6, <2>7, CommandInvFrame DEF AgentTake, Moves
<1>19. ASSUME NEW s \in Sessions, AgentFinish(s) PROVE CommandInv'
  <2>1. work[s] \in Commands /\ work[s] \in InFlight(s)
    BY <1>0, <1>19 DEF AgentFinish, DispatchTypeOK, InFlight
  <2>2. PICK kind \in {"succeed", "fail"} : Say(s, kind, work[s])
    BY <1>19 DEF AgentFinish
  <2>3. kind \in Answers
    BY DEF Answers
  <2>4. /\ \A t \in Sessions : t # s => down'[t] = down[t] /\ work'[t] = work[t]
        /\ Elems(down'[s]) \subseteq Elems(down[s]) /\ work'[s] = NoCommand /\ UNCHANGED inb
    BY <1>0, <1>19 DEF AgentFinish, DispatchTypeOK
  <2>5. StreamsKept
    BY <1>0, <2>1, <2>2, <2>3, <2>4, SayKeepsStreams
  <2>6. PumpsKept /\ RowKept
    BY <1>19, RowFrame DEF AgentFinish, PumpsKept, vars
  <2> QED
    BY <1>0, <1>19, <2>5, <2>6, CommandInvFrame DEF AgentFinish, Moves
<1>20. ASSUME NEW s \in Sessions, AgentGone(s) \/ EndInbound(s) PROVE CommandInv'
  <2>1. ASSUME NEW t \in Sessions PROVE Commands \cap InFlight(t)' \subseteq InFlight(t)
    <3>1. /\ down'[t] \in {down[t], <<>>} /\ work'[t] \in {work[t], NoCommand}
          /\ up'[t] \in {up[t], <<>>} /\ inb'[t] \in {inb[t], NoEvent}
      BY <1>0, <1>20 DEF AgentGone, EndInbound, DispatchTypeOK
    <3>2. /\ Elems(down'[t]) \subseteq Elems(down[t]) /\ Elems(up'[t]) \subseteq Elems(up[t])
          /\ inb'[t][2] \in {inb[t][2], NoCommand}
      BY <3>1, ElemsEmpty DEF NoEvent
    <3> QED
      BY <3>1, <3>2, CommandsAssumption DEF InFlight
  <2>2. PumpsKept /\ RowKept
    BY <1>20, RowFrame DEF AgentGone, EndInbound, InboundEnds, PumpsKept, vars
  <2> QED
    BY <1>0, <1>20, <2>1, <2>2, CommandInvFrame DEF AgentGone, EndInbound, Moves, StreamsKept
<1>21. ASSUME NEW s \in Sessions, InboundReceive(s) PROVE CommandInv'
  <2>1. /\ Head(up[s]) \in Elems(up[s]) /\ Elems(Tail(up[s])) \subseteq Elems(up[s])
        /\ Tail(up[s]) = up'[s]
    BY <1>0, <1>21, ElemsHeadTail DEF InboundReceive, DispatchTypeOK
  <2>2. ASSUME NEW t \in Sessions PROVE Commands \cap InFlight(t)' \subseteq InFlight(t)
    <3>1. CASE t # s
      BY <1>0, <1>21, <3>1 DEF InboundReceive, InFlight, DispatchTypeOK
    <3>2. CASE t = s
      <4>1. inb'[s] \in {Head(up[s]), NoEvent} /\ UNCHANGED <<down, work>>
        BY <1>0, <1>21 DEF InboundReceive, DispatchTypeOK
      <4>2. inb'[s][2] \in {e[2] : e \in Elems(up[s])} \/ inb'[s][2] = NoCommand
        BY <2>1, <4>1 DEF NoEvent
      <4> QED
        BY <2>1, <3>2, <4>1, <4>2, CommandsAssumption DEF InFlight
    <3> QED
      BY <3>1, <3>2
  <2>3. PumpsKept /\ RowKept
    BY <1>21, RowFrame DEF InboundReceive, PumpsKept, vars
  <2> QED
    BY <1>0, <1>21, <2>2, <2>3, CommandInvFrame DEF InboundReceive, Moves, StreamsKept
<1>22. ASSUME NEW s \in Sessions, InboundApply(s) PROVE CommandInv'
  <2>1. inb[s] \in Events
    BY <1>0, <1>22 DEF InboundApply, DispatchTypeOK
  <2>2. \A c \in Commands : Moves(c)
    <3>1. CASE UNCHANGED cmd
      BY <3>1 DEF Moves
    <3>2. CASE Transition(inb[s][2], inb[s][1])
      BY <1>0, <2>1, <3>2, TransitionMoves DEF Events, Answers
    <3> QED
      BY <1>22, <3>1, <3>2 DEF InboundApply
  <2>3. ASSUME NEW t \in Sessions PROVE Commands \cap InFlight(t)' \subseteq InFlight(t)
    <3>1. inb'[t] \in {inb[t], NoEvent} /\ UNCHANGED <<down, work, up>>
      BY <1>0, <1>22 DEF InboundApply, DispatchTypeOK
    <3>2. inb'[t][2] \in {inb[t][2], NoCommand}
      BY <3>1 DEF NoEvent
    <3> QED
      BY <3>1, <3>2, CommandsAssumption DEF InFlight
  <2>4. PumpsKept /\ RowKept
    BY <1>22, RowFrame DEF InboundApply, PumpsKept, vars
  <2> QED
    BY <1>0, <1>22, <2>2, <2>3, <2>4, CommandInvFrame DEF InboundApply, StreamsKept
<1>23. ASSUME NEW s \in Sessions, FeatureSnapshot(s) PROVE CommandInv'
  <2>1. UNCHANGED <<row, cmd, pump, sentOn, deliveries, down, work, up, inb>>
    BY <1>23 DEF FeatureSnapshot, vars
  <2>2. SendIsFirst'
    <3> SUFFICES ASSUME NEW t \in Sessions, NEW d \in pump[t].todo,
                        pump[t].at = "send", RowNames(t)
                 PROVE  FALSE
      BY <1>0, <2>1 DEF SendIsFirst, CommandInv, RowNames
    <3>1. t = s
      BY <1>23 DEF FeatureSnapshot, RowNames
    <3>2. lease[HubOf[s]] = <<"dispatch", s>>
      BY <1>0, <3>1 DEF PumpWork
    <3> QED
      BY <1>23, <3>2 DEF FeatureSnapshot, LeaseFree, Free
  <2>3. StreamsOwn'
    BY <1>0, <2>1, StreamsFrame DEF CommandInv, StreamsOwn, StreamsKept
  <2> QED
    BY <1>0, <2>1, <2>2, <2>3 DEF CommandInv, MarkedIsOwned, OwnerMatchesStatus, AtMostOnceDelivery
<1>24. ASSUME SessionOnly PROVE CommandInv'
  <2>0. UNCHANGED dvars
    BY <1>24 DEF SessionOnly
  <2>1. RowKept
    <3>1. ASSUME NEW s \in Sessions, ClaimOnline(s) PROVE RowKept
      BY <1>0, <3>1 DEF ClaimOnline, RowKept, RowNames, PumpWork
    <3>2. ASSUME NEW s \in Sessions,
                 Register(s) \/ AbandonConnect(s) \/ Disconnect(s) \/ DisconnectError(s)
                   \/ DisconnectRemove(s) \/ Heartbeat(s) \/ GoStale(s)
          PROVE  RowKept
      BY <1>0, <3>2, RowFrame DEF Register, AbandonConnect, Disconnect, DisconnectError,
         DisconnectRemove, Heartbeat, GoStale, MarkOffline, DispatchTypeOK, TypeOK
    <3>3. ASSUME NEW h \in Hubs,
                 CollectStale(h) \/ ExpireStale(h) \/ ExpireError(h) \/ ExpireRemove(h)
                   \/ CloseAgent(h)
          PROVE  RowKept
      BY <3>3, RowFrame DEF CollectStale, ExpireStale, ExpireError, ExpireRemove, CloseAgent,
         MarkOffline
    <3>4. ASSUME NEW m \in control, ReceiveClose(m) \/ LoseClose(m) PROVE RowKept
      BY <3>4, RowFrame DEF ReceiveClose, LoseClose
    <3> QED
      BY <1>24, <3>1, <3>2, <3>3, <3>4 DEF SessionOnly
  <2>2. PumpsKept
    BY <2>0 DEF PumpsKept, dvars
  <2> QED
    BY <1>0, <2>0, <2>1, <2>2, StreamsFrame, CommandInvFrame DEF dvars, Moves
<1> QED
  BY <1>1, <1>2, <1>3, <1>4, <1>6, <1>7, <1>8, <1>9, <1>10, <1>11, <1>12, <1>13, <1>14, <1>15,
     <1>16, <1>17, <1>18, <1>19, <1>20, <1>21, <1>22, <1>23, <1>24
  DEF DispatchNext, PumpStep, StreamStep

----------------------------------------------------------------------------
(* The theorems                                                            *)

\* With no command enqueued the inductive invariant holds.
LEMMA InitDispatchInv == DispatchInit => DispatchInv
<1> SUFFICES ASSUME DispatchInit PROVE DispatchInv
  OBVIOUS
<1>1. DispatchTypeOK
  BY InitDispatchType
<1>2. PumpWork /\ SendIsFirst /\ MarkedIsOwned
  BY DEF DispatchInit, PumpWork, SendIsFirst, MarkedIsOwned, At
<1>3. StreamsOwn
  BY CommandsAssumption, ElemsEmpty DEF DispatchInit, StreamsOwn, InFlight, NoEvent
<1>4. OwnerMatchesStatus /\ AtMostOnceDelivery
  BY DEF DispatchInit, OwnerMatchesStatus, AtMostOnceDelivery
<1> QED
  BY <1>1, <1>2, <1>3, <1>4 DEF DispatchInv

\* The inductive invariant is kept by every step.
LEMMA DispatchInvStep ==
    SessionInv /\ SessionInv' /\ DispatchInv /\ [DispatchNext]_allvars => DispatchInv'
<1> SUFFICES ASSUME SessionInv, SessionInv', DispatchInv, [DispatchNext]_allvars
             PROVE  DispatchInv'
  OBVIOUS
<1>1. CASE DispatchNext
  <2>1. DispatchTypeOK'
    BY <1>1, DispatchTypeStep DEF DispatchInv, SessionInv
  <2>2. PumpWork' /\ CommandInv'
    BY <1>1, PumpWorkStep, CommandInvStep
  <2> QED
    BY <2>1, <2>2 DEF DispatchInv, CommandInv
<1>2. CASE UNCHANGED allvars
  BY <1>2 DEF allvars, vars, dvars, DispatchInv, DispatchTypeOK, TypeOK, PumpWork, SendIsFirst,
     MarkedIsOwned, StreamsOwn, InFlight, OwnerMatchesStatus, AtMostOnceDelivery, RowNames
<1> QED
  BY <1>1, <1>2

\* The inductive invariant holds in every reachable state.
LEMMA DispatchInvariant == DispatchSpec => []DispatchInv
<1>1. DispatchSpec => []SessionInv
  BY ImplementsSessions, SessionsInv, PTL
<1> QED
  BY <1>1, InitDispatchInv, DispatchInvStep, PTL DEF DispatchSpec

\* Every variable of pumps, streams and ledger keeps its type.
THEOREM DispatchTypeCorrect == DispatchSpec => []DispatchTypeOK
  BY DispatchInvariant, PTL DEF DispatchInv

\* A command is handed to at most one stream, once: with any number of replicas,
\* connections and crashes a print is not started twice.
THEOREM DeliveredAtMostOnce == DispatchSpec => []AtMostOnceDelivery
  BY DispatchInvariant, PTL DEF DispatchInv

\* The ledger is never behind what is on a stream.
THEOREM LedgerIsAhead == DispatchSpec => []LedgerNeverBehind
<1>1. DispatchInv => LedgerNeverBehind
  BY NoSessionAssumption DEF DispatchInv, StreamsOwn, OwnerMatchesStatus, LedgerNeverBehind
<1> QED
  BY <1>1, DispatchInvariant, PTL

----------------------------------------------------------------------------
(* CommandDispatch implements CommandLedger                                *)

\* The variables the ledger abstraction reads.
LedgerSame == cmd' = cmd /\ sentOn' = sentOn /\ row'.session = row.session /\ epoch' = epoch

\* A step that leaves statuses, owners, row and claims alone is a stutter of the
\* abstract ledger.
LEMMA LedgerStutter == LedgerSame => UNCHANGED Ledger!lvars
  BY DEF LedgerSame, Ledger!lvars

\* The hub fails a command it has not sent.
LEMMA LedgerFails ==
    ASSUME DispatchTypeOK, NEW c \in Gated \cup GcodeLines, Applies(c, "failqueued"),
           Transition(c, "failqueued"), sentOn' = sentOn, row'.session = row.session, epoch' = epoch
    PROVE  Ledger!Withdraw(c)
  BY KindsAssumption DEF DispatchTypeOK, Applies, Allowed, Target, Transition, Ledger!Withdraw, Ledger!Set

\* Every step of the implementation is a step or a stutter of the abstract ledger.
LEMMA LedgerStep ==
    SessionInv /\ DispatchInv /\ [DispatchNext]_allvars => [Ledger!Next]_(Ledger!lvars)
<1> SUFFICES ASSUME SessionInv, DispatchInv, [DispatchNext]_allvars
             PROVE  Ledger!Next \/ UNCHANGED Ledger!lvars
  OBVIOUS
<1>0. DispatchTypeOK /\ PumpWork /\ CommandInv
  BY DEF DispatchInv, CommandInv
<1> USE DEF ledger
<1>1. ASSUME NEW c \in Commands, Enqueue(c) PROVE Ledger!Submit(c)
  BY <1>1 DEF Enqueue, vars, Ledger!Submit, Ledger!Set
<1>2. ASSUME NEW c \in Commands, Cancel(c) PROVE Ledger!Withdraw(c)
  BY <1>2 DEF Cancel, vars, Ledger!Withdraw, Ledger!Set
<1>3. ASSUME NEW s \in Sessions, PumpFail(s) PROVE LedgerSame \/ \E c \in Commands : Ledger!Withdraw(c)
  <2> DEFINE c == Oldest(pump[s].todo)
  <2>1. c \in Commands /\ c \in Gated \cup GcodeLines
    BY <1>0, <1>3, PumpCommand DEF PumpFail, PumpWork
  <2>2. sentOn' = sentOn /\ row'.session = row.session /\ epoch' = epoch
    BY <1>3 DEF PumpFail, DropLease
  <2>3. CASE UNCHANGED cmd
    BY <2>2, <2>3 DEF LedgerSame
  <2>4. CASE Applies(c, "failqueued") /\ Transition(c, "failqueued")
    BY <1>0, <2>1, <2>2, <2>4, LedgerFails
  <2> QED
    BY <1>3, <2>3, <2>4 DEF PumpFail
<1>4. ASSUME NEW s \in Sessions, FinalizeOne(s) PROVE LedgerSame \/ \E c \in Commands : Ledger!Withdraw(c)
  <2> DEFINE c == Oldest(pump[s].todo)
  <2>1. c \in Commands /\ c \in Gated \cup GcodeLines
    BY <1>0, <1>4, PumpCommand DEF FinalizeOne, PumpWork
  <2>2. sentOn' = sentOn /\ row'.session = row.session /\ epoch' = epoch
    BY <1>4 DEF FinalizeOne, DropLease, vars
  <2>3. CASE UNCHANGED cmd
    BY <2>2, <2>3 DEF LedgerSame
  <2>4. CASE Applies(c, "failqueued") /\ Transition(c, "failqueued")
    BY <1>0, <2>1, <2>2, <2>4, LedgerFails
  <2> QED
    BY <1>4, <2>3, <2>4 DEF FinalizeOne
<1>5. ASSUME NEW s \in Sessions, PumpMark(s) PROVE \E c \in Commands : Ledger!Dispatch(c)
  <2> DEFINE c == Oldest(pump[s].todo)
  <2>1. c \in Commands /\ c \in pump[s].todo
    BY <1>0, <1>5, PumpCommand DEF PumpMark
  <2>2. cmd[c] = "queued"
    <3>1. cmd[c] \in {"queued", "cancelled", "failed"}
      BY <1>0, <1>5, <2>1 DEF PumpMark, CommandInv, SendIsFirst
    <3> QED
      BY <1>5, <3>1 DEF PumpMark, Applies, Allowed, Repeats, Target
  <2>3. sentOn[c] = NoSession
    BY <1>0, <2>1, <2>2 DEF CommandInv, OwnerMatchesStatus
  <2>4. cmd' = [cmd EXCEPT ![c] = "sent"] /\ sentOn' = [sentOn EXCEPT ![c] = row.session]
    BY <1>5, <2>2 DEF PumpMark, Transition, Applies, Allowed, Target, RowNames
  <2>5. UNCHANGED <<row, epoch>> /\ row.session # NoSession
    BY <1>5, NoSessionAssumption DEF PumpMark, vars, RowNames
  <2> HIDE DEF c
  <2>6. Ledger!Dispatch(c)
    BY <2>2, <2>3, <2>4, <2>5 DEF Ledger!Dispatch, Ledger!Set
  <2> QED
    BY <2>1, <2>6
<1>6. ASSUME NEW s \in Sessions, InboundApply(s)
      PROVE  LedgerSame \/ \E c \in Commands : Ledger!Acknowledge(c) \/ Ledger!Finish(c)
  <2> DEFINE kind == inb[s][1]
             c == inb[s][2]
  <2>1. kind \in Answers /\ c \in Commands /\ sentOn[c] = s
    <3>1. inb[s] \in Events
      BY <1>0, <1>6 DEF InboundApply, DispatchTypeOK
    <3> QED
      BY <1>0, <3>1 DEF Events, CommandInv, StreamsOwn, InFlight
  <2>2. UNCHANGED <<sentOn, row, epoch>>
    BY <1>6 DEF InboundApply, vars
  <2>3. CASE UNCHANGED cmd
    BY <2>2, <2>3 DEF LedgerSame
  <2>4. CASE RowNames(s) /\ Transition(c, kind) /\ Applies(c, kind)
    <3>1. cmd' = [cmd EXCEPT ![c] = Target[kind]] /\ cmd[c] \in Allowed[kind]
      BY <2>4 DEF Transition, Applies
    <3> HIDE DEF c, kind
    <3>2. CASE kind = "ack"
      BY <2>1, <2>2, <2>4, <3>1, <3>2 DEF RowNames, Allowed, Target, Ledger!Acknowledge, Ledger!Set
    <3>3. CASE kind = "succeed"
      BY <2>1, <2>2, <2>4, <3>1, <3>3 DEF RowNames, Allowed, Target, Ledger!Finish, Ledger!Set
    <3>4. CASE kind = "reject"
      BY <2>1, <2>2, <2>4, <3>1, <3>4 DEF RowNames, Allowed, Target, Ledger!Finish, Ledger!Set
    <3>5. CASE kind = "fail"
      BY <2>1, <2>2, <2>4, <3>1, <3>5 DEF RowNames, Allowed, Target, Ledger!Finish, Ledger!Set
    <3> QED
      BY <2>1, <3>2, <3>3, <3>4, <3>5 DEF Answers
  <2>5. CASE Transition(c, kind) /\ ~Applies(c, kind)
    BY <1>0, <2>1, <2>2, <2>5 DEF Transition, LedgerSame, DispatchTypeOK
  <2> QED
    BY <1>6, <2>3, <2>4, <2>5 DEF InboundApply
<1>7. ASSUME NEW s \in Sessions, ClaimOnline(s), UNCHANGED dvars PROVE Ledger!Claim(s)
  <2>1. epoch[s] = 0 /\ epoch'[s] # 0 /\ \A t \in Sessions : t # s => epoch'[t] = epoch[t]
    BY <1>0, <1>7 DEF ClaimOnline, SessionInv, EpochOrder, DispatchTypeOK, TypeOK
  <2>2. row'.session = s
    BY <1>7 DEF ClaimOnline
  <2> QED
    BY <1>7, <2>1, <2>2 DEF dvars, Ledger!Claim
<1>8. ASSUME row' = row \/ row'.session = NoSession \/ row'.session = row.session,
             epoch' = epoch, UNCHANGED dvars
      PROVE  LedgerSame \/ Ledger!Release
  BY <1>8 DEF LedgerSame, dvars, Ledger!Release
<1>9. ASSUME SessionOnly PROVE LedgerSame \/ Ledger!Release \/ \E s \in Sessions : Ledger!Claim(s)
  <2>0. UNCHANGED dvars
    BY <1>9 DEF SessionOnly
  <2>1. ASSUME NEW s \in Sessions,
               Register(s) \/ AbandonConnect(s) \/ Disconnect(s) \/ DisconnectError(s)
                 \/ DisconnectRemove(s) \/ Heartbeat(s) \/ GoStale(s)
        PROVE  LedgerSame \/ Ledger!Release
    <3>1. row' = row \/ row'.session = NoSession \/ row'.session = row.session
      BY <1>0, <2>1 DEF Register, AbandonConnect, Disconnect, DisconnectError, DisconnectRemove,
         Heartbeat, GoStale, MarkOffline, DispatchTypeOK, TypeOK
    <3>2. epoch' = epoch
      BY <2>1 DEF Register, AbandonConnect, Disconnect, DisconnectError, DisconnectRemove,
         Heartbeat, GoStale
    <3> QED
      BY <1>8, <2>0, <3>1, <3>2
  <2>2. ASSUME NEW h \in Hubs,
               CollectStale(h) \/ ExpireStale(h) \/ ExpireError(h) \/ ExpireRemove(h) \/ CloseAgent(h)
        PROVE  LedgerSame \/ Ledger!Release
    <3>1. (row' = row \/ row'.session = NoSession) /\ epoch' = epoch
      BY <2>2 DEF CollectStale, ExpireStale, ExpireError, ExpireRemove, CloseAgent, MarkOffline
    <3> QED
      BY <1>8, <2>0, <3>1
  <2>3. ASSUME NEW m \in control, ReceiveClose(m) \/ LoseClose(m) PROVE LedgerSame \/ Ledger!Release
    BY <1>8, <2>0, <2>3 DEF ReceiveClose, LoseClose
  <2> QED
    BY <1>7, <1>9, <2>0, <2>1, <2>2, <2>3 DEF SessionOnly
<1>10. ASSUME NEW h \in Hubs, ReceiveWake(h) \/ LoseWake(h) \/ CrashHub(h) PROVE LedgerSame
  BY <1>10 DEF ReceiveWake, LoseWake, CrashHub, Crash, vars, LedgerSame
<1>11. ASSUME NEW s \in Sessions,
              SpawnPump(s) \/ PumpRead(s) \/ PumpEmpty(s) \/ PumpRefused(s) \/ PumpSend(s)
                \/ PumpSendLost(s) \/ PumpError(s) \/ PumpWake(s) \/ PumpStatus(s)
                \/ PumpClose(s) \/ Finalize(s)
       PROVE  LedgerSame
  <2>1. UNCHANGED <<cmd, sentOn>>
    BY <1>11 DEF SpawnPump, PumpRead, PumpEmpty, PumpRefused, PumpSend, PumpSendLost, PumpError,
       PumpWake, PumpStatus, PumpClose, Finalize
  <2>2. UNCHANGED <<row, epoch>>
    BY <1>11 DEF SpawnPump, SpawnTasks, PumpRead, HoldLease, DropLease, PumpEmpty, PumpRefused,
       PumpSend, PumpSendLost, PumpError, PumpWake, PumpStatus, PumpClose, Finalize, vars
  <2> QED
    BY <2>1, <2>2 DEF LedgerSame
<1>12. ASSUME NEW s \in Sessions,
              AgentTake(s) \/ AgentFinish(s) \/ AgentGone(s) \/ InboundReceive(s)
                \/ EndInbound(s) \/ FeatureSnapshot(s)
       PROVE  LedgerSame
  BY <1>12 DEF AgentTake, AgentFinish, AgentGone, InboundReceive, EndInbound, InboundEnds,
     FeatureSnapshot, vars, LedgerSame
<1>13. CASE UNCHANGED allvars
  BY <1>13, LedgerStutter DEF allvars, vars, dvars, LedgerSame
<1>14. CASE DispatchNext
  BY <1>1, <1>2, <1>3, <1>4, <1>5, <1>6, <1>9, <1>10, <1>11, <1>12, <1>14, LedgerStutter
  DEF DispatchNext, PumpStep, StreamStep, Ledger!Next
<1> QED
  BY <1>13, <1>14

\* The pumps, the streams and the replicas implement the ledger a caller of the
\* hub relies on.
THEOREM LedgerImplemented == DispatchSpec => ImplementsLedger
<1>1. DispatchInit => Ledger!Init
  BY DEF DispatchInit, Init, Ledger!Init
<1>2. DispatchSpec => []SessionInv
  BY ImplementsSessions, SessionsInv, PTL
<1> QED
  BY <1>1, <1>2, DispatchInvariant, LedgerStep, PTL DEF DispatchSpec, ImplementsLedger, Ledger!Spec

\* A command that was sent changes only while the row names the session it was
\* sent on: acks and results of a replaced stream change nothing.
THEOREM StaleStreamsMuted == DispatchSpec => StaleStreamCannotMutate
<1>1. ASSUME DispatchInv, [Ledger!Next]_(Ledger!lvars)
      PROVE  \A c \in Commands :
               cmd[c] \in {"sent", "acknowledged"} /\ cmd'[c] # cmd[c] => row.session = sentOn[c]
  BY <1>1 DEF DispatchInv, DispatchTypeOK, Ledger!Next, Ledger!lvars, Ledger!Claim, Ledger!Release,
     Ledger!Submit, Ledger!Withdraw, Ledger!Dispatch, Ledger!Acknowledge, Ledger!Finish, Ledger!Set
<1>2. DispatchSpec => []SessionInv
  BY ImplementsSessions, SessionsInv, PTL
<1> QED
  BY <1>1, <1>2, DispatchInvariant, LedgerStep, PTL DEF DispatchSpec, StaleStreamCannotMutate

\* Only marking a command sent gives it an owner.
LEMMA OwnerStep == [DispatchNext]_allvars => sentOn' = sentOn \/ \E s \in Sessions : PumpMark(s)
<1> SUFFICES ASSUME [DispatchNext]_allvars, \A s \in Sessions : ~PumpMark(s)
             PROVE  sentOn' = sentOn
  OBVIOUS
<1> USE DEF ledger
<1>1. ASSUME NEW c \in Commands, Enqueue(c) \/ Cancel(c) PROVE sentOn' = sentOn
  BY <1>1 DEF Enqueue, Cancel
<1>2. ASSUME NEW h \in Hubs, ReceiveWake(h) \/ LoseWake(h) \/ CrashHub(h) PROVE sentOn' = sentOn
  BY <1>2 DEF ReceiveWake, LoseWake, CrashHub
<1>3. ASSUME NEW s \in Sessions, PumpStep(s) PROVE sentOn' = sentOn
  BY <1>3 DEF PumpStep, SpawnPump, PumpRead, PumpEmpty, PumpFail, PumpRefused, PumpSend,
     PumpSendLost, PumpError, PumpWake, PumpStatus, PumpClose, Finalize, FinalizeOne
<1>4. ASSUME NEW s \in Sessions, StreamStep(s) PROVE sentOn' = sentOn
  BY <1>4 DEF StreamStep, AgentTake, AgentFinish, AgentGone, InboundReceive, InboundApply,
     EndInbound, FeatureSnapshot
<1>5. CASE SessionOnly \/ UNCHANGED allvars
  BY <1>5 DEF SessionOnly, allvars, dvars
<1> QED
  BY <1>1, <1>2, <1>3, <1>4, <1>5 DEF DispatchNext

\* A gated operation is marked sent only on the session whose feature bitmap is
\* in the database at that moment.
THEOREM GatesHold == DispatchSpec => GateHoldsAtSend
<1>1. ASSUME SessionInv, DispatchInv, [DispatchNext]_allvars
      PROVE  \A c \in Gated : cmd[c] = "queued" /\ cmd'[c] = "sent" => features = sentOn'[c]
  <2> SUFFICES ASSUME NEW c \in Gated, cmd[c] = "queued", cmd'[c] = "sent"
               PROVE  features = sentOn'[c]
    OBVIOUS
  <2>0. DispatchTypeOK /\ PumpWork /\ SendIsFirst /\ c \in Commands
    BY <1>1, KindsAssumption DEF DispatchInv
  <2>1. sentOn'[c] # sentOn[c]
    <3>1. [Ledger!Next]_(Ledger!lvars)
      BY <1>1, LedgerStep
    <3> QED
      BY <2>0, <3>1, NoSessionAssumption DEF DispatchTypeOK, Ledger!Next, Ledger!lvars, Ledger!Claim,
         Ledger!Release, Ledger!Submit, Ledger!Withdraw, Ledger!Dispatch, Ledger!Acknowledge,
         Ledger!Finish, Ledger!Set
  <2>2. PICK s \in Sessions : PumpMark(s)
    BY <1>1, <2>1, OwnerStep
  <2>3. c = Oldest(pump[s].todo) /\ sentOn'[c] = s
    BY <2>0, <2>1, <2>2 DEF PumpMark, DispatchTypeOK
  <2>4. c \in pump[s].todo /\ pump[s].at = "send" /\ RowNames(s)
    BY <2>0, <2>2, <2>3, PumpCommand DEF PumpMark
  <2> QED
    BY <2>0, <2>3, <2>4 DEF SendIsFirst
<1>2. DispatchSpec => []SessionInv
  BY ImplementsSessions, SessionsInv, PTL
<1> QED
  BY <1>1, <1>2, DispatchInvariant, PTL DEF DispatchSpec, GateHoldsAtSend


----------------------------------------------------------------------------
(* Sequences without repetition                                            *)

\* Appending a new element keeps a sequence free of duplicates.
LEMMA AppendDistinct ==
    ASSUME NEW S, NEW q \in Seq(S), NEW e \in S, e \notin Elems(q),
           \A i, j \in DOMAIN q : q[i] = q[j] => i = j
    PROVE  \A i, j \in DOMAIN Append(q, e) : Append(q, e)[i] = Append(q, e)[j] => i = j
<1>1. DOMAIN Append(q, e) = 1..(Len(q) + 1) /\ DOMAIN q = 1..Len(q) /\ Len(q) \in Nat
  OBVIOUS
<1>2. \A i \in 1..(Len(q) + 1) : Append(q, e)[i] = IF i = Len(q) + 1 THEN e ELSE q[i]
  OBVIOUS
<1>3. \A i \in 1..Len(q) : q[i] # e
  BY <1>1 DEF Elems
<1> QED
  BY <1>1, <1>2, <1>3

\* The tail of a sequence without duplicates has none, and not its head.
LEMMA TailDistinct ==
    ASSUME NEW S, NEW q \in Seq(S), q # <<>>,
           \A i, j \in DOMAIN q : q[i] = q[j] => i = j
    PROVE  /\ \A i, j \in DOMAIN Tail(q) : Tail(q)[i] = Tail(q)[j] => i = j
           /\ Head(q) \notin Elems(Tail(q))
<1>1. Len(q) \in Nat /\ Len(q) > 0 /\ DOMAIN q = 1..Len(q)
  OBVIOUS
<1>2. DOMAIN Tail(q) = 1..(Len(q) - 1) /\ \A i \in 1..(Len(q) - 1) : Tail(q)[i] = q[i + 1]
  OBVIOUS
<1>3. \A i \in 1..(Len(q) - 1) : i + 1 \in 1..Len(q) /\ i + 1 # 1
  BY <1>1
<1>4. Head(q) = q[1] /\ 1 \in 1..Len(q)
  BY <1>1
<1>5. \A i, j \in 1..(Len(q) - 1) : i + 1 = j + 1 => i = j
  BY <1>1
<1> QED
  BY <1>1, <1>2, <1>3, <1>4, <1>5 DEF Elems

\* An event that every event of its command precedes may be appended.
LEMMA AppendInOrder ==
    ASSUME NEW q \in Seq(Events), NEW e \in Events,
           \A d \in Elems(q) : Precedes(d, e),
           \A i, j \in DOMAIN q : i < j => Precedes(q[i], q[j])
    PROVE  \A i, j \in DOMAIN Append(q, e) : i < j => Precedes(Append(q, e)[i], Append(q, e)[j])
<1>1. DOMAIN Append(q, e) = 1..(Len(q) + 1) /\ DOMAIN q = 1..Len(q) /\ Len(q) \in Nat
  OBVIOUS
<1>2. \A i \in 1..(Len(q) + 1) : Append(q, e)[i] = IF i = Len(q) + 1 THEN e ELSE q[i]
  OBVIOUS
<1>3. \A i \in 1..Len(q) : Precedes(q[i], e)
  BY <1>1 DEF Elems
<1> QED
  BY <1>1, <1>2, <1>3

\* Taking the first event keeps the order, and it precedes the others.
LEMMA TailInOrder ==
    ASSUME NEW q \in Seq(Events), q # <<>>,
           \A i, j \in DOMAIN q : i < j => Precedes(q[i], q[j])
    PROVE  /\ \A i, j \in DOMAIN Tail(q) : i < j => Precedes(Tail(q)[i], Tail(q)[j])
           /\ \A j \in DOMAIN Tail(q) : Precedes(Head(q), Tail(q)[j])
<1>1. Len(q) \in Nat /\ Len(q) > 0 /\ DOMAIN q = 1..Len(q)
  OBVIOUS
<1>2. DOMAIN Tail(q) = 1..(Len(q) - 1) /\ \A i \in 1..(Len(q) - 1) : Tail(q)[i] = q[i + 1]
  OBVIOUS
<1>3. \A i \in 1..(Len(q) - 1) : i + 1 \in 1..Len(q) /\ 1 < i + 1
  BY <1>1
<1>4. Head(q) = q[1] /\ 1 \in 1..Len(q)
  BY <1>1
<1>5. \A i, j \in 1..(Len(q) - 1) : i < j => i + 1 < j + 1
  BY <1>1
<1> QED
  BY <1>1, <1>2, <1>3, <1>4, <1>5

----------------------------------------------------------------------------
(* Steps that say nothing                                                  *)

\* A session's stream stays as it is, or parts of it are dropped.
Cut(t) ==
    /\ down'[t] \in {down[t], <<>>} /\ work'[t] \in {work[t], NoCommand}
    /\ up'[t] \in {up[t], <<>>} /\ inb'[t] \in {inb[t], NoEvent}

\* The hub moves commands that nobody has sent.
UnsentMove == \A c \in Commands : cmd'[c] = cmd[c] \/ cmd[c] \in {"none", "queued"}

MarkedKept == \A t \in Sessions : pump'[t].at = "marked" => pump'[t] = pump[t]

\* A stream that is cut names nothing new.
LEMMA CutNamesLess ==
    ASSUME NEW t \in Sessions, Cut(t)
    PROVE  /\ Elems(down'[t]) \subseteq Elems(down[t])
           /\ Elems(up'[t]) \subseteq Elems(up[t])
           /\ Pending(t)' \subseteq Pending(t) \cup {NoEvent}
           /\ Commands \cap InFlight(t)' \subseteq InFlight(t)
<1>1. Elems(down'[t]) \subseteq Elems(down[t]) /\ Elems(up'[t]) \subseteq Elems(up[t])
  BY ElemsEmpty DEF Cut
<1>2. Pending(t)' \subseteq Pending(t) \cup {NoEvent}
  BY <1>1 DEF Cut, Pending
<1>3. inb'[t][2] \in {inb[t][2], NoCommand}
  BY DEF Cut, NoEvent
<1> QED
  BY <1>1, <1>2, <1>3, CommandsAssumption DEF Cut, InFlight

\* What is on a stream or marked has an owner, so that the hub does not move it.
LEMMA OwnedStays ==
    ASSUME CommandInv, UnsentMove, NEW s \in Sessions, NEW c \in Commands, sentOn[c] = s
    PROVE  cmd'[c] = cmd[c]
<1>1. cmd[c] \in {"sent", "acknowledged", "succeeded", "failed"}
  BY NoSessionAssumption DEF CommandInv, OwnerMatchesStatus
<1> QED
  BY <1>1 DEF UnsentMove

\* A step that moves unsent commands only, marks nothing and at most cuts
\* streams keeps the invariant.
LEMMA TalkFrame ==
    ASSUME DispatchTypeOK, CommandInv, TalkInv, UnsentMove, MarkedKept,
           \A t \in Sessions : Cut(t), UNCHANGED <<sentOn, answer>>
    PROVE  TalkInv'
<1>1. PendingAgrees'
  <2> SUFFICES ASSUME NEW s \in Sessions, NEW c \in Commands
               PROVE  /\ c \in Elems(down'[s]) =>
                           /\ cmd'[c] = "sent" /\ work'[s] # c
                           /\ \A e \in Pending(s)' : e[2] # c
                      /\ work'[s] = c =>
                           /\ cmd'[c] \in {"sent", "acknowledged"}
                           /\ \A e \in Pending(s)' : e[2] = c => e[1] = "ack"
                      /\ \A e \in Pending(s)' : e[2] = c =>
                           /\ cmd'[c] \in {"sent", "acknowledged"}
                           /\ e[1] = "ack" => cmd'[c] = "sent"
                           /\ e[1] # "ack" => answer'[c] = e[1]
    BY DEF PendingAgrees
  <2>1. c \notin InFlight(s) => c \notin InFlight(s)'
    BY CutNamesLess
  <2>2. CASE c \notin InFlight(s)
    BY <2>1, <2>2 DEF InFlight, Pending
  <2>3. CASE c \in InFlight(s)
    <3>1. cmd'[c] = cmd[c] /\ answer'[c] = answer[c]
      BY <2>3, OwnedStays DEF CommandInv, StreamsOwn
    <3>2. /\ c \in Elems(down'[s]) => c \in Elems(down[s])
          /\ work'[s] = c => work[s] = c
          /\ \A e \in Pending(s)' : e[2] = c => e \in Pending(s)
      BY CutNamesLess, CommandsAssumption DEF Cut, NoEvent
    <3>3. work'[s] \in {work[s], NoCommand} /\ NoCommand # c
      BY CommandsAssumption DEF Cut
    <3> QED
      BY <3>1, <3>2, <3>3 DEF TalkInv, PendingAgrees
  <2> QED
    BY <2>2, <2>3
<1>2. PendingInOrder'
  <2> SUFFICES ASSUME NEW s \in Sessions
               PROVE  /\ \A i, j \in DOMAIN down'[s] : down'[s][i] = down'[s][j] => i = j
                      /\ \A i, j \in DOMAIN up'[s] : i < j => Precedes(up'[s][i], up'[s][j])
                      /\ inb'[s] # NoEvent => \A j \in DOMAIN up'[s] : Precedes(inb'[s], up'[s][j])
    BY DEF PendingInOrder, Precedes
  <2>1. Cut(s) /\ DOMAIN <<>> = {}
    OBVIOUS
  <2> QED
    BY <2>1 DEF Cut, TalkInv, PendingInOrder
<1>3. MarkedIsApart'
  <2> SUFFICES ASSUME NEW s \in Sessions, NEW t \in Sessions, NEW c \in pump'[s].todo,
                      pump'[s].at = "marked"
               PROVE  cmd'[c] = "sent" /\ c \notin InFlight(t)'
    BY DEF MarkedIsApart
  <2>1. pump'[s] = pump[s] /\ c \in Commands
    BY DEF MarkedKept, DispatchTypeOK
  <2>2. sentOn[c] = s /\ cmd[c] = "sent" /\ c \notin InFlight(t)
    BY <2>1 DEF CommandInv, MarkedIsOwned, TalkInv, MarkedIsApart
  <2> QED
    BY <2>1, <2>2, OwnedStays, CutNamesLess
<1>4. TerminalIsAgentOutcome'
  <2> SUFFICES ASSUME NEW c \in Commands, sentOn[c] # NoSession
               PROVE  /\ cmd'[c] # "queued"
                      /\ cmd'[c] = "succeeded" => answer[c] = "succeed"
                      /\ cmd'[c] = "failed" => answer[c] \in {"reject", "fail"}
    BY DEF TerminalIsAgentOutcome
  <2>1. cmd'[c] = cmd[c]
    BY OwnedStays DEF DispatchTypeOK, Maybe
  <2> QED
    BY <2>1 DEF TalkInv, TerminalIsAgentOutcome
<1> QED
  BY <1>1, <1>2, <1>3, <1>4 DEF TalkInv

----------------------------------------------------------------------------
(* Steps of the pump that mark and send                                    *)

\* A command becomes sent: it was queued, so that it is on no stream.
LEMMA TalkMark ==
    ASSUME DispatchTypeOK, PumpWork, CommandInv, TalkInv, NEW s \in Sessions, PumpMark(s)
    PROVE  TalkInv'
<1> DEFINE c == Oldest(pump[s].todo)
<1>1. c \in Commands /\ pump[s].todo = {c}
  <2>1. PICK d \in Commands : pump[s].todo = {d}
    BY DEF PumpMark, PumpWork
  <2> QED
    BY <2>1, OldestOne
<1>2. cmd[c] = "queued" /\ sentOn[c] = NoSession
  <2>1. cmd[c] \in {"queued", "cancelled", "failed"}
    BY <1>1 DEF PumpMark, CommandInv, SendIsFirst
  <2>2. cmd[c] = "queued"
    BY <2>1 DEF PumpMark, Applies, Allowed, Repeats, Target
  <2> QED
    BY <1>1, <2>2 DEF TalkInv, TerminalIsAgentOutcome
<1>3. /\ cmd'[c] = "sent" /\ \A d \in Commands : d # c => cmd'[d] = cmd[d]
      /\ \A d \in Commands : d # c => sentOn'[d] = sentOn[d]
  BY <1>1, <1>2 DEF PumpMark, Transition, Applies, Allowed, Target, DispatchTypeOK
<1>4. UNCHANGED <<down, work, up, inb, answer>>
  BY DEF PumpMark, stream
<1>5. pump'[s].todo = {c} /\ \A t \in Sessions : t # s => pump'[t] = pump[t]
  BY <1>1 DEF PumpMark, DispatchTypeOK
<1>6. \A t \in Sessions : c \notin InFlight(t)
  BY <1>1, <1>2, NoSessionAssumption DEF CommandInv, StreamsOwn
<1> HIDE DEF c
<1>7. PendingAgrees'
  <2>1. \A t \in Sessions : /\ Pending(t)' = Pending(t)
                            /\ c \notin Elems(down[t]) /\ work[t] # c
                            /\ \A e \in Pending(t) : e[2] # c
    BY <1>4, <1>6 DEF InFlight, Pending
  <2> QED
    BY <1>3, <1>4, <2>1 DEF TalkInv, PendingAgrees
<1>8. PendingInOrder'
  BY <1>4 DEF TalkInv, PendingInOrder
<1>9. MarkedIsApart'
  <2> SUFFICES ASSUME NEW u \in Sessions, NEW t \in Sessions, NEW d \in pump'[u].todo,
                      pump'[u].at = "marked"
               PROVE  cmd'[d] = "sent" /\ d \notin InFlight(t)
    BY <1>4 DEF MarkedIsApart, InFlight
  <2>1. CASE u = s
    BY <1>3, <1>5, <1>6, <2>1
  <2>2. CASE u # s
    <3>1. d \in Commands /\ cmd[d] = "sent" /\ d \notin InFlight(t)
      BY <1>5, <2>2 DEF TalkInv, MarkedIsApart, DispatchTypeOK
    <3> QED
      BY <1>2, <1>3, <3>1
  <2> QED
    BY <2>1, <2>2
<1>10. TerminalIsAgentOutcome'
  BY <1>3, <1>4 DEF TalkInv, TerminalIsAgentOutcome
<1> QED
  BY <1>7, <1>8, <1>9, <1>10 DEF TalkInv

\* A marked command is handed over: it is sent, and on no stream before.
LEMMA TalkSend ==
    ASSUME DispatchTypeOK, PumpWork, CommandInv, TalkInv, NEW s \in Sessions, PumpSend(s)
    PROVE  TalkInv'
<1> DEFINE c == Oldest(pump[s].todo)
<1>1. c \in Commands /\ pump[s].todo = {c}
  <2>1. PICK d \in Commands : pump[s].todo = {d}
    BY DEF PumpSend, PumpWork
  <2> QED
    BY <2>1, OldestOne
<1>2. sentOn[c] = s /\ cmd[c] = "sent" /\ \A t \in Sessions : c \notin InFlight(t)
  BY <1>1 DEF PumpSend, CommandInv, MarkedIsOwned, TalkInv, MarkedIsApart
<1>3. /\ \A t \in Sessions : t # s => pump'[t] = pump[t] /\ down'[t] = down[t]
      /\ pump'[s].at = "drain"
      /\ down'[s] \in {down[s], Append(down[s], c)}
  BY DEF PumpSend, Deliver, Move, At, DispatchTypeOK
<1>4. UNCHANGED <<cmd, sentOn, answer, work, up, inb>>
  BY DEF PumpSend, ledger
<1>5. down[s] \in Seq(Commands)
  BY DEF DispatchTypeOK
<1>6. Elems(Append(down[s], c)) = Elems(down[s]) \cup {c}
  BY <1>1, <1>5, ElemsAppend
<1>7. c \notin Elems(down[s]) /\ work[s] # c /\ \A e \in Pending(s) : e[2] # c
  BY <1>2 DEF InFlight, Pending
<1> HIDE DEF c
<1>8. PendingAgrees'
  <2> SUFFICES ASSUME NEW t \in Sessions, NEW d \in Commands, d \in Elems(down'[t])
               PROVE  cmd[d] = "sent" /\ work[t] # d /\ \A e \in Pending(t) : e[2] # d
    <3>1. \A t : Pending(t)' = Pending(t)
      BY <1>4 DEF Pending
    <3> QED
      BY <1>4, <3>1 DEF TalkInv, PendingAgrees
  <2>1. CASE t = s /\ d = c
    BY <1>2, <1>7, <2>1
  <2>2. CASE ~(t = s /\ d = c)
    <3>1. d \in Elems(down[t])
      BY <1>3, <1>6, <2>2
    <3> QED
      BY <3>1 DEF TalkInv, PendingAgrees
  <2> QED
    BY <2>1, <2>2
<1>9. PendingInOrder'
  <2>1. \A i, j \in DOMAIN down[s] : down[s][i] = down[s][j] => i = j
    BY DEF TalkInv, PendingInOrder
  <2>2. \A i, j \in DOMAIN Append(down[s], c) :
           Append(down[s], c)[i] = Append(down[s], c)[j] => i = j
    BY <1>1, <1>5, <1>7, <2>1, AppendDistinct
  <2> QED
    BY <1>3, <1>4, <2>1, <2>2 DEF TalkInv, PendingInOrder
<1>10. MarkedIsApart'
  <2> SUFFICES ASSUME NEW u \in Sessions, NEW t \in Sessions, NEW d \in pump'[u].todo,
                      pump'[u].at = "marked"
               PROVE  cmd[d] = "sent" /\ d \notin InFlight(t)'
    BY <1>4 DEF MarkedIsApart
  <2>1. u # s /\ pump'[u] = pump[u]
    BY <1>3
  <2>2. sentOn[d] = u /\ cmd[d] = "sent" /\ d \notin InFlight(t)
    BY <2>1 DEF CommandInv, MarkedIsOwned, TalkInv, MarkedIsApart
  <2>3. d # c
    BY <1>2, <2>1, <2>2
  <2>4. d \notin Elems(down'[t])
    BY <1>3, <1>6, <2>2, <2>3 DEF InFlight
  <2> QED
    BY <1>4, <2>2, <2>4 DEF InFlight
<1>11. TerminalIsAgentOutcome'
  BY <1>4 DEF TalkInv, TerminalIsAgentOutcome
<1> QED
  BY <1>8, <1>9, <1>10, <1>11 DEF TalkInv

----------------------------------------------------------------------------
(* Steps of the agent                                                      *)

\* A step that leaves ledger and pumps alone and names nothing new on a stream
\* keeps marked commands apart.
LEMMA ApartFrame ==
    ASSUME DispatchTypeOK, TalkInv, StreamsKept, UNCHANGED <<cmd, pump>>
    PROVE  MarkedIsApart'
<1> SUFFICES ASSUME NEW u \in Sessions, NEW t \in Sessions, NEW d \in pump[u].todo,
                    pump[u].at = "marked"
             PROVE  cmd[d] = "sent" /\ d \notin InFlight(t)'
  BY DEF MarkedIsApart
<1>1. d \in Commands /\ cmd[d] = "sent" /\ d \notin InFlight(t)
  BY DEF DispatchTypeOK, TalkInv, MarkedIsApart
<1> QED
  BY <1>1 DEF StreamsKept

\* The agent's word on a command of session s changes nothing for the others.
LEMMA SaySays ==
    ASSUME DispatchTypeOK, NEW s \in Sessions, NEW c \in Commands, NEW kind \in Answers,
           Say(s, kind, c), UNCHANGED inb
    PROVE  /\ <<kind, c>> \in Events /\ up[s] \in Seq(Events)
           /\ up'[s] = Append(up[s], <<kind, c>>)
           /\ Pending(s)' = Pending(s) \cup {<<kind, c>>}
           /\ \A t \in Sessions : t # s => up'[t] = up[t] /\ Pending(t)' = Pending(t)
           /\ answer'[c] = kind /\ \A d \in Commands : d # c => answer'[d] = answer[d]
<1>1. <<kind, c>> \in Events /\ up[s] \in Seq(Events)
  BY DEF DispatchTypeOK, Events
<1>2. up'[s] = Append(up[s], <<kind, c>>) /\ \A t \in Sessions : t # s => up'[t] = up[t]
  BY DEF Say, DispatchTypeOK
<1>3. Elems(up'[s]) = Elems(up[s]) \cup {<<kind, c>>}
  BY <1>1, <1>2, ElemsAppend
<1>4. answer'[c] = kind /\ \A d \in Commands : d # c => answer'[d] = answer[d]
  BY DEF Say, DispatchTypeOK
<1> QED
  BY <1>1, <1>2, <1>3, <1>4 DEF Pending

\* The agent takes a command: nothing was said about it yet.
LEMMA TalkTake ==
    ASSUME DispatchTypeOK, CommandInv, TalkInv, NEW s \in Sessions, AgentTake(s)
    PROVE  TalkInv'
<1> DEFINE c == Head(down[s])
<1>1. down[s] \in Seq(Commands) /\ down[s] # <<>>
  BY DEF AgentTake, DispatchTypeOK
<1>2. c \in Commands /\ c \in Elems(down[s]) /\ Elems(Tail(down[s])) \subseteq Elems(down[s])
  BY <1>1, ElemsHeadTail
<1>3. /\ cmd[c] = "sent" /\ work[s] # c /\ \A e \in Pending(s) : e[2] # c
      /\ sentOn[c] = s /\ c \in InFlight(s)
  BY <1>2 DEF TalkInv, PendingAgrees, CommandInv, StreamsOwn, InFlight
<1>4. PICK kind \in {"ack", "reject"} :
        Say(s, kind, c) /\ work' = IF kind = "ack" THEN [work EXCEPT ![s] = c] ELSE work
  BY DEF AgentTake
<1>5. UNCHANGED <<cmd, sentOn, pump, inb>> /\ down' = [down EXCEPT ![s] = Tail(@)] /\ work[s] = NoCommand
  BY DEF AgentTake, pumps
<1>6. kind \in Answers
  BY DEF Answers
<1>7. /\ down'[s] = Tail(down[s]) /\ work'[s] = IF kind = "ack" THEN c ELSE NoCommand
      /\ \A t \in Sessions : t # s => down'[t] = down[t] /\ work'[t] = work[t]
  BY <1>4, <1>5 DEF DispatchTypeOK
<1>8. c \notin Elems(down'[s]) /\ \A i, j \in DOMAIN down'[s] : down'[s][i] = down'[s][j] => i = j
  BY <1>1, <1>7, TailDistinct DEF TalkInv, PendingInOrder
<1> HIDE DEF c
<1>9. /\ <<kind, c>> \in Events /\ up[s] \in Seq(Events)
      /\ up'[s] = Append(up[s], <<kind, c>>)
      /\ Pending(s)' = Pending(s) \cup {<<kind, c>>}
      /\ \A t \in Sessions : t # s => up'[t] = up[t] /\ Pending(t)' = Pending(t)
      /\ answer'[c] = kind /\ \A d \in Commands : d # c => answer'[d] = answer[d]
  BY <1>2, <1>4, <1>5, <1>6, SaySays
<1>10. PendingAgrees'
  <2> SUFFICES ASSUME NEW t \in Sessions, NEW d \in Commands
               PROVE  /\ d \in Elems(down'[t]) =>
                           cmd[d] = "sent" /\ work'[t] # d /\ \A e \in Pending(t)' : e[2] # d
                      /\ work'[t] = d =>
                           /\ cmd[d] \in {"sent", "acknowledged"}
                           /\ \A e \in Pending(t)' : e[2] = d => e[1] = "ack"
                      /\ \A e \in Pending(t)' : e[2] = d =>
                           /\ cmd[d] \in {"sent", "acknowledged"}
                           /\ e[1] = "ack" => cmd[d] = "sent"
                           /\ e[1] # "ack" => answer'[d] = e[1]
    BY <1>5 DEF PendingAgrees
  <2>0. NoCommand # d /\ (d \in Elems(Tail(down[s])) => d \in Elems(down[s]))
    BY <1>2, CommandsAssumption
  <2>1. CASE t = s /\ d = c
    <3>1. \A e \in Pending(s)' : e[2] = c => e[1] = kind
      BY <1>3, <1>9
    <3> QED
      BY <1>3, <1>7, <1>8, <1>9, <2>0, <2>1, <3>1
  <2>2. CASE t = s /\ d # c
    <3>1. \A e \in Pending(s)' : e[2] = d => e \in Pending(s)
      BY <1>9, <2>2
    <3>2. d \in Elems(down'[s]) => d \in Elems(down[s]) /\ work'[s] # d
      BY <1>7, <2>0, <2>2
    <3>3. work'[s] # d
      BY <1>7, <2>0, <2>2
    <3> QED
      BY <1>9, <2>2, <3>1, <3>2, <3>3 DEF TalkInv, PendingAgrees
  <2>3. CASE t # s /\ d = c
    <3>1. d \notin InFlight(t)
      BY <1>2, <1>3, <2>3 DEF CommandInv, StreamsOwn
    <3>2. d \notin Elems(down[t]) /\ work[t] # d /\ \A e \in Pending(t) : e[2] # d
      BY <3>1 DEF InFlight, Pending
    <3> QED
      BY <1>7, <1>9, <2>3, <3>2
  <2>4. CASE t # s /\ d # c
    BY <1>7, <1>9, <2>4 DEF TalkInv, PendingAgrees
  <2> QED
    BY <2>1, <2>2, <2>3, <2>4
<1>11. PendingInOrder'
  <2>1. \A e \in Pending(s) : Precedes(e, <<kind, c>>)
    BY <1>3 DEF Precedes
  <2>2. \A i, j \in DOMAIN up[s] : i < j => Precedes(up[s][i], up[s][j])
    BY DEF TalkInv, PendingInOrder
  <2>3. \A i, j \in DOMAIN up'[s] : i < j => Precedes(up'[s][i], up'[s][j])
    BY <1>9, <2>1, <2>2, AppendInOrder DEF Pending
  <2>4. inb[s] # NoEvent => \A j \in DOMAIN up'[s] : Precedes(inb[s], up'[s][j])
    <3>1. \A j \in DOMAIN up'[s] : up'[s][j] \in Elems(up[s]) \cup {<<kind, c>>}
      BY <1>9, ElemsAppend DEF Elems
    <3>2. inb[s] # NoEvent => \A e \in Elems(up[s]) : Precedes(inb[s], e)
      BY DEF TalkInv, PendingInOrder, Elems
    <3> QED
      BY <2>1, <3>1, <3>2 DEF Pending
  <2>5. ASSUME NEW t \in Sessions, t # s
        PROVE  UNCHANGED <<down[t], up[t], inb[t]>>
    BY <1>5, <1>7, <1>9, <2>5
  <2> QED
    BY <1>5, <1>8, <2>3, <2>4, <2>5 DEF TalkInv, PendingInOrder
<1>12. StreamsKept
  BY <1>2, <1>3, <1>4, <1>5, <1>6, <1>7, SayKeepsStreams
<1>13. TerminalIsAgentOutcome'
  BY <1>3, <1>5, <1>9 DEF TalkInv, TerminalIsAgentOutcome
<1> QED
  BY <1>5, <1>10, <1>11, <1>12, <1>13, ApartFrame DEF TalkInv

\* The agent finishes a command: only its ack can be pending.
LEMMA TalkFinish ==
    ASSUME DispatchTypeOK, CommandInv, TalkInv, NEW s \in Sessions, AgentFinish(s)
    PROVE  TalkInv'
<1> DEFINE c == work[s]
<1>1. c \in Commands /\ c \in InFlight(s)
  BY DEF AgentFinish, DispatchTypeOK, InFlight
<1>2. /\ cmd[c] \in {"sent", "acknowledged"} /\ sentOn[c] = s
      /\ \A e \in Pending(s) : e[2] = c => e[1] = "ack"
      /\ c \notin Elems(down[s])
  BY <1>1 DEF TalkInv, PendingAgrees, CommandInv, StreamsOwn
<1>3. PICK kind \in {"succeed", "fail"} : Say(s, kind, c)
  BY DEF AgentFinish
<1>4. UNCHANGED <<cmd, sentOn, pump, inb, down>>
  BY DEF AgentFinish, pumps
<1>5. kind \in Answers /\ kind # "ack"
  BY DEF Answers
<1>6. work'[s] = NoCommand /\ \A t \in Sessions : t # s => work'[t] = work[t]
  BY DEF AgentFinish, DispatchTypeOK
<1> HIDE DEF c
<1>7. /\ <<kind, c>> \in Events /\ up[s] \in Seq(Events)
      /\ up'[s] = Append(up[s], <<kind, c>>)
      /\ Pending(s)' = Pending(s) \cup {<<kind, c>>}
      /\ \A t \in Sessions : t # s => up'[t] = up[t] /\ Pending(t)' = Pending(t)
      /\ answer'[c] = kind /\ \A d \in Commands : d # c => answer'[d] = answer[d]
  BY <1>1, <1>3, <1>4, <1>5, SaySays
<1>8. PendingAgrees'
  <2> SUFFICES ASSUME NEW t \in Sessions, NEW d \in Commands
               PROVE  /\ d \in Elems(down[t]) =>
                           cmd[d] = "sent" /\ work'[t] # d /\ \A e \in Pending(t)' : e[2] # d
                      /\ work'[t] = d =>
                           /\ cmd[d] \in {"sent", "acknowledged"}
                           /\ \A e \in Pending(t)' : e[2] = d => e[1] = "ack"
                      /\ \A e \in Pending(t)' : e[2] = d =>
                           /\ cmd[d] \in {"sent", "acknowledged"}
                           /\ e[1] = "ack" => cmd[d] = "sent"
                           /\ e[1] # "ack" => answer'[d] = e[1]
    BY <1>4 DEF PendingAgrees
  <2>0. NoCommand # d
    BY CommandsAssumption
  <2>1. CASE t = s /\ d = c
    <3>1. \A e \in Pending(s) : e[2] = c => e[1] = "ack" /\ cmd[c] = "sent"
      BY <1>1, <1>2 DEF TalkInv, PendingAgrees
    <3> QED
      BY <1>2, <1>5, <1>6, <1>7, <2>0, <2>1, <3>1
  <2>2. CASE t = s /\ d # c
    BY <1>6, <1>7, <2>0, <2>2 DEF TalkInv, PendingAgrees
  <2>3. CASE t # s /\ d = c
    <3>1. d \notin InFlight(t)
      BY <1>1, <1>2, <2>3 DEF CommandInv, StreamsOwn
    <3>2. d \notin Elems(down[t]) /\ work[t] # d /\ \A e \in Pending(t) : e[2] # d
      BY <3>1 DEF InFlight, Pending
    <3> QED
      BY <1>4, <1>6, <1>7, <2>3, <3>2
  <2>4. CASE t # s /\ d # c
    BY <1>6, <1>7, <2>4 DEF TalkInv, PendingAgrees
  <2> QED
    BY <2>1, <2>2, <2>3, <2>4
<1>9. PendingInOrder'
  <2>1. \A e \in Pending(s) : Precedes(e, <<kind, c>>)
    BY <1>2, <1>5 DEF Precedes
  <2>2. \A i, j \in DOMAIN up[s] : i < j => Precedes(up[s][i], up[s][j])
    BY DEF TalkInv, PendingInOrder
  <2>3. \A i, j \in DOMAIN up'[s] : i < j => Precedes(up'[s][i], up'[s][j])
    BY <1>7, <2>1, <2>2, AppendInOrder DEF Pending
  <2>4. inb[s] # NoEvent => \A j \in DOMAIN up'[s] : Precedes(inb[s], up'[s][j])
    <3>1. \A j \in DOMAIN up'[s] : up'[s][j] \in Elems(up[s]) \cup {<<kind, c>>}
      BY <1>7, ElemsAppend DEF Elems
    <3>2. inb[s] # NoEvent => \A e \in Elems(up[s]) : Precedes(inb[s], e)
      BY DEF TalkInv, PendingInOrder, Elems
    <3> QED
      BY <2>1, <3>1, <3>2 DEF Pending
  <2>5. ASSUME NEW t \in Sessions, t # s
        PROVE  UNCHANGED <<down[t], up[t], inb[t]>>
    BY <1>4, <1>7, <2>5
  <2> QED
    BY <1>4, <2>3, <2>4, <2>5 DEF TalkInv, PendingInOrder
<1>10. StreamsKept
  <2>1. /\ \A t \in Sessions : t # s => down'[t] = down[t] /\ work'[t] = work[t]
        /\ Elems(down'[s]) \subseteq Elems(down[s]) /\ work'[s] \in {c, work[s], NoCommand}
    BY <1>4, <1>6
  <2> QED
    BY <1>1, <1>3, <1>4, <1>5, <2>1, SayKeepsStreams
<1>11. TerminalIsAgentOutcome'
  BY <1>2, <1>4, <1>7 DEF TalkInv, TerminalIsAgentOutcome
<1> QED
  BY <1>4, <1>8, <1>9, <1>10, <1>11, ApartFrame DEF TalkInv

----------------------------------------------------------------------------
(* Steps of the hub that read what the agent said                          *)

\* The next event is taken from the stream; it precedes the events behind it.
LEMMA TalkReceive ==
    ASSUME DispatchTypeOK, CommandInv, TalkInv, NEW s \in Sessions, InboundReceive(s)
    PROVE  TalkInv'
<1>1. up[s] \in Seq(Events) /\ up[s] # <<>> /\ inb[s] = NoEvent
  BY DEF InboundReceive, DispatchTypeOK
<1>2. Head(up[s]) \in Elems(up[s]) /\ Elems(Tail(up[s])) \subseteq Elems(up[s])
  BY <1>1, ElemsHeadTail
<1>3. /\ up'[s] = Tail(up[s]) /\ inb'[s] \in {Head(up[s]), NoEvent}
      /\ \A t \in Sessions : t # s => up'[t] = up[t] /\ inb'[t] = inb[t]
      /\ UNCHANGED <<cmd, sentOn, answer, pump, down, work>>
  BY DEF InboundReceive, DispatchTypeOK, ledger, pumps
<1>4. ASSUME NEW t \in Sessions PROVE Pending(t)' \subseteq Pending(t)
  BY <1>1, <1>2, <1>3 DEF Pending
<1>5. PendingAgrees'
  BY <1>3, <1>4 DEF TalkInv, PendingAgrees
<1>6. PendingInOrder'
  <2>1. /\ \A i, j \in DOMAIN Tail(up[s]) : i < j => Precedes(Tail(up[s])[i], Tail(up[s])[j])
        /\ \A j \in DOMAIN Tail(up[s]) : Precedes(Head(up[s]), Tail(up[s])[j])
    BY <1>1, TailInOrder DEF TalkInv, PendingInOrder
  <2>2. ASSUME NEW t \in Sessions, t # s PROVE UNCHANGED <<down[t], up[t], inb[t]>>
    BY <1>3, <2>2
  <2> QED
    BY <1>3, <2>1, <2>2 DEF TalkInv, PendingInOrder
<1>7. StreamsKept
  <2> SUFFICES ASSUME NEW t \in Sessions, NEW d \in Commands, d \in InFlight(t)'
               PROVE  d \in InFlight(t)
    BY DEF StreamsKept
  <2>1. ASSUME NEW e \in Pending(t), e[2] = d PROVE d \in InFlight(t)
    BY <2>1 DEF InFlight, Pending
  <2>2. d \in Elems(down[t]) \/ d = work[t] \/ \E e \in Pending(t)' : e[2] = d
    BY <1>3 DEF InFlight, Pending
  <2> QED
    BY <1>4, <2>1, <2>2 DEF InFlight
<1>8. TerminalIsAgentOutcome'
  BY <1>3 DEF TalkInv, TerminalIsAgentOutcome
<1> QED
  BY <1>3, <1>5, <1>6, <1>7, <1>8, ApartFrame DEF TalkInv

\* The event is applied to the ledger: an ack finds the command sent, and after
\* an outcome nothing more is said about it.
LEMMA TalkApply ==
    ASSUME DispatchTypeOK, CommandInv, TalkInv, NEW s \in Sessions, InboundApply(s)
    PROVE  TalkInv'
<1> DEFINE kind == inb[s][1]
           c == inb[s][2]
<1>1. kind \in Answers /\ c \in Commands /\ inb[s] # NoEvent
  <2>1. inb[s] \in Events
    BY DEF InboundApply, DispatchTypeOK
  <2> QED
    BY <2>1 DEF Events, InboundApply
<1>2. inb[s] \in Pending(s) /\ c \in InFlight(s) /\ sentOn[c] = s
  BY <1>1 DEF Pending, InFlight, CommandInv, StreamsOwn
<1>3. /\ cmd[c] \in {"sent", "acknowledged"}
      /\ kind = "ack" => cmd[c] = "sent"
      /\ kind # "ack" => answer[c] = kind
      /\ c \notin Elems(down[s])
      /\ work[s] = c => kind = "ack"
  BY <1>1, <1>2 DEF TalkInv, PendingAgrees
<1>4. \A e \in Elems(up[s]) : e[2] = c => kind = "ack" /\ e[1] # "ack"
  BY <1>1 DEF TalkInv, PendingInOrder, Precedes, Elems
<1>5. /\ \A t \in Sessions : t # s => inb'[t] = inb[t]
      /\ inb'[s] = NoEvent
      /\ UNCHANGED <<sentOn, answer, pump, down, work, up>>
  BY DEF InboundApply, DispatchTypeOK, pumps
<1>6. \A t \in Sessions : Cut(t)
  BY <1>5 DEF Cut
<1>7. CASE UNCHANGED cmd
  BY <1>5, <1>6, <1>7, TalkFrame DEF UnsentMove, MarkedKept
<1>8. CASE cmd' # cmd
  <2>1. /\ cmd'[c] \in {"acknowledged", "succeeded", "failed"}
        /\ kind = "ack" => cmd'[c] = "acknowledged"
        /\ cmd'[c] = "acknowledged" => kind = "ack"
        /\ cmd'[c] = "succeeded" => kind = "succeed"
        /\ cmd'[c] = "failed" => kind \in {"reject", "fail"}
        /\ \A d \in Commands : d # c => cmd'[d] = cmd[d]
    <3>1. cmd' = [cmd EXCEPT ![c] = Target[kind]]
      BY <1>8 DEF InboundApply, Transition, DispatchTypeOK
    <3>2. cmd'[c] = Target[kind] /\ \A d \in Commands : d # c => cmd'[d] = cmd[d]
      BY <1>1, <3>1 DEF DispatchTypeOK
    <3> HIDE DEF kind, c
    <3> QED
      BY <1>1, <3>2 DEF Target, Answers
  <2> HIDE DEF kind, c
  <2>2. PendingAgrees'
    <3> SUFFICES ASSUME NEW t \in Sessions, NEW d \in Commands
                 PROVE  /\ d \in Elems(down[t]) =>
                             cmd'[d] = "sent" /\ work[t] # d /\ \A e \in Pending(t)' : e[2] # d
                        /\ work[t] = d =>
                             /\ cmd'[d] \in {"sent", "acknowledged"}
                             /\ \A e \in Pending(t)' : e[2] = d => e[1] = "ack"
                        /\ \A e \in Pending(t)' : e[2] = d =>
                             /\ cmd'[d] \in {"sent", "acknowledged"}
                             /\ e[1] = "ack" => cmd'[d] = "sent"
                             /\ e[1] # "ack" => answer[d] = e[1]
      BY <1>5 DEF PendingAgrees
    <3>1. \A e \in Pending(t)' : e[2] = d => e \in Pending(t)
      <4>1. Pending(t)' \subseteq Pending(t) \cup {NoEvent}
        BY <1>6, CutNamesLess
      <4>2. NoEvent[2] # d
        BY CommandsAssumption DEF NoEvent
      <4> QED
        BY <4>1, <4>2
    <3>2. CASE d # c
      BY <2>1, <3>1, <3>2 DEF TalkInv, PendingAgrees
    <3>3. CASE d = c /\ t # s
      <4>1. d \notin InFlight(t)
        BY <1>2, <3>3 DEF CommandInv, StreamsOwn
      <4>2. d \notin Elems(down[t]) /\ work[t] # d /\ \A e \in Pending(t) : e[2] # d
        BY <4>1 DEF InFlight, Pending
      <4> QED
        BY <3>1, <4>2
    <3>4. CASE d = c /\ t = s
      <4>1. \A e \in Pending(s)' : e[2] = c => e \in Elems(up[s])
        <5>1. Pending(s)' = Elems(up[s]) \cup {NoEvent}
          BY <1>5 DEF Pending
        <5>2. NoEvent[2] # c
          BY <1>1, CommandsAssumption DEF NoEvent
        <5> QED
          BY <5>1, <5>2
      <4>2. \A e \in Pending(s)' : e[2] = c =>
               kind = "ack" /\ e[1] # "ack" /\ answer[c] = e[1] /\ work[s] # c
        <5> SUFFICES ASSUME NEW e \in Pending(s)', e[2] = c
                     PROVE  kind = "ack" /\ e[1] # "ack" /\ answer[c] = e[1] /\ work[s] # c
          OBVIOUS
        <5>1. e \in Elems(up[s]) /\ e \in Pending(s)
          BY <4>1 DEF Pending
        <5>2. kind = "ack" /\ e[1] # "ack"
          BY <1>4, <5>1
        <5> QED
          BY <1>1, <5>1, <5>2 DEF TalkInv, PendingAgrees
      <4>3. work[s] = c => cmd'[c] = "acknowledged"
        BY <1>3, <2>1
      <4> QED
        BY <1>3, <2>1, <3>4, <4>2, <4>3
    <3> QED
      BY <3>2, <3>3, <3>4
  <2>3. PendingInOrder'
    <3> SUFFICES ASSUME NEW t \in Sessions, inb'[t] # NoEvent
                 PROVE  \A j \in DOMAIN up[t] : Precedes(inb'[t], up[t][j])
      BY <1>5 DEF TalkInv, PendingInOrder
    <3> QED
      BY <1>5 DEF TalkInv, PendingInOrder
  <2>4. MarkedIsApart'
    <3> SUFFICES ASSUME NEW u \in Sessions, NEW t \in Sessions, NEW d \in pump[u].todo,
                        pump[u].at = "marked"
                 PROVE  cmd'[d] = "sent" /\ d \notin InFlight(t)'
      BY <1>5 DEF MarkedIsApart
    <3>1. d \in Commands /\ cmd[d] = "sent" /\ \A r \in Sessions : d \notin InFlight(r)
      BY DEF DispatchTypeOK, TalkInv, MarkedIsApart
    <3>2. d # c
      BY <1>2, <3>1
    <3> QED
      BY <1>6, <2>1, <3>1, <3>2, CutNamesLess
  <2>5. TerminalIsAgentOutcome'
    <3> SUFFICES ASSUME NEW d \in Commands, sentOn[d] # NoSession
                 PROVE  /\ cmd'[d] # "queued"
                        /\ cmd'[d] = "succeeded" => answer[d] = "succeed"
                        /\ cmd'[d] = "failed" => answer[d] \in {"reject", "fail"}
      BY <1>5 DEF TerminalIsAgentOutcome
    <3>1. CASE d = c
      BY <1>3, <2>1, <3>1
    <3>2. CASE d # c
      BY <2>1, <3>2 DEF TalkInv, TerminalIsAgentOutcome
    <3> QED
      BY <3>1, <3>2
  <2> QED
    BY <2>2, <2>3, <2>4, <2>5 DEF TalkInv
<1> QED
  BY <1>7, <1>8

----------------------------------------------------------------------------
(* The invariant and the theorems                                          *)

\* Before anything is enqueued there is nothing to agree on.
LEMMA InitTalk == DispatchInit => TalkInv
<1> SUFFICES ASSUME DispatchInit PROVE TalkInv
  OBVIOUS
<1>1. \A s \in Sessions : Elems(down[s]) = {} /\ Elems(up[s]) = {} /\ Pending(s) = {NoEvent}
  BY ElemsEmpty DEF DispatchInit, Pending
<1>2. PendingAgrees
  BY <1>1, CommandsAssumption DEF DispatchInit, PendingAgrees, NoEvent
<1>3. PendingInOrder
  BY DEF DispatchInit, PendingInOrder
<1>4. MarkedIsApart /\ TerminalIsAgentOutcome
  BY DEF DispatchInit, MarkedIsApart, At, TerminalIsAgentOutcome
<1> QED
  BY <1>2, <1>3, <1>4 DEF TalkInv

\* Streams that do not change are not cut.
LEMMA UncutStreams == UNCHANGED <<down, work, up, inb>> => \A t \in Sessions : Cut(t)
  BY DEF Cut

\* The hub fails a command only while it is queued.
LEMMA FailsUnsent ==
    ASSUME DispatchTypeOK, NEW c \in Commands, Applies(c, "failqueued"), Transition(c, "failqueued")
    PROVE  UnsentMove
  BY DEF DispatchTypeOK, Applies, Allowed, Transition, UnsentMove

\* A pump that leaves its work marks nothing.
LEMMA LeavesMarked ==
    ASSUME DispatchTypeOK, NEW s \in Sessions, Leaves(s)
    PROVE  MarkedKept
  BY DEF DispatchTypeOK, Leaves, Move, At, MarkedKept

\* Every step keeps the agreement of agent, streams and ledger.
LEMMA TalkStep == DispatchInv /\ TalkInv /\ [DispatchNext]_allvars => TalkInv'
<1> SUFFICES ASSUME DispatchInv, TalkInv, [DispatchNext]_allvars PROVE TalkInv'
  OBVIOUS
<1>0. DispatchTypeOK /\ CommandInv /\ PumpWork
  BY DEF DispatchInv, CommandInv
<1> USE DEF ledger, stream, pumps
<1>1. ASSUME NEW c \in Commands, Enqueue(c) \/ Cancel(c) PROVE TalkInv'
  <2>1. UnsentMove
    BY <1>0, <1>1 DEF Enqueue, Cancel, UnsentMove, DispatchTypeOK
  <2>2. MarkedKept
    BY <1>1 DEF Enqueue, Cancel, MarkedKept
  <2> QED
    BY <1>0, <1>1, <2>1, <2>2, UncutStreams, TalkFrame DEF Enqueue, Cancel
<1>2. ASSUME NEW h \in Hubs, ReceiveWake(h) \/ LoseWake(h) PROVE TalkInv'
  BY <1>0, <1>2, UncutStreams, TalkFrame DEF ReceiveWake, LoseWake, MarkedKept, UnsentMove
<1>3. ASSUME NEW h \in Hubs, CrashHub(h) PROVE TalkInv'
  <2>1. MarkedKept
    BY <1>3 DEF CrashHub, At, MarkedKept
  <2>2. \A t \in Sessions : Cut(t)
    BY <1>3 DEF CrashHub, Cut
  <2> QED
    BY <1>0, <1>3, <2>1, <2>2, TalkFrame DEF CrashHub, UnsentMove
<1>4. ASSUME NEW s \in Sessions,
             PumpEmpty(s) \/ PumpRefused(s) \/ PumpSendLost(s) \/ PumpError(s) \/ PumpWake(s)
               \/ PumpStatus(s) \/ PumpClose(s)
      PROVE  TalkInv'
  <2>1. Leaves(s)
    BY <1>4, EndedLeaves DEF PumpEmpty, PumpRefused, PumpSendLost, PumpError, PumpWake, PumpStatus,
       PumpClose, Leaves
  <2>2. UNCHANGED <<cmd, sentOn, answer, down, work, up, inb>>
    BY <1>4 DEF PumpEmpty, PumpRefused, PumpSendLost, PumpError, PumpWake, PumpStatus, PumpClose
  <2> QED
    BY <1>0, <2>1, <2>2, LeavesMarked, UncutStreams, TalkFrame DEF UnsentMove
<1>5. ASSUME NEW s \in Sessions, SpawnPump(s) \/ PumpRead(s) PROVE TalkInv'
  <2>1. MarkedKept
    BY <1>0, <1>5 DEF SpawnPump, PumpRead, Move, At, MarkedKept, DispatchTypeOK
  <2> QED
    BY <1>0, <1>5, <2>1, UncutStreams, TalkFrame DEF SpawnPump, PumpRead, UnsentMove
<1>6. ASSUME NEW s \in Sessions, PumpFail(s) PROVE TalkInv'
  <2>1. Leaves(s)
    BY <1>6, EndedLeaves DEF PumpFail, Leaves
  <2>2. UnsentMove
    <3>1. CASE UNCHANGED cmd
      BY <3>1 DEF UnsentMove
    <3>2. CASE Applies(Oldest(pump[s].todo), "failqueued") /\ Transition(Oldest(pump[s].todo), "failqueued")
      BY <1>0, <1>6, <3>2, PumpCommand, FailsUnsent DEF PumpFail
    <3> QED
      BY <1>6, <3>1, <3>2 DEF PumpFail
  <2> QED
    BY <1>0, <1>6, <2>1, <2>2, LeavesMarked, UncutStreams, TalkFrame DEF PumpFail
<1>7. ASSUME NEW s \in Sessions, Finalize(s) PROVE TalkInv'
  <2>1. MarkedKept
    <3>1. CASE SessionEnded(s)
      BY <1>0, <3>1, EndedLeaves, LeavesMarked
    <3>2. CASE ~SessionEnded(s)
      <4>1. pump' = [pump EXCEPT ![s] = [at |-> "finalize", todo |-> Queued \cap Gated]]
        BY <1>7, <3>2, Zenon DEF Finalize, Move
      <4> QED
        BY <1>0, <4>1 DEF MarkedKept, DispatchTypeOK
    <3> QED
      BY <3>1, <3>2
  <2> QED
    BY <1>0, <1>7, <2>1, UncutStreams, TalkFrame DEF Finalize, UnsentMove
<1>8. ASSUME NEW s \in Sessions, FinalizeOne(s) PROVE TalkInv'
  <2>1. UnsentMove
    <3>1. CASE UNCHANGED cmd
      BY <3>1 DEF UnsentMove
    <3>2. CASE Applies(Oldest(pump[s].todo), "failqueued") /\ Transition(Oldest(pump[s].todo), "failqueued")
      BY <1>0, <1>8, <3>2, PumpCommand, FailsUnsent DEF FinalizeOne
    <3> QED
      BY <1>8, <3>1, <3>2 DEF FinalizeOne
  <2>2. MarkedKept
    <3>1. CASE SessionEnded(s)
      BY <1>0, <3>1, EndedLeaves, LeavesMarked
    <3>2. CASE ~SessionEnded(s)
      <4>1. pump' = [pump EXCEPT ![s].todo = pump[s].todo \ {Oldest(pump[s].todo)}]
            /\ pump[s].at = "finalize"
        BY <1>8, <3>2 DEF FinalizeOne
      <4> QED
        BY <1>0, <4>1 DEF MarkedKept, DispatchTypeOK
    <3> QED
      BY <3>1, <3>2
  <2> QED
    BY <1>0, <1>8, <2>1, <2>2, UncutStreams, TalkFrame DEF FinalizeOne
<1>9. ASSUME NEW s \in Sessions, PumpMark(s) \/ PumpSend(s) PROVE TalkInv'
  BY <1>0, <1>9, TalkMark, TalkSend
<1>10. ASSUME NEW s \in Sessions,
              AgentTake(s) \/ AgentFinish(s) \/ InboundReceive(s) \/ InboundApply(s)
       PROVE  TalkInv'
  BY <1>0, <1>10, TalkTake, TalkFinish, TalkReceive, TalkApply
<1>11. ASSUME NEW s \in Sessions, AgentGone(s) \/ EndInbound(s) PROVE TalkInv'
  <2>1. \A t \in Sessions : Cut(t)
    BY <1>0, <1>11 DEF AgentGone, EndInbound, Cut, DispatchTypeOK
  <2> QED
    BY <1>0, <1>11, <2>1, TalkFrame DEF AgentGone, EndInbound, MarkedKept, UnsentMove
<1>12. ASSUME NEW s \in Sessions, FeatureSnapshot(s) PROVE TalkInv'
  BY <1>0, <1>12, UncutStreams, TalkFrame DEF FeatureSnapshot, MarkedKept, UnsentMove
<1>13. CASE SessionOnly \/ UNCHANGED allvars
  <2>1. UNCHANGED dvars
    BY <1>13 DEF SessionOnly, allvars
  <2> QED
    BY <1>0, <2>1, UncutStreams, TalkFrame DEF dvars, MarkedKept, UnsentMove
<1> QED
  BY <1>1, <1>2, <1>3, <1>4, <1>5, <1>6, <1>7, <1>8, <1>9, <1>10, <1>11, <1>12, <1>13
  DEF DispatchNext, PumpStep, StreamStep

\* Agent, streams and ledger agree in every reachable state.
LEMMA TalkInvariant == DispatchSpec => []TalkInv
  BY InitTalk, TalkStep, DispatchInvariant, PTL DEF DispatchSpec

\* A command that was sent ends in the ledger only with the outcome the agent
\* reported: no final sweep of a closing session, on whatever replica, and no
\* crash makes the ledger say otherwise, and it never returns to the queue.
THEOREM OutcomesAreTheAgents == DispatchSpec => []TerminalIsAgentOutcome
  BY TalkInvariant, PTL DEF TalkInv

\* Whatever an agent acknowledges, rejects or reports in the protocol's order,
\* the ledger accepts it: InvalidCommandTransition never ends the stream of an
\* agent that follows the protocol.
THEOREM AgentsAreUnderstood == DispatchSpec => []NoProtocolError
<1>1. ASSUME DispatchInv, TalkInv PROVE NoProtocolError
  <2> SUFFICES ASSUME NEW s \in Sessions, InvalidTransition(s) PROVE FALSE
    BY DEF NoProtocolError
  <2>1. inb[s] \in Events /\ inb[s] \in Pending(s)
    BY <1>1 DEF InvalidTransition, DispatchInv, DispatchTypeOK, Pending
  <2>2. inb[s][1] \in Answers /\ inb[s][2] \in Commands
    BY <2>1 DEF Events
  <2>3. cmd[inb[s][2]] \in {"sent", "acknowledged"} /\ (inb[s][1] = "ack" => cmd[inb[s][2]] = "sent")
    BY <1>1, <2>1, <2>2 DEF TalkInv, PendingAgrees
  <2>4. cmd[inb[s][2]] \in Allowed[inb[s][1]]
    BY <2>2, <2>3 DEF Answers, Allowed
  <2> QED
    BY <2>4 DEF InvalidTransition, Applies
<1> QED
  BY <1>1, TalkInvariant, DispatchInvariant, PTL

=============================================================================
