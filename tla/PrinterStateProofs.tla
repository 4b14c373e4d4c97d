-------------------------- MODULE PrinterStateProofs --------------------------
(***************************************************************************)
(* Proofs about the printer's row, for any number of sessions, events and    *)
(* tasks.  The session columns of the row name sessions that reported, and   *)
(* only a handler that has not ended has tasks or is the current one.        *)
(***************************************************************************)
EXTENDS PrinterState, FiniteSetTheorems, TLAPS

Statuses == {"unknown", "online", "offline"}
Rows == [live : BOOLEAN, status : Statuses, at : 0..MaxEvents,
         presence : 0..MaxSession, features : 0..MaxEvents, featuresOf : 0..MaxSession,
         materials : 0..MaxEvents, rev : Nat]
Tasks == [e : Events, done : BOOLEAN]
Histories == [full : SUBSET Sessions, features : SUBSET Sessions]

StateTypes ==
    /\ row \in Rows /\ last \in 0..MaxSession /\ current \in {0, last} /\ sent \in 0..MaxEvents
    /\ stream \in [Sessions -> Seq(Events)] /\ tasks \in [Sessions -> SUBSET Tasks]
    /\ handler \in [Sessions -> {"none", "run", "drain", "ended"}]
    /\ history \in Histories

\* No more tasks than permits.
Bounded(s) == IsFiniteSet(tasks[s]) /\ Cardinality(tasks[s]) <= MaxTasks

\* The session columns are of sessions that reported.
Reported ==
    /\ row.presence # 0 => row.presence \in history.full
    /\ row.featuresOf # 0 => row.featuresOf \in history.features

StateInv == StateTypes /\ (\A s \in Sessions : Bounded(s)) /\ Reported /\ EndedIsQuiet

-----------------------------------------------------------------------------
(* Lemmas.                                                                   *)

\* An event of a stream is an event, and the rest of the stream a stream.
LEMMA HeadOfStream ==
    ASSUME StateTypes, NEW s \in Sessions, stream[s] # <<>>
    PROVE  Head(stream[s]) \in Events /\ Tail(stream[s]) \in Seq(Events)
BY DEF StateTypes

\* What upsert writes is a row of sessions that reported (TelemetryWriteMask).
LEMMA UpsertedIsRow ==
    ASSUME StateAssumption, NEW r \in Rows, NEW s \in Sessions, NEW e \in Events
    PROVE  Upserted(r, s, e) \in Rows
<1>1. e.n \in 0..MaxEvents BY DEF Events, StateAssumption
<1>2. s \in 0..MaxSession BY DEF Sessions, StateAssumption
<1>3. /\ r.status \in Statuses /\ r.presence \in 0..MaxSession /\ r.features \in 0..MaxEvents
      /\ r.featuresOf \in 0..MaxSession /\ r.materials \in 0..MaxEvents /\ r.rev + 1 \in Nat
  BY DEF Rows
<1>4. 0 \in 0..MaxEvents BY DEF StateAssumption
<1>5. (IF StatusWritten(e.k) \/ ~r.live THEN StatusOf(e.k) ELSE r.status) \in Statuses
  BY <1>3 DEF Statuses, StatusOf
<1> QED BY <1>1, <1>2, <1>3, <1>4, <1>5 DEF Upserted, Rows

\* A task that has written keeps its place among the permits.
LEMMA DoneKeepsPlace ==
    ASSUME StateAssumption, StateInv, NEW s \in Sessions, NEW t \in tasks[s],
           NEW u \in Tasks
    PROVE  LET S == (tasks[s] \ {t}) \union {u}
           IN S \in SUBSET Tasks /\ IsFiniteSet(S) /\ Cardinality(S) <= MaxTasks
<1> DEFINE R == tasks[s] \ {t}
<1>1. IsFiniteSet(tasks[s]) /\ Cardinality(tasks[s]) <= MaxTasks /\ tasks[s] \in SUBSET Tasks
  BY DEF StateInv, StateTypes, Bounded
<1>2. Cardinality(tasks[s]) \in Nat BY <1>1, FS_CardinalityType
<1>3. IsFiniteSet(R) /\ Cardinality(R) = Cardinality(tasks[s]) - 1 BY <1>1, FS_RemoveElement
<1>4. /\ IsFiniteSet(R \cup {u})
      /\ Cardinality(R \cup {u}) = IF u \in R THEN Cardinality(R) ELSE Cardinality(R) + 1
  BY <1>3, FS_AddElement
<1>5. Cardinality(R \cup {u}) <= MaxTasks BY <1>1, <1>2, <1>3, <1>4 DEF StateAssumption
<1> QED BY <1>1, <1>4, <1>5

-----------------------------------------------------------------------------
(* The inductive invariant.                                                  *)

LEMMA StateInitially == ASSUME StateAssumption, StateInit PROVE StateInv
<1>1. StateTypes
  BY DEF StateInit, StateAssumption, StateTypes, NoRow, Rows, Statuses, Histories, Sessions
<1>2. \A s \in Sessions : Bounded(s) BY FS_EmptySet DEF StateInit, Bounded, StateAssumption
<1> QED BY <1>1, <1>2 DEF StateInit, StateInv, Reported, NoRow, EndedIsQuiet

\* A new session of the agent.
LEMMA ConnectKeeps == ASSUME StateAssumption, StateInv, Connect PROVE StateInv'
<1>1. last + 1 \in Sessions /\ last' \in 0..MaxSession
  BY DEF Connect, StateInv, StateTypes, Sessions, StateAssumption
<1>2. StateTypes' BY <1>1 DEF Connect, StateInv, StateTypes
<1>3. EndedIsQuiet' BY <1>1 DEF Connect, StateInv, StateTypes, EndedIsQuiet
<1>4. Reported' /\ \A s \in Sessions : Bounded(s)' BY DEF Connect, StateInv, Reported, Bounded
<1> QED BY <1>2, <1>3, <1>4 DEF StateInv

\* An event is sent.
LEMMA SendKeeps ==
    ASSUME StateAssumption, StateInv, NEW k \in Kinds, NEW o \in 1..MaxEvents, Send(k, o)
    PROVE  StateInv'
<1>1. [k |-> k, n |-> sent + 1, o |-> o] \in Events /\ sent' \in 0..MaxEvents
  BY DEF Send, StateInv, StateTypes, Events, StateAssumption
<1>2. stream' \in [Sessions -> Seq(Events)]
  <2>1. stream \in [Sessions -> Seq(Events)] BY DEF StateInv, StateTypes
  <2>2. \A s \in Sessions : Append(stream[s], [k |-> k, n |-> sent + 1, o |-> o]) \in Seq(Events)
    BY <1>1, <2>1
  <2> QED BY <2>1, <2>2 DEF Send
<1>3. StateTypes' BY <1>1, <1>2 DEF Send, StateInv, StateTypes
<1> QED BY <1>3 DEF Send, StateInv, EndedIsQuiet, Reported, Bounded

\* apply_snapshot: only the current session writes the row.
LEMMA ApplyKeeps ==
    ASSUME StateAssumption, StateInv, NEW s \in Sessions, NEW t \in tasks[s], ApplySnapshot(s, t)
    PROVE  StateInv'
<1> DEFINE u == [t EXCEPT !.done = TRUE]
<1>1. t \in Tasks /\ t.e \in Events /\ u \in Tasks
  <2>1. t \in Tasks BY DEF StateInv, StateTypes
  <2> QED BY <2>1 DEF Tasks
<1>2. LET S == (tasks[s] \ {t}) \union {u}
      IN S \in SUBSET Tasks /\ IsFiniteSet(S) /\ Cardinality(S) <= MaxTasks
  BY <1>1, DoneKeepsPlace
<1>3. tasks' = [tasks EXCEPT ![s] = (tasks[s] \ {t}) \union {u}] BY DEF ApplySnapshot
<1>4. tasks' \in [Sessions -> SUBSET Tasks] BY <1>2, <1>3 DEF StateInv, StateTypes
<1>5. ASSUME NEW r \in Sessions PROVE Bounded(r)'
  BY <1>2, <1>3 DEF StateInv, StateTypes, Bounded
<1>6. row' \in Rows BY <1>1, UpsertedIsRow DEF ApplySnapshot, StateInv, StateTypes
<1>7. history' \in Histories BY DEF ApplySnapshot, StateInv, StateTypes, Histories
<1>8. StateTypes' BY <1>4, <1>6, <1>7 DEF ApplySnapshot, StateInv, StateTypes
<1>9. Reported'
  <2>1. CASE s = current
    <3>1. row' = Upserted(row, s, t.e) BY <2>1 DEF ApplySnapshot
    <3>2. /\ row'.presence = IF t.e.k \in Authoritative THEN s ELSE row.presence
          /\ row'.featuresOf = IF t.e.k \in CarriesFun THEN s ELSE row.featuresOf
      BY <3>1 DEF Upserted
    <3>3. /\ history'.full = history.full \union (IF t.e.k \in Authoritative THEN {s} ELSE {})
          /\ history'.features = history.features \union (IF t.e.k \in CarriesFun THEN {s} ELSE {})
      BY <2>1 DEF ApplySnapshot
    <3> QED BY <3>2, <3>3 DEF StateInv, Reported
  <2>2. CASE s # current BY <2>2 DEF ApplySnapshot, StateInv, Reported
  <2> QED BY <2>1, <2>2
<1>10. EndedIsQuiet'
  <2>1. handler[s] # "ended" BY DEF StateInv, EndedIsQuiet
  <2> QED BY <1>3, <2>1 DEF ApplySnapshot, StateInv, StateTypes, EndedIsQuiet
<1> QED BY <1>5, <1>8, <1>9, <1>10 DEF StateInv

\* Events that the handler applies itself.
LEMMA HandleKeeps ==
    ASSUME StateAssumption, StateInv, NEW s \in Sessions, HandleEvent(s)
    PROVE  StateInv'
<1> DEFINE e == Head(stream[s])
<1>1. e \in Events /\ Tail(stream[s]) \in Seq(Events) BY HeadOfStream DEF HandleEvent, StateInv
<1>2. e.n \in 0..MaxEvents /\ e.o \in 0..MaxEvents /\ s \in 0..MaxSession /\ 0 \in 0..MaxSession
  BY <1>1 DEF Events, Sessions, StateAssumption
<1>3. stream' \in [Sessions -> Seq(Events)] BY <1>1 DEF HandleEvent, StateInv, StateTypes
<1>4. row' \in Rows /\ history' \in Histories /\ Reported'
  <2>1. CASE UNCHANGED <<row, history>> BY <2>1 DEF StateInv, StateTypes, Reported
  <2>2. CASE ApplyMaterials(e) /\ UNCHANGED history
    <3>1. row' = row \/ row' = [row EXCEPT !.materials = e.o] BY <2>2 DEF ApplyMaterials
    <3>2. row' \in Rows BY <1>2, <3>1 DEF StateInv, StateTypes, Rows
    <3>3. row'.presence = row.presence /\ row'.featuresOf = row.featuresOf
      BY <3>1 DEF StateInv, StateTypes, Rows
    <3> QED BY <2>2, <3>2, <3>3 DEF StateInv, StateTypes, Reported
  <2>3. CASE ApplyFeatures(s, e)
    <3>1. CASE UNCHANGED <<row, history>> BY <3>1 DEF StateInv, StateTypes, Reported
    <3>2. CASE row' = [row EXCEPT !.featuresOf = 0] /\ UNCHANGED history
      BY <1>2, <3>2 DEF StateInv, StateTypes, Reported, Rows
    <3>3. CASE /\ row' = [row EXCEPT !.features = e.n, !.featuresOf = s]
               /\ history' = [history EXCEPT !.features = history.features \union {s}]
      <4>1. row' \in Rows BY <1>2, <3>3 DEF StateInv, StateTypes, Rows
      <4>2. history' \in Histories /\ history'.full = history.full /\ s \in history'.features
        BY <3>3 DEF StateInv, StateTypes, Histories
      <4>3. row'.presence = row.presence /\ row'.featuresOf = s BY <3>3 DEF StateInv, StateTypes, Rows
      <4> QED BY <4>1, <4>2, <4>3 DEF StateInv, Reported
    <3> QED BY <2>3, <3>1, <3>2, <3>3 DEF ApplyFeatures
  <2> QED BY <2>1, <2>2, <2>3 DEF HandleEvent
<1>5. StateTypes' BY <1>3, <1>4 DEF HandleEvent, StateInv, StateTypes
<1> QED BY <1>4, <1>5 DEF HandleEvent, StateInv, EndedIsQuiet, Bounded

\* A snapshot gets a task of its own while there are permits.
LEMMA SpawnKeeps ==
    ASSUME StateAssumption, StateInv, NEW s \in Sessions, SpawnSnapshot(s)
    PROVE  StateInv'
<1> DEFINE t == [e |-> Head(stream[s]), done |-> FALSE]
<1>1. t \in Tasks /\ Tail(stream[s]) \in Seq(Events)
  BY HeadOfStream DEF SpawnSnapshot, StateInv, Tasks
<1>2. tasks' = [tasks EXCEPT ![s] = tasks[s] \union {t}] BY DEF SpawnSnapshot
<1>3. IsFiniteSet(tasks[s]) /\ Cardinality(tasks[s]) \in Nat /\ Cardinality(tasks[s]) < MaxTasks
  BY FS_CardinalityType DEF SpawnSnapshot, StateInv, Bounded
<1>4. IsFiniteSet(tasks[s] \union {t}) /\ Cardinality(tasks[s] \union {t}) <= MaxTasks
  <2>1. /\ IsFiniteSet(tasks[s] \union {t})
        /\ Cardinality(tasks[s] \union {t}) = IF t \in tasks[s] THEN Cardinality(tasks[s])
                                                              ELSE Cardinality(tasks[s]) + 1
    BY <1>3, FS_AddElement, Zenon
  <2> QED BY <1>3, <2>1 DEF StateAssumption
<1>5. StateTypes' BY <1>1, <1>2 DEF SpawnSnapshot, StateInv, StateTypes
<1>6. ASSUME NEW r \in Sessions PROVE Bounded(r)'
  BY <1>2, <1>4 DEF StateInv, StateTypes, Bounded
<1>7. EndedIsQuiet' BY <1>2 DEF SpawnSnapshot, StateInv, StateTypes, EndedIsQuiet
<1> QED BY <1>5, <1>6, <1>7 DEF SpawnSnapshot, StateInv, Reported

\* A task is joined.
LEMMA JoinKeeps ==
    ASSUME StateAssumption, StateInv, NEW s \in Sessions, NEW t \in tasks[s], JoinTask(s, t)
    PROVE  StateInv'
<1>1. tasks' = [tasks EXCEPT ![s] = tasks[s] \ {t}] BY DEF JoinTask
<1>2. IsFiniteSet(tasks[s]) /\ Cardinality(tasks[s]) \in Nat /\ Cardinality(tasks[s]) <= MaxTasks
  BY FS_CardinalityType DEF StateInv, Bounded
<1>3. IsFiniteSet(tasks[s] \ {t}) /\ Cardinality(tasks[s] \ {t}) <= MaxTasks
  BY <1>2, FS_RemoveElement DEF StateAssumption
<1>4. StateTypes' BY <1>1 DEF JoinTask, StateInv, StateTypes
<1>5. ASSUME NEW r \in Sessions PROVE Bounded(r)'
  BY <1>1, <1>3 DEF StateInv, StateTypes, Bounded
<1>6. EndedIsQuiet' BY <1>1 DEF JoinTask, StateInv, StateTypes, EndedIsQuiet
<1> QED BY <1>4, <1>5, <1>6 DEF JoinTask, StateInv, Reported

\* The end of a stream: its tasks are joined before its session is taken out.
LEMMA EndKeeps ==
    ASSUME StateAssumption, StateInv, NEW s \in Sessions, StreamEnds(s) \/ Disconnect(s)
    PROVE  StateInv'
<1>1. CASE StreamEnds(s)
  <2>1. StateTypes' BY <1>1 DEF StreamEnds, StateInv, StateTypes
  <2>2. EndedIsQuiet' BY <1>1 DEF StreamEnds, StateInv, StateTypes, EndedIsQuiet
  <2> QED BY <1>1, <2>1, <2>2 DEF StreamEnds, StateInv, Reported, Bounded
<1>2. CASE Disconnect(s)
  <2>1. StateTypes' BY <1>2 DEF Disconnect, StateInv, StateTypes
  <2>2. EndedIsQuiet' BY <1>2 DEF Disconnect, StateInv, StateTypes, EndedIsQuiet, Sessions, StateAssumption
  <2> QED BY <1>2, <2>1, <2>2 DEF Disconnect, StateInv, Reported, Bounded
<1> QED BY <1>1, <1>2

\* A user's request.
LEMMA UserKeeps ==
    ASSUME StateAssumption, StateInv, DeletePrinter \/ UpdateDetails
    PROVE  StateInv'
<1>1. row' \in Rows /\ Reported'
  <2>1. CASE DeletePrinter
    BY <2>1 DEF DeletePrinter, Reported, Rows, NoRow, Statuses, StateAssumption
  <2>2. CASE UpdateDetails
    <3>1. /\ row' \in Rows /\ row'.presence = row.presence /\ row'.featuresOf = row.featuresOf
      BY <2>2 DEF UpdateDetails, StateInv, StateTypes, Rows
    <3> QED BY <2>2, <3>1 DEF UpdateDetails, StateInv, Reported
  <2> QED BY <2>1, <2>2
<1>2. StateTypes' /\ EndedIsQuiet' /\ \A s \in Sessions : Bounded(s)'
  BY <1>1 DEF DeletePrinter, UpdateDetails, StateInv, StateTypes, EndedIsQuiet, Bounded
<1> QED BY <1>1, <1>2 DEF StateInv

LEMMA StateKept == ASSUME StateAssumption, StateInv, [StateNext]_stateVars PROVE StateInv'
<1>1. CASE UNCHANGED stateVars
  BY <1>1 DEF stateVars, StateInv, StateTypes, Reported, EndedIsQuiet, Bounded
<1>2. CASE Connect BY <1>2, ConnectKeeps
<1>3. CASE DeletePrinter \/ UpdateDetails BY <1>3, UserKeeps
<1>4. ASSUME NEW k \in Kinds, NEW o \in 1..MaxEvents, Send(k, o) PROVE StateInv' BY <1>4, SendKeeps
<1>5. ASSUME NEW s \in Sessions, HandleEvent(s) PROVE StateInv' BY <1>5, HandleKeeps
<1>6. ASSUME NEW s \in Sessions, SpawnSnapshot(s) PROVE StateInv' BY <1>6, SpawnKeeps
<1>7. ASSUME NEW s \in Sessions, StreamEnds(s) \/ Disconnect(s) PROVE StateInv' BY <1>7, EndKeeps
<1>8. ASSUME NEW s \in Sessions, NEW t \in tasks[s], ApplySnapshot(s, t) \/ JoinTask(s, t) PROVE StateInv'
  BY <1>8, ApplyKeeps, JoinKeeps
<1> QED BY <1>1, <1>2, <1>3, <1>4, <1>5, <1>6, <1>7, <1>8 DEF StateNext, TaskStep

-----------------------------------------------------------------------------
(* Theorems.                                                                 *)

LEMMA StateInvariant == ASSUME StateAssumption PROVE StateSpec => []StateInv
<1>1. StateInit => StateInv BY StateInitially
<1>2. StateInv /\ [StateNext]_stateVars => StateInv' BY StateKept
<1> QED BY <1>1, <1>2, PTL DEF StateSpec

\* The row, the handlers and their tasks stay typed, and no handler runs more
\* snapshot tasks than there are permits.
THEOREM StateTypeCorrect == ASSUME StateAssumption PROVE StateSpec => []StateTypeOK
<1>1. StateInv => StateTypeOK
  BY DEF StateInv, StateTypes, StateTypeOK, Rows, Statuses, Tasks, Bounded
<1> QED BY <1>1, StateInvariant, PTL

\* Studio is shown a printer as online, or its features, only if the current session reported them,
\* but for a row that no session has written in full, which is online while the agent has no session
\* (studio_printer_record).
THEOREM ShownIsReported == ASSUME StateAssumption PROVE StateSpec => []ProjectedBySession
<1>1. StateInv => ProjectedBySession
  BY DEF StateInv, Reported, ProjectedBySession, Online, Features
<1> QED BY <1>1, StateInvariant, PTL

\* A handler that has ended has left no task behind, and its session is not
\* the current one (spawn_inbound_handler).
THEOREM EndedHandlersAreQuiet == ASSUME StateAssumption PROVE StateSpec => []EndedIsQuiet
<1>1. StateInv => EndedIsQuiet BY DEF StateInv
<1> QED BY <1>1, StateInvariant, PTL

\* What the run checks of the rows Studio is shown, for every number of sessions and events.
THEOREM RowsShownAsReported == ASSUME StateAssumption PROVE StateSpec => []ShownAsReported
<1>1. StateTypeOK /\ ProjectedBySession /\ EndedIsQuiet => ShownAsReported
  BY DEF ShownAsReported
<1> QED BY <1>1, StateTypeCorrect, ShownIsReported, EndedHandlersAreQuiet, PTL

\* The presence of a printer is only ever written by the current session.
THEOREM ReplacedSessionsAreSilent == ASSUME StateAssumption PROVE StateSpec => ReplacedIsSilent
<1>1. ASSUME StateInv, [StateNext]_stateVars PROVE ReplacedIsSilentStep
  <2>1. ASSUME NEW s \in Sessions, NEW t \in tasks[s], ApplySnapshot(s, t) PROVE ReplacedIsSilentStep
    <3>1. CASE s = current
      <4>1. row'.presence = IF t.e.k \in Authoritative THEN s ELSE row.presence
        BY <2>1, <3>1 DEF ApplySnapshot, Upserted
      <4> QED BY <3>1, <4>1 DEF ReplacedIsSilentStep
    <3>2. CASE s # current BY <2>1, <3>2 DEF ApplySnapshot, ReplacedIsSilentStep
    <3> QED BY <3>1, <3>2
  <2>2. ASSUME NEW s \in Sessions, HandleEvent(s) PROVE ReplacedIsSilentStep
    <3>1. row'.presence = row.presence
      BY <1>1, <2>2 DEF HandleEvent, ApplyMaterials, ApplyFeatures, StateInv, StateTypes, Rows
    <3> QED BY <3>1 DEF ReplacedIsSilentStep
  <2>3. CASE DeletePrinter BY <2>3 DEF DeletePrinter, NoRow, ReplacedIsSilentStep
  <2>4. CASE UpdateDetails
    BY <1>1, <2>4 DEF UpdateDetails, ReplacedIsSilentStep, StateInv, StateTypes, Rows
  <2>5. CASE UNCHANGED row BY <2>5 DEF ReplacedIsSilentStep
  <2>6. \/ UNCHANGED row \/ DeletePrinter \/ UpdateDetails
        \/ \E s \in Sessions : HandleEvent(s) \/ \E t \in tasks[s] : ApplySnapshot(s, t)
    BY <1>1 DEF StateNext, TaskStep, stateVars, Connect, Send, SpawnSnapshot, JoinTask, StreamEnds, Disconnect
  <2> QED BY <2>1, <2>2, <2>3, <2>4, <2>5, <2>6
<1>2. StateInv /\ [StateNext]_stateVars => [ReplacedIsSilentStep]_stateVars BY <1>1
<1> QED BY <1>2, StateInvariant, PTL DEF StateSpec, ReplacedIsSilent

\* Materials never go back to an older report (upsert_from_patch_outcome).
THEOREM MaterialsMoveForward == ASSUME StateAssumption PROVE StateSpec => MaterialsNeverOlder
<1>1. ASSUME StateInv, [StateNext]_stateVars PROVE MaterialsNeverOlderStep
  <2>0. row.materials \in Nat /\ row \in Rows BY <1>1 DEF StateInv, StateTypes, Rows, StateAssumption
  <2>1. ASSUME NEW s \in Sessions, NEW t \in tasks[s], ApplySnapshot(s, t) PROVE MaterialsNeverOlderStep
    <3>1. row'.materials \in {0, row.materials} BY <2>1 DEF ApplySnapshot, Upserted
    <3> QED BY <2>0, <3>1 DEF MaterialsNeverOlderStep
  <2>2. ASSUME NEW s \in Sessions, HandleEvent(s) PROVE MaterialsNeverOlderStep
    <3> DEFINE e == Head(stream[s])
    <3>1. e.o \in Nat
      <4>1. e \in Events BY <1>1, <2>2, HeadOfStream DEF HandleEvent, StateInv
      <4> QED BY <4>1 DEF Events, StateAssumption
    <3>2. row'.materials = row.materials \/ (row'.materials = e.o /\ e.o >= row.materials)
      BY <2>0, <2>2 DEF HandleEvent, ApplyMaterials, ApplyFeatures, Rows
    <3> QED BY <2>0, <3>1, <3>2 DEF MaterialsNeverOlderStep
  <2>3. CASE DeletePrinter BY <2>3 DEF DeletePrinter, NoRow, MaterialsNeverOlderStep
  <2>4. CASE UpdateDetails BY <2>0, <2>4 DEF UpdateDetails, MaterialsNeverOlderStep, Rows
  <2>5. CASE UNCHANGED row BY <2>0, <2>5 DEF MaterialsNeverOlderStep
  <2>6. \/ UNCHANGED row \/ DeletePrinter \/ UpdateDetails
        \/ \E s \in Sessions : HandleEvent(s) \/ \E t \in tasks[s] : ApplySnapshot(s, t)
    BY <1>1 DEF StateNext, TaskStep, stateVars, Connect, Send, SpawnSnapshot, JoinTask, StreamEnds, Disconnect
  <2> QED BY <2>1, <2>2, <2>3, <2>4, <2>5, <2>6
<1>2. StateInv /\ [StateNext]_stateVars => [MaterialsNeverOlderStep]_stateVars BY <1>1
<1> QED BY <1>2, StateInvariant, PTL DEF StateSpec, MaterialsNeverOlder
=============================================================================
