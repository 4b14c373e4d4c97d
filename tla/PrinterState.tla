------------------------------ MODULE PrinterState ------------------------------
(***************************************************************************)
(* What the hub stores of one printer from the event streams of its agent.   *)
(* A stream is handled in order, except that snapshots of the printer are    *)
(* applied by tasks of their own; everything is fenced by the agent's        *)
(* current session.  Materials, device features and the presence of the      *)
(* printer carry the session that reported them.                             *)
(***************************************************************************)
EXTENDS Naturals, Sequences, FiniteSets

CONSTANTS Kinds,        \* events the agent sends
          MaxSession, MaxEvents,
          MaxTasks      \* MAX_CONCURRENT_SNAPSHOT_APPLICATIONS

\* What a snapshot carries.  Telemetry-authoritative: link (the printer's connection is set up, which
\* clears the materials), full, and bare, a complete report without a status and features.  Partial:
\* offline and status have a status, fun the device features, delta none of them.
Snapshots == {"link", "full", "bare", "offline", "status", "fun", "delta"}
Authoritative == {"link", "full", "bare"}
CarriesStatus == {"link", "full", "offline", "status"}
CarriesFun == {"link", "full", "fun"}
StateAssumption == /\ MaxTasks \in Nat \ {0} /\ MaxSession \in Nat /\ MaxEvents \in Nat
                   /\ Kinds \subseteq Snapshots \union {"materials", "features", "nofeatures", "heartbeat"}

Sessions == 1..MaxSession
NoRow == [live |-> FALSE, status |-> "unknown", at |-> 0, presence |-> 0, features |-> 0, featuresOf |-> 0,
          materials |-> 0, rev |-> 0]

VARIABLES row,       \* the printers row and its materials row
          current,   \* the agent's current session, 0 when it is offline
          last,      \* the newest session
          stream,    \* by session: events sent and not yet handled
          handler,   \* by session: the inbound handler
          tasks,     \* by session: snapshots being applied, [e, done]
          sent,      \* events the agent has sent
          history    \* sessions that reported a full status / features

stateVars == <<row, current, last, stream, handler, tasks, sent, history>>

Events == [k : Kinds, n : 1..MaxEvents, o : 0..MaxEvents]   \* o: when it was observed
StateTypeOK ==
    /\ row.status \in {"unknown", "online", "offline"} /\ row.at \in 0..MaxEvents /\ row.materials \in 0..MaxEvents
    /\ row.presence \in 0..MaxSession /\ row.featuresOf \in 0..MaxSession /\ current \in {0, last}
    /\ handler \in [Sessions -> {"none", "run", "drain", "ended"}]
    /\ \A s \in Sessions : tasks[s] \subseteq [e : Events, done : BOOLEAN] /\ Cardinality(tasks[s]) <= MaxTasks

StateInit ==
    /\ row = NoRow /\ current = 0 /\ last = 0 /\ sent = 0
    /\ stream = [s \in Sessions |-> <<>>] /\ handler = [s \in Sessions |-> "none"]
    /\ tasks = [s \in Sessions |-> {}] /\ history = [full |-> {}, features |-> {}]

-----------------------------------------------------------------------------
(* The agent.                                                                *)

\* A new session replaces the one before it, whose handler may still run.
Connect ==
    /\ last < MaxSession /\ last' = last + 1 /\ current' = last + 1
    /\ handler' = [handler EXCEPT ![last + 1] = "run"]
    /\ UNCHANGED <<row, stream, tasks, sent, history>>
\* Materials come from reports and from refreshes, and may be observed
\* before an event that was sent first.
Send(k, o) ==
    /\ last > 0 /\ handler[last] = "run" /\ sent < MaxEvents /\ sent' = sent + 1
    /\ o = sent + 1 \/ (k = "materials" /\ o = sent - 1)
    /\ stream' = [stream EXCEPT ![last] = Append(@, [k |-> k, n |-> sent + 1, o |-> o])]
    /\ UNCHANGED <<row, current, last, handler, tasks, history>>

-----------------------------------------------------------------------------
(* Writes, each in one transaction that checks the agent's session.          *)

\* TelemetryWriteMask: a partial report writes the status it has, an authoritative one always writes.
StatusWritten(k) == k \in Authoritative \union CarriesStatus
\* unwrap_or_else: a snapshot without a status says "unknown".
StatusOf(k) == IF k = "offline" THEN "offline" ELSE IF k \in CarriesStatus THEN "online" ELSE "unknown"
\* Mutant: every report of a printer is of a present one.
UpsertedPresent(r, s, e) ==
    [live |-> TRUE, at |-> e.n,
     status |-> IF StatusWritten(e.k) \/ ~r.live THEN StatusOf(e.k) ELSE r.status,
     presence |-> s,
     features |-> IF e.k \in CarriesFun THEN e.n ELSE r.features,
     featuresOf |-> IF e.k \in CarriesFun THEN s ELSE r.featuresOf,
     materials |-> IF e.k = "link" THEN 0 ELSE r.materials, rev |-> r.rev + 1]
\* upsert_snapshot: what is not written keeps its value and the session that reported it; a row that
\* is new has no session until a report is authoritative.
Upserted(r, s, e) ==
    [live |-> TRUE, at |-> e.n,
     status |-> IF StatusWritten(e.k) \/ ~r.live THEN StatusOf(e.k) ELSE r.status,
     presence |-> IF e.k \in Authoritative THEN s ELSE r.presence,
     features |-> IF e.k \in CarriesFun THEN e.n ELSE r.features,
     featuresOf |-> IF e.k \in CarriesFun THEN s ELSE r.featuresOf,
     materials |-> IF e.k = "link" THEN 0 ELSE r.materials, rev |-> r.rev + 1]
ApplySnapshot(s, t) ==
    /\ t \in tasks[s] /\ ~t.done
    /\ tasks' = [tasks EXCEPT ![s] = (@ \ {t}) \union {[t EXCEPT !.done = TRUE]}]
    /\ IF s = current
       THEN /\ row' = Upserted(row, s, t.e)
            /\ history' = [full |-> history.full \union (IF t.e.k \in Authoritative THEN {s} ELSE {}),
                           features |-> history.features \union (IF t.e.k \in CarriesFun THEN {s} ELSE {})]
       ELSE UNCHANGED <<row, history>>
    /\ UNCHANGED <<current, last, stream, handler, sent>>

\* upsert_from_patch_outcome: patches older than the stored one are ignored.
\* Mutant: whatever comes is stored.
ApplyMaterialsAny(e) == IF row.live THEN row' = [row EXCEPT !.materials = e.o] ELSE UNCHANGED row
ApplyMaterials(e) ==
    IF row.live /\ e.o >= row.materials THEN row' = [row EXCEPT !.materials = e.o] ELSE UNCHANGED row
\* update_device_features_if_current.
ApplyFeatures(s, e) ==
    IF ~row.live THEN UNCHANGED <<row, history>>
    ELSE IF e.k = "nofeatures" THEN row' = [row EXCEPT !.featuresOf = 0] /\ UNCHANGED history
    ELSE row' = [row EXCEPT !.features = e.n, !.featuresOf = s]
         /\ history' = [history EXCEPT !.features = @ \union {s}]

-----------------------------------------------------------------------------
(* spawn_inbound_handler.                                                    *)

HandleEvent(s) ==
    /\ handler[s] = "run" /\ stream[s] # <<>> /\ Head(stream[s]).k \notin Snapshots
    /\ LET e == Head(stream[s])
       IN IF s # current \/ e.k = "heartbeat" THEN UNCHANGED <<row, history>>
          ELSE IF e.k = "materials" THEN ApplyMaterials(e) /\ UNCHANGED history
          ELSE ApplyFeatures(s, e)
    /\ stream' = [stream EXCEPT ![s] = Tail(@)]
    /\ UNCHANGED <<current, last, handler, tasks, sent>>
SpawnSnapshot(s) ==
    /\ handler[s] = "run" /\ stream[s] # <<>> /\ Head(stream[s]).k \in Snapshots
    /\ Cardinality(tasks[s]) < MaxTasks
    /\ tasks' = [tasks EXCEPT ![s] = @ \union {[e |-> Head(stream[s]), done |-> FALSE]}]
    /\ stream' = [stream EXCEPT ![s] = Tail(@)]
    /\ UNCHANGED <<row, current, last, handler, sent, history>>
\* The fanout of an applied snapshot ends and its task is joined.
JoinTask(s, t) ==
    /\ t \in tasks[s] /\ t.done /\ tasks' = [tasks EXCEPT ![s] = @ \ {t}]
    /\ UNCHANGED <<row, current, last, stream, handler, sent, history>>

\* The stream ends, fails, or carries an event that is refused; the tasks are
\* joined, then the session is taken out if it is still the current one.
StreamEnds(s) ==
    /\ handler[s] = "run" /\ handler' = [handler EXCEPT ![s] = "drain"]
    /\ stream' = [stream EXCEPT ![s] = <<>>]
    /\ UNCHANGED <<row, current, last, tasks, sent, history>>
\* Mutant: the tasks are left behind.
DisconnectEarly(s) ==
    /\ handler[s] = "drain" /\ handler' = [handler EXCEPT ![s] = "ended"]
    /\ current' = IF current = s THEN 0 ELSE current
    /\ UNCHANGED <<row, last, stream, tasks, sent, history>>
Disconnect(s) ==
    /\ handler[s] = "drain" /\ tasks[s] = {} /\ handler' = [handler EXCEPT ![s] = "ended"]
    /\ current' = IF current = s THEN 0 ELSE current
    /\ UNCHANGED <<row, last, stream, tasks, sent, history>>

-----------------------------------------------------------------------------
(* Requests of users.                                                        *)

DeletePrinter ==
    /\ row.live /\ row' = NoRow
    /\ UNCHANGED <<current, last, stream, handler, tasks, sent, history>>
UpdateDetails ==
    /\ row.live /\ row.rev < 2 * MaxEvents /\ row' = [row EXCEPT !.rev = @ + 1]
    /\ UNCHANGED <<current, last, stream, handler, tasks, sent, history>>

TaskStep(s) == \E t \in tasks[s] : ApplySnapshot(s, t) \/ JoinTask(s, t)

StateNext ==
    \/ Connect \/ DeletePrinter \/ UpdateDetails
    \/ \E k \in Kinds, o \in 1..MaxEvents : Send(k, o)
    \/ \E s \in Sessions : HandleEvent(s) \/ SpawnSnapshot(s) \/ StreamEnds(s) \/ Disconnect(s)
                           \/ TaskStep(s)

StateSpec == StateInit /\ [][StateNext]_stateVars
StateFairSpec == /\ StateSpec
            /\ \A s \in Sessions : /\ WF_stateVars(HandleEvent(s) \/ SpawnSnapshot(s)) /\ WF_stateVars(Disconnect(s))
                                   /\ WF_stateVars(TaskStep(s))

-----------------------------------------------------------------------------
(* Properties.                                                               *)

\* studio_printer_record: the row's session and the current one are compared as options, so that a
\* row no session wrote in full is of "the session" of an agent that has none.
Online == row.live /\ row.presence = current /\ row.status # "offline" /\ row.status # "unknown"
Features == IF current # 0 /\ row.featuresOf = current THEN row.features ELSE 0

\* Studio is shown a printer as online, or a printer's features, only when the agent session that is
\* current has itself reported them: nothing an earlier session left in the row is shown as present.
\* The one row that is shown online without a session is one that partial reports made and no session
\* has written in full since.
ProjectedBySession ==
    /\ Online => current \in history.full \/ (current = 0 /\ row.presence = 0)
    /\ Features # 0 => current \in history.features

\* studio_devices.rs, of the session it projects from: "only the current session that both the
\* in-memory registry and the persisted Agent row agree on projects as online".
OnlyCurrentIsOnline == Online => current # 0

\* A write of a replaced session never reaches the row, however late its
\* tasks run: what a session left changes only by the current session, or by
\* a user's request that keeps every reported column or deletes the row.
ReplacedIsSilentStep ==
    row'.live /\ row'.presence # row.presence => row'.presence = current
ReplacedIsSilent == [][ReplacedIsSilentStep]_stateVars

\* Materials never go back to an older report unless they were cleared.
MaterialsNeverOlderStep ==
    row'.materials >= row.materials \/ row'.materials = 0
MaterialsNeverOlder == [][MaterialsNeverOlderStep]_stateVars

\* Once a handler has ended no task of it is left to write.
EndedIsQuiet == \A s \in Sessions : handler[s] = "ended" => tasks[s] = {} /\ current # s

\* Studio is shown only what the current session reported, and no task of an ended handler is left to
\* write (grpc/inbound.rs, routes/plugin/studio_devices.rs).
ShownAsReported == StateTypeOK /\ ProjectedBySession /\ EndedIsQuiet

\* Events sent on a stream are handled.
EventsHandled == \A s \in Sessions : (stream[s] # <<>>) ~> (stream[s] = <<>>)

\* Snapshots are persisted as the latest state of the printer: a snapshot
\* does not overwrite one the agent sent after it.
LatestState == [][row.live /\ row'.live => row'.at >= row.at]_stateVars
\* Events other than snapshots are applied in the order of the stream:
\* materials are not cleared by a snapshot that was sent before them.
MaterialsInOrder ==
    [][row.materials # 0 /\ row'.live /\ row'.materials = 0 => row'.at > row.materials]_stateVars
=============================================================================
