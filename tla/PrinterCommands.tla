--------------------------- MODULE PrinterCommands ---------------------------
(***************************************************************************)
(* What the agent's command worker does with one printer: the operations   *)
(* it publishes over the command-role MQTT connection and the reports from *)
(* which it learns their outcome, the gate that lets an axis command       *)
(* through only for a printer that has the feature, and the probe of a new *)
(* session.  The forwarder of AgentReports runs beside it and shares the   *)
(* device feature cache.                                                   *)
(*                                                                         *)
(* The command connection is subscribed by the first operation and never   *)
(* unsubscribed: its queue fills with reports nobody reads until the next  *)
(* operation.  A report is a "full" answer to pushall, a "light" or "feat" *)
(* change, the answer to get_version ("ver"), the answer to a command      *)
(* ("ack") or an error of the connection ("err").  Its fields born and by  *)
(* say during which operation it was published and whose command it        *)
(* answers; the agent cannot see them.                                     *)
(***************************************************************************)
EXTENDS Naturals, Sequences, FiniteSets

CONSTANTS Cap,         \* MQTT_REPORT_QUEUE_CAPACITY
          Span,        \* how many sequence ids before they wrap
          Kinds,       \* the operations the hub sends
          StudioIds,   \* sequence ids Studio chooses itself
          MaxOps,      \* bound: operations
          MaxChanges,  \* bound: changes at the printer
          MaxFaults    \* bound: lost connections, unanswered requests, aborts

AllKinds == {"plain", "toggle", "set", "axis", "ams", "nozzle", "zero",
             "refresh", "print", "session"}

Bounds == /\ Cap \in Nat \ {0} /\ Span \in Nat \ {0} /\ Kinds \subseteq AllKinds
                 /\ StudioIds \subseteq Nat
                 /\ MaxOps \in Nat /\ MaxChanges \in Nat /\ MaxFaults \in Nat

VARIABLES dev,      \* the printer: its light and feature, requests not handled
          cq, sub,  \* the command connection's queue and subscription
          nextId,   \* STUDIO_SEQUENCE_ID
          op,       \* the operation in the worker
          count,    \* operations started
          cache,    \* DeviceFeatureCache: "none", "yes" or "no"
          lease,    \* the transition lease is held by the operation
          fwd,      \* the report forwarder: its queue, the value it will send
          hub,      \* the feature value the hub has
          last,     \* how the last operation ended
          took,     \* operations of which the printer accepted a command
          changes, faults

vars == <<dev, cq, sub, nextId, op, count, cache, lease, fwd, hub, last, took,
          changes, faults>>

Known(b)   == IF b THEN "yes" ELSE "no"
Idle       == [kind |-> "none", at |-> "idle", ids |-> <<>>, fails |-> 0,
               seen |-> "none"]
Report     == [kind |-> "err", id |-> 0, cmd |-> "none", ok |-> FALSE,
               light |-> FALSE, feat |-> FALSE, born |-> 0, by |-> 0]
NoForwarder == [on |-> FALSE, queue |-> <<>>, held |-> "none"]

Init == /\ dev = [light |-> FALSE, feat |-> TRUE, mail |-> <<>>]
        /\ cq = <<>> /\ sub = FALSE /\ nextId = 0
        /\ op = Idle /\ count = 0
        /\ cache = "none" /\ lease = FALSE /\ hub = "none"
        /\ fwd = NoForwarder
        /\ last = [res |-> "none", fresh |-> TRUE, n |-> 0] /\ took = {}
        /\ changes = 0 /\ faults = 0

-----------------------------------------------------------------------------
(* The command connection                                                  *)

\* push with OverflowPolicy::DropOldest, of one report after the other
PushCommand(queue, entries) ==
    LET all == queue \o entries
    IN  IF Len(all) <= Cap THEN all ELSE SubSeq(all, Len(all) - Cap + 1, Len(all))

\* the report topic reaches the command connection once it is subscribed, and
\* the forwarder while it runs; the forwarder cares for features only
Published(entries) ==
    /\ cq' = IF sub THEN PushCommand(cq, entries) ELSE cq
    /\ LET feats == SelectSeq(entries, LAMBDA e : e.kind \in {"full", "feat"})
       IN  fwd' = IF fwd.on
                  THEN [fwd EXCEPT !.queue =
                          @ \o [i \in DOMAIN feats |-> Known(feats[i].feat)]]
                  ELSE fwd

\* next_studio_sequence_id, k times
Ids(k) == [i \in 1..k |-> (nextId + i - 1) % Span]

\* publish of requests to the printer; rumqttc keeps them until they are sent
Send(requests) == dev' = [dev EXCEPT !.mail = @ \o requests]
Pushall == [kind |-> "pushall", id |-> 0, val |-> FALSE, by |-> count]
Command(kind, id, val) == [kind |-> kind, id |-> id, val |-> val, by |-> count]

\* a forwarder starts with get_version and pushall of its own
ForwarderStarts ==
    /\ fwd' = [fwd EXCEPT !.on = TRUE]
    /\ Send(<<[Command("version", 0, FALSE) EXCEPT !.by = 0], [Pushall EXCEPT !.by = 0]>>)
    /\ nextId' = (nextId + 2) % Span

-----------------------------------------------------------------------------
(* The printer and the network, external                                   *)

State(kind) == [Report EXCEPT !.kind = kind, !.light = dev.light,
                              !.feat = dev.feat, !.born = count]

DevHandles ==
    /\ dev.mail # <<>>
    /\ LET r == Head(dev.mail)
           rest == [dev EXCEPT !.mail = Tail(@)]
           ack(ok) == [Report EXCEPT !.kind = "ack", !.id = r.id, !.cmd = r.kind,
                                     !.ok = ok, !.born = count, !.by = r.by]
       IN  \/ /\ r.kind = "pushall" /\ dev' = rest /\ UNCHANGED took
              /\ Published(<<State("full")>>)
           \/ /\ r.kind = "version" /\ dev' = rest /\ UNCHANGED took
              /\ Published(<<[Report EXCEPT !.kind = "ver", !.born = count]>>)
           \/ /\ r.kind \in {"led", "cmd", "nozzle"}
              /\ \/ dev' = rest /\ Published(<<ack(FALSE)>>) /\ UNCHANGED took
                 \/ /\ took' = took \cup {r.by}
                    /\ IF r.kind = "led"
                       THEN /\ dev' = [rest EXCEPT !.light = r.val]
                            /\ Published(<<ack(TRUE),
                                 [State("light") EXCEPT !.light = r.val]>>)
                       ELSE dev' = rest /\ Published(<<ack(TRUE)>>)
    /\ UNCHANGED <<sub, nextId, op, count, cache, lease, hub, last, changes, faults>>

DevIgnores ==
    /\ dev.mail # <<>> /\ faults < MaxFaults
    /\ dev' = [dev EXCEPT !.mail = Tail(@)]
    /\ faults' = faults + 1
    /\ UNCHANGED <<cq, sub, nextId, op, count, cache, lease, fwd, hub, last,
                   took, changes>>

DevChanges ==
    /\ changes < MaxChanges /\ changes' = changes + 1
    /\ \/ /\ dev' = [dev EXCEPT !.light = ~@]
          /\ Published(<<[State("light") EXCEPT !.light = ~dev.light]>>)
       \/ /\ dev' = [dev EXCEPT !.feat = ~@]
          /\ Published(<<[State("feat") EXCEPT !.feat = ~dev.feat]>>)
    /\ UNCHANGED <<sub, nextId, op, count, cache, lease, hub, last, took, faults>>

\* the error is queued; the connection comes back without its subscription
ConnectionBreaks ==
    /\ sub /\ faults < MaxFaults
    /\ faults' = faults + 1 /\ sub' = FALSE
    /\ cq' = PushCommand(cq, <<Report>>)
    /\ UNCHANGED <<dev, nextId, op, count, cache, lease, fwd, hub, last, took, changes>>

-----------------------------------------------------------------------------
(* The forwarder's part in the features: forward_print_reports_inner       *)

ForwarderAsks ==
    /\ fwd.on /\ fwd.queue = <<>> /\ fwd.held = "none"
    /\ \A i \in DOMAIN dev.mail : dev.mail[i].kind # "pushall"
    /\ Send(<<[Pushall EXCEPT !.by = 0]>>)
    /\ UNCHANGED <<cq, sub, nextId, op, count, cache, lease, fwd, hub, last, took,
                   changes, faults>>

\* device_features.update waits for the transition lease
ForwarderUpdates ==
    /\ fwd.on /\ fwd.queue # <<>> /\ fwd.held = "none" /\ ~lease
    /\ cache' = Head(fwd.queue)
    /\ fwd' = [fwd EXCEPT !.queue = Tail(@), !.held = Head(fwd.queue)]
    /\ UNCHANGED <<dev, cq, sub, nextId, op, count, lease, hub, last, took,
                   changes, faults>>

ForwarderSends ==
    /\ fwd.held # "none"
    /\ hub' = fwd.held /\ fwd' = [fwd EXCEPT !.held = "none"]
    /\ UNCHANGED <<dev, cq, sub, nextId, op, count, cache, lease, last, took,
                   changes, faults>>

-----------------------------------------------------------------------------
(* The worker: one operation at a time                                      *)

Finish(res, fresh) ==
    /\ op' = Idle
    /\ last' = [res |-> res, fresh |-> fresh, n |-> count]

\* dispatch_printer_operation: subscribe, then publish and wait, or look first
Begin(kind) ==
    LET id == Ids(1)[1]
        own == [by |-> count + 1]
        sent(r) == dev' = [dev EXCEPT !.mail = @ \o <<[r EXCEPT !.by = own.by]>>]
        at(where, ids) == op' = [Idle EXCEPT !.kind = kind, !.at = where, !.ids = ids]
    IN  \/ /\ kind \in {"plain", "ams"}
           /\ sub' = TRUE /\ nextId' = (nextId + 1) % Span
           /\ sent(Command("cmd", id, FALSE)) /\ at("wait", <<id>>)
           /\ UNCHANGED <<cache, fwd, hub>>
        \/ /\ kind = "nozzle"
           /\ \E sid \in StudioIds :
                 sent(Command("nozzle", sid, FALSE)) /\ at("wait", <<sid>>)
           /\ sub' = TRUE /\ UNCHANGED <<nextId, cache, fwd, hub>>
        \/ /\ kind \in {"toggle", "set"}
           /\ sub' = TRUE /\ nextId' = (nextId + 1) % Span
           /\ sent(Pushall) /\ at("look", <<>>)
           /\ UNCHANGED <<cache, fwd, hub>>
        \/ /\ kind = "refresh"
           /\ sub' = TRUE /\ nextId' = (nextId + 1) % Span
           /\ sent(Command("version", 0, FALSE)) /\ at("version", <<>>)
           /\ UNCHANGED <<cache, fwd, hub>>
        \/ /\ kind \in {"axis", "zero", "print"}
           /\ at(kind, <<>>)
           /\ UNCHANGED <<dev, sub, nextId, cache, fwd, hub>>
        \/ \* prepare_session: no forwarder, no features, then the probe
           /\ kind = "session"
           /\ sub' = TRUE /\ nextId' = (nextId + 1) % Span
           /\ sent(Pushall) /\ at("probe", <<>>)
           /\ cache' = "none" /\ hub' = "none" /\ fwd' = NoForwarder

Start ==
    /\ op = Idle /\ count < MaxOps /\ count' = count + 1
    /\ \E kind \in Kinds : (fwd.on \/ kind = "session") /\ Begin(kind)
    /\ UNCHANGED <<cq, lease, last, took, changes, faults>>

Reading == op.at \in {"wait", "look", "version", "snap", "mat", "probe"}

\* Mutant: any answer ends the wait, whatever its sequence id
WantedAny(e) == \/ op.at = "wait" /\ e.kind = "ack"
                \/ op.at \in {"look", "mat", "probe"} /\ e.kind = "full"
                \/ op.at = "version" /\ e.kind = "ver"
                \/ op.at = "snap"

\* the answer the operation waits for; everything else is thrown away, except
\* that the report after the version is the snapshot, whatever it is
Wanted(e) == CASE op.at = "wait"    -> e.kind = "ack" /\ (\E i \in DOMAIN op.ids : op.ids[i] = e.id)
                                        /\ (op.kind = "nozzle" => e.cmd = "nozzle")
               [] op.at = "look"    -> e.kind \in {"full", "light"}
               [] op.at = "version" -> e.kind = "ver"
               [] op.at = "snap"    -> TRUE
               [] op.at = "mat"     -> e.kind = "full"
               [] op.at = "probe"   -> e.kind \in {"full", "feat"}
               [] OTHER             -> FALSE

Fresh(e) == e.born = count

Skips ==
    /\ Reading /\ cq # <<>> /\ Head(cq).kind # "err" /\ ~Wanted(Head(cq))
    /\ cq' = Tail(cq)
    /\ UNCHANGED <<dev, sub, nextId, op, count, cache, lease, fwd, hub, last, took,
                   changes, faults>>

\* matching_sequence_report: the first answer that is no error, or as many
\* errors as there are commands; the materials follow an AMS operation
Answered ==
    /\ op.at = "wait" /\ cq # <<>> /\ Wanted(Head(cq)) /\ cq' = Tail(cq)
    /\ LET e == Head(cq)
           res == IF e.ok THEN "ok" ELSE "error"
           done == e.ok \/ op.fails + 1 = Len(op.ids)
       IN  IF ~done
           THEN /\ op' = [op EXCEPT !.fails = @ + 1]
                /\ UNCHANGED <<dev, nextId, last>>
           ELSE IF op.kind = "ams"
           THEN /\ Send(<<Pushall>>) /\ nextId' = (nextId + 1) % Span
                /\ op' = [op EXCEPT !.at = "mat", !.seen = res]
                /\ UNCHANGED last
           ELSE Finish(res, Fresh(e)) /\ UNCHANGED <<dev, nextId>>
    /\ UNCHANGED <<sub, count, cache, lease, fwd, hub, took, changes, faults>>

\* refresh_materials_after_operation: its failure replaces the outcome
MaterialsRead ==
    /\ op.at = "mat" /\ cq # <<>> /\ Wanted(Head(cq)) /\ cq' = Tail(cq)
    /\ Finish(op.seen, TRUE)
    /\ UNCHANGED <<dev, sub, nextId, count, cache, lease, fwd, hub, took, changes, faults>>

\* chamber_light_commands: both nodes, the requested state or the other one
LightSeen ==
    /\ op.at = "look" /\ cq # <<>> /\ Wanted(Head(cq)) /\ cq' = Tail(cq)
    /\ LET on == IF op.kind = "set" THEN TRUE ELSE ~Head(cq).light
       IN  /\ Send(<<Command("led", Ids(2)[1], on), Command("led", Ids(2)[2], on)>>)
           /\ op' = [op EXCEPT !.at = "wait", !.ids = Ids(2)]
           /\ nextId' = (nextId + 2) % Span
    /\ last' = [res |-> "looked", fresh |-> op.kind = "toggle" => Fresh(Head(cq)), n |-> count]
    /\ UNCHANGED <<sub, count, cache, lease, fwd, hub, took, changes, faults>>

VersionSeen ==
    /\ op.at = "version" /\ cq # <<>> /\ Wanted(Head(cq)) /\ cq' = Tail(cq)
    /\ Send(<<Pushall>>) /\ nextId' = (nextId + 1) % Span
    /\ op' = [op EXCEPT !.at = "snap"]
    /\ UNCHANGED <<sub, count, cache, lease, fwd, hub, last, took, changes, faults>>

\* the very next report; an answer to a command holds no snapshot
SnapshotSeen ==
    /\ op.at = "snap" /\ cq # <<>> /\ Head(cq).kind # "err" /\ cq' = Tail(cq)
    /\ IF Head(cq).kind \in {"full", "light", "feat"}
       THEN Finish("snapshot", Fresh(Head(cq))) ELSE Finish("failed", TRUE)
    /\ UNCHANGED <<dev, sub, nextId, count, cache, lease, fwd, hub, took, changes, faults>>

\* what an operation makes of an error or of no report in time
GivesUp ==
    /\ CASE op.at = "wait" /\ op.kind = "ams" ->
               /\ Send(<<Pushall>>) /\ nextId' = (nextId + 1) % Span
               /\ op' = [op EXCEPT !.at = "mat", !.seen = "unknown"]
               /\ UNCHANGED <<last, cache, hub, fwd>>
         [] op.at = "wait" /\ op.kind # "ams" ->
               /\ Finish(IF op.kind = "nozzle" THEN "failed" ELSE "unknown", TRUE)
               /\ UNCHANGED <<dev, nextId, cache, hub, fwd>>
         [] op.at = "probe" /\ op.kind = "axis" ->
               /\ cache' = "none" /\ hub' = "none" /\ Finish("failed", TRUE)
               /\ UNCHANGED <<dev, nextId, fwd>>
         [] op.at = "probe" /\ op.kind = "session" ->
               /\ Finish("failed", TRUE) /\ ForwarderStarts
               /\ UNCHANGED <<cache, hub>>
         [] OTHER ->
               /\ Finish("failed", TRUE) /\ UNCHANGED <<dev, nextId, cache, hub, fwd>>

ReadsError ==
    /\ Reading /\ cq # <<>> /\ Head(cq).kind = "err"
    /\ cq' = Tail(cq) /\ GivesUp
    /\ UNCHANGED <<sub, count, lease, took, changes, faults>>

\* the deadline is for the whole wait: reports of no interest do not move it.
\* A printer answers in time unless it does not answer
TimesOut ==
    /\ Reading /\ \A i \in DOMAIN cq : ~Wanted(cq[i])
    /\ IF \E i \in DOMAIN dev.mail : dev.mail[i].by = count
       THEN faults < MaxFaults /\ faults' = faults + 1 ELSE UNCHANGED faults
    /\ GivesUp
    /\ UNCHANGED <<cq, sub, count, lease, took, changes>>

-----------------------------------------------------------------------------
(* operate_printer_with_feature_selection                                   *)

\* the cache is read; an unknown printer is probed over the same connection
AxisReads ==
    /\ op.at = "axis"
    /\ IF cache = "none"
       THEN /\ sub' = TRUE /\ Send(<<Pushall>>) /\ nextId' = (nextId + 1) % Span
            /\ op' = [op EXCEPT !.at = "probe"]
       ELSE /\ op' = [op EXCEPT !.at = IF cache = "yes" THEN "gate" ELSE "deny",
                                !.seen = cache]
            /\ UNCHANGED <<dev, sub, nextId>>
    /\ UNCHANGED <<cq, count, cache, lease, fwd, hub, last, took, changes, faults>>

\* probe_device_features takes the first feature report and fills the cache;
\* the probe of a session tells the hub while it still holds the lease, and
\* the forwarder starts when it is over
ProbeSeen ==
    /\ op.at = "probe" /\ cq # <<>> /\ Wanted(Head(cq)) /\ cq' = Tail(cq)
    /\ cache' = Known(Head(cq).feat)
    /\ IF op.kind = "session"
       THEN /\ hub' = cache' /\ Finish("probed", TRUE)
            /\ ForwarderStarts
       ELSE /\ op' = [op EXCEPT !.at = "probed", !.seen = cache']
            /\ UNCHANGED <<dev, nextId, hub, fwd, last>>
    /\ UNCHANGED <<sub, count, lease, took, changes, faults>>

\* queue_feature_convergence with the value of the probe
ProbeTells ==
    /\ op.at = "probed"
    /\ hub' = op.seen
    /\ IF op.seen = "yes" THEN op' = [op EXCEPT !.at = "gate"] /\ UNCHANGED last
                          ELSE Finish("failed", TRUE)
    /\ UNCHANGED <<dev, cq, sub, nextId, count, cache, lease, fwd, took, changes, faults>>

\* the cached value said no: the hub is told, with the value read before
AxisDenied ==
    /\ op.at = "deny"
    /\ hub' = op.seen /\ Finish("failed", TRUE)
    /\ UNCHANGED <<dev, cq, sub, nextId, count, cache, lease, fwd, took, changes, faults>>

\* the final look, under the transition lease that is kept until the publish
AxisGate ==
    /\ op.at = "gate" /\ ~lease
    /\ IF cache = "yes"
       THEN /\ lease' = TRUE /\ op' = [op EXCEPT !.at = "publish"]
            /\ UNCHANGED <<hub, last>>
       ELSE hub' = cache /\ Finish("failed", TRUE) /\ UNCHANGED lease
    /\ UNCHANGED <<dev, cq, sub, nextId, count, cache, fwd, took, changes, faults>>

AxisPublishes ==
    /\ op.at = "publish"
    /\ sub' = TRUE /\ lease' = FALSE
    /\ Send(<<Command("cmd", Ids(1)[1], FALSE)>>) /\ nextId' = (nextId + 1) % Span
    /\ op' = [op EXCEPT !.at = "wait", !.ids = Ids(1)]
    /\ UNCHANGED <<cq, count, cache, fwd, hub, last, took, changes, faults>>

-----------------------------------------------------------------------------
(* Operations that wait for no report                                       *)

\* dispatch_sequence_zero_recovery: a connection of its own and a PUBACK
RecoveryEnds ==
    /\ op.at = "zero"
    /\ \/ took' = took \cup {count} /\ Finish("dispatched", TRUE) /\ UNCHANGED faults
       \/ /\ faults < MaxFaults /\ faults' = faults + 1
          /\ Finish("failed", TRUE) /\ UNCHANGED took
    /\ UNCHANGED <<dev, cq, sub, nextId, count, cache, lease, fwd, hub, changes>>

\* dispatch_print_project_file: validate, upload, publish
PrintEnds ==
    /\ op.at = "print"
    /\ \/ /\ Send(<<Command("cmd", Ids(1)[1], FALSE)>>)
          /\ nextId' = (nextId + 1) % Span
          /\ Finish("dispatched", TRUE) /\ UNCHANGED faults
       \/ /\ faults < MaxFaults /\ faults' = faults + 1
          /\ Finish("failed", TRUE) /\ UNCHANGED <<dev, nextId>>
    /\ UNCHANGED <<cq, sub, count, cache, lease, fwd, hub, took, changes>>

\* the session ends and the worker is aborted, wherever the operation is
Aborts ==
    /\ op # Idle /\ op.kind # "session" /\ faults < MaxFaults
    /\ faults' = faults + 1
    /\ Finish("aborted", TRUE) /\ lease' = FALSE
    /\ fwd' = NoForwarder
    /\ UNCHANGED <<dev, cq, sub, nextId, count, cache, hub, took, changes>>

DevStep    == DevHandles \/ DevIgnores \/ DevChanges \/ ConnectionBreaks
FwdStep    == ForwarderAsks \/ ForwarderUpdates \/ ForwarderSends
ReportStep == \/ Skips \/ Answered \/ MaterialsRead \/ LightSeen \/ VersionSeen
              \/ SnapshotSeen \/ ReadsError \/ TimesOut \/ ProbeSeen
AxisStep   == AxisReads \/ ProbeTells \/ AxisDenied \/ AxisGate \/ AxisPublishes

Next == \/ DevStep \/ FwdStep \/ Start \/ ReportStep \/ AxisStep
        \/ RecoveryEnds \/ PrintEnds \/ Aborts

Spec == Init /\ [][Next]_vars

\* the printer answers, the worker and the forwarder are scheduled, and the
\* forwarder's interval comes round
Fairness == /\ WF_vars(DevHandles)
            /\ WF_vars(ForwarderAsks) /\ WF_vars(ForwarderUpdates)
            /\ WF_vars(ForwarderSends)
            /\ WF_vars(ReportStep) /\ SF_vars(TimesOut) /\ WF_vars(AxisStep)
            /\ WF_vars(RecoveryEnds) /\ WF_vars(PrintEnds)

FairSpec == Spec /\ Fairness

-----------------------------------------------------------------------------
(* Properties                                                              *)

TypeOK ==
    /\ dev.light \in BOOLEAN /\ dev.feat \in BOOLEAN
    /\ Len(cq) <= Cap /\ nextId \in 0..Span
    /\ cache \in {"none", "yes", "no"} /\ hub \in {"none", "yes", "no"}
    /\ lease \in BOOLEAN /\ sub \in BOOLEAN
    /\ op.kind \in AllKinds \cup {"none"} /\ op.fails \in 0..1
    /\ count \in 0..MaxOps

\* The outcome an operation reports is the printer's answer to that very
\* operation: a late answer to an earlier command, left in the queue by a
\* timeout or an aborted session, is never taken for it, and two light
\* commands fail together only if the printer refused both.
OutcomeIsOwn ==
    /\ last.res = "ok" => last.n \in took
    /\ last.res = "error" => last.n \notin took

\* An axis command leaves the agent only while the feature is observed: no
\* report that takes it back is applied between the final look and the publish
GateHoldsStep ==
    AxisPublishes => cache = "yes"
GateHolds == [][GateHoldsStep]_vars

\* A toggle turns the light to the opposite of a report of its own time
ToggleUsesCurrentLight == last.res = "looked" => last.fresh

\* The snapshot of a refresh was reported after the refresh began
RefreshIsOfItsTime == last.res = "snapshot" => last.fresh

\* The hub's feature value returns to the printer's, whatever stale value an
\* operation sent behind the forwarder's back
HubLearnsFeature == (<>[]fwd.on) => []<>(hub = Known(dev.feat))

\* No operation keeps the worker for ever
OperationEnds == (op # Idle) ~> (op = Idle)
=============================================================================
