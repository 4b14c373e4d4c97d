---------------------------- MODULE AgentReports ----------------------------
(***************************************************************************)
(* How the agent keeps the hub's picture of one printer true: the MQTT     *)
(* report connection and its bounded queue, the task that forwards the     *)
(* reports, the reverse session that owns the tasks, and the commands that *)
(* relink or refresh the printer beside them.                              *)
(*                                                                         *)
(* A forwarder is one spawned report task together with the MQTT           *)
(* connection made for it; the runtime keeps at most one of them in        *)
(* report_tasks.  What the printer has to say is two counters, one that    *)
(* changes together with the print state ("part") and one that changes     *)
(* without it ("temp"); a report carries one of them or both ("full").  An *)
(* error of the connection takes its place in the same queue.  A send on the session's channel is applied to *)
(* the hub's row at once: the channel and the hub keep its order.          *)
(***************************************************************************)
EXTENDS Naturals, Sequences, FiniteSets

CONSTANTS Cap,            \* MQTT_REPORT_QUEUE_CAPACITY
          MaxForwarders,  \* bound: report tasks ever spawned
          MaxChanges,     \* bound: changes of the printer
          MaxFaults,      \* bound: lost connections and failed subscriptions
          MaxDeaths,      \* bound: times the printer goes away
          MaxSessions,    \* bound: reverse sessions
          MaxLinks,       \* bound: link_printer commands
          MaxRefreshes    \* bound: refresh_printers commands

Bounds == /\ Cap \in Nat \ {0, 1} /\ MaxForwarders \in Nat \ {0}
                 /\ MaxChanges \in Nat /\ MaxFaults \in Nat /\ MaxDeaths \in Nat
                 /\ MaxSessions \in Nat /\ MaxLinks \in Nat
                 /\ MaxRefreshes \in Nat

VARIABLES printer,   \* the machine: up, what it would report, a pushall to answer
          fwd,       \* every forwarder ever spawned
          cur,       \* report_tasks: the forwarder of the printer, 0 for none
          spawned,   \* how many forwarders were spawned
          session,   \* the reverse session: "off", "prepare", "on", "ending"
          linking,   \* link_printer in the command worker
          refresh,   \* refresh_printers in the command worker
          hub,       \* the hub's row of the printer
          used       \* how often each bounded event has happened

vars == <<printer, fwd, cur, spawned, session, linking, refresh, hub, used>>

Forwarders == 1..MaxForwarders
Fields     == {"part", "temp"}
Values     == [Fields -> 0..MaxChanges]
Blank      == [k \in Fields |-> 0]
ErrorEntry == [kind |-> "err", val |-> Blank]
Entries    == [kind : {"full"} \cup Fields, val : Values] \cup {ErrorEntry}
NoTask     == [st |-> "none", offline |-> FALSE, conn |-> "down",
               queue |-> <<>>, pending |-> FALSE]
Idling     == [at |-> "no", val |-> Blank]
Faults     == {"change", "loss", "death", "session", "link", "refresh"}
Limit      == [f \in Faults |-> CASE f = "change"  -> MaxChanges
                                  [] f = "loss"    -> MaxFaults
                                  [] f = "death"   -> MaxDeaths
                                  [] f = "session" -> MaxSessions
                                  [] f = "link"    -> MaxLinks
                                  [] f = "refresh" -> MaxRefreshes]
Use(f)     == used[f] < Limit[f] /\ used' = [used EXCEPT ![f] = @ + 1]

-----------------------------------------------------------------------------
(* The queue between the MQTT event loop and its consumer                  *)

\* push of a report-role connection (OverflowPolicy::FailConsumer): a full
\* queue is thrown away and an error tells the consumer that it lost reports
Push(queue, entry) ==
    IF Len(queue) < Cap THEN Append(queue, entry) ELSE <<ErrorEntry, entry>>

\* a publish on the report topic reaches every subscribed connection
Publish(entry) ==
    [f \in Forwarders |->
        IF fwd[f].conn = "sub"
        THEN [fwd[f] EXCEPT !.queue = Push(@, entry)] ELSE fwd[f]]

Init == /\ printer = [up |-> TRUE, val |-> Blank, asked |-> FALSE]
        /\ fwd = [f \in Forwarders |-> NoTask]
        /\ cur = 0 /\ spawned = 0
        /\ session = "off" /\ linking = Idling /\ refresh = Idling
        /\ hub = [state |-> "unknown", val |-> Blank]
        /\ used = [f \in Faults |-> 0]

-----------------------------------------------------------------------------
(* The printer and the network, external                                   *)

PrinterChanges ==
    /\ printer.up /\ Use("change")
    /\ \E kind \in Fields :
          /\ printer' = [printer EXCEPT !.val[kind] = @ + 1]
          /\ fwd' = Publish([kind |-> kind,
                             val  |-> [Blank EXCEPT ![kind] = printer.val[kind] + 1]])
    /\ UNCHANGED <<cur, spawned, session, linking, refresh, hub>>

PrinterAnswers ==
    /\ printer.up /\ printer.asked
    /\ printer' = [printer EXCEPT !.asked = FALSE]
    /\ fwd' = Publish([kind |-> "full", val |-> printer.val])
    /\ UNCHANGED <<cur, spawned, session, linking, refresh, hub, used>>

\* the connections of a printer that is gone are half open until poll notices
PrinterDies ==
    /\ printer.up /\ Use("death")
    /\ printer' = [printer EXCEPT !.up = FALSE, !.asked = FALSE]
    /\ fwd' = [f \in Forwarders |->
                  IF fwd[f].conn \in {"up", "sub"}
                  THEN [fwd[f] EXCEPT !.conn = "stale"] ELSE fwd[f]]
    /\ UNCHANGED <<cur, spawned, session, linking, refresh, hub>>

PrinterReturns ==
    /\ ~printer.up
    /\ printer' = [printer EXCEPT !.up = TRUE]
    /\ UNCHANGED <<fwd, cur, spawned, session, linking, refresh, hub, used>>

-----------------------------------------------------------------------------
(* The MQTT event loop of a forwarder's connection: run_event_loop.  poll   *)
(* reports a broken connection as an error, dials again, and sends what the *)
(* client was asked to send once the connection stands.                     *)

Task(f) == fwd[f].st # "none"

PollLosesConnection(f) ==
    /\ Task(f)
    /\ \/ fwd[f].conn = "stale" /\ used' = used
       \/ fwd[f].conn \in {"up", "sub"} /\ Use("loss")
    /\ fwd' = [fwd EXCEPT ![f].conn = "down", ![f].queue = Push(@, ErrorEntry)]
    /\ UNCHANGED <<printer, cur, spawned, session, linking, refresh, hub>>

\* dialling a printer that is not there fails, again and again
PollFails(f) ==
    /\ Task(f) /\ fwd[f].conn = "down" /\ ~printer.up
    /\ fwd' = [fwd EXCEPT ![f].queue = Push(@, ErrorEntry)]
    /\ UNCHANGED <<printer, cur, spawned, session, linking, refresh, hub, used>>

PollConnects(f) ==
    /\ Task(f) /\ fwd[f].conn = "down" /\ printer.up
    /\ fwd' = [fwd EXCEPT ![f].conn = "up"]
    /\ UNCHANGED <<printer, cur, spawned, session, linking, refresh, hub, used>>

\* the queued subscribe and pushall reach the printer
PollSends(f) ==
    /\ Task(f) /\ fwd[f].pending /\ fwd[f].conn \in {"up", "sub"}
    /\ fwd' = [fwd EXCEPT ![f].conn = "sub", ![f].pending = FALSE]
    /\ printer' = [printer EXCEPT !.asked = TRUE]
    /\ UNCHANGED <<cur, spawned, session, linking, refresh, hub, used>>

-----------------------------------------------------------------------------
(* The forwarder: forward_print_reports_with_firmware_retry around          *)
(* forward_print_reports_with_context                                       *)

Open == session \in {"prepare", "on"}

Spawn(F) ==
    /\ spawned < MaxForwarders
    /\ spawned' = spawned + 1
    /\ cur' = spawned + 1
    /\ fwd' = [F EXCEPT ![spawned + 1] = [NoTask EXCEPT !.st = "start"]]

\* mark_mqtt_offline: the event is sent once, until a full report restores
\* the presence; the retry loop around it starts over with the same presence
Offline(f) == hub' = IF fwd[f].offline THEN hub ELSE [hub EXCEPT !.state = "offline"]

\* subscribe, get_version and pushall are handed to the client
ForwarderStarts(f) ==
    /\ fwd[f].st = "start" /\ Open
    /\ fwd' = [fwd EXCEPT ![f].st = "run", ![f].pending = TRUE]
    /\ UNCHANGED <<printer, cur, spawned, session, linking, refresh, hub, used>>

\* the topic identity cannot be resolved, or the client is gone
ForwarderCannotStart(f) ==
    /\ fwd[f].st = "start" /\ Open /\ Use("loss")
    /\ Offline(f)
    /\ fwd' = [fwd EXCEPT ![f].st = "retry", ![f].offline = TRUE]
    /\ UNCHANGED <<printer, cur, spawned, session, linking, refresh>>

\* the select arm of the 60 second interval
ForwarderAsksAgain(f) ==
    /\ fwd[f].st = "run" /\ Open /\ ~fwd[f].pending
    /\ fwd' = [fwd EXCEPT ![f].pending = TRUE]
    /\ UNCHANGED <<printer, cur, spawned, session, linking, refresh, hub, used>>

Restores(entry) == entry.kind = "full"
HasState(entry) == entry.kind \in {"full", "part"}

\* a change leaves the rest of the row as it was
Merged(entry) == IF Restores(entry) THEN entry.val
                 ELSE [hub.val EXCEPT ![entry.kind] = entry.val[entry.kind]]

\* what a snapshot event makes of the hub's row; while the printer counts as
\* offline a report that is not a full push_status has its state taken out
Applied(entry, offline) ==
    [state |-> IF HasState(entry) /\ (Restores(entry) \/ ~offline)
               THEN "online" ELSE hub.state,
     val   |-> Merged(entry)]

\* Mutant: a full report does not restore the remembered presence
ForwardsWithoutRestoring(f) ==
    /\ fwd[f].st = "run" /\ Open /\ fwd[f].queue # <<>>
    /\ Head(fwd[f].queue) # ErrorEntry
    /\ hub' = Applied(Head(fwd[f].queue), fwd[f].offline)
    /\ fwd' = [fwd EXCEPT ![f].queue = Tail(@)]
    /\ UNCHANGED <<printer, cur, spawned, session, linking, refresh, used>>

ForwarderForwards(f) ==
    /\ fwd[f].st = "run" /\ Open /\ fwd[f].queue # <<>>
    /\ Head(fwd[f].queue) # ErrorEntry
    /\ LET entry == Head(fwd[f].queue)
       IN  /\ hub' = Applied(entry, fwd[f].offline)
           /\ fwd' = [fwd EXCEPT ![f].queue = Tail(@),
                                 ![f].offline = @ /\ ~Restores(entry)]
    /\ UNCHANGED <<printer, cur, spawned, session, linking, refresh, used>>

\* any other error ends the loop; the retry follows after its delay
ForwarderFails(f) ==
    /\ fwd[f].st = "run" /\ Open /\ fwd[f].queue # <<>>
    /\ Head(fwd[f].queue) = ErrorEntry
    /\ Offline(f)
    /\ fwd' = [fwd EXCEPT ![f].st = "retry", ![f].offline = TRUE,
                          ![f].queue = Tail(@)]
    /\ UNCHANGED <<printer, cur, spawned, session, linking, refresh, used>>

\* nothing for report_timeout: the printer is offline, the loop goes on
ForwarderIdles(f) ==
    /\ fwd[f].st = "run" /\ Open /\ fwd[f].queue = <<>> /\ ~fwd[f].offline
    /\ Offline(f)
    /\ fwd' = [fwd EXCEPT ![f].offline = TRUE]
    /\ UNCHANGED <<printer, cur, spawned, session, linking, refresh, used>>

ForwarderRetries(f) ==
    /\ fwd[f].st = "retry" /\ Open
    /\ fwd' = [fwd EXCEPT ![f].st = "start"]
    /\ UNCHANGED <<printer, cur, spawned, session, linking, refresh, hub, used>>

\* sender.closed(): the task returns; its handle stays in report_tasks
ForwarderReturns(f) ==
    /\ Task(f) /\ ~Open
    /\ fwd' = [fwd EXCEPT ![f] = NoTask]
    /\ UNCHANGED <<printer, cur, spawned, session, linking, refresh, hub, used>>

-----------------------------------------------------------------------------
(* stop_report_task: abort, join, remove; the connection goes with the task *)

Stopped == IF cur = 0 THEN fwd ELSE [fwd EXCEPT ![cur] = NoTask]

\* run_once up to the rows of prepare_session: a new channel, no forwarder
SessionConnects ==
    /\ session = "off" /\ Use("session")
    /\ session' = "prepare" /\ fwd' = Stopped /\ cur' = 0
    /\ UNCHANGED <<printer, spawned, linking, refresh, hub>>

\* start_initial_report_forwarders; the probes before it send no status
SessionPrepared ==
    /\ session = "prepare"
    /\ session' = "on" /\ Spawn(Stopped)
    /\ UNCHANGED <<printer, linking, refresh, hub, used>>

\* the stream ends, the session is cancelled, or preparing it fails: the
\* command worker is aborted first, then the forwarders are torn down
SessionEnds ==
    /\ Open
    /\ session' = "ending" /\ linking' = Idling /\ refresh' = Idling
    /\ UNCHANGED <<printer, fwd, cur, spawned, hub, used>>

SessionTornDown ==
    /\ session = "ending"
    /\ session' = "off" /\ fwd' = Stopped /\ cur' = 0
    /\ UNCHANGED <<printer, spawned, linking, refresh, hub, used>>

-----------------------------------------------------------------------------
(* The command worker runs one command at a time                            *)

WorkerFree == session = "on" /\ linking = Idling /\ refresh = Idling

\* link_printer validates the endpoint over a connection of its own
LinkValidates ==
    /\ WorkerFree /\ printer.up /\ Use("link")
    /\ linking' = [at |-> "valid", val |-> printer.val]
    /\ fwd' = Publish([kind |-> "full", val |-> printer.val])
    /\ UNCHANGED <<printer, cur, spawned, session, refresh, hub>>

LinkStops ==
    /\ linking.at = "valid"
    /\ linking' = [linking EXCEPT !.at = "stopped"]
    /\ fwd' = Stopped /\ cur' = 0
    /\ UNCHANGED <<printer, spawned, session, refresh, hub, used>>

LinkSends ==
    /\ linking.at = "stopped"
    /\ linking' = [linking EXCEPT !.at = "sent"]
    /\ hub' = [state |-> "online", val |-> linking.val]
    /\ UNCHANGED <<printer, fwd, cur, spawned, session, refresh, used>>

\* replace_report_task_with_transport
LinkStarts ==
    /\ linking.at = "sent"
    /\ linking' = Idling /\ Spawn(Stopped)
    /\ UNCHANGED <<printer, session, refresh, hub, used>>

\* refresh_printers observes every printer before its first event is sent
RefreshObserves ==
    /\ WorkerFree /\ printer.up /\ Use("refresh")
    /\ refresh' = [at |-> "seen", val |-> printer.val]
    /\ fwd' = Publish([kind |-> "full", val |-> printer.val])
    /\ UNCHANGED <<printer, cur, spawned, session, linking, hub>>

RefreshSends ==
    /\ refresh.at = "seen"
    /\ refresh' = Idling
    /\ hub' = [state |-> "online", val |-> refresh.val]
    /\ UNCHANGED <<printer, fwd, cur, spawned, session, linking, used>>

-----------------------------------------------------------------------------
PrinterStep == PrinterChanges \/ PrinterAnswers \/ PrinterDies \/ PrinterReturns
PollStep(f) == \/ PollLosesConnection(f) \/ PollFails(f)
               \/ PollConnects(f) \/ PollSends(f)
TaskStep(f) == \/ ForwarderStarts(f) \/ ForwarderCannotStart(f)
               \/ ForwarderForwards(f)
               \/ ForwarderFails(f) \/ ForwarderIdles(f)
               \/ ForwarderRetries(f) \/ ForwarderReturns(f)
SessionStep == \/ SessionConnects \/ SessionPrepared
               \/ SessionEnds \/ SessionTornDown
WorkerStep  == \/ LinkValidates \/ LinkStops \/ LinkSends \/ LinkStarts
               \/ RefreshObserves \/ RefreshSends

Next == \/ PrinterStep \/ SessionStep \/ WorkerStep
        \/ \E f \in Forwarders : \/ PollStep(f) \/ TaskStep(f)
                                 \/ ForwarderAsksAgain(f)

Spec == Init /\ [][Next]_vars

\* the 60 second interval is far longer than it takes to read the queue
TimelyAsk(f) == fwd[f].queue = <<>> /\ ForwarderAsksAgain(f)

TimelyNext == \/ PrinterStep \/ SessionStep \/ WorkerStep
              \/ \E f \in Forwarders : \/ PollStep(f) \/ TaskStep(f)
                                       \/ TimelyAsk(f)

StaleIsNoticed(f) == fwd[f].conn = "stale" /\ PollLosesConnection(f)

\* the tasks are scheduled, the interval and the retry delay expire, TCP
\* notices a half-open connection, and a printer that is up answers
Fairness ==
    /\ WF_vars(PrinterAnswers)
    /\ WF_vars(SessionPrepared) /\ WF_vars(SessionTornDown)
    /\ WF_vars(LinkStops) /\ WF_vars(LinkSends) /\ WF_vars(LinkStarts)
    /\ WF_vars(RefreshSends)
    /\ \A f \in Forwarders :
          /\ WF_vars(StaleIsNoticed(f))
          /\ WF_vars(PollConnects(f)) /\ WF_vars(PollSends(f))
          /\ WF_vars(ForwarderStarts(f))
          /\ SF_vars(TimelyAsk(f))
          /\ WF_vars(ForwarderForwards(f) \/ ForwarderFails(f))
          /\ WF_vars(ForwarderIdles(f)) /\ WF_vars(ForwarderRetries(f))
          /\ WF_vars(ForwarderReturns(f))

FairSpec == Init /\ [][TimelyNext]_vars /\ Fairness

-----------------------------------------------------------------------------
(* Properties                                                              *)

TypeOK ==
    /\ printer \in [up : BOOLEAN, val : Values, asked : BOOLEAN]
    /\ fwd \in [Forwarders ->
                  [st : {"none", "start", "run", "retry"}, offline : BOOLEAN,
                   conn : {"down", "up", "sub", "stale"},
                   queue : Seq(Entries), pending : BOOLEAN]]
    /\ \A f \in Forwarders : Len(fwd[f].queue) <= Cap
    /\ cur \in 0..MaxForwarders /\ spawned \in 0..MaxForwarders
    /\ session \in {"off", "prepare", "on", "ending"}
    /\ linking \in [at : {"no", "valid", "stopped", "sent"}, val : Values]
    /\ refresh \in [at : {"no", "seen"}, val : Values]
    /\ hub \in [state : {"unknown", "online", "offline"}, val : Values]
    /\ used \in [Faults -> Nat]

\* Reports are lost whenever the queue overflows, the connection breaks, the
\* printer reboots or the task is replaced, and only a pushall brings back
\* what they said.  Once the forwarder is subscribed, nothing is queued and no
\* pushall is outstanding, the hub's row holds everything the printer said.
Quiet == /\ cur # 0 /\ session = "on" /\ linking = Idling /\ printer.up
         /\ fwd[cur].st = "run" /\ fwd[cur].conn = "sub"
         /\ fwd[cur].queue = <<>> /\ ~fwd[cur].pending /\ ~printer.asked
NothingLostUnnoticed == Quiet => hub.val = printer.val

\* The presence a forwarder remembers is what the hub was last told: while it
\* believes the offline event was sent, the row says offline.  (A forwarder
\* that is wrong here never sends the event again.)
PresenceAgrees ==
    (cur # 0 /\ Open /\ fwd[cur].offline) => hub.state = "offline"

\* A printer the forwarder declared offline is revived by nothing but a full
\* report: queued changes that predate the silence do not do it, and no other
\* forwarder is left over from an earlier link or session that could.
RevivedByFullReportStep ==
    (hub.state = "offline" /\ hub'.state = "online"
       /\ cur # 0 /\ cur' = cur /\ fwd[cur].offline)
    => /\ fwd[cur].queue # <<>> /\ Restores(Head(fwd[cur].queue))
       /\ fwd'[cur].queue = Tail(fwd[cur].queue)
RevivedByFullReport == [][RevivedByFullReportStep]_vars

\* Sessions, relinks and retries leave one forwarder per printer, the one in
\* report_tasks: a second one would report the same printer twice and revive
\* or retire it behind the first one's back.
OneForwarder == \A f \in Forwarders : Task(f) => f = cur

\* RefreshPrinters persists the latest state: its snapshot never takes the row
\* back behind what the forwarder reported in the meantime
RefreshIsLatest ==
    [][RefreshSends => \A k \in Fields : hub'.val[k] >= hub.val[k]]_vars

\* A printer that stays away ends up offline on the hub
DeadIsNoticed ==
    <>[](~printer.up /\ session = "on" /\ linking = Idling)
        => <>[](hub.state = "offline")

\* A printer that is there comes back, with everything it has to say, however
\* many overflows, losses and refreshes came before
AliveIsShown ==
    <>[](printer.up /\ session = "on" /\ linking = Idling)
        => []<>(hub = [state |-> "online", val |-> printer.val])
=============================================================================
