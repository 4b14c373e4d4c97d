-------------------------- MODULE CommandDispatch --------------------------
(***************************************************************************)
(* The durable command ledger of one agent and everything that moves it:   *)
(* enqueue and cancel, the outbound pump of each connection               *)
(* (grpc/outbound.rs, grpc/commands/device_features.rs), the agent's serial *)
(* command worker (crates/pandar-agent/src/command_stream.rs) and the       *)
(* handling of its acknowledgements and results                            *)
(* (grpc/inbound/commands.rs, repositories/session_commands.rs), on top of  *)
(* the sessions of AgentSessions.                                          *)
(***************************************************************************)
EXTENDS AgentSessions, Sequences

CONSTANTS
    Commands,     \* 1..n, in the order (created_at, id) of the ledger
    Prints,       \* print_project_file: the commands that can be cancelled
    Gated,        \* printer operations with required device features
    GcodeLines,   \* GcodeLine operations, which need the capability
    Capable,      \* sessions whose AgentHello advertises the capabilities
    NoCommand,    \* no command
    LossyWakes    \* AgentWake messages may be lost

ASSUME CommandsAssumption == Commands \subseteq Nat /\ NoCommand \notin Commands
ASSUME KindsAssumption ==
    /\ Prints \subseteq Commands
    /\ Gated \subseteq Commands \ Prints
    /\ GcodeLines \subseteq Commands \ Prints
    /\ Capable \subseteq Sessions
    /\ LossyWakes \in BOOLEAN

VARIABLES
    cmd,        \* commands.status; "none": not enqueued yet
    features,   \* session that wrote a sufficient device-feature bitmap last
    wakes,      \* replicas with an AgentWake on its way
    wake,       \* the session's wake channel is not empty
    pump,       \* outbound pump: where it is and the commands it works on
    reply,      \* the agent still reads the response stream
    down,       \* commands on the response stream and in the agent's channel
    work,       \* the command the agent's worker executes
    up,         \* acks and results on the request stream
    inb,        \* the event handle_event works on, past its is_current check
    sentOn,     \* history: the session a command was marked sent on
    deliveries, \* history: how often a command was handed to a stream
    answer      \* history: the agent's last word on the command

ledger == <<cmd, sentOn, answer>>
stream == <<reply, down, work, up, inb, deliveries>>
pumps == <<pump, wake, wakes>>
dvars == <<cmd, features, wakes, wake, pump, reply, down, work, up, inb,
           sentOn, deliveries, answer>>
allvars == <<vars, dvars>>

Statuses == {"none", "queued", "sent", "acknowledged", "succeeded", "failed",
             "cancelled"}
Places == {"off", "drain", "send", "fail", "marked", "wait", "closing",
           "finalize", "done"}
Answers == {"ack", "reject", "succeed", "fail"}
Events == Answers \X Commands
NoEvent == <<"none", NoCommand>>

DispatchTypeOK ==
    /\ TypeOK
    /\ cmd \in [Commands -> Statuses]
    /\ features \in Maybe
    /\ wakes \in SUBSET Hubs
    /\ wake \in [Sessions -> BOOLEAN]
    /\ pump \in [Sessions -> [at : Places, todo : SUBSET Commands]]
    /\ reply \in [Sessions -> BOOLEAN]
    /\ down \in [Sessions -> Seq(Commands)]
    /\ work \in [Sessions -> Commands \cup {NoCommand}]
    /\ up \in [Sessions -> Seq(Events)]
    /\ inb \in [Sessions -> Events \cup {NoEvent}]
    /\ sentOn \in [Commands -> Maybe]
    /\ deliveries \in [Commands -> Nat]
    /\ answer \in [Commands -> Answers \cup {"none"}]

At(place) == [at |-> place, todo |-> {}]

DispatchInit ==
    /\ Init
    /\ cmd = [c \in Commands |-> "none"]
    /\ features = NoSession
    /\ wakes = {}
    /\ wake = [s \in Sessions |-> FALSE]
    /\ pump = [s \in Sessions |-> At("off")]
    /\ reply = [s \in Sessions |-> FALSE]
    /\ down = [s \in Sessions |-> <<>>]
    /\ work = [s \in Sessions |-> NoCommand]
    /\ up = [s \in Sessions |-> <<>>]
    /\ inb = [s \in Sessions |-> NoEvent]
    /\ sentOn = [c \in Commands |-> NoSession]
    /\ deliveries = [c \in Commands |-> 0]
    /\ answer = [c \in Commands |-> "none"]

----------------------------------------------------------------------------
(* The ledger: repositories/session_commands.rs                            *)

\* The statuses a CurrentSessionCommandAction starts from and leads to.
Allowed == [send |-> {"queued"}, failqueued |-> {"queued"}, ack |-> {"sent"},
            reject |-> {"sent", "acknowledged"},
            succeed |-> {"sent", "acknowledged"},
            fail |-> {"sent", "acknowledged"}]
Target == [send |-> "sent", failqueued |-> "failed", ack |-> "acknowledged",
           reject |-> "failed", succeed |-> "succeeded", fail |-> "failed"]

Applies(c, action) == cmd[c] \in Allowed[action]

\* A transition to the status the row already has is accepted: always for a
\* print, for other kinds only when the agent reports the outcome.
Repeats(c, action) ==
    /\ cmd[c] = Target[action]
    /\ c \in Prints \/ action \in {"reject", "succeed", "fail"}

Transition(c, action) ==
    cmd' = [cmd EXCEPT ![c] = IF Applies(c, action) THEN Target[action] ELSE @]

Queued == {c \in Commands : cmd[c] = "queued"}
Oldest(cs) == CHOOSE c \in cs : \A d \in cs : c <= d

\* A route inserts the row, then wake_agent publishes AgentWake to every
\* replica, its own included.
Enqueue(c) ==
    /\ cmd[c] = "none"
    /\ \A d \in Commands : d < c => cmd[d] # "none"
    /\ cmd' = [cmd EXCEPT ![c] = "queued"]
    /\ wakes' = Hubs
    /\ UNCHANGED <<vars, features, wake, pump, stream, sentOn, answer>>

\* Mutant: a print is cancelled after it was sent.
CancelAnyTime(c) ==
    /\ c \in Prints
    /\ cmd[c] \in {"queued", "sent"}
    /\ cmd' = [cmd EXCEPT ![c] = "cancelled"]
    /\ UNCHANGED <<vars, features, pumps, stream, sentOn, answer>>

\* cancel_studio_print_with_audit: only while the command is queued.
Cancel(c) ==
    /\ c \in Prints
    /\ cmd[c] = "queued"
    /\ cmd' = [cmd EXCEPT ![c] = "cancelled"]
    /\ UNCHANGED <<vars, features, pumps, stream, sentOn, answer>>

\* handle_control_message(AgentWake): wake_local_agent; the channel of a pump
\* that is done is closed.
ReceiveWake(h) ==
    LET s == registry[h] IN
    /\ h \in wakes
    /\ wakes' = wakes \ {h}
    /\ wake' = IF s = NoSession THEN wake
               ELSE [wake EXCEPT ![s] = pump[s].at # "done"]
    /\ UNCHANGED <<vars, ledger, features, pump, stream>>

LoseWake(h) ==
    /\ LossyWakes
    /\ h \in wakes
    /\ wakes' = wakes \ {h}
    /\ UNCHANGED <<vars, ledger, features, wake, pump, stream>>

\* Mutant: the snapshot does not take the transition lease.
FeatureSnapshotUnleased(s) ==
    /\ conn[s] \in {"open", "ending"}
    /\ IsCurrent(s)
    /\ RowNames(s)
    /\ features' \in {s, NoSession}
    /\ UNCHANGED <<vars, ledger, pumps, stream>>

\* A device-feature or printer snapshot, under the lease and the row fence: the
\* bitmap is sufficient for the gated operations, if there are any, or it is
\* not.  Snapshot tasks are joined before the session disconnects.
FeatureSnapshot(s) ==
    /\ Gated # {}
    /\ conn[s] \in {"open", "ending"}
    /\ LeaseFree(HubOf[s])
    /\ IsCurrent(s)
    /\ RowNames(s)
    /\ features' \in {s, NoSession}
    /\ UNCHANGED <<vars, ledger, pumps, stream>>

----------------------------------------------------------------------------
(* The outbound pump                                                       *)

Move(s, p) == pump' = [pump EXCEPT ![s] = p]

\* The pump task returns, its ends of the wake channel and of the response
\* stream with it.
Stop(s) ==
    /\ Move(s, At("done"))
    /\ wake' = [wake EXCEPT ![s] = FALSE]
    /\ reply' = [reply EXCEPT ![s] = FALSE]

\* The dispatch answers with an error: it is sent on the response stream, whose
\* reader takes nothing after it, and the pump waits on.
StreamError(s) ==
    /\ Move(s, At("wait"))
    /\ reply' = [reply EXCEPT ![s] = FALSE]
    /\ UNCHANGED wake

\* The session has ended for this pump.  A status the inbound task left behind
\* is forwarded first, and the pump takes one more turn through its select.
SessionEnded(s) ==
    \/ Stop(s)
    \/ conn[s] # "open" /\ reply[s] /\ StreamError(s)

\* spawn_outbound_pump drains the queue before it waits for the first wake.
SpawnPump(s) ==
    /\ SpawnTasks(s)
    /\ Move(s, At("drain"))
    /\ reply' = [reply EXCEPT ![s] = TRUE]
    /\ UNCHANGED <<ledger, features, wakes, wake, down, work, up, inb, deliveries>>

\* queued_command_gate_failure and required_feature_gate_failure.
GateFails(s, c) ==
    \/ c \in GcodeLines /\ IsCurrent(s) /\ s \notin Capable
    \/ c \in Gated /\ ~(IsCurrent(s) /\ s \in Capable /\ features = s)

\* dispatch_next_queued_for_session takes the lease, reads the oldest queued
\* command and evaluates its gates.
PumpRead(s) ==
    LET c == Oldest(Queued) IN
    /\ pump[s].at = "drain"
    /\ LeaseFree(HubOf[s])
    /\ Queued # {}
    /\ Move(s, [at |-> IF GateFails(s, c) THEN "fail" ELSE "send", todo |-> {c}])
    /\ HoldLease(s)
    /\ UNCHANGED <<ledger, features, wakes, wake, stream>>

\* Nothing is queued: SessionQueuedDispatch::Empty, or SessionEnded.
PumpEmpty(s) ==
    /\ pump[s].at = "drain"
    /\ LeaseFree(HubOf[s])
    /\ Queued = {}
    /\ \/ IsCurrent(s) /\ Move(s, At("wait")) /\ UNCHANGED <<wake, reply>>
       \/ ~IsCurrent(s) /\ SessionEnded(s)
    /\ UNCHANGED <<vars, ledger, features, wakes, down, work, up, inb, deliveries>>

\* begin_closing_agent_transaction: the row names nobody else.
ClosingFence(s) == row.session \in {NoSession, s}

\* fail_queued_command: under the session's own fence while it is current,
\* under the closing fence afterwards.
PumpFail(s) ==
    LET c == Oldest(pump[s].todo)
        fence == IF IsCurrent(s) THEN RowNames(s) ELSE ClosingFence(s) IN
    /\ pump[s].at = "fail"
    /\ \/ /\ ~fence
          /\ SessionEnded(s)
          /\ UNCHANGED cmd
       \/ /\ fence
          /\ Applies(c, "failqueued")
          /\ Transition(c, "failqueued")
          /\ Move(s, At("drain"))
          /\ UNCHANGED <<wake, reply>>
       \/ /\ fence
          /\ ~Applies(c, "failqueued")
          /\ StreamError(s)
          /\ UNCHANGED cmd
    /\ DropLease(s)
    /\ UNCHANGED <<sentOn, answer, features, wakes, down, work, up, inb, deliveries>>

\* mark_sent_and_job is refused or not even tried: the session is not current
\* in the registry or in the row and the pump ends, or a cancelled print is
\* skipped.
PumpRefused(s) ==
    LET c == Oldest(pump[s].todo) IN
    /\ pump[s].at = "send"
    /\ \/ ~(IsCurrent(s) /\ RowNames(s)) /\ SessionEnded(s)
       \/ /\ IsCurrent(s) /\ RowNames(s)
          /\ c \in Prints /\ cmd[c] = "cancelled"
          /\ Move(s, At("drain"))
          /\ UNCHANGED <<wake, reply>>
    /\ DropLease(s)
    /\ UNCHANGED <<ledger, features, wakes, down, work, up, inb, deliveries>>

\* Mutants: the send is not fenced by the row; the ledger is not marked first.
PumpMarkUnfenced(s) ==
    LET c == Oldest(pump[s].todo) IN
    /\ pump[s].at = "send"
    /\ IsCurrent(s)
    /\ Applies(c, "send") \/ Repeats(c, "send")
    /\ Transition(c, "send")
    /\ sentOn' = [sentOn EXCEPT ![c] = s]
    /\ pump' = [pump EXCEPT ![s].at = "marked"]
    /\ UNCHANGED <<vars, features, wakes, wake, stream, answer>>
PumpMarkForgotten(s) ==
    /\ pump[s].at = "send"
    /\ IsCurrent(s) /\ RowNames(s)
    /\ pump' = [pump EXCEPT ![s].at = "marked"]
    /\ UNCHANGED <<vars, ledger, features, wakes, wake, stream>>

\* mark_sent_and_job: under the row fence the command becomes sent.
PumpMark(s) ==
    LET c == Oldest(pump[s].todo) IN
    /\ pump[s].at = "send"
    /\ IsCurrent(s) /\ RowNames(s)
    /\ Applies(c, "send") \/ Repeats(c, "send")
    /\ Transition(c, "send")
    /\ sentOn' = [sentOn EXCEPT ![c] = s]
    /\ pump' = [pump EXCEPT ![s].at = "marked"]
    /\ UNCHANGED <<vars, features, wakes, wake, stream, answer>>

\* The command is handed to the stream.  Once the inbound task has ended nobody
\* reads what the agent says about it, so it is only counted.
Deliver(s, c) ==
    /\ down' = IF conn[s] = "open" THEN [down EXCEPT ![s] = Append(@, c)] ELSE down
    /\ deliveries' = [deliveries EXCEPT ![c] = @ + 1]

\* Mutant: the pump goes back to waiting after one command.
PumpSendThenWait(s) ==
    LET c == Oldest(pump[s].todo) IN
    /\ pump[s].at = "marked"
    /\ reply[s]
    /\ Deliver(s, c)
    /\ Move(s, At("wait"))
    /\ DropLease(s)
    /\ UNCHANGED <<ledger, features, wakes, wake, reply, work, up, inb>>

\* command_sender.send, then the lease guard is dropped.
PumpSend(s) ==
    LET c == Oldest(pump[s].todo) IN
    /\ pump[s].at = "marked"
    /\ reply[s]
    /\ Deliver(s, c)
    /\ Move(s, At("drain"))
    /\ DropLease(s)
    /\ UNCHANGED <<ledger, features, wakes, wake, reply, work, up, inb>>

\* Mutant: a command the stream did not take goes back to the queue.
PumpSendLostRequeues(s) ==
    LET c == Oldest(pump[s].todo) IN
    /\ pump[s].at = "marked"
    /\ ~reply[s]
    /\ cmd' = [cmd EXCEPT ![c] = "queued"]
    /\ Stop(s)
    /\ DropLease(s)
    /\ UNCHANGED <<sentOn, answer, features, wakes, down, work, up, inb, deliveries>>

\* The agent reads no more: the send fails if the receiver is dropped already
\* (ChannelClosed) and goes nowhere otherwise; the command stays sent.
PumpSendLost(s) ==
    /\ pump[s].at = "marked"
    /\ ~reply[s]
    /\ Stop(s) \/ (Move(s, At("drain")) /\ UNCHANGED <<wake, reply>>)
    /\ DropLease(s)
    /\ UNCHANGED <<ledger, features, wakes, down, work, up, inb, deliveries>>

\* A database call of the dispatch fails and its transaction rolls back, or the
\* ledger refuses the transition.
PumpError(s) ==
    /\ \/ pump[s].at = "drain" /\ LeaseFree(HubOf[s]) /\ UNCHANGED vars
       \/ pump[s].at \in {"send", "fail"} /\ DropLease(s)
    /\ StreamError(s)
    /\ UNCHANGED <<ledger, features, wakes, down, work, up, inb, deliveries>>

\* The select of spawn_outbound_pump takes a wake.
PumpWake(s) ==
    /\ pump[s].at = "wait"
    /\ wake[s]
    /\ wake' = [wake EXCEPT ![s] = FALSE]
    /\ Move(s, At("drain"))
    /\ UNCHANGED <<vars, ledger, features, wakes, stream>>

\* The inbound task ended with a status: the pump waits for its end, forwards
\* the status and stops (a session that is no longer current is finalised: see
\* PumpClose).
PumpStatus(s) ==
    /\ pump[s].at = "wait"
    /\ conn[s] = "closed"
    /\ IsCurrent(s)
    /\ Stop(s)
    /\ UNCHANGED <<vars, ledger, features, wakes, down, work, up, inb, deliveries>>

\* The close channel is ready in one of the pump's two selects.  A dispatch that
\* has begun may still win (expiry and disconnect keep a clone of the session,
\* its close sender included, until fail_pending_live_commands is done) or is
\* dropped at an await, its lease guard with it: after the mark the command
\* stays sent although no stream has it.
PumpClose(s) ==
    /\ Closed(s)
    /\ \/ pump[s].at \in {"drain", "wait"} /\ UNCHANGED vars
       \/ pump[s].at \in {"send", "fail", "marked"} /\ DropLease(s)
    /\ Move(s, At("closing"))
    /\ UNCHANGED <<ledger, features, wakes, wake, stream>>

\* finalize_required_features_for_closing_session: unless the agent is back on
\* this replica, the queued gated commands are read under the lease ...
Finalize(s) ==
    LET todo == Queued \cap Gated IN
    /\ pump[s].at = "closing"
    /\ LeaseFree(HubOf[s])
    /\ IF registry[HubOf[s]] # NoSession \/ todo = {}
       THEN SessionEnded(s) /\ UNCHANGED vars
       ELSE /\ Move(s, [at |-> "finalize", todo |-> todo])
            /\ HoldLease(s)
            /\ UNCHANGED <<wake, reply>>
    /\ UNCHANGED <<ledger, features, wakes, down, work, up, inb, deliveries>>

\* ... and failed one transaction at a time, until one is refused or the
\* database fails.
FinalizeOne(s) ==
    LET c == Oldest(pump[s].todo)
        rest == pump[s].todo \ {c} IN
    /\ pump[s].at = "finalize"
    /\ \/ /\ ClosingFence(s) /\ Applies(c, "failqueued")
          /\ Transition(c, "failqueued")
          /\ rest # {}
          /\ pump' = [pump EXCEPT ![s].todo = rest]
          /\ UNCHANGED <<vars, wake, reply>>
       \/ /\ ClosingFence(s) /\ Applies(c, "failqueued")
          /\ Transition(c, "failqueued")
          /\ rest = {}
          /\ SessionEnded(s) /\ DropLease(s)
       \/ UNCHANGED cmd /\ SessionEnded(s) /\ DropLease(s)
    /\ UNCHANGED <<sentOn, answer, features, wakes, down, work, up, inb, deliveries>>

----------------------------------------------------------------------------
(* The agent: run_command_stream_until_cancelled                           *)

Say(s, kind, c) ==
    /\ up' = [up EXCEPT ![s] = Append(@, <<kind, c>>)]
    /\ answer' = [answer EXCEPT ![c] = kind]

\* The serial worker takes the next command: it acknowledges it and executes
\* it, or rejects it with a negative acknowledgement.
AgentTake(s) ==
    LET c == Head(down[s]) IN
    /\ down[s] # <<>>
    /\ work[s] = NoCommand
    /\ down' = [down EXCEPT ![s] = Tail(@)]
    /\ \/ Say(s, "ack", c) /\ work' = [work EXCEPT ![s] = c]
       \/ Say(s, "reject", c) /\ UNCHANGED work
    /\ UNCHANGED <<vars, cmd, sentOn, features, pumps, reply, inb, deliveries>>

AgentFinish(s) ==
    /\ work[s] # NoCommand
    /\ \E kind \in {"succeed", "fail"} : Say(s, kind, work[s])
    /\ work' = [work EXCEPT ![s] = NoCommand]
    /\ UNCHANGED <<vars, cmd, sentOn, features, pumps, reply, down, inb, deliveries>>

\* The agent's end of the stream goes away (process, network, an error or the
\* end of the response stream): its worker is aborted, nothing is reported later.
AgentGone(s) ==
    /\ reply[s] \/ down[s] # <<>> \/ work[s] # NoCommand
    /\ reply' = [reply EXCEPT ![s] = FALSE]
    /\ down' = [down EXCEPT ![s] = <<>>]
    /\ work' = [work EXCEPT ![s] = NoCommand]
    /\ UNCHANGED <<vars, ledger, features, pumps, up, inb, deliveries>>

----------------------------------------------------------------------------
(* Acks and results: handle_command_ack, handle_command_result             *)

\* The next event is read; claim_current_live_command and while_current drop it
\* unless the session is current.
InboundReceive(s) ==
    /\ conn[s] = "open"
    /\ inb[s] = NoEvent
    /\ up[s] # <<>>
    /\ up' = [up EXCEPT ![s] = Tail(@)]
    /\ inb' = [inb EXCEPT ![s] = IF IsCurrent(s) THEN Head(up[s]) ELSE NoEvent]
    /\ UNCHANGED <<vars, ledger, features, pumps, reply, down, work, deliveries>>

\* Mutant: the transition is not fenced by the row.
InboundApplyUnfenced(s) ==
    LET kind == inb[s][1]
        c == inb[s][2] IN
    /\ inb[s] # NoEvent
    /\ inb' = [inb EXCEPT ![s] = NoEvent]
    /\ Applies(c, kind) \/ Repeats(c, kind)
    /\ Transition(c, kind)
    /\ UNCHANGED <<vars, sentOn, answer, features, pumps, reply, down, work, up,
                   deliveries>>

\* transition_current_session_command: AgentSessionNotCurrent is ignored, a
\* transition the ledger accepts is committed; every error ends the stream
\* (EndInbound).
InboundApply(s) ==
    LET kind == inb[s][1]
        c == inb[s][2] IN
    /\ inb[s] # NoEvent
    /\ inb' = [inb EXCEPT ![s] = NoEvent]
    /\ \/ ~RowNames(s) /\ UNCHANGED cmd
       \/ /\ RowNames(s)
          /\ Applies(c, kind) \/ Repeats(c, kind)
          /\ Transition(c, kind)
    /\ UNCHANGED <<vars, sentOn, answer, features, pumps, reply, down, work, up,
                   deliveries>>

InvalidTransition(s) ==
    /\ inb[s] # NoEvent
    /\ RowNames(s)
    /\ ~Applies(inb[s][2], inb[s][1])
    /\ ~Repeats(inb[s][2], inb[s][1])

\* The request stream ends between two events, or the event in progress ends it
\* with a database error or InvalidCommandTransition and is not applied.  The
\* agent may go on with its commands (Deliver), but nobody reads its answers.
EndInbound(s) ==
    /\ InboundEnds(s)
    /\ inb' = [inb EXCEPT ![s] = NoEvent]
    /\ up' = [up EXCEPT ![s] = <<>>]
    /\ down' = [down EXCEPT ![s] = <<>>]
    /\ work' = [work EXCEPT ![s] = NoCommand]
    /\ UNCHANGED <<ledger, features, pumps, reply, deliveries>>

CrashHub(h) ==
    /\ Crash(h)
    /\ wakes' = wakes \ {h}
    /\ LET lost == {s \in Sessions : HubOf[s] = h /\ conn[s] # "new"} IN
       /\ wake' = [s \in Sessions |-> wake[s] /\ s \notin lost]
       /\ pump' = [s \in Sessions |-> IF s \in lost THEN At("off") ELSE pump[s]]
       /\ reply' = [s \in Sessions |-> reply[s] /\ s \notin lost]
       /\ down' = [s \in Sessions |-> IF s \in lost THEN <<>> ELSE down[s]]
       /\ work' = [s \in Sessions |-> IF s \in lost THEN NoCommand ELSE work[s]]
       /\ up' = [s \in Sessions |-> IF s \in lost THEN <<>> ELSE up[s]]
       /\ inb' = [s \in Sessions |-> IF s \in lost THEN NoEvent ELSE inb[s]]
    /\ UNCHANGED <<ledger, features, deliveries>>

----------------------------------------------------------------------------

PumpStep(s) ==
    \/ SpawnPump(s) \/ PumpRead(s) \/ PumpEmpty(s)
    \/ PumpFail(s) \/ PumpRefused(s) \/ PumpMark(s) \/ PumpSend(s) \/ PumpSendLost(s)
    \/ PumpError(s) \/ PumpWake(s) \/ PumpStatus(s) \/ PumpClose(s)
    \/ Finalize(s) \/ FinalizeOne(s)

StreamStep(s) ==
    \/ AgentTake(s) \/ AgentFinish(s) \/ AgentGone(s)
    \/ InboundReceive(s) \/ InboundApply(s) \/ EndInbound(s)
    \/ FeatureSnapshot(s)

\* Session steps that leave commands and streams alone.
SessionOnly ==
    /\ \/ \E s \in Sessions :
            \/ ClaimOnline(s) \/ Register(s) \/ AbandonConnect(s)
            \/ Disconnect(s) \/ DisconnectError(s) \/ DisconnectRemove(s)
            \/ Heartbeat(s) \/ GoStale(s)
       \/ \E h \in Hubs :
            \/ CollectStale(h) \/ ExpireStale(h) \/ ExpireError(h)
            \/ ExpireRemove(h) \/ CloseAgent(h)
       \/ \E m \in control : ReceiveClose(m) \/ LoseClose(m)
    /\ UNCHANGED dvars

DispatchNext ==
    \/ \E c \in Commands : Enqueue(c) \/ Cancel(c)
    \/ \E h \in Hubs : ReceiveWake(h) \/ LoseWake(h) \/ CrashHub(h)
    \/ \E s \in Sessions : PumpStep(s) \/ StreamStep(s)
    \/ SessionOnly

DispatchSpec == DispatchInit /\ [][DispatchNext]_allvars

RegisterOnly(s) == Register(s) /\ UNCHANGED dvars
RemoveOnly(s) == DisconnectRemove(s) /\ UNCHANGED dvars
ReapOnly(h) == ExpireRemove(h) /\ UNCHANGED dvars

\* As in AgentSessions: the lease is FIFO, the spawned tasks keep running and
\* the control plane delivers the wakes it does not lose.
DispatchFairness ==
    /\ \A s \in Sessions :
        /\ WF_allvars(RegisterOnly(s)) /\ WF_allvars(RemoveOnly(s))
        /\ WF_allvars(SpawnPump(s))
        /\ SF_allvars(PumpRead(s)) /\ SF_allvars(PumpEmpty(s))
        /\ WF_allvars(PumpFail(s)) /\ WF_allvars(PumpRefused(s) \/ PumpMark(s))
        /\ WF_allvars(PumpSend(s) \/ PumpSendLost(s)) /\ WF_allvars(PumpWake(s))
        /\ WF_allvars(FinalizeOne(s))
    /\ \A h \in Hubs :
        /\ WF_allvars(ReapOnly(h))
        /\ WF_allvars(ReceiveWake(h))

FairDispatchSpec == DispatchSpec /\ DispatchFairness

----------------------------------------------------------------------------
(* Properties                                                              *)

Elems(q) == {q[i] : i \in DOMAIN q}

\* The commands on their way to, at or from the agent of a session.
InFlight(s) ==
    Elems(down[s]) \cup {work[s]} \cup {e[2] : e \in Elems(up[s])} \cup {inb[s][2]}

\* A command is handed to at most one stream, once, whatever reconnects,
\* replicas, cancellations and crashes do: a print is never started twice.  For
\* a print the ledger alone does not ensure it (Repeats accepts a second send);
\* the row fence does.
AtMostOnceDelivery == \A c \in Commands : deliveries[c] <= 1

\* Nothing is on its way to, at or from an agent before the ledger says so, and
\* nothing that was cancelled ever is: the row is marked sent before the command
\* is put on the channel.
LedgerNeverBehind ==
    \A s \in Sessions : \A c \in Commands \cap InFlight(s) :
        cmd[c] \notin {"none", "queued", "cancelled"}

\* docs/architecture.md:238: acks and results update the ledger "through
\* token-scoped session handling so stale replaced streams cannot mutate current
\* state".  A sent command changes only while the row names the session it was
\* sent on.
StaleStreamCannotMutate ==
    [][\A c \in Commands :
         cmd[c] \in {"sent", "acknowledged"} /\ cmd'[c] # cmd[c]
            => row.session = sentOn[c]]_allvars

\* The ledger ends a command it has sent only with the outcome the agent
\* reported: neither a late final sweep of a closing session nor a replica that
\* was replaced can fail it or make it succeed.
TerminalIsAgentOutcome ==
    \A c \in Commands : sentOn[c] # NoSession =>
        /\ cmd[c] # "queued"
        /\ cmd[c] = "succeeded" => answer[c] = "succeed"
        /\ cmd[c] = "failed" => answer[c] \in {"reject", "fail"}

\* Every ack and result of a current session finds the ledger in a state it
\* accepts: no legal run of an agent is answered with InvalidCommandTransition,
\* which would cost the agent its stream.
NoProtocolError == \A s \in Sessions : ~InvalidTransition(s)

\* A gated operation is marked sent only while the feature bitmap of the very
\* session it is sent on is in the database: the gate is evaluated before the
\* transaction and is still true in it.
GateHoldsAtSend ==
    [][\A c \in Gated :
         cmd[c] = "queued" /\ cmd'[c] = "sent" => features = sentOn'[c]]_allvars

\* While a session stays usable and no wake is lost, a queued command does not
\* stay queued.
Usable(s) == IsCurrent(s) /\ RowNames(s) /\ conn[s] = "open" /\ reply[s]
QueuedEventuallyDispatched ==
    \A s \in Sessions, c \in Commands :
        <>[]Usable(s) => (cmd[c] = "queued" ~> cmd[c] # "queued")

----------------------------------------------------------------------------
(* The inductive invariant behind the safety properties                    *)

\* A pump works for a session that was registered, and on one command at a time
\* (the final sweep: on a nonempty set of gated commands); it holds the lease
\* from reading the queue until it is done with what it read.
PumpWork ==
    \A s \in Sessions :
        /\ pump[s].at # "off" => conn[s] \notin {"new", "claimed"}
        /\ pump[s].at \in {"send", "fail", "marked"} =>
             \E c \in Commands : pump[s].todo = {c}
        /\ pump[s].at = "fail" => pump[s].todo \subseteq Gated \cup GcodeLines
        /\ pump[s].at = "finalize" => pump[s].todo # {} /\ pump[s].todo \subseteq Gated
        /\ pump[s].at \in {"send", "fail", "marked", "finalize"} =>
             lease[HubOf[s]] = <<"dispatch", s>>

\* What a pump is about to send nobody has sent, unless the row has moved on.
\* This is what a second replica, which has read the same queued row, relies on.
SendIsFirst ==
    \A s \in Sessions : \A c \in pump[s].todo :
        pump[s].at = "send" /\ RowNames(s) =>
            /\ cmd[c] \in {"queued", "cancelled", "failed"}
            /\ c \in Gated => features = s

\* A command that was marked is owned, and not yet delivered.
MarkedIsOwned ==
    \A s \in Sessions : \A c \in pump[s].todo :
        pump[s].at = "marked" => sentOn[c] = s /\ deliveries[c] = 0

\* Everything on a stream is owned by its session.
StreamsOwn ==
    \A s \in Sessions : \A c \in Commands \cap InFlight(s) : sentOn[c] = s

\* Only what has an owner was delivered, and what has one has left the queue.
OwnerMatchesStatus ==
    \A c \in Commands :
        /\ sentOn[c] = NoSession => deliveries[c] = 0
        /\ sentOn[c] # NoSession => cmd[c] \in {"sent", "acknowledged", "succeeded", "failed"}
        /\ cmd[c] \in {"sent", "acknowledged", "succeeded"} => sentOn[c] # NoSession

\* What is pending on a stream about a command agrees with the ledger: a command
\* the agent has not taken is sent and nothing was said about it; the one it
\* works on has at most its ack pending; an ack finds the command sent, an
\* outcome is the agent's last word on it.
Pending(s) == Elems(up[s]) \cup {inb[s]}
PendingAgrees ==
    \A s \in Sessions, c \in Commands :
        /\ c \in Elems(down[s]) =>
             cmd[c] = "sent" /\ work[s] # c /\ \A e \in Pending(s) : e[2] # c
        /\ work[s] = c =>
             cmd[c] \in {"sent", "acknowledged"} /\ \A e \in Pending(s) : e[2] = c => e[1] = "ack"
        /\ \A e \in Pending(s) : e[2] = c =>
             /\ cmd[c] \in {"sent", "acknowledged"}
             /\ e[1] = "ack" => cmd[c] = "sent"
             /\ e[1] # "ack" => answer[c] = e[1]

\* A stream carries a command once, and of two events about a command the first
\* is the ack and the second the outcome.
Precedes(d, e) == d[2] = e[2] => d[1] = "ack" /\ e[1] # "ack"
PendingInOrder ==
    \A s \in Sessions :
        /\ \A i, j \in DOMAIN down[s] : down[s][i] = down[s][j] => i = j
        /\ \A i, j \in DOMAIN up[s] : i < j => Precedes(up[s][i], up[s][j])
        /\ inb[s] # NoEvent => \A j \in DOMAIN up[s] : Precedes(inb[s], up[s][j])

\* A command that was marked and not handed over is sent, and on no stream.
MarkedIsApart ==
    \A s, t \in Sessions : \A c \in pump[s].todo :
        pump[s].at = "marked" => cmd[c] = "sent" /\ c \notin InFlight(t)

\* The invariant behind the agent's conversation with the ledger.
TalkInv == PendingAgrees /\ PendingInOrder /\ MarkedIsApart /\ TerminalIsAgentOutcome

DispatchInv ==
    /\ DispatchTypeOK /\ PumpWork /\ SendIsFirst /\ MarkedIsOwned /\ StreamsOwn
    /\ OwnerMatchesStatus /\ AtMostOnceDelivery

----------------------------------------------------------------------------
(* What the ledger promises, stated on its own                             *)

Ledger == INSTANCE CommandLedger WITH
    status <- cmd, owner <- sentOn, current <- row.session,
    claimed <- {s \in Sessions : epoch[s] # 0}

\* The pumps, streams and replicas implement the ledger of CommandLedger.
ImplementsLedger == Ledger!Spec
============================================================================
