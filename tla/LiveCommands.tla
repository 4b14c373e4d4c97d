---------------------------- MODULE LiveCommands ----------------------------
(***************************************************************************)
(* Live-only commands: printer links, answers to a print error and H2C     *)
(* nozzle mappings.  Their row is created as sent, the command goes straight *)
(* to the channel of the registered session, and the session's map of       *)
(* pending live commands says who may answer (sessions/live_commands.rs).   *)
(* A session that leaves the registry has its pending commands failed by    *)
(* the task that removed it; a sweep fails what nobody owns any more.       *)
(* The owner is process-local and the action path "requires one active Hub  *)
(* process" (docs/development.md:269), so this is one replica and one agent.*)
(***************************************************************************)
EXTENDS Naturals, Sequences, FiniteSets

CONSTANTS
    Sessions,    \* connections of the agent
    NoSession,
    Commands,    \* live commands
    Links,       \* those that are link_printer
    Mappings,    \* those that are GetAutoNozzleMapping; the rest: HandlePrintError
    NoWork,      \* a slot that holds no command and no answer
    ChannelSize, \* capacity of a session's command channel
    MaxFaults    \* bound: failed database calls, dropped futures, crashes, closes

LiveAssumption ==
    /\ Links \subseteq Commands /\ Mappings \subseteq Commands \ Links
    /\ NoSession \notin Sessions
    /\ ChannelSize \in Nat \ {0} /\ MaxFaults \in Nat

VARIABLES
    registered, \* the session in the registry
    row,        \* current_session_id of the agent row
    conn,       \* connect_stream and the tasks of a session
    live,       \* command rows
    route,      \* the HTTP request of a command, and the token it read
    pending,    \* AgentSession.pending_live_commands
    drain,      \* fail_pending_live_commands of a removed session
    channel,    \* commands on their way; Closed when the receiver is gone
    work,       \* what the agent executes
    up,         \* acks and results on their way to the hub
    claim,      \* the event whose live_command_transition the inbound task holds
    aged,       \* rows not updated for STALE_LIVE_COMMAND_TIMEOUT
    orphaned,   \* history: commands that lost their owner to a fault
    faults

vars == <<registered, row, conn, live, route, pending, drain, channel, work, up, claim,
          aged, orphaned, faults>>

Closed == <<NoWork>>
Idle == [at |-> "idle", session |-> NoSession]
NoDrain == [at |-> "none", todo |-> {}, by |-> NoSession]
AnswerKinds == {"ack", "reject", "succeed", "fail"}
Unfinished(c) == live[c] \in {"sent", "acknowledged"}

\* Every variable has its type.
TypeOK ==
    /\ registered \in Sessions \cup {NoSession}
    /\ row \in Sessions \cup {NoSession}
    /\ conn \in [Sessions -> {"new", "claimed", "registered", "open", "ending", "gone"}]
    /\ live \in [Commands -> {"none", "sent", "acknowledged", "succeeded", "failed"}]
    /\ route \in [Commands -> [at : {"idle", "created", "failing", "polling", "done"},
                               session : Sessions \cup {NoSession}]]
    /\ pending \in [Sessions -> SUBSET Commands]
    /\ drain \in [Sessions -> [at : {"none", "waiting", "failing", "done", "lost"},
                               todo : SUBSET Commands, by : Sessions \cup {NoSession}]]
    /\ \A s \in Sessions : channel[s] = Closed \/ channel[s] \in Seq(Commands)
    /\ work \in [Sessions -> Commands \cup {NoWork}]
    /\ up \in [Sessions -> Seq(AnswerKinds \X Commands)]
    /\ claim \in [Sessions -> (AnswerKinds \X Commands) \cup {NoWork}]
    /\ aged \in SUBSET Commands
    /\ orphaned \in SUBSET Commands
    /\ faults \in 0..MaxFaults

Init ==
    /\ registered = NoSession
    /\ row = NoSession
    /\ conn = [s \in Sessions |-> "new"]
    /\ live = [c \in Commands |-> "none"]
    /\ route = [c \in Commands |-> Idle]
    /\ pending = [s \in Sessions |-> {}]
    /\ drain = [s \in Sessions |-> NoDrain]
    /\ channel = [s \in Sessions |-> <<>>]
    /\ work = [s \in Sessions |-> NoWork]
    /\ up = [s \in Sessions |-> <<>>]
    /\ claim = [s \in Sessions |-> NoWork]
    /\ aged = {}
    /\ orphaned = {}
    /\ faults = 0

sessionVars == <<registered, row, conn>>
streamVars == <<channel, work, up>>

Fault == faults < MaxFaults /\ faults' = faults + 1

-----------------------------------------------------------------------------
(* The ledger *)

Target(kind) == CASE kind = "ack" -> "acknowledged"
                  [] kind = "succeed" -> "succeeded"
                  [] OTHER -> "failed"

\* transition_command: what the row may be for an event to apply or repeat.
Accepts(c, kind) ==
    \/ kind = "ack" /\ live[c] = "sent"
    \/ kind # "ack" /\ Unfinished(c)
    \/ live[c] = Target(kind)

\* mark_failed: an already terminal row is left as it is.
MarkFailed(set) ==
    [c \in Commands |-> IF c \in set /\ Unfinished(c) THEN "failed" ELSE live[c]]

-----------------------------------------------------------------------------
(* The session, as far as it owns live commands *)

LeaseFree == \A s \in Sessions : conn[s] # "claimed"

\* The session that leaves the registry is handed to a task that fails its
\* pending commands.
HandToDrain(s, by) ==
    drain' = IF s = NoSession THEN drain
             ELSE [drain EXCEPT ![s] = [at |-> "waiting", todo |-> {}, by |-> by]]

ClaimOnline(s) ==
    /\ conn[s] = "new" /\ LeaseFree
    /\ row' = s
    /\ conn' = [conn EXCEPT ![s] = "claimed"]
    /\ UNCHANGED <<registered, live, route, pending, drain, streamVars, claim, aged,
                   orphaned, faults>>

Register(s) ==
    /\ conn[s] = "claimed"
    /\ registered' = s
    /\ conn' = [conn EXCEPT ![s] = "registered"]
    /\ HandToDrain(registered, s)
    /\ UNCHANGED <<row, live, route, pending, streamVars, claim, aged, orphaned, faults>>

\* connect_stream drains the session it replaced before it starts the tasks.
SpawnTasks(s) ==
    /\ conn[s] = "registered"
    /\ \A x \in Sessions : drain[x].by = s => drain[x].at \in {"done", "lost"}
    /\ conn' = [conn EXCEPT ![s] = "open"]
    /\ UNCHANGED <<registered, row, live, route, pending, drain, streamVars, claim, aged,
                   orphaned, faults>>

\* The client resets the stream while connect_stream runs: the future is
\* dropped, and with it the drain of the session it replaced.
AbandonConnect(s) ==
    /\ conn[s] \in {"claimed", "registered"}
    /\ Fault
    /\ conn' = [conn EXCEPT ![s] = "gone"]
    /\ LET lost == {x \in Sessions : drain[x].by = s /\ drain[x].at \in {"waiting", "failing"}} IN
       /\ drain' = [x \in Sessions |-> IF x \in lost THEN [drain[x] EXCEPT !.at = "lost"]
                                       ELSE drain[x]]
       /\ orphaned' = orphaned \cup UNION {pending[x] \cup drain[x].todo : x \in lost}
    /\ channel' = [channel EXCEPT ![s] = Closed]
    /\ UNCHANGED <<registered, row, live, route, pending, work, up, claim, aged>>

\* The inbound loop breaks between two events.
StreamEnds(s) ==
    /\ conn[s] = "open" /\ claim[s] = NoWork
    /\ conn' = [conn EXCEPT ![s] = "ending"]
    /\ up' = [up EXCEPT ![s] = <<>>]
    /\ UNCHANGED <<registered, row, live, route, pending, drain, channel, work, claim, aged,
                   orphaned, faults>>

RowReleased(s) == IF row = s THEN NoSession ELSE row

\* disconnect_session, then the drain.
Disconnect(s) ==
    /\ conn[s] = "ending" /\ LeaseFree
    /\ conn' = [conn EXCEPT ![s] = "gone"]
    /\ channel' = [channel EXCEPT ![s] = Closed]
    /\ work' = [work EXCEPT ![s] = NoWork]
    /\ IF registered = s
       THEN registered' = NoSession /\ row' = RowReleased(s) /\ HandToDrain(s, NoSession)
       ELSE UNCHANGED <<registered, row, drain>>
    /\ UNCHANGED <<live, route, pending, up, claim, aged, orphaned, faults>>

\* expire_stale marks the row offline; close_local_agent leaves the row.
Expire ==
    /\ registered # NoSession /\ LeaseFree
    /\ \/ row' = RowReleased(registered) /\ UNCHANGED faults
       \/ Fault /\ UNCHANGED row
    /\ registered' = NoSession
    /\ HandToDrain(registered, NoSession)
    /\ UNCHANGED <<conn, live, route, pending, streamVars, claim, aged, orphaned>>

\* The lease and the session's live_command_transition are free.
DrainMayStart(s) == LeaseFree /\ claim[s] = NoWork

DrainStart(s) ==
    /\ drain[s].at = "waiting" /\ DrainMayStart(s)
    /\ drain' = [drain EXCEPT ![s].at = "failing", ![s].todo = pending[s]]
    /\ pending' = [pending EXCEPT ![s] = {}]
    /\ UNCHANGED <<sessionVars, live, route, streamVars, claim, aged, orphaned, faults>>

\* One command is failed, or the database refuses and it is only logged.
DrainOne(s, c) ==
    /\ drain[s].at = "failing" /\ c \in drain[s].todo
    /\ \/ live' = MarkFailed({c}) /\ UNCHANGED <<orphaned, faults>>
       \/ Fault /\ orphaned' = orphaned \cup {c} /\ UNCHANGED live
    /\ drain' = [drain EXCEPT ![s].todo = @ \ {c}]
    /\ UNCHANGED <<sessionVars, route, pending, streamVars, claim, aged>>

DrainDone(s) ==
    /\ drain[s].at = "failing" /\ drain[s].todo = {}
    /\ drain' = [drain EXCEPT ![s].at = "done"]
    /\ UNCHANGED <<sessionVars, live, route, pending, streamVars, claim, aged, orphaned, faults>>

-----------------------------------------------------------------------------
(* The HTTP route *)

\* The token of the current session is read and the row inserted as sent.
RouteCreate(c) ==
    /\ route[c] = Idle /\ registered # NoSession
    /\ route' = [route EXCEPT ![c] = [at |-> "created", session |-> registered]]
    /\ live' = [live EXCEPT ![c] = "sent"]
    /\ UNCHANGED <<sessionVars, pending, drain, streamVars, claim, aged, orphaned, faults>>

RouteAt(c, at) == route' = [route EXCEPT ![c].at = at]

\* Mutant: the command is registered for the token that was read, whoever is
\* current by now.
IsCurrentLoosely(s) == TRUE

IsCurrent(s) == registered = s

\* try_dispatch_live_command under the registry lock: the token must still be
\* current and the channel have room, or the entry is taken back.
RouteDispatch(c) ==
    LET s == route[c].session IN
    /\ route[c].at = "created"
    /\ \/ /\ IsCurrent(s)
          /\ channel[s] # Closed /\ Len(channel[s]) < ChannelSize
          /\ pending' = [pending EXCEPT ![s] = @ \cup {c}]
          /\ channel' = [channel EXCEPT ![s] = Append(@, c)]
          /\ RouteAt(c, IF c \in Mappings THEN "polling" ELSE "done")
       \/ /\ ~IsCurrent(s) \/ channel[s] = Closed \/ Len(channel[s]) >= ChannelSize
          /\ RouteAt(c, "failing")
          /\ UNCHANGED <<pending, channel>>
    /\ UNCHANGED <<sessionVars, live, drain, work, up, claim, aged, orphaned, faults>>

\* fail_live_dispatch, fail_link_printer_dispatch_after_commit
RouteFail(c) ==
    /\ route[c].at = "failing"
    /\ \/ live' = MarkFailed({c}) /\ UNCHANGED <<orphaned, faults>>
       \/ Fault /\ orphaned' = orphaned \cup {c} /\ UNCHANGED live
    /\ RouteAt(c, "done")
    /\ UNCHANGED <<sessionVars, pending, drain, streamVars, claim, aged>>

\* The HTTP client goes away: the handler is dropped at an await.
RouteDropped(c) ==
    /\ route[c].at \in {"created", "failing", "polling"}
    /\ Fault
    /\ orphaned' = IF route[c].at = "polling" THEN orphaned ELSE orphaned \cup {c}
    /\ RouteAt(c, "done")
    /\ UNCHANGED <<sessionVars, live, pending, drain, streamVars, claim, aged>>

\* get_auto_nozzle_mapping polls the row until it is terminal, or gives up
\* after RESPONSE_TIMEOUT and fails it; the pending entry stays.
RouteAnswered(c) ==
    /\ route[c].at = "polling"
    /\ live' = MarkFailed({c})
    /\ RouteAt(c, "done")
    /\ UNCHANGED <<sessionVars, pending, drain, streamVars, claim, aged, orphaned, faults>>

-----------------------------------------------------------------------------
(* The agent and its answers *)

Say(s, kind, c) == up' = [up EXCEPT ![s] = Append(@, <<kind, c>>)]

AgentTake(s) ==
    /\ conn[s] = "open" /\ channel[s] # Closed /\ channel[s] # <<>> /\ work[s] = NoWork
    /\ channel' = [channel EXCEPT ![s] = Tail(@)]
    /\ LET c == Head(channel[s]) IN
       \/ Say(s, "ack", c) /\ work' = [work EXCEPT ![s] = c]
       \/ Say(s, "reject", c) /\ UNCHANGED work
    /\ UNCHANGED <<sessionVars, live, route, pending, drain, claim, aged, orphaned, faults>>

AgentFinish(s) ==
    /\ conn[s] = "open" /\ work[s] # NoWork
    /\ \E kind \in {"succeed", "fail"} : Say(s, kind, work[s])
    /\ work' = [work EXCEPT ![s] = NoWork]
    /\ UNCHANGED <<sessionVars, live, route, pending, drain, channel, claim, aged, orphaned,
                   faults>>

\* claim_current_live_command: NotCurrent and NotPending drop the event
\* (durable_fallback_allowed refuses every live kind).
InboundClaim(s) ==
    /\ conn[s] = "open" /\ claim[s] = NoWork /\ up[s] # <<>>
    /\ up' = [up EXCEPT ![s] = Tail(@)]
    /\ claim' = [claim EXCEPT ![s] = IF IsCurrent(s) /\ Head(up[s])[2] \in pending[s]
                                     THEN Head(up[s]) ELSE NoWork]
    /\ UNCHANGED <<sessionVars, live, route, pending, drain, channel, work, aged, orphaned,
                   faults>>

Settled(s, kind, c) ==
    IF kind = "ack" THEN pending ELSE [pending EXCEPT ![s] = @ \ {c}]

\* handle_command_ack, handle_command_result with the claim: not the row's
\* session any more (Aborted), or applied.
InboundApply(s) ==
    LET kind == claim[s][1]
        c == claim[s][2] IN
    /\ claim[s] # NoWork
    /\ \/ row # s /\ UNCHANGED <<live, pending, aged>>
       \/ /\ row = s /\ Accepts(c, kind)
          /\ live' = [live EXCEPT ![c] = Target(kind)]
          /\ pending' = Settled(s, kind, c)
          /\ aged' = aged \ {c}
    /\ claim' = [claim EXCEPT ![s] = NoWork]
    /\ UNCHANGED <<sessionVars, route, drain, streamVars, orphaned, faults>>

InvalidAnswer(s) ==
    /\ claim[s] # NoWork /\ row = s
    /\ ~Accepts(claim[s][2], claim[s][1])

\* A late result of a link is only logged; any other ends the stream.
InboundRefused(s) ==
    /\ InvalidAnswer(s)
    /\ \/ claim[s][2] \in Links /\ claim[s][1] \in {"succeed", "fail"} /\ UNCHANGED <<conn, up>>
       \/ /\ ~(claim[s][2] \in Links /\ claim[s][1] \in {"succeed", "fail"})
          /\ conn' = [conn EXCEPT ![s] = "ending"]
          /\ up' = [up EXCEPT ![s] = <<>>]
    /\ claim' = [claim EXCEPT ![s] = NoWork]
    /\ UNCHANGED <<registered, row, live, route, pending, drain, channel, work, aged, orphaned,
                   faults>>

-----------------------------------------------------------------------------
(* The sweep, and the end of the process *)

\* STALE_LIVE_COMMAND_TIMEOUT is longer than a request lasts.
Age(c) ==
    /\ Unfinished(c) /\ c \notin aged /\ route[c].at = "done"
    /\ aged' = aged \cup {c}
    /\ UNCHANGED <<sessionVars, live, route, pending, drain, streamVars, claim, orphaned, faults>>

\* pending_live_command_ids: what the registered session owns.
PendingIds == IF registered = NoSession THEN {} ELSE pending[registered]

\* The kinds the sweep fails.
Unowned == {c \in Commands \ Mappings : c \in aged /\ c \notin PendingIds}

FailStaleUnowned(c) ==
    /\ c \in Unowned /\ Unfinished(c)
    /\ live' = MarkFailed({c})
    /\ UNCHANGED <<sessionVars, route, pending, drain, streamVars, claim, aged, orphaned, faults>>

Crash ==
    /\ Fault
    /\ registered' = NoSession
    /\ conn' = [s \in Sessions |-> IF conn[s] = "new" THEN "new" ELSE "gone"]
    /\ route' = [c \in Commands |-> IF route[c] = Idle THEN Idle ELSE [route[c] EXCEPT !.at = "done"]]
    /\ pending' = [s \in Sessions |-> {}]
    /\ drain' = [s \in Sessions |-> NoDrain]
    /\ channel' = [s \in Sessions |-> IF conn[s] = "new" THEN <<>> ELSE Closed]
    /\ work' = [s \in Sessions |-> NoWork]
    /\ up' = [s \in Sessions |-> <<>>]
    /\ claim' = [s \in Sessions |-> NoWork]
    /\ orphaned' = orphaned \cup {c \in Commands : Unfinished(c)}
    /\ UNCHANGED <<row, live, aged>>

-----------------------------------------------------------------------------
RouteStep(c) ==
    RouteCreate(c) \/ RouteDispatch(c) \/ RouteFail(c) \/ RouteDropped(c) \/ RouteAnswered(c)

SessionStep(s) ==
    \/ ClaimOnline(s) \/ Register(s) \/ SpawnTasks(s) \/ AbandonConnect(s)
    \/ StreamEnds(s) \/ Disconnect(s)
    \/ DrainStart(s) \/ DrainDone(s) \/ \E c \in Commands : DrainOne(s, c)
    \/ AgentTake(s) \/ AgentFinish(s)
    \/ InboundClaim(s) \/ InboundApply(s) \/ InboundRefused(s)

Next ==
    \/ \E c \in Commands : RouteStep(c) \/ Age(c) \/ FailStaleUnowned(c)
    \/ \E s \in Sessions : SessionStep(s)
    \/ Expire \/ Crash

Spec == Init /\ [][Next]_vars

\* Requests, drains and the 15 s sweep keep running; nothing is assumed of
\* the agent.
FairSpec ==
    /\ Spec
    /\ \A c \in Commands :
          /\ WF_vars(RouteDispatch(c) \/ RouteFail(c) \/ RouteAnswered(c))
          /\ WF_vars(Age(c)) /\ WF_vars(FailStaleUnowned(c))
    /\ \A s \in Sessions :
          /\ WF_vars(Register(s)) /\ WF_vars(Disconnect(s))
          /\ SF_vars(DrainStart(s)) /\ WF_vars(DrainDone(s))
          /\ WF_vars(\E c \in Commands : DrainOne(s, c))
          /\ WF_vars(InboundApply(s) \/ InboundRefused(s))

-----------------------------------------------------------------------------
(* Properties *)

\* Once the pending commands of a removed session were drained, none is added
\* and none is answered: a request that read the old token cannot register
\* its command behind the drain's back.
DrainedStaysEmpty ==
    \A s \in Sessions : drain[s].at \in {"failing", "done"} =>
        pending[s] = {} /\ claim[s] = NoWork

Owned(c) ==
    \/ route[c].at \in {"created", "failing", "polling"}
    \/ c \in PendingIds
    \/ \E s \in Sessions : \/ drain[s].at = "waiting" /\ c \in pending[s]
                           \/ c \in drain[s].todo

\* An unfinished live command always has an owner that will end it: its
\* request, the registered session or a drain, unless a fault took it.
LiveNeverForgotten ==
    \A c \in Commands : Unfinished(c) => Owned(c) \/ c \in orphaned

\* A live command ends as the agent said, or as failed by the hub: the sweep,
\* the drain and the timeout never overturn an answer that was recorded, and
\* the sweep leaves a command alone that the current session still answers for.
SweepSparesOwnedStep ==
    \A c \in Commands :
      /\ live[c] \in {"succeeded", "failed"} => live'[c] = live[c]
      /\ c \in PendingIds /\ route[c].at # "polling" /\ Unfinished(c) /\ live'[c] = "failed"
            => claim[registered] # NoWork
SweepSparesOwned == [][SweepSparesOwnedStep]_vars

\* The answer of an agent ends its stream, while the session is current, only
\* when it is to a nozzle mapping the request has given up on.
OnlyLateMappingEndsStream ==
    \A s \in Sessions : InvalidAnswer(s) /\ registered = s => claim[s][2] \in Mappings

\* A live command that the registered session does not answer for is ended by
\* session or stale cleanup, also after a crash (docs/architecture.md:243).
CleanedUp ==
    \A c \in Commands :
        (Unfinished(c) /\ c \notin PendingIds) ~> (~Unfinished(c) \/ c \in PendingIds)
=============================================================================
