---------------------------- MODULE FirmwareSession ----------------------------
(***************************************************************************)
(* The fresh MQTT sessions of the agent's firmware operations (machine/     *)
(* mqtt/firmware/session).  Every operation -- a control, or a version      *)
(* refresh with its retries -- opens a session of its own: a client whose   *)
(* event loop is driven by a pump task.  The operation talks to the pump    *)
(* through a channel of one request and gets events back; the pump is       *)
(* registered in a task set that all operations of the agent share, and is  *)
(* reaped there by its operation or by the teardown of the reverse session. *)
(*                                                                          *)
(* FirmwareControl has the reservation and the hub's side; here are the     *)
(* tasks, channels and joins.                                               *)
(***************************************************************************)
EXTENDS Naturals, Sequences, FiniteSets

CONSTANTS
    Controls,    \* execute_firmware_control operations
    Refreshes,   \* refresh_firmware_version operations
    TeardownTask, \* the reverse session's teardown, as a holder of the lock
    None,
    MaxAttempts, \* MAX_REFRESH_ATTEMPTS
    MaxReports   \* bound: reports a session receives

Ops == Controls \cup Refreshes
Attempts(o) == IF o \in Refreshes THEN 1..MaxAttempts ELSE {1}
Pumps == {p \in Ops \X (1..MaxAttempts) : p[2] \in Attempts(p[1])}

SessionAssumption ==
    /\ Controls \cap Refreshes = {}
    /\ Ops \cap {TeardownTask, None} = {} /\ TeardownTask # None
    /\ MaxAttempts \in Nat \ {0} /\ MaxReports \in Nat

VARIABLES
    op,       \* the operation: its step, its attempt, its outcome
    pump,     \* the pumps: run_pump's locals, its channels, its JoinHandle
    tasks,    \* FirmwareMqttTaskSet: the registered pumps
    lock,     \* who holds the mutex of the task set across an await
    reverse,  \* the reverse session: up, stopping, reaping, down
    reaping,  \* the pump abort_and_join_all has picked
    reported  \* how many joiners got the error of a pump

vars == <<op, pump, tasks, lock, reverse, reaping, reported>>

\* suback and completed are the two oneshots, req the request channel,
\* events the attempt's channel, out the client's queue; wire is the number
\* of reports received when the command went out, plus one.
NoPump == [state |-> "none", result |-> "none", aborted |-> FALSE,
           suback |-> "wait", completed |-> "wait", req |-> <<>>,
           active |-> "none", barrier |-> 0, shutdown |-> FALSE,
           events |-> <<>>, out |-> <<>>, subscribed |-> FALSE,
           received |-> 0, wire |-> 0]

Published == [type |-> "published", at |-> 0, after |-> FALSE]
Report(n) == [type |-> "report", at |-> n, after |-> FALSE]
Failed(after) == [type |-> "failed", at |-> 0, after |-> after]

Mine(o) == <<o, op[o].try>>
Over(o) == op[o].pc \in {"idle", "done", "dropped"}

\* The operation's future is gone, and the channel's only sender with it.
Closed(p) == op[p[1]].pc = "dropped"

\* The publish transition travels with the request and is dropped by the
\* pump after its own publish, or with the pump.
TransitionHeld(p) ==
    /\ p[1] \in Controls
    /\ pump[p].state = "run"
    /\ \/ "publish" \in {pump[p].req[i] : i \in 1..Len(pump[p].req)}
       \/ pump[p].active = "queued"

Init ==
    /\ op = [o \in Ops |-> [pc |-> "idle", try |-> 1, seen |-> FALSE, next |-> "none", res |-> "none"]]
    /\ pump = [p \in Pumps |-> NoPump]
    /\ tasks = {} /\ lock = None
    /\ reverse = "up" /\ reaping = None
    /\ reported = [p \in Pumps |-> 0]

Go(o, pc) == op' = [op EXCEPT ![o].pc = pc]

-----------------------------------------------------------------------------
(* Connecting *)

Connect(o) ==
    /\ reverse = "up" /\ op[o].pc = "idle"
    /\ Go(o, "spawn")
    /\ UNCHANGED <<pump, tasks, lock, reverse, reaping, reported>>

\* What the operation does with an attempt's failure: a refresh tries again.
Ends(o, res) ==
    IF o \in Refreshes /\ res # "reported" /\ op[o].try < MaxAttempts
    THEN [pc |-> "spawn", try |-> op[o].try + 1, seen |-> FALSE, next |-> "none", res |-> "none"]
    ELSE [op[o] EXCEPT !.pc = "done", !.next = "none", !.res = res]

\* The printer's serial cannot be resolved.
ConnectFails(o) ==
    /\ op[o].pc = "spawn"
    /\ op' = [op EXCEPT ![o] = Ends(o, "before")]
    /\ UNCHANGED <<pump, tasks, lock, reverse, reaping, reported>>

\* The pump starts and is registered under one hold of the lock.
Spawn(o) ==
    /\ op[o].pc = "spawn" /\ lock = None
    /\ pump' = [pump EXCEPT ![Mine(o)] = [NoPump EXCEPT !.state = "run", !.out = <<"subscribe">>]]
    /\ tasks' = tasks \cup {Mine(o)}
    /\ Go(o, "suback")
    /\ UNCHANGED <<lock, reverse, reaping, reported>>

Connected(o) ==
    /\ op[o].pc = "suback" /\ pump[Mine(o)].suback = "ok"
    /\ Go(o, "publish")
    /\ UNCHANGED <<pump, tasks, lock, reverse, reaping, reported>>

\* A refused subscription, or no SUBACK in 5 s: the pump is aborted.
SubackFails(o) ==
    /\ op[o].pc = "suback" /\ pump[Mine(o)].suback \in {"wait", "err"}
    /\ op' = [op EXCEPT ![o].pc = "abort", ![o].next = "before"]
    /\ UNCHANGED <<pump, tasks, lock, reverse, reaping, reported>>

\* (The pump answers the oneshot before it ends, so the third branch, a
\* dropped sender, is not reachable.)

-----------------------------------------------------------------------------
(* The attempt *)

\* No transition, or the endpoint changed: shut down before anything is sent.
TransitionFails(o) ==
    /\ o \in Controls /\ op[o].pc = "publish"
    /\ op' = [op EXCEPT ![o].pc = "shutdown", ![o].next = "before"]
    /\ UNCHANGED <<pump, tasks, lock, reverse, reaping, reported>>

PublishRequest(o) ==
    /\ op[o].pc = "publish"
    /\ IF pump[Mine(o)].state = "run"
       THEN /\ pump' = [pump EXCEPT ![Mine(o)].req = Append(@, "publish")]
            /\ Go(o, "published")
       ELSE /\ op' = [op EXCEPT ![o].pc = "shutdown", ![o].next = "before"]
            /\ UNCHANGED pump
    /\ UNCHANGED <<tasks, lock, reverse, reaping, reported>>

\* wait_published.  A closed channel counts as a failure before the publish.
WaitPublished(o) ==
    LET p == Mine(o)
        fails == [op EXCEPT ![o].pc = "shutdown", ![o].next = "before"]
    IN /\ op[o].pc = "published"
       /\ \/ /\ pump[p].events # <<>>
             /\ pump' = [pump EXCEPT ![p].events = Tail(@)]
             /\ op' = IF Head(pump[p].events) = Published
                      THEN [op EXCEPT ![o].pc = "report", ![o].seen = TRUE]
                      ELSE IF Head(pump[p].events).type = "failed" /\ Head(pump[p].events).after
                      THEN [op EXCEPT ![o].pc = "shutdown", ![o].next = "unknown"]
                      ELSE fails
          \/ /\ pump[p].events = <<>> /\ pump[p].state = "ended"
             /\ op' = fails
             /\ UNCHANGED pump
       /\ UNCHANGED <<tasks, lock, reverse, reaping, reported>>

\* wait_matching_report: the report, a failure, the pump's end or the timeout.
WaitReport(o) ==
    LET p == Mine(o) IN
    /\ op[o].pc = "report"
    /\ \/ /\ pump[p].events # <<>>
          /\ pump' = [pump EXCEPT ![p].events = Tail(@)]
          /\ op' = [op EXCEPT ![o].pc = "shutdown",
                              ![o].next = IF Head(pump[p].events).type = "report"
                                          THEN "reported" ELSE "unknown"]
       \/ /\ pump[p].events = <<>>
          /\ op' = [op EXCEPT ![o].pc = "shutdown", ![o].next = "unknown"]
          /\ UNCHANGED pump
    /\ UNCHANGED <<tasks, lock, reverse, reaping, reported>>

-----------------------------------------------------------------------------
(* Shutdown and the joins *)

ShutdownRequest(o) ==
    LET p == Mine(o) IN
    /\ op[o].pc = "shutdown"
    /\ IF pump[p].state = "run"
       THEN /\ Len(pump[p].req) = 0
            /\ pump' = [pump EXCEPT ![p].req = Append(@, "shutdown")]
            /\ Go(o, "completed")
       ELSE Go(o, "join") /\ UNCHANGED pump
    /\ UNCHANGED <<tasks, lock, reverse, reaping, reported>>

ShutdownCompleted(o) ==
    /\ op[o].pc = "completed" /\ pump[Mine(o)].completed # "wait"
    /\ Go(o, "join")
    /\ UNCHANGED <<pump, tasks, lock, reverse, reaping, reported>>

\* join_task by the owner: a pump another joiner has reaped reports nothing.
JoinTask(o) ==
    LET p == Mine(o) IN
    /\ op[o].pc \in {"join", "abort"} /\ lock = None
    /\ IF p \in tasks
       THEN /\ lock' = o
            /\ pump' = [pump EXCEPT ![p].aborted = @ \/ op[o].pc = "abort"]
            /\ Go(o, "joining")
       ELSE /\ op' = [op EXCEPT ![o] = Ends(o, op[o].next)]
            /\ UNCHANGED <<pump, lock>>
    /\ UNCHANGED <<tasks, reverse, reaping, reported>>

\* The JoinHandle is ready: the entry goes, the joiner gets the result.  (What
\* is left in the channels of a reaped pump is forgotten.)
Reap(p) ==
    /\ pump[p].state = "ended"
    /\ pump' = [pump EXCEPT ![p] = [NoPump EXCEPT !.state = "ended", !.result = pump[p].result,
                                                 !.wire = pump[p].wire]]
    /\ tasks' = tasks \ {p}
    /\ lock' = None
    /\ reported' = [reported EXCEPT ![p] = IF pump[p].result = "err" THEN @ + 1 ELSE @]

Joined(o) ==
    /\ op[o].pc = "joining" /\ lock = o
    /\ Reap(Mine(o))
    /\ op' = [op EXCEPT ![o] = Ends(o, op[o].next)]
    /\ UNCHANGED <<reverse, reaping>>

-----------------------------------------------------------------------------
(* The end of the reverse session *)

SessionEnds ==
    /\ reverse = "up"
    /\ reverse' = "stopping"
    /\ UNCHANGED <<op, pump, tasks, lock, reaping, reported>>

\* firmware_tasks.abort_all(): the future of an operation is dropped at an
\* await.  A control that waits for its publish aborts its pump on the way.
Guarded(o) == o \in Controls /\ op[o].pc = "published"

Drop(o) ==
    /\ reverse = "stopping" /\ ~Over(o)
    /\ pump' = IF Guarded(o) THEN [pump EXCEPT ![Mine(o)].aborted = TRUE] ELSE pump
    /\ lock' = IF lock = o THEN None ELSE lock
    /\ Go(o, "dropped")
    /\ UNCHANGED <<tasks, reverse, reaping, reported>>

\* The firmware tasks are joined before cancel_firmware_session.
Reaping ==
    /\ reverse = "stopping" /\ \A o \in Ops : Over(o)
    /\ reverse' = "reaping"
    /\ UNCHANGED <<op, pump, tasks, lock, reaping, reported>>

\* One turn of abort_and_join_all: pick a task, abort it, join it.
AbortNext ==
    /\ reverse = "reaping" /\ reaping = None /\ lock = None
    /\ IF tasks = {}
       THEN reverse' = "down" /\ UNCHANGED <<pump, lock, reaping>>
       ELSE \E p \in tasks :
                /\ lock' = TeardownTask /\ reaping' = p
                /\ pump' = [pump EXCEPT ![p].aborted = TRUE]
                /\ UNCHANGED reverse
    /\ UNCHANGED <<op, tasks, reported>>

AbortJoined ==
    /\ lock = TeardownTask
    /\ Reap(reaping)
    /\ reaping' = None
    /\ UNCHANGED <<op, reverse>>

-----------------------------------------------------------------------------
(* The pump *)

\* run_pump returns, or is dropped: its ends of the channels close.
Finish(r, res) ==
    [r EXCEPT !.state = "ended", !.result = res, !.req = <<>>, !.active = "none",
              !.shutdown = FALSE,
              !.suback = IF @ = "wait" THEN "closed" ELSE @,
              !.completed = IF @ = "wait" THEN "closed" ELSE @]

Step(p, r) ==
    /\ pump' = [pump EXCEPT ![p] = r]
    /\ UNCHANGED <<op, tasks, lock, reverse, reaping, reported>>

\* The select is biased: requests, then the closed channel, then the network.
TakePublish(p) ==
    LET r == pump[p] IN
    /\ r.state = "run" /\ r.req # <<>> /\ Head(r.req) = "publish"
    /\ Step(p, IF r.active # "none"
               THEN [r EXCEPT !.req = Tail(@), !.events = Append(@, Failed(FALSE))]
               ELSE [r EXCEPT !.req = Tail(@), !.active = "queued",
                              !.barrier = r.received, !.out = Append(@, "publish")])

TakeShutdown(p) ==
    LET r == pump[p] IN
    /\ r.state = "run" /\ r.req # <<>> /\ Head(r.req) = "shutdown"
    /\ Step(p, [r EXCEPT !.req = Tail(@), !.shutdown = TRUE, !.out = Append(@, "disconnect")])

TakeClosed(p) ==
    /\ pump[p].state = "run" /\ pump[p].req = <<>> /\ Closed(p)
    /\ Step(p, Finish(pump[p], "ok"))

MayPoll(p) == pump[p].state = "run" /\ pump[p].req = <<>> /\ ~Closed(p)

\* The event loop sends the next queued packet and reports it.
PollOutgoing(p) ==
    LET r == pump[p]
        s == [r EXCEPT !.out = Tail(@)]
    IN /\ MayPoll(p) /\ r.out # <<>>
       /\ Step(p, CASE Head(r.out) = "subscribe" -> [s EXCEPT !.subscribed = TRUE]
                    [] Head(r.out) = "publish" ->
                         [s EXCEPT !.active = IF @ = "queued" THEN "published" ELSE @,
                                   !.wire = r.received + 1,
                                   !.events = IF r.active = "queued" THEN Append(@, Published) ELSE @]
                    [] OTHER -> [Finish(s, "ok") EXCEPT !.completed = IF r.shutdown THEN "ok" ELSE @])

\* The broker's SUBACK: granted, or refused (or for another packet).
PollSubAck(p, granted) ==
    LET r == pump[p] IN
    /\ MayPoll(p) /\ r.subscribed /\ r.suback = "wait"
    /\ Step(p, [r EXCEPT !.suback = IF granted THEN "ok" ELSE "err"])

\* A report arrives: with the command's identity, another one, or undecodable.
PollReport(p, kind) ==
    LET r == pump[p]
        n == r.received + 1
        s == [r EXCEPT !.received = n]
    IN /\ MayPoll(p) /\ r.subscribed /\ r.received < MaxReports
       /\ Step(p, IF r.active = "published" /\ n > r.barrier
                  THEN CASE kind = "own" -> [s EXCEPT !.events = Append(@, Report(n))]
                         [] kind = "bad" -> [Finish([s EXCEPT !.events = Append(@, Failed(TRUE))], "err")
                                               EXCEPT !.completed = IF r.shutdown THEN "err" ELSE @]
                         [] OTHER -> s
                  ELSE s)

\* The connection fails.
PollError(p) ==
    LET r == pump[p]
        e == IF r.active = "none" THEN r.events ELSE Append(r.events, Failed(r.active = "published"))
    IN /\ MayPoll(p)
       /\ Step(p, [Finish([r EXCEPT !.events = e, !.suback = IF @ = "wait" THEN "err" ELSE @], "err")
                     EXCEPT !.completed = IF r.shutdown THEN "err" ELSE @])

Aborted(p) ==
    /\ pump[p].state = "run" /\ pump[p].aborted
    /\ Step(p, Finish(pump[p], "cancelled"))

-----------------------------------------------------------------------------
OpNext(o) ==
    \/ Connect(o) \/ ConnectFails(o) \/ Spawn(o) \/ Connected(o) \/ SubackFails(o)
    \/ TransitionFails(o) \/ PublishRequest(o) \/ WaitPublished(o) \/ WaitReport(o)
    \/ ShutdownRequest(o) \/ ShutdownCompleted(o) \/ JoinTask(o) \/ Joined(o) \/ Drop(o)

PumpNext(p) ==
    \/ TakePublish(p) \/ TakeShutdown(p) \/ TakeClosed(p) \/ PollOutgoing(p)
    \/ \E granted \in BOOLEAN : PollSubAck(p, granted)
    \/ \E kind \in {"own", "other", "bad"} : PollReport(p, kind)
    \/ PollError(p) \/ Aborted(p)

Done == /\ reverse = "down"
        /\ UNCHANGED vars

Next ==
    \/ \E o \in Ops : OpNext(o)
    \/ \E p \in Pumps : PumpNext(p)
    \/ SessionEnds \/ Reaping \/ AbortNext \/ AbortJoined \/ Done

Spec == Init /\ [][Next]_vars

\* Tasks are scheduled, timers fire, an abort lands, and the event loop sends
\* what is queued or fails (its keep-alive).  The printer owes no answer.
OpWork(o) ==
    \/ ConnectFails(o) \/ Spawn(o) \/ Connected(o) \/ SubackFails(o)
    \/ PublishRequest(o) \/ WaitPublished(o) \/ WaitReport(o)
    \/ ShutdownRequest(o) \/ ShutdownCompleted(o) \/ JoinTask(o) \/ Joined(o)

PumpWork(p) == TakePublish(p) \/ TakeShutdown(p) \/ TakeClosed(p) \/ PollOutgoing(p) \/ Aborted(p)

Fairness ==
    /\ \A o \in Ops : WF_vars(OpWork(o)) /\ WF_vars(Drop(o))
    /\ \A p \in Pumps : WF_vars(PumpWork(p))
    /\ WF_vars(Reaping) /\ WF_vars(AbortNext) /\ WF_vars(AbortJoined)

FairSpec == Spec /\ Fairness

-----------------------------------------------------------------------------
(* Properties *)

TypeOK ==
    /\ \A o \in Ops :
        /\ op[o].pc \in {"idle", "spawn", "suback", "publish", "published", "report", "shutdown",
                         "completed", "join", "abort", "joining", "done", "dropped"}
        /\ op[o].try \in Attempts(o) /\ op[o].seen \in BOOLEAN
        /\ op[o].next \in {"none", "before", "unknown", "reported"}
        /\ op[o].res \in {"none", "before", "unknown", "reported"}
    /\ \A p \in Pumps :
        /\ pump[p].state \in {"none", "run", "ended"}
        /\ pump[p].result \in {"none", "ok", "err", "cancelled"}
        /\ pump[p].suback \in {"wait", "ok", "err", "closed"}
        /\ pump[p].completed \in {"wait", "ok", "err", "closed"}
        /\ pump[p].active \in {"none", "queued", "published"}
        /\ Len(pump[p].req) <= 1
        /\ pump[p].received \in 0..MaxReports /\ pump[p].wire \in 0..(MaxReports + 1)
    /\ tasks \subseteq Pumps /\ lock \in Ops \cup {TeardownTask, None}
    /\ reverse \in {"up", "stopping", "reaping", "down"} /\ reaping \in Pumps \cup {None}
    /\ reported \in [Pumps -> 0..Cardinality(Ops) + 1]

\* A control whose failure is reported as "before publish" never reached the
\* wire, and one that reached it is reported as acknowledged or unknown:
\* the hub may let the user try again only in the first case (attempt.rs
\* wait_published, whatever ended the pump).
FailedMeansUnsent ==
    \A o \in Controls :
        op[o].pc = "done" => (op[o].res = "before" <=> pump[<<o, 1>>].wire = 0)

\* A report given to an attempt arrived after the session's own publish, not
\* between the request's barrier and it (session.rs:1).
OwnAnswer ==
    \A p \in Pumps : \A i \in 1..Len(pump[p].events) :
        pump[p].events[i].type = "report" =>
            pump[p].wire > 0 /\ pump[p].events[i].at >= pump[p].wire

\* The error of a pump is reported by exactly one joiner, its operation or
\* the teardown, and no pump is reaped before it ended (owner.rs:248).
ReportedOnce ==
    \A p \in Pumps :
        /\ reported[p] <= 1
        /\ (pump[p].state # "none" /\ p \notin tasks) =>
              /\ pump[p].state = "ended"
              /\ pump[p].result = "err" => reported[p] = 1

\* No pump outlives what it serves: an operation that returned has none, and
\* after the teardown of the reverse session there is none at all, also when
\* operations were dropped while they connected, published or joined.
NoPumpLeft ==
    /\ \A p \in Pumps : pump[p].state = "run" => p \in tasks
    /\ \A p \in tasks : op[p[1]].pc # "done"
    /\ reverse = "down" => \A p \in Pumps : pump[p].state # "run"

\* The mutex all operations share is held across an await only for a pump
\* that has ended or is being aborted: a printer that does not answer never
\* keeps another printer's operation from starting or ending.
LockIsBrief ==
    \A o \in Ops : lock = o => pump[Mine(o)].state = "ended" \/ pump[Mine(o)].aborted

\* A command goes out only while its operation is there to learn of it, and a
\* control's only under its publish transition.
SentInTimeStep ==
    \A p \in Pumps :
      (pump[p].wire = 0 /\ pump'[p].wire # 0) =>
          /\ op[p[1]].pc # "dropped"
          /\ p[1] \in Controls => TransitionHeld(p)
SentInTime == [][SentInTimeStep]_vars

\* Every operation ends, whatever the printer does.
OperationEnds == \A o \in Ops : (op[o].pc = "spawn") ~> Over(o)

\* The teardown of the reverse session ends.
TeardownEnds == (reverse = "stopping") ~> (reverse = "down")

\* The publish transition is given back: until then no report stream of the
\* printer can start a new generation.
TransitionEnds == \A p \in Pumps : TransitionHeld(p) ~> ~TransitionHeld(p)

=============================================================================
