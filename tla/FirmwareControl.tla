--------------------------- MODULE FirmwareControl ---------------------------
(***************************************************************************)
(* Firmware mutations and version refreshes of one printer, from the HTTP   *)
(* request to the printer and back: the hub's pending firmware commands     *)
(* (firmware_control, sessions/firmware_commands), the agent's one-use      *)
(* reservation and publish transition (machine/firmware, machine/runtime/   *)
(* firmware_gateway.rs) and the MQTT publish itself.                        *)
(*                                                                          *)
(* A mutation has two phases.  Prepare creates the row, asks the agent for  *)
(* a reservation and returns a one-use token; execute spends the token,     *)
(* records that it is about to send (the row goes to acknowledged) and      *)
(* sends the command.  The pending entry of a command is removed by exactly *)
(* one claim, and the claimer writes the terminal phase and answers.        *)
(*                                                                          *)
(* Session changes, generation changes and every handler below run under   *)
(* the transition lease of the agent (see AgentSessions), so the registry   *)
(* and the agent row change together here: firmware "with one active Hub    *)
(* process" (docs/development.md:238).                                      *)
(***************************************************************************)
EXTENDS Naturals, Sequences, FiniteSets

CONSTANTS
    Sessions,     \* connections of the agent
    Controls,     \* prepare/execute commands
    Refreshes,    \* refresh_version commands
    Requests,     \* execute_control requests
    None,
    MaxGen,       \* bound: generations of the report stream
    MaxRev,       \* bound: module revisions
    MaxFaults     \* bound: failed database calls, crashes of the hub

Commands == Controls \cup Refreshes

FirmwareAssumption ==
    /\ Controls \cap Refreshes = {} /\ None \notin Sessions \cup Commands \cup Requests
    /\ MaxGen \in Nat /\ MaxRev \in Nat /\ MaxFaults \in Nat

VARIABLES
    \* hub
    registered, \* the session in the registry, and in the agent row
    removed,    \* sessions whose pending firmware commands are still to be cancelled
    fw,         \* printers row: firmware_session_id, firmware_generation, module revision
    row,        \* command rows
    pending,    \* PendingFirmwareState.commands
    tokens,     \* PendingFirmwareState.prepared_tokens
    claim,      \* completing commands, and the phase their owner will record
    lease,      \* the request that holds the transition lease across a step
    prep,       \* the prepare or refresh request of a command
    exec,       \* the execute requests
    expired,    \* commands whose PREPARE_LIFETIME is over
    expiry,     \* the expiry task of a prepare
    \* agent
    conn,       \* the reverse session
    gen, rev,   \* FirmwareEntryState.generation, .module_revision
    seen,       \* the revision of the observation under the version lease
    reservation,\* FirmwareEntryState.reservation
    task,       \* the firmware task of a command
    down, up,   \* the stream, one queue each way
    \* printer
    got,        \* how often the printer received a control
    faults

hubVars == <<registered, removed, fw, row, pending, tokens, claim, lease, prep, exec, expired,
             expiry>>
agentVars == <<conn, gen, rev, seen, reservation, task>>
vars == <<hubVars, agentVars, down, up, got, faults>>

Phases == {"pre_publish", "acknowledged", "rejected", "unknown", "refreshed"}
NoRow == [st |-> "none", phase |-> "none", owner |-> None, gen |-> 0]
NoExec == [at |-> "idle", c |-> None, answer |-> "none"]
Events == [k : {"invalidated", "modules"}, g : 1..MaxGen, r : 0..MaxRev]
            \cup [k : {"prepared", "published", "failed", "ack", "reject", "unacked"},
                  c : Commands]
            \cup [k : {"refreshed"}, c : Commands, r : 0..MaxRev]

\* Every variable has its type.
TypeOK ==
    /\ registered \in Sessions \cup {None}
    /\ removed \in SUBSET Sessions
    /\ fw \in [session : Sessions \cup {None}, gen : 0..MaxGen, rev : 0..MaxRev]
    /\ row \in [Commands -> [st : {"none", "sent", "acknowledged", "succeeded", "failed"},
                             phase : Phases \cup {"none"}, owner : Sessions \cup {None},
                             gen : 0..MaxGen]]
    /\ pending \in [Commands -> {"none", "refreshSent", "preparing", "prepared",
                                 "executeSent", "published"}]
    /\ tokens \in SUBSET Controls
    /\ claim \in [Commands -> Phases \cup {"none"}]
    /\ lease \in Commands \cup Requests \cup {None}
    /\ prep \in [Commands -> {"idle", "created", "waiting", "ok", "failed", "dropped"}]
    /\ exec \in [Requests -> [at : {"idle", "located", "begun", "waiting", "done", "dropped"},
                              c : Commands \cup {None},
                              answer : Phases \cup {"none", "invalid", "unavailable"}]]
    /\ expired \in SUBSET Commands
    /\ expiry \in [Commands -> {"none", "armed", "unregistered", "done"}]
    /\ conn \in [Sessions -> {"new", "open", "ended"}]
    /\ gen \in 0..MaxGen /\ rev \in 0..MaxRev /\ seen \in 0..MaxRev
    /\ reservation \in [c : Commands, s : Sessions, gen : 0..MaxGen, inFlight : BOOLEAN]
                         \cup {None}
    /\ task \in [Commands -> {"none", "prepare", "execute", "claimed", "publishing",
                              "published", "refresh", "reading", "observed"}]
    /\ down \in [Sessions -> Seq([k : {"prepare", "execute", "refresh"}, c : Commands])]
    /\ up \in [Sessions -> Seq(Events)]
    /\ got \in [Commands -> 0..2]
    /\ faults \in 0..MaxFaults

Init ==
    /\ registered = None /\ removed = {}
    /\ fw = [session |-> None, gen |-> 0, rev |-> 0]
    /\ row = [c \in Commands |-> NoRow]
    /\ pending = [c \in Commands |-> "none"]
    /\ tokens = {}
    /\ claim = [c \in Commands |-> "none"]
    /\ lease = None
    /\ prep = [c \in Commands |-> "idle"]
    /\ exec = [r \in Requests |-> NoExec]
    /\ expired = {}
    /\ expiry = [c \in Commands |-> "none"]
    /\ conn = [s \in Sessions |-> "new"]
    /\ gen = 0 /\ rev = 0 /\ seen = 0 /\ reservation = None
    /\ task = [c \in Commands |-> "none"]
    /\ down = [s \in Sessions |-> <<>>]
    /\ up = [s \in Sessions |-> <<>>]
    /\ got = [c \in Commands |-> 0]
    /\ faults = 0

Fault == faults < MaxFaults /\ faults' = faults + 1
Unfinished(c) == row[c].st \in {"sent", "acknowledged"}
Owner(c) == row[c].owner

-----------------------------------------------------------------------------
(* Claims: the pending entry goes, its token with it, and the claimer owes  *)
(* the row a phase.                                                         *)

\* Mutant: an execute that was sent is cancelled as if it had not been.
CancelledPhasePublishedOnly(c) == IF pending[c] = "published" THEN "unknown" ELSE "pre_publish"

\* finish_cancelled_commands: potentially published work is outcome-unknown.
CancelledPhase(c) == IF pending[c] \in {"executeSent", "published"} THEN "unknown"
                     ELSE "pre_publish"

\* finish_agent_failure: the agent says it failed; it is unknown once published.
AgentFailurePhase(c) == IF pending[c] = "published" THEN "unknown" ELSE "pre_publish"

\* remove_exact and remove_matching for a set of commands with their phases.
Claim(set, phase) ==
    LET taken == {c \in set : pending[c] # "none"}
    IN /\ pending' = [c \in Commands |-> IF c \in taken THEN "none" ELSE pending[c]]
       /\ tokens' = tokens \ taken
       /\ claim' = [c \in Commands |-> IF c \in taken THEN phase[c] ELSE claim[c]]

ClaimAs(c, phase) == Claim({c}, [d \in {c} |-> phase])
Cancel(set) == Claim(set, [c \in set |-> CancelledPhase(c)])
NoClaim == UNCHANGED <<pending, tokens, claim>>

\* mark_firmware_terminal: an already terminal row keeps what it has.
Terminal(c, phase) ==
    IF Unfinished(c)
    THEN [row EXCEPT ![c].st = IF phase \in {"acknowledged", "refreshed"}
                               THEN "succeeded" ELSE "failed",
                     ![c].phase = phase]
    ELSE row

\* The waiter of the execute that spent the token.
Answer(c, phase) ==
    [r \in Requests |-> IF exec[r].c = c /\ exec[r].at = "waiting"
                        THEN [exec[r] EXCEPT !.at = "done", !.answer = phase] ELSE exec[r]]

PrepAnswered(c) == [prep EXCEPT ![c] = IF @ = "waiting" THEN "failed" ELSE @]

\* finish, complete_control and complete_refresh once the entry is claimed: the
\* row is written, then the waiters are answered.
Finish(c) ==
    /\ claim[c] # "none" /\ lease # c
    /\ row' = Terminal(c, claim[c])
    /\ exec' = Answer(c, IF row'[c].phase = claim[c] THEN claim[c] ELSE "unknown")
    /\ prep' = IF claim[c] = "refreshed" THEN [prep EXCEPT ![c] = IF @ = "waiting" THEN "ok" ELSE @]
               ELSE PrepAnswered(c)
    /\ claim' = [claim EXCEPT ![c] = "none"]
    /\ UNCHANGED <<registered, removed, fw, pending, tokens, lease, expired, expiry, agentVars,
                   down, up, got, faults>>

UnrecordedAnswer(c) == "unknown"

\* The write fails: the answer is outcome-unknown.  complete_control tries once
\* more to record outcome-unknown.
FinishFails(c) ==
    /\ claim[c] # "none" /\ lease # c /\ Fault
    /\ row' \in {row} \cup (IF claim[c] \in {"acknowledged", "rejected"}
                            THEN {Terminal(c, "unknown")} ELSE {})
                      \cup (IF claim[c] = "refreshed" THEN {Terminal(c, "pre_publish")} ELSE {})
    /\ exec' = Answer(c, UnrecordedAnswer(c))
    /\ prep' = PrepAnswered(c)
    /\ claim' = [claim EXCEPT ![c] = "none"]
    /\ UNCHANGED <<registered, removed, fw, pending, tokens, lease, expired, expiry, agentVars,
                   down, up, got>>

-----------------------------------------------------------------------------
(* Sessions *)

\* connect_stream registers the session; the one it replaces is cancelled later.
Connect(s) ==
    /\ conn[s] = "new" /\ \A t \in Sessions : conn[t] # "open"
    /\ lease = None
    /\ conn' = [conn EXCEPT ![s] = "open"]
    /\ registered' = s
    /\ removed' = removed \cup ({registered} \ {None})
    /\ UNCHANGED <<fw, row, pending, tokens, claim, lease, prep, exec, expired, expiry, gen, rev,
                   seen, reservation, task, down, up, got, faults>>

\* Disconnect, expiry or close of the registered session.  Events not read yet
\* are lost with the stream.
RemoveSession(s) ==
    /\ registered = s /\ lease = None
    /\ registered' = None
    /\ removed' = removed \cup {s}
    /\ UNCHANGED <<fw, row, pending, tokens, claim, lease, prep, exec, expired, expiry, agentVars,
                   down, up, got, faults>>

\* fail_pending_live_commands: cancel_firmware_session_under_transition.
CancelSession(s) ==
    /\ s \in removed /\ lease = None
    /\ removed' = removed \ {s}
    /\ Cancel({c \in Commands : Owner(c) = s})
    /\ UNCHANGED <<registered, fw, row, lease, prep, exec, expired, expiry, agentVars, down, up,
                   got, faults>>

\* The hub stops: everything in memory goes, and with it every stream.
Crash ==
    /\ Fault
    /\ registered' = None /\ removed' = {}
    /\ pending' = [c \in Commands |-> "none"]
    /\ tokens' = {}
    /\ claim' = [c \in Commands |-> "none"]
    /\ lease' = None
    /\ prep' = [c \in Commands |-> IF prep[c] \in {"created", "waiting", "ok"} THEN "dropped"
                                   ELSE prep[c]]
    /\ exec' = [r \in Requests |-> IF exec[r].at \in {"located", "begun", "waiting"}
                                   THEN [exec[r] EXCEPT !.at = "dropped"] ELSE exec[r]]
    /\ expiry' = [c \in Commands |-> IF expiry[c] = "none" THEN "none" ELSE "done"]
    /\ UNCHANGED <<fw, row, expired, agentVars, down, up, got>>

-----------------------------------------------------------------------------
(* Prepare and refresh *)

\* resolve_target: the generation must belong to the registered session.
Resolvable == registered # None /\ fw.session = registered

\* The row is created under the lease, which is kept until the command is sent.
CreateCommand(c) ==
    /\ prep[c] = "idle" /\ lease = None /\ Resolvable
    /\ row' = [row EXCEPT ![c] = [st |-> "sent", phase |-> "none", owner |-> registered,
                                  gen |-> fw.gen]]
    /\ prep' = [prep EXCEPT ![c] = "created"]
    /\ expiry' = [expiry EXCEPT ![c] = IF c \in Controls THEN "armed" ELSE "none"]
    /\ lease' = c
    /\ UNCHANGED <<registered, removed, fw, pending, tokens, claim, exec, expired, agentVars,
                   down, up, got, faults>>

\* begin_firmware_prepare and begin_firmware_refresh.
RegisterPending(c) ==
    /\ pending' = [pending EXCEPT ![c] = IF c \in Controls THEN "preparing" ELSE "refreshSent"]
    /\ tokens' = tokens \cup ({c} \cap Controls)

Outgoing(c) == [k |-> IF c \in Controls THEN "prepare" ELSE "refresh", c |-> c]

\* The command is registered, then try_send on the channel.
DispatchCommand(c) ==
    /\ lease = c /\ c \notin expired
    /\ lease' = None
    /\ prep' = [prep EXCEPT ![c] = "waiting"]
    /\ RegisterPending(c)
    /\ down' = [down EXCEPT ![registered] = IF conn[registered] = "open"
                                            THEN Append(@, Outgoing(c)) ELSE @]
    /\ UNCHANGED <<registered, removed, fw, row, claim, exec, expired, expiry, agentVars, up, got,
                   faults>>

\* The channel is full or closed: the entry is claimed before the lease goes.
DispatchRefused(c) ==
    /\ lease = c /\ c \notin expired
    /\ lease' = None
    /\ prep' = [prep EXCEPT ![c] = "waiting"]
    /\ claim' = [claim EXCEPT ![c] = "pre_publish"]
    /\ UNCHANGED <<registered, removed, fw, row, pending, tokens, exec, expired, expiry, agentVars,
                   down, up, got, faults>>

\* The prepare expired before its dispatch, or the dispatch fence failed: the
\* row is failed without a claim (unless that write fails too).
DispatchAbandoned(c) ==
    /\ lease = c
    /\ \/ c \in expired /\ c \in Controls /\ UNCHANGED faults
       \/ Fault
    /\ lease' = None
    /\ prep' = [prep EXCEPT ![c] = "failed"]
    /\ row' \in {Terminal(c, "pre_publish")} \cup (IF faults' > faults THEN {row} ELSE {})
    /\ UNCHANGED <<registered, removed, fw, pending, tokens, claim, exec, expired, expiry,
                   agentVars, down, up, got>>

\* The client goes away: the future is dropped, the entry and the row stay.
PrepareDropped(c) ==
    /\ prep[c] \in {"created", "waiting"}
    /\ prep' = [prep EXCEPT ![c] = "dropped"]
    /\ lease' = IF lease = c THEN None ELSE lease
    /\ UNCHANGED <<registered, removed, fw, row, pending, tokens, claim, exec, expired, expiry,
                   agentVars, down, up, got, faults>>

\* PREPARE_LIFETIME passes (for a refresh: the stale timeout).
LifetimePasses(c) ==
    /\ row[c].st # "none" /\ c \notin expired
    /\ expired' = expired \cup {c}
    /\ prep' = [prep EXCEPT ![c] = IF @ = "waiting" /\ c \in Controls THEN "failed" ELSE @]
    /\ UNCHANGED <<registered, removed, fw, row, pending, tokens, claim, lease, exec, expiry,
                   agentVars, down, up, got, faults>>

\* expire_firmware_prepare_under_transition: only unexecuted work.
Expirable(c) == pending[c] \in {"preparing", "prepared"}

\* expire_firmware_prepare: under the lease.
ExpirePrepare(c) ==
    /\ expiry[c] = "armed" /\ c \in expired /\ lease = None
    /\ IF Expirable(c) THEN ClaimAs(c, "pre_publish") ELSE NoClaim
    /\ expiry' = [expiry EXCEPT ![c] =
                     IF pending[c] = "none" /\ claim[c] = "none" THEN "unregistered" ELSE "done"]
    /\ UNCHANGED <<registered, removed, fw, row, lease, prep, exec, expired, agentVars, down, up,
                   got, faults>>

\* A prepare that was never registered, or whose owner could not write: its row
\* is failed if it is still only sent.
ExpireUnregistered(c) ==
    /\ expiry[c] = "unregistered"
    /\ expiry' = [expiry EXCEPT ![c] = "done"]
    /\ row' = IF row[c].st = "sent" THEN Terminal(c, "pre_publish") ELSE row
    /\ UNCHANGED <<registered, removed, fw, pending, tokens, claim, lease, prep, exec, expired,
                   agentVars, down, up, got, faults>>

-----------------------------------------------------------------------------
(* Execute *)

\* firmware_token_locator, before the lease.
ExecuteLocate(r, c) ==
    /\ exec[r].at = "idle" /\ prep[c] = "ok" /\ c \in Controls
    /\ exec' = [exec EXCEPT ![r] = IF c \in tokens
                                   THEN [at |-> "located", c |-> c, answer |-> "none"]
                                   ELSE [at |-> "done", c |-> c, answer |-> "invalid"]]
    /\ UNCHANGED <<registered, removed, fw, row, pending, tokens, claim, lease, prep, expired,
                   expiry, agentVars, down, up, got, faults>>

\* identity_is_current.
IdentityCurrent(c) == registered = Owner(c) /\ fw.session = Owner(c) /\ fw.gen = row[c].gen

Refused(r, answer) == exec' = [exec EXCEPT ![r].at = "done", ![r].answer = answer]

\* The owner or the generation is no longer current.
ExecuteUnavailable(r) ==
    /\ exec[r].at = "located" /\ lease = None /\ ~IdentityCurrent(exec[r].c)
    /\ Refused(r, "unavailable")
    /\ UNCHANGED <<registered, removed, fw, row, pending, tokens, claim, lease, prep, expired,
                   expiry, agentVars, down, up, got, faults>>

\* The database fails when the dispatch fence is acquired: whatever is pending
\* under the identity is claimed as a pre-publish failure.
ExecuteFenceFails(r) ==
    LET c == exec[r].c
    IN /\ exec[r].at = "located" /\ lease = None /\ IdentityCurrent(c) /\ Fault
       /\ ClaimAs(c, "pre_publish")
       /\ Refused(r, "pre_publish")
       /\ UNCHANGED <<registered, removed, fw, row, lease, prep, expired, expiry, agentVars, down,
                      up, got>>

\* validate_firmware_execute_under_transition.
Spendable(c) == c \in tokens /\ pending[c] = "prepared" /\ c \notin expired

ExecuteInvalid(r) ==
    LET c == exec[r].c
    IN /\ exec[r].at = "located" /\ lease = None /\ IdentityCurrent(c) /\ ~Spendable(c)
       /\ Refused(r, "invalid")
       /\ UNCHANGED <<registered, removed, fw, row, pending, tokens, claim, lease, prep, expired,
                      expiry, agentVars, down, up, got, faults>>

\* The command does not match the prepared metadata: the token is spent and the
\* command failed.
ExecuteMismatch(r) ==
    LET c == exec[r].c
    IN /\ exec[r].at = "located" /\ lease = None /\ IdentityCurrent(c) /\ Spendable(c)
       /\ ClaimAs(c, "pre_publish")
       /\ Refused(r, "invalid")
       /\ UNCHANGED <<registered, removed, fw, row, lease, prep, expired, expiry, agentVars, down,
                      up, got, faults>>

\* mark_firmware_execute_sent_on.
Recorded(c) == [row EXCEPT ![c].st = "acknowledged"]

\* begin_firmware_execute_under_transition and mark_firmware_execute_sent_on,
\* committed before anything is sent.
ExecuteBegin(r) ==
    LET c == exec[r].c
    IN /\ exec[r].at = "located" /\ lease = None /\ IdentityCurrent(c) /\ Spendable(c)
       /\ row[c].st \in {"sent", "acknowledged"}
       /\ exec' = [exec EXCEPT ![r].at = "begun"]
       /\ tokens' = tokens \ {c}
       /\ pending' = [pending EXCEPT ![c] = "executeSent"]
       /\ row' = Recorded(c)
       /\ lease' = r
       /\ UNCHANGED <<registered, removed, fw, claim, prep, expired, expiry, agentVars, down, up,
                      got, faults>>

\* The phase cannot be recorded: nothing was sent, the command is failed.  A
\* commit that failed may still have been applied.
ExecuteNotRecorded(r) ==
    LET c == exec[r].c
    IN /\ exec[r].at = "located" /\ lease = None /\ IdentityCurrent(c) /\ Spendable(c) /\ Fault
       /\ exec' = [exec EXCEPT ![r].at = "waiting"]
       /\ ClaimAs(c, "pre_publish")
       /\ row' \in {row, Recorded(c)}
       /\ UNCHANGED <<registered, removed, fw, lease, prep, expired, expiry, agentVars, down, up,
                      got>>

\* try_send of the execute; the lease goes.
ExecuteSend(r) ==
    /\ exec[r].at = "begun" /\ lease = r
    /\ exec' = [exec EXCEPT ![r].at = "waiting"]
    /\ lease' = None
    /\ down' = [down EXCEPT ![registered] =
                   IF conn[registered] = "open"
                   THEN Append(@, [k |-> "execute", c |-> exec[r].c]) ELSE @]
    /\ UNCHANGED <<registered, removed, fw, row, pending, tokens, claim, prep, expired, expiry,
                   agentVars, up, got, faults>>

\* The channel is full or closed, or the second fence cannot be acquired.
ExecuteSendFails(r) ==
    /\ exec[r].at = "begun" /\ lease = r
    /\ exec' = [exec EXCEPT ![r].at = "waiting"]
    /\ lease' = None
    /\ ClaimAs(exec[r].c, "pre_publish")
    /\ UNCHANGED <<registered, removed, fw, row, prep, expired, expiry, agentVars, down, up, got,
                   faults>>

\* The execute is sent and the fence cannot be released.
ExecuteReleaseFails(r) ==
    LET c == exec[r].c
    IN /\ exec[r].at = "begun" /\ lease = r /\ conn[registered] = "open" /\ Fault
       /\ exec' = [exec EXCEPT ![r].at = "waiting"]
       /\ lease' = None
       /\ down' = [down EXCEPT ![registered] = Append(@, [k |-> "execute", c |-> c])]
       /\ Cancel({c})
       /\ UNCHANGED <<registered, removed, fw, row, prep, expired, expiry, agentVars, up, got>>

\* ExecuteCancellationOwner: the request is dropped before or after its send.
DroppedPhase(r) == IF exec[r].at = "begun" THEN "pre_publish" ELSE CancelledPhase(exec[r].c)

ExecuteDropped(r) ==
    /\ exec[r].at \in {"located", "begun", "waiting"}
    /\ exec' = [exec EXCEPT ![r].at = "dropped"]
    /\ lease' = IF lease = r THEN None ELSE lease
    /\ IF exec[r].at = "located" THEN NoClaim ELSE ClaimAs(exec[r].c, DroppedPhase(r))
    /\ UNCHANGED <<registered, removed, fw, row, prep, expired, expiry, agentVars, down, up, got,
                   faults>>

-----------------------------------------------------------------------------
(* Agent events at the hub *)

\* firmware events of a session that is no longer registered change nothing.
Current(s, c) == registered = s /\ pending[c] # "none" /\ Owner(c) = s

\* handle_invalidated: establish_generation_if_current, then the commands of the
\* older generation are cancelled.
OnInvalidated(s, e) ==
    IF registered = s /\ (fw.session # s \/ e.g > fw.gen)
    THEN /\ fw' = [session |-> s, gen |-> e.g, rev |-> 0]
         /\ Cancel({c \in Commands : Owner(c) = s /\ row[c].gen # e.g})
         /\ UNCHANGED prep
    ELSE NoClaim /\ UNCHANGED <<fw, prep>>

Newer(s, e) == fw.session = s /\ fw.gen = e.g /\ e.r > fw.rev

\* handle_modules_snapshot: replace_modules_if_current.
OnModules(s, e) ==
    /\ fw' = IF registered = s /\ Newer(s, e) THEN [fw EXCEPT !.rev = e.r] ELSE fw
    /\ NoClaim /\ UNCHANGED prep

\* handle_prepared.
OnPrepared(s, c) ==
    /\ IF Current(s, c) /\ pending[c] = "preparing" /\ c \notin expired
       THEN /\ pending' = [pending EXCEPT ![c] = "prepared"]
            /\ prep' = [prep EXCEPT ![c] = IF @ = "waiting" THEN "ok" ELSE @]
       ELSE UNCHANGED <<pending, prep>>
    /\ UNCHANGED <<fw, tokens, claim>>

\* handle_published.
OnPublished(s, c) ==
    /\ pending' = IF Current(s, c) /\ pending[c] = "executeSent"
                  THEN [pending EXCEPT ![c] = "published"] ELSE pending
    /\ UNCHANGED <<fw, prep, tokens, claim>>

\* handle_command_ack (rejected) and handle_command_failure.
OnFailed(s, c) ==
    /\ IF Current(s, c) THEN ClaimAs(c, AgentFailurePhase(c)) ELSE NoClaim
    /\ UNCHANGED <<fw, prep>>

ResultPhase(k) == CASE k = "ack" -> "acknowledged" [] k = "reject" -> "rejected"
                    [] k = "unacked" -> "unknown"

\* handle_command_result for a control.
OnResult(s, c, k) ==
    /\ IF Current(s, c) /\ pending[c] \in {"executeSent", "published"}
       THEN ClaimAs(c, ResultPhase(k)) ELSE NoClaim
    /\ UNCHANGED <<fw, prep>>

\* handle_command_result for a refresh: the modules are stored if they are newer.
OnRefreshed(s, c, r) ==
    LET newer == Newer(s, [g |-> row[c].gen, r |-> r])
    IN /\ IF Current(s, c)
          THEN /\ ClaimAs(c, IF newer THEN "refreshed" ELSE "pre_publish")
               /\ fw' = IF newer THEN [fw EXCEPT !.rev = r] ELSE fw
          ELSE NoClaim /\ UNCHANGED fw
       /\ UNCHANGED prep

OnEvent(s, e) ==
    CASE e.k = "invalidated" -> OnInvalidated(s, e)
      [] e.k = "modules" -> OnModules(s, e)
      [] e.k = "prepared" -> OnPrepared(s, e.c)
      [] e.k = "published" -> OnPublished(s, e.c)
      [] e.k = "failed" -> OnFailed(s, e.c)
      [] e.k = "refreshed" -> OnRefreshed(s, e.c, e.r)
      [] OTHER -> OnResult(s, e.c, e.k)

\* The inbound task handles one event.
Inbound(s) ==
    /\ up[s] # <<>> /\ registered = s /\ lease = None
    /\ OnEvent(s, Head(up[s]))
    /\ up' = [up EXCEPT ![s] = Tail(@)]
    /\ UNCHANGED <<registered, removed, row, lease, exec, expired, expiry, agentVars, down, got,
                   faults>>

\* The database fails in the handler: before the claim the event is lost, after
\* it the command is cancelled; either way the stream ends.
InboundFails(s) ==
    /\ up[s] # <<>> /\ registered = s /\ lease = None /\ Fault
    /\ LET e == Head(up[s])
       IN \/ NoClaim
          \/ /\ e.k \in {"ack", "reject", "unacked", "refreshed", "failed"}
             /\ Current(s, e.c)
             /\ ClaimAs(e.c, IF e.k = "failed" THEN AgentFailurePhase(e.c) ELSE CancelledPhase(e.c))
    /\ registered' = None /\ removed' = removed \cup {s}
    /\ UNCHANGED <<fw, row, lease, prep, exec, expired, expiry, agentVars, down, up, got>>

\* fail_stale_unowned_live_commands, five minutes later.
StalePhase(c) == IF row[c].st = "acknowledged" THEN "unknown" ELSE "pre_publish"

Sweep(c) ==
    /\ Unfinished(c) /\ c \in expired /\ lease # c
    /\ pending[c] = "none" /\ claim[c] = "none"
    /\ row' = Terminal(c, StalePhase(c))
    /\ UNCHANGED <<registered, removed, fw, pending, tokens, claim, lease, prep, exec, expired,
                   expiry, agentVars, down, up, got, faults>>

-----------------------------------------------------------------------------
(* The agent *)

Send(s, e) == up' = [up EXCEPT ![s] = Append(@, e)]
Open(s) == conn[s] = "open"
Publishing == \E c \in Commands : task[c] = "publishing"
Observing == \E c \in Commands : task[c] \in {"reading", "observed"}

\* Mutant: a generation starts without the entry's transition lock.
TransitionFreeAlways == TRUE

\* entry.transition is held while a publish is under way.
TransitionFree == ~Publishing

\* begin_generation: a report stream starts, restarts or the printer is linked
\* again; reservations of the old generation go.
NewGeneration(s) ==
    /\ Open(s) /\ gen < MaxGen /\ TransitionFree
    /\ gen' = gen + 1 /\ rev' = 0 /\ reservation' = None
    /\ Send(s, [k |-> "invalidated", g |-> gen + 1, r |-> 0])
    /\ UNCHANGED <<hubVars, conn, seen, task, down, got, faults>>

\* version_observation_lease: held from the start of a refresh to its delivery.
VersionLeaseFree == ~Observing

\* commit_report_modules: committed and sent under the locks of the entry.
ReportModules(s) ==
    /\ Open(s) /\ gen > 0 /\ rev < MaxRev /\ TransitionFree /\ VersionLeaseFree
    /\ rev' = rev + 1
    /\ Send(s, [k |-> "modules", g |-> gen, r |-> rev + 1])
    /\ UNCHANGED <<hubVars, conn, gen, seen, reservation, task, down, got, faults>>

\* The command stream starts a task for the next firmware command.
AgentReceive(s) ==
    /\ Open(s) /\ down[s] # <<>>
    /\ LET m == Head(down[s]) IN task' = [task EXCEPT ![m.c] = m.k]
    /\ down' = [down EXCEPT ![s] = Tail(@)]
    /\ UNCHANGED <<hubVars, conn, gen, rev, seen, reservation, up, got, faults>>

\* prepare_firmware_control: the generation is current and nothing is reserved,
\* or what was reserved has expired.
Reservable(c) ==
    /\ row[c].gen = gen
    /\ reservation # None => ~reservation.inFlight /\ reservation.c \in expired

AgentPrepare(s, c) ==
    /\ Open(s) /\ task[c] = "prepare" /\ TransitionFree
    /\ task' = [task EXCEPT ![c] = "none"]
    /\ \/ /\ Reservable(c)
          /\ reservation' = [c |-> c, s |-> s, gen |-> gen, inFlight |-> FALSE]
          /\ Send(s, [k |-> "prepared", c |-> c])
       \/ /\ ~Reservable(c)
          /\ Send(s, [k |-> "failed", c |-> c])
          /\ UNCHANGED reservation
    /\ UNCHANGED <<hubVars, conn, gen, rev, seen, down, got, faults>>

\* claim_firmware_execute: the reservation of exactly this command.
Reserved(s, c) ==
    /\ gen = row[c].gen /\ reservation # None
    /\ reservation.c = c /\ reservation.s = s /\ ~reservation.inFlight

AgentClaim(s, c) ==
    /\ Open(s) /\ task[c] = "execute" /\ TransitionFree
    /\ \/ /\ Reserved(s, c)
          /\ reservation' = [reservation EXCEPT !.inFlight = TRUE]
          /\ task' = [task EXCEPT ![c] = "claimed"]
          /\ UNCHANGED up
       \/ \* the reservation expired meanwhile, or is not this one
          /\ ~Reserved(s, c) \/ c \in expired
          /\ reservation' = IF reservation # None /\ ~reservation.inFlight
                                 /\ reservation.c \in expired THEN None ELSE reservation
          /\ task' = [task EXCEPT ![c] = "none"]
          /\ Send(s, [k |-> "failed", c |-> c])
    /\ UNCHANGED <<hubVars, conn, gen, rev, seen, down, got, faults>>

\* FirmwareExecutionLease is dropped.
Release(c) == reservation' = IF reservation # None /\ reservation.c = c /\ reservation.inFlight
                             THEN None ELSE reservation

\* publish_transition: the reservation and the generation are checked again and
\* the entry's transition lock is kept until the publish is out.
StillReserved(c) ==
    reservation # None /\ reservation.c = c /\ reservation.inFlight /\ reservation.gen = gen

AgentTransition(s, c) ==
    /\ Open(s) /\ task[c] = "claimed" /\ TransitionFree /\ StillReserved(c)
    /\ task' = [task EXCEPT ![c] = "publishing"]
    /\ UNCHANGED <<hubVars, conn, gen, rev, seen, reservation, down, up, got, faults>>

\* The printer is unreachable, the reservation went or the pump failed before
\* the publish.
AgentFails(s, c) ==
    /\ Open(s) /\ task[c] \in {"claimed", "publishing", "refresh", "reading"}
    /\ task' = [task EXCEPT ![c] = "none"]
    /\ Release(c)
    /\ Send(s, [k |-> "failed", c |-> c])
    /\ UNCHANGED <<hubVars, conn, gen, rev, seen, down, got, faults>>

\* Outgoing::Publish: the transition lock goes, the phase is forwarded.
AgentPublish(s, c) ==
    /\ Open(s) /\ task[c] = "publishing"
    /\ got' = [got EXCEPT ![c] = @ + 1]
    /\ task' = [task EXCEPT ![c] = "published"]
    /\ Send(s, [k |-> "published", c |-> c])
    /\ UNCHANGED <<hubVars, conn, gen, rev, seen, reservation, down, faults>>

\* wait_matching_report: an acknowledgement, a rejection, or none in time.
AgentReport(s, c) ==
    /\ Open(s) /\ task[c] = "published"
    /\ \E k \in {"ack", "reject", "unacked"} : Send(s, [k |-> k, c |-> c])
    /\ task' = [task EXCEPT ![c] = "none"]
    /\ Release(c)
    /\ UNCHANGED <<hubVars, conn, gen, rev, seen, down, got, faults>>

\* refresh_firmware_version_with_connector takes the lease and asks the printer.
AgentRefresh(s, c) ==
    /\ Open(s) /\ task[c] = "refresh" /\ VersionLeaseFree /\ gen = row[c].gen
    /\ task' = [task EXCEPT ![c] = "reading"]
    /\ UNCHANGED <<hubVars, conn, gen, rev, seen, reservation, down, up, got, faults>>

\* commit_modules of its answer, in the generation it was asked in.
AgentObserve(s, c) ==
    /\ Open(s) /\ task[c] = "reading" /\ TransitionFree
    /\ gen = row[c].gen /\ rev < MaxRev
    /\ rev' = rev + 1
    /\ seen' = rev + 1
    /\ task' = [task EXCEPT ![c] = "observed"]
    /\ UNCHANGED <<hubVars, conn, gen, reservation, down, up, got, faults>>

\* FirmwareModulesDelivery is sent, then the lease goes.
AgentDeliver(s, c) ==
    /\ Open(s) /\ task[c] = "observed"
    /\ Send(s, [k |-> "refreshed", c |-> c, r |-> seen])
    /\ task' = [task EXCEPT ![c] = "none"]
    /\ UNCHANGED <<hubVars, conn, gen, rev, seen, reservation, down, got, faults>>

\* The reverse session ends: tasks and pumps are aborted and joined, then its
\* reservation goes (cancel_firmware_session).
AgentEnds(s) ==
    /\ Open(s)
    /\ conn' = [conn EXCEPT ![s] = "ended"]
    /\ task' = [c \in Commands |-> "none"]
    /\ down' = [down EXCEPT ![s] = <<>>]
    /\ reservation' = IF reservation # None /\ reservation.s = s THEN None ELSE reservation
    /\ UNCHANGED <<hubVars, gen, rev, seen, up, got, faults>>

-----------------------------------------------------------------------------
HubSession(s) == Connect(s) \/ RemoveSession(s) \/ CancelSession(s) \/ Inbound(s) \/ InboundFails(s)
HubCommand(c) ==
    \/ CreateCommand(c) \/ DispatchCommand(c) \/ DispatchRefused(c) \/ DispatchAbandoned(c)
    \/ PrepareDropped(c) \/ LifetimePasses(c) \/ ExpirePrepare(c) \/ ExpireUnregistered(c)
    \/ Finish(c) \/ FinishFails(c) \/ Sweep(c)
HubRequest(r) ==
    \/ \E c \in Commands : ExecuteLocate(r, c)
    \/ ExecuteUnavailable(r) \/ ExecuteFenceFails(r) \/ ExecuteInvalid(r) \/ ExecuteMismatch(r)
    \/ ExecuteBegin(r) \/ ExecuteNotRecorded(r) \/ ExecuteSend(r) \/ ExecuteSendFails(r)
    \/ ExecuteReleaseFails(r) \/ ExecuteDropped(r)
Agent(s) ==
    \/ NewGeneration(s) \/ ReportModules(s) \/ AgentReceive(s) \/ AgentEnds(s)
    \/ \E c \in Commands : \/ AgentPrepare(s, c) \/ AgentClaim(s, c) \/ AgentTransition(s, c)
                           \/ AgentFails(s, c) \/ AgentPublish(s, c) \/ AgentReport(s, c)
                           \/ AgentRefresh(s, c) \/ AgentObserve(s, c)
                           \/ AgentDeliver(s, c)

Next ==
    \/ \E s \in Sessions : HubSession(s) \/ Agent(s)
    \/ \E c \in Commands : HubCommand(c)
    \/ \E r \in Requests : HubRequest(r)
    \/ Crash

Spec == Init /\ [][Next]_vars

\* Timers fire, the drains of removed sessions run, claims are finished and the
\* sweep repeats; a request that holds the lease goes on or is dropped.
Fairness ==
    /\ \A s \in Sessions : WF_vars(CancelSession(s))
    /\ \A c \in Commands :
         /\ WF_vars(LifetimePasses(c)) /\ SF_vars(ExpirePrepare(c))
         /\ WF_vars(ExpireUnregistered(c)) /\ WF_vars(Finish(c)) /\ WF_vars(Sweep(c))
         /\ WF_vars(DispatchCommand(c) \/ DispatchAbandoned(c) \/ DispatchRefused(c))
    /\ \A r \in Requests : WF_vars(ExecuteSend(r) \/ ExecuteSendFails(r))
FairSpec == Spec /\ Fairness

-----------------------------------------------------------------------------
(* Properties *)

\* A control the printer received is never recorded or answered as failed before
\* publish, and an outcome that claims the printer's answer has reached it
\* (firmware_control/lifecycle.rs finish_cancelled_commands, finish_agent_failure).
HonestOutcome ==
    \A c \in Controls :
        /\ got[c] > 0 => row[c].phase # "pre_publish"
        /\ got[c] > 0 => \A r \in Requests :
                            exec[r].c = c => exec[r].answer # "pre_publish"
        /\ row[c].phase \in {"acknowledged", "rejected"} => got[c] > 0

\* However requests, sessions and generations interleave, a control is executed at
\* most once: one execute on its way, at the agent or delivered to the printer,
\* because the token is spent once (firmware_control/execute.rs).
AtMostOnce ==
    \A c \in Controls :
        LET sent == {x \in UNION {{s} \X DOMAIN down[s] : s \in Sessions} :
                       down[x[1]][x[2]] = [k |-> "execute", c |-> c]}
            held == IF task[c] \in {"execute", "claimed", "publishing"} THEN 1 ELSE 0
        IN Cardinality(sent) + held + got[c] <= 1

\* What a request was told is what the ledger says, unless it was told that the
\* outcome is unknown (firmware_control/lifecycle.rs finish).
AnswerIsRecorded ==
    \A r \in Requests :
        exec[r].answer \in {"acknowledged", "rejected"} =>
            row[exec[r].c].phase = exec[r].answer

\* The printer gets a control only in the generation it was prepared for and while
\* its reverse session is open: the reservation is checked under the lock a new
\* generation needs (machine/firmware/control.rs publish_transition).
PublishedInItsGenerationStep ==
    \A c \in Controls : got'[c] # got[c] =>
       gen = row[c].gen /\ conn[row[c].owner] = "open"
PublishedInItsGeneration == [][PublishedInItsGenerationStep]_vars

\* The module revisions of a generation travel to the hub in order, refresh
\* results and report snapshots alike, so a fresh result is never stale
\* (machine/firmware/types.rs FirmwareModulesDelivery).
RevisionsInOrder ==
    \A s \in Sessions : \A i, j \in DOMAIN up[s] :
        LET Rev(e) == CASE e.k = "modules" -> <<e.g, e.r>>
                        [] e.k = "refreshed" -> <<row[e.c].gen, e.r>>
                        [] OTHER -> <<0, 0>>
        IN i < j /\ Rev(up[s][i])[1] = Rev(up[s][j])[1] /\ Rev(up[s][i])[1] # 0
               => Rev(up[s][i])[2] < Rev(up[s][j])[2]

\* A prepared control does not stay sent, and a command whose session is gone gets
\* a terminal row, whatever was lost on the way: by its owner, by the expiry task
\* or by the sweep (firmware_control/prepare.rs, repositories/commands/transitions.rs).
CommandsEnd ==
    \A c \in Commands :
        /\ (c \in Controls /\ row[c].st = "sent") ~> (row[c].st # "sent")
        /\ (Unfinished(c) /\ registered # Owner(c)) ~> ~Unfinished(c)
==============================================================================
