--------------------------- MODULE ErrorRecovery ---------------------------
(***************************************************************************)
(* Print errors and their native recovery.  The hub merges the printer's    *)
(* reports into the printer row, numbers the tasks and the occurrences of   *)
(* an error it sees (repositories/printers/live_status/merge.rs), and lets  *)
(* a browser answer the occurrence it was shown, or a Studio plugin answer  *)
(* the error it knows, one answer at a time                                *)
(* (repositories/commands/audit/printer_operations).  The life of the       *)
(* command after its dispatch is LiveCommands; here it is kept coarse.      *)
(* Subtask ids, progress, names and HMS lists are left out: the subtask id  *)
(* is one more identity slot that treats "0" as the task id does.           *)
(***************************************************************************)
EXTENDS Integers, Sequences, FiniteSets

CONSTANTS
    Users,       \* browsers
    Plugins,     \* Studio plugins with a request to make
    Errors,      \* error codes the printer raises, of Mismatch, Offset, Encoder, Other
    Tasks,       \* task ids the printer reports; UntrustedTask for a LAN print
    Files,       \* gcode files
    Jobs,        \* printer job ids
    Family,      \* the first three letters of the serial
    NoVal,       \* an absent value
    MaxStarts,   \* bound: prints
    MaxEpisodes, \* bound: errors raised
    MaxSessions, \* bound: connections of the agent
    MaxGaps,     \* bound: losses of the agent's connection to the printer
    MaxInbox,    \* bound: reports on their way
    MaxCommands  \* bound: recoveries created

Mismatch == 1
Offset == 2
Encoder == 3
Other == 4
UntrustedTask == 0
SupportedFamilies == {"093", "094", "20P", "22E", "239", "31B"}
Actions == {"Resume", "Ignore", "Stop"}

RecoveryAssumption ==
    /\ Errors \subseteq {Mismatch, Offset, Encoder, Other}
    /\ Tasks \subseteq Nat /\ NoVal \notin Tasks \cup Files \cup Jobs
    /\ {MaxStarts, MaxEpisodes, MaxSessions, MaxGaps, MaxInbox, MaxCommands} \subseteq Nat

VARIABLES
    pr,      \* the printer: what its reports carry, and how often it started and failed
    away,    \* [on: the agent has lost the printer, left: how often it still may]
    inbox,   \* reports of each session on their way to the hub
    sess,    \* [hub: the registered session or 0, agent: the agent's stream is open, last]
    row,     \* PrinterLiveStatus of the printer row
    coarse,  \* the row's status counts as active
    known,   \* history: print and error of the last merged report, and of the last full one
    view,    \* what each browser was shown
    token,   \* the session each plugin request read
    cmds,    \* HandlePrintError rows, in the order of their creation
    exec     \* recoveries the agent executes

vars == <<pr, away, inbox, sess, row, coarse, known, view, token, cmds, exec>>

Slots == {"task", "file"}
Reported == {"task", "file", "st", "err", "job", "attr"}
States == {"PREPARE", "RUNNING", "PAUSE", "FINISH", "FAILED", "IDLE"}
Opt(S) == S \cup {NoVal}
Patches == [task : Opt(Tasks), file : Opt(Files), st : Opt(States),
            err : Opt(Errors \cup {0}), job : Opt(Jobs), attr : Opt({"go", "busy"})]
Unfinished(c) == c.st \in {"sent", "acknowledged"}

\* Every variable has its type.
TypeOK ==
    /\ \E e \in 0..MaxEpisodes, n \in 0..MaxStarts : pr.ep = e /\ pr.starts = n
    /\ [f \in Reported |-> pr[f]] \in Patches
    /\ away \in [on : BOOLEAN, left : 0..MaxGaps]
    /\ \A s \in 1..MaxSessions :
          /\ Len(inbox[s]) <= MaxInbox
          /\ \A i \in 1..Len(inbox[s]) : inbox[s][i].patch \in Patches
    /\ sess.hub \in 0..MaxSessions /\ sess.agent \in BOOLEAN /\ sess.last \in 0..MaxSessions
    /\ [f \in Reported |-> row[f]] \in Patches
    /\ row.tg \in Nat /\ row.eg \in Nat
    /\ row.etg \in Opt(Nat) /\ row.esess \in Opt(1..MaxSessions)
    /\ coarse \in BOOLEAN
    /\ token \in [Plugins -> 0..MaxSessions]
    /\ \A i \in 1..Len(cmds) :
          /\ cmds[i].st \in {"sent", "acknowledged", "succeeded", "failed"}
          /\ cmds[i].at \in {"request", "pending", "taken", "none"}
    /\ exec \subseteq 1..MaxCommands

Init ==
    /\ pr = [task |-> NoVal, file |-> NoVal, st |-> "IDLE", err |-> 0, job |-> NoVal,
             attr |-> NoVal, ep |-> 0, starts |-> 0]
    /\ away = [on |-> FALSE, left |-> MaxGaps]
    /\ inbox = [s \in 1..MaxSessions |-> <<>>]
    /\ sess = [hub |-> 0, agent |-> FALSE, last |-> 0]
    /\ row = [task |-> NoVal, file |-> NoVal, st |-> NoVal, err |-> NoVal, job |-> NoVal,
              attr |-> NoVal, tg |-> 0, eg |-> 0, etg |-> NoVal, esess |-> NoVal]
    /\ coarse = FALSE
    /\ known = [ep |-> 0, start |-> 0, full |-> <<0, 0>>]
    /\ view = [u \in Users |-> NoVal]
    /\ token = [p \in Plugins |-> 0]
    /\ cmds = <<>>
    /\ exec = {}

commandVars == <<view, token, cmds, exec>>

-----------------------------------------------------------------------------
(* Merging a report into the row *)

Classify(st) == CASE st \in {"PREPARE", "RUNNING", "PAUSE"} -> "live"
                  [] st \in {"FINISH", "FAILED"} -> "terminal"
                  [] st = "IDLE" -> "idle"
                  [] OTHER -> "unknown"

TrustedIdentity(slot, value) == value # NoVal /\ (slot = "task" => value # UntrustedTask)

IdentityRelation(stored, patch) ==
    LET had == {k \in Slots : TrustedIdentity(k, stored[k])}
        has == {k \in Slots : TrustedIdentity(k, patch[k])} IN
    CASE \E k \in had \cap has : stored[k] # patch[k] -> "boundary"
      [] had # {} /\ has # {} /\ had \cap has = {} -> "ambiguous"
      [] OTHER -> "continuous"

StateBoundary(stored, patch) ==
    Classify(stored.st) \in {"idle", "terminal"} /\ Classify(patch.st) = "live"

HasInitialEvidence(patch) ==
    \/ \E k \in Slots : TrustedIdentity(k, patch[k])
    \/ Classify(patch.st) \in {"live", "terminal"}

ClearErrorMarker(r) == [r EXCEPT !.etg = NoVal, !.esess = NoVal]
InvalidateRecovery(r) == ClearErrorMarker([r EXCEPT !.job = NoVal, !.attr = NoVal])
ClearTaskState(r) ==
    InvalidateRecovery([r EXCEPT !.task = NoVal, !.file = NoVal, !.err = NoVal])

Apply(r, patch, fields) ==
    [f \in DOMAIN r |-> IF f \in fields /\ patch[f] # NoVal THEN patch[f] ELSE r[f]]

ErrorMarkerIsValid(r, s) == r.etg = r.tg /\ r.esess = s

\* Mutant: a cleared error keeps its occurrence when it comes back.
OccurrenceChangedByIdentity(r, stored, patch, s) ==
    \/ r.tg # stored.tg
    \/ patch.job # NoVal /\ stored.job # patch.job

\* A new occurrence of the error a report carries: another error, another
\* task or job, or a marker that is not this task's and this session's.
OccurrenceChanged(r, stored, patch, s) ==
    \/ stored.err # patch.err
    \/ r.tg # stored.tg
    \/ patch.job # NoVal /\ stored.job # patch.job
    \/ ~ErrorMarkerIsValid(r, s)

MergeErrorAndRecovery(r, stored, patch, s) ==
    LET jobChanged == patch.job # NoVal /\ stored.job # patch.job
        kept == IF ErrorMarkerIsValid(r, s) THEN r
                ELSE [r EXCEPT !.job = NoVal, !.attr = NoVal]
        merged ==
          CASE patch.err = 0 -> [ClearErrorMarker(r) EXCEPT !.err = 0]
            [] patch.err = NoVal ->
                 [r EXCEPT !.eg = IF r.err \in Errors /\ (r.tg # stored.tg \/ jobChanged)
                                  THEN @ + 1 ELSE @]
            [] OTHER ->
                 [kept EXCEPT !.eg = IF OccurrenceChanged(r, stored, patch, s)
                                     THEN @ + 1 ELSE @,
                              !.err = patch.err, !.etg = r.tg, !.esess = s]
    IN  Apply(merged, patch, {"job", "attr"})

\* The task the report belongs to: the row's, the first one, or the next.
OfTask(stored, patch) ==
    LET relation == IdentityRelation(stored, patch)
        next == relation = "boundary" \/ StateBoundary(stored, patch)
        first == IF stored.tg = 0 /\ HasInitialEvidence(patch)
                 THEN [stored EXCEPT !.tg = 1] ELSE stored IN
    CASE stored.tg > 0 /\ next -> ClearTaskState([stored EXCEPT !.tg = @ + 1])
      [] relation = "ambiguous" -> InvalidateRecovery(first)
      [] OTHER -> first

MergeLiveReport(stored, patch, s) ==
    IF Classify(patch.st) = "idle" THEN [ClearTaskState(stored) EXCEPT !.st = "IDLE"]
    ELSE MergeErrorAndRecovery(Apply(OfTask(stored, patch), patch, {"task", "file", "st"}),
                               stored, patch, s)

-----------------------------------------------------------------------------
(* The printer and the agent's reports *)

Full(p) == [f \in Reported |-> p[f]]
Delta(old, new) == [f \in Reported |-> IF old[f] = new[f] THEN NoVal ELSE new[f]]

Send(patch, p, full) ==
    IF sess.agent /\ ~away.on
    THEN /\ Len(inbox[sess.last]) < MaxInbox
         /\ inbox' = [inbox EXCEPT ![sess.last] =
               Append(@, [patch |-> patch, ep |-> p.ep, start |-> p.starts, full |-> full])]
    ELSE UNCHANGED inbox

Becomes(p) ==
    /\ pr' = p
    /\ Send(Delta(pr, p), p, FALSE)
    /\ UNCHANGED <<away, sess, row, coarse, known, commandVars>>

\* Two prints in a row differ in something the hub can compare.
PrinterStarts(t, f, j) ==
    /\ pr.starts < MaxStarts /\ Classify(pr.st) \in {"idle", "terminal"}
    /\ \/ TrustedIdentity("task", t) /\ TrustedIdentity("task", pr.task) /\ t # pr.task
       \/ f # pr.file
       \/ j # pr.job
    /\ Becomes([pr EXCEPT !.task = t, !.file = f, !.job = j, !.attr = "go", !.st = "PREPARE",
                          !.err = 0, !.starts = @ + 1])

PrinterRaises(e) ==
    /\ pr.ep < MaxEpisodes /\ Classify(pr.st) = "live" /\ pr.err = 0
    /\ Becomes([pr EXCEPT !.err = e, !.st = "PAUSE", !.ep = @ + 1])

PrinterClears ==
    /\ pr.err # 0
    /\ Becomes([pr EXCEPT !.err = 0, !.st = "RUNNING"])

PrinterAttr ==
    /\ Classify(pr.st) = "live" /\ pr.err # 0
    /\ Becomes([pr EXCEPT !.attr = IF @ = "go" THEN "busy" ELSE "go"])

PrinterEnds ==
    /\ Classify(pr.st) = "live"
    /\ Becomes([pr EXCEPT !.err = 0, !.st = IF pr.err = 0 THEN "FINISH" ELSE "FAILED"])

PrinterIdles ==
    /\ Classify(pr.st) = "terminal"
    /\ Becomes([pr EXCEPT !.st = "IDLE"])

\* pushall
PrinterRefreshes ==
    /\ sess.agent /\ ~away.on
    /\ Send(Full(pr), pr, TRUE)
    /\ UNCHANGED <<pr, away, sess, row, coarse, known, commandVars>>

PrinterLost ==
    /\ ~away.on /\ away.left > 0
    /\ away' = [on |-> TRUE, left |-> away.left - 1]
    /\ UNCHANGED <<pr, inbox, sess, row, coarse, known, commandVars>>

PrinterBack ==
    /\ away.on /\ sess.agent /\ Len(inbox[sess.last]) < MaxInbox
    /\ away' = [away EXCEPT !.on = FALSE]
    /\ inbox' = [inbox EXCEPT ![sess.last] =
          Append(@, [patch |-> Full(pr), ep |-> pr.ep, start |-> pr.starts, full |-> TRUE])]
    /\ UNCHANGED <<pr, sess, row, coarse, known, commandVars>>

-----------------------------------------------------------------------------
(* The agent's connection *)

\* A browser's request holds the transition lease from its token to its dispatch.
LeaseFree == \A i \in 1..Len(cmds) : ~(cmds[i].web /\ cmds[i].at = "request")

\* The agent opens a stream once the last one ended and its worker was awaited.
AgentMayConnect == ~sess.agent

Connect ==
    /\ AgentMayConnect /\ sess.last < MaxSessions /\ LeaseFree
    /\ sess' = [hub |-> sess.last + 1, agent |-> TRUE, last |-> sess.last + 1]
    /\ inbox' = IF away.on THEN inbox ELSE [inbox EXCEPT ![sess.last + 1] =
          <<[patch |-> Full(pr), ep |-> pr.ep, start |-> pr.starts, full |-> TRUE]>>]
    /\ UNCHANGED <<pr, away, row, coarse, known, commandVars>>

StreamEnds ==
    /\ sess.agent
    /\ sess' = [sess EXCEPT !.agent = FALSE]
    /\ exec' = {}
    /\ UNCHANGED <<pr, away, inbox, row, coarse, known, view, token, cmds>>

\* The hub's end of the stream, or the expiry of a silent session.
HubRemoves ==
    /\ sess.hub # 0 /\ LeaseFree
    /\ sess' = [sess EXCEPT !.hub = 0]
    /\ UNCHANGED <<pr, away, inbox, row, coarse, known, commandVars>>

\* handle_print_report under the lease; a report of a session that is not
\* current is refused by the transaction.
ApplyCurrentPrintReport(s) ==
    /\ inbox[s] # <<>> /\ LeaseFree
    /\ inbox' = [inbox EXCEPT ![s] = Tail(@)]
    /\ LET report == Head(inbox[s]) IN
       IF s = sess.hub
       THEN /\ row' = MergeLiveReport(row, report.patch, s)
            /\ known' = [ep |-> report.ep, start |-> report.start,
                         full |-> IF report.full THEN <<s, report.ep>> ELSE known.full]
       ELSE UNCHANGED <<row, known>>
    /\ UNCHANGED <<pr, away, sess, coarse, commandVars>>

\* A printer snapshot sets the row's status to the printer's of the moment.
Snapshot ==
    /\ sess.hub # 0 /\ LeaseFree
    /\ coarse' = (Classify(pr.st) = "live")
    /\ UNCHANGED <<pr, away, inbox, sess, row, known, commandVars>>

-----------------------------------------------------------------------------
(* Recovery *)

Supports(err, action) ==
    /\ Family \in SupportedFamilies
    /\ CASE err = Mismatch -> TRUE
         [] err = Offset -> action # "Stop"
         [] err = Encoder -> Family # "22E" /\ action # "Stop"
         [] OTHER -> FALSE

ValidatePrinter(generation, s, action) ==
    /\ row.err # NoVal
    /\ generation = row.eg
    /\ row.etg = row.tg /\ row.esess = s
    /\ Classify(row.st) = "live" /\ coarse
    /\ Supports(row.err, action)
    /\ action \in {"Resume", "Ignore"} => row.attr = "go"

NoInflight == \A i \in 1..Len(cmds) : ~Unfinished(cmds[i])

Look(u) ==
    /\ row.err \in Errors
    /\ view' = [view EXCEPT ![u] = [eg |-> row.eg, err |-> row.err, job |-> row.job,
                                    ep |-> known.ep, start |-> known.start]]
    /\ UNCHANGED <<pr, away, inbox, sess, row, coarse, known, token, cmds, exec>>

PersistSent(c) ==
    /\ Len(cmds) < MaxCommands
    /\ cmds' = Append(cmds, c)

CreateWebPrintErrorSent(u, action) ==
    /\ view[u] # NoVal /\ sess.hub # 0 /\ LeaseFree
    /\ ValidatePrinter(view[u].eg, sess.hub, action)
    /\ NoInflight
    /\ PersistSent([web |-> TRUE, st |-> "sent", at |-> "request", session |-> sess.hub,
                    err |-> row.err, job |-> row.job, ep |-> known.ep, start |-> known.start,
                    seen |-> view[u]])
    /\ UNCHANGED <<pr, away, inbox, sess, row, coarse, known, view, token, exec>>

PluginToken(p) ==
    /\ sess.hub # 0 /\ token[p] = 0
    /\ token' = [token EXCEPT ![p] = sess.hub]
    /\ UNCHANGED <<pr, away, inbox, sess, row, coarse, known, view, cmds, exec>>

\* create_printer_operation_sent_with_audit: refused while a recovery is in flight.
CreatePrinterOperationSent(p, e) ==
    /\ token[p] # 0
    /\ token' = [token EXCEPT ![p] = 0]
    /\ NoInflight
    /\ PersistSent([web |-> FALSE, st |-> "sent", at |-> "request", session |-> token[p],
                    err |-> e, job |-> NoVal, ep |-> 0, start |-> 0, seen |-> NoVal])
    /\ UNCHANGED <<pr, away, inbox, sess, row, coarse, known, view, exec>>

PluginRefused(p) ==
    /\ token[p] # 0 /\ ~NoInflight
    /\ token' = [token EXCEPT ![p] = 0]
    /\ UNCHANGED <<pr, away, inbox, sess, row, coarse, known, view, cmds, exec>>

\* dispatch_persisted_live_command, or fail_live_dispatch: the session is not
\* current, or its channel is closed or full.
Dispatch(i) ==
    /\ cmds[i].at = "request"
    /\ \/ sess.hub = cmds[i].session /\ cmds' = [cmds EXCEPT ![i].at = "pending"]
       \/ cmds' = [cmds EXCEPT ![i].at = "none", ![i].st = "failed"]
    /\ UNCHANGED <<pr, away, inbox, sess, row, coarse, known, view, token, exec>>

\* The request is dropped before its dispatch, or its failure is not recorded.
RequestLost(i) ==
    /\ cmds[i].at = "request"
    /\ cmds' = [cmds EXCEPT ![i].at = "none"]
    /\ UNCHANGED <<pr, away, inbox, sess, row, coarse, known, view, token, exec>>

AgentTakes(i) ==
    /\ cmds[i].at = "pending" /\ sess.agent /\ sess.last = cmds[i].session
    /\ exec' = exec \cup {i}
    /\ cmds' = [cmds EXCEPT ![i].at = "taken",
                            ![i].st = IF sess.hub = cmds[i].session THEN "acknowledged" ELSE @]
    /\ UNCHANGED <<pr, away, inbox, sess, row, coarse, known, view, token>>

AgentFinishes(i) ==
    /\ i \in exec
    /\ exec' = exec \ {i}
    /\ \E st \in {"succeeded", "failed"} :
          cmds' = IF sess.hub = cmds[i].session
                  THEN [cmds EXCEPT ![i].at = "none", ![i].st = st] ELSE cmds
    /\ UNCHANGED <<pr, away, inbox, sess, row, coarse, known, view, token>>

\* fail_pending_live_commands of the session that left the registry, or the
\* stale sweep for what nobody owns.
FailUnowned(i) ==
    /\ Unfinished(cmds[i])
    /\ \/ cmds[i].at = "none"
       \/ cmds[i].at \in {"pending", "taken"} /\ cmds[i].session # sess.hub
    /\ cmds' = [cmds EXCEPT ![i].at = "none", ![i].st = "failed"]
    /\ UNCHANGED <<pr, away, inbox, sess, row, coarse, known, view, token, exec>>

-----------------------------------------------------------------------------

PrintStep ==
    \/ \E t \in Tasks, f \in Files, j \in Jobs : PrinterStarts(t, f, j)
    \/ \E e \in Errors : PrinterRaises(e)
    \/ PrinterClears \/ PrinterEnds \/ PrinterIdles \/ PrinterRefreshes
    \/ PrinterLost \/ PrinterBack

PrinterStep == PrintStep \/ PrinterAttr

SessionStep ==
    \/ Connect \/ StreamEnds \/ HubRemoves \/ Snapshot
    \/ \E s \in 1..MaxSessions : ApplyCurrentPrintReport(s)

CommandStep(i) ==
    Dispatch(i) \/ RequestLost(i) \/ AgentTakes(i) \/ AgentFinishes(i) \/ FailUnowned(i)

RecoveryStep ==
    \/ \E u \in Users : Look(u) \/ \E a \in Actions : CreateWebPrintErrorSent(u, a)
    \/ \E p \in Plugins :
          \/ PluginToken(p) \/ PluginRefused(p)
          \/ \E e \in Errors : CreatePrinterOperationSent(p, e)
    \/ \E i \in 1..Len(cmds) : CommandStep(i)

Next == PrinterStep \/ SessionStep \/ RecoveryStep

Spec == Init /\ [][Next]_vars

\* What a recovery answers is settled when it is created: what happens after
\* that is left out.
BrowserStep == \E u \in Users : Look(u) \/ \E a \in Actions : CreateWebPrintErrorSent(u, a)
OccurrenceStep == cmds = <<>> /\ (PrinterStep \/ SessionStep \/ BrowserStep)

\* Which print it answers does not depend on the attributes reported with the error.
GapStep == cmds = <<>> /\ (PrintStep \/ SessionStep \/ BrowserStep)

OccurrenceSpec == Init /\ [][OccurrenceStep]_vars

\* How recoveries overlap depends on the connection: the printer raises its
\* error and keeps it.
StuckPrinterStep ==
    \/ \E t \in Tasks, f \in Files, j \in Jobs : PrinterStarts(t, f, j)
    \/ \E e \in Errors : PrinterRaises(e)

OverlapStep == StuckPrinterStep \/ SessionStep \/ RecoveryStep

OverlapSpec == Init /\ [][OverlapStep]_vars

\* The request runs on, the agent's worker and its stream make progress, and
\* the hub's drains and sweep come round.
Progress(i) ==
    /\ i <= Len(cmds)
    /\ Dispatch(i) \/ AgentTakes(i) \/ AgentFinishes(i) \/ FailUnowned(i)

RemovesLost == ~sess.agent /\ HubRemoves

FairSpec ==
    /\ OverlapSpec
    /\ \A i \in 1..MaxCommands : WF_vars(Progress(i))
    /\ WF_vars(RemovesLost)

-----------------------------------------------------------------------------
(* Properties *)

\* A recovery a browser starts answers the error, of the print and of the
\* job, that the browser was shown: not another print's, not the same code
\* raised again (web_recovery.rs, recovery.rs validate_printer).  It needs every
\* change of the printer to be reported or to fall between two sessions.
AnswersTheErrorSeen ==
    \A i \in 1..Len(cmds) : cmds[i].web =>
       /\ cmds[i].ep = cmds[i].seen.ep
       /\ cmds[i].err = cmds[i].seen.err /\ cmds[i].job = cmds[i].seen.job

\* Also when the agent lost the printer for a while and missed what happened
\* in between, the recovery is for the print the browser was shown.
AnswersThePrintSeen ==
    \A i \in 1..Len(cmds) : cmds[i].web => cmds[i].start = cmds[i].seen.start

\* Once a full report of the error reached the hub in this session, the
\* occurrence the row shows can be answered: no later report of the same
\* error takes the marker away.
Recoverable ==
    (/\ sess.hub # 0 /\ inbox[sess.hub] = <<>> /\ sess.agent /\ ~away.on
     /\ known.full = <<sess.hub, pr.ep>>
     /\ pr.err # 0 /\ Classify(pr.st) = "live" /\ coarse)
    => \A a \in Actions :
          Supports(pr.err, a) /\ (a # "Stop" => pr.attr = "go")
          => ValidatePrinter(row.eg, sess.hub, a)

\* The agent never executes two native recoveries of one printer at a time,
\* whoever asked for them and whatever happened to the connection
\* (docs/architecture.md: the single-flight keeps them from overlapping).
NativeOperationsDoNotOverlap == Cardinality(exec) <= 1

\* Every recovery ends, so none blocks the printer's next one for ever.
RecoveryEnds ==
    \A i \in 1..MaxCommands :
       (i <= Len(cmds) /\ Unfinished(cmds[i])) ~> (i <= Len(cmds) /\ ~Unfinished(cmds[i]))

=============================================================================
