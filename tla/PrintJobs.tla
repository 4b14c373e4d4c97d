----------------------------- MODULE PrintJobs -----------------------------
(***************************************************************************)
(* The print jobs of one printer: a job row has a dispatch status, which   *)
(* follows its current print_project_file command, and a print status,     *)
(* which follows the printer's MQTT reports.  The rows are written by the   *)
(* dispatch of the command, by recovery requests (retry, reprint,           *)
(* duplicate), by cancellation, by the stall sweep, by clearing and by the  *)
(* reports of any replica.  A transaction that reads and later writes is    *)
(* two actions, as PostgreSQL's READ COMMITTED lets the others in between;  *)
(* repositories/jobs/ is the source.  Layers behave as percentages do and   *)
(* are left out.                                                           *)
(***************************************************************************)
EXTENDS Naturals, FiniteSets

CONSTANTS
    MaxJobs,      \* last submission id the sequence hands out
    MaxCommands,  \* bound: command rows ever inserted
    MaxPercent,   \* bound: reported percentages
    Workers,      \* HTTP requests in progress
    Replicas,     \* inbound tasks that can apply a report
    ReportKinds,  \* how reports name their print: by "job", "task", ...
    MaxReports,   \* bound: reports applied
    SweepBatch    \* STALL_SWEEP_BATCH_SIZE

JobBounds ==
    /\ MaxJobs \in Nat /\ MaxCommands \in Nat /\ MaxReports \in Nat
    /\ MaxPercent \in Nat \ {0} /\ SweepBatch \in Nat \ {0}
    /\ ReportKinds \subseteq {"job", "task", "artifact", "file"}

VARIABLES
    job,       \* jobs rows
    cmd,       \* commands rows of kind print_project_file
    lastId,    \* studio_submission_sequences.last_id
    nextCmd,   \* command rows inserted so far
    tx,        \* what a request has read and not yet written
    rep,       \* what a report transaction has read and not yet written
    events,    \* print_terminal machine events, by job and status
    usage,     \* jobs with filament-usage rows
    reports    \* reports begun

vars == <<job, cmd, lastId, nextCmd, tx, rep, events, usage, reports>>

JobIds == 1..MaxJobs
CmdIds == 1..MaxCommands
Percents == 0..MaxPercent
Statuses == {"queued", "sent", "acknowledged", "succeeded", "failed", "cancelled"}
Dispatched == {"succeeded", "failed", "cancelled"}
PrintStatuses == {"pending", "stalled", "running", "completed", "failed", "cancelled"}
Finished == {"completed", "failed", "cancelled"}
Unknown == MaxPercent + 1

\* What a report says: which job it names and how, the printer's state and
\* its percentage (Unknown: the field is absent).
Report == [by : ReportKinds, ref : JobIds,
           state : {"RUNNING", "FINISH", "FAILED", "IDLE", "PREPARE", "absent"},
           percent : Percents \cup {Unknown}]

\* The printed part of a job row that a report reads and writes.
PrintColumns == [print : PrintStatuses, started : BOOLEAN, percent : Percents,
          peak : Percents]

NoJob == [row |-> FALSE, status |-> "queued", command |-> 1, artifact |-> 1,
          print |-> "pending", started |-> FALSE, percent |-> 0, peak |-> 0]
NoCmd == [status |-> "none", owner |-> 1, aged |-> FALSE]
NoTx == [kind |-> "none", job |-> 1, command |-> 1, known |-> {}]
NoRep == [at |-> "none", job |-> 1, seen |-> "pending",
          want |-> [print |-> "pending", started |-> FALSE, percent |-> 0, peak |-> 0],
          msg |-> [by |-> "none", ref |-> 1, state |-> "absent", percent |-> Unknown]]

TypeOK ==
    /\ job \in [JobIds -> [row : BOOLEAN, status : Statuses, command : CmdIds,
                           artifact : JobIds, print : PrintStatuses,
                           started : BOOLEAN, percent : Percents, peak : Percents]]
    /\ cmd \in [CmdIds -> [status : Statuses \cup {"none"}, owner : JobIds,
                           aged : BOOLEAN]]
    /\ lastId \in 0..MaxJobs
    /\ nextCmd \in 0..MaxCommands
    /\ tx \in [Workers -> [kind : {"none", "retry", "copy", "clear"}, job : JobIds \cup {0},
                           command : CmdIds, known : SUBSET CmdIds]]
    /\ rep \in [Replicas -> [at : {"none", "write", "reread", "rewrite"},
                             job : JobIds, seen : PrintStatuses, want : PrintColumns,
                             msg : Report \cup {NoRep.msg}]]
    /\ events \subseteq JobIds \X Finished
    /\ usage \subseteq JobIds
    /\ reports \in 0..MaxReports

Init ==
    /\ job = [j \in JobIds |-> NoJob]
    /\ cmd = [c \in CmdIds |-> NoCmd]
    /\ lastId = 0
    /\ nextCmd = 0
    /\ tx = [w \in Workers |-> NoTx]
    /\ rep = [r \in Replicas |-> NoRep]
    /\ events = {}
    /\ usage = {}
    /\ reports = 0

Rows == {j \in JobIds : job[j].row}
Untouched(j) == ~job[j].started /\ job[j].percent = 0

-----------------------------------------------------------------------------
(* Creation *)

InsertCommand(c, j) == [cmd EXCEPT ![c] = [status |-> "queued", owner |-> j, aged |-> FALSE]]
NewJob(c, a) == [NoJob EXCEPT !.row = TRUE, !.command = c, !.artifact = a]

\* The sequence is bounded: last_id < 2147483647 or the request is refused.
AllocateSubmissionId == lastId < MaxJobs /\ lastId' = lastId + 1

InsertJob(j, a) ==
    /\ nextCmd < MaxCommands
    /\ AllocateSubmissionId
    /\ j = lastId + 1
    /\ nextCmd' = nextCmd + 1
    /\ cmd' = InsertCommand(nextCmd + 1, j)
    /\ job' = [job EXCEPT ![j] = NewJob(nextCmd + 1, a)]

\* An upload makes the artifact, the command and the job in one transaction.
CreatePrintJob ==
    /\ InsertJob(lastId + 1, lastId + 1)
    /\ UNCHANGED <<tx, rep, events, usage, reports>>

-----------------------------------------------------------------------------
(* Recovery requests *)

\* reprint reads its source outside the transaction that inserts the copy
\* and refuses a print that may still run; duplicate takes any job.
ReprintAllowed(j) == job[j].print \in {"stalled", "completed", "failed", "cancelled"}

CopyRead(w, j) ==
    /\ tx[w].kind = "none"
    /\ j \in Rows
    /\ tx' = [tx EXCEPT ![w] = [kind |-> "copy", job |-> j,
                                command |-> job[j].command, known |-> {}]]
    /\ UNCHANGED <<job, cmd, lastId, nextCmd, rep, events, usage, reports>>

ReprintRead(w, j) == ReprintAllowed(j) /\ CopyRead(w, j)
DuplicateRead(w, j) == CopyRead(w, j)

\* The copy refers to the artifact of its source; when the artifact went
\* away in between, the foreign key refuses the insert.
ArtifactRow(a) == \E j \in Rows : job[j].artifact = a

InsertCopy(a) == ArtifactRow(a) /\ InsertJob(lastId + 1, a)

CreateCopy(w) ==
    /\ tx[w].kind = "copy"
    /\ LET a == job[tx[w].job].artifact IN
       \/ InsertCopy(a)
       \/ ~(ArtifactRow(a) /\ lastId < MaxJobs)
          /\ UNCHANGED <<job, cmd, lastId, nextCmd>>
    /\ tx' = [tx EXCEPT ![w] = NoTx]
    /\ UNCHANGED <<rep, events, usage, reports>>

IsRetrySafe(j) ==
    /\ job[j].status = "failed"
    /\ cmd[job[j].command].status = "failed"
    /\ job[j].print = "pending"
    /\ Untouched(j)

RetryRead(w, j) ==
    /\ tx[w].kind = "none"
    /\ j \in Rows
    /\ IsRetrySafe(j)
    /\ nextCmd < MaxCommands
    /\ tx' = [tx EXCEPT ![w] = [kind |-> "retry", job |-> j,
                                command |-> job[j].command, known |-> {}]]
    /\ UNCHANGED <<job, cmd, lastId, nextCmd, rep, events, usage, reports>>

\* Mutant: the UPDATE finds its job by id alone.
RetryFilterById(w) == tx[w].job \in Rows

\* The UPDATE repeats what was read; without a row the insert is rolled back.
RetryFilter(w) ==
    LET j == tx[w].job IN
    /\ j \in Rows
    /\ job[j].command = tx[w].command
    /\ job[j].status = "failed"
    /\ job[j].print = "pending"
    /\ Untouched(j)

RetryWrite(w) ==
    /\ tx[w].kind = "retry"
    /\ tx' = [tx EXCEPT ![w] = NoTx]
    /\ LET j == tx[w].job
           c == nextCmd + 1
       IN \/ /\ RetryFilter(w) /\ nextCmd < MaxCommands
             /\ nextCmd' = c
             /\ cmd' = InsertCommand(c, j)
             /\ job' = [job EXCEPT ![j].command = c, ![j].status = "queued"]
          \/ /\ ~RetryFilter(w)
             /\ UNCHANGED <<job, cmd, nextCmd>>
    /\ UNCHANGED <<lastId, rep, events, usage, reports>>

\* Cancellation locks the command and the job and takes both out of the queue.
CancelStudioPrint(j) ==
    /\ j \in Rows
    /\ cmd[job[j].command].status = "queued"
    /\ job[j].status = "queued"
    /\ job[j].print = "pending"
    /\ cmd' = [cmd EXCEPT ![job[j].command].status = "cancelled",
                          ![job[j].command].aged = FALSE]
    /\ job' = [job EXCEPT ![j].status = "cancelled", ![j].print = "cancelled"]
    /\ UNCHANGED <<lastId, nextCmd, tx, rep, events, usage, reports>>

-----------------------------------------------------------------------------
(* Dispatch of the command *)

AllowedFrom(to) ==
    CASE to = "sent" -> {"queued"}
      [] to = "acknowledged" -> {"sent"}
      [] to = "succeeded" -> {"sent", "acknowledged"}
      [] to = "failed" -> {"queued", "sent", "acknowledged"}

\* The jobs whose current command is c and that are not dispatched yet.
JobsOfCommand(c) == {j \in Rows : job[j].command = c /\ job[j].status \notin Dispatched}

\* A repeated transition is accepted; without a job a transition that is not
\* terminal is an error and is rolled back.
TransitionPrintCommand(c, to) ==
    /\ cmd[c].status \in AllowedFrom(to) \cup {to}
    /\ JobsOfCommand(c) # {} \/ to \in Dispatched
    /\ cmd' = IF cmd[c].status \in AllowedFrom(to)
              THEN [cmd EXCEPT ![c].status = to, ![c].aged = FALSE] ELSE cmd
    /\ job' = [j \in JobIds |-> IF j \in JobsOfCommand(c)
                                THEN [job[j] EXCEPT !.status = to] ELSE job[j]]
    /\ UNCHANGED <<lastId, nextCmd, tx, rep, events, usage, reports>>

\* STALLED_JOB_AGE (15 minutes) passes since the command was last written.
CommandAges(c) ==
    /\ cmd[c].status = "succeeded" /\ ~cmd[c].aged
    /\ cmd' = [cmd EXCEPT ![c].aged = TRUE]
    /\ UNCHANGED <<job, lastId, nextCmd, tx, rep, events, usage, reports>>

-----------------------------------------------------------------------------
(* The stall sweep *)

StallCandidates ==
    {j \in Rows : /\ job[j].status = "succeeded"
                  /\ job[j].print = "pending"
                  /\ Untouched(j)
                  /\ cmd[job[j].command].status = "succeeded"
                  /\ cmd[job[j].command].aged}

\* One transaction locks a batch and marks it.
MarkStalledPendingJobs ==
    \E batch \in SUBSET StallCandidates \ {{}} :
        /\ Cardinality(batch) = SweepBatch \/ batch = StallCandidates
        /\ Cardinality(batch) <= SweepBatch
        /\ job' = [j \in JobIds |-> IF j \in batch
                                    THEN [job[j] EXCEPT !.print = "stalled"] ELSE job[j]]
        /\ UNCHANGED <<cmd, lastId, nextCmd, tx, rep, events, usage, reports>>

-----------------------------------------------------------------------------
(* Reports *)

ActivePrint == {"pending", "stalled", "running"}

\* task_id is the submission id of the print; only a dispatched, unfinished
\* job whose command result carries it can match.
JobsBySubmissionId(m) ==
    {j \in Rows : /\ m.by = "task" /\ m.ref = j
                  /\ job[j].print \in ActivePrint
                  /\ job[j].status = "succeeded"
                  /\ cmd[job[j].command].status = "succeeded"}

JobById(m) == {j \in Rows : m.by = "job" /\ m.ref = j}
SameFile(m) == {j \in Rows : job[j].artifact = job[m.ref].artifact}
JobByArtifact(m) == IF m.by = "artifact" THEN SameFile(m) ELSE {}

SingleFileMatch(m) ==
    LET running == {j \in SameFile(m) : job[j].print \in {"pending", "running"}}
        stalled == {j \in SameFile(m) : job[j].print = "stalled"}
    IN IF Cardinality(running) = 1 THEN running
       ELSE IF running = {} /\ Cardinality(stalled) = 1 THEN stalled ELSE {}

\* The jobs a report can be matched with: job id, submission id, artifact
\* (any job of it, the query has no order), file name.
CorrelateJob(m) ==
    IF JobById(m) # {} THEN JobById(m)
    ELSE IF JobsBySubmissionId(m) # {} THEN JobsBySubmissionId(m)
    ELSE IF JobByArtifact(m) # {} THEN JobByArtifact(m)
    ELSE SingleFileMatch(m)

\* The status a report asks for, given the one it finds.
IncomingStatus(m, current) ==
    CASE m.state = "RUNNING" -> "running"
      [] m.state = "FINISH" -> "completed"
      [] m.state = "FAILED" -> "failed"
      [] m.state = "IDLE" /\ current = "running" -> "cancelled"
      [] m.state = "absent" /\ current = "stalled"
         /\ m.percent \in 1..MaxPercent -> "running"
      [] OTHER -> current

ReconciledUpdate(m, j) ==
    LET status == IF job[j].print \in Finished THEN job[j].print
                  ELSE IncomingStatus(m, job[j].print)
        known == m.percent # Unknown
    IN [print |-> status,
        started |-> job[j].started \/ (status = "running" /\ job[j].print \notin Finished),
        percent |-> IF known THEN m.percent ELSE job[j].percent,
        peak |-> IF known /\ m.percent > job[j].peak THEN m.percent ELSE job[j].peak]

\* The transaction locks the printer row: one report of a printer at a time.
PrinterFree == \A r \in Replicas : rep[r].at = "none"

\* A report matched with a job is reconciled with what was read.  (A report
\* that matches none changes no job.)
ReportRead(r, m) ==
    /\ reports < MaxReports
    /\ rep[r].at = "none" /\ PrinterFree
    /\ m.ref <= lastId
    /\ reports' = reports + 1
    /\ \E j \in CorrelateJob(m) :
          rep' = [rep EXCEPT ![r] = [at |-> "write", job |-> j, msg |-> m,
                                     seen |-> job[j].print,
                                     want |-> ReconciledUpdate(m, j)]]
    /\ UNCHANGED <<job, cmd, lastId, nextCmd, tx, events, usage>>

\* Mutant: the UPDATE names the job only.
PrintFilterById(r) == rep[r].job \in Rows

\* UPDATE ... WHERE print_status = expected AND print_status not finished.
PrintFilter(r) ==
    /\ rep[r].job \in Rows
    /\ job[rep[r].job].print = rep[r].seen
    /\ job[rep[r].job].print \notin Finished

WithPrint(row, p) == [row EXCEPT !.print = p.print, !.started = p.started,
                                 !.percent = p.percent, !.peak = p.peak]

\* Usage rows are unique per job and slot, terminal events per job and status.
DeriveTerminalUsage(j) == usage \cup {j}
InsertTerminalEvent(j, status) == events \cup {<<j, status>>}

\* The row, the filament usage and the events of one report commit together.
CommitReport(r) ==
    LET j == rep[r].job
        w == rep[r].want
        ok == PrintFilter(r)
    IN /\ job' = IF ok THEN [job EXCEPT ![j] = WithPrint(job[j], w)] ELSE job
       /\ usage' = IF w.print \in Finished /\ j \in Rows
                   THEN DeriveTerminalUsage(j) ELSE usage
       /\ events' = IF ok /\ w.print \in Finished THEN InsertTerminalEvent(j, w.print)
                    ELSE events
       /\ rep' = [rep EXCEPT ![r] = NoRep]

ReportWrite(r) ==
    /\ rep[r].at = "write"
    /\ \/ PrintFilter(r) /\ CommitReport(r)
       \/ ~PrintFilter(r) /\ rep' = [rep EXCEPT ![r].at = "reread"]
          /\ UNCHANGED <<job, usage, events>>
    /\ UNCHANGED <<cmd, lastId, nextCmd, tx, reports>>

\* The row changed under the report: it is read again, once; when the job is
\* gone the whole transaction fails.
ReportReread(r) ==
    /\ rep[r].at = "reread"
    /\ LET j == rep[r].job IN
       rep' = [rep EXCEPT ![r] = IF j \in Rows
                   THEN [rep[r] EXCEPT !.at = "rewrite", !.seen = job[j].print,
                                       !.want = ReconciledUpdate(rep[r].msg, j)]
                   ELSE NoRep]
    /\ UNCHANGED <<job, cmd, lastId, nextCmd, tx, events, usage, reports>>

ReportRewrite(r) ==
    /\ rep[r].at = "rewrite"
    /\ CommitReport(r)
    /\ UNCHANGED <<cmd, lastId, nextCmd, tx, reports>>

-----------------------------------------------------------------------------
(* Clearing *)

\* The commands of the tenant's jobs are listed first and locked after.
ClearSelect(w, scope) ==
    /\ tx[w].kind = "none"
    /\ scope = 0 \/ scope \in Rows
    /\ tx' = [tx EXCEPT ![w] = [kind |-> "clear", job |-> scope, command |-> 1,
                                known |-> {job[j].command : j \in Rows}]]
    /\ UNCHANGED <<job, cmd, lastId, nextCmd, rep, events, usage, reports>>

ClearableJob(j, known) ==
    /\ job[j].command \in known
    /\ job[j].status \in Dispatched
    /\ cmd[job[j].command].status \in Dispatched
    /\ \/ job[j].print \in Finished \cup {"stalled"}
       \/ /\ job[j].print = "pending" /\ Untouched(j)
          /\ \/ job[j].status = "failed"
             \/ job[j].status = "succeeded" /\ cmd[job[j].command].aged

\* Deleting a command deletes the jobs that refer to it (ON DELETE CASCADE).
UnreferencedCommands(known, deleted) ==
    {c \in known : /\ cmd[c].status \in Dispatched
                   /\ deleted # {}
                   /\ ~\E j \in Rows \ deleted : job[j].command = c}

ClearCommit(w) ==
    /\ tx[w].kind = "clear"
    /\ LET all == {j \in Rows : ClearableJob(j, tx[w].known)}
           deleted == IF tx[w].job = 0 THEN all ELSE all \cap {tx[w].job}
           gone == UnreferencedCommands(tx[w].known, deleted)
       IN /\ job' = [j \in JobIds |-> IF j \in deleted
                                      THEN [job[j] EXCEPT !.row = FALSE] ELSE job[j]]
          /\ cmd' = [c \in CmdIds |-> IF c \in gone
                                      THEN [cmd[c] EXCEPT !.status = "none", !.aged = FALSE] ELSE cmd[c]]
          /\ usage' = usage \ deleted
    /\ tx' = [tx EXCEPT ![w] = NoTx]
    /\ UNCHANGED <<lastId, nextCmd, rep, events, reports>>

-----------------------------------------------------------------------------
Next ==
    \/ CreatePrintJob
    \/ \E w \in Workers, j \in JobIds :
          ReprintRead(w, j) \/ DuplicateRead(w, j) \/ RetryRead(w, j)
    \/ \E w \in Workers : CreateCopy(w) \/ RetryWrite(w) \/ ClearCommit(w)
    \/ \E w \in Workers, scope \in {0} \cup JobIds : ClearSelect(w, scope)
    \/ \E j \in JobIds : CancelStudioPrint(j)
    \/ \E c \in CmdIds, to \in {"sent", "acknowledged", "succeeded", "failed"} :
          TransitionPrintCommand(c, to)
    \/ \E c \in CmdIds : CommandAges(c)
    \/ MarkStalledPendingJobs
    \/ \E r \in Replicas : (\E m \in Report : ReportRead(r, m))
                           \/ ReportWrite(r) \/ ReportReread(r) \/ ReportRewrite(r)

Spec == Init /\ [][Next]_vars

\* The sweep of the runtime task runs for ever, time passes, and a report
\* transaction that has begun ends.
FairSpec ==
    /\ Spec
    /\ WF_vars(MarkStalledPendingJobs)
    /\ \A c \in CmdIds : WF_vars(CommandAges(c))
    /\ \A r \in Replicas : WF_vars(ReportWrite(r) \/ ReportReread(r) \/ ReportRewrite(r))

-----------------------------------------------------------------------------
(* Properties *)

\* The dispatch status of a job is the status of its current command,
\* whatever retries, cancellations and late answers of an older command of
\* the same job happened (transitions.rs, recovery.rs, cancel.rs).
JobFollowsCommand ==
    \A j \in Rows : job[j].status = cmd[job[j].command].status

\* A job has at most one command that can still reach a printer: two retries
\* of one failed dispatch cannot both leave a command behind (recovery.rs).
OneLiveCommand ==
    \A j \in JobIds :
        Cardinality({c \in CmdIds : /\ cmd[c].owner = j
                                    /\ cmd[c].status \in Statuses \ Dispatched}) <= 1

\* A dispatch is repeated only for a print that has not started: the report
\* that shows it running may be applied between the retry's read and its
\* write (is_retry_safe and the filters of the UPDATE).
RetryOnlyUnstartedStep ==
    \A j \in Rows : job[j].command # job'[j].command =>
       job[j].status = "failed" /\ job[j].print = "pending" /\ ~job[j].started
RetryOnlyUnstarted == [][RetryOnlyUnstartedStep]_vars

\* What a print came to is final: cancellation, sweep and reports that read
\* the row earlier do not reopen it, until the row is deleted.
OutcomeFinalStep ==
    \A j \in Rows : job[j].print \in Finished =>
       job'[j].print = job[j].print /\ job'[j].percent = job[j].percent
OutcomeFinal == [][OutcomeFinalStep]_vars

\* The recorded terminal event of a job is its print status, and there is at
\* most one; filament usage is derived for finished prints only.
EventsMatchOutcome ==
    /\ \A j \in Rows : \A s \in Finished : <<j, s>> \in events => job[j].print = s
    /\ \A j \in usage : job[j].print \in Finished

\* The highest reported percentage never falls, although a report computes it
\* from what it read in an earlier statement (state.rs, the printer lock).
PeakNeverFallsStep ==
    \A j \in Rows : job'[j].peak >= job[j].peak /\ job'[j].peak >= job'[j].percent
PeakNeverFalls == [][PeakNeverFallsStep]_vars

\* A report that carries the submission id of a dispatched, unfinished print
\* is applied to that print, also when a copy shares its artifact and file.
SubmissionSelectsJobStep ==
    \A r \in Replicas :
      LET m == rep'[r].msg IN
      (rep[r].at = "none" /\ rep'[r].at = "write" /\ m.by = "task"
         /\ m.ref \in Rows /\ job[m.ref].status = "succeeded"
         /\ job[m.ref].print \in ActivePrint)
      => rep'[r].job = m.ref
SubmissionSelectsJob == [][SubmissionSelectsJobStep]_vars

\* Clearing does not delete a job whose print may still be going on.
RunningNeverClearedStep ==
    \A j \in Rows : ~job'[j].row =>
       job[j].print # "running" /\ job[j].status \in Dispatched
       /\ (job[j].print = "pending" => Untouched(j))
RunningNeverCleared == [][RunningNeverClearedStep]_vars

\* A sweep marks only prints the printer has not been seen to work on.
StalledOnlyUntouchedStep ==
    \A j \in Rows : (job[j].print # "stalled" /\ job'[j].print = "stalled") =>
       job[j].print = "pending" /\ Untouched(j)
StalledOnlyUntouched == [][StalledOnlyUntouchedStep]_vars

\* docs/development.md: retry-dispatch "retries dispatch for a failed or
\* cancelled dispatch lifecycle" of a print that never started.
RetryCoversCancelled ==
    \A j \in Rows : (job[j].status \in {"failed", "cancelled"} /\ Untouched(j)) => IsRetrySafe(j)

\* A dispatched print the printer never mentions does not stay pending.
SilentPrintIsFlagged ==
    \A j \in JobIds :
        (j \in Rows /\ job[j].status = "succeeded" /\ job[j].print = "pending" /\ Untouched(j))
        ~> ~(j \in Rows /\ job[j].print = "pending" /\ Untouched(j))
=============================================================================
