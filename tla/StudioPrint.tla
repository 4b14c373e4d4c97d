---------------------------- MODULE StudioPrint ----------------------------
(***************************************************************************)
(* A print that Bambu Studio starts through the network plugin: one         *)
(* synchronous call of pandar_plugin_studio_start_print, from the           *)
(* admission of its parameters to the code it returns, against the hub's    *)
(* job and against everything that moves meanwhile: Studio's cancel         *)
(* button, the account and printer snapshot, the agent that works on the    *)
(* job, an operator who retries it, lost requests and answers, and the      *)
(* deadline of 60 seconds.                                                  *)
(*                                                                         *)
(* What the plugin compares of a snapshot (hub, token, printer, account     *)
(* epoch, cache and firmware generation) is one version number here: the    *)
(* snapshots of a call agree when the versions do.                          *)
(***************************************************************************)
EXTENDS Naturals, Sequences

CONSTANTS
    Chunks,         \* pieces of 64 KiB the artifact is streamed in
    MaxVersion,     \* changes of the account, the printer or a generation
    MaxRetries      \* dispatches an operator retries from the dashboard

ConstantsAssumption == /\ Chunks \in Nat \ {0}
                              /\ MaxVersion \in Nat
                              /\ MaxRetries \in Nat

VARIABLES
    live,       \* [version, pending, authorized]: what the snapshot callback returns
    stop,       \* Studio's cancelled callback returns true
    late,       \* the deadline has passed
    job,        \* [status, print]: the hub's row of this submission
    past,       \* what the hub's job has been so far
    retries,    \* operators' retries of the dispatch so far
    call,       \* the call's own variables
    seen,       \* stages reported to Studio, in order
    ret         \* the result of the call, "running" until it returns

vars == <<live, stop, late, job, past, retries, call, seen, ret>>

JobStatus == {"none", "queued", "sent", "acknowledged", "succeeded", "failed", "cancelled"}
PrintStatus == {"pending", "running", "cancelled"}
Job == [status: JobStatus, print: PrintStatus]
NoJob == [status |-> "none", print |-> "pending"]

Results == {"running", "ok", "cancelled", "stale", "refused", "invalid", "artifact", "unavailable",
            "timeout", "job_failed", "too_late", "wait_failed"}

\* What a named config archive may hold.
Configs == [named: BOOLEAN, plates: {<<>>, <<0>>, <<1>>, <<1, 2>>}]

Snapshots == [version: 0..MaxVersion, pending: BOOLEAN, authorized: BOOLEAN]

Init ==
    /\ live = [version |-> 0, pending |-> FALSE, authorized |-> TRUE]
    /\ stop = FALSE
    /\ late = FALSE
    /\ job = NoJob
    /\ past = {}
    /\ retries = 0
    /\ call = [pc |-> "idle", version |-> 0, chunks |-> 0, emitted |-> FALSE, view |-> NoJob,
               mode |-> "user", confirmed |-> FALSE, stale |-> FALSE]
    /\ seen = <<>>
    /\ ret = "running"

------------------------------------------------------------------------------
(* What the call is built from. *)

\* matches_snapshot: the snapshot the callback returns now is the admitted one.
MatchesSnapshot == live.authorized /\ ~live.pending /\ live.version = call.version

\* The update callback: Studio is told a stage.
Update(stage) == seen' = Append(seen, stage)

\* A failure is reported to Studio as stage 7 before its code is returned.
Fail(code) == /\ ret' = code
              /\ Update(7)
              /\ call' = [call EXCEPT !.pc = "done"]

\* Steps that leave the hub and the world alone.
Local == UNCHANGED <<live, stop, late, job, past, retries>>

\* The hub's job becomes next; past remembers every status it had.
SetJob(next) == /\ job' = next
                /\ past' = past \cup {next.status}

\* cancel is called: a request of its own, whose outcome decides by mode.
BeginCancel(mode) ==
    /\ call' = [call EXCEPT !.pc = "cancelling", !.mode = mode, !.confirmed = FALSE,
                            !.stale = @ \/ mode = "stale"]
    /\ UNCHANGED <<seen, ret>>

------------------------------------------------------------------------------
(* Admission. *)

\* admit: every field of the parameters is decoded and checked; the credential
\* and the printer are the snapshot's, and the printer must be authorized.
Admitted(fieldsValid) == fieldsValid /\ live.authorized /\ ~live.pending

\* parse_plate_index: a config archive, when Studio names one, holds exactly one
\* plate index, and it is positive. Without one there is nothing to check.
ConfigAccepted(config) == config.named => Len(config.plates) = 1 /\ config.plates[1] > 0

\* pandar_plugin_studio_start_print up to lifecycle::start: the parameters are
\* copied with the snapshot Studio's shim took, checked field by field, and the
\* plate index of the config archive is read. Studio may have cancelled already,
\* and then the code is returned without a stage.
Admit(fieldsValid, config) ==
    /\ call.pc = "idle"
    /\ IF stop
       THEN /\ ret' = "cancelled"
            /\ call' = [call EXCEPT !.pc = "done"]
            /\ UNCHANGED seen
       ELSE IF Admitted(fieldsValid) /\ ConfigAccepted(config)
            THEN /\ call' = [call EXCEPT !.pc = "start", !.version = live.version]
                 /\ UNCHANGED <<seen, ret>>
            ELSE Fail("invalid")
    /\ Local

\* lifecycle::start: the snapshot and the cancel flag once more, then stage 0
\* and the deadline.
Start ==
    /\ call.pc = "start"
    /\ IF ~MatchesSnapshot THEN Fail("stale")
       ELSE IF stop THEN Fail("cancelled")
       ELSE /\ Update(0)
            /\ call' = [call EXCEPT !.pc = "upload"]
            /\ UNCHANGED ret
    /\ Local

------------------------------------------------------------------------------
(* Submission. *)

\* The artifact cannot be opened or is empty.
OpenFails ==
    /\ call.pc = "upload" /\ call.chunks = 0
    /\ Fail("artifact")
    /\ Local

\* Mutant: the upload asks the cancel flag once more after its last chunk was given away.
UploadChunkLateCheck ==
    /\ call.pc = "upload"
    /\ IF stop
       THEN /\ Fail("cancelled")
            /\ IF call.chunks = Chunks
               THEN SetJob([status |-> "queued", print |-> "pending"])
               ELSE UNCHANGED <<job, past>>
            /\ UNCHANGED <<live, stop, late, retries>>
       ELSE /\ call.chunks < Chunks
            /\ Update(1)
            /\ call' = [call EXCEPT !.chunks = @ + 1]
            /\ UNCHANGED ret
            /\ Local

\* One chunk of the stream: the cancel flag is asked before the chunk is given
\* to the request. A cut stream never reaches its announced length, so the hub
\* creates nothing; the call ends as cancelled whatever the request's outcome.
UploadChunk ==
    /\ call.pc = "upload" /\ call.chunks < Chunks
    /\ IF stop
       THEN Fail("cancelled")
       ELSE /\ Update(1)
            /\ call' = [call EXCEPT !.chunks = @ + 1]
            /\ UNCHANGED ret
    /\ Local

\* The hub stores the artifact and creates the job with its queued command in
\* one transaction, then answers 201.
CreatePrint ==
    /\ call.pc = "upload" /\ call.chunks = Chunks
    /\ job.status = "none"
    /\ SetJob([status |-> "queued", print |-> "pending"])
    /\ call' = [call EXCEPT !.pc = "created"]
    /\ UNCHANGED <<live, stop, late, retries, seen, ret>>

\* The hub refuses the upload: token, printer, quota or artifact.
RefusePrint ==
    /\ call.pc = "upload" /\ call.chunks = Chunks
    /\ Fail("refused")
    /\ Local

\* run after submit: 201 with one id, stage 2, and the snapshot again.
Created ==
    /\ call.pc = "created"
    /\ Update(2)
    /\ IF MatchesSnapshot
       THEN call' = [call EXCEPT !.pc = "top"]
       ELSE call' = [call EXCEPT !.pc = "cancelling", !.mode = "stale", !.stale = TRUE]
    /\ UNCHANGED ret
    /\ Local

------------------------------------------------------------------------------
(* poll_until_complete. *)

\* The head of the loop: deadline, snapshot, cancel flag, in this order.
LoopTop ==
    /\ call.pc = "top"
    /\ IF late THEN Fail("timeout")
       ELSE IF ~MatchesSnapshot THEN BeginCancel("stale")
       ELSE IF stop THEN BeginCancel("user")
       ELSE /\ call' = [call EXCEPT !.pc = "polling"]
            /\ UNCHANGED <<seen, ret>>
    /\ Local

\* get_job reads the row.
PollRead ==
    /\ call.pc = "polling"
    /\ call' = [call EXCEPT !.pc = "polled", !.view = job]
    /\ UNCHANGED <<seen, ret>>
    /\ Local

\* The answer of a poll. The job is judged by what the hub read, which may be
\* old by now; the deadline and the snapshot are judged by what they are now.
PollAnswer ==
    /\ call.pc = "polled"
    /\ LET view == call.view IN
       IF late THEN Fail("timeout")
       ELSE IF ~MatchesSnapshot THEN BeginCancel("stale")
       ELSE IF view = [status |-> "cancelled", print |-> "cancelled"] THEN Fail("cancelled")
       ELSE IF view.status = "cancelled" THEN Fail("invalid")
       ELSE IF view.status = "failed" THEN Fail("job_failed")
       ELSE IF view.status = "acknowledged"
            THEN /\ seen' = IF call.emitted THEN seen ELSE Append(seen, 3)
                 /\ call' = [call EXCEPT !.pc = "top", !.emitted = TRUE]
                 /\ UNCHANGED ret
       ELSE IF view.status = "succeeded"
            THEN /\ seen' = seen \o (IF call.emitted THEN <<4, 5>> ELSE <<3, 4, 5>>)
                 /\ call' = [call EXCEPT !.pc = "finish"]
                 /\ UNCHANGED ret
       ELSE /\ call' = [call EXCEPT !.pc = "top"]
            /\ UNCHANGED <<seen, ret>>
    /\ Local

------------------------------------------------------------------------------
(* finish, and the two ways a submission is cancelled. *)

\* finish after stage 5: the cancel flag, then Studio's wait callback runs.
Finish ==
    /\ call.pc = "finish"
    /\ IF stop
       THEN BeginCancel("user")
       ELSE /\ call' = [call EXCEPT !.pc = "waiting"]
            /\ UNCHANGED <<seen, ret>>
    /\ Local

\* The wait callback returns; the cancel flag and the deadline are asked again.
WaitReturns(waited) ==
    /\ call.pc = "waiting"
    /\ IF stop THEN BeginCancel("user")
       ELSE IF late THEN Fail("timeout")
       ELSE IF ~waited THEN Fail("wait_failed")
       ELSE /\ Update(6)
            /\ ret' = "ok"
            /\ call' = [call EXCEPT !.pc = "done"]
    /\ Local

\* cancel_studio_print_with_audit: only a command still queued can be cancelled,
\* a second cancellation is the first one's answer, everything else is too late.
CancelJob ==
    /\ call.pc = "cancelling"
    /\ IF job.status = "queued" /\ job.print = "pending"
       THEN SetJob([status |-> "cancelled", print |-> "cancelled"])
       ELSE UNCHANGED <<job, past>>
    /\ call' = [call EXCEPT !.pc = "answered",
                            !.confirmed = job'.status = "cancelled" /\ job'.print = "cancelled"]
    /\ UNCHANGED <<live, stop, late, retries, seen, ret>>

\* What a cancellation means to the call: retain_or_cancel_stale and
\* cancel_or_retain_if_stale. An unconfirmed one is retained (the call returns 0)
\* when the snapshot is stale, and is the error of the request otherwise.
CancelOutcome(confirmed, error) ==
    IF confirmed
    THEN Fail(IF call.mode = "stale" THEN "stale" ELSE "cancelled")
    ELSE IF call.mode = "stale" \/ ~MatchesSnapshot
         THEN /\ ret' = "ok"
              /\ call' = [call EXCEPT !.pc = "done", !.stale = TRUE]
              /\ UNCHANGED seen
         ELSE Fail(error)

CancelAnswer ==
    /\ call.pc = "answered"
    /\ CancelOutcome(call.confirmed, "too_late")
    /\ Local

------------------------------------------------------------------------------
(* Lost requests and answers, and the deadline. *)

\* A request fails, before the hub saw it or after: send_hub_request reports
\* hub_unavailable, and the deadline of the request delivery_timeout.
RequestLost ==
    LET error == IF late THEN "timeout" ELSE "unavailable" IN
    /\ \/ /\ call.pc \in {"upload", "created", "polling", "polled"}
          /\ Fail(error)
       \/ /\ call.pc \in {"cancelling", "answered"}
          /\ CancelOutcome(FALSE, error)
    /\ Local

\* timeout_at around the whole run: any await ends once the deadline passed. The
\* callbacks are called synchronously and cannot be cut short.
DeadlinePasses ==
    /\ late
    /\ call.pc \in {"upload", "created", "top", "polling", "polled", "cancelling", "answered"}
    /\ Fail("timeout")
    /\ Local

Timer ==
    /\ ~late
    /\ call.pc \notin {"idle", "start", "done"}
    /\ late' = TRUE
    /\ UNCHANGED <<live, stop, job, past, retries, call, seen, ret>>

------------------------------------------------------------------------------
(* The rest of the world. *)

StudioCancels ==
    /\ ~stop /\ call.pc # "done"
    /\ stop' = TRUE
    /\ UNCHANGED <<live, late, job, past, retries, call, seen, ret>>

\* The account, the selected printer or a generation changes, or a transition
\* begins and ends without a change.
SnapshotMoves ==
    /\ call.pc # "done"
    /\ \/ live.version < MaxVersion /\ live' = [live EXCEPT !.version = @ + 1]
       \/ live' = [live EXCEPT !.pending = ~@]
       \/ live.version < MaxVersion
          /\ live' = [live EXCEPT !.version = @ + 1, !.authorized = FALSE]
    /\ UNCHANGED <<stop, late, job, past, retries, call, seen, ret>>

\* What the hub and the agent do to the job: dispatch, acknowledge, finish, and
\* what the printer reports of the print. Taken from PrintJobs.
JobStep ==
    \/ job.status = "queued" /\ SetJob([job EXCEPT !.status = "sent"])
    \/ job.status = "sent" /\ SetJob([job EXCEPT !.status = "acknowledged"])
    \/ job.status = "acknowledged" /\ SetJob([job EXCEPT !.status = "succeeded", !.print = "running"])
    \/ job.status \in {"sent", "acknowledged"} /\ SetJob([job EXCEPT !.status = "failed"])
    \/ job.status = "succeeded" /\ job.print = "running" /\ SetJob([job EXCEPT !.print = "cancelled"])

HubWorks ==
    /\ JobStep
    /\ UNCHANGED <<live, stop, late, retries, call, seen, ret>>

\* retry-dispatch: a dispatch that failed before anything was printed gets a
\* new queued command (is_retry_safe); a cancelled one does not.
RetryDispatch ==
    /\ job = [status |-> "failed", print |-> "pending"] /\ retries < MaxRetries
    /\ retries' = retries + 1
    /\ SetJob([job EXCEPT !.status = "queued"])
    /\ UNCHANGED <<live, stop, late, call, seen, ret>>

Plugin ==
    \/ \E fieldsValid \in BOOLEAN, config \in Configs : Admit(fieldsValid, config)
    \/ Start
    \/ OpenFails
    \/ UploadChunk
    \/ Created
    \/ LoopTop
    \/ PollAnswer
    \/ Finish
    \/ \E waited \in BOOLEAN : WaitReturns(waited)
    \/ CancelAnswer
    \/ DeadlinePasses

Requests == CreatePrint \/ RefusePrint \/ PollRead \/ CancelJob \/ RequestLost

Next ==
    \/ Plugin
    \/ Requests
    \/ Timer
    \/ StudioCancels
    \/ SnapshotMoves
    \/ HubWorks
    \/ RetryDispatch

Spec == Init /\ [][Next]_vars

\* The plugin's thread runs, requests end (15 s each), the clock moves.
FairSpec == Spec /\ WF_vars(Plugin) /\ WF_vars(Requests) /\ WF_vars(Timer)

------------------------------------------------------------------------------
(* Properties. *)

TypeOK ==
    /\ live \in Snapshots
    /\ stop \in BOOLEAN /\ late \in BOOLEAN
    /\ job \in Job
    /\ past \subseteq JobStatus
    /\ retries \in 0..MaxRetries
    /\ call \in [pc: {"idle", "start", "upload", "created", "top", "polling", "polled", "finish",
                      "waiting", "cancelling", "answered", "done"},
                 version: 0..MaxVersion, chunks: 0..Chunks, emitted: BOOLEAN, view: Job,
                 mode: {"user", "stale"}, confirmed: BOOLEAN, stale: BOOLEAN]
    /\ seen \in Seq(0..7)
    /\ ret \in Results

\* A call that returns -18 (cancelled) or stale_print_submission has left no
\* print behind, wherever in the upload, the polls or the wait the cancel or the
\* account change came: there is no job or it is cancelled, it never succeeded,
\* and unless an operator retried a failed dispatch it was never handed to an
\* agent.
NothingPrinted ==
    ret \in {"cancelled", "stale"} =>
        /\ job.status \in {"none", "cancelled"}
        /\ "succeeded" \notin past
        /\ retries = 0 => past \subseteq {"queued", "cancelled"}

\* The code 0 means what Studio shows: the hub reported the dispatch succeeded,
\* or the submission was retained because the snapshot it was admitted with is no
\* longer current. A failed or timed out submission never returns 0.
ZeroIsDispatched ==
    ret = "ok" => IF 6 \in {seen[i] : i \in DOMAIN seen}
                  THEN "succeeded" \in past
                  ELSE call.stale /\ "queued" \in past

\* The plugin reports only milestones it observed at the hub: stage 2 after the
\* job is durable, 3 after an agent took it, 4 and later after it succeeded, each
\* in order, and nothing after the final stage.
Milestones ==
    /\ \A i \in DOMAIN seen :
         /\ seen[i] = 2 => "queued" \in past
         /\ seen[i] = 3 => past \cap {"acknowledged", "succeeded"} # {}
         /\ seen[i] \in {4, 5, 6} => "succeeded" \in past
    /\ \A i \in DOMAIN seen \ {1} : seen[i - 1] <= seen[i]
    /\ \A i \in DOMAIN seen \ {1} : seen[i] # 1 => seen[i - 1] < seen[i]
    /\ \A i \in DOMAIN seen : seen[i] \in {6, 7} => i = Len(seen) /\ ret # "running"

\* A call that saw its snapshot go stale never ends with a result of the job
\* itself: it is stale, retained, or out of time.
StaleIsFinalStep ==
    call.stale => ret' \in {"running", "ok", "stale", "timeout"}
StaleIsFinal == [][StaleIsFinalStep]_vars

\* Every call returns: whatever is lost and however long the agent takes.
Returns == call.pc = "start" ~> call.pc = "done"

==============================================================================
