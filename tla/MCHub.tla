-------- MODULE MCHub --------
(* The hub's components: jobs, artifacts, live commands, printer rows, events *)
(* to Studio, tokens, transports, materials and operation requests.  They     *)
(* share no state, so one of them moves in a behaviour while the others rest. *)
EXTENDS ArtifactStore, PrinterState, TenantTokens, GrpcConnections, Integers, Sequences, FiniteSets, TLC

CONSTANTS NoSession, NoWork, Null, Absent, Blank, Missing

UploadTenant == [a \in {"a1", "a2", "a3"} |-> IF a = "a3" THEN "t2" ELSE "t1"]
UploadSize == [a \in {"a1", "a2", "a3"} |-> IF a = "a1" THEN 2 ELSE 1]

\* Two agents of one tenant.
AgentTenant == [a \in {"a", "a2"} |-> "t1"]

\* An external spool's entry that does not say where it hangs.
NoName == [toolhead |-> Absent, xid |-> Absent]

\* The values around each limit of a field; signed 32-bit numbers end at 7.
FieldValues ==
    [speed_mode |-> <<0, 1, 4, 5>>, fan_index |-> <<0, 1, 3, 4>>, speed_percent |-> <<0, 100, 101>>,
     axes |-> <<<<>>, <<"x">>>>,
     movements |-> <<<<>>, << <<"x", -50>> >>, << <<"y", 51>> >>, << <<"x", 1>>, <<"x", 10>> >>,
                     << <<"x", 1>>, <<"y", 10>> >>>>,
     feedrate |-> <<0, 1, 12000, 12001>>, temperature |-> <<44, 45, 85, 86, 120, 121, 300, 301>>,
     ams_id |-> <<255, 256>>, slot_id |-> <<3, 256>>, global_tray_id |-> <<24>>,
     external_id |-> <<"", "254">>, duration_hours |-> <<0, 1, 24, 25>>, filament |-> <<"", "PLA">>,
     holder_action |-> <<0, 2, 3>>, nozzle_id |-> <<15, 16, 21, 22, 255>>, extruder_id |-> <<0, 1, 2>>,
     wait |-> <<TRUE>>, airduct |-> <<TRUE>>, light_on |-> <<TRUE>>, rotate_tray |-> <<TRUE>>,
     print_error |-> <<0, 1, 7, 8>>, sequence_id |-> <<0, 1>>, error_generation |-> <<0, 1>>,
     required |-> <<<<"homing">>, <<>>, <<"axis">>, <<"homing", "homing">>>>,
     version |-> <<0, 1, 2>>, v0 |-> <<"ok", "empty">>, groups |-> <<"ok", "empty">>,
     printer_job_id |-> <<"given">>, error_action |-> <<"given">>, param |-> <<"given">>]

VARIABLE part  \* the component that takes steps in this behaviour

-----------------------------------------------------------------------------
\* PrintJobs. The jobs of one printer.
VARIABLES printJob, cmd, lastId, nextCmd, tx, rep, events, usage, printReports
printVars == <<printJob, cmd, lastId, nextCmd, tx, rep, events, usage, printReports>>
\* Two requests on a job with up to three dispatches.
Retries == INSTANCE PrintJobs WITH
    MaxJobs <- 1, MaxCommands <- 3, MaxPercent <- 1, Workers <- {"w1", "w2"},
    Replicas <- {"r1"}, MaxReports <- 1, ReportKinds <- {"job"}, SweepBatch <- 1,
    job <- printJob, reports <- printReports
\* Two replicas apply reports to one job.
JobReports == INSTANCE PrintJobs WITH
    MaxJobs <- 1, MaxCommands <- 1, MaxPercent <- 2, Workers <- {"w1"},
    Replicas <- {"r1", "r2"}, MaxReports <- 2, ReportKinds <- {"file", "artifact"},
    SweepBatch <- 1, job <- printJob, reports <- printReports
\* A print and its copy, reported by submission id.
JobCopies == INSTANCE PrintJobs WITH
    MaxJobs <- 2, MaxCommands <- 2, MaxPercent <- 1, Workers <- {"w1"}, Replicas <- {"r1"},
    MaxReports <- 1, ReportKinds <- {"task"}, SweepBatch <- 1, job <- printJob,
    reports <- printReports

-----------------------------------------------------------------------------
\* ArtifactStore. Three uploads of two tenants at their quotas; the constants are in the cfg.

-----------------------------------------------------------------------------
\* ArtifactStore. Two uploads, and their deletion.
VARIABLES objUpload, objStaged, objResv, objQuotaLock, objObject, objRows, objJob, objSweep,
          objDel, objDrain, objFailures
objVars == <<objUpload, objStaged, objResv, objQuotaLock, objObject, objRows, objJob,
             objSweep, objDel, objDrain, objFailures>>
\* Two uploads, two drainers and their failures.
Objects == INSTANCE ArtifactStore WITH
    Artifacts <- {"a1", "a2"}, Owners <- {"t1", "t2"},
    OwnerOf <- [a \in {"a1", "a2"} |-> "t1"], SizeOf <- [a \in {"a1", "a2"} |-> 1],
    Jobs <- {"j1", "j2"}, Drainers <- {"d1", "d2"}, MaxStaged <- 2, MaxTenantStaged <- 2,
    CountLimit <- 2, ByteLimit <- 3, GlobalCount <- 2, GlobalBytes <- 4, Retention <- FALSE,
    MaxFailures <- 1, upload <- objUpload, staged <- objStaged, resv <- objResv,
    quotaLock <- objQuotaLock, object <- objObject, rows <- objRows, job <- objJob,
    sweep <- objSweep, del <- objDel, drain <- objDrain, failures <- objFailures

-----------------------------------------------------------------------------
\* LiveCommands. Reconnects of one agent.
VARIABLES registered, liveRow, conn, liveLive, route, pending, liveDrain, channel, work, up,
          claim, aged, orphaned, faults
liveVars == <<registered, liveRow, conn, liveLive, route, pending, liveDrain, channel, work,
              up, claim, aged, orphaned, faults>>
\* A link_printer over two sessions.
LiveLinks == INSTANCE LiveCommands WITH
    Sessions <- {"s1", "s2"}, Commands <- {"c1"}, Links <- {"c1"}, Mappings <- {},
    ChannelSize <- 1, MaxFaults <- 1, row <- liveRow, live <- liveLive, drain <- liveDrain
\* A HandlePrintError over two sessions.
LiveErrors == INSTANCE LiveCommands WITH
    Sessions <- {"s1", "s2"}, Commands <- {"c1"}, Links <- {}, Mappings <- {},
    ChannelSize <- 1, MaxFaults <- 0, row <- liveRow, live <- liveLive, drain <- liveDrain
\* A nozzle mapping and a fault.
LiveMaps == INSTANCE LiveCommands WITH
    Sessions <- {"s1", "s2"}, Commands <- {"c1"}, Links <- {}, Mappings <- {"c1"},
    ChannelSize <- 1, MaxFaults <- 1, row <- liveRow, live <- liveLive, drain <- liveDrain

-----------------------------------------------------------------------------
\* PrinterState. One printer and two sessions of its agent; the constants are in the cfg.

-----------------------------------------------------------------------------
\* PrinterState. One printer and one session of its agent.
VARIABLES seqRow, seqCurrent, seqLast, seqStream, seqHandler, seqTasks, seqSent, seqHistory
seqVars == <<seqRow, seqCurrent, seqLast, seqStream, seqHandler, seqTasks, seqSent,
             seqHistory>>
\* Reports of materials overtake each other in one session.
Materials == INSTANCE PrinterState WITH
    Kinds <- {"link", "bare", "materials"}, MaxSession <- 1, MaxEvents <- 3, MaxTasks <- 2,
    row <- seqRow, current <- seqCurrent, last <- seqLast, stream <- seqStream,
    handler <- seqHandler, tasks <- seqTasks, sent <- seqSent, history <- seqHistory

-----------------------------------------------------------------------------
\* PrinterEvents. Studio sockets on one hub.
VARIABLES eventRow, material, due, eventWire, joined, hand, commit, sock
eventVars == <<eventRow, material, due, eventWire, joined, hand, commit, sock>>
\* One socket that falls behind.
Feed == INSTANCE PrinterEvents WITH
    Hubs <- {"h"}, Sockets <- {"a"}, HubOf <- [s \in {"a"} |-> "h"], Printers <- {"p"},
    MaxRow <- 3, MaxMaterial <- 1, Capacity <- 1, Faults <- {"publish", "receive"},
    row <- eventRow, wire <- eventWire
\* Two sockets commit their snapshots.
Feeds == INSTANCE PrinterEvents WITH
    Hubs <- {"h"}, Sockets <- {"a", "b"}, HubOf <- [s \in {"a", "b"} |-> "h"],
    Printers <- {"p"}, MaxRow <- 1, MaxMaterial <- 0, Capacity <- 1, Faults <- {"end"},
    row <- eventRow, wire <- eventWire

-----------------------------------------------------------------------------
\* TenantTokens. Two tokens, a ticket and two requests; the constants are in the cfg.

-----------------------------------------------------------------------------
\* TenantTokens. Other scopes, and no authentication.
VARIABLES altRole, altTok, altTick, altLock, altReq
altVars == <<altRole, altTok, altTick, altLock, altReq>>
\* A hub without authentication.
OpenTokens == INSTANCE TenantTokens WITH
    Users <- {"u"}, Tokens <- {1}, Tickets <- {"t"}, Requests <- {"p"}, NoAuth <- TRUE,
    Scopes <- {"plugin"}, Needs <- {"plugin"}, role <- altRole, tok <- altTok,
    tick <- altTick, lock <- altLock, req <- altReq
\* Tokens of every scope, asked for everything.
Scoped == INSTANCE TenantTokens WITH
    Users <- {"u"}, Tokens <- {1}, Tickets <- {}, Requests <- {"p"}, NoAuth <- FALSE,
    Scopes <- {"all", "empty", "register", "plugin"},
    Needs <- {"plugin", "viewerRoute", "register", "operator", "tenant_admin"},
    role <- altRole, tok <- altTok, tick <- altTick, lock <- altLock, req <- altReq

-----------------------------------------------------------------------------
\* GrpcConnections. Three transports of two peers and two agents; the constants are in the cfg.

-----------------------------------------------------------------------------
\* MaterialInventory. Two units of different kinds and their spools.
VARIABLES printer, stockSent, queue, hub, insync, stockLast, changes, stockReports
stockVars == <<printer, stockSent, queue, hub, insync, stockLast, changes, stockReports>>
Stock == INSTANCE MaterialInventory WITH
    Units <- {0, 1}, Kind <- (0 :> "ams") @@ (1 :> "ams_lite_mixed"), NSlots <- 2,
    Spools <- {"s1", "s2"}, Generic <- {}, Secret <- {}, NExt <- 1, ExtNames <- <<NoName>>,
    InfoInDelta <- TRUE, AmsInDelta <- TRUE, MaxChanges <- 2, MaxReports <- 3,
    MaxQueue <- 2, sent <- stockSent, last <- stockLast, reports <- stockReports
\* An AMS HT and two external spools.
Stock2 == INSTANCE MaterialInventory WITH
    Units <- {1, 128}, Kind <- (1 :> "ams") @@ (128 :> "ams_ht"), NSlots <- 1,
    Spools <- {"s1", "s2"}, Generic <- {}, Secret <- {"s2"}, NExt <- 2,
    ExtNames <- <<[NoName EXCEPT !.toolhead = "L"], [NoName EXCEPT !.xid = 255]>>,
    InfoInDelta <- TRUE, AmsInDelta <- TRUE, MaxChanges <- 2, MaxReports <- 3,
    MaxQueue <- 2, sent <- stockSent, last <- stockLast, reports <- stockReports

-----------------------------------------------------------------------------
\* OperationPath. Every action with the values around its limits.
VARIABLES stage, request, model, hubOp, pathWire, agentOp
pathVars == <<stage, request, model, hubOp, pathWire, agentOp>>
Path == INSTANCE OperationPath WITH
    Values <- FieldValues, MaxValues <- 8, MaxI32 <- 7, Strays <- {"param", "required"},
    Models <- {"H2C", "other", "unsupported"}, wire <- pathWire

-----------------------------------------------------------------------------
Parts == {"retries", "reports", "copies", "uploads", "objects", "links", "recoveries",
          "mappings", "printer", "materials", "events", "snapshots", "tokens",
          "open tokens", "scopes", "transports", "spools", "other units", "operations"}

\* What the components assume of their constants.
ASSUME ConstantsOK ==
    /\ Retries!JobBounds /\ JobReports!JobBounds /\ JobCopies!JobBounds
    /\ StoreAssumption /\ Objects!StoreAssumption
    /\ LiveLinks!LiveAssumption /\ LiveErrors!LiveAssumption /\ LiveMaps!LiveAssumption
    /\ StateAssumption /\ Materials!StateAssumption /\ Feed!EventsAssumption /\ Feeds!EventsAssumption
    /\ TokensAssumption /\ OpenTokens!TokensAssumption /\ Scoped!TokensAssumption
    /\ Stock!GeometryAssumption /\ Stock2!GeometryAssumption
    /\ Path!PathAssumption

Init ==
    /\ part \in Parts
    /\ IF part = "reports" THEN JobReports!Init
       ELSE IF part = "copies" THEN JobCopies!Init
       ELSE Retries!Init
    /\ StoreInit
    /\ Objects!StoreInit
    /\ IF part = "recoveries" THEN LiveErrors!Init
       ELSE IF part = "mappings" THEN LiveMaps!Init
       ELSE LiveLinks!Init
    /\ StateInit
    /\ Materials!StateInit
    /\ IF part = "snapshots" THEN Feeds!Init
       ELSE Feed!Init
    /\ TokenInit
    /\ IF part = "scopes" THEN Scoped!TokenInit
       ELSE OpenTokens!TokenInit
    /\ GrpcInit
    /\ part \in {"transports"} \/ peer = [c \in {1, 2, 3} |-> "p"]
    /\ IF part = "other units" THEN Stock2!Init
       ELSE Stock!Init
    /\ Path!Init
    /\ part \in {"operations"} \/ model = "other"

vars == <<part, printVars, storeVars, objVars, liveVars, stateVars, seqVars, eventVars,
          tokenVars, altVars, grpcVars, stockVars, pathVars>>

\* What rests while a component moves.
printRest == <<part, storeVars, objVars, liveVars, stateVars, seqVars, eventVars, tokenVars,
               altVars, grpcVars, stockVars, pathVars>>
storeRest == <<part, printVars, objVars, liveVars, stateVars, seqVars, eventVars, tokenVars,
               altVars, grpcVars, stockVars, pathVars>>
objRest == <<part, printVars, storeVars, liveVars, stateVars, seqVars, eventVars, tokenVars,
             altVars, grpcVars, stockVars, pathVars>>
liveRest == <<part, printVars, storeVars, objVars, stateVars, seqVars, eventVars, tokenVars,
              altVars, grpcVars, stockVars, pathVars>>
stateRest == <<part, printVars, storeVars, objVars, liveVars, seqVars, eventVars, tokenVars,
               altVars, grpcVars, stockVars, pathVars>>
seqRest == <<part, printVars, storeVars, objVars, liveVars, stateVars, eventVars, tokenVars,
             altVars, grpcVars, stockVars, pathVars>>
eventRest == <<part, printVars, storeVars, objVars, liveVars, stateVars, seqVars, tokenVars,
               altVars, grpcVars, stockVars, pathVars>>
tokenRest == <<part, printVars, storeVars, objVars, liveVars, stateVars, seqVars, eventVars,
               altVars, grpcVars, stockVars, pathVars>>
altRest == <<part, printVars, storeVars, objVars, liveVars, stateVars, seqVars, eventVars,
             tokenVars, grpcVars, stockVars, pathVars>>
grpcRest == <<part, printVars, storeVars, objVars, liveVars, stateVars, seqVars, eventVars,
              tokenVars, altVars, stockVars, pathVars>>
stockRest == <<part, printVars, storeVars, objVars, liveVars, stateVars, seqVars, eventVars,
               tokenVars, altVars, grpcVars, pathVars>>
pathRest == <<part, printVars, storeVars, objVars, liveVars, stateVars, seqVars, eventVars,
              tokenVars, altVars, grpcVars, stockVars>>

Next ==
    \/ part = "retries" /\ Retries!Next /\ UNCHANGED printRest
    \/ part = "reports" /\ JobReports!Next /\ UNCHANGED printRest
    \/ part = "copies" /\ JobCopies!Next /\ UNCHANGED printRest
    \/ part = "uploads" /\ StoreNext /\ UNCHANGED storeRest
    \/ part = "objects" /\ Objects!StoreNext /\ UNCHANGED objRest
    \/ part = "links" /\ LiveLinks!Next /\ UNCHANGED liveRest
    \/ part = "recoveries" /\ LiveErrors!Next /\ UNCHANGED liveRest
    \/ part = "mappings" /\ LiveMaps!Next /\ UNCHANGED liveRest
    \/ part = "printer" /\ StateNext /\ UNCHANGED stateRest
    \/ part = "materials" /\ Materials!StateNext /\ UNCHANGED seqRest
    \/ part = "events" /\ Feed!Next /\ UNCHANGED eventRest
    \/ part = "snapshots" /\ Feeds!Next /\ UNCHANGED eventRest
    \/ part = "tokens" /\ TokenNext /\ UNCHANGED tokenRest
    \/ part = "open tokens" /\ OpenTokens!TokenNext /\ UNCHANGED altRest
    \/ part = "scopes" /\ Scoped!TokenNext /\ UNCHANGED altRest
    \/ part = "transports" /\ GrpcNext /\ UNCHANGED grpcRest
    \/ part = "spools" /\ Stock!Next /\ UNCHANGED stockRest
    \/ part = "other units" /\ Stock2!Next /\ UNCHANGED stockRest
    \/ part = "operations" /\ Path!Next /\ UNCHANGED pathRest

Spec == Init /\ [][Next]_vars

-----------------------------------------------------------------------------
\* What is checked.

\* The status of a job is that of its current command, two retries never leave
\* two commands that can reach a printer, the terminal event of a job is its
\* outcome, and clears and drains that interleave leave every artifact row its object
\* (jobs/transitions.rs, jobs/recovery.rs, jobs/print_reports.rs, jobs/clear.rs).
JobsConsistent == 
    /\ part = "retries" => Retries!TypeOK /\ Retries!JobFollowsCommand /\ Retries!OneLiveCommand
    /\ part = "reports" => JobReports!EventsMatchOutcome
    /\ part = "objects" => Objects!ArtifactsKept

\* Nothing that read a job row earlier reopens a finished print or lowers its peak,
\* clearing deletes no job whose print may be going on, only a print that has not
\* started is dispatched again or flagged as stalled, a report with a submission id
\* is applied to that submission, and the sweep overturns no live answer
\* (jobs/print_reports.rs, jobs/clear.rs, jobs/stalled.rs).
OutcomesStand == 
    [][ /\ part = "reports" => JobReports!OutcomeFinalStep /\ JobReports!PeakNeverFallsStep
        /\ part = "retries" => /\ Retries!RunningNeverClearedStep
                               /\ Retries!RetryOnlyUnstartedStep
                               /\ Retries!StalledOnlyUntouchedStep
        /\ part = "links" => LiveLinks!SweepSparesOwnedStep
        /\ part = "copies" => JobCopies!SubmissionSelectsJobStep ]_vars

\* No live command is added behind the drain of a removed session, an unfinished
\* one has an owner unless a fault took it, and an answer ends the stream only
\* when it is to a mapping that timed out (sessions/live_commands.rs).
LiveCommandsOwned == 
    /\ part = "links" => LiveLinks!TypeOK /\ LiveLinks!OnlyLateMappingEndsStream
    /\ part = "recoveries" => LiveErrors!OnlyLateMappingEndsStream
    /\ part = "mappings" => LiveMaps!DrainedStaysEmpty /\ LiveMaps!LiveNeverForgotten

\* Materials and the records Studio has never go back to an older report, nothing
\* is passed to a socket while its snapshot is committed, a replaced session does
\* not reach the printer row, and a revoked token stays revoked
\* (repositories/materials.rs, printer_events/studio.rs, printers/snapshot.rs).
NothingGoesBack == 
    [][ /\ part = "materials" => Materials!MaterialsNeverOlderStep
        /\ part = "events" => Feed!NeverOlderStep
        /\ part = "snapshots" => Feeds!CommitExcludesDeliveryStep
        /\ part = "printer" => ReplacedIsSilentStep
        /\ part = "tokens" => RevokedStaysStep ]_vars

\* The settled hub shows the slots, spools, active tray and external spools the
\* printer has under sorted keys, stores no credential, and a patch that comes
\* again changes nothing; a record Studio has differs from the database only while its
\* socket has yet to be told, and the publication lock is of a socket that ends its
\* snapshot (repositories/materials/merge.rs, machine/materials.rs, printer_events.rs).
ViewsAgree == 
    /\ IF part = "other units"
       THEN /\ Stock2!TypeOK /\ Stock2!LoadedAgree /\ Stock2!ExternalsAgree
            /\ Stock2!NoSecretStored
       ELSE /\ Stock!TypeOK /\ Stock!SlotsAgree /\ Stock!ActiveAgrees
            /\ Stock!ReplayUnchanged /\ Stock!KeysSorted
    /\ part = "events" => Feed!TypeOK /\ Feed!NoSilentGap
    /\ part = "snapshots" => Feeds!LockOfCommitter

\* The hub accepts nothing with a token, of any scope, that was revoked before,
\* and no operation the agent cannot read; the agent executes what the
\* hub accepted, and a required device feature travels with it
\* (tenant_tokens.rs, printer_operation/validation.rs, commands/operations.rs).
ExecutedAsAccepted == 
    /\ Path!TypeOK /\ Path!NeverDoomed /\ Path!ExecutedAsAccepted /\ Path!FeaturesNeverDropped
    /\ part = "scopes" => Scoped!LateRequestsRefused
=============================================================================
