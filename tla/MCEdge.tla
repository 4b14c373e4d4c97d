-------- MODULE MCEdge --------
(* The agent and what the hub asks of it: report forwarders, the command      *)
(* worker, the camera relay, firmware controls, the MQTT pumps behind them    *)
(* and print-error recovery.  The components share no state, so one of them   *)
(* moves in a behaviour while the others rest.                                *)
EXTENDS Naturals, Sequences, FiniteSets

CONSTANTS None, NoVal, TeardownTask, f1, f2, j1

CameraOf == [p \in {"x1", "a1", "h1"} |->
                IF p = "x1" THEN "rtsp" ELSE IF p = "a1" THEN "local" ELSE "other"]

VARIABLE part  \* the component that takes steps in this behaviour

-----------------------------------------------------------------------------
\* AgentReports. One printer.
VARIABLES printer, reportFwd, cur, spawned, session, linking, refresh, reportHub, used
reportVars == <<printer, reportFwd, cur, spawned, session, linking, refresh, reportHub, used>>
\* A lossy connection, a fault and a relink in one session.
Reports == INSTANCE AgentReports WITH
    Cap <- 2, MaxForwarders <- 2, MaxChanges <- 2, MaxFaults <- 1, MaxDeaths <- 1,
    MaxSessions <- 1, MaxLinks <- 1, MaxRefreshes <- 0, fwd <- reportFwd, hub <- reportHub
\* Two sessions and a relink.
Restarts == INSTANCE AgentReports WITH
    Cap <- 2, MaxForwarders <- 3, MaxChanges <- 1, MaxFaults <- 1, MaxDeaths <- 1,
    MaxSessions <- 2, MaxLinks <- 1, MaxRefreshes <- 0, fwd <- reportFwd, hub <- reportHub

-----------------------------------------------------------------------------
\* PrinterCommands. The worker and the printer it commands.
VARIABLES dev, cq, sub, nextId, cmdOp, cmdCount, cache, cmdLease, cmdFwd, cmdHub, last,
          took, changes, cmdFaults
cmdVars == <<dev, cq, sub, nextId, cmdOp, cmdCount, cache, cmdLease, cmdFwd, cmdHub, last,
             took, changes, cmdFaults>>
\* Operations that match an answer to its request.
Answers == INSTANCE PrinterCommands WITH
    Cap <- 2, Span <- 9, Kinds <- {"plain", "toggle", "ams", "session"}, StudioIds <- {},
    MaxOps <- 3, MaxChanges <- 0, MaxFaults <- 1, op <- cmdOp, count <- cmdCount,
    lease <- cmdLease, fwd <- cmdFwd, hub <- cmdHub, faults <- cmdFaults
\* Axis commands and reports that take the feature back.
Gates == INSTANCE PrinterCommands WITH
    Cap <- 2, Span <- 9, Kinds <- {"axis", "session"}, StudioIds <- {}, MaxOps <- 3,
    MaxChanges <- 1, MaxFaults <- 1, op <- cmdOp, count <- cmdCount, lease <- cmdLease,
    fwd <- cmdFwd, hub <- cmdHub, faults <- cmdFaults
\* The other operations.
OtherKinds == INSTANCE PrinterCommands WITH
    Cap <- 2, Span <- 9, Kinds <- {"set", "session", "zero", "print", "refresh"},
    StudioIds <- {}, MaxOps <- 3, MaxChanges <- 0, MaxFaults <- 1, op <- cmdOp,
    count <- cmdCount, lease <- cmdLease, fwd <- cmdFwd, hub <- cmdHub, faults <- cmdFaults

-----------------------------------------------------------------------------
\* CameraSessions. The relay of one tenant.
VARIABLES http, info, reg, q, camCount, aborts, camSess, camConn, epoch, chan, closing,
          camTask, camTasks, full, made, rpc, ev, lost
camVars == <<http, info, reg, q, camCount, aborts, camSess, camConn, epoch, chan, closing,
             camTask, camTasks, full, made, rpc, ev, lost>>
\* Three responses race for one camera.
Streams == INSTANCE CameraSessions WITH
    Ids <- {1, 2, 3}, Printers <- {"x1"}, Model <- [p \in {"x1"} |-> "rtsp"],
    Configured <- {"x1"}, MaxStreams <- 2, QueueCap <- 1, ChanCap <- 1, AgentLimit <- 1,
    MaxSess <- 1, MaxFrames <- 0, MayClose <- FALSE, count <- camCount, sess <- camSess,
    conn <- camConn, task <- camTask, tasks <- camTasks
\* More frames of a local camera than a queue holds.
Framed == INSTANCE CameraSessions WITH
    Ids <- {1, 2}, Printers <- {"a1"}, Model <- [p \in {"a1"} |-> CameraOf[p]],
    Configured <- {"a1"}, MaxStreams <- 2, QueueCap <- 1, ChanCap <- 1, AgentLimit <- 1,
    MaxSess <- 1, MaxFrames <- 2, MayClose <- FALSE, count <- camCount, sess <- camSess,
    conn <- camConn, task <- camTask, tasks <- camTasks
\* One camera of each kind.
Cameras == INSTANCE CameraSessions WITH
    Ids <- {1, 2}, Printers <- {"x1", "a1", "h1"}, Model <- CameraOf,
    Configured <- {"x1", "a1"}, MaxStreams <- 2, QueueCap <- 1, ChanCap <- 1,
    AgentLimit <- 2, MaxSess <- 1, MaxFrames <- 0, MayClose <- FALSE, count <- camCount,
    sess <- camSess, conn <- camConn, task <- camTask, tasks <- camTasks
\* The hub closes the session, the agent comes back.
ClosedStreams == INSTANCE CameraSessions WITH
    Ids <- {1, 2}, Printers <- {"x1"}, Model <- [p \in {"x1"} |-> "rtsp"],
    Configured <- {"x1"}, MaxStreams <- 2, QueueCap <- 1, ChanCap <- 1, AgentLimit <- 2,
    MaxSess <- 2, MaxFrames <- 0, MayClose <- TRUE, count <- camCount, sess <- camSess,
    conn <- camConn, task <- camTask, tasks <- camTasks

-----------------------------------------------------------------------------
\* FirmwareControl. The commands of one printer.
VARIABLES registered, removed, fw, ctlRow, pending, tokens, claim, ctlLease, prep, ctlExec,
          expired, expiry, ctlConn, gen, rev, seen, reservation, ctlTask, down, up, got,
          ctlFaults
ctlVars == <<registered, removed, fw, ctlRow, pending, tokens, claim, ctlLease, prep,
             ctlExec, expired, expiry, ctlConn, gen, rev, seen, reservation, ctlTask, down,
             up, got, ctlFaults>>
\* Two requests execute one prepared control.
Fence == INSTANCE FirmwareControl WITH
    Sessions <- {"s1"}, Controls <- {"c1"}, Refreshes <- {}, MaxRev <- 0,
    Requests <- {"r1", "r2"}, MaxGen <- 1, MaxFaults <- 0, row <- ctlRow, lease <- ctlLease,
    exec <- ctlExec, conn <- ctlConn, task <- ctlTask, faults <- ctlFaults
\* Two sessions, two generations.
Reconnects == INSTANCE FirmwareControl WITH
    Sessions <- {"s1", "s2"}, Controls <- {"c1"}, Refreshes <- {}, MaxRev <- 0,
    Requests <- {"r1"}, MaxGen <- 2, MaxFaults <- 0, row <- ctlRow, lease <- ctlLease,
    exec <- ctlExec, conn <- ctlConn, task <- ctlTask, faults <- ctlFaults
\* A failed database call or a crash.
Faults == INSTANCE FirmwareControl WITH
    Sessions <- {"s1", "s2"}, Controls <- {"c1"}, Refreshes <- {}, MaxRev <- 0,
    Requests <- {"r1"}, MaxGen <- 1, MaxFaults <- 1, row <- ctlRow, lease <- ctlLease,
    exec <- ctlExec, conn <- ctlConn, task <- ctlTask, faults <- ctlFaults
\* Two refreshes race with report snapshots.
Versions == INSTANCE FirmwareControl WITH
    Sessions <- {"s1"}, Controls <- {}, Refreshes <- {"f1", "f2"}, Requests <- {"r1"},
    MaxGen <- 1, MaxRev <- 2, MaxFaults <- 0, row <- ctlRow, lease <- ctlLease,
    exec <- ctlExec, conn <- ctlConn, task <- ctlTask, faults <- ctlFaults

-----------------------------------------------------------------------------
\* FirmwareSession. The pumps of one reverse session.
VARIABLES mqttOp, pump, mqttTasks, lock, reverse, reaping, reported
mqttVars == <<mqttOp, pump, mqttTasks, lock, reverse, reaping, reported>>
\* A control and a refresh at once.
PumpsOfTwo == INSTANCE FirmwareSession WITH
    Controls <- {"c1"}, Refreshes <- {"r1"}, MaxAttempts <- 1, MaxReports <- 1,
    op <- mqttOp, tasks <- mqttTasks
\* A refresh that tries twice.
PumpsOfRefresh == INSTANCE FirmwareSession WITH
    Controls <- {}, Refreshes <- {"r1"}, MaxAttempts <- 2, MaxReports <- 2, op <- mqttOp,
    tasks <- mqttTasks

-----------------------------------------------------------------------------
\* ErrorRecovery. One printer and its native recoveries.
VARIABLES pr, away, inbox, recSess, recRow, coarse, known, view, token, cmds, recExec
recVars == <<pr, away, inbox, recSess, recRow, coarse, known, view, token, cmds, recExec>>
\* One error, over two sessions.
Occurrences == INSTANCE ErrorRecovery WITH
    Users <- {"u1"}, Errors <- {1}, Jobs <- {j1}, Family <- "22E", MaxInbox <- 1,
    Plugins <- {}, Tasks <- {7}, Files <- {f1}, MaxStarts <- 1, MaxEpisodes <- 1,
    MaxSessions <- 2, MaxGaps <- 0, MaxCommands <- 1, sess <- recSess, row <- recRow,
    exec <- recExec
\* One error raised twice.
RaisedAgain == INSTANCE ErrorRecovery WITH
    Users <- {"u1"}, Errors <- {1}, Jobs <- {j1}, Family <- "22E", MaxInbox <- 1,
    Plugins <- {}, Tasks <- {7}, Files <- {f1}, MaxStarts <- 1, MaxEpisodes <- 2,
    MaxSessions <- 1, MaxGaps <- 0, MaxCommands <- 1, sess <- recSess, row <- recRow,
    exec <- recExec
\* The agent loses the printer while prints change.
Gaps == INSTANCE ErrorRecovery WITH
    Users <- {"u1"}, Errors <- {1}, Jobs <- {j1}, Family <- "22E", MaxInbox <- 1,
    Plugins <- {}, Tasks <- {0}, Files <- {f1, f2}, MaxStarts <- 2, MaxEpisodes <- 1,
    MaxSessions <- 1, MaxGaps <- 1, MaxCommands <- 1, sess <- recSess, row <- recRow,
    exec <- recExec
\* A browser and a plugin ask for recoveries.
Overlaps == INSTANCE ErrorRecovery WITH
    Users <- {"u1"}, Errors <- {1}, Jobs <- {j1}, Family <- "22E", MaxInbox <- 1,
    Plugins <- {"p1"}, Tasks <- {7}, Files <- {f1}, MaxStarts <- 1, MaxEpisodes <- 1,
    MaxSessions <- 2, MaxGaps <- 0, MaxCommands <- 2, sess <- recSess, row <- recRow,
    exec <- recExec

-----------------------------------------------------------------------------
Parts == {"reports", "sessions", "answers", "gates", "kinds", "streams", "frames",
          "cameras", "closed", "controls", "reconnects", "faults", "versions", "pumps",
          "attempts", "occurrences", "errors", "gaps", "overlaps"}

\* What the components assume of their constants.
ASSUME ConstantsOK ==
    /\ Reports!Bounds /\ Restarts!Bounds
    /\ Answers!Bounds /\ Gates!Bounds /\ OtherKinds!Bounds
    /\ Streams!CameraAssumption /\ Framed!CameraAssumption
    /\ Cameras!CameraAssumption /\ ClosedStreams!CameraAssumption
    /\ Fence!FirmwareAssumption /\ Reconnects!FirmwareAssumption /\ Faults!FirmwareAssumption
    /\ Versions!FirmwareAssumption
    /\ PumpsOfTwo!SessionAssumption /\ PumpsOfRefresh!SessionAssumption
    /\ Occurrences!RecoveryAssumption /\ RaisedAgain!RecoveryAssumption
    /\ Gaps!RecoveryAssumption /\ Overlaps!RecoveryAssumption

Init ==
    /\ part \in Parts
    /\ IF part = "sessions" THEN Restarts!Init
       ELSE Reports!Init
    /\ IF part = "gates" THEN Gates!Init
       ELSE IF part = "kinds" THEN OtherKinds!Init
       ELSE Answers!Init
    /\ IF part = "frames" THEN Framed!Init
       ELSE IF part = "cameras" THEN Cameras!Init
       ELSE IF part = "closed" THEN ClosedStreams!Init
       ELSE Streams!Init
    /\ IF part = "reconnects" THEN Reconnects!Init
       ELSE IF part = "faults" THEN Faults!Init
       ELSE IF part = "versions" THEN Versions!Init
       ELSE Fence!Init
    /\ IF part = "attempts" THEN PumpsOfRefresh!Init
       ELSE PumpsOfTwo!Init
    /\ IF part = "errors" THEN RaisedAgain!Init
       ELSE IF part = "gaps" THEN Gaps!Init
       ELSE IF part = "overlaps" THEN Overlaps!Init
       ELSE Occurrences!Init

vars == <<part, reportVars, cmdVars, camVars, ctlVars, mqttVars, recVars>>

\* What rests while a component moves.
reportRest == <<part, cmdVars, camVars, ctlVars, mqttVars, recVars>>
cmdRest == <<part, reportVars, camVars, ctlVars, mqttVars, recVars>>
camRest == <<part, reportVars, cmdVars, ctlVars, mqttVars, recVars>>
ctlRest == <<part, reportVars, cmdVars, camVars, mqttVars, recVars>>
mqttRest == <<part, reportVars, cmdVars, camVars, ctlVars, recVars>>
recRest == <<part, reportVars, cmdVars, camVars, ctlVars, mqttVars>>

Next ==
    \/ part = "reports" /\ Reports!Next /\ UNCHANGED reportRest
    \/ part = "sessions" /\ Restarts!Next /\ UNCHANGED reportRest
    \/ part = "answers" /\ Answers!Next /\ UNCHANGED cmdRest
    \/ part = "gates" /\ Gates!Next /\ UNCHANGED cmdRest
    \/ part = "kinds" /\ OtherKinds!Next /\ UNCHANGED cmdRest
    \/ part = "streams" /\ Streams!Next /\ UNCHANGED camRest
    \/ part = "frames" /\ Framed!Next /\ UNCHANGED camRest
    \/ part = "cameras" /\ Cameras!Next /\ UNCHANGED camRest
    \/ part = "closed" /\ ClosedStreams!Next /\ UNCHANGED camRest
    \/ part = "controls" /\ Fence!Next /\ UNCHANGED ctlRest
    \/ part = "reconnects" /\ Reconnects!Next /\ UNCHANGED ctlRest
    \/ part = "faults" /\ Faults!Next /\ UNCHANGED ctlRest
    \/ part = "versions" /\ Versions!Next /\ UNCHANGED ctlRest
    \/ part = "pumps" /\ PumpsOfTwo!Next /\ UNCHANGED mqttRest
    \/ part = "attempts" /\ PumpsOfRefresh!Next /\ UNCHANGED mqttRest
    \/ part = "occurrences" /\ Occurrences!OccurrenceStep /\ UNCHANGED recRest
    \/ part = "errors" /\ RaisedAgain!OccurrenceStep /\ UNCHANGED recRest
    \/ part = "gaps" /\ Gaps!GapStep /\ UNCHANGED recRest
    \/ part = "overlaps" /\ Overlaps!OverlapStep /\ UNCHANGED recRest

Spec == Init /\ [][Next]_vars

-----------------------------------------------------------------------------
\* What is checked.

\* Once nothing is under way the hub has everything the printer said, a forwarder
\* that believes it has sent the offline event is right, and sessions, relinks and
\* retries leave one forwarder per printer (mqtt/reports/forwarding.rs).
ReportsAccounted == 
    /\ part = "reports" => Reports!TypeOK /\ Reports!OneForwarder
    /\ part = "sessions" => Restarts!OneForwarder
    /\ part \in {"reports", "sessions"} =>
          Reports!NothingLostUnnoticed /\ Reports!PresenceAgrees

\* The outcome of an operation is the printer's answer to that very operation
\* (machine/mqtt/commands.rs).
OutcomeIsOwn == 
    /\ part = "answers" => Answers!TypeOK
    /\ part \in {"answers", "gates", "kinds"} => Answers!OutcomeIsOwn

\* One permit per camera response that is being opened or read, no handle of a
\* response that has gone, at most one registered stream per printer, no more
\* camera tasks than the agent's limit, and no frame larger than the hub accepts
\* (camera_sessions.rs).
CamerasExact == 
    /\ part = "streams" => Streams!CapacityExact /\ Streams!OnePerPrinter /\ Streams!AgentBounded
    /\ part = "closed" => ClosedStreams!CapacityExact
    /\ part = "cameras" => Cameras!TypeOK
    /\ part = "frames" => Framed!ChunksFit /\ Framed!CapacityExact
    /\ part \in {"streams", "frames", "cameras", "closed"} => Streams!HandleOwned

\* A firmware control the printer received is never recorded as failed before
\* publish, is executed at most once, and a request was told what the ledger says;
\* module revisions travel in order.  In the agent a control that failed "before
\* publish" never reached the wire, no pump outlives the operation it serves, the
\* shared mutex is awaited under only for a pump that is ending, an attempt gets
\* its own answer and a pump's error is reported once (firmware_control).
FirmwareHonest == 
    /\ part = "controls" => Fence!HonestOutcome /\ Fence!AtMostOnce
    /\ part = "reconnects" => /\ Reconnects!TypeOK
                             /\ Reconnects!HonestOutcome /\ Reconnects!AtMostOnce
    /\ part = "faults" => Faults!HonestOutcome /\ Faults!AnswerIsRecorded
    /\ part = "versions" => Versions!RevisionsInOrder
    /\ part = "pumps" => /\ PumpsOfTwo!TypeOK /\ PumpsOfTwo!FailedMeansUnsent
                        /\ PumpsOfTwo!NoPumpLeft /\ PumpsOfTwo!LockIsBrief
    /\ part = "attempts" => PumpsOfRefresh!OwnAnswer /\ PumpsOfRefresh!ReportedOnce

\* A recovery answers the occurrence of the error, and the print, that the browser
\* was shown; an occurrence the row shows can be answered; and the agent never
\* executes two native recoveries of one printer at a time
\* (printer_operations/recovery.rs, sessions/live_commands.rs).
AnswersTheErrorSeen == 
    /\ part = "occurrences" => Occurrences!TypeOK /\ Occurrences!Recoverable
    /\ part = "errors" => RaisedAgain!Recoverable
    /\ part \in {"occurrences", "errors"} => Occurrences!AnswersTheErrorSeen
    /\ part = "gaps" => Gaps!AnswersThePrintSeen
    /\ part = "overlaps" => Overlaps!NativeOperationsDoNotOverlap

\* What was checked before an await still holds at the step: only a full report
\* revives a printer the forwarder declared offline, an axis command leaves while
\* the feature is observed, the printer gets a control only in the generation it
\* was prepared for and only while its operation is there to learn of it.
GuardsHoldAtTheStep == 
    [][ /\ part = "reports" => Reports!RevivedByFullReportStep
        /\ part = "gates" => Gates!GateHoldsStep
        /\ part = "reconnects" => Reconnects!PublishedInItsGenerationStep
        /\ part = "pumps" => PumpsOfTwo!SentInTimeStep ]_vars
=============================================================================
