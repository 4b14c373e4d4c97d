-------- MODULE MCEdgeEnds --------
(* What the agent, the plugin and the hub's front door owe: reports that      *)
(* arrive, operations and calls that end.  The components share no state, so  *)
(* one of them moves in a behaviour while the others rest.                    *)
EXTENDS Naturals, Sequences, FiniteSets

CONSTANTS None, NoVal, TeardownTask, f1, j1

\* Contents are of one size.
SizeOf(c) == 1

VARIABLE part  \* the component that takes steps in this behaviour

-----------------------------------------------------------------------------
\* AgentReports. One printer, a refresh and a reboot.
VARIABLES printer, reportFwd, cur, spawned, session, linking, refresh, reportHub, reportUsed
reportVars == <<printer, reportFwd, cur, spawned, session, linking, refresh, reportHub,
                reportUsed>>
Reports == INSTANCE AgentReports WITH
    Cap <- 2, MaxForwarders <- 1, MaxChanges <- 1, MaxFaults <- 1, MaxDeaths <- 0,
    MaxSessions <- 1, MaxLinks <- 0, MaxRefreshes <- 1, fwd <- reportFwd, hub <- reportHub,
    used <- reportUsed

-----------------------------------------------------------------------------
\* PrinterCommands. Operations of one worker.
VARIABLES dev, cq, sub, nextId, cmdOp, cmdCount, cmdCache, cmdLease, cmdFwd, cmdHub, last,
          took, changes, cmdFaults
cmdVars == <<dev, cq, sub, nextId, cmdOp, cmdCount, cmdCache, cmdLease, cmdFwd, cmdHub,
             last, took, changes, cmdFaults>>
Operations == INSTANCE PrinterCommands WITH
    Cap <- 2, Span <- 9, Kinds <- {"axis", "session", "nozzle"}, StudioIds <- {},
    MaxOps <- 2, MaxChanges <- 1, MaxFaults <- 1, op <- cmdOp, count <- cmdCount,
    cache <- cmdCache, lease <- cmdLease, fwd <- cmdFwd, hub <- cmdHub, faults <- cmdFaults

-----------------------------------------------------------------------------
\* CameraSessions. Two responses on one camera.
VARIABLES http, info, reg, q, camCount, aborts, camSess, camConn, camEpoch, chan, closing,
          camTask, camTasks, full, made, rpc, ev, lost
camVars == <<http, info, reg, q, camCount, aborts, camSess, camConn, camEpoch, chan,
             closing, camTask, camTasks, full, made, rpc, ev, lost>>
Cameras == INSTANCE CameraSessions WITH
    Ids <- {1, 2}, Printers <- {"x1"}, Model <- [p \in {"x1"} |-> "rtsp"],
    Configured <- {"x1"}, MaxStreams <- 2, QueueCap <- 1, ChanCap <- 1, AgentLimit <- 2,
    MaxSess <- 1, MaxFrames <- 0, MayClose <- FALSE, count <- camCount, sess <- camSess,
    conn <- camConn, epoch <- camEpoch, task <- camTask, tasks <- camTasks

-----------------------------------------------------------------------------
\* FirmwareControl. A firmware control over two sessions.
VARIABLES registered, removed, fw, fwRow, pending, tokens, claim, fwLease, prep, fwExec,
          expired, expiry, fwConn, gen, rev, fwSeen, reservation, fwTask, down, up, got,
          fwFaults
fwVars == <<registered, removed, fw, fwRow, pending, tokens, claim, fwLease, prep, fwExec,
            expired, expiry, fwConn, gen, rev, fwSeen, reservation, fwTask, down, up, got,
            fwFaults>>
Firmware == INSTANCE FirmwareControl WITH
    Sessions <- {"s1"}, Controls <- {"c1"}, Refreshes <- {}, Requests <- {"r1"},
    MaxGen <- 1, MaxRev <- 0, MaxFaults <- 1, row <- fwRow, lease <- fwLease,
    exec <- fwExec, conn <- fwConn, seen <- fwSeen, task <- fwTask, faults <- fwFaults

-----------------------------------------------------------------------------
\* FirmwareSession. A control in one reverse session.
VARIABLES mqttOp, pump, mqttTasks, mqttLock, reverse, reaping, reported
mqttVars == <<mqttOp, pump, mqttTasks, mqttLock, reverse, reaping, reported>>
PumpOfControl == INSTANCE FirmwareSession WITH
    Controls <- {"c1"}, Refreshes <- {}, MaxAttempts <- 1, MaxReports <- 1, op <- mqttOp,
    tasks <- mqttTasks, lock <- mqttLock

-----------------------------------------------------------------------------
\* ErrorRecovery. A browser and a plugin ask for recoveries.
VARIABLES pr, away, inbox, recSess, recRow, coarse, known, view, token, cmds, recExec
recVars == <<pr, away, inbox, recSess, recRow, coarse, known, view, token, cmds, recExec>>
Recoveries == INSTANCE ErrorRecovery WITH
    Users <- {"u1"}, Errors <- {1}, Jobs <- {j1}, Family <- "22E", MaxInbox <- 1,
    Plugins <- {"p1"}, Tasks <- {7}, Files <- {f1}, MaxStarts <- 1, MaxEpisodes <- 1,
    MaxSessions <- 1, MaxGaps <- 0, MaxCommands <- 2, sess <- recSess, row <- recRow,
    exec <- recExec

-----------------------------------------------------------------------------
\* AccountLogout. Two callers of one session.
VARIABLES word, outLock, comp, asleep, th, outCalls, sealed
outVars == <<word, outLock, comp, asleep, th, outCalls, sealed>>
Logouts == INSTANCE AccountLogout WITH
    Threads <- {"t1", "t2"}, MaxGen <- 4, MaxCalls <- 2, lock <- outLock, calls <- outCalls

-----------------------------------------------------------------------------
\* PluginLifetime. A plugin object that waits logged out, and one that is signed in.
VARIABLES pc, held, life, gate, plugAccount, plugEpoch, plugStop, woken, plugTask, told,
          destroy, returned, freed
plugVars == <<pc, held, life, gate, plugAccount, plugEpoch, plugStop, woken, plugTask, told,
              destroy, returned, freed>>
Lifetime == INSTANCE PluginLifetime WITH
    Studio <- {"main"}, LoggedOut <- TRUE, MaxTasks <- 1, MaxEpoch <- 0,
    account <- plugAccount, epoch <- plugEpoch, stop <- plugStop, task <- plugTask
\* Signed in, where the status worker waits without a time-out.
SignedIn == INSTANCE PluginLifetime WITH
    Studio <- {"main"}, LoggedOut <- FALSE, MaxTasks <- 0, MaxEpoch <- 0,
    account <- plugAccount, epoch <- plugEpoch, stop <- plugStop, task <- plugTask

-----------------------------------------------------------------------------
\* StudioPrint. One print submission.
VARIABLES live, printStop, late, job, past, retries, call, printSeen, ret
printVars == <<live, printStop, late, job, past, retries, call, printSeen, ret>>
Submission == INSTANCE StudioPrint WITH
    Chunks <- 1, MaxVersion <- 0, MaxRetries <- 0, stop <- printStop, seen <- printSeen

-----------------------------------------------------------------------------
\* PersonalPresets. A request and a list.
VARIABLES users, rows, presetUsed, clock, now, presetLock, req, presetAccount, stale,
          presetCache, list, drain, presetCalls, studio
presetVars == <<users, rows, presetUsed, clock, now, presetLock, req, presetAccount, stale,
                presetCache, list, drain, presetCalls, studio>>
Presets == INSTANCE PersonalPresets WITH
    Ids <- {"i1"}, Names <- {"n1"}, Size <- SizeOf, Envelope <- 1, StudioFields <- 1,
    MaxMapBytes <- 4, PresetLimit <- 1, Owners <- {"u1"}, Studios <- {"s1"},
    Requests <- {"q1"}, Contents <- {"a"}, MaxTime <- 1, MaxEpoch <- 0, MaxCalls <- 1,
    used <- presetUsed, lock <- presetLock, account <- presetAccount, cache <- presetCache,
    calls <- presetCalls

-----------------------------------------------------------------------------
Parts == {"reports", "operations", "cameras", "firmware", "pumps", "recoveries", "logouts",
          "lifetime", "signed in", "submission", "presets"}

\* What the components assume of their constants.
ASSUME ConstantsOK ==
    /\ Reports!Bounds /\ Operations!Bounds /\ Cameras!CameraAssumption
    /\ Firmware!FirmwareAssumption /\ PumpOfControl!SessionAssumption
    /\ Recoveries!RecoveryAssumption /\ Logouts!LogoutAssumption
    /\ Submission!ConstantsAssumption /\ Presets!PresetsAssumption

Init ==
    /\ part \in Parts
    /\ Reports!Init
    /\ Operations!Init
    /\ Cameras!Init
    /\ Firmware!Init
    /\ PumpOfControl!Init
    /\ Recoveries!Init
    /\ Logouts!Init
    /\ IF part = "signed in" THEN SignedIn!LifeInit
       ELSE Lifetime!LifeInit
    /\ Submission!Init
    /\ Presets!Init

vars == <<part, reportVars, cmdVars, camVars, fwVars, mqttVars, recVars, outVars, plugVars,
          printVars, presetVars>>

\* What rests while a component moves.
reportRest == <<part, cmdVars, camVars, fwVars, mqttVars, recVars, outVars, plugVars,
                printVars, presetVars>>
cmdRest == <<part, reportVars, camVars, fwVars, mqttVars, recVars, outVars, plugVars,
             printVars, presetVars>>
camRest == <<part, reportVars, cmdVars, fwVars, mqttVars, recVars, outVars, plugVars,
             printVars, presetVars>>
fwRest == <<part, reportVars, cmdVars, camVars, mqttVars, recVars, outVars, plugVars,
            printVars, presetVars>>
mqttRest == <<part, reportVars, cmdVars, camVars, fwVars, recVars, outVars, plugVars,
              printVars, presetVars>>
recRest == <<part, reportVars, cmdVars, camVars, fwVars, mqttVars, outVars, plugVars,
             printVars, presetVars>>
outRest == <<part, reportVars, cmdVars, camVars, fwVars, mqttVars, recVars, plugVars,
             printVars, presetVars>>
plugRest == <<part, reportVars, cmdVars, camVars, fwVars, mqttVars, recVars, outVars,
              printVars, presetVars>>
printRest == <<part, reportVars, cmdVars, camVars, fwVars, mqttVars, recVars, outVars,
               plugVars, presetVars>>
presetRest == <<part, reportVars, cmdVars, camVars, fwVars, mqttVars, recVars, outVars,
                plugVars, printVars>>

Next ==
    \/ part = "reports" /\ Reports!TimelyNext /\ UNCHANGED reportRest
    \/ part = "operations" /\ Operations!Next /\ UNCHANGED cmdRest
    \/ part = "cameras" /\ Cameras!Next /\ UNCHANGED camRest
    \/ part = "firmware" /\ Firmware!Next /\ UNCHANGED fwRest
    \/ part = "pumps" /\ PumpOfControl!Next /\ UNCHANGED mqttRest
    \/ part = "recoveries" /\ Recoveries!OverlapStep /\ UNCHANGED recRest
    \/ part = "logouts" /\ Logouts!Next /\ UNCHANGED outRest
    \/ part = "lifetime" /\ Lifetime!LifeNext /\ UNCHANGED plugRest
    \/ part = "signed in" /\ SignedIn!LifeNext /\ UNCHANGED plugRest
    \/ part = "submission" /\ Submission!Next /\ UNCHANGED printRest
    \/ part = "presets" /\ Presets!Next /\ UNCHANGED presetRest

Spec == Init /\ [][Next]_vars

\* What the scheduling of the code gives each component; see its own fairness.  Only one
\* part moves in a behaviour, so strong fairness of a disjunction over parts is strong
\* fairness of each disjunct.
WeakFairness ==
    /\ WF_reportVars(part = "reports" /\ Reports!PrinterAnswers)
    /\ WF_reportVars(part = "reports" /\ Reports!SessionPrepared)
    /\ WF_reportVars(part = "reports" /\ Reports!SessionTornDown)
    /\ WF_reportVars(part = "reports" /\ Reports!LinkStops)
    /\ WF_reportVars(part = "reports" /\ Reports!LinkSends)
    /\ WF_reportVars(part = "reports" /\ Reports!LinkStarts)
    /\ WF_reportVars(part = "reports" /\ Reports!RefreshSends)
    /\ WF_reportVars(part = "reports" /\ Reports!StaleIsNoticed(1))
    /\ WF_reportVars(part = "reports" /\ Reports!PollConnects(1))
    /\ WF_reportVars(part = "reports" /\ Reports!PollSends(1))
    /\ WF_reportVars(part = "reports" /\ Reports!ForwarderStarts(1))
    /\ WF_reportVars(/\ part = "reports"
                     /\ \/ Reports!ForwarderForwards(1)
                        \/ Reports!ForwarderFails(1))
    /\ WF_reportVars(part = "reports" /\ Reports!ForwarderIdles(1))
    /\ WF_reportVars(part = "reports" /\ Reports!ForwarderRetries(1))
    /\ WF_reportVars(part = "reports" /\ Reports!ForwarderReturns(1))
    /\ WF_cmdVars(part = "operations" /\ Operations!DevHandles)
    /\ WF_cmdVars(part = "operations" /\ Operations!ForwarderAsks)
    /\ WF_cmdVars(part = "operations" /\ Operations!ForwarderUpdates)
    /\ WF_cmdVars(part = "operations" /\ Operations!ForwarderSends)
    /\ WF_cmdVars(part = "operations" /\ Operations!ReportStep)
    /\ WF_cmdVars(part = "operations" /\ Operations!AxisStep)
    /\ WF_cmdVars(part = "operations" /\ Operations!RecoveryEnds)
    /\ WF_cmdVars(part = "operations" /\ Operations!PrintEnds)
    /\ \A i \in {1, 2} : WF_camVars(part = "cameras" /\ Cameras!AbortStream(i))
    /\ \A i \in {1, 2} : WF_camVars(part = "cameras" /\ Cameras!Wire(i))
    /\ \A i \in {1, 2} : WF_camVars(part = "cameras" /\ Cameras!Agent(i))
    /\ \A i \in {1, 2} : WF_camVars(part = "cameras" /\ Cameras!Register(i))
    /\ \A i \in {1, 2} : WF_camVars(part = "cameras" /\ Cameras!SendOpen(i))
    /\ WF_camVars(part = "cameras" /\ Cameras!ClosedByHub)
    /\ WF_camVars(part = "cameras" /\ Cameras!CloseSession)
    /\ WF_fwVars(part = "firmware" /\ Firmware!CancelSession("s1"))
    /\ WF_fwVars(part = "firmware" /\ Firmware!LifetimePasses("c1"))
    /\ WF_fwVars(part = "firmware" /\ Firmware!ExpireUnregistered("c1"))
    /\ WF_fwVars(part = "firmware" /\ Firmware!Finish("c1"))
    /\ WF_fwVars(part = "firmware" /\ Firmware!Sweep("c1"))
    /\ WF_fwVars(/\ part = "firmware"
                 /\ \/ Firmware!DispatchCommand("c1")
                    \/ Firmware!DispatchAbandoned("c1")
                    \/ Firmware!DispatchRefused("c1"))
    /\ WF_fwVars(/\ part = "firmware"
                 /\ \/ Firmware!ExecuteSend("r1")
                    \/ Firmware!ExecuteSendFails("r1"))
    /\ WF_mqttVars(part = "pumps" /\ PumpOfControl!OpWork("c1"))
    /\ WF_mqttVars(part = "pumps" /\ PumpOfControl!Drop("c1"))
    /\ WF_mqttVars(part = "pumps" /\ PumpOfControl!PumpWork(<<"c1", 1>>))
    /\ WF_mqttVars(part = "pumps" /\ PumpOfControl!Reaping)
    /\ WF_mqttVars(part = "pumps" /\ PumpOfControl!AbortNext)
    /\ WF_mqttVars(part = "pumps" /\ PumpOfControl!AbortJoined)
    /\ \A i \in {1, 2} : WF_recVars(part = "recoveries" /\ Recoveries!Progress(i))
    /\ WF_recVars(part = "recoveries" /\ Recoveries!RemovesLost)
    /\ \A t \in {"t1", "t2"} : WF_outVars(part = "logouts" /\ Logouts!Step(t))
    /\ \A t \in {"main", "status", "firmware", "model", "deferred"} :
         WF_plugVars(part = "lifetime" /\ Lifetime!Step(t))
    /\ WF_plugVars(part = "lifetime" /\ Lifetime!StatusChecks)
    /\ WF_plugVars(part = "lifetime" /\ Lifetime!StatusSleeps)
    /\ WF_plugVars(part = "lifetime" /\ Lifetime!StatusTimeout)
    /\ WF_plugVars(part = "lifetime" /\ Lifetime!TakeTask)
    /\ WF_plugVars(part = "lifetime" /\ Lifetime!TaskAnswered)
    /\ WF_plugVars(part = "lifetime" /\ Lifetime!TaskGate)
    /\ WF_plugVars(part = "lifetime" /\ Lifetime!TaskReleases)
    /\ WF_plugVars(part = "lifetime" /\ Lifetime!TaskDone)
    /\ \A t \in {"main", "status", "firmware", "model", "deferred"} :
         WF_plugVars(part = "signed in" /\ SignedIn!Step(t))
    /\ WF_plugVars(part = "signed in" /\ SignedIn!StatusChecks)
    /\ WF_plugVars(part = "signed in" /\ SignedIn!StatusSleeps)
    /\ WF_plugVars(part = "signed in" /\ SignedIn!TakeTask)
    /\ WF_plugVars(part = "signed in" /\ SignedIn!TaskAnswered)
    /\ WF_plugVars(part = "signed in" /\ SignedIn!TaskGate)
    /\ WF_plugVars(part = "signed in" /\ SignedIn!TaskReleases)
    /\ WF_plugVars(part = "signed in" /\ SignedIn!TaskDone)
    /\ WF_printVars(part = "submission" /\ Submission!Plugin)
    /\ WF_printVars(part = "submission" /\ Submission!Requests)
    /\ WF_printVars(part = "submission" /\ Submission!Timer)
    /\ WF_presetVars(/\ part = "presets"
                     /\ \/ Presets!LockOwner("q1")
                        \/ Presets!Read("q1")
                        \/ Presets!Commit("q1")
                        \/ Presets!Rollback("q1")
                        \/ Presets!Answer("q1")
                        \/ Presets!GiveUp("q1"))
    /\ WF_presetVars(/\ part = "presets"
                     /\ \/ Presets!ListFetch("s1")
                        \/ Presets!ListItem("s1")
                        \/ Presets!ListChecks("s1")
                        \/ Presets!ListPublishes("s1"))
    /\ WF_presetVars(part = "presets" /\ Presets!DrainEnd("s1"))

StrongFairness ==
    /\ SF_vars(\/ part = "reports" /\ Reports!TimelyAsk(1) /\ UNCHANGED reportRest
               \/ part = "operations" /\ Operations!TimesOut /\ UNCHANGED cmdRest
               \/ part = "firmware" /\ Firmware!ExpirePrepare("c1") /\ UNCHANGED fwRest
               \/ part = "lifetime" /\ Lifetime!TaskTakesGate /\ UNCHANGED plugRest
               \/ part = "signed in" /\ SignedIn!TaskTakesGate /\ UNCHANGED plugRest)

FairSpec == Spec /\ WeakFairness /\ StrongFairness

-----------------------------------------------------------------------------
\* What is checked, by component.

\* A printer that is there comes back on the hub with all it has to say and with
\* its feature value, and one that stays away ends up offline; no operation keeps the
\* command worker for ever; a camera task whose response has gone ends, unless its
\* Close was lost; a firmware command gets a terminal row whatever was lost, the
\* publish transition is given back and the teardown ends; the slot of the model task
\* is given back; every recovery, logout call, preset call and print submission ends;
\* a destroy ends while signed out, and signed in unless the status worker missed the
\* notification that stop_status_heartbeat sends without its mutex.
EverythingEnds == 
    /\ part = "reports" => Reports!AliveIsShown /\ Reports!DeadIsNoticed
    /\ part = "operations" => Operations!OperationEnds /\ Operations!HubLearnsFeature
    /\ part = "cameras" => Cameras!StopsAtAgent
    /\ part = "firmware" => Firmware!CommandsEnd
    /\ part = "pumps" => PumpOfControl!TransitionEnds /\ PumpOfControl!TeardownEnds
    /\ part = "recoveries" => Recoveries!RecoveryEnds
    /\ part = "logouts" => Logouts!CallsReturn
    /\ part = "lifetime" => Lifetime!DestroyEnds /\ Lifetime!SlotReturns
    /\ part = "signed in" => SignedIn!DestroyEnds
    /\ part = "submission" => Submission!Returns
    /\ part = "presets" => Presets!CallsEnd
=============================================================================
