-------- MODULE MCHubEnds --------
(* What the hub owes: sessions that are reaped, queues that are emptied,      *)
(* commands that are cleaned up, deletions that drain.  The components share  *)
(* no state, so one of them moves in a behaviour while the others rest.       *)
EXTENDS Naturals, Sequences, FiniteSets

CONSTANTS NoDrainer, NoSession, NoWork, NoCommand

VARIABLE part  \* the component that takes steps in this behaviour

-----------------------------------------------------------------------------
\* AgentSessions. The sessions of one agent on two replicas.
VARIABLES sessRow, sessRegistry, sessLease, sessConn, sessFresh, sessSweep, sessControl,
          sessEpoch, sessClaims, sessFaults
sessVars == <<sessRow, sessRegistry, sessLease, sessConn, sessFresh, sessSweep, sessControl,
              sessEpoch, sessClaims, sessFaults>>
Registry == INSTANCE AgentSessions WITH
    Hubs <- {"h1", "h2"}, Sessions <- {"s1", "s3"},
    HubOf <- [s \in {"s1", "s3"} |-> IF s = "s3" THEN "h2" ELSE "h1"], MaxFaults <- 0,
    Timeouts <- TRUE, row <- sessRow, registry <- sessRegistry, lease <- sessLease,
    conn <- sessConn, fresh <- sessFresh, sweep <- sessSweep, control <- sessControl,
    epoch <- sessEpoch, claims <- sessClaims, faults <- sessFaults

-----------------------------------------------------------------------------
\* CommandDispatch. Two commands whose wakes coalesce.
VARIABLES dispRow, dispRegistry, dispLease, dispConn, dispFresh, dispSweep, dispControl,
          dispEpoch, dispClaims, dispFaults, dispCmd, features, wakes, wake, pump, reply,
          down, dispWork, dispUp, inb, sentOn, deliveries, answer
dispVars == <<dispRow, dispRegistry, dispLease, dispConn, dispFresh, dispSweep, dispControl,
              dispEpoch, dispClaims, dispFaults, dispCmd, features, wakes, wake, pump,
              reply, down, dispWork, dispUp, inb, sentOn, deliveries, answer>>
Wakes == INSTANCE CommandDispatch WITH
    Hubs <- {"h1"}, Sessions <- {"s1"}, HubOf <- [s \in {"s1"} |-> "h1"], MaxFaults <- 0,
    Timeouts <- FALSE, Commands <- {1, 2}, Prints <- {}, Gated <- {}, GcodeLines <- {},
    Capable <- {"s1"}, LossyWakes <- FALSE, row <- dispRow, registry <- dispRegistry,
    lease <- dispLease, conn <- dispConn, fresh <- dispFresh, sweep <- dispSweep,
    control <- dispControl, epoch <- dispEpoch, claims <- dispClaims, faults <- dispFaults,
    cmd <- dispCmd, work <- dispWork, up <- dispUp

-----------------------------------------------------------------------------
\* PrintJobs. A print that falls silent.
VARIABLES jobJob, jobCmd, jobLastId, nextCmd, tx, rep, events, usage, reports
jobVars == <<jobJob, jobCmd, jobLastId, nextCmd, tx, rep, events, usage, reports>>
SilentJobs == INSTANCE PrintJobs WITH
    MaxJobs <- 2, MaxCommands <- 1, MaxPercent <- 1, Workers <- {"w1"}, Replicas <- {"r1"},
    MaxReports <- 1, ReportKinds <- {"job"}, SweepBatch <- 1, job <- jobJob, cmd <- jobCmd,
    lastId <- jobLastId
\* Two silent prints and a sweep that takes one at a time.
SilentBatch == INSTANCE PrintJobs WITH
    MaxJobs <- 2, MaxCommands <- 2, MaxPercent <- 1, Workers <- {"w1"}, Replicas <- {"r1"},
    MaxReports <- 0, ReportKinds <- {"job"}, SweepBatch <- 1, job <- jobJob, cmd <- jobCmd,
    lastId <- jobLastId

-----------------------------------------------------------------------------
\* ArtifactStore. Two uploads and their drainer.
VARIABLES upload, staged, resv, quotaLock, object, rows, storeJob, storeSweep, del,
          storeDrain, failures
storeVars == <<upload, staged, resv, quotaLock, object, rows, storeJob, storeSweep, del,
               storeDrain, failures>>
Drains == INSTANCE ArtifactStore WITH
    Artifacts <- {"a1"}, Owners <- {"t1"}, OwnerOf <- [a \in {"a1"} |-> "t1"],
    SizeOf <- [a \in {"a1"} |-> 1], Jobs <- {"j1"}, Drainers <- {"d1", "d2"},
    MaxStaged <- 2, MaxTenantStaged <- 2, CountLimit <- 2, ByteLimit <- 3, GlobalCount <- 2,
    GlobalBytes <- 4, Retention <- TRUE, MaxFailures <- 2, job <- storeJob,
    sweep <- storeSweep, drain <- storeDrain

-----------------------------------------------------------------------------
\* LiveCommands. A HandlePrintError and two faults.
VARIABLES registered, liveRow, liveConn, live, route, pending, liveDrain, channel, liveWork,
          liveUp, claim, aged, orphaned, liveFaults
liveVars == <<registered, liveRow, liveConn, live, route, pending, liveDrain, channel,
              liveWork, liveUp, claim, aged, orphaned, liveFaults>>
Recoveries == INSTANCE LiveCommands WITH
    Sessions <- {"s1"}, Commands <- {"c1"}, Links <- {}, Mappings <- {}, ChannelSize <- 1,
    MaxFaults <- 2, row <- liveRow, conn <- liveConn, drain <- liveDrain, work <- liveWork,
    up <- liveUp, faults <- liveFaults

-----------------------------------------------------------------------------
\* PrinterState. One printer and two sessions of its agent.
VARIABLES stateRow, current, last, stream, handler, tasks, sent, history
stateVars == <<stateRow, current, last, stream, handler, tasks, sent, history>>
Printer == INSTANCE PrinterState WITH
    Kinds <- {"full", "materials"}, MaxSession <- 2, MaxEvents <- 2, MaxTasks <- 1,
    row <- stateRow

-----------------------------------------------------------------------------
\* PrinterEvents. One socket.
VARIABLES eventRow, material, due, wire, joined, hand, commit, sock
eventVars == <<eventRow, material, due, wire, joined, hand, commit, sock>>
Events == INSTANCE PrinterEvents WITH
    Hubs <- {"h"}, Sockets <- {"a"}, HubOf <- [s \in {"a"} |-> "h"], Printers <- {"p"},
    MaxRow <- 1, MaxMaterial <- 0, Capacity <- 1, Faults <- {"end"}, row <- eventRow

-----------------------------------------------------------------------------
\* GrpcConnections. Silent clients at the limit of the listener.
VARIABLES phase, peer, slot, calls, permits, ready, counts
grpcVars == <<phase, peer, slot, calls, permits, ready, counts>>
Transports == INSTANCE GrpcConnections WITH
    Conns <- {1, 2}, Peers <- {"p"}, Agents <- {"a"}, Tenants <- {"t1"},
    TenantOf <- [a \in {"a"} |-> "t1"], MaxConns <- 1, MaxPeer <- 1, MaxAgent <- 1,
    MaxTenant <- 1, Tls <- TRUE

-----------------------------------------------------------------------------
\* JwksCache. Two verifications wait for each other.
VARIABLES now, published, cache, holder, ver, fetches
jwksVars == <<now, published, cache, holder, ver, fetches>>
Keys == INSTANCE JwksCache WITH
    Keys <- {"k"}, Verifications <- {"p", "q"}, Ttl <- 1, Cooldown <- 1, MaxTime <- 1

-----------------------------------------------------------------------------
\* TenantMembers. Two transactions that may deadlock.
VARIABLES tenant, users, memberLastId, links, locks, req, admitted
memberVars == <<tenant, users, memberLastId, links, locks, req, admitted>>
Members == INSTANCE TenantMembers WITH
    Identities <- {"a"}, EmailOf <- [i \in {"a"} |-> "a@x"], Links <- {"open"},
    LinkRole <- [l \in {"open"} |-> "tenant_admin"],
    LinkEmail <- [l \in {"open"} |-> "any"], MaxUses <- [l \in {"open"} |-> 1],
    Requests <- {"p", "q"}, Changes <- {"operator"}, MaxUsers <- 2, lastId <- memberLastId

-----------------------------------------------------------------------------
Parts == {"sessions", "wakes", "silent", "batch", "drains", "recoveries", "printer",
          "events", "transports", "keys", "members"}

\* What the components assume of their constants.
ASSUME ConstantsOK ==
    /\ SilentJobs!JobBounds /\ Drains!StoreAssumption
    /\ Recoveries!LiveAssumption /\ Printer!StateAssumption /\ Events!EventsAssumption
    /\ Keys!JwksAssumption /\ Members!MembersAssumption

Init ==
    /\ part \in Parts
    /\ Registry!Init
    /\ Wakes!DispatchInit
    /\ IF part = "batch" THEN SilentBatch!Init
       ELSE SilentJobs!Init
    /\ Drains!StoreInit
    /\ Recoveries!Init
    /\ Printer!StateInit
    /\ Events!Init
    /\ Transports!GrpcInit
    /\ Keys!JwksInit
    /\ Members!Init

vars == <<part, sessVars, dispVars, jobVars, storeVars, liveVars, stateVars, eventVars,
          grpcVars, jwksVars, memberVars>>

\* What rests while a component moves.
sessRest == <<part, dispVars, jobVars, storeVars, liveVars, stateVars, eventVars, grpcVars,
              jwksVars, memberVars>>
dispRest == <<part, sessVars, jobVars, storeVars, liveVars, stateVars, eventVars, grpcVars,
              jwksVars, memberVars>>
jobRest == <<part, sessVars, dispVars, storeVars, liveVars, stateVars, eventVars, grpcVars,
             jwksVars, memberVars>>
storeRest == <<part, sessVars, dispVars, jobVars, liveVars, stateVars, eventVars, grpcVars,
               jwksVars, memberVars>>
liveRest == <<part, sessVars, dispVars, jobVars, storeVars, stateVars, eventVars, grpcVars,
              jwksVars, memberVars>>
stateRest == <<part, sessVars, dispVars, jobVars, storeVars, liveVars, eventVars, grpcVars,
               jwksVars, memberVars>>
eventRest == <<part, sessVars, dispVars, jobVars, storeVars, liveVars, stateVars, grpcVars,
               jwksVars, memberVars>>
grpcRest == <<part, sessVars, dispVars, jobVars, storeVars, liveVars, stateVars, eventVars,
              jwksVars, memberVars>>
jwksRest == <<part, sessVars, dispVars, jobVars, storeVars, liveVars, stateVars, eventVars,
              grpcVars, memberVars>>
memberRest == <<part, sessVars, dispVars, jobVars, storeVars, liveVars, stateVars,
                eventVars, grpcVars, jwksVars>>

Next ==
    \/ part = "sessions" /\ Registry!Next /\ UNCHANGED sessRest
    \/ part = "wakes" /\ Wakes!DispatchNext /\ UNCHANGED dispRest
    \/ part = "silent" /\ SilentJobs!Next /\ UNCHANGED jobRest
    \/ part = "batch" /\ SilentBatch!Next /\ UNCHANGED jobRest
    \/ part = "drains" /\ Drains!StoreNext /\ UNCHANGED storeRest
    \/ part = "recoveries" /\ Recoveries!Next /\ UNCHANGED liveRest
    \/ part = "printer" /\ Printer!StateNext /\ UNCHANGED stateRest
    \/ part = "events" /\ Events!Next /\ UNCHANGED eventRest
    \/ part = "transports" /\ Transports!GrpcNext /\ UNCHANGED grpcRest
    \/ part = "keys" /\ Keys!JwksNext /\ UNCHANGED jwksRest
    \/ part = "members" /\ Members!Next /\ UNCHANGED memberRest

Spec == Init /\ [][Next]_vars

\* What the scheduling of the code gives each component; see its own fairness.  Only one
\* part moves in a behaviour, so strong fairness of a disjunction over parts is strong
\* fairness of each disjunct.
WeakFairness ==
    /\ \A s \in {"s1", "s3"} : WF_sessVars(part = "sessions" /\ Registry!Register(s))
    /\ \A s \in {"s1", "s3"} : WF_sessVars(part = "sessions" /\ Registry!DisconnectRemove(s))
    /\ \A s \in {"s1", "s3"} : WF_sessVars(part = "sessions" /\ Registry!DropLease(s))
    /\ \A s \in {"s1", "s3"} : WF_sessVars(part = "sessions" /\ Registry!GoesUnheard(s))
    /\ \A h \in {"h1", "h2"} : WF_sessVars(part = "sessions" /\ Registry!CollectStale(h))
    /\ \A h \in {"h1", "h2"} : WF_sessVars(part = "sessions" /\ Registry!ExpireRemove(h))
    /\ WF_dispVars(part = "wakes" /\ Wakes!RegisterOnly("s1"))
    /\ WF_dispVars(part = "wakes" /\ Wakes!RemoveOnly("s1"))
    /\ WF_dispVars(part = "wakes" /\ Wakes!ReapOnly("h1"))
    /\ WF_dispVars(part = "wakes" /\ Wakes!SpawnPump("s1"))
    /\ WF_dispVars(part = "wakes" /\ Wakes!PumpFail("s1"))
    /\ WF_dispVars(part = "wakes" /\ (Wakes!PumpRefused("s1") \/ Wakes!PumpMark("s1")))
    /\ WF_dispVars(part = "wakes" /\ (Wakes!PumpSend("s1") \/ Wakes!PumpSendLost("s1")))
    /\ WF_dispVars(part = "wakes" /\ Wakes!PumpWake("s1"))
    /\ WF_dispVars(part = "wakes" /\ Wakes!FinalizeOne("s1"))
    /\ WF_dispVars(part = "wakes" /\ Wakes!ReceiveWake("h1"))
    /\ WF_jobVars(part = "batch" /\ SilentBatch!MarkStalledPendingJobs)
    /\ \A c \in {1, 2} : WF_jobVars(part = "batch" /\ SilentBatch!CommandAges(c))
    /\ WF_jobVars(part = "silent" /\ SilentJobs!MarkStalledPendingJobs)
    /\ WF_jobVars(part = "silent" /\ SilentJobs!CommandAges(1))
    /\ WF_jobVars(/\ part = "silent"
                  /\ \/ SilentJobs!ReportWrite("r1")
                     \/ SilentJobs!ReportReread("r1")
                     \/ SilentJobs!ReportRewrite("r1"))
    /\ WF_storeVars(part = "drains" /\ Drains!ReapExpiredReservations)
    /\ \A d \in {"d1", "d2"} : WF_storeVars(part = "drains" /\ Drains!DrainStep(d))
    /\ WF_storeVars(part = "drains" /\ Drains!LeaseLapses("a1"))
    /\ WF_storeVars(part = "drains" /\ Drains!ReservationExpires("a1"))
    /\ WF_storeVars(/\ part = "drains"
                    /\ \/ Drains!ReserveArtifactQuota("a1")
                       \/ Drains!PutArtifact("a1")
                       \/ Drains!PutFails("a1")
                       \/ Drains!CompleteUpload("a1")
                       \/ Drains!ReleaseReservation("a1")
                       \/ Drains!UploadDropped("a1"))
    /\ WF_liveVars(/\ part = "recoveries"
                   /\ \/ Recoveries!RouteDispatch("c1")
                      \/ Recoveries!RouteFail("c1")
                      \/ Recoveries!RouteAnswered("c1"))
    /\ WF_liveVars(part = "recoveries" /\ Recoveries!Age("c1"))
    /\ WF_liveVars(part = "recoveries" /\ Recoveries!FailStaleUnowned("c1"))
    /\ WF_liveVars(part = "recoveries" /\ Recoveries!Register("s1"))
    /\ WF_liveVars(part = "recoveries" /\ Recoveries!Disconnect("s1"))
    /\ WF_liveVars(part = "recoveries" /\ Recoveries!DrainDone("s1"))
    /\ WF_liveVars(part = "recoveries" /\ Recoveries!DrainOne("s1", "c1"))
    /\ WF_liveVars(/\ part = "recoveries"
                   /\ \/ Recoveries!InboundApply("s1")
                      \/ Recoveries!InboundRefused("s1"))
    /\ \A s \in 1..2 : WF_stateVars(/\ part = "printer"
                                    /\ \/ Printer!HandleEvent(s)
                                       \/ Printer!SpawnSnapshot(s))
    /\ \A s \in 1..2 : WF_stateVars(part = "printer" /\ Printer!Disconnect(s))
    /\ \A s \in 1..2 : WF_stateVars(part = "printer" /\ Printer!TaskStep(s))
    /\ WF_eventVars(part = "events" /\ Events!SocketSteps("a"))
    /\ WF_eventVars(part = "events" /\ Events!Connect("a"))
    /\ WF_eventVars(part = "events" /\ Events!Receive("h"))
    /\ WF_eventVars(part = "events" /\ Events!Resubscribe("h"))
    /\ WF_eventVars(part = "events" /\ Events!Announce("h", "p"))
    /\ WF_grpcVars(part = "transports" /\ Transports!TakePermit)
    /\ \A c \in {1, 2} : WF_grpcVars(part = "transports" /\ Transports!HandshakeEnds(c, FALSE))
    /\ \A c \in {1, 2} : WF_grpcVars(part = "transports" /\ Transports!PrefaceTimesOut(c))

StrongFairness ==
    /\ SF_vars(\/ part = "sessions" /\ Registry!Disconnect("s1") /\ UNCHANGED sessRest
               \/ part = "wakes" /\ Wakes!PumpRead("s1") /\ UNCHANGED dispRest
               \/ part = "recoveries" /\ Recoveries!DrainStart("s1") /\ UNCHANGED liveRest
               \/ part = "events" /\ Events!Commit("a") /\ UNCHANGED eventRest
               \/ part = "transports" /\ Transports!Accept(1) /\ UNCHANGED grpcRest
               \/ part = "keys" /\ Keys!VerifyStep("p") /\ UNCHANGED jwksRest
               \/ part = "members" /\ Members!Step("p") /\ UNCHANGED memberRest)
    /\ SF_vars(\/ part = "sessions" /\ Registry!Disconnect("s3") /\ UNCHANGED sessRest
               \/ part = "wakes" /\ Wakes!PumpEmpty("s1") /\ UNCHANGED dispRest
               \/ part = "events" /\ Events!Deliver("h") /\ UNCHANGED eventRest
               \/ part = "transports" /\ Transports!Accept(2) /\ UNCHANGED grpcRest
               \/ part = "keys" /\ Keys!VerifyStep("q") /\ UNCHANGED jwksRest
               \/ part = "members" /\ Members!Step("q") /\ UNCHANGED memberRest)
    /\ SF_vars(part = "sessions" /\ Registry!ExpireStale("h1") /\ UNCHANGED sessRest)
    /\ SF_vars(part = "sessions" /\ Registry!ExpireStale("h2") /\ UNCHANGED sessRest)

FairSpec == Spec /\ WeakFairness /\ StrongFairness

-----------------------------------------------------------------------------
\* What is checked, by component.

\* A registry entry nobody can use any more is reaped, even if AgentClose was
\* lost (sessions.rs).
UnusableSessionReaped == part = "sessions" => Registry!UnusableSessionReaped

\* A command does not stay queued on a session that stays usable, although
\* two wakes may coalesce (grpc/outbound.rs).
QueuedEventuallyDispatched == part = "wakes" => Wakes!QueuedEventuallyDispatched

\* A dispatched print that is never reported is flagged as stalled, a queued
\* deletion is carried out whatever fails on the way, no quota reservation is kept
\* for ever, a live command without an owner is cleaned up, what an agent has streamed
\* is handled, snapshots and deliveries to Studio end, silent clients cannot keep
\* the listener from the next one, and verifications and membership transactions end
\* although they wait for each other.
HubCleansUp == 
    /\ part = "silent" => SilentJobs!SilentPrintIsFlagged
    /\ part = "batch" => SilentBatch!SilentPrintIsFlagged
    /\ part = "drains" => Drains!DeletionsDrain /\ Drains!ReservationsEnd
    /\ part = "recoveries" => Recoveries!CleanedUp
    /\ part = "printer" => Printer!EventsHandled
    /\ part = "events" => Events!SnapshotEnds /\ Events!DeliveryEnds
    /\ part = "transports" => Transports!NextIsAnswered
    /\ part = "keys" => Keys!VerificationEnds
    /\ part = "members" => Members!RequestsEnd
=============================================================================
