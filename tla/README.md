# Pandar: a verification project

Pandar connects 3D printers on a LAN to a central *hub*.  A local *agent* opens one
long gRPC stream to the hub; the hub sends it commands (print a file, operate a
printer, update its firmware, open a camera) and the agent answers with
acknowledgements, results and reports.  The hub may run as several replicas that
share one PostgreSQL database and talk over NATS.  Browsers use the hub's HTTP
routes; Bambu Studio uses a *network plugin*, a C ABI library that logs in, keeps a
stream of printer records, submits prints and calls Studio back.

This directory models these parts in TLA+, checks them with TLC and proves the
central safety properties with TLAPS.  `hub:`, `agent:` and `plugin:` below stand
for `src/crates/pandar-hub/src/`, `src/crates/pandar-agent/src/` and
`src/crates/pandar-network-plugin/src/`.  `PROJECT.json` maps every definition to
the lines it models, and lists the components, the runs, one mutant per property,
the hazards and the theorems.

## 1. Inventory

### Components, their state and what makes them correct

| Component (code) | State | Operations | Correct when |
|---|---|---|---|
| Session registry, agent row, reverse-connect handler (hub: `sessions.rs`, `grpc.rs`, `grpc/inbound.rs`, `repositories/agents/connections.rs`) | per replica agent → session, a transition lease per agent; `status`, `current_session_id` | connect, disconnect, heartbeat, expire, close | an older session never displaces a newer one; unusable entries go away |
| Control plane (hub: `cluster.rs`, `runtime.rs`) | messages in flight | AgentWake, AgentClose, printer events | loss costs time, not correctness |
| Outbound pump, command ledger, acks and results (hub: `grpc/outbound.rs`, `grpc/commands/*`, `repositories/session_commands.rs`) | `commands.status`, wake and close channels, the dispatch in progress | enqueue, drain, gates, mark, send, ack, result, cancel, final sweep | at most one delivery; the ledger is written first; only the owner moves a command |
| Live commands (hub: `sessions/live_commands.rs`, `routes/printer_operations/live.rs`, `routes/plugin/h2c.rs`) | pending map per session, the row | dispatch, claim, drain, timeout, stale sweep | every live command has an owner or ends |
| Print jobs (hub: `repositories/jobs/*`) | dispatch status, print status, events | create, copy, retry, cancel, report, stall sweep, clear | the job follows its command; an outcome is final |
| Artifacts (hub: `artifacts/*`, `routes/jobs/multipart/*`, `cleanup/*`) | permits, reservations, objects, rows, deletion queue | upload, complete, clear, retention, drain | quotas hold; rows have objects; nothing is orphaned |
| Printer rows and events (hub: `grpc/inbound.rs`, `printer_events/*`, `routes/printer_events/*`) | the printer row and who reported what; epochs, sockets | snapshots, materials, features; announcements, snapshots, sweep | shown by the current session's reports; no silent gap |
| Print-error recovery (hub: `repositories/printers/live_status/merge.rs`, `.../recovery.rs`) | task and occurrence numbers, the marker | merge, recover | only the error that was seen is answered |
| Materials (agent: `machine/materials*`, hub: `repositories/materials*`) | AMS units, trays, external spools | normalise, merge | the hub agrees with the printer |
| Operation requests (hub: `routes/printer_operations/*`, agent: `machine/operations*`) | the request, wire message, operation | parse, validate, convert, execute | executed as accepted |
| Firmware (hub: `firmware_control/*`, agent: `machine/firmware/*`, `machine/mqtt/firmware/*`) | pending commands, reservation, MQTT pumps | prepare, execute, refresh, expire, cancel, sweep | the outcome told is honest; at most one publish |
| Cameras (hub: `camera_sessions.rs`, agent: `camera_control*`) | registry, capacity, agent tasks | open, replace, close, evict | capacity is exact; tasks stop |
| Report forwarding (agent: `machine/mqtt/*`, `machine/runtime/session.rs`) | bounded report queue, presence, tasks | poll, forward, retry, relink, refresh | nothing is lost unnoticed |
| Members, tokens, identity keys, transports (hub: `repositories/auth/*`, `identity/*`, `grpc_connection_limit*`) | users, links, tokens, tickets; key cache; slots | accept, change role, remove; authorise; verify; admit | an administrator remains; links and tickets are used as often as allowed; limits hold |
| Presets (hub: `repositories/personal_presets*`, plugin: `personal_presets/*`) | owner's catalogue and clock; list cache | create, replace, delete, list | a retry creates nothing twice; lists are the account's own |
| Plugin account (plugin: `account/*`, `connection/account_logout*`) | runtime account, account files, revocations; the logout word | log in, rotate, restore, log out, revoke | a token revoked under an intent never loads; a logout is honest |
| Plugin connection (plugin: `connection/*`, `dispatch/*`) | printer cache, tickets, transitions | stream, deliver, select, push | Studio is told what is, in order |
| Plugin object (plugin: `shim_*`) | leases, workers, model task | call, destroy, reclaim | nothing uses a freed object; a destroy ends (signed in it may not: section 5) |
| Studio prints and tasks (plugin: `studio_print/*`, hub: `repositories/jobs/studio_tasks.rs`) | one synchronous call; a page | submit, poll, cancel, wait; query, recover | the code returned agrees with what the hub did; data of the own account |

### How they interact

A route writes a `queued` row and publishes AgentWake to all replicas.  The replica
that has the agent registered wakes the session's pump, which takes the agent's
lease, reads the oldest queued row, evaluates the gates, marks the row `sent` in a
transaction fenced by `current_session_id` and puts the command on the stream.  The
agent's worker acks and executes it over MQTT; the inbound task applies ack and
result in fenced transactions.  Live and firmware commands go straight to the
registered session and are owned by a process-local pending entry.  Print jobs
follow the command and, from then on, the printer's reports.  Every change of a
printer record is committed and then announced; sockets of Studio and of browsers
resolve announcements against the database.  A reconnect claims the agent row under
the lease of its replica, replaces the registry entry and publishes AgentClose for
the other replicas.

In the plugin a flow captures the account under a mutex, works without it (files,
HTTP) and applies its result only if the account is still the one it captured; a
stream worker keeps the printer cache; dispatching threads turn changes into
callbacks to Studio.

### What is hard

Two replicas hold tasks for the same agent at once; the lease is local to a replica,
so across replicas only the row fence protects the ledger.  State is checked before
an `await` and used after it.  Futures are dropped at any `await`.  Messages are
lost, late and reordered; wakes coalesce in a channel of one.  The database or a file
sync fails in one step of several, and a process can stop anywhere.  PostgreSQL's READ
COMMITTED lets others in between two statements.  Threads race on atomics and
condition variables.  Printers answer late, twice, or not at all.  `PROJECT.json`
lists the hazards worth a property, each at its line.

## 2. Modules

| Module | What it is |
|---|---|
| `AgentSessions` | the sessions of one agent over a set of replicas |
| `CommandDispatch` (extends it) | ledger, pumps, agent worker and inbound handling, composed with the sessions |
| `CommandLedger` | abstract specification of what the ledger promises a caller; `CommandDispatch` implements it |
| `LiveCommands` | live-only commands of one agent on one replica (docs/development.md:269) |
| `PrintJobs` | the jobs of one printer: requests, commands, reports, sweep, clear |
| `ArtifactStore` | uploads, quotas, objects, retention and the deletion queue |
| `PrinterState` | what event streams store of one printer |
| `PrinterEvents` | the Studio event stream of one tenant |
| `ErrorRecovery` | print errors, their occurrences and recoveries |
| `MaterialInventory` | normalisation at the agent, merge at the hub |
| `OperationPath` | the way of an operation from request to printer |
| `FirmwareControl` | firmware mutations and refreshes, hub and agent |
| `FirmwareSession` | the MQTT sessions and pump tasks behind them |
| `CameraSessions` | the camera relay, hub and agent |
| `AgentReports` | report connections, forwarders and sessions of the agent |
| `PrinterCommands` | the agent's command worker, the feature gate, answers |
| `TenantMembers` | join links, members, roles, as locking transactions |
| `TenantTokens` | API tokens, session tokens, login tickets |
| `JwksCache` | the key cache of the external verifier |
| `GrpcConnections` | transports, permits and slots |
| `PersonalPresets` | catalogue, clock, plugin mutations and lists |
| `PluginAccount` | account files, and flows of one or more Studio processes |
| `AccountLogout` | the logout coordinator: word, map, condition variable |
| `AccountCallbacks` | queue and drain of account callbacks, printer cache requests |
| `StudioState` | the connection state under its mutex (operators) |
| `PluginConnection` (extends it) | stream worker, dispatching threads, Studio's calls |
| `PluginLifetime` | leases, workers and destroy of the plugin's object |
| `StudioPrint` | one print submission |
| `StudioTasks` | the four task queries |
| `CommandDispatchProofs` | theorems on sessions, dispatch and outcomes |
| `AdmissionProofs` | theorems on transports and on the key cache |
| `AccountLogoutProofs`, `ArtifactStoreProofs`, `PluginLifetimeProofs`, `PrinterStateProofs`, `TenantMembersProofs`, `TenantTokensProofs` | theorems on the module of that name |
| `MC...` | instances for TLC (section 4) |

Every module's header says what it abstracts; every state variable has a comment.
Three modules deserve more words.

**`AgentSessions`.**  `row` is the agent's database row; `registry[h]`, `fresh[h]` the entry
of a replica and whether its heartbeat is recent; `lease[h]` the transition mutex with
its holder; `conn[s]` how far `connect_stream` and the inbound task of a token are;
`sweep[h]` the expiry loop; `control` the AgentClose messages.  Actions follow the
code's await points.  A section the lease protects is one action when nothing outside
the lease can observe its middle, and several when something can (the row is written
before the registry).  One agent is modelled: registry, lease, row and queue are keyed
by the agent.

**`CommandDispatch`.**  `cmd` is the status column; `pump[s]` where the task of
`spawn_outbound_pump` is, with the commands it works on; `wake[s]` the coalescing wake
channel, `wakes` the AgentWake messages; `down[s]`, `work[s]`, `up[s]` the response
stream, the command in execution and the request stream; `inb[s]` an event past its
`is_current` check and before its transaction, as `while_current` holds no lock;
`features` the session whose bitmap is stored.  Kinds of commands are sets (`Prints`,
`Gated`, `GcodeLines`).  Where the model allows more than the code: after a close the
pump may take one more turn in either select; an agent that is gone may be noticed at
any time; database errors can strike any dispatch.  Where it is simpler: channels have
room; persisted payloads parse; after the inbound task has ended what the agent does
with a delivered command is not followed, because nobody reads its answers.

**`TenantMembers`.**  A transaction is a request with a program counter; `locks` are the row
locks it holds until it ends.  A statement that locks waits until the row is free; the
`SELECT ... FOR UPDATE` of the administrators is two steps, since it sees the rows of its
snapshot and then waits for each of them.

`CommandLedger` has four variables (status, owner, current session, sessions that were
current) and seven actions; the refinement mapping is `status <- cmd`, `owner <- sentOn`,
`current <- row.session`, `claimed <-` the sessions with an epoch.

## 3. Properties

A component states its properties one by one, each with a comment.  A run of a group
checks them joined into one property per concern; the tables name what each is made of.
The type invariants of the components are conjuncts too.

### Sessions and dispatch

| Property | Says |
|---|---|
| `NewestRegisteredIsPersisted` | no disconnect, expiry or crash of an older session takes the row from the newest registered one |
| `NoShadowing` | on one replica an older connection never replaces a newer one |
| `NewerSessionPreserved` | what docs/architecture.md:239 says; violated, see section 5 |
| `AtMostOnceDelivery` | a command is handed to one stream, once |
| `LedgerNeverBehind` | nothing is in flight that the ledger has queued or cancelled |
| `StaleStreamCannotMutate` | docs/architecture.md:238: a sent command changes only while the row names the session it was sent on |
| `TerminalIsAgentOutcome` | a sent command ends only as the agent said |
| `NoProtocolError` | no ack or result of a correct agent is an InvalidCommandTransition, which would end its stream |
| `GateHoldsAtSend` | the gates still hold in the transaction that sends |
| `ImplementsLedger` | refinement of `CommandLedger` |

### Proved components (runs `logouts`, `admission`)

| Property | Made of | Says |
|---|---|---|
| `LogoutSafe` | `AccountLogout`: `OneOwner`, `RequestHonoured`, `CompletionsExact`, `NoLostWakeup` | one owner runs a logout, as what its callers asked for; every caller that waits is counted and woken |
| `VerifierSafe` | `JwksCache`: `FetchesSpaced`, `KeysRecent`, `UnknownIsRecent` | the provider is asked at most once per cooldown; keys are accepted or refused against recent sets |
| `MembersSafe` | `TenantMembers`: `AdminRemains`, `UsesExact`, `OneMembership` | a tenant keeps an administrator, link uses are its members, an identity is one member |

### Hub (run `hub`)

| Property | Made of | Says |
|---|---|---|
| `JobsConsistent` | `PrintJobs`: `JobFollowsCommand`, `OneLiveCommand`, `EventsMatchOutcome`; `ArtifactStore`: `ArtifactsKept` | The status of a job is that of its current command, two retries never leave two commands that can reach a printer, the terminal event of a job is its outcome, and clears and drains that interleave leave every artifact row its object (jobs/transitions.rs, jobs/recovery.rs, jobs/print_reports.rs, jobs/clear.rs) |
| `ArtifactsKept` | `ArtifactStore`: `QuotaRespected`, `PermitsAccounted`, `RowHasObject`, `NoOrphanObject` | Overlapping uploads stay within the quotas and account for their staging permits; an artifact row has its object, which nobody is about to delete, and no stored object is forgotten (jobs/quota.rs, artifacts/lifecycle.rs) |
| `LiveCommandsOwned` | `LiveCommands`: `OnlyLateMappingEndsStream`, `DrainedStaysEmpty`, `LiveNeverForgotten` | No live command is added behind the drain of a removed session, an unfinished one has an owner unless a fault took it, and an answer ends the stream only when it is to a mapping that timed out (sessions/live_commands.rs) |
| `ShownAsReported` | `PrinterState`: `ProjectedBySession`, `EndedIsQuiet` | Studio is shown only what the current session reported, and no task of an ended handler is left to write (grpc/inbound.rs, routes/plugin/studio_devices.rs) |
| `TokensHonoured` | `TenantTokens`: `TicketUsedOnce`, `SessionOfItsUser`, `LateRequestsRefused` | A login ticket gives one token to its own user, however many exchanges race, and a request that begins after its token or its user is gone is refused (auth/plugin_tickets.rs, auth/tenant_tokens.rs) |
| `SlotsExact` | `GrpcConnections`: `CountsExact`, `SlotsHeld`, `QuotasHold` | The counts of the connection quotas are the slots that are held, a slot is held as long as its transport or one of its calls lives, and the quotas of peers, agents, tenants and the listener hold (grpc_connection_limit.rs) |
| `ViewsAgree` | `MaterialInventory`: `LoadedAgree`, `ExternalsAgree`, `NoSecretStored`, `SlotsAgree`, `ActiveAgrees`, `ReplayUnchanged`, `KeysSorted`; `PrinterEvents`: `NoSilentGap`, `LockOfCommitter` | The settled hub shows the slots, spools, active tray and external spools the printer has under sorted keys, stores no credential, and a patch that comes again changes nothing; a record Studio has differs from the database only while its socket has yet to be told, and the publication lock is of a socket that ends its snapshot (repositories/materials/merge.rs, machine/materials.rs, printer_events.rs) |
| `ExecutedAsAccepted` | `OperationPath`: `NeverDoomed`, `ExecutedAsAccepted`, `FeaturesNeverDropped`; `TenantTokens`: `LateRequestsRefused` | The hub accepts nothing with a token, of any scope, that was revoked before, and no operation the agent cannot read; the agent executes what the hub accepted, and a required device feature travels with it (tenant_tokens.rs, printer_operation/validation.rs, commands/operations.rs) |
| `OutcomesStand` | `PrintJobs`: `OutcomeFinal`, `PeakNeverFalls`, `RunningNeverCleared`, `RetryOnlyUnstarted`, `StalledOnlyUntouched`, `SubmissionSelectsJob`; `LiveCommands`: `SweepSparesOwned` | Nothing that read a job row earlier reopens a finished print or lowers its peak, clearing deletes no job whose print may be going on, only a print that has not started is dispatched again or flagged as stalled, a report with a submission id is applied to that submission, and the sweep overturns no live answer (jobs/print_reports.rs, jobs/clear.rs, jobs/stalled.rs) |
| `NothingGoesBack` | `PrinterState`: `ReplacedIsSilent`, `MaterialsNeverOlder`; `TenantTokens`: `RevokedStays`; `PrinterEvents`: `NeverOlder`, `CommitExcludesDelivery` | Materials and the records Studio has never go back to an older report, nothing is passed to a socket while its snapshot is committed, a replaced session does not reach the printer row, and a revoked token stays revoked (repositories/materials.rs, printer_events/studio.rs, printers/snapshot.rs) |

### Agent, firmware and recovery (run `edge`)

| Property | Made of | Says |
|---|---|---|
| `ReportsAccounted` | `AgentReports`: `OneForwarder`, `NothingLostUnnoticed`, `PresenceAgrees` | Once nothing is under way the hub has everything the printer said, a forwarder that believes it has sent the offline event is right, and sessions, relinks and retries leave one forwarder per printer (mqtt/reports/forwarding.rs) |
| `OutcomeIsOwn` | `PrinterCommands`: `OutcomeIsOwn` | The outcome of an operation is the printer's answer to that very operation (machine/mqtt/commands.rs) |
| `CamerasExact` | `CameraSessions`: `CapacityExact`, `OnePerPrinter`, `AgentBounded`, `ChunksFit`, `HandleOwned` | One permit per camera response that is being opened or read, no handle of a response that has gone, at most one registered stream per printer, no more camera tasks than the agent's limit, and no frame larger than the hub accepts (camera_sessions.rs) |
| `FirmwareHonest` | `FirmwareControl`: `HonestOutcome`, `AtMostOnce`, `AnswerIsRecorded`, `RevisionsInOrder`; `FirmwareSession`: `FailedMeansUnsent`, `NoPumpLeft`, `LockIsBrief`, `OwnAnswer`, `ReportedOnce` | A firmware control the printer received is never recorded as failed before publish, is executed at most once, and a request was told what the ledger says; module revisions travel in order.  In the agent a control that failed "before publish" never reached the wire, no pump outlives the operation it serves, the shared mutex is awaited under only for a pump that is ending, an attempt gets its own answer and a pump's error is reported once (firmware_control) |
| `AnswersTheErrorSeen` | `ErrorRecovery`: `Recoverable`, `AnswersTheErrorSeen`, `AnswersThePrintSeen`, `NativeOperationsDoNotOverlap` | A recovery answers the occurrence of the error, and the print, that the browser was shown; an occurrence the row shows can be answered; and the agent never executes two native recoveries of one printer at a time (printer_operations/recovery.rs, sessions/live_commands.rs) |
| `GuardsHoldAtTheStep` | `AgentReports`: `RevivedByFullReport`; `PrinterCommands`: `GateHolds`; `FirmwareControl`: `PublishedInItsGeneration`; `FirmwareSession`: `SentInTime` | What was checked before an await still holds at the step: only a full report revives a printer the forwarder declared offline, an axis command leaves while the feature is observed, the printer gets a control only in the generation it was prepared for and only while its operation is there to learn of it |

### Network plugin (run `plugin`)

| Property | Made of | Says |
|---|---|---|
| `AccountHonest` | `PluginAccount`: `RevokedNeverLoads`, `LogoutHonest`, `DeleteAuthorised`, `CandidateAccounted`, `RotateOnce` | A DELETE is sent under an intent that a power loss cannot take away, and a token it has ended is never restored from the files, whatever a power loss leaves of them; a requested logout that reported success ended the session at the hub; while no process dies, a session that was not installed is being committed, queued for revocation or over.  Two kinds of sessions are excepted, those of an answer the plugin could not read and those for which both intents failed and a best-effort DELETE was sent.  One flight per expired credential asks the hub for a new session (account/persistence, account/revocation.rs, account/lifecycle) |
| `CallbacksCurrent` | `AccountCallbacks`: `ToldTheAccount`, `TransitionEnds`, `ServedPresent`, `AdmissionOwned` | Once the callbacks are delivered no account transition is pending and, if the last change of the account announces itself, Studio was told its login state; what a request answers as current are the printers cached at that moment for the account signed in; one admission at a time, and none is left behind (account/session.rs, connection/no_auth_refresh.rs) |
| `DestroyIsClean` | `PluginLifetime`: `NothingUsesFreed`, `OneReclaimer`, `QuietAfterDestroy`, `TaskIsCurrent` | A deleted agent is referenced by nobody, one thread at most reclaims it, after a destroy from outside returned nobody calls Studio back, and the object a model-task callback is given is of the current account (shim_agent_lifetime.hpp, shim_abi_user.hpp, shim_model_task.hpp) |
| `StudioIsTold` | `PluginConnection`: `DegradedIsDark`, `IssuedCurrent`, `InitializedMeansTold`, `CacheOfAccount`, `LocalTold`, `TransitionHonest` | While the stream is degraded no cached printer passes for online; a ticket that can still be claimed, and every cached printer, is of the present account; a device that counts as initialised was reported to Studio as present, unless Studio asked for versions; the local connection served is the one Studio was told of last, and Studio is never told of a reachability that has passed (connection/studio.rs, connection/delivery.rs) |
| `StudioAnswersHonest` | `StudioPrint`: `NothingPrinted`, `ZeroIsDispatched`, `Milestones`; `StudioTasks`: `OneReplay`, `PageAgrees`, `HubIsUnderstood` | A cancelled or stale submission has left no print behind, the code 0 means the hub reported the dispatch or retained the print, milestones are reported as observed and in order; a refused request is repeated once; a page agrees with its total, offset, limit and filter, and what the hub answers with 200 the plugin accepts |
| `PresetsAgree` | `PersonalPresets`: `CatalogueOK`, `CopyAgrees`, `OwnCatalogue` | Racing requests never take a catalogue over its limit, a copy in Studio with the time of the hub's preset has its content, and what Studio drains is the whole catalogue of its account |
| `NoLateEffect` | `PluginAccount`: `IntentKept`; `StudioPrint`: `StaleIsFinal`; `StudioTasks`: `OwnData`, `NoFallback`; `PersonalPresets`: `ClockStrict` | An intent to revoke leaves the files only when the session is over, a call that saw its snapshot go stale never ends with a result of the job, data is delivered to the tenant signed in at the delivery, a recovery never puts a no-auth session where another account is, and a stored preset is later than any time its owner was given |

### Liveness (runs `hub_ends` and `edge_ends`)

| Property | Made of | Says |
|---|---|---|
| `UnusableSessionReaped` | `AgentSessions`: `UnusableSessionReaped` | A registry entry nobody can use any more is reaped, even if AgentClose was lost (sessions.rs) |
| `QueuedEventuallyDispatched` | `CommandDispatch`: `QueuedEventuallyDispatched` | A command does not stay queued on a session that stays usable, although two wakes may coalesce (grpc/outbound.rs) |
| `HubCleansUp` | `PrintJobs`: `SilentPrintIsFlagged`; `ArtifactStore`: `DeletionsDrain`, `ReservationsEnd`; `LiveCommands`: `CleanedUp`; `PrinterState`: `EventsHandled`; `PrinterEvents`: `SnapshotEnds`, `DeliveryEnds`; `GrpcConnections`: `NextIsAnswered`; `JwksCache`: `VerificationEnds`; `TenantMembers`: `RequestsEnd` | A dispatched print that is never reported is flagged as stalled, a queued deletion is carried out whatever fails on the way, no quota reservation is kept for ever, a live command without an owner is cleaned up, what an agent has streamed is handled, snapshots and deliveries to Studio end, silent clients cannot keep the listener from the next one, and verifications and membership transactions end although they wait for each other |

| Property | Made of | Says |
|---|---|---|
| `EverythingEnds` | `AgentReports`: `AliveIsShown`, `DeadIsNoticed`; `PrinterCommands`: `OperationEnds`, `HubLearnsFeature`; `CameraSessions`: `StopsAtAgent`; `FirmwareControl`: `CommandsEnd`; `FirmwareSession`: `TransitionEnds`, `TeardownEnds`; `ErrorRecovery`: `RecoveryEnds`; `AccountLogout`: `CallsReturn`; `PluginLifetime`: `DestroyEnds`, `SlotReturns`; `StudioPrint`: `Returns`; `PersonalPresets`: `CallsEnd` | A printer that is there comes back on the hub with all it has to say and with its feature value, and one that stays away ends up offline; no operation keeps the command worker for ever; a camera task whose response has gone ends, unless its Close was lost; a firmware command gets a terminal row whatever was lost, the publish transition is given back and the teardown ends; the slot of the model task is given back; every recovery, logout call, preset call and print submission ends; a destroy ends while signed out, and signed in unless the status worker missed the notification that stop_status_heartbeat sends without its mutex |

## 4. Runs

The runs of proved components extend their specification, so that the run and the proofs
speak of the same formulas:

| Run | Instance | Shows |
|---|---|---|
| `sessions_safety` | 2 replicas, 3 connections (two race on one replica), 1 fault, timeouts | session invariants under every interleaving |
| `sessions_newer_preserved` | 2 replicas, no fault | the finding of section 5 |
| `dispatch_replicas` | 2 replicas, 1 print, lossy wakes | delivery and ledger while the agent moves between replicas and the print is cancelled |
| `dispatch_faults` | 1 replica, 2 connections of which one has the feature, a gated operation, 1 fault, timeouts | gates and outcomes over crash, dropped connect, failed write, expiry and administrative close |
| `logouts` | 3 threads, 2 generations, two calls each | the logout coordinator, each atomic access a step |
| `admission` | 2 identities, 2 links, 2 transactions, 3 users; 2 verifications, 1 key, TTL 3, cooldown 1, 3 ticks | membership at READ COMMITTED with row locks, and, apart from it, the key cache while keys rotate and fetches fail |
| `rows_without_session` | 2 sessions, 2 events | the second finding of section 5 |

The other components share no state with each other (where one talks to another, the
other's part in it is in the module).  The group modules put several of them side by
side: each is an INSTANCE on variables of its own, the variable `part` chooses in the
initial state which one moves, and the rest keep their initial values.  The reachable
states are the disjoint union of those of the parts, so a group checks each component
exactly as a run of its own would, and a component appears in several parts when two
bounds together would be too large.  The properties of a group are the components'
under `part = ...`.  A component of a group that has a proof is extended and gets its
constants from the cfg (`ArtifactStore`, `PrinterState`, `TenantTokens` and `GrpcConnections`
in `MCHub`, `PluginLifetime` in `MCPlugin`); its other instances in the group have variables of
their own.  The property of such a component is defined in its module (`ArtifactsKept`,
`ShownAsReported`, `TokensHonoured`, `SlotsExact`, `DestroyIsClean`), and the parts of the group
in which the component rests keep it in its initial state.  Because several components are
extended side by side their definitions carry a prefix (`StoreInit`, `StateNext`,
`TokenTypeOK`, `storeVars`).

`hub`, about 0.9 million states:

| Part | Module | Instance |
|---|---|---|
| retries | `PrintJobs` | Two requests on a job with up to three dispatches |
| reports | `PrintJobs` | Two replicas apply reports to one job |
| copies | `PrintJobs` | A print and its copy, reported by submission id |
| uploads | `ArtifactStore` | Three uploads at the quotas |
| objects | `ArtifactStore` | Two uploads, two drainers and their failures |
| links | `LiveCommands` | A link_printer over two sessions |
| recoveries | `LiveCommands` | A HandlePrintError over two sessions |
| mappings | `LiveCommands` | A nozzle mapping and a fault |
| printer | `PrinterState` | One printer and two sessions of its agent; the constants are in the cfg |
| materials | `PrinterState` | Reports of materials overtake each other in one session |
| events | `PrinterEvents` | One socket that falls behind |
| snapshots | `PrinterEvents` | Two sockets commit their snapshots |
| tokens | `TenantTokens` | Two tokens, a ticket and two requests; the constants are in the cfg |
| open tokens | `TenantTokens` | A hub without authentication |
| scopes | `TenantTokens` | Tokens of every scope, asked for everything |
| transports | `GrpcConnections` | Three transports of two peers and two agents; the constants are in the cfg |
| spools | `MaterialInventory` | Two units of different kinds and their spools |
| other units | `MaterialInventory` | An AMS HT and two external spools |
| operations | `OperationPath` | Every action with the values around its limits |

`edge`, about 1.8 million:

| Part | Module | Instance |
|---|---|---|
| reports | `AgentReports` | A lossy connection, a fault and a relink in one session |
| sessions | `AgentReports` | Two sessions and a relink |
| answers | `PrinterCommands` | Operations that match an answer to its request |
| gates | `PrinterCommands` | Axis commands and reports that take the feature back |
| kinds | `PrinterCommands` | The other operations |
| streams | `CameraSessions` | Three responses race for one camera |
| frames | `CameraSessions` | More frames of a local camera than a queue holds |
| cameras | `CameraSessions` | One camera of each kind |
| closed | `CameraSessions` | The hub closes the session, the agent comes back |
| controls | `FirmwareControl` | Two requests execute one prepared control |
| reconnects | `FirmwareControl` | Two sessions, two generations |
| faults | `FirmwareControl` | A failed database call or a crash |
| versions | `FirmwareControl` | Two refreshes race with report snapshots |
| pumps | `FirmwareSession` | A control and a refresh at once |
| attempts | `FirmwareSession` | A refresh that tries twice |
| occurrences | `ErrorRecovery` | One error, over two sessions |
| errors | `ErrorRecovery` | One error raised twice |
| gaps | `ErrorRecovery` | The agent loses the printer while prints change |
| overlaps | `ErrorRecovery` | A browser and a plugin ask for recoveries |

`plugin`, about 1.6 million:

| Part | Module | Instance |
|---|---|---|
| account | `PluginAccount` | Two calls of one process, a fault and a crash |
| storage | `PluginAccount` | Three failed file operations or calls |
| refreshes | `PluginAccount` | Expired credentials, a legacy login and a change of the hub |
| shared | `PluginAccount` | Two processes share the files |
| callbacks | `AccountCallbacks` | Account changes |
| cache | `AccountCallbacks` | Requests answered from the printer cache |
| lifetime | `PluginLifetime` | One plugin object and its workers; the constants are in the cfg |
| stream | `PluginConnection` | The stream, its failures and the selection of a device |
| outage | `PluginConnection` | The stream breaks, the hub's health is asked for, and the stream comes back |
| accounts | `PluginConnection` | Another account and its callback |
| selections | `PluginConnection` | Another account and a selection |
| rotation | `PluginConnection` | A rotated token, another epoch |
| hubs | `PluginConnection` | Another hub, a selection |
| listeners | `PluginConnection` | Listeners come and go, callbacks fail, the hub is reported unhealthy |
| local | `PluginConnection` | The local connection and its loss |
| pushes | `PluginConnection` | Studio asks for a report while frames come |
| versions | `PluginConnection` | Studio asks for a version |
| submission | `StudioPrint` | One print submission |
| recovery | `StudioTasks` | Sign-ins, revocations and rotations while a call runs |
| plates | `StudioTasks` | One job of every kind of metadata and every call |
| pages | `StudioTasks` | Two jobs and every page of them |
| presets | `PersonalPresets` | Two requests of one owner at the limit |
| synced | `PersonalPresets` | Two requests, and a list and a drain of one Studio |
| owners | `PersonalPresets` | The account changes while a list runs |

`hub_ends`, liveness at the hub:

| Part | Module | Instance |
|---|---|---|
| sessions | `AgentSessions` | The sessions of one agent on two replicas |
| wakes | `CommandDispatch` | Two commands whose wakes coalesce |
| silent | `PrintJobs` | A print that falls silent |
| batch | `PrintJobs` | Two silent prints and a sweep that takes one at a time |
| drains | `ArtifactStore` | Two uploads and their drainer |
| recoveries | `LiveCommands` | A HandlePrintError and two faults |
| printer | `PrinterState` | One printer and two sessions of its agent |
| events | `PrinterEvents` | One socket |
| transports | `GrpcConnections` | Silent clients at the limit of the listener |
| keys | `JwksCache` | Two verifications wait for each other |
| members | `TenantMembers` | Two transactions that may deadlock |

`edge_ends`, liveness at agent and plugin, and the safe remainder of the actions:

| Part | Module | Instance |
|---|---|---|
| reports | `AgentReports` | One printer, a refresh and a reboot |
| operations | `PrinterCommands` | Operations of one worker |
| cameras | `CameraSessions` | Two responses on one camera |
| firmware | `FirmwareControl` | A firmware control over two sessions |
| pumps | `FirmwareSession` | A control in one reverse session |
| recoveries | `ErrorRecovery` | A browser and a plugin ask for recoveries |
| logouts | `AccountLogout` | Two callers of one session |
| lifetime | `PluginLifetime` | A plugin object that waits logged out, and one that is signed in |
| signed in | `PluginLifetime` | Signed in, where the status worker waits without a time-out |
| submission | `StudioPrint` | One print submission |
| presets | `PersonalPresets` | A request and a list |

Deadlock is not checked: the sessions, requests and events of every instance are
finite, and when they are used up and everything has ended the system has nothing to do.

**Bounds.**  Sessions, requests and processes are bounded by finite sets: two give every
race of an old and a new one; three connections put two on one replica while the third
takes the row elsewhere.  `MaxFaults`, `MaxFailures` and the like count crashes, dropped
futures, failed writes and lost messages: one hits each point of each protocol, two let a
lost message meet a failed write.  The account files have three: a candidate is adrift only
when both its intents and the DELETE fail (with five the property was checked apart, 0.5
million states).  Counters that a program only ever increases
(generations, epochs, revisions, occurrences) are capped at the number of changes an
instance can make.  Queues keep a capacity of one or two, so that they overflow, batches of sweeps one, so that they
leave work over; `MaxI32` is 7 where the code has i32::MAX.  Times
are ages in units (fresh or stale, before or after a deadline), except in `JwksCache`,
which has a clock.  The theorems of section 6 remove these bounds for what they state, so
the instances of the proved components are the small ones.

**Fairness.**  The tokio mutex is FIFO, so steps that ask for the lease are strongly fair
(`Disconnect`, `ExpireStale`, `PumpRead`, `PumpEmpty`, `DrainStart`), and so are those
that wait for a gate other threads take and give back (`TaskGate`), for a timer that is
armed anew by others (`TimesOut`, `TimelyAsk`, `ExpirePrepare`), for a permit the limiter
gives back (`Accept`), for the refresh lock or the row locks of another request (`Step` of
`JwksCache` and of `TenantMembers`) or for the publication lock (`Commit`, `Deliver`).  In `MCHubEnds` and `MCEdgeEnds` strong fairness is stated of a
disjunction over the parts: only one part moves in a behaviour, so this is strong
fairness of its own action, and TLC has fewer conditions to carry.  Spawned tasks, worker
threads, periodic loops and delivered messages are weakly fair.  Printers and agents are
only fair where the property is about them: `AliveIsShown` assumes a printer that answers.
Nothing is assumed of new connections, requests, faults or closes.
`QueuedEventuallyDispatched` assumes reliable wakes: the code drains only on a wake or a
new connection, so a command whose wake is lost stays queued until the next one.

## 5. Findings and observations

**Finding** (run `sessions_newer_preserved`).  docs/architecture.md:239 says "Replacing a
live session closes the previous response stream while preserving the newer session."
Within a replica that holds.  Across replicas AgentClose names the agent and not a token
(hub: `cluster.rs`, `runtime.rs:153`), and `close_local_agent` removes whatever session it
finds: if the agent connects to replica 1 and then to replica 2 before replica 2 has got
the AgentClose of the first connect, replica 2 closes the newer session.  The agent
reconnects, so the cost is an extra reconnect and, until then, a row that is online
without a session.

**Finding** (run `rows_without_session`).  The comment of the projection
(hub: `routes/plugin/studio_devices.rs:156-158`) says that "only the current session that both
the in-memory registry and the persisted Agent row agree on projects as online".  Line 198
compares two optional ids, and an agent without a session has the same one as a row whose
presence is NULL.  Presence is written by telemetry-authoritative snapshots only, the status by
any snapshot that has one, so a row that partial reports made is shown online after its session
has ended.  `ProjectedBySession` (run `hub`, proved) is therefore stated of agents with a session,
and says that no other row is shown online without one.

**Observations.**  While the modules were written TLC also showed where a sentence of the
documentation, a comment or a test's name says more than the code does.  They concern
behaviours the runs above leave outside their bounds or properties and are recorded here
for the maintainers; the definitions named are kept in the modules.

*Hub.*
- `cleanup/artifacts.rs:28`: the retention's `DELETE ... NOT EXISTS` may wait for the
  foreign-key lock of a reprint and then cascade to the new job (`UnfinishedJobKept` under
  `Retention`).
- `repositories/commands/transitions.rs:149`: the stale sweep skips nozzle mappings, so one
  whose request was dropped stays `sent`; docs/architecture.md:243 says live-only commands
  are failed by cleanup (`CleanedUp` holds for links and recoveries).
- `firmware_control/execute.rs:48`: a second execute that located its identity before the
  first spent the token, and then fails to get the fence, ends the first one's command as
  failed before publish.  `HonestOutcome` is therefore checked for two requests without
  failures of the database, and for one request with them.
- `runtime.rs:121`, `printer_projection.rs:23`: a socket opened while the control-plane
  subscription is down, and sockets of other hubs after a failed publish, are not told
  (`NoSilentGap` is checked for one hub and for faults it notices; `NeverOlder` compares the
  versions of rows, not the materials in them).
- `grpc/inbound.rs:98`: snapshots of one printer are applied by concurrent tasks, an older
  one possibly last (`LatestState`), and a snapshot may delete materials that came after it
  (`MaterialsInOrder`).
- `repositories/jobs/recovery.rs:309`: docs/development.md:126 promises retry-dispatch for
  cancelled jobs, the code accepts failed ones only (`RetryCoversCancelled`).
- `repositories/jobs/print_reports/correlation.rs:106`: the periodic FINISH of a finished
  print can fall back to the file name and finish its queued copy.
- `camera_sessions.rs:124`: two opens of one printer may send Close before Open
  (`ReplacedIsClosed`); the end of a camera call leaves the HTTP response open.
- `camera_sessions.rs:146`, `:151`: an open that fails takes the registry's lock to remove its
  stream; when the request is dropped while it waits there the entry stays, without
  its permit, until the next open of that printer or the end of the session (`OpenDropped`;
  `HandleOwned` allows it).
- `camera_sessions.rs:166`: the eviction of a response that does not read never tells the agent,
  whose task keeps its place until its source ends.  `StopsAtAgent` excepts these streams.
- `repositories/materials/merge.rs:139`: units a full report no longer lists stay
  (`UnitsAgree`); fields a new spool reports blank keep the values of the one before it
  (`OneSpoolPerTray`).
- `repositories/auth/onboarding/support.rs:139`: a member that repeats an acceptance whose
  answer was lost is refused when the link has no use left.
- `routes/printer_events/studio.rs:158`: a peer that stops reading during SnapshotEnd keeps
  the publication lock, and with it the control-plane consumer, until TCP gives up.
- `grpc/commands/device_features.rs:220`: the dispatch awaits room in the command channel
  (16 slots) while it holds the lease, so a slow agent blocks its own heartbeats and
  reconnects on that replica.  Channels have room in the model.
- `sessions.rs:355`: `expire_stale` returns at the first session it cannot mark offline; the
  live commands of those it removed before are left to the stale sweep.

*Agent.*
- `commands/refresh.rs:29`, `machine/mqtt.rs:145`: a refresh sends what it read before newer
  reports were forwarded, and may take a report older than its pushall (`RefreshIsLatest`,
  `RefreshIsOfItsTime`); for the same reason `PresenceAgrees` is checked without refreshes,
  which take part in `edge_ends`.
- `machine/operations/light.rs:30`: a light toggle is computed from the oldest queued report
  (`ToggleUsesCurrentLight`).
- `machine/mqtt/commands.rs:190`: nozzle mappings use Studio's sequence ids, which may equal
  one of the agent's own; `OutcomeIsOwn` is checked for the agent's ids.
- `machine/camera.rs:73`: the browser's MP4 relay refuses models without RTSP that
  docs/development.md:143 lists (`WhitelistedServed`).
- `machine/materials/identifiers.rs:57`, `external.rs:16`: the last spool of a unit without
  info is not cleared, a report of `vt_tray` alone is dropped.

*Plugin.*
- `account/lifecycle/persisted/transactions.rs:69`: a login read before a logout revoked it is
  installed after it (`LogoutSticks`).
- `account/revocation.rs:101`: an orphaned candidate is revoked by a best-effort DELETE without
  confirmed intent when neither intent can be written; no tombstone remembers it, and if that
  DELETE fails too the session lives on at the hub.  An answer with status 200 that does not decode
  (`account/lifecycle.rs:181`, `:258`, `authenticated.rs:203`) leaves a live session of which the
  plugin has no token.  `RevokedNeverLoads`, `CandidateAccounted` and `DeleteAuthorised` except
  these sessions (the variable `adrift`) and no others, and `CandidateAccounted` is stated while no
  process has died: a process that dies between the hub's answer and the commit forgets it.
- `account/session/callbacks.rs:43`: a callback queued between the last pop and the end of the
  drain waits for the next change (`NothingLeftQueued`).
- `account/session.rs:101`: the announcement of a bootstrap is queued after the account lock was
  released and compares nothing, so Studio may be told of a login that a logout has ended in
  between.  A load, a refresh, a change of the hub or of its servers and the logout of an empty
  account announce nothing at all, and the notice of a logout is dropped when the account has
  changed again.  `ToldTheAccount` is checked with all of these among the changes and speaks of the
  behaviours whose last change announces itself.
- `shim_connection.hpp:83`: a notification without the mutex of the condition variable can be
  lost (`SleeperIsWoken`).
- `shim_status_heartbeat.hpp:43`: the same of the notification that stops the status worker.  Signed
  in it waits without a time limit, so a stop that comes between its check and its wait is missed
  and the join, with it the destroy, hangs.  Signed out it waits at most two seconds.  `DestroyEnds`
  is checked for both: the only destroy that does not end is one whose stop was missed
  (`StatusMissedStop`).
- `studio_print/tasks.rs:250`: a filename that ends in a separator passes the upload's check for
  blank names and has an empty basename, which the plugin refuses as the title of a task; so does
  a printer whose reported name is empty.  `HubIsUnderstood` assumes neither.
- `connection/studio.rs:208`: a frame drops tickets that carry a local loss
  (`LocalLossPreserved`); `dispatch/message.rs:176`: get_version may mark a printer initialised
  while another thread holds its offline ticket; a rotated token of the same hub captures
  online printers as unconfirmed.
- `shim_abi_user.hpp:202`: destroy from inside a callback returns at once
  (`NoCallbackAfterDestroy`).
- `personal_presets/ffi.rs:246`: a preset near the hub's size limit can be stored and not
  listed (`StoredIsListable`); replays of a create are keyed by name only.
- `studio_print/transport.rs:134`: when the answer to an accepted upload is lost Studio is told
  that the hub is unavailable while the job stays queued; repeating prints twice.

## 6. Proofs

All theorems hold for every value of the constants that satisfies the named assumption of
its module, which TLC evaluates for every instance: `HubOf` maps sessions to replicas,
`NoSession` and `NoCommand` are no members, `Commands` are naturals (their order is the
ledger's order), prints are neither gated nor G-code lines; threads and requests are finite
sets and contain none of the strings that mean nobody; cooldown, uses, permits and limits of
transports are positive; quotas, staging limits and sizes of artifacts are naturals; token ids are
1 to n.  In each module TLC checked the inductive invariant before it was proved.  Together they
are 53 theorems on 269 lemmas.

*Sessions* (`CommandDispatchProofs`).  `TypeCorrect`, `NewestKeepsRow`, `NeverShadowed` follow
from `SessionInv`.  The two safety properties are not inductive: what keeps them is that a task
in the middle of a leased section holds the lease (`LeaseHeld`), that registry and sweep of
a replica only name its own registered sessions (`RegistryOwn`, `SweepOwn`), that claims
are numbered without repetition (`EpochOrder`), that the row names nobody or the newest
claim (`RowNewest`), and that a connection about to register is the newest of its replica
(`ClaimNewest`).

*Dispatch* (`CommandDispatchProofs`).  `ImplementsSessions` shows that every step of the
composition is a step of `AgentSessions` or leaves it alone, so `SessionInv` carries over.
`DispatchInv` adds: a pump at work holds the lease and has one command (`PumpWork`); a
command a pump is about to send was sent by nobody, unless the row has moved on
(`SendIsFirst`, the heart of the argument: a second replica that read the same row has lost
the fence); a marked command is owned and not delivered (`MarkedIsOwned`); everything on a
stream is owned by its session (`StreamsOwn`); owners and statuses agree
(`OwnerMatchesStatus`).  From it: `DispatchTypeCorrect`, `DeliveredAtMostOnce`,
`LedgerIsAhead`, `StaleStreamsMuted`, `GatesHold`, and `LedgerImplemented`, the refinement
of `CommandLedger`.

*Outcomes* (`CommandDispatchProofs`).  `OutcomesAreTheAgents` and `AgentsAreUnderstood` follow
from `TalkInv`, inductive relative to `DispatchInv`.  It says that what is pending on
a stream about a command agrees with the ledger (`PendingAgrees`: a command the agent has not
taken is sent and nothing was said about it; an ack finds it sent; an outcome is the agent's
last word), that of two events about a command the first is the ack and the second the outcome
(`PendingInOrder`), and that a command marked and not handed over is on no stream
(`MarkedIsApart`).  Lemmas on sequences say what Tail and Append do to that order.

*Logout coordinator* (`AccountLogoutProofs`).  Every load, compare-exchange and mutex
acquisition is a step, for any number of threads.  `LogoutInv` says that the owner's
generation is the one of the word, that whoever waits for a logout waits for one that is
requested or over, and that a sleeper's word can only be changed by the step that wakes it.
`OneLogoutOwner`, `RequestsHonoured`, `SleepersAreWoken`, `CompletionsAreExact` (a counting
argument: the follower count of a generation is the cardinality of the set of its followers,
and a step adds or removes at most one thread) and `LogoutTypeCorrect` follow; `LogoutIsSafe`
joins them into what the run `logouts` checks.

*Transports* (`AdmissionProofs`).  `GrpcInv`: the counts of peers, agents and tenants are the
cardinalities of the sets of transports that hold such a slot, a slot is held by whoever is
accepted and not yet released, no count exceeds its limit (`QuotasHold`), and a call only starts
on a transport that is up.  Every step moves the slot of one transport, so each count changes by
what `CountMoves` says of two sets that differ in one element.  From it `SlotsAreExact` and
`NoReleasePanics`: the decrement never meets a missing entry.

*Key cache* (`AdmissionProofs`).  `JwksInv`: the cache is as old as the last fetch, the holder
of the refresh lock is the only request that fetches, and what a request has in hand was young
enough when it took it.  From it `ProviderIsSpared`, `AcceptedByRecentKeys`,
`RefusedByRecentKeys` and `JwksTypeCorrect`, joined in `VerifierIsSafe`.

*Members* (`TenantMembersProofs`).  `MembersInv`: what a transaction has read and locked stays
so until it writes.  The user it changes is locked and present; a transaction about to demote
or remove an administrator holds the lock of a second one (`HoldsUser`), so no other
transaction takes that one away; an acceptance about to insert holds its link, live and with a
use left (`HoldsLink`); ids are fresh (`IdsUnique`, `IdsLeft`).  From it `AdminAlwaysRemains`,
`MembershipIsUnique`, `LinkUsesExact` and `MembersTypeCorrect`, joined in `MembersAreSafe`, and
the action property `RevokedLinksClosed`, which is stated by the theorem alone.

*Printer row* (`PrinterStateProofs`).  `StateInv`: the session columns of the row name sessions
that reported in full, or the features, or nobody (`Reported`), a handler has no more tasks than permits (`Bounded`), and
one that has ended has no tasks and is not current (`EndedIsQuiet`, inductive as it stands
because a handler joins its tasks before it takes its session out).  From it
`ShownIsReported`, `EndedHandlersAreQuiet` and `StateTypeCorrect`, and the action properties
`ReplacedSessionsAreSilent` and `MaterialsMoveForward`.  `RowsShownAsReported` joins the
invariants into the `ShownAsReported` of the run `hub`, whose `NothingGoesBack` checks the action
properties.

*Tokens* (`TenantTokensProofs`).  `TokensInv`: the token rows in use are the first ones and the
others are blank (`RowsInOrder`), so a new token never overwrites one, revoked or not; one
exchange at a time has the row of a ticket, and the ticket is live until that exchange commits
(`Marked`, `Exchange`), so the conditional update of `used_at` admits one (`UsedOnce`); what an
exchange has read names the user that asked for the ticket or nobody; and a request that came
too late has found a session whose user is gone (`LateRequest`), who never comes back.  From it
`OneSessionPerTicket`, `TooLateIsRefused`, `SessionsKeepTheirUser`, `TokensTypeCorrect` and the
action property `RevocationIsFinal`.  `TokensAreHonoured` joins the invariants into the
`TokensHonoured` of the run `hub`; the action property is part of `NothingGoesBack`.

*Artifacts* (`ArtifactStoreProofs`).  An artifact has one life (`Lives`): before its
reservation it has neither object nor row; once a deletion is queued or claimed its upload is
over, its reservation gone and its row deleted, for good; an object that exists is paid for by a
row or a reservation or is queued.  `SweepHolds` says that a clear has locked the rows it is
about to delete and that only finished jobs refer to them.  `QuotaHolds`: the upload between its
check and its commit is the only one that adds to the quota, and what it will add still fits.
`PermitsAre`: the staging counters are the cardinalities of the sets of uploads under way.  The
model takes the bytes of a set of artifacts to be the number of pairs of an artifact and an
offset in it, so the byte quota is a cardinality as the count quota is, and one lemma serves both.
From `StoreInv` follow `PermitsAreAccounted`, `RowsHaveObjects`, `NoObjectForgotten`,
`QuotasAreRespected` and `StoreTypeCorrect`, joined in `ArtifactsAreKept`; and the action property
`UnfinishedJobsKept`, which has the hypothesis that the retention cleanup does not run: with it
the property is false (section 5).

*Plugin object* (`PluginLifetimeProofs`).  `LifeInv`: leases, callback gate and account mutex of
a thread follow from its place (`HoldsByPlace`); the finalizer starts once, after a destroy was
requested (`Finalizer`); the reclaiming thread has passed a join only if that worker has left its
loop and a wait only if nobody holds a lease (`Reclaimed`); a model-task callback runs while its
account is current (`ModelTask`).  `DestroyIsCleanAlways` follows for any number of Studio's
threads, whether they call, destroy from outside or destroy from inside a callback.

*Only model-checked.*  Liveness, which TLAPS does not reach; the invariants of the components
without a proof module (jobs, live commands, cameras, firmware, error recovery, agent reports and
commands, account files and callbacks, the Studio side of the plugin); what the pure conversions of `MaterialInventory` and `OperationPath`
compute, which would need induction over data.

## 7. Plan

1. Done: the modules of section 2, their runs, and the proofs of section 6.
2. Next proofs: the guards of `FirmwareControl`, the ownership of `LiveCommands`, the relay of
   `CameraSessions` and the drain of `AccountCallbacks`.
3. Back-pressure: the lease held while the command channel is full, against heartbeats, expiry
   and the agent's bounded channels.

## 8. Not modelled

Device I/O of the agent (TLS, FTPS, SSDP discovery, ffmpeg), the studio hook, the camera source
library, the front end, the mobile application and the tools.  Parsing and formatting where no
property depends on it: 3MF metadata, headers and bodies, text of errors and their redaction.
Audit rows, which share the transaction of what they record.  Tenant isolation: `tenant_id`
filters every query alike.  The browser's event stream, which shares its sends with Studio's.
Externals, modelled from how the code uses them and marked so in the map: PostgreSQL's locks and
snapshots, NATS, the identity provider, object storage, the MQTT client (a publish that was
flushed is taken to have reached the printer's broker), printers, and Studio.  Known consequences
of the code that no property forbids: a durable command whose session is lost after the mark
stays `sent` or `acknowledged`; a row stays `online` after a crash until the agent reconnects.
