-------- MODULE MCPlugin --------
(* The network plugin: the account, its files and tokens, the callbacks to    *)
(* Studio and the life of the plugin object; the device stream, print         *)
(* submissions, task pages and personal presets.  The components share no     *)
(* state, so one of them moves in a behaviour while the others rest.          *)
EXTENDS PluginLifetime, Naturals, Sequences, FiniteSets, TLC

CONSTANTS None

OneProcess == "x1" :> "p1" @@ "x2" :> "p1"
TwoProcesses == "x1" :> "p1" @@ "x2" :> "p2"
HubOfToken == [t \in {"n1", "n2", "a2", "old"} |-> IF t = "a2" THEN "h2" ELSE "h1"]

NoEvents == [k \in {"frame", "drop", "health", "account", "rotate", "hub", "epoch", "select",
                    "local", "push", "version", "listen", "fail"} |-> 0]

\* Two of the states a job is in, and two ways the two columns combine.
TwoStates == {<<"succeeded", "running">>, <<"succeeded", "completed">>}
ManyStates == {<<"failed", "completed">>, <<"succeeded", "stalled">>}

\* A content is named for its size.
SizeOf(c) == IF c = "large" THEN 3 ELSE 1

VARIABLE part  \* the component that takes steps in this behaviour

-----------------------------------------------------------------------------
\* PluginAccount. Studio processes on one config directory.
VARIABLES files, acctLock, mem, lo, rot, flow, issued, acctLive, revoked, installed, claims,
          adrift, faults, crashes
acctVars == <<files, acctLock, mem, lo, rot, flow, issued, acctLive, revoked, installed,
              claims, adrift, faults, crashes>>
\* Two calls of one process, a fault and a crash.
Account == INSTANCE PluginAccount WITH
    Tokens <- {"a1"}, AuthTokens <- {"a1"}, NoAuthTokens <- {}, Legacy <- {},
    Procs <- {"p1"}, Threads <- {"x1", "x2"}, ProcOf <- OneProcess, Hubs <- {"h1"},
    TokenHub <- [t \in {"a1"} |-> "h1"], Ops <- {"login", "logout", "load"}, MaxEpoch <- 2,
    MaxFaults <- 1, MaxCrashes <- 1, lock <- acctLock, live <- acctLive
\* Three failed file operations or calls.
Storage == INSTANCE PluginAccount WITH
    Tokens <- {"a1"}, AuthTokens <- {"a1"}, NoAuthTokens <- {}, Legacy <- {},
    Procs <- {"p1"}, Threads <- {"x1", "x2"}, ProcOf <- OneProcess, Hubs <- {"h1"},
    TokenHub <- [t \in {"a1"} |-> "h1"], Ops <- {"login", "logout"}, MaxEpoch <- 2,
    MaxFaults <- 3, MaxCrashes <- 0, lock <- acctLock, live <- acctLive
\* Expired credentials, a legacy login and a change of the hub.
Refreshed == INSTANCE PluginAccount WITH
    Tokens <- {"n1", "n2", "a2", "old"}, AuthTokens <- {"a2", "old"},
    NoAuthTokens <- {"n1", "n2"}, Legacy <- {"old"}, Procs <- {"p1"},
    Threads <- {"x1", "x2"}, ProcOf <- OneProcess, Hubs <- {"h1", "h2"},
    TokenHub <- HubOfToken, Ops <- {"boot", "refresh", "hub", "load", "login"},
    MaxEpoch <- 1, MaxFaults <- 1, MaxCrashes <- 0, lock <- acctLock, live <- acctLive
\* Two processes share the files.
Shared == INSTANCE PluginAccount WITH
    Tokens <- {"a1"}, AuthTokens <- {"a1"}, NoAuthTokens <- {}, Legacy <- {},
    Procs <- {"p1", "p2"}, Threads <- {"x1", "x2"}, ProcOf <- TwoProcesses, Hubs <- {"h1"},
    TokenHub <- [t \in {"a1"} |-> "h1"], Ops <- {"login", "change", "logout", "load"},
    MaxEpoch <- 1, MaxFaults <- 0, MaxCrashes <- 1, lock <- acctLock, live <- acctLive

-----------------------------------------------------------------------------
\* AccountCallbacks. Two threads of Studio.
VARIABLES callAcct, pending, queue, draining, callTh, callTold, last, admitted, printers,
          callCache, answered
callVars == <<callAcct, pending, queue, draining, callTh, callTold, last, admitted,
              printers, callCache, answered>>
\* Account changes.
Callbacks == INSTANCE AccountCallbacks WITH
    Threads <- {"s", "w"},
    Actions <- {"boot", "replace", "login", "logout", "clear", "httpError", "hub", "servers", "restoreFailure"},
    MaxChanges <- 3, MaxFrames <- 0, MaxQueue <- 3, acct <- callAcct, th <- callTh,
    told <- callTold, cache <- callCache
\* Requests answered from the printer cache.
CacheReads == INSTANCE AccountCallbacks WITH
    Threads <- {"s", "w"}, Actions <- {"replace", "login", "logout", "hub"},
    MaxChanges <- 2, MaxFrames <- 2, MaxQueue <- 2, acct <- callAcct, th <- callTh,
    told <- callTold, cache <- callCache

-----------------------------------------------------------------------------
\* PluginLifetime. One plugin object and its workers; the constants are in the cfg.

-----------------------------------------------------------------------------
\* PluginConnection. One plugin; what happens to it differs by part.
VARIABLES connS, connW, wake, connTh, connGate, connWoken, acc, cbs, connTold, left
connVars == <<connS, connW, wake, connTh, connGate, connWoken, acc, cbs, connTold, left>>
\* The stream, its failures and the selection of a device.
Stream == INSTANCE PluginConnection WITH
    Devs <- {1}, Hubs <- {"h1"}, Tokens <- {"t1"}, Tenants <- {"n1"}, PrinterIds <- {"p1"},
    Threads <- {"status"},
    Budget <- [NoEvents EXCEPT !["frame"] = 2, !["drop"] = 1, !["select"] = 1], s <- connS,
    w <- connW, th <- connTh, gate <- connGate, woken <- connWoken, told <- connTold
\* The stream breaks, the hub's health is asked for, and the stream comes back.
Outage == INSTANCE PluginConnection WITH
    Devs <- {1}, Hubs <- {"h1"}, Tokens <- {"t1"}, Tenants <- {"n1"}, PrinterIds <- {"p1"},
    Threads <- {"status"},
    Budget <- [NoEvents EXCEPT !["frame"] = 2, !["drop"] = 1, !["health"] = 1], s <- connS,
    w <- connW, th <- connTh, gate <- connGate, woken <- connWoken, told <- connTold
\* Another account and its callback.
NewAccount == INSTANCE PluginConnection WITH
    Devs <- {1}, Hubs <- {"h1"}, Tokens <- {"t1", "t2"}, Tenants <- {"n1", "n2"},
    PrinterIds <- {"p1"}, Threads <- {"status", "drain"},
    Budget <- [NoEvents EXCEPT !["frame"] = 1, !["account"] = 1], s <- connS, w <- connW,
    th <- connTh, gate <- connGate, woken <- connWoken, told <- connTold
\* Another account and a selection.
NewTenant == INSTANCE PluginConnection WITH
    Devs <- {1}, Hubs <- {"h1"}, Tokens <- {"t1", "t2"}, Tenants <- {"n1", "n2"},
    PrinterIds <- {"p1"}, Threads <- {"status"},
    Budget <- [NoEvents EXCEPT !["frame"] = 1, !["select"] = 1, !["account"] = 1],
    s <- connS, w <- connW, th <- connTh, gate <- connGate, woken <- connWoken,
    told <- connTold
\* A rotated token, another epoch.
Rotation == INSTANCE PluginConnection WITH
    Devs <- {1}, Hubs <- {"h1"}, Tokens <- {"t1", "t2"}, Tenants <- {"n1"},
    PrinterIds <- {"p1"}, Threads <- {"status"},
    Budget <- [NoEvents EXCEPT !["frame"] = 1, !["select"] = 1, !["rotate"] = 1, !["epoch"] = 1],
    s <- connS, w <- connW, th <- connTh, gate <- connGate, woken <- connWoken,
    told <- connTold
\* Another hub, a selection.
NewHub == INSTANCE PluginConnection WITH
    Devs <- {1}, Hubs <- {"h1", "h2"}, Tokens <- {"t1"}, Tenants <- {"n1"},
    PrinterIds <- {"p1"}, Threads <- {"status"},
    Budget <- [NoEvents EXCEPT !["frame"] = 1, !["hub"] = 1, !["select"] = 1], s <- connS,
    w <- connW, th <- connTh, gate <- connGate, woken <- connWoken, told <- connTold
\* Listeners come and go, callbacks fail, the hub is reported unhealthy.
NewListeners == INSTANCE PluginConnection WITH
    Devs <- {1}, Hubs <- {"h1"}, Tokens <- {"t1"}, Tenants <- {"n1"}, PrinterIds <- {"p1"},
    Threads <- {"status"},
    Budget <- [NoEvents EXCEPT !["frame"] = 1, !["health"] = 1, !["listen"] = 2, !["fail"] = 1],
    s <- connS, w <- connW, th <- connTh, gate <- connGate, woken <- connWoken,
    told <- connTold
\* The local connection and its loss.
Local == INSTANCE PluginConnection WITH
    Devs <- {1}, Hubs <- {"h1"}, Tokens <- {"t1"}, Tenants <- {"n1"}, PrinterIds <- {"p1"},
    Threads <- {"status", "api"},
    Budget <- [NoEvents EXCEPT !["frame"] = 2, !["local"] = 2, !["fail"] = 1], s <- connS,
    w <- connW, th <- connTh, gate <- connGate, woken <- connWoken, told <- connTold
\* Studio asks for a report while frames come.
Pushes == INSTANCE PluginConnection WITH
    Devs <- {1}, Hubs <- {"h1"}, Tokens <- {"t1"}, Tenants <- {"n1"}, PrinterIds <- {"p1"},
    Threads <- {"status", "api"},
    Budget <- [NoEvents EXCEPT !["frame"] = 2, !["push"] = 1, !["select"] = 1], s <- connS,
    w <- connW, th <- connTh, gate <- connGate, woken <- connWoken, told <- connTold
\* Studio asks for a version.
Versions == INSTANCE PluginConnection WITH
    Devs <- {1}, Hubs <- {"h1"}, Tokens <- {"t1"}, Tenants <- {"n1"},
    PrinterIds <- {"p1", "p2"}, Threads <- {"status", "api"},
    Budget <- [NoEvents EXCEPT !["frame"] = 1, !["version"] = 1, !["select"] = 1],
    s <- connS, w <- connW, th <- connTh, gate <- connGate, woken <- connWoken,
    told <- connTold

-----------------------------------------------------------------------------
\* StudioPrint. One print submission.
VARIABLES printLive, printStop, late, job, past, retries, printCall, seen, ret
printVars == <<printLive, printStop, late, job, past, retries, printCall, seen, ret>>
Submission == INSTANCE StudioPrint WITH
    Chunks <- 2, MaxVersion <- 1, MaxRetries <- 1, live <- printLive, stop <- printStop,
    call <- printCall

-----------------------------------------------------------------------------
\* StudioTasks. The task calls of one plugin.
VARIABLES jobs, owner, valid, taskAcct, taskCall, sent, result
taskVars == <<jobs, owner, valid, taskAcct, taskCall, sent, result>>
\* Sign-ins, revocations and rotations while a call runs.
Recovered == INSTANCE StudioTasks WITH
    Ops <- {"model", "plate"}, JobStates <- TwoStates, Metas <- {"ordinary"}, MaxJobs <- 1,
    MaxTokens <- 3, MaxEpoch <- 2, MaxLimit <- 1, acct <- taskAcct, call <- taskCall
\* One job of every kind of metadata and every call.
Plates == INSTANCE StudioTasks WITH
    Ops <- {"tasks", "plate", "subtask", "model"}, JobStates <- TwoStates,
    Metas <- {"bare", "market", "unnamed", "web"}, MaxJobs <- 1, MaxTokens <- 2,
    MaxEpoch <- 0, MaxLimit <- 1, acct <- taskAcct, call <- taskCall
\* Two jobs and every page of them.
Pages == INSTANCE StudioTasks WITH
    Ops <- {"tasks"}, JobStates <- ManyStates, Metas <- {"ordinary"}, MaxJobs <- 2,
    MaxTokens <- 1, MaxEpoch <- 0, MaxLimit <- 2, acct <- taskAcct, call <- taskCall

-----------------------------------------------------------------------------
\* PersonalPresets. The presets of one owner.
VARIABLES users, rows, used, clock, now, presetLock, req, presetAccount, stale, presetCache,
          list, drain, calls, studio
presetVars == <<users, rows, used, clock, now, presetLock, req, presetAccount, stale,
                presetCache, list, drain, calls, studio>>
\* Two requests of one owner at the limit.
Presets == INSTANCE PersonalPresets WITH
    Ids <- {"i1", "i2"}, Names <- {"n1", "n2"}, Size <- SizeOf, Envelope <- 1,
    StudioFields <- 1, MaxMapBytes <- 4, PresetLimit <- 1, Owners <- {"u1"},
    Studios <- {"s1", "s2"}, Requests <- {"q1", "q2"}, Contents <- {"a"}, MaxTime <- 3,
    MaxEpoch <- 0, MaxCalls <- 0, lock <- presetLock, account <- presetAccount,
    cache <- presetCache
\* Two requests, and a list and a drain of one Studio.
SyncedPresets == INSTANCE PersonalPresets WITH
    Ids <- {"i1"}, Names <- {"n1"}, Size <- SizeOf, Envelope <- 1, StudioFields <- 1,
    MaxMapBytes <- 4, PresetLimit <- 1, Owners <- {"u1"}, Studios <- {"s1"},
    Requests <- {"q1", "q2"}, Contents <- {"a", "b"}, MaxTime <- 2, MaxEpoch <- 0,
    MaxCalls <- 2, lock <- presetLock, account <- presetAccount, cache <- presetCache
\* The account changes while a list runs.
OwnedPresets == INSTANCE PersonalPresets WITH
    Ids <- {"i1", "i2"}, Names <- {"n1"}, Size <- SizeOf, Envelope <- 1, StudioFields <- 1,
    MaxMapBytes <- 4, PresetLimit <- 1, Owners <- {"u1", "u2"}, Studios <- {"s1"},
    Requests <- {"q1"}, Contents <- {"a", "large"}, MaxTime <- 1, MaxEpoch <- 1,
    MaxCalls <- 2, lock <- presetLock, account <- presetAccount, cache <- presetCache

-----------------------------------------------------------------------------
Parts == {"account", "storage", "refreshes", "shared", "callbacks", "cache", "lifetime",
          "stream", "outage", "accounts", "selections", "rotation", "hubs", "listeners",
          "local", "pushes", "versions", "submission", "recovery", "plates", "pages",
          "presets", "synced", "owners"}

\* What the components assume of their constants.
ASSUME ConstantsOK ==
    /\ Account!AccountAssumption /\ Storage!AccountAssumption
    /\ Refreshed!AccountAssumption /\ Shared!AccountAssumption
    /\ Callbacks!CallbackAssumption /\ CacheReads!CallbackAssumption
    /\ Stream!ConnectionAssumption /\ Stream!StudioAssumption /\ NewAccount!ConnectionAssumption
    /\ NewTenant!ConnectionAssumption /\ Rotation!ConnectionAssumption
    /\ NewHub!ConnectionAssumption /\ NewListeners!ConnectionAssumption
    /\ Local!ConnectionAssumption /\ Pushes!ConnectionAssumption
    /\ Outage!ConnectionAssumption /\ Versions!ConnectionAssumption
    /\ Submission!ConstantsAssumption
    /\ Recovered!ConstantsAssumption /\ Plates!ConstantsAssumption /\ Pages!ConstantsAssumption
    /\ Presets!PresetsAssumption /\ SyncedPresets!PresetsAssumption
    /\ OwnedPresets!PresetsAssumption

Init ==
    /\ part \in Parts
    /\ IF part = "storage" THEN Storage!Init
       ELSE IF part = "refreshes" THEN Refreshed!Init
       ELSE IF part = "shared" THEN Shared!Init
       ELSE Account!Init
    /\ IF part = "cache" THEN CacheReads!Init
       ELSE Callbacks!Init
    /\ LifeInit
    /\ IF part = "outage" THEN Outage!Init
       ELSE IF part = "accounts" THEN NewAccount!Init
       ELSE IF part = "selections" THEN NewTenant!Init
       ELSE IF part = "rotation" THEN Rotation!Init
       ELSE IF part = "hubs" THEN NewHub!Init
       ELSE IF part = "listeners" THEN NewListeners!Init
       ELSE IF part = "local" THEN Local!Init
       ELSE IF part = "pushes" THEN Pushes!Init
       ELSE IF part = "versions" THEN Versions!Init
       ELSE Stream!Init
    /\ Submission!Init
    /\ IF part = "plates" THEN Plates!Init
       ELSE IF part = "pages" THEN Pages!Init
       ELSE Recovered!Init
    /\ IF part = "synced" THEN SyncedPresets!Init
       ELSE IF part = "owners" THEN OwnedPresets!Init
       ELSE Presets!Init

vars == <<part, acctVars, callVars, lifeVars, connVars, printVars, taskVars, presetVars>>

\* What rests while a component moves.
acctRest == <<part, callVars, lifeVars, connVars, printVars, taskVars, presetVars>>
callRest == <<part, acctVars, lifeVars, connVars, printVars, taskVars, presetVars>>
lifeRest == <<part, acctVars, callVars, connVars, printVars, taskVars, presetVars>>
connRest == <<part, acctVars, callVars, lifeVars, printVars, taskVars, presetVars>>
printRest == <<part, acctVars, callVars, lifeVars, connVars, taskVars, presetVars>>
taskRest == <<part, acctVars, callVars, lifeVars, connVars, printVars, presetVars>>
presetRest == <<part, acctVars, callVars, lifeVars, connVars, printVars, taskVars>>

Next ==
    \/ part = "account" /\ Account!Next /\ UNCHANGED acctRest
    \/ part = "storage" /\ Storage!Next /\ UNCHANGED acctRest
    \/ part = "refreshes" /\ Refreshed!Next /\ UNCHANGED acctRest
    \/ part = "shared" /\ Shared!Next /\ UNCHANGED acctRest
    \/ part = "callbacks" /\ Callbacks!Next /\ UNCHANGED callRest
    \/ part = "cache" /\ CacheReads!Next /\ UNCHANGED callRest
    \/ part = "lifetime" /\ LifeNext /\ UNCHANGED lifeRest
    \/ part = "stream" /\ Stream!Next /\ UNCHANGED connRest
    \/ part = "outage" /\ Outage!Next /\ UNCHANGED connRest
    \/ part = "accounts" /\ NewAccount!Next /\ UNCHANGED connRest
    \/ part = "selections" /\ NewTenant!Next /\ UNCHANGED connRest
    \/ part = "rotation" /\ Rotation!Next /\ UNCHANGED connRest
    \/ part = "hubs" /\ NewHub!Next /\ UNCHANGED connRest
    \/ part = "listeners" /\ NewListeners!Next /\ UNCHANGED connRest
    \/ part = "local" /\ Local!Next /\ UNCHANGED connRest
    \/ part = "pushes" /\ Pushes!Next /\ UNCHANGED connRest
    \/ part = "versions" /\ Versions!Next /\ UNCHANGED connRest
    \/ part = "submission" /\ Submission!Next /\ UNCHANGED printRest
    \/ part = "recovery" /\ Recovered!Next /\ UNCHANGED taskRest
    \/ part = "plates" /\ Plates!Next /\ UNCHANGED taskRest
    \/ part = "pages" /\ Pages!Next /\ UNCHANGED taskRest
    \/ part = "presets" /\ Presets!Next /\ UNCHANGED presetRest
    \/ part = "synced" /\ SyncedPresets!Next /\ UNCHANGED presetRest
    \/ part = "owners" /\ OwnedPresets!Next /\ UNCHANGED presetRest

Spec == Init /\ [][Next]_vars

-----------------------------------------------------------------------------
\* What is checked.

\* A DELETE is sent under an intent that a power loss cannot take away, and a token it
\* has ended is never restored from the files, whatever a power loss leaves of them; a
\* requested logout that reported success ended the session at the hub; while no process
\* dies, a session that was not installed is being committed, queued for revocation or
\* over.  Two kinds of sessions are excepted, those of an answer the plugin could not
\* read and those for which both intents failed and a best-effort DELETE was sent.  One
\* flight per expired credential asks the hub for a new session (account/persistence,
\* account/revocation.rs, account/lifecycle).
AccountHonest == 
    /\ part = "account" => Account!TypeOK
    /\ part \in {"account", "storage", "refreshes", "shared"} => Account!RevokedNeverLoads
    /\ part \in {"account", "storage", "shared"} => Account!LogoutHonest /\ Account!DeleteAuthorised
    /\ part \in {"account", "storage", "shared"} => Account!CandidateAccounted
    /\ part = "refreshes" => Refreshed!CandidateAccounted /\ Refreshed!RotateOnce

\* Once the callbacks are delivered no account transition is pending and, if the last
\* change of the account announces itself, Studio was told its login state; what a
\* request answers as current are the printers cached at that moment for the account
\* signed in; one admission at a time, and none is left behind (account/session.rs,
\* connection/no_auth_refresh.rs).
CallbacksCurrent == 
    /\ part = "callbacks" => Callbacks!TypeOK
    /\ part \in {"callbacks", "cache"} => Callbacks!ToldTheAccount /\ Callbacks!TransitionEnds
    /\ part = "cache" => CacheReads!ServedPresent /\ CacheReads!AdmissionOwned

\* While the stream is degraded no cached printer passes for online; a ticket that
\* can still be claimed, and every cached printer, is of the present account; a
\* device that counts as initialised was reported to Studio as present, unless Studio
\* asked for versions; the local connection served is the one Studio was told of
\* last, and Studio is never told of a reachability that has passed
\* (connection/studio.rs, connection/delivery.rs).
StudioIsTold == 
    /\ part \in {"outage", "listeners"} => Outage!DegradedIsDark
    /\ part \in {"stream", "outage", "accounts", "selections", "rotation", "pushes", "versions"} =>
            Stream!IssuedCurrent
    /\ part = "stream" => Stream!InitializedMeansTold
    /\ part = "pushes" => Pushes!InitializedMeansTold
    /\ part \in {"accounts", "selections", "rotation"} => NewAccount!CacheOfAccount
    /\ part = "hubs" => NewHub!CacheOfAccount
    /\ part = "local" => Local!TypeOK
    /\ part \in {"local", "pushes", "versions"} => Local!LocalTold
    /\ part = "listeners" => NewListeners!TransitionHonest

\* A cancelled or stale submission has left no print behind, the code 0 means the
\* hub reported the dispatch or retained the print, milestones are reported as
\* observed and in order; a refused request is repeated once; a page agrees with
\* its total, offset, limit and filter, and what the hub answers with 200 the
\* plugin accepts.
StudioAnswersHonest == 
    /\ part = "submission" => /\ Submission!TypeOK /\ Submission!NothingPrinted
                             /\ Submission!ZeroIsDispatched /\ Submission!Milestones
    /\ part = "recovery" => Recovered!TypeOK
    /\ part \in {"recovery", "plates"} => Recovered!OneReplay
    /\ part = "pages" => Pages!PageAgrees
    /\ part \in {"pages", "recovery", "plates"} => Pages!HubIsUnderstood

\* Racing requests never take a catalogue over its limit, a copy in Studio with the
\* time of the hub's preset has its content, and what Studio drains is the whole
\* catalogue of its account.
PresetsAgree == 
    /\ part = "presets" => Presets!TypeOK /\ Presets!CatalogueOK
    /\ part = "synced" => SyncedPresets!CopyAgrees
    /\ part = "owners" => OwnedPresets!OwnCatalogue

\* An intent to revoke leaves the files only when the session is over, a call that
\* saw its snapshot go stale never ends with a result of the job, data is delivered
\* to the tenant signed in at the delivery, a recovery never puts a no-auth session
\* where another account is, and a stored preset is later than any time its owner
\* was given.
NoLateEffect == 
    [][ /\ part = "account" => Account!IntentKeptStep
        /\ part = "submission" => Submission!StaleIsFinalStep
        /\ part \in {"recovery", "plates"} => Recovered!OwnDataStep /\ Recovered!NoFallbackStep
        /\ part = "presets" => Presets!ClockStrictStep ]_vars
=============================================================================
