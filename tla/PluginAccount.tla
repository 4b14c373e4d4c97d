---------------------------- MODULE PluginAccount ----------------------------
(***************************************************************************)
(* The account lifecycle of the network plugin: Studio's login by ticket,   *)
(* the no-auth bootstrap and its rotation, the restored login, the passive  *)
(* and the requested logout, and the revocation of session tokens.          *)
(*                                                                          *)
(* Each process keeps one runtime account under its account mutex; a flow   *)
(* captures it, works without the mutex (files, HTTP) and applies its       *)
(* result in a transaction that first compares the capture with the account *)
(* it finds.  A transaction is one step here; so is every locked file       *)
(* operation (below) and every HTTP call.  The completion of a              *)
(* revocation changes several files and is one step per file, under lock.   *)
(*                                                                          *)
(* The config directory is set and constant, so the config epoch is; the    *)
(* hub of a token is TokenHub[token].  The phases of the logout coordinator *)
(* are AccountLogout's subject: here lo says who may start and whether the  *)
(* passive loss was upgraded before it was sealed.                          *)
(***************************************************************************)
EXTENDS Naturals, Sequences, SequencesExt, FiniteSets

CONSTANTS
    Tokens,       \* the session tokens the hub's answers hand to the plugin
    None,
    Procs,        \* Studio processes on one config directory
    Threads,      \* the plugin calls in flight
    ProcOf,       \* Threads -> Procs
    Hubs, TokenHub, AuthTokens, NoAuthTokens,
    Legacy,       \* tokens whose stored profile has no tenant
    Ops,          \* the calls of this instance
    MaxEpoch,     \* bound: account transitions of a process
    MaxFaults,    \* bound: failed file operations and HTTP calls
    MaxCrashes    \* bound: process crashes and power losses

AccountAssumption ==
    /\ None \notin Tokens \cup Procs \cup Threads \cup Hubs
    /\ ProcOf \in [Threads -> Procs] /\ TokenHub \in [Tokens -> Hubs]
    /\ AuthTokens \cup NoAuthTokens = Tokens /\ AuthTokens \cap NoAuthTokens = {}
    /\ Legacy \subseteq AuthTokens
    /\ MaxEpoch \in Nat /\ MaxFaults \in Nat /\ MaxCrashes \in Nat

-----------------------------------------------------------------------------
(* The account files (account/persistence): the login, the queue of pending *)
(* revocations, the single direct revocation and the tombstones of completed*)
(* ones.  They live in one config directory that several Studio processes   *)
(* share; every operator below runs under the cross-process lock            *)
(* .pandar-plugin-account.lock.                                             *)
(*                                                                          *)
(* A file operation has three results (MutationDurability): confirmed,      *)
(* unconfirmed - the change is visible but the directory could not be       *)
(* synced - and error, which leaves the visible file as it was.  A state s  *)
(* keeps both views: s.disk is what a reader sees, s.dur[f] the contents    *)
(* that file f may have after a power loss.  A sync of the directory        *)
(* settles every file.  An operator returns the set of outcomes the build   *)
(* can produce, each with the state it leaves, its result and its cost in   *)
(* injected faults.                                                         *)

Files == {"login", "pending", "direct", "completed"}
EmptyDisk == [login |-> None, pending |-> <<>>, direct |-> None, completed |-> {}]
Results == {"confirmed", "unconfirmed", "error"}

Outcome(s, res, cost) == [s |-> s, res |-> res, cost |-> cost]

\* A synced directory: what is visible is what survives.
Synced(d) == [disk |-> d, dur |-> [f \in Files |-> {d[f]}]]

\* A change of one file that no sync has settled.
Published(s, f, v) == [disk |-> [s.disk EXCEPT ![f] = v],
                       dur |-> [s.dur EXCEPT ![f] = @ \cup {v}]]

\* write_replace with the reconfirm of its callers: temporary file, rename, directory sync.
WriteReplace(s, f, v) ==
    { Outcome(Synced([s.disk EXCEPT ![f] = v]), "confirmed", 0),
      Outcome(Published(s, f, v), "unconfirmed", 1),
      Outcome(s, "error", 1) }

\* remove: an absent file is confirmed without a sync; a failed sync is rolled back (error) and,
\* when the rollback cannot be synced either, the file is removed again (unconfirmed).
RemoveFile(s, f) ==
    IF s.disk[f] = EmptyDisk[f]
    THEN {Outcome(s, "confirmed", 0)}
    ELSE LET gone == EmptyDisk[f]
         IN  { Outcome(Synced([s.disk EXCEPT ![f] = gone]), "confirmed", 0),
               Outcome(Published(s, f, gone), "unconfirmed", 1),
               Outcome(Synced([s.disk EXCEPT ![f] = gone]), "unconfirmed", 1),
               Outcome(s, "error", 1),
               Outcome(Synced(s.disk), "error", 1) }

Confirm(s) == {Outcome(Synced(s.disk), "confirmed", 0), Outcome(s, "error", 1)}

\* A login in the queue, in the direct intent or in the tombstones.
Blocked(d, t) == d.direct = t \/ t \in ToSet(d.pending) \/ t \in d.completed

Load(d) == IF d.login # None /\ Blocked(d, d.login) THEN None ELSE d.login

Store(s, t) == IF Blocked(s.disk, t) THEN {Outcome(s, "error", 0)}
                                     ELSE WriteReplace(s, "login", t)

Clear(s) == RemoveFile(s, "login")

ClearMatching(s, t) == IF s.disk.login = t THEN Clear(s) ELSE {Outcome(s, "confirmed", 0)}

StorePending(s, q) == IF q = <<>> THEN RemoveFile(s, "pending") ELSE WriteReplace(s, "pending", q)

EnqueuePending(s, t) ==
    IF t \in ToSet(s.disk.pending)
    THEN {Outcome(s, "confirmed", 0)}
    ELSE StorePending(s, Append(s.disk.pending, t))

\* prepare_unlocked: one direct intent at a time, an identical one is confirmed again.
PrepareUnlocked(s, t) ==
    CASE s.disk.direct = None -> WriteReplace(s, "direct", t)
      [] s.disk.direct = t -> { Outcome(Synced(s.disk), "confirmed", 0),
                                Outcome(s, "unconfirmed", 1) }
      [] OTHER -> {Outcome(s, "error", 0)}

PrepareDirect(s, t) == IF s.disk.login = t THEN PrepareUnlocked(s, t) ELSE {Outcome(s, "error", 0)}

\* record_unlocked: the tombstone must be confirmed.
RecordCompleted(s, t) ==
    IF t \in s.disk.completed
    THEN Confirm(s)
    ELSE WriteReplace(s, "completed", s.disk.completed \cup {t})

RemovePending(s, t) ==
    StorePending(s, SelectSeq(s.disk.pending, LAMBDA u : u # t))

\* The disks a power loss can leave.
CrashImages(s) ==
    [login : s.dur.login, pending : s.dur.pending, direct : s.dur.direct,
     completed : s.dur.completed]

-----------------------------------------------------------------------------
VARIABLES
    files,    \* the account files as they are read and as they survive
    lock,     \* the thread inside a completion, which holds the file lock
    mem,      \* runtime account of a process
    lo,       \* logout coordinator of a process: idle, passive, requested or committed
    rot,      \* no-auth rotation of a process: the last key and whether it is in flight
    flow,     \* the call of a thread
    issued,   \* tokens the hub has handed out
    live,     \* tokens the hub accepts
    revoked,  \* tokens a DELETE of the plugin has ended
    installed,\* tokens that were a runtime account
    claims,   \* <<p, t>>: a requested logout of t by p reported success
    adrift,   \* tokens the plugin keeps no record of: those of an answer it could not read, and
              \* those whose DELETE was sent best-effort after both intents failed
    faults, crashes

vars == <<files, lock, mem, lo, rot, flow, issued, live, revoked, installed, claims, adrift,
          faults, crashes>>

Kind(t) == IF t = None THEN "none" ELSE IF t \in AuthTokens THEN "auth" ELSE "noauth"
Account(t, h, e, x) == [token |-> t, hub |-> h, epoch |-> e, trans |-> x]
NoKey == Account(None, None, 0, FALSE)
Idle == [pc |-> "idle", op |-> "none", exp |-> NoKey, tok |-> None, rev |-> None,
         how |-> "none", k |-> "end", req |-> FALSE, ok |-> TRUE]

Pcs == {"idle", "fence", "retry", "unlogin", "confirm", "delete", "uclear", "record",
        "clearlogin", "dequeue", "rmdirect", "dedupe", "recheck", "rcheck", "rotate", "issue",
        "commit", "stage", "orphan", "load", "loadtx", "legacy", "ltx", "ltx2", "seal",
        "rclear", "rstage", "rdirect", "restore", "udirect"}

\* Every variable has its type.
TypeOK ==
    /\ files.disk.login \in Tokens \cup {None} /\ files.disk.direct \in Tokens \cup {None}
    /\ files.disk.completed \subseteq Tokens /\ ToSet(files.disk.pending) \subseteq Tokens
    /\ \A f \in Files : files.disk[f] \in files.dur[f]
    /\ lock \in Threads \cup {None}
    /\ \A p \in Procs : /\ mem[p].token \in Tokens \cup {None} /\ mem[p].hub \in Hubs
                        /\ mem[p].epoch \in Nat /\ mem[p].trans \in BOOLEAN
                        /\ lo[p] \in {"idle", "passive", "requested", "committed"}
    /\ \A th \in Threads : flow[th].pc \in Pcs
    /\ live \subseteq issued /\ issued \subseteq Tokens
    /\ faults \in 0..MaxFaults /\ crashes \in 0..MaxCrashes

Init ==
    /\ \E t \in Legacy \cup {None} :
          /\ files = Synced([EmptyDisk EXCEPT !.login = t])
          /\ issued = {t} \ {None} /\ live = {t} \ {None} /\ installed = {t} \ {None}
    /\ lock = None
    /\ \E h \in Hubs : mem = [p \in Procs |-> Account(None, h, 0, FALSE)]
    /\ lo = [p \in Procs |-> "idle"]
    /\ rot = [p \in Procs |-> [key |-> NoKey, flying |-> FALSE]]
    /\ flow = [th \in Threads |-> Idle]
    /\ revoked = {} /\ claims = {} /\ adrift = {}
    /\ faults = 0 /\ crashes = 0

-------------------------------------------------------------------------------
(* Accounts and flows.                                                      *)

My(th) == mem[ProcOf[th]]

\* ExpectedAccount::matches
Matches(exp, m) == ~m.trans /\ m.token = exp.token /\ m.hub = exp.hub /\ m.epoch = exp.epoch

\* commit_current of the two no-auth modes.
CommitCurrent(f, m) ==
    /\ ~m.trans /\ m.epoch = f.exp.epoch /\ m.hub = f.exp.hub
    /\ IF f.op = "boot" THEN m.token = None
                        ELSE Kind(f.exp.token) = "noauth" /\ m.token = f.exp.token

\* MUTATION_REPLACE, and the mutations that begin an account transition.
Replaced(m, t) == [m EXCEPT !.token = t]
Transition(m, t) == Account(t, m.hub, m.epoch + 1, TRUE)

Go(th, r) == flow' = [flow EXCEPT ![th] = r]
At(th, pc) == Go(th, [flow[th] EXCEPT !.pc = pc])

\* The end of a call: the coordinators of a logout and of a rotation are released.
End(th) ==
    LET p == ProcOf[th] op == flow[th].op
    IN  /\ Go(th, Idle)
        /\ lo' = [lo EXCEPT ![p] = IF op = "logout" THEN "idle" ELSE @]
        /\ rot' = [rot EXCEPT ![p].flying = IF op = "refresh" /\ @ /\ rot[p].key = flow[th].exp
                                            THEN FALSE ELSE @]

Stay == UNCHANGED <<lo, rot>>

\* A requested logout that reports success for the token it took.
Claim(th, success) ==
    claims' = IF success /\ flow[th].op = "logout" /\ flow[th].req /\ flow[th].tok # None
              THEN claims \cup {<<ProcOf[th], flow[th].tok>>} ELSE claims

\* One revocation is over: the loop of revoke_all goes on, everything else ends.
Revoked(th, success) ==
    /\ Claim(th, success)
    /\ IF success /\ flow[th].k = "loop" THEN At(th, "retry") /\ Stay ELSE End(th)

Use(o) == files' = o.s /\ faults + o.cost <= MaxFaults /\ faults' = faults + o.cost
Spend == faults < MaxFaults /\ faults' = faults + 1
LockFree == lock = None
Hub == <<issued, live, revoked, installed, adrift>>

\* Starting a call.
Start(th, op) ==
    /\ flow[th].pc = "idle" /\ op \in Ops /\ My(th).epoch < MaxEpoch

-------------------------------------------------------------------------------
(* Revocation (revocation.rs).                                              *)

\* What follows an empty queue.
AfterRetry(f) == CASE f.op = "login" -> "issue" [] f.op = "boot" -> "recheck"
                   [] f.op = "refresh" -> "rotate" [] OTHER -> "done"

\* load_next_revocation: the direct intent first, and only when it is confirmed.
Retry(th) ==
    /\ flow[th].pc = "retry" /\ LockFree
    /\ LET d == files.disk f == flow[th]
       IN  IF d.direct # None
           THEN \E o \in Confirm(files) :
                   /\ Use(o)
                   /\ IF o.res = "confirmed"
                      THEN Go(th, [f EXCEPT !.pc = "delete", !.rev = d.direct, !.how = "direct"])
                           /\ Stay
                      ELSE End(th)
           ELSE /\ UNCHANGED <<files, faults>>
                /\ IF d.pending # <<>>
                   THEN Go(th, [f EXCEPT !.pc = "unlogin", !.rev = Head(d.pending),
                                         !.how = "pending"]) /\ Stay
                   ELSE IF AfterRetry(f) = "done" THEN End(th) ELSE At(th, AfterRetry(f)) /\ Stay
    /\ UNCHANGED <<lock, mem, claims, crashes, Hub>>

\* revoke_with_cancellation: clear the matching login, ...
Unlogin(th) ==
    /\ flow[th].pc = "unlogin" /\ LockFree
    /\ \E o \in ClearMatching(files, flow[th].rev) :
          /\ Use(o)
          /\ IF o.res = "error" THEN End(th) ELSE At(th, "confirm") /\ Stay
    /\ UNCHANGED <<lock, mem, claims, crashes, Hub>>

\* ... confirm the queue and the removal, and only then call the hub.
ConfirmIntent(th) ==
    /\ flow[th].pc = "confirm" /\ LockFree
    /\ \E o \in Confirm(files) :
          /\ Use(o)
          /\ IF o.res = "confirmed" THEN At(th, "delete") /\ Stay ELSE End(th)
    /\ UNCHANGED <<lock, mem, claims, crashes, Hub>>

\* Mutant: a failed DELETE completes its intent.
AfterDeleteAlways(th, success) ==
    IF flow[th].how = "unstaged"
    THEN Go(th, [flow[th] EXCEPT !.pc = "uclear", !.ok = TRUE]) /\ Stay /\ UNCHANGED claims
    ELSE At(th, "record") /\ Stay /\ UNCHANGED claims

\* Where a DELETE leads: the completion of its intent, for an unstaged logout after the runtime
\* account was cleared, and for a best-effort orphan nowhere.
AfterDelete(th, success) ==
    LET f == flow[th]
    IN  CASE f.how = "unstaged" -> Go(th, [f EXCEPT !.pc = "uclear", !.ok = success])
                                   /\ Stay /\ UNCHANGED claims
          [] f.how = "orphan" -> End(th) /\ UNCHANGED claims
          [] OTHER -> IF success THEN At(th, "record") /\ Stay /\ UNCHANGED claims
                                 ELSE Revoked(th, FALSE)

\* The intents that a power loss cannot take away.
DurableIntent(t) ==
    \/ \A q \in files.dur.pending : t \in ToSet(q)
    \/ files.dur.direct = {t}

\* DELETE /api/v1/plugin/session: 2xx, 401 and 410 are success; the answer of a failed call may be
\* all that was lost.
Delete(th) ==
    /\ flow[th].pc = "delete"
    /\ LET t == flow[th].rev
       IN  /\ adrift' = IF flow[th].how = "orphan" THEN adrift \cup {t} ELSE adrift
           /\ \/ /\ live' = live \ {t} /\ revoked' = revoked \cup {t}
                 /\ AfterDelete(th, TRUE)
                 /\ UNCHANGED faults
              \/ /\ Spend
                 /\ \/ live' = live \ {t} /\ revoked' = revoked \cup {t}
                    \/ UNCHANGED <<live, revoked>>
                 /\ AfterDelete(th, FALSE)
    /\ UNCHANGED <<files, lock, mem, issued, installed, crashes>>

\* complete_pending and complete_direct: the tombstone, ...
Record(th) ==
    /\ flow[th].pc = "record" /\ LockFree
    /\ \E o \in RecordCompleted(files, flow[th].rev) :
          /\ Use(o)
          /\ IF o.res = "confirmed"
             THEN lock' = th /\ At(th, "clearlogin") /\ Stay /\ UNCHANGED claims
             ELSE UNCHANGED lock /\ Revoked(th, FALSE)
    /\ UNCHANGED <<mem, crashes, Hub>>

\* ... the login, confirmed, ...
ClearCompletedLogin(th) ==
    /\ flow[th].pc = "clearlogin"
    /\ \E o \in ClearMatching(files, flow[th].rev) :
          /\ Use(o)
          /\ IF o.res = "confirmed"
             THEN /\ At(th, IF flow[th].how = "pending" THEN "dequeue" ELSE "rmdirect")
                  /\ Stay /\ UNCHANGED <<claims, lock>>
             ELSE lock' = None /\ Revoked(th, FALSE)
    /\ UNCHANGED <<mem, crashes, Hub>>

\* ... the queue entry, whose durability is only reported.
Dequeue(th) ==
    /\ flow[th].pc = "dequeue" /\ lock' = None
    /\ \E o \in RemovePending(files, flow[th].rev) :
          /\ Use(o)
          /\ Revoked(th, o.res # "error")
    /\ UNCHANGED <<mem, crashes, Hub>>

\* The direct intent is removed unless it is another one by now.
RemoveDirect(th) ==
    /\ flow[th].pc = "rmdirect"
    /\ IF files.disk.direct \notin {None, flow[th].rev}
       THEN lock' = None /\ UNCHANGED <<files, faults>> /\ Revoked(th, FALSE)
       ELSE \E o \in RemoveFile(files, "direct") :
               /\ Use(o)
               /\ IF o.res = "error" THEN lock' = None /\ Revoked(th, FALSE)
                  ELSE At(th, "dedupe") /\ Stay /\ UNCHANGED <<claims, lock>>
    /\ UNCHANGED <<mem, crashes, Hub>>

\* A duplicate of the direct intent in the queue is dropped best-effort.
Dedupe(th) ==
    /\ flow[th].pc = "dedupe" /\ lock' = None
    /\ IF flow[th].rev \in ToSet(files.disk.pending)
       THEN \E o \in RemovePending(files, flow[th].rev) : Use(o)
       ELSE UNCHANGED <<files, faults>>
    /\ Revoked(th, TRUE)
    /\ UNCHANGED <<mem, crashes, Hub>>

\* revoke_orphan: a candidate that could not be queued.
Orphan(th) ==
    /\ flow[th].pc = "orphan" /\ LockFree
    /\ \E o \in PrepareUnlocked(files, flow[th].rev) :
          /\ Use(o)
          /\ CASE o.res = "confirmed" ->
                    Go(th, [flow[th] EXCEPT !.pc = "delete", !.how = "direct"]) /\ Stay
               [] o.res = "unconfirmed" -> End(th)
               [] OTHER -> Go(th, [flow[th] EXCEPT !.pc = "delete", !.how = "orphan"]) /\ Stay
    /\ UNCHANGED <<lock, mem, claims, crashes, Hub>>

-------------------------------------------------------------------------------
(* Login by ticket, no-auth bootstrap and refresh.                          *)

Capture(th, op, pc) ==
    Go(th, [Idle EXCEPT !.pc = pc, !.op = op, !.k = "loop",
                        !.exp = [My(th) EXCEPT !.trans = FALSE]])

\* exchange_ticket captures the account ...
LoginCapture(th) ==
    /\ Start(th, "login") /\ Capture(th, "login", "fence")
    /\ UNCHANGED <<files, lock, mem, lo, rot, claims, faults, crashes, Hub>>

\* ... and fences firmware only if it is still the current one.
LoginFence(th) ==
    /\ flow[th].pc = "fence"
    /\ IF Matches(flow[th].exp, My(th)) THEN At(th, "retry") ELSE Go(th, Idle)
    /\ Stay /\ UNCHANGED <<files, lock, mem, claims, faults, crashes, Hub>>

\* no_auth_bootstrap: nothing while a logout or a rotation is in flight; with an account, or in a
\* transition, it only retries the revocations.
BootCapture(th) ==
    LET m == My(th) p == ProcOf[th]
    IN  /\ Start(th, "boot") /\ lo[p] = "idle" /\ ~rot[p].flying
        /\ Capture(th, IF m.trans \/ m.token # None THEN "revoke" ELSE "boot", "retry")
        /\ UNCHANGED <<files, lock, mem, lo, rot, claims, faults, crashes, Hub>>

\* initial_current, after the retry was admitted.
BootRecheck(th) ==
    /\ flow[th].pc = "recheck"
    /\ IF CommitCurrent(flow[th], My(th)) THEN At(th, "issue") ELSE Go(th, Idle)
    /\ Stay /\ UNCHANGED <<files, lock, mem, claims, faults, crashes, Hub>>

\* A request with the no-auth token is answered 401: recover with the account of the request.
RefreshCapture(th) ==
    LET m == My(th)
    IN  /\ Start(th, "refresh") /\ Kind(m.token) = "noauth" /\ m.token \notin live
        /\ Capture(th, "refresh", "rcheck")
        /\ UNCHANGED <<files, lock, mem, lo, rot, claims, faults, crashes, Hub>>

\* refresh_action: another token under the same epochs is already a recovery.
RefreshCheck(th) ==
    LET m == My(th) e == flow[th].exp
    IN  /\ flow[th].pc = "rcheck"
        /\ IF ~m.trans /\ m.epoch = e.epoch /\ m.hub = e.hub /\ m.token = e.token
           THEN At(th, "retry") ELSE Go(th, Idle)
        /\ Stay /\ UNCHANGED <<files, lock, mem, claims, faults, crashes, Hub>>

\* begin_no_auth_rotation: one flight per credential; a waiter of the same key waits, and takes the
\* outcome of the flight that finished.
Rotate(th) ==
    LET p == ProcOf[th] r == rot[p] e == flow[th].exp m == My(th)
    IN  /\ flow[th].pc = "rotate"
        /\ ~(r.flying /\ r.key = e)
        /\ IF ~r.flying /\ r.key # e /\ m.hub = e.hub /\ m.token = e.token /\ m.epoch = e.epoch
           THEN /\ rot' = [rot EXCEPT ![p] = [key |-> e, flying |-> TRUE]]
                /\ At(th, "issue")
           ELSE Go(th, Idle) /\ UNCHANGED rot
        /\ UNCHANGED <<files, lock, mem, lo, claims, faults, crashes, Hub>>

\* The hub issues a session, or the call fails; or it issues one and the plugin cannot use the
\* answer: it was cut off, or it is a 200 that does not decode.
Issue(th) ==
    /\ flow[th].pc = "issue"
    /\ \/ \E t \in Tokens \ issued :
             /\ TokenHub[t] = flow[th].exp.hub
             /\ t \in (IF flow[th].op = "login" THEN AuthTokens ELSE NoAuthTokens) \ Legacy
             /\ issued' = issued \cup {t} /\ live' = live \cup {t}
             /\ \/ /\ Go(th, [flow[th] EXCEPT !.pc = "commit", !.tok = t])
                   /\ Stay /\ UNCHANGED <<faults, adrift>>
                \/ Spend /\ End(th) /\ adrift' = adrift \cup {t}
       \/ Spend /\ End(th) /\ UNCHANGED <<issued, live, adrift>>
    /\ UNCHANGED <<files, lock, mem, claims, crashes, revoked, installed>>

\* change_user with a whole session: Studio hands over a token it was given before.
ChangeUser(th) ==
    /\ Start(th, "change")
    /\ \E t \in issued \cap AuthTokens :
          Go(th, [Idle EXCEPT !.pc = "commit", !.op = "change", !.tok = t,
                              !.exp = [My(th) EXCEPT !.trans = FALSE]])
    /\ UNCHANGED <<files, lock, mem, lo, rot, claims, faults, crashes, Hub>>

\* login_transaction and commit_transaction: the login is stored, confirmed, before the runtime
\* account changes.
CommitApplied(th) ==
    LET f == flow[th] p == ProcOf[th]
    IN  /\ f.pc = "commit" /\ LockFree
        /\ IF f.op \in {"login", "change"} THEN Matches(f.exp, mem[p]) ELSE CommitCurrent(f, mem[p])
        /\ \E o \in Store(files, f.tok) : o.res = "confirmed" /\ Use(o)
        /\ mem' = [mem EXCEPT ![p] = IF f.op \in {"login", "change"} THEN Transition(@, f.tok)
                                                                     ELSE Replaced(@, f.tok)]
        /\ installed' = installed \cup {f.tok}
        /\ End(th)
        /\ UNCHANGED <<lock, claims, crashes, issued, live, revoked, adrift>>

\* A stale or unpersisted candidate: of a ticket it is staged after the transaction, of a no-auth
\* session inside it; the token of change_user is Studio's own.
CommitRefused(th) ==
    LET f == flow[th] p == ProcOf[th]
        current == IF f.op \in {"login", "change"} THEN Matches(f.exp, mem[p])
                                                   ELSE CommitCurrent(f, mem[p])
        tried == IF current THEN {o \in Store(files, f.tok) : o.res # "confirmed"}
                            ELSE {Outcome(files, "error", 0)}
        next == [f EXCEPT !.rev = f.tok, !.how = "pending", !.k = "end"]
    IN  /\ f.pc = "commit" /\ LockFree
        /\ \E o \in tried :
              CASE f.op = "change" -> Use(o) /\ End(th)
                [] f.op = "login" -> Use(o) /\ Go(th, [next EXCEPT !.pc = "stage"]) /\ Stay
                [] OTHER -> \E e \in EnqueuePending(o.s, f.tok) :
                               /\ Use(Outcome(e.s, e.res, o.cost + e.cost))
                               /\ Go(th, [next EXCEPT !.pc = IF e.res = "confirmed" THEN "unlogin"
                                                                                    ELSE "orphan"])
                               /\ Stay
        /\ UNCHANGED <<lock, mem, claims, crashes, Hub>>

\* revoke_ticket_candidate
StageCandidate(th) ==
    /\ flow[th].pc = "stage" /\ LockFree
    /\ \E o \in EnqueuePending(files, flow[th].tok) :
          /\ Use(o)
          /\ At(th, IF o.res = "confirmed" THEN "unlogin" ELSE "orphan")
    /\ Stay /\ UNCHANGED <<lock, mem, claims, crashes, Hub>>

-------------------------------------------------------------------------------
(* The persisted login.                                                     *)

LoadCapture(th) ==
    /\ Start(th, "load") /\ My(th).token = None
    /\ Capture(th, "load", "load")
    /\ UNCHANGED <<files, lock, mem, lo, rot, claims, faults, crashes, Hub>>

\* persistence::load; a login of another hub is left alone, one without a tenant is retired.
LoadFile(th) ==
    LET t == Load(files.disk)
    IN  /\ flow[th].pc = "load" /\ LockFree
        /\ IF t = None \/ (t # None /\ TokenHub[t] # flow[th].exp.hub)
           THEN Go(th, Idle)
           ELSE Go(th, [flow[th] EXCEPT !.tok = t,
                                        !.pc = IF t \in Legacy THEN "legacy" ELSE "loadtx"])
        /\ Stay /\ UNCHANGED <<files, lock, mem, claims, faults, crashes, Hub>>

\* clear_tenantless_login removes the login only while it is that one.
ClearTenantless(th) ==
    /\ flow[th].pc = "legacy" /\ LockFree
    /\ \E o \in ClearMatching(files, flow[th].tok) : Use(o)
    /\ Go(th, Idle) /\ Stay /\ UNCHANGED <<lock, mem, claims, crashes, Hub>>

\* load_transaction
LoadApply(th) ==
    LET p == ProcOf[th] f == flow[th]
        fits == Matches(f.exp, mem[p]) /\ mem[p].token = None
    IN  /\ f.pc = "loadtx"
        /\ mem' = IF fits THEN [mem EXCEPT ![p] = Replaced(@, f.tok)] ELSE mem
        /\ installed' = IF fits THEN installed \cup {f.tok} ELSE installed
        /\ Go(th, Idle)
        /\ Stay /\ UNCHANGED <<files, lock, claims, faults, crashes, issued, live, revoked, adrift>>

\* refresh_runtime: the local web server reports another hub.
HubChange(th, h) ==
    LET p == ProcOf[th]
    IN  /\ Start(th, "hub") /\ LockFree /\ h # mem[p].hub /\ ~mem[p].trans
        /\ \E o \in Clear(files) : Use(o)
        /\ mem' = [mem EXCEPT ![p] = Account(None, h, @.epoch + 1, TRUE)]
        /\ UNCHANGED <<lock, lo, rot, flow, claims, crashes, Hub>>

-------------------------------------------------------------------------------
(* Logout (logout.rs, retained.rs, unstaged.rs).                            *)

LogoutBegin(th, req) ==
    LET p == ProcOf[th]
    IN  /\ Start(th, "logout") /\ lo[p] = "idle"
        /\ lo' = [lo EXCEPT ![p] = IF req THEN "requested" ELSE "passive"]
        /\ Go(th, [Idle EXCEPT !.pc = "ltx", !.op = "logout", !.req = req])
        /\ UNCHANGED <<files, lock, mem, rot, claims, faults, crashes, Hub>>

\* A second caller asks for a logout before the passive one is sealed.
Upgrade(p) ==
    /\ lo[p] = "passive"
    /\ lo' = [lo EXCEPT ![p] = "requested"]
    /\ UNCHANGED <<files, lock, mem, rot, flow, claims, faults, crashes, Hub>>

\* logout_transaction of a passive loss: nothing for an empty account or one the caller did not
\* observe, otherwise the runtime account is cleared and kept for a restore.
LogoutPassive(th) ==
    LET p == ProcOf[th] m == mem[p] f == flow[th]
    IN  /\ f.pc = "ltx" /\ ~f.req
        /\ \/ mem' = mem /\ Go(th, [f EXCEPT !.pc = "seal", !.how = "none"])
           \/ /\ m.token # None
              /\ mem' = [mem EXCEPT ![p] = Transition(@, None)]
              /\ Go(th, [f EXCEPT !.pc = "seal", !.how = "retained", !.tok = m.token,
                                  !.exp = Account(None, m.hub, m.epoch + 1, FALSE)])
        /\ Stay /\ UNCHANGED <<files, lock, claims, faults, crashes, Hub>>

\* logout_transaction of a request: the revocation is staged, the login removed, the account cleared.
LogoutRequested(th) ==
    LET p == ProcOf[th] m == mem[p] f == flow[th]
        staged == IF m.token = None THEN {Outcome(files, "confirmed", 0)}
                                    ELSE EnqueuePending(files, m.token)
    IN  /\ f.pc \in {"ltx", "ltx2"} /\ f.req /\ LockFree
        /\ \E o \in staged :
              IF o.res = "confirmed"
              THEN \E c \in Clear(o.s) :
                      /\ Use(Outcome(c.s, c.res, o.cost + c.cost))
                      /\ mem' = [mem EXCEPT ![p] = Transition(@, None)]
                      /\ Go(th, [f EXCEPT !.pc = "seal", !.how = "cleared", !.tok = m.token,
                                          !.rev = m.token, !.ok = c.res = "confirmed"])
              ELSE /\ Use(o) /\ UNCHANGED mem
                   /\ Go(th, [f EXCEPT !.pc = "seal", !.how = "unstaged", !.tok = m.token,
                                       !.rev = m.token, !.exp = [m EXCEPT !.trans = FALSE]])
        /\ Stay /\ UNCHANGED <<lock, claims, crashes, Hub>>

\* seal_finalization, and what is left to do: a loss that turned out to be requested runs its
\* transaction again when it had found nothing.
Seal(th) ==
    LET p == ProcOf[th] req == lo[p] = "requested" \/ flow[th].req
        f == [flow[th] EXCEPT !.req = req]
    IN  /\ flow[th].pc = "seal"
        /\ LET sealed == [lo EXCEPT ![p] = "committed"]
           IN  CASE f.how = "none" /\ req /\ ~flow[th].req ->
                      lo' = sealed /\ Go(th, [f EXCEPT !.pc = "ltx2"]) /\ UNCHANGED rot
                 [] f.how = "none" /\ ~req -> End(th)
                 [] f.how = "cleared" /\ ~f.ok -> End(th)
                 [] f.how = "cleared" /\ f.ok -> lo' = sealed /\ UNCHANGED rot
                      /\ Go(th, [f EXCEPT !.pc = IF f.tok = None THEN "retry" ELSE "unlogin",
                                          !.how = "pending"])
                 [] f.how = "retained" -> lo' = sealed /\ UNCHANGED rot
                      /\ Go(th, [f EXCEPT !.pc = IF req THEN "rstage" ELSE "rclear",
                                          !.rev = f.tok])
                 [] f.how = "unstaged" -> lo' = sealed /\ UNCHANGED rot
                      /\ Go(th, [f EXCEPT !.pc = "udirect"])
    /\ UNCHANGED <<files, lock, mem, claims, faults, crashes, Hub>>

\* finish_retained of a passive loss.
RetainedClear(th) ==
    /\ flow[th].pc = "rclear" /\ LockFree
    /\ \E o \in ClearMatching(files, flow[th].tok) :
          Use(o) /\ IF o.res = "error" THEN At(th, "restore") /\ Stay ELSE End(th)
    /\ UNCHANGED <<lock, mem, claims, crashes, Hub>>

\* finish_retained of an upgraded one: stage, or a direct intent.
RetainedStage(th) ==
    /\ flow[th].pc = "rstage" /\ LockFree
    /\ \E o \in EnqueuePending(files, flow[th].tok) :
          /\ Use(o)
          /\ Go(th, IF o.res = "confirmed"
                    THEN [flow[th] EXCEPT !.pc = "unlogin", !.how = "pending"]
                    ELSE [flow[th] EXCEPT !.pc = "rdirect"])
    /\ Stay /\ UNCHANGED <<lock, mem, claims, crashes, Hub>>

RetainedDirect(th) ==
    /\ flow[th].pc = "rdirect" /\ LockFree
    /\ \E o \in PrepareDirect(files, flow[th].tok) :
          /\ Use(o)
          /\ CASE o.res = "confirmed" ->
                    Go(th, [flow[th] EXCEPT !.pc = "delete", !.how = "direct"]) /\ Stay
               [] o.res = "unconfirmed" -> End(th)
               [] OTHER -> At(th, "restore") /\ Stay
    /\ UNCHANGED <<lock, mem, claims, crashes, Hub>>

\* restore_transaction: MUTATION_RESTORE_FAILURE.
Restore(th) ==
    LET p == ProcOf[th] f == flow[th]
    IN  /\ f.pc = "restore"
        /\ mem' = IF Matches(f.exp, mem[p]) THEN [mem EXCEPT ![p] = Transition(@, f.tok)] ELSE mem
        /\ End(th)
        /\ UNCHANGED <<files, lock, claims, faults, crashes, Hub>>

\* finish_unstaged of a request: the account stays until its intent is settled.
UnstagedDirect(th) ==
    /\ flow[th].pc = "udirect" /\ LockFree
    /\ \E o \in PrepareDirect(files, flow[th].tok) :
          /\ Use(o)
          /\ CASE o.res = "confirmed" ->
                    Go(th, [flow[th] EXCEPT !.pc = "delete", !.how = "unstaged"]) /\ Stay
               [] o.res = "unconfirmed" ->
                    Go(th, [flow[th] EXCEPT !.pc = "uclear", !.ok = FALSE]) /\ Stay
               [] OTHER -> End(th)
    /\ UNCHANGED <<lock, mem, claims, crashes, Hub>>

\* clear_current
UnstagedClear(th) ==
    LET p == ProcOf[th] f == flow[th]
    IN  /\ f.pc = "uclear"
        /\ mem' = IF Matches(f.exp, mem[p]) THEN [mem EXCEPT ![p] = Transition(@, None)] ELSE mem
        /\ IF f.ok THEN Go(th, [f EXCEPT !.pc = "record", !.how = "direct"]) /\ Stay ELSE End(th)
        /\ UNCHANGED <<files, lock, claims, faults, crashes, Hub>>

-------------------------------------------------------------------------------
(* The surroundings.                                                        *)

\* The transition callback was drained (AccountCallbacks).
FinishTransition(p) ==
    /\ mem[p].trans
    /\ mem' = [mem EXCEPT ![p].trans = FALSE]
    /\ UNCHANGED <<files, lock, lo, rot, flow, claims, faults, crashes, Hub>>

\* The hub ends a no-auth session by itself.
HubExpires(t) ==
    /\ t \in live \cap NoAuthTokens /\ "refresh" \in Ops
    /\ live' = live \ {t}
    /\ UNCHANGED <<files, lock, mem, lo, rot, flow, claims, faults, crashes, issued, revoked,
                   installed, adrift>>

Fresh(P) ==
    /\ mem' = [p \in Procs |-> IF p \in P THEN Account(None, mem[p].hub, 0, FALSE) ELSE mem[p]]
    /\ lo' = [p \in Procs |-> IF p \in P THEN "idle" ELSE lo[p]]
    /\ rot' = [p \in Procs |-> IF p \in P THEN [key |-> NoKey, flying |-> FALSE] ELSE rot[p]]
    /\ flow' = [th \in Threads |-> IF ProcOf[th] \in P THEN Idle ELSE flow[th]]
    /\ lock' = IF lock # None /\ ProcOf[lock] \in P THEN None ELSE lock
    /\ crashes < MaxCrashes /\ crashes' = crashes + 1
    /\ UNCHANGED <<claims, faults, Hub>>

\* A Studio process dies: the kernel releases its lock and keeps every published change.
Crash(p) == Fresh({p}) /\ UNCHANGED files

\* The machine dies: an unsynced change is there or not.
PowerLoss == Fresh(Procs) /\ \E d \in CrashImages(files) : files' = Synced(d)

Step(th) ==
    \/ Retry(th) \/ Unlogin(th) \/ ConfirmIntent(th) \/ Delete(th) \/ Record(th)
    \/ ClearCompletedLogin(th) \/ Dequeue(th) \/ RemoveDirect(th) \/ Dedupe(th) \/ Orphan(th)
    \/ LoginFence(th) \/ BootRecheck(th) \/ RefreshCheck(th) \/ Rotate(th) \/ Issue(th)
    \/ CommitApplied(th) \/ CommitRefused(th) \/ StageCandidate(th)
    \/ LoadFile(th) \/ ClearTenantless(th) \/ LoadApply(th)
    \/ LogoutPassive(th) \/ LogoutRequested(th) \/ Seal(th) \/ RetainedClear(th)
    \/ RetainedStage(th) \/ RetainedDirect(th) \/ Restore(th) \/ UnstagedDirect(th)
    \/ UnstagedClear(th)

Begin(th) ==
    \/ LoginCapture(th) \/ BootCapture(th) \/ RefreshCapture(th) \/ ChangeUser(th)
    \/ LoadCapture(th) \/ \E h \in Hubs : HubChange(th, h)
    \/ \E req \in BOOLEAN : LogoutBegin(th, req)

Next ==
    \/ \E th \in Threads : Begin(th) \/ Step(th)
    \/ \E p \in Procs : Upgrade(p) \/ FinishTransition(p) \/ Crash(p)
    \/ \E t \in Tokens : HubExpires(t)
    \/ PowerLoss

Spec == Init /\ [][Next]_vars

-------------------------------------------------------------------------------
(* Properties.                                                              *)

\* A token that a DELETE of the plugin has ended is never restored from the files: not by any
\* process, and not after a power loss that keeps or drops every unsynced change (Load, Store).
\* The one exception is a candidate whose store was visible but unconfirmed and for which neither
\* intent could be written: its DELETE is best-effort and leaves no tombstone.
RevokedNeverLoads ==
    \A t \in revoked \ adrift, d \in CrashImages(files) : Load(d) # t

\* A requested logout that reported success ended the session at the hub.
LogoutHonest == \A c \in claims : c[2] \notin live

\* ... and the process that asked for it no longer holds the session.
LogoutSticks == \A c \in claims : mem[c[1]].token # c[2]

\* As long as no process dies, a session the plugin was given and did not install is being
\* committed, is queued for revocation, or is over (stage_candidate, revoke_ticket_candidate) -
\* unless the plugin could not read the answer that carried it, or failed to write both intents and
\* sent a best-effort DELETE (revoke_orphan).
CandidateAccounted ==
    crashes = 0 =>
        \A t \in live \ (installed \cup adrift) :
            \/ \E th \in Threads : flow[th].tok = t
            \/ t \in ToSet(files.disk.pending) \/ files.disk.direct = t

\* A confirmed intent to revoke leaves the files only when the hub has ended the session.
IntentKeptStep ==
    \A t \in live : DurableIntent(t) => DurableIntent(t)' \/ t \notin live'
IntentKept == [][IntentKeptStep]_vars

\* Two recoveries of one expired no-auth credential never both ask the hub for a new session
\* (begin_no_auth_rotation admits one flight per credential).
RotateOnce ==
    \A x, y \in Threads :
        x # y /\ flow[x].op = "refresh" /\ flow[y].op = "refresh" /\ ProcOf[x] = ProcOf[y]
        /\ {flow[x].pc, flow[y].pc} \subseteq {"issue", "commit"} => flow[x].exp # flow[y].exp

\* A DELETE is on its way only under an intent that a power loss cannot take away, or for a session
\* that is over; the best-effort DELETE of an orphan is the one that is not.
DeleteAuthorised ==
    \A th \in Threads : flow[th].pc = "delete" /\ flow[th].how # "orphan" =>
        DurableIntent(flow[th].rev) \/ flow[th].rev \notin live

===============================================================================
