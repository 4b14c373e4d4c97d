--------------------------- MODULE ArtifactStore ---------------------------
(***************************************************************************)
(* Uploaded print artifacts: the staged upload, the quota reservation that  *)
(* pays for it, the stored object, the artifact row and the jobs that refer  *)
(* to it, and the durable queue of object deletions.  An upload reserves,   *)
(* stores and completes in separate transactions and can be dropped between *)
(* any two of them (routes/jobs/multipart, repositories/jobs/quota.rs,      *)
(* artifacts/lifecycle.rs).  Clearing and the retention cleanup remove rows *)
(* while reprints add references (repositories/jobs/clear.rs, cleanup/).    *)
(* An artifact id is fresh for every upload, so it also names the object.   *)
(***************************************************************************)
EXTENDS Naturals, FiniteSets

CONSTANTS
    Artifacts,     \* one per upload request
    Owners,        \* tenants
    OwnerOf,       \* tenant of an upload
    SizeOf,        \* bytes of an upload
    Jobs,          \* job rows
    Drainers,      \* runs of drain_deletions, each with its lease owner id
    NoDrainer,
    MaxStaged,     \* MAX_CONCURRENT_STAGED_UPLOADS
    MaxTenantStaged,
    CountLimit,    \* quota.tenant_count
    ByteLimit,     \* quota.tenant_bytes
    GlobalCount,   \* quota.global_count
    GlobalBytes,   \* quota.global_bytes
    Retention,     \* cleanup --execute runs, on PostgreSQL
    MaxFailures    \* bound: failed object deletions, slow and lost drainers

StoreAssumption ==
    /\ IsFiniteSet(Artifacts) /\ IsFiniteSet(Jobs)
    /\ OwnerOf \in [Artifacts -> Owners]
    /\ SizeOf \in [Artifacts -> Nat]
    /\ NoDrainer \notin Drainers
    /\ Retention \in BOOLEAN
    /\ Artifacts # {} /\ MaxFailures \in Nat
    /\ {MaxStaged, MaxTenantStaged, CountLimit, ByteLimit, GlobalCount, GlobalBytes} \subseteq Nat

VARIABLES
    upload,    \* where the upload request is
    staged,    \* the global staging permits taken, and those of each tenant
    resv,      \* artifact_quota_reservations
    quotaLock, \* uploads between their quota check and their commit
    object,    \* the object is in the storage
    rows,      \* job_artifacts
    job,       \* jobs: state and artifact
    sweep,     \* the transaction of a clear or of the cleanup
    del,       \* artifact_deletions: queued, lease owner, lease lapsed
    drain,     \* what a drainer has claimed and not yet handled
    failures

storeVars == <<upload, staged, resv, quotaLock, object, rows, job, sweep, del, drain, failures>>

NoSweep == [at |-> "none", jobs |-> {}, locked |-> {}, orphans |-> {}]
NotQueued == [queued |-> FALSE, owner |-> NoDrainer, lapsed |-> FALSE]

\* Every variable has its type.
StoreTypeOK ==
    /\ upload \in [Artifacts -> {"none", "parsing", "staged", "checked", "putting", "stored",
                                 "undo", "ended"}]
    /\ staged \in [global : Nat, tenant : [Owners -> Nat]]
    /\ resv \in [Artifacts -> {"none", "live", "expired"}]
    /\ quotaLock \in SUBSET Artifacts
    /\ object \in SUBSET Artifacts
    /\ rows \in SUBSET Artifacts
    /\ job \in [Jobs -> [state : {"none", "open", "live", "finished"}, artifact : Artifacts]]
    /\ sweep \in [at : {"none", "lock", "read", "delete"}, jobs : SUBSET Jobs,
                  locked : SUBSET Artifacts, orphans : SUBSET Artifacts]
    /\ del \in [Artifacts -> [queued : BOOLEAN, owner : Drainers \cup {NoDrainer},
                              lapsed : BOOLEAN]]
    /\ drain \in [Drainers -> [claimed : SUBSET Artifacts, removed : SUBSET Artifacts]]
    /\ failures \in 0..MaxFailures

StoreInit ==
    /\ upload = [a \in Artifacts |-> "none"]
    /\ staged = [global |-> 0, tenant |-> [t \in Owners |-> 0]]
    /\ resv = [a \in Artifacts |-> "none"]
    /\ quotaLock = {}
    /\ object = {}
    /\ rows = {}
    /\ job = [j \in Jobs |-> [state |-> "none", artifact |-> CHOOSE a \in Artifacts : TRUE]]
    /\ sweep = NoSweep
    /\ del = [a \in Artifacts |-> NotQueued]
    /\ drain = [d \in Drainers |-> [claimed |-> {}, removed |-> {}]]
    /\ failures = 0

-----------------------------------------------------------------------------
(* Staging *)

\* A permit of the process and one of the tenant; the refused request gives
\* both back.
AcquireStagingPermit(t) ==
    IF staged.tenant[t] < MaxTenantStaged
    THEN [staged EXCEPT !.global = @ + 1, !.tenant[t] = @ + 1] ELSE staged

DropStagingPermit(a) ==
    [staged EXCEPT !.global = @ - 1, !.tenant[OwnerOf[a]] = @ - 1]

\* parse_multipart_print_fields: without a permit of the process the client
\* is sent away and may come again.
ParseMultipart(a) ==
    /\ upload[a] = "none"
    /\ staged.global < MaxStaged
    /\ staged' = AcquireStagingPermit(OwnerOf[a])
    /\ upload' = [upload EXCEPT ![a] = IF staged.tenant[OwnerOf[a]] < MaxTenantStaged
                                       THEN "parsing" ELSE "ended"]
    /\ UNCHANGED <<resv, quotaLock, object, rows, job, sweep, del, drain, failures>>

\* The fields are read, the file is staged and the request is validated; a
\* request that is refused here, or times out, is done with its permit.
StageFileField(a) ==
    /\ upload[a] = "parsing"
    /\ upload' = [upload EXCEPT ![a] = "staged"]
    /\ UNCHANGED <<staged, resv, quotaLock, object, rows, job, sweep, del, drain, failures>>

RefuseUpload(a) ==
    /\ upload[a] \in {"parsing", "staged"}
    /\ upload' = [upload EXCEPT ![a] = "ended"]
    /\ staged' = DropStagingPermit(a)
    /\ UNCHANGED <<resv, quotaLock, object, rows, job, sweep, del, drain, failures>>

-----------------------------------------------------------------------------
(* Reservation *)

EnqueueDeletion(set) ==
    [a \in Artifacts |-> IF a \in set /\ ~del[a].queued
                         THEN [queued |-> TRUE, owner |-> NoDrainer, lapsed |-> FALSE]
                         ELSE del[a]]

Expired == {a \in Artifacts : resv[a] = "expired"}

Reap ==
    /\ resv' = [a \in Artifacts |-> IF a \in Expired THEN "none" ELSE resv[a]]
    /\ del' = EnqueueDeletion(Expired)

ReapExpiredReservations ==
    /\ Expired # {} /\ quotaLock = {}
    /\ Reap
    /\ UNCHANGED <<upload, staged, quotaLock, object, rows, job, sweep, drain, failures>>

Charged(t) == {a \in Artifacts : OwnerOf[a] = t /\ (a \in rows \/ resv[a] = "live")}
ChargedToAll == UNION {Charged(t) : t \in Owners}

\* The bytes of a set of uploads, one by one, and how many there are.
BytesOf(set) == UNION {{a} \X (1..SizeOf[a]) : a \in set}
Bytes(set) == Cardinality(BytesOf(set))

EnforceArtifactQuota(a) ==
    /\ Cardinality(Charged(OwnerOf[a])) < CountLimit
    /\ Bytes(Charged(OwnerOf[a])) + SizeOf[a] <= ByteLimit
    /\ Cardinality(ChargedToAll) < GlobalCount
    /\ Bytes(ChargedToAll) + SizeOf[a] <= GlobalBytes

\* Mutant: no advisory lock is taken.
QuotaNeverLocked == TRUE

\* pg_advisory_xact_lock, or SQLite's one writer.
QuotaLockFree == quotaLock = {}

\* The reservation transaction takes the lock, reaps, and checks the quota.
ReserveCheck(a) ==
    /\ upload[a] = "staged" /\ QuotaLockFree
    /\ Reap
    /\ \/ /\ EnforceArtifactQuota(a)
          /\ upload' = [upload EXCEPT ![a] = "checked"]
          /\ quotaLock' = quotaLock \cup {a}
          /\ UNCHANGED staged
       \/ /\ ~EnforceArtifactQuota(a)
          /\ upload' = [upload EXCEPT ![a] = "ended"]
          /\ staged' = DropStagingPermit(a)
          /\ UNCHANGED quotaLock
    /\ UNCHANGED <<object, rows, job, sweep, drain, failures>>

ReserveArtifactQuota(a) ==
    /\ upload[a] = "checked"
    /\ upload' = [upload EXCEPT ![a] = "putting"]
    /\ resv' = [resv EXCEPT ![a] = "live"]
    /\ quotaLock' = quotaLock \ {a}
    /\ UNCHANGED <<staged, object, rows, job, sweep, del, drain, failures>>

\* RESERVATION_TTL is 5 minutes and put_artifact gives up after 120 seconds:
\* a reservation does not run out while its object is being written.
MayExpire(a) == resv[a] = "live" /\ upload[a] # "putting"

ReservationExpires(a) ==
    /\ MayExpire(a)
    /\ resv' = [resv EXCEPT ![a] = "expired"]
    /\ UNCHANGED <<upload, staged, quotaLock, object, rows, job, sweep, del, drain, failures>>

-----------------------------------------------------------------------------
(* Storing and completing *)

PutArtifact(a) ==
    /\ upload[a] = "putting"
    /\ upload' = [upload EXCEPT ![a] = "stored"]
    /\ object' = object \cup {a}
    /\ UNCHANGED <<staged, resv, quotaLock, rows, job, sweep, del, drain, failures>>

\* An error or the timeout: the object may or may not be there.
PutFails(a) ==
    /\ upload[a] = "putting"
    /\ upload' = [upload EXCEPT ![a] = "undo"]
    /\ \E there \in {{}, {a}} : object' = object \cup there
    /\ UNCHANGED <<staged, resv, quotaLock, rows, job, sweep, del, drain, failures>>

ReservationActive(a) == resv[a] = "live"

\* complete(): the artifact row and its job replace the reservation, or the
\* request goes on to release it.
CompleteUpload(a) ==
    /\ upload[a] = "stored"
    /\ \/ \E j \in Jobs :
          /\ ReservationActive(a) /\ job[j].state = "none"
          /\ rows' = rows \cup {a}
          /\ resv' = [resv EXCEPT ![a] = "none"]
          /\ job' = [job EXCEPT ![j] = [state |-> "live", artifact |-> a]]
          /\ upload' = [upload EXCEPT ![a] = "ended"]
          /\ staged' = DropStagingPermit(a)
       \/ /\ upload' = [upload EXCEPT ![a] = "undo"]
          /\ UNCHANGED <<rows, resv, job, staged>>
    /\ UNCHANGED <<quotaLock, object, sweep, del, drain, failures>>

\* release(): without a reservation left there is nothing to do.
ReleaseReservation(a) ==
    /\ upload[a] = "undo"
    /\ IF resv[a] = "none" THEN UNCHANGED <<resv, del>>
       ELSE /\ resv' = [resv EXCEPT ![a] = "none"]
            /\ del' = EnqueueDeletion({a})
    /\ upload' = [upload EXCEPT ![a] = "ended"]
    /\ staged' = DropStagingPermit(a)
    /\ UNCHANGED <<quotaLock, object, rows, job, sweep, drain, failures>>

\* The client goes away or the replica stops: the request future is dropped
\* where it is, with the permit; a write that was under way may still land.
UploadDropped(a) ==
    /\ upload[a] \in {"checked", "putting", "stored", "undo"}
    /\ upload' = [upload EXCEPT ![a] = "ended"]
    /\ staged' = DropStagingPermit(a)
    /\ quotaLock' = quotaLock \ {a}
    /\ \E there \in {{}, {a}} :
          object' = IF upload[a] = "putting" THEN object \cup there ELSE object
    /\ UNCHANGED <<resv, rows, job, sweep, del, drain, failures>>

-----------------------------------------------------------------------------
(* References *)

Open(a) == {j \in Jobs : job[j].state = "open" /\ job[j].artifact = a}
Committed(a) == {j \in Jobs : job[j].state \in {"live", "finished"} /\ job[j].artifact = a}

\* A reprint inserts its job: the foreign key locks the artifact row against
\* deletion until the transaction ends, and waits for who holds it.
CopyInsert(j, a) ==
    /\ job[j].state = "none"
    /\ a \in rows \ sweep.locked
    /\ job' = [job EXCEPT ![j] = [state |-> "open", artifact |-> a]]
    /\ UNCHANGED <<upload, staged, resv, quotaLock, object, rows, sweep, del, drain, failures>>

\* The transaction commits or is rolled back.
CopyCommit(j) ==
    /\ job[j].state = "open"
    /\ \E end \in {"live", "none"} : job' = [job EXCEPT ![j].state = end]
    /\ UNCHANGED <<upload, staged, resv, quotaLock, object, rows, sweep, del, drain, failures>>

JobFinishes(j) ==
    /\ job[j].state = "live"
    /\ job' = [job EXCEPT ![j].state = "finished"]
    /\ UNCHANGED <<upload, staged, resv, quotaLock, object, rows, sweep, del, drain, failures>>

ArtifactsOf(set) == {job[j].artifact : j \in set}

\* clear: the clearable jobs are locked,
ClearJobs ==
    /\ sweep.at = "none"
    /\ \E set \in SUBSET {j \in Jobs : job[j].state = "finished"} \ {{}} :
          sweep' = [at |-> "lock", jobs |-> set, locked |-> {}, orphans |-> {}]
    /\ UNCHANGED <<upload, staged, resv, quotaLock, object, rows, job, del, drain, failures>>

\* then their artifact rows, which waits for inserts that refer to them,
LockedArtifacts ==
    /\ sweep.at = "lock"
    /\ \A a \in ArtifactsOf(sweep.jobs) : Open(a) = {}
    /\ sweep' = [sweep EXCEPT !.at = "read", !.locked = ArtifactsOf(sweep.jobs)]
    /\ UNCHANGED <<upload, staged, resv, quotaLock, object, rows, job, del, drain, failures>>

\* and then the references are read: what others refer to is kept.
ArtifactReferences ==
    /\ sweep.at = "read"
    /\ sweep' = [sweep EXCEPT !.at = "delete",
                    !.orphans = {a \in ArtifactsOf(sweep.jobs) \cap rows :
                                    Committed(a) \subseteq sweep.jobs}]
    /\ UNCHANGED <<upload, staged, resv, quotaLock, object, rows, job, del, drain, failures>>

\* cleanup --execute: one DELETE ... WHERE NOT EXISTS (SELECT ... FROM jobs)
\* evaluates its condition on the snapshot of the statement, with no lock.
CleanupSnapshot ==
    /\ Retention
    /\ sweep.at = "none"
    /\ LET old == {j \in Jobs : job[j].state = "finished"} IN
       /\ old # {}
       /\ sweep' = [at |-> "delete", jobs |-> old, locked |-> {},
                    orphans |-> {a \in ArtifactsOf(old) \cap rows : Committed(a) \subseteq old}]
    /\ UNCHANGED <<upload, staged, resv, quotaLock, object, rows, job, del, drain, failures>>

\* The DELETE waits for the row locks of uncommitted inserts and then goes
\* on; jobs.artifact_id is ON DELETE CASCADE.
DeleteRows ==
    /\ sweep.at = "delete"
    /\ \A a \in sweep.orphans : Open(a) = {}
    /\ job' = [j \in Jobs |->
                  IF \/ j \in sweep.jobs
                     \/ job[j].state # "none" /\ job[j].artifact \in sweep.orphans
                  THEN [job[j] EXCEPT !.state = "none"] ELSE job[j]]
    /\ rows' = rows \ sweep.orphans
    /\ del' = EnqueueDeletion(sweep.orphans)
    /\ sweep' = NoSweep
    /\ UNCHANGED <<upload, staged, resv, quotaLock, object, drain, failures>>

-----------------------------------------------------------------------------
(* The deletion queue *)

\* Mutant: a lease is for ever.
ClaimableUnleased == {a \in Artifacts : del[a].queued /\ del[a].owner = NoDrainer}

Claimable == {a \in Artifacts : del[a].queued /\ (del[a].owner = NoDrainer \/ del[a].lapsed)}

ClaimDeletions(d) ==
    /\ drain[d].claimed = {} /\ Claimable # {}
    /\ drain' = [drain EXCEPT ![d] = [claimed |-> Claimable, removed |-> {}]]
    /\ del' = [a \in Artifacts |-> IF a \in Claimable
                  THEN [queued |-> TRUE, owner |-> d, lapsed |-> FALSE] ELSE del[a]]
    /\ UNCHANGED <<upload, staged, resv, quotaLock, object, rows, job, sweep, failures>>

Leased(a) == del[a].queued /\ del[a].owner # NoDrainer /\ ~del[a].lapsed

\* DELETION_LEASE_SECONDS pass after the owner of the lease is gone,
LeaseLapses(a) ==
    /\ Leased(a) /\ a \notin drain[del[a].owner].claimed
    /\ del' = [del EXCEPT ![a].lapsed = TRUE]
    /\ UNCHANGED <<upload, staged, resv, quotaLock, object, rows, job, sweep, drain, failures>>

\* or while a slow owner is still working.
LeaseOutlived(a) ==
    /\ Leased(a) /\ a \in drain[del[a].owner].claimed
    /\ failures < MaxFailures
    /\ failures' = failures + 1
    /\ del' = [del EXCEPT ![a].lapsed = TRUE]
    /\ UNCHANGED <<upload, staged, resv, quotaLock, object, rows, job, sweep, drain>>

DeleteArtifact(d, a) ==
    /\ a \in drain[d].claimed \ drain[d].removed
    /\ object' = object \ {a}
    /\ drain' = [drain EXCEPT ![d].removed = @ \cup {a}]
    /\ UNCHANGED <<upload, staged, resv, quotaLock, rows, job, sweep, del, failures>>

\* The storage refuses: the row stays queued and gives up its lease.
UpdateDeletionFailure(d, a) ==
    /\ a \in drain[d].claimed \ drain[d].removed
    /\ failures < MaxFailures
    /\ failures' = failures + 1
    /\ del' = IF del[a].owner = d THEN [del EXCEPT ![a].owner = NoDrainer, ![a].lapsed = FALSE]
              ELSE del
    /\ drain' = [drain EXCEPT ![d].claimed = @ \ {a}]
    /\ UNCHANGED <<upload, staged, resv, quotaLock, object, rows, job, sweep>>

\* The row goes if this drainer still owns it.
FinalizeDeletion(d, a) ==
    /\ a \in drain[d].removed
    /\ del' = IF del[a].owner = d THEN [del EXCEPT ![a] = NotQueued] ELSE del
    /\ drain' = [drain EXCEPT ![d].claimed = @ \ {a}, ![d].removed = @ \ {a}]
    /\ UNCHANGED <<upload, staged, resv, quotaLock, object, rows, job, sweep, failures>>

DrainerDies(d) ==
    /\ drain[d].claimed # {}
    /\ failures < MaxFailures
    /\ failures' = failures + 1
    /\ drain' = [drain EXCEPT ![d] = [claimed |-> {}, removed |-> {}]]
    /\ UNCHANGED <<upload, staged, resv, quotaLock, object, rows, job, sweep, del>>

-----------------------------------------------------------------------------
DrainStep(d) == ClaimDeletions(d) \/ (\E a \in Artifacts : DeleteArtifact(d, a) \/ FinalizeDeletion(d, a))

StoreNext ==
    \/ \E a \in Artifacts :
          \/ ParseMultipart(a) \/ StageFileField(a) \/ RefuseUpload(a) \/ ReserveCheck(a) \/ ReserveArtifactQuota(a)
          \/ ReservationExpires(a) \/ PutArtifact(a) \/ PutFails(a)
          \/ CompleteUpload(a) \/ ReleaseReservation(a) \/ UploadDropped(a)
          \/ LeaseLapses(a) \/ LeaseOutlived(a)
    \/ ReapExpiredReservations
    \/ \E j \in Jobs : (\E a \in Artifacts : CopyInsert(j, a))
                       \/ CopyCommit(j) \/ JobFinishes(j)
    \/ ClearJobs \/ LockedArtifacts \/ ArtifactReferences \/ CleanupSnapshot \/ DeleteRows
    \/ \E d \in Drainers : DrainStep(d) \/ DrainerDies(d)
                           \/ \E a \in Artifacts : UpdateDeletionFailure(d, a)

StoreSpec == StoreInit /\ [][StoreNext]_storeVars

\* The runtime task reaps and drains for ever, leases run out, and a request
\* ends or is dropped.
StoreFairSpec ==
    /\ StoreSpec
    /\ WF_storeVars(ReapExpiredReservations)
    /\ \A d \in Drainers : WF_storeVars(DrainStep(d))
    /\ \A a \in Artifacts :
          /\ WF_storeVars(LeaseLapses(a)) /\ WF_storeVars(ReservationExpires(a))
          /\ WF_storeVars(ReserveArtifactQuota(a) \/ PutArtifact(a) \/ PutFails(a)
                     \/ CompleteUpload(a) \/ ReleaseReservation(a) \/ UploadDropped(a))

-----------------------------------------------------------------------------
(* Properties *)

\* The permits taken are those of the requests that hold one: a refused or a
\* dropped upload leaves none behind (staging.rs).
PermitsAccounted ==
    LET holding == {a \in Artifacts : upload[a] \notin {"none", "ended"}} IN
    /\ staged.global = Cardinality(holding)
    /\ \A t \in Owners :
          staged.tenant[t] = Cardinality({a \in holding : OwnerOf[a] = t})

\* What a tenant and what all tenants have stored or reserved stays within
\* the quota, however uploads overlap (enforce_artifact_quota is a check
\* whose effect is inserted in a later statement).
QuotaRespected ==
    /\ \A t \in Owners : /\ Cardinality(Charged(t)) <= CountLimit
                          /\ Bytes(Charged(t)) <= ByteLimit
    /\ Cardinality(ChargedToAll) <= GlobalCount
    /\ Bytes(ChargedToAll) <= GlobalBytes

\* An artifact row has its object, and no drainer is about to delete it: a
\* reservation that ran out cannot be completed after it was reaped.
RowHasObject ==
    \A a \in rows : a \in object /\ ~del[a].queued
                   /\ \A d \in Drainers : a \notin drain[d].claimed \ drain[d].removed

\* No stored object is forgotten: once its request is over it has a row, a
\* reservation that will be reaped, or a queued deletion.
NoOrphanObject ==
    \A a \in object : \/ upload[a] \in {"putting", "stored", "undo"}
                      \/ a \in rows \/ resv[a] # "none" \/ del[a].queued

\* Overlapping uploads stay within the quotas and account for their staging permits; an artifact
\* row has its object, which nobody is about to delete, and no stored object is forgotten
\* (jobs/quota.rs, artifacts/lifecycle.rs).
ArtifactsKept == StoreTypeOK /\ QuotaRespected /\ PermitsAccounted /\ RowHasObject /\ NoOrphanObject

\* Removing artifact rows does not take a job along that is not finished:
\* the cascade of a deleted artifact reaches no new reprint.
UnfinishedJobKept ==
    [][\A j \in Jobs : job[j].state = "live" => job'[j].state # "none"]_storeVars

\* Every queued deletion is carried out, over failing storage and drainers
\* that die with their lease.
DeletionsDrain ==
    \A a \in Artifacts : del[a].queued ~> ~del[a].queued

\* A reservation does not outlive its upload for ever.
ReservationsEnd ==
    \A a \in Artifacts : (resv[a] # "none") ~> (resv[a] = "none")
=============================================================================
