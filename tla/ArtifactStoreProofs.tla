------------------------- MODULE ArtifactStoreProofs -------------------------
(***************************************************************************)
(* Proofs about uploaded artifacts, for any number of uploads, tenants,     *)
(* jobs, drainers and failures and for any quota.                           *)
(*                                                                         *)
(* An artifact lives once: it is paid for, stored, gets a row or loses its   *)
(* reservation, and what was queued for deletion never comes back.  A clear  *)
(* that has locked its artifact rows finds no reprint of them open, so what  *)
(* it read of their references is still true when it deletes.  The quota     *)
(* lock makes the check and the insert of a reservation one step.           *)
(***************************************************************************)
EXTENDS ArtifactStore, FiniteSetTheorems, TLAPS

Early == {"none", "parsing", "staged", "checked"}
Late == {"stored", "undo", "ended"}

\* An object that is, or was, to be deleted.
Doomed(a) == del[a].queued \/ \E d \in Drainers : a \in drain[d].claimed

\* The one life of an artifact.
LifeOf(a) ==
    /\ upload[a] \in Early => resv[a] = "none" /\ a \notin object
    /\ upload[a] = "putting" => resv[a] = "live"
    /\ upload[a] = "stored" /\ resv[a] # "none" => a \in object
    /\ a \in rows => upload[a] = "ended" /\ resv[a] = "none" /\ a \in object
    /\ Doomed(a) => upload[a] \in Late /\ resv[a] = "none" /\ a \notin rows
    /\ a \in object => a \in rows \/ resv[a] # "none" \/ del[a].queued
    /\ \A d \in Drainers : a \in drain[d].removed => a \in drain[d].claimed /\ a \notin object
Lives == \A a \in Artifacts : LifeOf(a)

\* What a clear or a cleanup holds: finished jobs, and rows that are still there.  A clear has
\* locked the rows before it reads who refers to them.
SweepHolds ==
    /\ \A j \in sweep.jobs : job[j].state = "finished"
    /\ sweep.orphans \subseteq rows
    /\ ~Retention /\ sweep.at \in {"read", "delete"} =>
          /\ \A j \in sweep.jobs : job[j].artifact \in sweep.locked
          /\ \A a \in sweep.locked : Open(a) = {}
    /\ ~Retention /\ sweep.at = "delete" =>
          /\ sweep.orphans \subseteq sweep.locked
          /\ \A a \in sweep.orphans : Committed(a) \subseteq sweep.jobs

\* The upload that holds the quota lock has room in both quotas.
Paying == {a \in Artifacts : a \in rows \/ resv[a] = "live"}
PayingOf(t) == {a \in Paying : OwnerOf[a] = t}
QuotaHolds ==
    /\ quotaLock = {a \in Artifacts : upload[a] = "checked"}
    /\ \A a, b \in quotaLock : a = b
    /\ Cardinality(Paying) <= GlobalCount /\ Bytes(Paying) <= GlobalBytes
    /\ \A t \in Owners : Cardinality(PayingOf(t)) <= CountLimit /\ Bytes(PayingOf(t)) <= ByteLimit
    /\ \A a \in quotaLock :
          /\ Cardinality(Paying) < GlobalCount /\ Cardinality(PayingOf(OwnerOf[a])) < CountLimit
          /\ Bytes(Paying) + SizeOf[a] <= GlobalBytes /\ Bytes(PayingOf(OwnerOf[a])) + SizeOf[a] <= ByteLimit

\* The permits taken are those of the uploads that are under way.
Holding == {a \in Artifacts : upload[a] \notin {"none", "ended"}}
HoldingOf(t) == {a \in Holding : OwnerOf[a] = t}
PermitsAre == staged = [global |-> Cardinality(Holding),
                        tenant |-> [t \in Owners |-> Cardinality(HoldingOf(t))]]

UploadStates == {"none", "parsing", "staged", "checked", "putting", "stored", "undo", "ended"}
JobType == [state : {"none", "open", "live", "finished"}, artifact : Artifacts]
SweepType == [at : {"none", "lock", "read", "delete"}, jobs : SUBSET Jobs,
              locked : SUBSET Artifacts, orphans : SUBSET Artifacts]
DeletionType == [queued : BOOLEAN, owner : Drainers \cup {NoDrainer}, lapsed : BOOLEAN]
DrainType == [claimed : SUBSET Artifacts, removed : SUBSET Artifacts]
StoreTypes ==
    /\ upload \in [Artifacts -> UploadStates]
    /\ resv \in [Artifacts -> {"none", "live", "expired"}]
    /\ quotaLock \in SUBSET Artifacts /\ object \in SUBSET Artifacts /\ rows \in SUBSET Artifacts
    /\ job \in [Jobs -> JobType] /\ sweep \in SweepType /\ del \in [Artifacts -> DeletionType]
    /\ drain \in [Drainers -> DrainType] /\ failures \in 0..MaxFailures

StoreInv == StoreTypes /\ Lives /\ SweepHolds /\ QuotaHolds /\ PermitsAre

-----------------------------------------------------------------------------
(* Types. *)

\* The queue after an EnqueueDeletion.
LEMMA Enqueues ==
    ASSUME StoreTypes, NEW S \in SUBSET Artifacts
    PROVE  /\ EnqueueDeletion(S) \in [Artifacts -> DeletionType]
           /\ \A a \in Artifacts : EnqueueDeletion(S)[a].queued <=> (del[a].queued \/ a \in S)
BY DEF StoreTypes, EnqueueDeletion, DeletionType

\* Uploads and their reservations.
LEMMA UploadTypes ==
    ASSUME StoreAssumption, StoreTypes, NEW a \in Artifacts,
           \/ ParseMultipart(a) \/ StageFileField(a) \/ RefuseUpload(a) \/ ReserveCheck(a)
           \/ ReserveArtifactQuota(a) \/ ReservationExpires(a) \/ PutArtifact(a) \/ PutFails(a)
           \/ CompleteUpload(a) \/ ReleaseReservation(a) \/ UploadDropped(a) \/ ReapExpiredReservations
    PROVE  StoreTypes'
<1> USE DEF StoreTypes, UploadStates
<1>1. CASE ParseMultipart(a)
  BY <1>1 DEF ParseMultipart
<1>2. CASE StageFileField(a)
  BY <1>2 DEF StageFileField
<1>3. CASE RefuseUpload(a)
  BY <1>3 DEF RefuseUpload
<1>4. Expired \in SUBSET Artifacts
  BY DEF Expired
<1>5. ASSUME Reap
      PROVE  resv' \in [Artifacts -> {"none", "live", "expired"}] /\ del' \in [Artifacts -> DeletionType]
  BY <1>4, <1>5, Enqueues DEF Reap
<1>6. CASE ReserveCheck(a)
  BY <1>5, <1>6 DEF ReserveCheck
<1>7. CASE ReserveArtifactQuota(a)
  BY <1>7 DEF ReserveArtifactQuota
<1>8. CASE ReservationExpires(a)
  BY <1>8 DEF ReservationExpires
<1>9. CASE PutArtifact(a)
  BY <1>9 DEF PutArtifact
<1>10. CASE PutFails(a)
  BY <1>10 DEF PutFails
<1>11. CASE CompleteUpload(a)
  <2>1. CASE \E j \in Jobs :
          /\ rows' = rows \cup {a} /\ resv' = [resv EXCEPT ![a] = "none"]
          /\ job' = [job EXCEPT ![j] = [state |-> "live", artifact |-> a]]
          /\ upload' = [upload EXCEPT ![a] = "ended"]
    BY <1>11, <2>1 DEF CompleteUpload, JobType
  <2>2. CASE upload' = [upload EXCEPT ![a] = "undo"] /\ UNCHANGED <<rows, resv, job, staged>>
    BY <1>11, <2>2 DEF CompleteUpload
  <2> QED
    BY <1>11, <2>1, <2>2 DEF CompleteUpload
<1>12. CASE ReleaseReservation(a)
  <2>1. EnqueueDeletion({a}) \in [Artifacts -> DeletionType]
    BY Enqueues
  <2> QED
    BY <1>12, <2>1 DEF ReleaseReservation
<1>13. CASE UploadDropped(a)
  BY <1>13 DEF UploadDropped
<1>14. CASE ReapExpiredReservations
  BY <1>5, <1>14 DEF ReapExpiredReservations
<1> QED
  BY <1>1, <1>2, <1>3, <1>6, <1>7, <1>8, <1>9, <1>10, <1>11, <1>12, <1>13, <1>14

\* Reprints, clears and the cleanup.
LEMMA ReferenceTypes ==
    ASSUME StoreAssumption, StoreTypes,
           \/ \E j \in Jobs : (\E a \in Artifacts : CopyInsert(j, a)) \/ CopyCommit(j) \/ JobFinishes(j)
           \/ ClearJobs \/ LockedArtifacts \/ ArtifactReferences \/ CleanupSnapshot \/ DeleteRows
    PROVE  StoreTypes'
<1> USE DEF StoreTypes
<1>1. ASSUME NEW j \in Jobs, NEW a \in Artifacts, CopyInsert(j, a) PROVE StoreTypes'
  BY <1>1 DEF CopyInsert, JobType
<1>2. ASSUME NEW j \in Jobs, CopyCommit(j) PROVE StoreTypes'
  BY <1>2 DEF CopyCommit, JobType
<1>3. ASSUME NEW j \in Jobs, JobFinishes(j) PROVE StoreTypes'
  BY <1>3 DEF JobFinishes, JobType
<1>4. \A S \in SUBSET Jobs : ArtifactsOf(S) \in SUBSET Artifacts
  BY DEF ArtifactsOf, JobType
<1>5. CASE ClearJobs
  <2>1. PICK set \in SUBSET {j \in Jobs : job[j].state = "finished"} \ {{}} :
           sweep' = [at |-> "lock", jobs |-> set, locked |-> {}, orphans |-> {}]
    BY <1>5 DEF ClearJobs
  <2>2. sweep' \in SweepType
    BY <2>1 DEF SweepType
  <2> QED
    BY <1>5, <2>2 DEF ClearJobs
<1>6. /\ sweep.jobs \in SUBSET Jobs
      /\ sweep = [at |-> sweep.at, jobs |-> sweep.jobs, locked |-> sweep.locked, orphans |-> sweep.orphans]
      /\ sweep.locked \in SUBSET Artifacts
  BY DEF SweepType
<1>7. CASE LockedArtifacts
  <2>1. sweep' = [at |-> "read", jobs |-> sweep.jobs, locked |-> ArtifactsOf(sweep.jobs),
                  orphans |-> sweep.orphans]
    BY <1>6, <1>7 DEF LockedArtifacts
  <2>2. sweep' \in SweepType
    BY <1>4, <1>6, <2>1 DEF SweepType
  <2> QED
    BY <1>7, <2>2 DEF LockedArtifacts
<1>8. CASE ArtifactReferences
  <2>1. sweep' = [at |-> "delete", jobs |-> sweep.jobs, locked |-> sweep.locked,
                  orphans |-> {a \in ArtifactsOf(sweep.jobs) \cap rows : Committed(a) \subseteq sweep.jobs}]
    BY <1>6, <1>8 DEF ArtifactReferences
  <2>2. sweep' \in SweepType
    BY <1>6, <2>1 DEF SweepType
  <2> QED
    BY <1>8, <2>2 DEF ArtifactReferences
<1>9. CASE CleanupSnapshot
  <2> DEFINE old == {j \in Jobs : job[j].state = "finished"}
  <2>1. sweep' = [at |-> "delete", jobs |-> old, locked |-> {},
                  orphans |-> {a \in ArtifactsOf(old) \cap rows : Committed(a) \subseteq old}]
    BY <1>9 DEF CleanupSnapshot
  <2>2. sweep' \in SweepType
    BY <2>1 DEF SweepType
  <2> QED
    BY <1>9, <2>2 DEF CleanupSnapshot
<1>10. CASE DeleteRows
  <2>1. EnqueueDeletion(sweep.orphans) \in [Artifacts -> DeletionType]
    BY Enqueues DEF SweepType
  <2>2. job' \in [Jobs -> JobType]
    <3>1. \A j \in Jobs : [job[j] EXCEPT !.state = "none"] \in JobType
      BY DEF JobType
    <3> QED
      BY <1>10, <3>1 DEF DeleteRows
  <2> QED
    BY <1>10, <2>1, <2>2 DEF DeleteRows, NoSweep, SweepType
<1> QED
  BY <1>1, <1>2, <1>3, <1>5, <1>7, <1>8, <1>9, <1>10

\* The deletion queue.
LEMMA DrainTypes ==
    ASSUME StoreAssumption, StoreTypes,
           \/ \E a \in Artifacts : LeaseLapses(a) \/ LeaseOutlived(a)
           \/ \E d \in Drainers : DrainStep(d) \/ DrainerDies(d)
                                  \/ \E a \in Artifacts : UpdateDeletionFailure(d, a)
    PROVE  StoreTypes'
<1> USE DEF StoreTypes
<1>1. ASSUME failures < MaxFailures PROVE failures + 1 \in 0..MaxFailures
  BY <1>1 DEF StoreAssumption
<1>2. ASSUME NEW a \in Artifacts, LeaseLapses(a) PROVE StoreTypes'
  BY <1>2 DEF LeaseLapses, DeletionType
<1>3. ASSUME NEW a \in Artifacts, LeaseOutlived(a) PROVE StoreTypes'
  BY <1>1, <1>3 DEF LeaseOutlived, DeletionType
<1>4. ASSUME NEW d \in Drainers, ClaimDeletions(d) PROVE StoreTypes'
  BY <1>4 DEF ClaimDeletions, DeletionType, DrainType, Claimable
<1>5. \A d \in Drainers : drain[d] = [claimed |-> drain[d].claimed, removed |-> drain[d].removed]
                          /\ drain[d].claimed \in SUBSET Artifacts /\ drain[d].removed \in SUBSET Artifacts
  BY DEF DrainType
<1>6. ASSUME NEW d \in Drainers, NEW a \in Artifacts, DeleteArtifact(d, a) PROVE StoreTypes'
  <2>1. drain' = [drain EXCEPT ![d] = [claimed |-> drain[d].claimed, removed |-> drain[d].removed \cup {a}]]
    <3>1. [drain[d] EXCEPT !.removed = drain[d].removed \cup {a}]
             = [claimed |-> drain[d].claimed, removed |-> drain[d].removed \cup {a}]
      <4>1. drain[d] \in DrainType
        OBVIOUS
      <4> HIDE DEF StoreTypes
      <4> QED
        BY <4>1 DEF DrainType
    <3>2. drain' = [drain EXCEPT ![d] = [drain[d] EXCEPT !.removed = drain[d].removed \cup {a}]]
      BY <1>6 DEF DeleteArtifact
    <3> QED
      BY <3>1, <3>2
  <2>2. drain' \in [Drainers -> DrainType]
    BY <1>5, <2>1 DEF DrainType
  <2> QED
    BY <1>6, <2>2 DEF DeleteArtifact
<1>7. ASSUME NEW d \in Drainers, NEW a \in Artifacts, FinalizeDeletion(d, a) PROVE StoreTypes'
  <2>1. drain' = [drain EXCEPT ![d] = [claimed |-> drain[d].claimed \ {a}, removed |-> drain[d].removed \ {a}]]
    BY <1>5, <1>7 DEF FinalizeDeletion
  <2>2. drain' \in [Drainers -> DrainType]
    BY <1>5, <2>1 DEF DrainType
  <2>3. del' \in [Artifacts -> DeletionType]
    BY <1>7 DEF FinalizeDeletion, NotQueued, DeletionType
  <2> QED
    BY <1>7, <2>2, <2>3 DEF FinalizeDeletion
<1>8. ASSUME NEW d \in Drainers, DrainerDies(d) PROVE StoreTypes'
  BY <1>1, <1>8 DEF DrainerDies, DrainType
<1>9. ASSUME NEW d \in Drainers, NEW a \in Artifacts, UpdateDeletionFailure(d, a) PROVE StoreTypes'
  <2>1. drain' = [drain EXCEPT ![d] = [claimed |-> drain[d].claimed \ {a}, removed |-> drain[d].removed]]
    <3>1. [drain[d] EXCEPT !.claimed = drain[d].claimed \ {a}]
             = [claimed |-> drain[d].claimed \ {a}, removed |-> drain[d].removed]
      <4>1. drain[d] \in DrainType
        OBVIOUS
      <4> HIDE DEF StoreTypes
      <4> QED
        BY <4>1 DEF DrainType
    <3>2. drain' = [drain EXCEPT ![d] = [drain[d] EXCEPT !.claimed = drain[d].claimed \ {a}]]
      BY <1>9 DEF UpdateDeletionFailure
    <3> QED
      BY <3>1, <3>2
  <2>2. drain' \in [Drainers -> DrainType]
    BY <1>5, <2>1 DEF DrainType
  <2>3. del' \in [Artifacts -> DeletionType]
    BY <1>9 DEF UpdateDeletionFailure, DeletionType
  <2> QED
    BY <1>1, <1>9, <2>2, <2>3 DEF UpdateDeletionFailure
<1> QED
  BY <1>2, <1>3, <1>4, <1>6, <1>7, <1>8, <1>9 DEF DrainStep

LEMMA TypesStep == ASSUME StoreAssumption, StoreTypes, [StoreNext]_storeVars PROVE StoreTypes'
<1>1. CASE UNCHANGED storeVars
  BY <1>1 DEF storeVars, StoreTypes
<1>2. CASE ReapExpiredReservations
  <2>1. PICK a \in Artifacts : TRUE
    BY DEF StoreAssumption
  <2> QED
    BY <1>2, <2>1, UploadTypes
<1>3. CASE \/ \E j \in Jobs : (\E a \in Artifacts : CopyInsert(j, a)) \/ CopyCommit(j) \/ JobFinishes(j)
           \/ ClearJobs \/ LockedArtifacts \/ ArtifactReferences \/ CleanupSnapshot \/ DeleteRows
  BY <1>3, ReferenceTypes
<1>4. CASE \/ \E a \in Artifacts : LeaseLapses(a) \/ LeaseOutlived(a)
           \/ \E d \in Drainers : DrainStep(d) \/ DrainerDies(d)
                                  \/ \E a \in Artifacts : UpdateDeletionFailure(d, a)
  BY <1>4, DrainTypes
<1>5. CASE \E a \in Artifacts :
             \/ ParseMultipart(a) \/ StageFileField(a) \/ RefuseUpload(a) \/ ReserveCheck(a)
             \/ ReserveArtifactQuota(a) \/ ReservationExpires(a) \/ PutArtifact(a) \/ PutFails(a)
             \/ CompleteUpload(a) \/ ReleaseReservation(a) \/ UploadDropped(a)
  BY <1>5, UploadTypes
<1> QED
  BY <1>1, <1>2, <1>3, <1>4, <1>5 DEF StoreNext

-----------------------------------------------------------------------------
(* The life of an artifact. *)

\* An artifact nothing happens to.
Rests(b) ==
    /\ upload'[b] = upload[b] /\ resv'[b] = resv[b] /\ (b \in object' <=> b \in object)
    /\ (b \in rows' <=> b \in rows) /\ (del'[b].queued <=> del[b].queued)
    /\ \A d \in Drainers : /\ b \in drain'[d].claimed <=> b \in drain[d].claimed
                           /\ b \in drain'[d].removed <=> b \in drain[d].removed
LEMMA Resting == ASSUME NEW b, LifeOf(b), Rests(b) PROVE LifeOf(b)'
BY DEF LifeOf, Rests, Doomed

\* The drainers and the queue rest: what the upload does.
QueueRests(b) == (del'[b].queued <=> del[b].queued) /\ drain' = drain

LEMMA UploadLives ==
    ASSUME StoreTypes, Lives, NEW a \in Artifacts,
           \/ ParseMultipart(a) \/ StageFileField(a) \/ RefuseUpload(a)
           \/ ReserveArtifactQuota(a) \/ ReservationExpires(a) \/ PutArtifact(a) \/ PutFails(a)
           \/ CompleteUpload(a) \/ UploadDropped(a)
    PROVE  Lives'
<1> USE DEF StoreTypes
<1>1. LifeOf(a)
  BY DEF Lives
<1>2. \A b \in Artifacts \ {a} : Rests(b)
  <2> SUFFICES ASSUME NEW b \in Artifacts \ {a} PROVE Rests(b)
    OBVIOUS
  <2> QED
    BY DEF Rests, ParseMultipart, StageFileField, RefuseUpload, ReserveArtifactQuota, ReservationExpires,
           PutArtifact, PutFails, CompleteUpload, UploadDropped
<1>3. LifeOf(a)'
  <2> USE DEF LifeOf, Doomed, Early, Late
  <2>1. CASE ParseMultipart(a) \/ StageFileField(a) \/ RefuseUpload(a)
    BY <1>1, <2>1 DEF ParseMultipart, StageFileField, RefuseUpload
  <2>2. CASE ReserveArtifactQuota(a)
    BY <1>1, <2>2 DEF ReserveArtifactQuota
  <2>3. CASE ReservationExpires(a)
    BY <1>1, <2>3 DEF ReservationExpires, MayExpire
  <2>4. CASE PutArtifact(a)
    BY <1>1, <2>4 DEF PutArtifact
  <2>5. CASE PutFails(a)
    BY <1>1, <2>5 DEF PutFails
  <2>6. CASE CompleteUpload(a)
    BY <1>1, <2>6 DEF CompleteUpload, ReservationActive
  <2>7. CASE UploadDropped(a)
    BY <1>1, <2>7 DEF UploadDropped
  <2> QED
    BY <2>1, <2>2, <2>3, <2>4, <2>5, <2>6, <2>7
<1> QED
  BY <1>2, <1>3, Resting DEF Lives

\* Reservations that ran out belong to uploads past their put, so what is reaped has no row.
LEMMA ReapLives ==
    ASSUME StoreTypes, Lives, Reap, UNCHANGED <<object, rows, drain>>,
           \A b \in Artifacts : upload'[b] = upload[b]
                                \/ (upload[b] = "staged" /\ upload'[b] \in {"checked", "ended"})
    PROVE  Lives'
<1> SUFFICES ASSUME NEW b \in Artifacts PROVE LifeOf(b)'
  BY DEF Lives
<1> USE DEF StoreTypes
<1>1. LifeOf(b)
  BY DEF Lives
<1>2. Expired \in SUBSET Artifacts /\ (b \in Expired <=> resv[b] = "expired")
  BY DEF Expired
<1>3. del'[b].queued <=> (del[b].queued \/ b \in Expired)
  BY <1>2, Enqueues DEF Reap
<1>4. resv'[b] = IF b \in Expired THEN "none" ELSE resv[b]
  BY DEF Reap
<1>5. upload[b] \in UploadStates /\ resv[b] \in {"none", "live", "expired"}
  OBVIOUS
<1> QED
  BY <1>1, <1>2, <1>3, <1>4, <1>5 DEF LifeOf, Doomed, Early, Late, UploadStates

LEMMA ReleaseLives ==
    ASSUME StoreTypes, Lives, NEW a \in Artifacts, ReleaseReservation(a) PROVE Lives'
<1> SUFFICES ASSUME NEW b \in Artifacts PROVE LifeOf(b)'
  BY DEF Lives
<1> USE DEF StoreTypes
<1>1. LifeOf(b)
  BY DEF Lives
<1>2. EnqueueDeletion({a})[b].queued <=> (del[b].queued \/ b = a)
  BY Enqueues
<1> QED
  BY <1>1, <1>2 DEF ReleaseReservation, LifeOf, Doomed, Early, Late

\* Rows go to the queue when they are deleted.
LEMMA DeleteRowsLives == ASSUME StoreTypes, Lives, SweepHolds, DeleteRows PROVE Lives'
<1> SUFFICES ASSUME NEW b \in Artifacts PROVE LifeOf(b)'
  BY DEF Lives
<1>1. LifeOf(b)
  BY DEF Lives
<1>2. sweep.orphans \in SUBSET Artifacts /\ sweep.orphans \subseteq rows
  BY DEF StoreTypes, SweepType, SweepHolds
<1>3. del'[b].queued <=> (del[b].queued \/ b \in sweep.orphans)
  BY <1>2, Enqueues DEF DeleteRows
<1> QED
  BY <1>1, <1>2, <1>3 DEF DeleteRows, LifeOf, Doomed, Early, Late

\* A drainer takes what is queued, and forgets what it has deleted.
LEMMA DrainLives ==
    ASSUME StoreTypes, Lives,
           \/ \E a \in Artifacts : LeaseLapses(a) \/ LeaseOutlived(a)
           \/ \E d \in Drainers : DrainStep(d) \/ DrainerDies(d)
                                  \/ \E a \in Artifacts : UpdateDeletionFailure(d, a)
    PROVE  Lives'
<1> SUFFICES ASSUME NEW b \in Artifacts PROVE LifeOf(b)'
  BY DEF Lives
<1> USE DEF StoreTypes
<1>1. LifeOf(b)
  BY DEF Lives
<1>2. del[b] \in DeletionType
  OBVIOUS
<1>3. ASSUME NEW a \in Artifacts, LeaseLapses(a) \/ LeaseOutlived(a) PROVE LifeOf(b)'
  <2>1. Rests(b)
    BY <1>2, <1>3 DEF LeaseLapses, LeaseOutlived, Rests, DeletionType
  <2> QED
    BY <1>1, <2>1, Resting
<1>4. ASSUME NEW d \in Drainers, ClaimDeletions(d) PROVE LifeOf(b)'
  <2>1. del'[b].queued <=> del[b].queued
    BY <1>2, <1>4 DEF ClaimDeletions, Claimable, DeletionType
  <2>2. \A e \in Drainers : /\ b \in drain'[e].claimed => b \in drain[e].claimed \/ del[b].queued
                            /\ b \in drain'[e].removed => b \in drain[e].removed /\ b \in drain'[e].claimed
    BY <1>1, <1>4 DEF ClaimDeletions, Claimable, LifeOf
  <2> QED
    BY <1>1, <1>4, <2>1, <2>2 DEF ClaimDeletions, LifeOf, Doomed, Early, Late
<1>5. ASSUME NEW d \in Drainers, NEW a \in Artifacts, DeleteArtifact(d, a) PROVE LifeOf(b)'
  <2>1. \A e \in Drainers : /\ drain'[e].claimed = drain[e].claimed
                            /\ drain'[e].removed = IF e = d THEN drain[e].removed \cup {a} ELSE drain[e].removed
    BY <1>5 DEF DeleteArtifact, DrainType
  <2>2. object' = object \ {a} /\ a \in drain[d].claimed /\ UNCHANGED <<upload, resv, rows, del>>
    BY <1>5 DEF DeleteArtifact
  <2> QED
    BY <1>1, <2>1, <2>2 DEF LifeOf, Doomed, Early, Late
<1>6. ASSUME NEW d \in Drainers, NEW a \in Artifacts, FinalizeDeletion(d, a) PROVE LifeOf(b)'
  <2>1. \A e \in Drainers : /\ drain'[e].claimed = IF e = d THEN drain[e].claimed \ {a} ELSE drain[e].claimed
                            /\ drain'[e].removed = IF e = d THEN drain[e].removed \ {a} ELSE drain[e].removed
    BY <1>6 DEF FinalizeDeletion, DrainType
  <2>2. a \in drain[d].removed /\ UNCHANGED <<upload, resv, rows, object>>
    BY <1>6 DEF FinalizeDeletion
  <2>3. (del'[b].queued => del[b].queued) /\ (b # a => (del'[b].queued <=> del[b].queued))
    BY <1>2, <1>6 DEF FinalizeDeletion, NotQueued, DeletionType
  <2> QED
    BY <1>1, <2>1, <2>2, <2>3 DEF LifeOf, Doomed, Early, Late
<1>7. ASSUME NEW d \in Drainers, DrainerDies(d) PROVE LifeOf(b)'
  <2>1. \A e \in Drainers : /\ b \in drain'[e].claimed => b \in drain[e].claimed
                            /\ b \in drain'[e].removed => b \in drain[e].removed /\ b \in drain'[e].claimed
    BY <1>1, <1>7 DEF DrainerDies, LifeOf
  <2> QED
    BY <1>1, <1>7, <2>1 DEF DrainerDies, LifeOf, Doomed, Early, Late
<1>8. ASSUME NEW d \in Drainers, NEW a \in Artifacts, UpdateDeletionFailure(d, a) PROVE LifeOf(b)'
  <2>1. \A e \in Drainers : /\ drain'[e].claimed = IF e = d THEN drain[e].claimed \ {a} ELSE drain[e].claimed
                            /\ drain'[e].removed = drain[e].removed
    <3>1. drain' = [drain EXCEPT ![d].claimed = drain[d].claimed \ {a}]
      BY <1>8 DEF UpdateDeletionFailure
    <3> QED
      BY <3>1 DEF DrainType
  <2>2. a \notin drain[d].removed /\ UNCHANGED <<upload, resv, rows, object>>
    BY <1>8 DEF UpdateDeletionFailure
  <2>3. del'[b].queued <=> del[b].queued
    BY <1>2, <1>8 DEF UpdateDeletionFailure, DeletionType
  <2> QED
    BY <1>1, <2>1, <2>2, <2>3 DEF LifeOf, Doomed, Early, Late
<1> QED
  BY <1>3, <1>4, <1>5, <1>6, <1>7, <1>8 DEF DrainStep

LEMMA LivesStep ==
    ASSUME StoreTypes, Lives, SweepHolds, [StoreNext]_storeVars PROVE Lives'
<1>1. ASSUME UNCHANGED <<upload, resv, object, rows, del, drain>> PROVE Lives'
  BY <1>1, Resting DEF Lives, Rests
<1>2. CASE UNCHANGED storeVars
  BY <1>1, <1>2 DEF storeVars
<1>3. CASE \/ \E j \in Jobs : (\E a \in Artifacts : CopyInsert(j, a)) \/ CopyCommit(j) \/ JobFinishes(j)
           \/ ClearJobs \/ LockedArtifacts \/ ArtifactReferences \/ CleanupSnapshot
  BY <1>1, <1>3 DEF CopyInsert, CopyCommit, JobFinishes, ClearJobs, LockedArtifacts, ArtifactReferences,
                    CleanupSnapshot
<1>4. ASSUME NEW a \in Artifacts, ReserveCheck(a) PROVE Lives'
  <2>1. Reap /\ UNCHANGED <<object, rows, drain>>
    BY <1>4 DEF ReserveCheck
  <2>2. \A b \in Artifacts : upload'[b] = upload[b]
                             \/ (upload[b] = "staged" /\ upload'[b] \in {"checked", "ended"})
    BY <1>4 DEF ReserveCheck, StoreTypes
  <2> QED
    BY <2>1, <2>2, ReapLives
<1>5. CASE ReapExpiredReservations
  BY <1>5, ReapLives DEF ReapExpiredReservations
<1> QED
  BY <1>2, <1>3, <1>4, <1>5, UploadLives, ReleaseLives, DeleteRowsLives, DrainLives DEF StoreNext


-----------------------------------------------------------------------------
(* What a clear holds. *)

\* A new reference is to a fresh artifact or to one the clear has not locked, and a transaction
\* that was open is not for a locked one.
LEMMA JobsSwept ==
    ASSUME StoreTypes, Lives, SweepHolds, NEW j \in Jobs,
           \/ \E a \in Artifacts : CopyInsert(j, a)
           \/ CopyCommit(j) \/ JobFinishes(j)
           \/ \E a \in Artifacts :
                 /\ upload[a] = "stored" /\ job[j].state = "none" /\ rows' = rows \cup {a} /\ UNCHANGED sweep
                 /\ job' = [job EXCEPT ![j] = [state |-> "live", artifact |-> a]]
    PROVE  SweepHolds'
<1>1. sweep' = sweep /\ rows \subseteq rows'
  BY DEF CopyInsert, CopyCommit, JobFinishes
<1>2. \A k \in Jobs : k # j => job'[k] = job[k]
  BY DEF StoreTypes, CopyInsert, CopyCommit, JobFinishes
<1>3. sweep.jobs \subseteq Jobs /\ sweep.orphans \subseteq Artifacts /\ sweep.locked \subseteq Artifacts
  BY DEF StoreTypes, SweepType
<1>4. job[j].state # "finished"
  BY DEF CopyInsert, CopyCommit, JobFinishes
<1>5. j \notin sweep.jobs
  BY <1>4 DEF SweepHolds
<1>6. \A k \in sweep.jobs : job'[k].state = "finished" /\ job'[k].artifact = job[k].artifact
  BY <1>2, <1>3, <1>5 DEF SweepHolds
<1>7. job[j] \in JobType /\ job \in [Jobs -> JobType]
  BY DEF StoreTypes
<1>8. CASE JobFinishes(j)
  <2>1. job[j].state = "live" /\ job'[j].state = "finished" /\ job'[j].artifact = job[j].artifact
    BY <1>7, <1>8 DEF JobFinishes, JobType
  <2>2. \A b : Open(b)' = Open(b) /\ Committed(b)' = Committed(b)
    BY <1>2, <2>1 DEF Open, Committed
  <2> QED
    BY <1>1, <1>6, <2>2 DEF SweepHolds
<1>9. CASE CopyCommit(j)
  <2>1. job[j].state = "open" /\ job'[j].state \in {"live", "none"} /\ job'[j].artifact = job[j].artifact
    BY <1>7, <1>9 DEF CopyCommit, JobType
  <2>2. \A b : Open(b)' \subseteq Open(b) /\ (b # job[j].artifact => Committed(b)' = Committed(b))
    BY <1>2, <2>1 DEF Open, Committed
  <2>3. j \in Open(job[j].artifact)
    BY <2>1 DEF Open
  <2> QED
    BY <1>1, <1>6, <2>2, <2>3 DEF SweepHolds
<1>10. CASE \E a \in Artifacts : CopyInsert(j, a)
  <2>1. PICK a \in Artifacts : CopyInsert(j, a)
    BY <1>10
  <2>2. job[j].state = "none" /\ job'[j] = [state |-> "open", artifact |-> a] /\ a \notin sweep.locked
    BY <1>7, <2>1 DEF CopyInsert
  <2>3. \A b : Committed(b)' = Committed(b) /\ (b # a => Open(b)' = Open(b))
    BY <1>2, <2>2 DEF Open, Committed
  <2> QED
    BY <1>1, <1>6, <2>2, <2>3 DEF SweepHolds
<1>11. CASE \E a \in Artifacts :
              /\ upload[a] = "stored" /\ job[j].state = "none" /\ rows' = rows \cup {a} /\ UNCHANGED sweep
              /\ job' = [job EXCEPT ![j] = [state |-> "live", artifact |-> a]]
  <2>1. PICK a \in Artifacts : upload[a] = "stored" /\ job[j].state = "none"
                               /\ job' = [job EXCEPT ![j] = [state |-> "live", artifact |-> a]]
    BY <1>11
  <2>2. a \notin rows
    BY <2>1 DEF Lives, LifeOf
  <2>3. job'[j] = [state |-> "live", artifact |-> a]
    BY <1>7, <2>1
  <2>4. \A b : Open(b)' = Open(b) /\ (b # a => Committed(b)' = Committed(b))
    BY <1>2, <2>1, <2>3 DEF Open, Committed
  <2> QED
    BY <1>1, <1>6, <2>2, <2>4 DEF SweepHolds
<1> QED
  BY <1>8, <1>9, <1>10, <1>11

\* The statements of a clear and of the cleanup.
LEMMA SweepSwept ==
    ASSUME StoreTypes, SweepHolds,
           ClearJobs \/ LockedArtifacts \/ ArtifactReferences \/ CleanupSnapshot \/ DeleteRows
    PROVE  SweepHolds'
<1>1. sweep = [at |-> sweep.at, jobs |-> sweep.jobs, locked |-> sweep.locked, orphans |-> sweep.orphans]
      /\ sweep.jobs \subseteq Jobs
  BY DEF StoreTypes, SweepType
<1>2. CASE ClearJobs
  <2>1. PICK set \in SUBSET {j \in Jobs : job[j].state = "finished"} \ {{}} :
           sweep' = [at |-> "lock", jobs |-> set, locked |-> {}, orphans |-> {}]
    BY <1>2 DEF ClearJobs
  <2> QED
    BY <1>2, <2>1 DEF ClearJobs, SweepHolds
<1>3. ASSUME job' = job PROVE \A b : Open(b)' = Open(b) /\ Committed(b)' = Committed(b)
  BY <1>3 DEF Open, Committed
<1>4. CASE LockedArtifacts
  <2>1. sweep' = [at |-> "read", jobs |-> sweep.jobs, locked |-> ArtifactsOf(sweep.jobs),
                  orphans |-> sweep.orphans]
    BY <1>1, <1>4 DEF LockedArtifacts
  <2>2. \A b \in ArtifactsOf(sweep.jobs) : Open(b)' = {}
    BY <1>3, <1>4 DEF LockedArtifacts
  <2>3. \A j \in sweep.jobs : job[j].artifact \in ArtifactsOf(sweep.jobs)
    BY DEF ArtifactsOf
  <2> QED
    BY <1>4, <2>1, <2>2, <2>3 DEF LockedArtifacts, SweepHolds
<1>5. CASE ArtifactReferences
  <2> DEFINE orphans == {a \in ArtifactsOf(sweep.jobs) \cap rows : Committed(a) \subseteq sweep.jobs}
  <2>1. sweep' = [at |-> "delete", jobs |-> sweep.jobs, locked |-> sweep.locked, orphans |-> orphans]
    BY <1>1, <1>5 DEF ArtifactReferences
  <2>2. orphans \subseteq rows /\ \A b \in orphans : Committed(b) \subseteq sweep.jobs
    OBVIOUS
  <2>3. \A b \in orphans : \E j \in sweep.jobs : job[j].artifact = b
    BY DEF ArtifactsOf
  <2>4. sweep.at = "read" /\ UNCHANGED <<job, rows>>
    BY <1>5 DEF ArtifactReferences
  <2> HIDE DEF orphans
  <2> QED
    BY <1>3, <2>1, <2>2, <2>3, <2>4 DEF SweepHolds
<1>6. CASE CleanupSnapshot
  <2> DEFINE old == {j \in Jobs : job[j].state = "finished"}
  <2>1. sweep' = [at |-> "delete", jobs |-> old, locked |-> {},
                  orphans |-> {a \in ArtifactsOf(old) \cap rows : Committed(a) \subseteq old}]
    BY <1>6 DEF CleanupSnapshot
  <2>2. Retention /\ UNCHANGED <<job, rows>>
    BY <1>6 DEF CleanupSnapshot
  <2> QED
    BY <2>1, <2>2 DEF SweepHolds
<1>7. CASE DeleteRows
  BY <1>7 DEF DeleteRows, NoSweep, SweepHolds
<1> QED
  BY <1>2, <1>4, <1>5, <1>6, <1>7

LEMMA SweepStep == ASSUME StoreTypes, Lives, SweepHolds, [StoreNext]_storeVars PROVE SweepHolds'
<1>1. ASSUME UNCHANGED <<job, rows, sweep>> PROVE SweepHolds'
  BY <1>1 DEF SweepHolds, Open, Committed
<1>2. CASE UNCHANGED storeVars
  BY <1>1, <1>2 DEF storeVars
<1>3. ASSUME NEW a \in Artifacts,
             \/ ParseMultipart(a) \/ StageFileField(a) \/ RefuseUpload(a) \/ ReserveCheck(a)
             \/ ReserveArtifactQuota(a) \/ ReservationExpires(a) \/ PutArtifact(a) \/ PutFails(a)
             \/ ReleaseReservation(a) \/ UploadDropped(a) \/ LeaseLapses(a) \/ LeaseOutlived(a)
      PROVE  SweepHolds'
  <2>1. UNCHANGED <<job, rows, sweep>>
    BY <1>3 DEF ParseMultipart, StageFileField, RefuseUpload, ReserveCheck, ReserveArtifactQuota,
                ReservationExpires, PutArtifact, PutFails, ReleaseReservation, UploadDropped, LeaseLapses, LeaseOutlived
  <2> QED
    BY <1>1, <2>1
<1>4. CASE ReapExpiredReservations
  BY <1>1, <1>4 DEF ReapExpiredReservations
<1>5. ASSUME NEW a \in Artifacts, CompleteUpload(a) PROVE SweepHolds'
  <2>1. CASE UNCHANGED <<rows, resv, job, staged>>
    BY <1>1, <1>5, <2>1 DEF CompleteUpload
  <2>2. CASE \E j \in Jobs :
               /\ job[j].state = "none" /\ rows' = rows \cup {a}
               /\ job' = [job EXCEPT ![j] = [state |-> "live", artifact |-> a]]
    <3>1. PICK j \in Jobs : /\ job[j].state = "none" /\ rows' = rows \cup {a}
                            /\ job' = [job EXCEPT ![j] = [state |-> "live", artifact |-> a]]
      BY <2>2
    <3>2. upload[a] = "stored" /\ UNCHANGED sweep
      BY <1>5 DEF CompleteUpload
    <3> QED
      BY <3>1, <3>2, JobsSwept
  <2> QED
    BY <1>5, <2>1, <2>2 DEF CompleteUpload
<1>6. ASSUME NEW d \in Drainers,
             DrainStep(d) \/ DrainerDies(d) \/ \E a \in Artifacts : UpdateDeletionFailure(d, a)
      PROVE  SweepHolds'
  BY <1>1, <1>6 DEF DrainStep, ClaimDeletions, DeleteArtifact, FinalizeDeletion, DrainerDies,
         UpdateDeletionFailure
<1>7. CASE \E j \in Jobs : (\E a \in Artifacts : CopyInsert(j, a)) \/ CopyCommit(j) \/ JobFinishes(j)
  BY <1>7, JobsSwept
<1>8. CASE ClearJobs \/ LockedArtifacts \/ ArtifactReferences \/ CleanupSnapshot \/ DeleteRows
  BY <1>8, SweepSwept
<1> QED
  BY <1>2, <1>3, <1>4, <1>5, <1>6, <1>7, <1>8 DEF StoreNext


-----------------------------------------------------------------------------
(* The quota. *)

\* Sets of artifacts can be counted.
LEMMA Counted ==
    ASSUME StoreAssumption, NEW S \in SUBSET Artifacts
    PROVE  /\ IsFiniteSet(S) /\ Cardinality(S) \in Nat
           /\ \A T \in SUBSET S : IsFiniteSet(T) /\ Cardinality(T) \in Nat /\ Cardinality(T) <= Cardinality(S)
           /\ \A a \in Artifacts : Cardinality(S \cup {a}) = IF a \in S THEN Cardinality(S) ELSE Cardinality(S) + 1
           /\ \A a \in Artifacts : Cardinality(S \ {a}) = IF a \in S THEN Cardinality(S) - 1 ELSE Cardinality(S)
<1>1. IsFiniteSet(Artifacts)
  BY DEF StoreAssumption
<1>2. \A T \in SUBSET Artifacts : IsFiniteSet(T)
  BY <1>1, FS_Subset
<1>3. \A T \in SUBSET Artifacts : Cardinality(T) \in Nat
  BY <1>2, FS_CardinalityType
<1>4. \A T \in SUBSET S : Cardinality(T) <= Cardinality(S)
  BY <1>2, FS_Subset
<1> QED
  BY <1>2, <1>3, <1>4, FS_AddElement, FS_RemoveElement

\* The bytes of one upload.
LEMMA OneUpload ==
    ASSUME StoreAssumption, NEW a \in Artifacts
    PROVE  IsFiniteSet({a} \X (1..SizeOf[a])) /\ Cardinality({a} \X (1..SizeOf[a])) = SizeOf[a]
<1>1. SizeOf[a] \in Nat
  BY DEF StoreAssumption
<1>2. IsFiniteSet(1..SizeOf[a]) /\ Cardinality(1..SizeOf[a]) = SizeOf[a]
  <2>1. Cardinality(1..SizeOf[a]) = (IF 1 > SizeOf[a] THEN 0 ELSE SizeOf[a] - 1 + 1) /\ IsFiniteSet(1..SizeOf[a])
    BY <1>1, FS_Interval
  <2> QED
    BY <1>1, <2>1
<1>3. IsFiniteSet({a}) /\ Cardinality({a}) = 1
  BY FS_Singleton
<1>4. Cardinality({a} \X (1..SizeOf[a])) = 1 * SizeOf[a] /\ IsFiniteSet({a} \X (1..SizeOf[a]))
  BY <1>2, <1>3, FS_Product
<1> QED
  BY <1>1, <1>4

\* Bytes can be counted: fewer uploads have no more of them, and one more upload adds its size.
LEMMA BytesCounted ==
    ASSUME StoreAssumption, NEW S \in SUBSET Artifacts
    PROVE  /\ IsFiniteSet(BytesOf(S)) /\ Bytes(S) \in Nat
           /\ \A T \in SUBSET S : Bytes(T) <= Bytes(S)
           /\ \A a \in Artifacts : Bytes(S \cup {a}) <= Bytes(S) + SizeOf[a] /\ Bytes(S \cup {a}) \in Nat
<1>1. ASSUME NEW U \in SUBSET Artifacts PROVE IsFiniteSet(BytesOf(U)) /\ Bytes(U) \in Nat
  <2> DEFINE f == [a \in U |-> {a} \X (1..SizeOf[a])]
             Parts == {{a} \X (1..SizeOf[a]) : a \in U}
  <2>1. IsFiniteSet(U)
    BY Counted
  <2>2. f \in Surjection(U, Parts)
    BY DEF Surjection
  <2>3. IsFiniteSet(Parts)
    BY <2>1, <2>2, FS_Surjection DEF ExistsSurjection
  <2>4. \A P \in Parts : IsFiniteSet(P)
    BY OneUpload
  <2>5. IsFiniteSet(UNION Parts)
    <3> HIDE DEF Parts
    <3> QED
      BY <2>3, <2>4, FS_UNION
  <2> QED
    BY <2>5, FS_CardinalityType DEF BytesOf, Bytes
<1>2. ASSUME NEW T \in SUBSET S PROVE Bytes(T) <= Bytes(S)
  <2>1. BytesOf(T) \in SUBSET BytesOf(S)
    BY DEF BytesOf
  <2> QED
    BY <1>1, <2>1, FS_Subset DEF Bytes
<1>3. ASSUME NEW a \in Artifacts PROVE Bytes(S \cup {a}) <= Bytes(S) + SizeOf[a]
  <2> DEFINE B == {a} \X (1..SizeOf[a])
  <2>1. BytesOf(S \cup {a}) = BytesOf(S) \cup B
    BY DEF BytesOf
  <2>2. IsFiniteSet(B) /\ Cardinality(B) = SizeOf[a] /\ SizeOf[a] \in Nat
    BY OneUpload DEF StoreAssumption
  <2>3. IsFiniteSet(BytesOf(S)) /\ Cardinality(BytesOf(S)) \in Nat
    BY <1>1 DEF Bytes
  <2> HIDE DEF B
  <2>4. Cardinality(BytesOf(S) \cup B) = Cardinality(BytesOf(S)) + Cardinality(B) - Cardinality(BytesOf(S) \cap B)
    BY <2>2, <2>3, FS_Union
  <2>5. Cardinality(BytesOf(S) \cap B) \in Nat
    BY <2>3, FS_Intersection, FS_CardinalityType
  <2>6. Cardinality(BytesOf(S) \cup B) <= Cardinality(BytesOf(S)) + SizeOf[a]
    BY <2>2, <2>3, <2>4, <2>5
  <2> QED
    BY <2>1, <2>6 DEF Bytes
<1> QED
  BY <1>1, <1>2, <1>3

\* What is not charged any more stays paid for.
LEMMA QuotaShrinks ==
    ASSUME StoreAssumption, QuotaHolds, Paying' \subseteq Paying, quotaLock' \subseteq quotaLock,
           quotaLock' = {a \in Artifacts : upload'[a] = "checked"}
    PROVE  QuotaHolds'
<1>1. Paying \in SUBSET Artifacts
  BY DEF Paying
<1>2. \A t \in Owners : PayingOf(t) \in SUBSET Artifacts /\ PayingOf(t)' \subseteq PayingOf(t)
  BY <1>1 DEF PayingOf
<1>3. Cardinality(Paying) \in Nat /\ Cardinality(Paying') \in Nat /\ Cardinality(Paying') <= Cardinality(Paying)
  BY <1>1, Counted
<1>4. \A t \in Owners : /\ Cardinality(PayingOf(t)) \in Nat /\ Cardinality(PayingOf(t)') \in Nat
                         /\ Cardinality(PayingOf(t)') <= Cardinality(PayingOf(t))
  BY <1>2, Counted
<1>5. /\ quotaLock \subseteq Artifacts
      /\ {GlobalCount, CountLimit, GlobalBytes, ByteLimit} \subseteq Nat
      /\ OwnerOf \in [Artifacts -> Owners] /\ SizeOf \in [Artifacts -> Nat]
  BY DEF QuotaHolds, StoreAssumption
<1>6. /\ Bytes(Paying) \in Nat /\ Bytes(Paying') \in Nat /\ Bytes(Paying') <= Bytes(Paying)
      /\ \A t \in Owners : /\ Bytes(PayingOf(t)) \in Nat /\ Bytes(PayingOf(t)') \in Nat
                            /\ Bytes(PayingOf(t)') <= Bytes(PayingOf(t))
  <2>1. Paying' \in SUBSET Artifacts /\ \A t \in Owners : PayingOf(t)' \in SUBSET Artifacts
    BY <1>1, <1>2
  <2> QED
    BY <1>1, <1>2, <2>1, BytesCounted
<1>7. /\ Cardinality(Paying') <= GlobalCount /\ Bytes(Paying') <= GlobalBytes
      /\ \A t \in Owners : Cardinality(PayingOf(t)') <= CountLimit /\ Bytes(PayingOf(t)') <= ByteLimit
  BY <1>3, <1>4, <1>5, <1>6 DEF QuotaHolds
<1>8. ASSUME NEW a \in quotaLock'
      PROVE  /\ Cardinality(Paying') < GlobalCount /\ Cardinality(PayingOf(OwnerOf[a])') < CountLimit
             /\ Bytes(Paying') + SizeOf[a] <= GlobalBytes /\ Bytes(PayingOf(OwnerOf[a])') + SizeOf[a] <= ByteLimit
  <2>1. a \in quotaLock /\ OwnerOf[a] \in Owners /\ SizeOf[a] \in Nat
    BY <1>5, <1>8
  <2>2. /\ Cardinality(Paying) < GlobalCount /\ Cardinality(PayingOf(OwnerOf[a])) < CountLimit
        /\ Bytes(Paying) + SizeOf[a] <= GlobalBytes /\ Bytes(PayingOf(OwnerOf[a])) + SizeOf[a] <= ByteLimit
    BY <2>1 DEF QuotaHolds
  <2> QED
    BY <1>3, <1>4, <1>5, <1>6, <2>1, <2>2
<1> QED
  BY <1>7, <1>8 DEF QuotaHolds, Bytes, BytesOf

\* The quota the check reads is what is paid for.
LEMMA ChargedIsPaying ==
    ASSUME StoreAssumption
    PROVE  ChargedToAll = Paying /\ \A t \in Owners : Charged(t) = PayingOf(t)
<1>1. \A t \in Owners : Charged(t) = PayingOf(t)
  BY DEF Charged, PayingOf, Paying
<1>2. \A a \in Paying : a \in PayingOf(OwnerOf[a]) /\ OwnerOf[a] \in Owners
  BY DEF StoreAssumption, Paying, PayingOf
<1>3. \A t \in Owners : PayingOf(t) \subseteq Paying
  BY DEF PayingOf
<1> QED
  BY <1>1, <1>2, <1>3 DEF ChargedToAll

\* The reservation transaction: whoever passes the check holds the lock.
LEMMA CheckQuota ==
    ASSUME StoreAssumption, StoreTypes, QuotaHolds, NEW a \in Artifacts, ReserveCheck(a) PROVE QuotaHolds'
<1> USE DEF StoreTypes
<1>1. Paying' = Paying
  BY DEF ReserveCheck, Reap, Expired, Paying
<1>2. CASE ~EnforceArtifactQuota(a)
  <2>1. quotaLock' = quotaLock /\ quotaLock' = {b \in Artifacts : upload'[b] = "checked"}
    BY <1>2 DEF ReserveCheck, QuotaHolds
  <2> QED
    BY <1>1, <2>1, QuotaShrinks
<1>3. CASE EnforceArtifactQuota(a)
  <2>1. quotaLock' = {a} /\ quotaLock' = {b \in Artifacts : upload'[b] = "checked"}
    BY <1>3 DEF ReserveCheck, QuotaHolds, QuotaLockFree
  <2>2. \A t \in Owners : PayingOf(t)' = PayingOf(t)
    BY <1>1 DEF PayingOf
  <2>3. OwnerOf[a] \in Owners
    BY DEF StoreAssumption
  <2>4. /\ Cardinality(Paying) < GlobalCount /\ Cardinality(PayingOf(OwnerOf[a])) < CountLimit
        /\ Bytes(Paying) + SizeOf[a] <= GlobalBytes /\ Bytes(PayingOf(OwnerOf[a])) + SizeOf[a] <= ByteLimit
    BY <1>3, <2>3, ChargedIsPaying DEF EnforceArtifactQuota
  <2> QED
    BY <1>1, <2>1, <2>2, <2>3, <2>4 DEF QuotaHolds, Bytes, BytesOf
<1> QED
  BY <1>2, <1>3

\* The reservation is inserted into the room that was checked: nobody else got in between.
LEMMA InsertQuota ==
    ASSUME StoreAssumption, StoreTypes, QuotaHolds, NEW a \in Artifacts, ReserveArtifactQuota(a) PROVE QuotaHolds'
<1> USE DEF StoreTypes
<1>1. Paying \in SUBSET Artifacts /\ Paying' = Paying \cup {a}
  BY DEF ReserveArtifactQuota, Paying
<1>2. a \in quotaLock
  BY DEF ReserveArtifactQuota, QuotaHolds
<1>3. quotaLock' = {} /\ quotaLock' = {b \in Artifacts : upload'[b] = "checked"}
  <2>1. quotaLock' = quotaLock \ {a} /\ upload' = [upload EXCEPT ![a] = "putting"]
    BY DEF ReserveArtifactQuota
  <2>2. \A b \in quotaLock : b = a
    BY <1>2 DEF QuotaHolds
  <2> QED
    BY <2>1, <2>2 DEF QuotaHolds
<1>4. {GlobalCount, CountLimit, GlobalBytes, ByteLimit} \subseteq Nat /\ OwnerOf[a] \in Owners /\ SizeOf[a] \in Nat
  BY DEF StoreAssumption
<1>5. /\ Cardinality(Paying) < GlobalCount /\ Cardinality(PayingOf(OwnerOf[a])) < CountLimit
      /\ Bytes(Paying) + SizeOf[a] <= GlobalBytes /\ Bytes(PayingOf(OwnerOf[a])) + SizeOf[a] <= ByteLimit
  BY <1>2 DEF QuotaHolds
<1>6. Cardinality(Paying') <= GlobalCount /\ Bytes(Paying') <= GlobalBytes
  <2>1. Cardinality(Paying) \in Nat
        /\ Cardinality(Paying \cup {a}) \in {Cardinality(Paying), Cardinality(Paying) + 1}
    BY <1>1, Counted
  <2>2. Bytes(Paying) \in Nat /\ Bytes(Paying \cup {a}) \in Nat /\ Bytes(Paying \cup {a}) <= Bytes(Paying) + SizeOf[a]
    BY <1>1, BytesCounted
  <2> QED
    BY <1>1, <1>4, <1>5, <2>1, <2>2
<1>7. ASSUME NEW t \in Owners PROVE Cardinality(PayingOf(t)') <= CountLimit /\ Bytes(PayingOf(t)') <= ByteLimit
  <2>1. PayingOf(t) \in SUBSET Artifacts
    BY <1>1 DEF PayingOf
  <2>2. Cardinality(PayingOf(t)) \in Nat
        /\ Cardinality(PayingOf(t) \cup {a}) \in {Cardinality(PayingOf(t)), Cardinality(PayingOf(t)) + 1}
    BY <2>1, Counted
  <2>3. /\ Bytes(PayingOf(t)) \in Nat /\ Bytes(PayingOf(t) \cup {a}) \in Nat
        /\ Bytes(PayingOf(t) \cup {a}) <= Bytes(PayingOf(t)) + SizeOf[a]
    BY <2>1, BytesCounted
  <2>4. CASE t = OwnerOf[a]
    <3>1. PayingOf(t)' = PayingOf(t) \cup {a}
      BY <1>1, <2>4 DEF PayingOf
    <3> QED
      BY <1>4, <1>5, <2>2, <2>4, <2>3, <3>1
  <2>5. CASE t # OwnerOf[a]
    <3>1. PayingOf(t)' = PayingOf(t)
      BY <1>1, <2>5 DEF PayingOf
    <3> QED
      BY <3>1 DEF QuotaHolds
  <2> QED
    BY <2>4, <2>5
<1> QED
  BY <1>3, <1>6, <1>7 DEF QuotaHolds, Bytes, BytesOf

LEMMA QuotaStep == ASSUME StoreAssumption, StoreTypes, QuotaHolds, [StoreNext]_storeVars PROVE QuotaHolds'
<1> USE DEF StoreTypes
<1>1. ASSUME UNCHANGED <<upload, resv, rows, quotaLock>> PROVE QuotaHolds'
  BY <1>1 DEF QuotaHolds, Paying, PayingOf, Bytes, BytesOf
<1>2. CASE UNCHANGED storeVars
  BY <1>1, <1>2 DEF storeVars
<1>3. ASSUME NEW a \in Artifacts,
             \/ ParseMultipart(a) \/ StageFileField(a) \/ RefuseUpload(a) \/ ReservationExpires(a)
             \/ PutArtifact(a) \/ PutFails(a) \/ CompleteUpload(a) \/ ReleaseReservation(a) \/ UploadDropped(a)
      PROVE  QuotaHolds'
  <2>1. CASE ParseMultipart(a) \/ StageFileField(a) \/ RefuseUpload(a) \/ PutArtifact(a) \/ PutFails(a)
    <3>1. Paying' = Paying /\ quotaLock' = quotaLock
      BY <2>1 DEF ParseMultipart, StageFileField, RefuseUpload, PutArtifact, PutFails, Paying
    <3>2. \A b \in Artifacts : upload'[b] = "checked" <=> upload[b] = "checked"
      BY <2>1 DEF ParseMultipart, StageFileField, RefuseUpload, PutArtifact, PutFails
    <3>3. quotaLock' = {b \in Artifacts : upload'[b] = "checked"}
      BY <3>1, <3>2 DEF QuotaHolds
    <3> QED
      BY <3>1, <3>3, QuotaShrinks
  <2>2. CASE ReservationExpires(a) \/ CompleteUpload(a) \/ ReleaseReservation(a)
    <3>1. Paying' \subseteq Paying /\ quotaLock' = quotaLock
      BY <2>2 DEF ReservationExpires, CompleteUpload, ReleaseReservation, ReservationActive, Paying
    <3>2. \A b \in Artifacts : upload'[b] = "checked" <=> upload[b] = "checked"
      BY <2>2 DEF ReservationExpires, CompleteUpload, ReleaseReservation
    <3>3. quotaLock' = {b \in Artifacts : upload'[b] = "checked"}
      BY <3>1, <3>2 DEF QuotaHolds
    <3> QED
      BY <3>1, <3>3, QuotaShrinks
  <2>3. CASE UploadDropped(a)
    <3>1. Paying' = Paying /\ quotaLock' = quotaLock \ {a} /\ upload' = [upload EXCEPT ![a] = "ended"]
      BY <2>3 DEF UploadDropped, Paying
    <3>2. quotaLock' = {b \in Artifacts : upload'[b] = "checked"}
      BY <3>1 DEF QuotaHolds
    <3> QED
      BY <3>1, <3>2, QuotaShrinks
  <2> QED
    BY <1>3, <2>1, <2>2, <2>3
<1>4. CASE ReapExpiredReservations
  <2>1. Paying' = Paying /\ UNCHANGED <<quotaLock, upload>>
    BY <1>4 DEF ReapExpiredReservations, Reap, Expired, Paying
  <2> QED
    BY <2>1, QuotaShrinks DEF QuotaHolds
<1>5. CASE DeleteRows
  <2>1. Paying' \subseteq Paying /\ UNCHANGED <<quotaLock, upload>>
    BY <1>5 DEF DeleteRows, Paying
  <2> QED
    BY <2>1, QuotaShrinks DEF QuotaHolds
<1>6. ASSUME NEW a \in Artifacts, LeaseLapses(a) \/ LeaseOutlived(a) PROVE QuotaHolds'
  BY <1>1, <1>6 DEF LeaseLapses, LeaseOutlived
<1>7. ASSUME NEW d \in Drainers,
             DrainStep(d) \/ DrainerDies(d) \/ \E a \in Artifacts : UpdateDeletionFailure(d, a)
      PROVE  QuotaHolds'
  BY <1>1, <1>7 DEF DrainStep, ClaimDeletions, DeleteArtifact, FinalizeDeletion, DrainerDies,
         UpdateDeletionFailure
<1>8. CASE \/ \E j \in Jobs : (\E a \in Artifacts : CopyInsert(j, a)) \/ CopyCommit(j) \/ JobFinishes(j)
           \/ ClearJobs \/ LockedArtifacts \/ ArtifactReferences \/ CleanupSnapshot
  BY <1>1, <1>8 DEF CopyInsert, CopyCommit, JobFinishes, ClearJobs, LockedArtifacts, ArtifactReferences,
                    CleanupSnapshot
<1>9. ASSUME NEW a \in Artifacts, ReserveCheck(a) \/ ReserveArtifactQuota(a) PROVE QuotaHolds'
  BY <1>9, CheckQuota, InsertQuota
<1> HIDE DEF StoreTypes
<1> QED
  BY <1>2, <1>3, <1>4, <1>5, <1>6, <1>7, <1>8, <1>9 DEF StoreNext


-----------------------------------------------------------------------------
(* Staging permits. *)

\* Permits are counted per process and per tenant.
LEMMA PermitsCounted ==
    ASSUME StoreAssumption, PermitsAre
    PROVE  /\ staged.global = Cardinality(Holding) /\ Cardinality(Holding) \in Nat
           /\ \A t \in Owners : staged.tenant[t] = Cardinality(HoldingOf(t)) /\ Cardinality(HoldingOf(t)) \in Nat
           /\ Holding \in SUBSET Artifacts /\ \A t \in Owners : HoldingOf(t) \in SUBSET Artifacts
<1>1. Holding \in SUBSET Artifacts /\ \A t \in Owners : HoldingOf(t) \in SUBSET Artifacts
  BY DEF Holding, HoldingOf
<1> QED
  BY <1>1, Counted DEF PermitsAre

\* An upload under way stays so, or none starts and none ends.
LEMMA PermitsRest ==
    ASSUME PermitsAre, UNCHANGED staged,
           \A b \in Artifacts : upload'[b] \in {"none", "ended"} <=> upload[b] \in {"none", "ended"}
    PROVE  PermitsAre'
<1>1. Holding' = Holding
  BY DEF Holding
<1>2. \A t \in Owners : HoldingOf(t)' = HoldingOf(t)
  BY <1>1 DEF HoldingOf
<1> QED
  BY <1>1, <1>2 DEF PermitsAre

\* A permit given back is one of the process and one of the tenant.
LEMMA PermitDropped ==
    ASSUME StoreAssumption, StoreTypes, PermitsAre, NEW a \in Artifacts, upload[a] \notin {"none", "ended"},
           upload' = [upload EXCEPT ![a] = "ended"], staged' = DropStagingPermit(a)
    PROVE  PermitsAre'
<1>1. Holding' = Holding \ {a} /\ a \in Holding
  BY DEF Holding, StoreTypes
<1>2. OwnerOf[a] \in Owners
  BY DEF StoreAssumption
<1>3. \A t \in Owners : HoldingOf(t)' = IF t = OwnerOf[a] THEN HoldingOf(t) \ {a} ELSE HoldingOf(t)
  BY <1>1 DEF HoldingOf
<1>4. a \in HoldingOf(OwnerOf[a])
  BY <1>1 DEF HoldingOf
<1>5. Cardinality(Holding') = Cardinality(Holding) - 1
  BY <1>1, PermitsCounted, Counted
<1>6. \A t \in Owners : Cardinality(HoldingOf(t)') = IF t = OwnerOf[a] THEN Cardinality(HoldingOf(t)) - 1
                                                       ELSE Cardinality(HoldingOf(t))
  BY <1>2, <1>3, <1>4, PermitsCounted, Counted
<1>7. staged' = [global |-> staged.global - 1, tenant |-> [staged.tenant EXCEPT ![OwnerOf[a]] = @ - 1]]
  BY DEF PermitsAre, DropStagingPermit
<1>8. staged'.tenant = [t \in Owners |-> Cardinality(HoldingOf(t)')]
  BY <1>2, <1>6, <1>7 DEF PermitsAre
<1> QED
  BY <1>5, <1>7, <1>8, PermitsCounted DEF PermitsAre

\* A request that gets both permits holds them; one refused by its tenant's limit holds none.
LEMMA PermitTaken ==
    ASSUME StoreAssumption, StoreTypes, PermitsAre, NEW a \in Artifacts, ParseMultipart(a) PROVE PermitsAre'
<1> DEFINE t0 == OwnerOf[a]
<1>1. t0 \in Owners /\ upload[a] = "none"
  BY DEF StoreAssumption, ParseMultipart
<1>2. CASE ~(staged.tenant[t0] < MaxTenantStaged)
  <2>1. staged' = staged /\ upload' = [upload EXCEPT ![a] = "ended"]
    BY <1>2 DEF ParseMultipart, AcquireStagingPermit
  <2> QED
    BY <1>1, <2>1, PermitsRest DEF StoreTypes
<1>3. CASE staged.tenant[t0] < MaxTenantStaged
  <2>1. upload' = [upload EXCEPT ![a] = "parsing"]
    BY <1>3 DEF ParseMultipart
  <2>2. Holding' = Holding \cup {a} /\ a \notin Holding
    BY <1>1, <2>1 DEF Holding, StoreTypes
  <2>3. \A t \in Owners : HoldingOf(t)' = IF t = t0 THEN HoldingOf(t) \cup {a} ELSE HoldingOf(t)
    BY <2>2 DEF HoldingOf
  <2>4. a \notin HoldingOf(t0)
    BY <2>2 DEF HoldingOf
  <2>5. Cardinality(Holding') = Cardinality(Holding) + 1
    BY <2>2, PermitsCounted, Counted
  <2>6. \A t \in Owners : Cardinality(HoldingOf(t)') = IF t = t0 THEN Cardinality(HoldingOf(t)) + 1
                                                         ELSE Cardinality(HoldingOf(t))
    BY <1>1, <2>3, <2>4, PermitsCounted, Counted
  <2>7. staged' = [global |-> staged.global + 1, tenant |-> [staged.tenant EXCEPT ![t0] = @ + 1]]
    BY <1>3 DEF PermitsAre, ParseMultipart, AcquireStagingPermit
  <2>8. staged'.tenant = [t \in Owners |-> Cardinality(HoldingOf(t)')]
    BY <1>1, <2>6, <2>7 DEF PermitsAre
  <2> QED
    BY <2>5, <2>7, <2>8, PermitsCounted DEF PermitsAre
<1> QED
  BY <1>2, <1>3

LEMMA PermitsStep == ASSUME StoreAssumption, StoreTypes, PermitsAre, [StoreNext]_storeVars PROVE PermitsAre'
<1>1. ASSUME UNCHANGED <<upload, staged>> PROVE PermitsAre'
  BY <1>1, PermitsRest
<1>2. CASE UNCHANGED storeVars
  BY <1>1, <1>2 DEF storeVars
<1>3. ASSUME NEW a \in Artifacts, RefuseUpload(a) \/ ReleaseReservation(a) \/ UploadDropped(a) PROVE PermitsAre'
  <2>1. /\ upload[a] \notin {"none", "ended"}
        /\ upload' = [upload EXCEPT ![a] = "ended"] /\ staged' = DropStagingPermit(a)
    BY <1>3 DEF RefuseUpload, ReleaseReservation, UploadDropped
  <2> QED
    BY <2>1, PermitDropped
<1>4. ASSUME NEW a \in Artifacts, ReserveCheck(a) PROVE PermitsAre'
  <2>1. CASE upload' = [upload EXCEPT ![a] = "checked"] /\ UNCHANGED staged
    BY <1>4, <2>1, PermitsRest DEF ReserveCheck, StoreTypes
  <2>2. CASE upload' = [upload EXCEPT ![a] = "ended"] /\ staged' = DropStagingPermit(a)
    BY <1>4, <2>2, PermitDropped DEF ReserveCheck
  <2> QED
    BY <1>4, <2>1, <2>2 DEF ReserveCheck
<1>5. ASSUME NEW a \in Artifacts, CompleteUpload(a) PROVE PermitsAre'
  <2>1. CASE upload' = [upload EXCEPT ![a] = "undo"] /\ UNCHANGED staged
    BY <1>5, <2>1, PermitsRest DEF CompleteUpload, StoreTypes
  <2>2. CASE upload' = [upload EXCEPT ![a] = "ended"] /\ staged' = DropStagingPermit(a)
    BY <1>5, <2>2, PermitDropped DEF CompleteUpload
  <2> QED
    BY <1>5, <2>1, <2>2 DEF CompleteUpload
<1>6. ASSUME NEW a \in Artifacts,
             StageFileField(a) \/ ReserveArtifactQuota(a) \/ PutArtifact(a) \/ PutFails(a)
      PROVE  PermitsAre'
  <2>1. /\ UNCHANGED staged
        /\ \A b \in Artifacts : upload'[b] \in {"none", "ended"} <=> upload[b] \in {"none", "ended"}
    BY <1>6 DEF StageFileField, ReserveArtifactQuota, PutArtifact, PutFails, StoreTypes
  <2> QED
    BY <2>1, PermitsRest
<1>7. ASSUME NEW a \in Artifacts, ReservationExpires(a) \/ LeaseLapses(a) \/ LeaseOutlived(a) PROVE PermitsAre'
  BY <1>1, <1>7 DEF ReservationExpires, LeaseLapses, LeaseOutlived
<1>8. CASE ReapExpiredReservations
  BY <1>1, <1>8 DEF ReapExpiredReservations
<1>9. CASE \/ \E j \in Jobs : (\E a \in Artifacts : CopyInsert(j, a)) \/ CopyCommit(j) \/ JobFinishes(j)
           \/ ClearJobs \/ LockedArtifacts \/ ArtifactReferences \/ CleanupSnapshot \/ DeleteRows
  BY <1>1, <1>9 DEF CopyInsert, CopyCommit, JobFinishes, ClearJobs, LockedArtifacts, ArtifactReferences,
                    CleanupSnapshot, DeleteRows
<1>10. ASSUME NEW d \in Drainers,
              DrainStep(d) \/ DrainerDies(d) \/ \E a \in Artifacts : UpdateDeletionFailure(d, a)
       PROVE  PermitsAre'
  BY <1>1, <1>10 DEF DrainStep, ClaimDeletions, DeleteArtifact, FinalizeDeletion, DrainerDies,
         UpdateDeletionFailure
<1> QED
  BY <1>2, <1>3, <1>4, <1>5, <1>6, <1>7, <1>8, <1>9, <1>10, PermitTaken DEF StoreNext


-----------------------------------------------------------------------------
(* The invariant and what it says. *)

LEMMA StoreInitially == ASSUME StoreAssumption, StoreInit PROVE StoreInv
<1> USE DEF StoreInit
<1>1. StoreTypes
  <2>1. (CHOOSE a \in Artifacts : TRUE) \in Artifacts
    BY DEF StoreAssumption
  <2>2. job \in [Jobs -> JobType]
    BY <2>1 DEF JobType
  <2>3. sweep \in SweepType /\ del \in [Artifacts -> DeletionType] /\ drain \in [Drainers -> DrainType]
    BY DEF NoSweep, NotQueued, SweepType, DeletionType, DrainType
  <2>4. failures \in 0..MaxFailures
    BY DEF StoreAssumption
  <2> QED
    BY <2>2, <2>3, <2>4 DEF StoreTypes, UploadStates
<1>2. Lives
  BY DEF Lives, LifeOf, Doomed, NotQueued, Early, Late
<1>3. SweepHolds
  BY DEF SweepHolds, NoSweep
<1>4. Cardinality({}) = 0
  BY FS_EmptySet
<1>5. QuotaHolds
  <2>1. Paying = {} /\ \A t \in Owners : PayingOf(t) = {}
    BY DEF Paying, PayingOf
  <2>2. {GlobalCount, CountLimit, GlobalBytes, ByteLimit} \subseteq Nat
    BY DEF StoreAssumption
  <2>3. quotaLock = {} /\ {a \in Artifacts : upload[a] = "checked"} = {}
    OBVIOUS
  <2>4. /\ Cardinality(Paying) <= GlobalCount /\ Bytes(Paying) <= GlobalBytes
        /\ \A t \in Owners : Cardinality(PayingOf(t)) <= CountLimit /\ Bytes(PayingOf(t)) <= ByteLimit
    <3> HIDE DEF StoreInit
    <3>1. 0 <= GlobalCount /\ 0 <= CountLimit /\ 0 <= GlobalBytes /\ 0 <= ByteLimit
      BY <2>2
    <3>2. BytesOf({}) = {}
      BY DEF BytesOf
    <3>3. Bytes({}) = 0
      BY <1>4, <3>2 DEF Bytes
    <3>4. /\ Cardinality(Paying) = 0 /\ \A t \in Owners : Cardinality(PayingOf(t)) = 0
          /\ Bytes(Paying) = 0 /\ \A t \in Owners : Bytes(PayingOf(t)) = 0
      BY <1>4, <2>1, <3>3
    <3> QED
      BY <3>1, <3>4
  <2> HIDE DEF StoreInit
  <2> QED
    BY <2>3, <2>4 DEF QuotaHolds
<1>6. PermitsAre
  <2>1. Holding = {} /\ \A t \in Owners : HoldingOf(t) = {}
    BY DEF Holding, HoldingOf
  <2> QED
    BY <1>4, <2>1 DEF PermitsAre
<1> QED
  BY <1>1, <1>2, <1>3, <1>5, <1>6 DEF StoreInv

LEMMA StoreStep == ASSUME StoreAssumption, StoreInv, [StoreNext]_storeVars PROVE StoreInv'
BY TypesStep, LivesStep, SweepStep, QuotaStep, PermitsStep DEF StoreInv

\* The invariant of uploads, reservations, objects, rows, references and deletions, for every
\* number of requests and drainers.
THEOREM StoreInvAlways == ASSUME StoreAssumption PROVE StoreSpec => []StoreInv
<1>1. StoreInit => StoreInv
  BY StoreInitially
<1>2. StoreInv /\ [StoreNext]_storeVars => StoreInv'
  BY StoreStep
<1> QED
  BY <1>1, <1>2, PTL DEF StoreSpec

\* Every variable keeps its type; in particular a permit that was never taken is never given back,
\* so the counts of staging.rs do not go below zero.
THEOREM StoreTypeCorrect == ASSUME StoreAssumption PROVE StoreSpec => []StoreTypeOK
<1>1. StoreInv => StoreTypeOK
  <2> SUFFICES ASSUME StoreInv PROVE StoreTypeOK
    OBVIOUS
  <2>1. staged = [global |-> Cardinality(Holding), tenant |-> [t \in Owners |-> Cardinality(HoldingOf(t))]]
    BY DEF StoreInv, PermitsAre
  <2>2. Cardinality(Holding) \in Nat /\ \A t \in Owners : Cardinality(HoldingOf(t)) \in Nat
    BY PermitsCounted DEF StoreInv
  <2>3. staged \in [global : Nat, tenant : [Owners -> Nat]]
    BY <2>1, <2>2
  <2> QED
    BY <2>3 DEF StoreInv, StoreTypes, StoreTypeOK, UploadStates, JobType, SweepType, DeletionType, DrainType
<1> QED
  BY <1>1, StoreInvAlways, PTL

\* The staging permits taken are exactly those of the requests under way, per process and per
\* tenant: refused and dropped uploads leave none behind.
THEOREM PermitsAreAccounted == ASSUME StoreAssumption PROVE StoreSpec => []PermitsAccounted
<1>1. StoreInv => PermitsAccounted
  BY PermitsCounted DEF StoreInv, PermitsAccounted, Holding, HoldingOf
<1> QED
  BY <1>1, StoreInvAlways, PTL

\* An artifact row has its object, and neither the queue nor a drainer is after it: complete() in
\* quota.rs finds no reservation that was reaped, however late it comes.
THEOREM RowsHaveObjects == ASSUME StoreAssumption PROVE StoreSpec => []RowHasObject
<1>1. StoreInv => RowHasObject
  BY DEF StoreInv, StoreTypes, Lives, LifeOf, Doomed, RowHasObject
<1> QED
  BY <1>1, StoreInvAlways, PTL

\* No stored object is forgotten: it has a row, a reservation to be reaped or a queued deletion,
\* wherever the request was dropped.
THEOREM NoObjectForgotten == ASSUME StoreAssumption PROVE StoreSpec => []NoOrphanObject
<1>1. StoreInv => NoOrphanObject
  BY DEF StoreInv, StoreTypes, Lives, LifeOf, NoOrphanObject
<1> QED
  BY <1>1, StoreInvAlways, PTL

\* The quotas of a tenant and of all, of artifacts and of bytes, hold however the checks and the
\* inserts of enforce_artifact_quota overlap.
THEOREM QuotasAreRespected == ASSUME StoreAssumption PROVE StoreSpec => []QuotaRespected
<1>1. StoreInv => QuotaRespected
  BY ChargedIsPaying DEF StoreInv, QuotaHolds, QuotaRespected
<1> QED
  BY <1>1, StoreInvAlways, PTL

\* Uploads, objects and rows together: what the run checks of them, for every number of requests.
THEOREM ArtifactsAreKept == ASSUME StoreAssumption PROVE StoreSpec => []ArtifactsKept
<1>1. StoreTypeOK /\ QuotaRespected /\ PermitsAccounted /\ RowHasObject /\ NoOrphanObject => ArtifactsKept
  BY DEF ArtifactsKept
<1> QED
  BY <1>1, StoreTypeCorrect, QuotasAreRespected, PermitsAreAccounted, RowsHaveObjects, NoObjectForgotten, PTL

\* A step that takes no unfinished job along.
KeepsUnfinished == \A j \in Jobs : job[j].state = "live" => job'[j].state # "none"

\* A clear takes no job along that is not finished: the cascade of the rows it deletes reaches only
\* the jobs it locked.  The retention cleanup, which takes no lock, is the exception.
THEOREM UnfinishedJobsKept == ASSUME StoreAssumption, ~Retention PROVE StoreSpec => UnfinishedJobKept
<1>1. ASSUME StoreInv, [StoreNext]_storeVars PROVE KeepsUnfinished
  <2> SUFFICES ASSUME NEW j \in Jobs, job[j].state = "live" PROVE job'[j].state # "none"
    BY DEF KeepsUnfinished
  <2> USE <1>1
  <2>1. job \in [Jobs -> JobType] /\ job[j] \in JobType
    BY DEF StoreInv, StoreTypes
  <2>2. CASE DeleteRows
    <3>1. \A a \in sweep.orphans : Committed(a) \subseteq sweep.jobs
      BY <2>2 DEF StoreInv, SweepHolds, DeleteRows
    <3>2. j \notin sweep.jobs
      BY DEF StoreInv, SweepHolds
    <3>3. j \in Committed(job[j].artifact)
      BY DEF Committed
    <3>4. job[j].artifact \notin sweep.orphans
      BY <3>1, <3>2, <3>3
    <3> QED
      BY <2>1, <2>2, <3>2, <3>4 DEF DeleteRows
  <2>3. ASSUME job' = job PROVE job'[j].state # "none"
    BY <2>3
  <2>4. ASSUME NEW k \in Jobs,
               CopyCommit(k) \/ JobFinishes(k) \/ \E a \in Artifacts : CopyInsert(k, a)
        PROVE  job'[j].state # "none"
    BY <2>1, <2>4 DEF CopyInsert, CopyCommit, JobFinishes, JobType
  <2>5. ASSUME NEW a \in Artifacts, CompleteUpload(a) PROVE job'[j].state # "none"
    BY <2>1, <2>5 DEF CompleteUpload, JobType
  <2>6. ASSUME NEW a \in Artifacts,
               \/ ParseMultipart(a) \/ StageFileField(a) \/ RefuseUpload(a) \/ ReserveCheck(a)
               \/ ReserveArtifactQuota(a) \/ ReservationExpires(a) \/ PutArtifact(a) \/ PutFails(a)
               \/ ReleaseReservation(a) \/ UploadDropped(a) \/ LeaseLapses(a) \/ LeaseOutlived(a)
        PROVE  job' = job
    BY <2>6 DEF ParseMultipart, StageFileField, RefuseUpload, ReserveCheck, ReserveArtifactQuota,
                ReservationExpires, PutArtifact, PutFails, ReleaseReservation, UploadDropped, LeaseLapses, LeaseOutlived
  <2>7. ASSUME NEW d \in Drainers,
               DrainStep(d) \/ DrainerDies(d) \/ \E a \in Artifacts : UpdateDeletionFailure(d, a)
        PROVE  job' = job
    BY <2>7 DEF DrainStep, ClaimDeletions, DeleteArtifact, FinalizeDeletion, DrainerDies,
           UpdateDeletionFailure
  <2>8. CASE ReapExpiredReservations \/ ClearJobs \/ LockedArtifacts \/ ArtifactReferences \/ CleanupSnapshot
             \/ UNCHANGED storeVars
    BY <2>3, <2>8 DEF ReapExpiredReservations, ClearJobs, LockedArtifacts, ArtifactReferences, CleanupSnapshot, storeVars
  <2> QED
    BY <2>2, <2>3, <2>4, <2>5, <2>6, <2>7, <2>8 DEF StoreNext
<1>2. UnfinishedJobKept <=> [][KeepsUnfinished]_storeVars
  BY DEF UnfinishedJobKept, KeepsUnfinished
<1> QED
  BY <1>1, <1>2, StoreInvAlways, PTL DEF StoreSpec
=============================================================================
