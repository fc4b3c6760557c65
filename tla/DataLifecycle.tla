--------------------------- MODULE DataLifecycle ---------------------------
(***************************************************************************)
(* Owner deletion, legal holds, the backup catalogue, the restore gate and *)
(* the retention sweep (packages/gateway/src/dataLifecycle.ts, and         *)
(* deleteUserData of accountData.ts).                                      *)
(*                                                                         *)
(* Time is counted in days; the 15-minute lease of a backup deletion is    *)
(* the predicate `stale'.  A serializable transaction that others cannot   *)
(* tell from an atomic one is one action.  Owner deletion and restore      *)
(* evaluation are split: their snapshot is taken by their first query,     *)
(* before they take the advisory locks of their subjects, so what they     *)
(* decide from may be older than the lock.  Transactions commit on the day *)
(* they begin, or not at all.                                              *)
(***************************************************************************)
EXTENDS Naturals, FiniteSets

CONSTANTS
    Users,           \* accounts
    Objects,         \* stored objects (object_blobs rows)
    Owner,           \* the account that owns each object
    Backups,         \* backup copies
    Runners,         \* processes that run deleteExpiredBackups
    HoldKeys,        \* legal_hold_events.hold_key
    Holdable,        \* the subjects that holds are placed on, and the backups whose
                     \* audit record (or restore test) one is placed on
    BackupMaxDays,   \* BACKUP_MAX_DAYS
    TombstoneDays,   \* TOMBSTONE_DAYS
    HoldMaxDays,     \* LEGAL_HOLD_MAX_DAYS
    AuditDays,       \* retention of lifecycle audit rows
    Horizon,         \* the last day of the model
    NoBackup         \* no evaluation or deletion is under way

Subjects == Users \cup Objects

ASSUME OwnerAssumption == Owner \in [Objects -> Users]
ASSUME DisjointAssumption == Users \cap Objects = {}
ASSUME HoldableAssumption == Holdable \subseteq Subjects \cup Backups
\* data_retention_policies: CHECK (tombstone_days > backup_max_days).
ASSUME WindowAssumption ==
    BackupMaxDays \in Nat /\ TombstoneDays \in Nat /\ BackupMaxDays < TombstoneDays
ASSUME DaysAssumption == HoldMaxDays \in Nat /\ AuditDays \in Nat /\ Horizon \in Nat
ASSUME NoBackupAssumption == NoBackup \notin Backups

VARIABLES
    now,
    account, payload,                     \* users rows; the objects in storage
    deletion, held,                       \* deleteUserData: where it is, what it saw
    tomb, deletedAt,                      \* deletion_tombstones
    hold,                                 \* the newest event of every hold chain
    catalog, copy, captured, deleteAfter, deletedOn, covers, stale,  \* backups
    evaluating, clear, verdict,           \* evaluateRestoreCandidate
    rpc, target                           \* deleteExpiredBackups

primaryVars == <<account, payload, deletion, held>>
tombVars == <<tomb, deletedAt>>
backupVars == <<catalog, copy, captured, deleteAfter, deletedOn, covers, stale>>
restoreVars == <<evaluating, clear, verdict>>
runnerVars == <<rpc, target>>
lifVars == <<now, primaryVars, tombVars, hold, backupVars, restoreVars, runnerVars>>

OwnerOf(s) == IF s \in Objects THEN Owner[s] ELSE s
SubjectsOf(u) == {s \in Subjects : OwnerOf(s) = u}
Gone(s) == account[OwnerOf(s)] = "deleted"

\* "uncatalogued": a copy the provider made and nobody has registered, or
\* whose catalogue row has been purged.
CatalogStates == {"none", "uncatalogued", "available", "deleting",
                  "delete-failed", "deleted"}
Catalogued(b) == catalog[b] \in {"available", "deleting", "delete-failed", "deleted"}

\* "returned": put back through a presigned URL after a deletion had removed it.
PayloadStates == {"stored", "removed", "returned"}

HoldTypes == [action : {"none", "place", "release"}, expires : Nat, at : Nat]

LifTypeOK ==
    /\ now \in Nat
    /\ account \in [Users -> {"present", "deleted"}]
    /\ payload \in [Objects -> PayloadStates]
    /\ deletion \in [Users -> {"idle", "begun", "purging"}]
    /\ held \in [Users -> BOOLEAN]
    /\ tomb \in [Subjects -> {"none", "open", "done"}]
    /\ deletedAt \in [Subjects -> Nat]
    /\ hold \in [Holdable -> [HoldKeys -> HoldTypes]]
    /\ catalog \in [Backups -> CatalogStates]
    /\ copy \in [Backups -> BOOLEAN]
    /\ captured \in [Backups -> Nat]
    /\ deleteAfter \in [Backups -> Nat]
    /\ deletedOn \in [Backups -> Nat]
    /\ covers \in [Backups -> SUBSET Subjects]
    /\ stale \in [Backups -> BOOLEAN]
    /\ evaluating \in Backups \cup {NoBackup}
    /\ clear \in BOOLEAN
    /\ verdict \in [Backups -> {"none", "eligible", "blocked"}]
    /\ rpc \in [Runners -> {"idle", "claimed", "removed", "failed"}]
    /\ target \in [Runners -> Backups \cup {NoBackup}]
    /\ \A r \in Runners : rpc[r] # "idle" => target[r] \in Backups

LifInit ==
    /\ now = 0
    /\ account = [u \in Users |-> "present"]
    /\ payload = [o \in Objects |-> "stored"]
    /\ deletion = [u \in Users |-> "idle"]
    /\ held = [u \in Users |-> FALSE]
    /\ tomb = [s \in Subjects |-> "none"]
    /\ deletedAt = [s \in Subjects |-> 0]
    /\ hold = [s \in Holdable |->
                 [k \in HoldKeys |-> [action |-> "none", expires |-> 0, at |-> 0]]]
    /\ catalog = [b \in Backups |-> "none"]
    /\ copy = [b \in Backups |-> FALSE]
    /\ captured = [b \in Backups |-> 0]
    /\ deleteAfter = [b \in Backups |-> 0]
    /\ deletedOn = [b \in Backups |-> 0]
    /\ covers = [b \in Backups |-> {}]
    /\ stale = [b \in Backups |-> FALSE]
    /\ evaluating = NoBackup
    /\ clear = FALSE
    /\ verdict = [b \in Backups |-> "none"]
    /\ rpc = [r \in Runners |-> "idle"]
    /\ target = [r \in Runners |-> NoBackup]

\* The advisory lock of subject s is held by an owner deletion.
Locked(s) == deletion[OwnerOf(s)] = "purging"

-----------------------------------------------------------------------------
(* recordLegalHold, activeLegalHolds *)

\* Mutant of HoldActive: only holds on the account itself are looked up.
HoldActiveUserOnly(s) ==
    s \in Holdable \cap Users /\ \E k \in HoldKeys : /\ hold[s][k].action = "place"
                                                     /\ hold[s][k].expires > now

HoldActive(s) ==
    s \in Holdable /\ \E k \in HoldKeys : /\ hold[s][k].action = "place"
                                          /\ hold[s][k].expires > now

PlaceHold(s, k, e) ==
    /\ s \in Subjects => ~Locked(s)
    /\ e > now /\ e <= now + HoldMaxDays
    /\ hold' = [hold EXCEPT ![s][k] = [action |-> "place", expires |-> e, at |-> now]]
    /\ UNCHANGED <<now, primaryVars, tombVars, backupVars, restoreVars, runnerVars>>

\* A release repeats the placement's expiry, which must still lie ahead.
ReleaseHold(s, k) ==
    /\ s \in Subjects => ~Locked(s)
    /\ hold[s][k].action = "place" /\ hold[s][k].expires > now
    /\ hold' = [hold EXCEPT ![s][k] =
                  [action |-> "release", expires |-> @.expires, at |-> now]]
    /\ UNCHANGED <<now, primaryVars, tombVars, backupVars, restoreVars, runnerVars>>

-----------------------------------------------------------------------------
(* deleteUserData, prepareAccountDeletionLifecycle *)

\* The transaction's first query: whatever it reads later, it reads from here.
BeginDeletion(u) ==
    /\ account[u] = "present" /\ deletion[u] = "idle"
    /\ now + TombstoneDays <= Horizon
    /\ deletion' = [deletion EXCEPT ![u] = "begun"]
    /\ held' = [held EXCEPT ![u] = \E s \in SubjectsOf(u) : HoldActive(s)]
    /\ UNCHANGED <<now, account, payload, tombVars, hold, backupVars, restoreVars,
                   runnerVars>>

\* The subject locks are taken, then the holds of the snapshot are checked.  What is
\* in storage as the purge begins, put back or not, is the purge's to remove.
LockSubjects(u) ==
    /\ deletion[u] = "begun"
    /\ deletion' = [deletion EXCEPT ![u] = IF held[u] THEN "idle" ELSE "purging"]
    /\ payload' = [o \in Objects |->
                     IF Owner[o] = u /\ ~held[u] /\ payload[o] = "returned"
                     THEN "stored" ELSE payload[o]]
    /\ UNCHANGED <<now, account, held, tombVars, hold, backupVars, restoreVars,
                   runnerVars>>

\* deleteObjects removes the payloads while the transaction is still open.
DeletePayload(u, o) ==
    /\ deletion[u] = "purging" /\ Owner[o] = u /\ payload[o] = "stored"
    /\ payload' = [payload EXCEPT ![o] = "removed"]
    /\ UNCHANGED <<now, account, deletion, held, tombVars, hold, backupVars,
                   restoreVars, runnerVars>>

\* A presigned PUT goes to storage alone, so nothing stops one from putting back what
\* a deletion has removed: while it runs, after it rolled back, or, for a URL signed
\* before the account was gone and good for an hour, on that day or past its midnight.
PutThroughUrl(o) ==
    /\ payload[o] = "removed"
    /\ Gone(o) => now <= deletedAt[o] + 1
    /\ payload' = [payload EXCEPT ![o] = "returned"]
    /\ UNCHANGED <<now, account, deletion, held, tombVars, hold, backupVars,
                   restoreVars, runnerVars>>

\* Every deletion of the adapter has succeeded; storage is not looked at again.
PayloadsDeleted(u) == \A o \in Objects : Owner[o] = u => payload[o] # "stored"

\* Mutant of CommitDeletion: an object that could not be deleted is passed over.
CommitDeletionRegardless(u) ==
    /\ deletion[u] = "purging"
    /\ account' = [account EXCEPT ![u] = "deleted"]
    /\ deletion' = [deletion EXCEPT ![u] = "idle"]
    /\ tomb' = [s \in Subjects |-> IF s \in SubjectsOf(u) THEN "open" ELSE tomb[s]]
    /\ deletedAt' = [s \in Subjects |-> IF s \in SubjectsOf(u) THEN now ELSE deletedAt[s]]
    /\ UNCHANGED <<now, payload, held, hold, backupVars, restoreVars, runnerVars>>

\* Rows purged, tombstones for the user and every object, account gone: one commit.
CommitDeletion(u) ==
    /\ deletion[u] = "purging"
    /\ PayloadsDeleted(u)
    /\ account' = [account EXCEPT ![u] = "deleted"]
    /\ deletion' = [deletion EXCEPT ![u] = "idle"]
    /\ tomb' = [s \in Subjects |-> IF s \in SubjectsOf(u) THEN "open" ELSE tomb[s]]
    /\ deletedAt' = [s \in Subjects |-> IF s \in SubjectsOf(u) THEN now ELSE deletedAt[s]]
    /\ UNCHANGED <<now, payload, held, hold, backupVars, restoreVars, runnerVars>>

\* An object cannot be deleted, serialization fails, or the gateway dies: the rows
\* are rolled back, the payloads already deleted are not.
RollBackDeletion(u) ==
    /\ deletion[u] = "purging"
    /\ deletion' = [deletion EXCEPT ![u] = "idle"]
    /\ UNCHANGED <<now, account, payload, held, tombVars, hold, backupVars,
                   restoreVars, runnerVars>>

-----------------------------------------------------------------------------
(* registerBackup, reconcileBackupSubjectsWithTombstones *)

\* External: the provider takes a copy of what is in primary storage.
CaptureBackup(b, S) ==
    /\ catalog[b] = "none"
    /\ S # {} /\ \A s \in S : ~Gone(s)
    /\ now + BackupMaxDays <= Horizon
    /\ catalog' = [catalog EXCEPT ![b] = "uncatalogued"]
    /\ copy' = [copy EXCEPT ![b] = TRUE]
    /\ captured' = [captured EXCEPT ![b] = now]
    /\ covers' = [covers EXCEPT ![b] = S]
    /\ UNCHANGED <<now, primaryVars, tombVars, hold, deleteAfter, deletedOn, stale,
                   restoreVars, runnerVars>>

\* A copy is refused that was captured after the deletion of one of its subjects, or
\* that outlives the tombstone of one.
Reconciles(b, d) ==
    \A s \in covers[b] : tomb[s] # "none" =>
        captured[b] <= deletedAt[s] /\ d <= deletedAt[s] + TombstoneDays

\* Mutant of Reopened: a late copy leaves finished tombstones finished.
ReopenedNot(b) == tomb

\* A copy that is not deleted reopens the tombstones of its subjects.
Reopened(b) ==
    [s \in Subjects |-> IF s \in covers[b] /\ tomb[s] = "done" THEN "open" ELSE tomb[s]]

\* Mutant of RetentionBound: the 30-day maximum is not enforced.
RetentionBoundNone(b, d) == d > captured[b]

RetentionBound(b, d) == d > captured[b] /\ d <= captured[b] + BackupMaxDays

RegisterBackup(b, d) ==
    /\ catalog[b] = "uncatalogued"
    /\ \A s \in covers[b] : ~Locked(s)
    /\ RetentionBound(b, d)
    /\ Reconciles(b, d)
    /\ catalog' = [catalog EXCEPT ![b] = "available"]
    /\ deleteAfter' = [deleteAfter EXCEPT ![b] = d]
    /\ tomb' = Reopened(b)
    /\ UNCHANGED <<now, primaryVars, deletedAt, hold, copy, captured, deletedOn, covers,
                   stale, restoreVars, runnerVars>>

\* A repeated registration with the same metadata only reconciles again.
RegisterAgain(b) ==
    /\ Catalogued(b)
    /\ \A s \in covers[b] : ~Locked(s)
    /\ Reconciles(b, deleteAfter[b])
    /\ tomb' = IF catalog[b] = "deleted" THEN tomb ELSE Reopened(b)
    /\ UNCHANGED <<now, primaryVars, deletedAt, hold, backupVars, restoreVars, runnerVars>>

-----------------------------------------------------------------------------
(* evaluateRestoreCandidate *)

Restorable(b) == catalog[b] = "available" /\ deleteAfter[b] > now

\* An active deletion tombstone.
Suppressed(s) == tomb[s] # "none" /\ deletedAt[s] + TombstoneDays > now

\* The first query takes the snapshot: tombstones are joined as of this moment.
BeginRestore(b) ==
    /\ evaluating = NoBackup
    /\ Restorable(b)
    /\ evaluating' = b
    /\ clear' = \A s \in covers[b] : ~Suppressed(s)
    /\ UNCHANGED <<now, primaryVars, tombVars, hold, backupVars, verdict, runnerVars>>

\* Under the subject locks and the row lock, which fails if the row has changed.
CommitRestore ==
    /\ evaluating # NoBackup
    /\ \A s \in covers[evaluating] : ~Locked(s)
    /\ verdict' = IF catalog[evaluating] = "available"
                  THEN [verdict EXCEPT ![evaluating] =
                          IF clear THEN "eligible" ELSE "blocked"]
                  ELSE verdict
    /\ evaluating' = NoBackup
    /\ clear' = FALSE
    /\ UNCHANGED <<now, primaryVars, tombVars, hold, backupVars, runnerVars>>

-----------------------------------------------------------------------------
(* deleteExpiredBackups *)

\* Mutant of ClaimBackup: a claim that was abandoned is never taken over.
ClaimBackupOnce(r, b) ==
    /\ rpc[r] = "idle"
    /\ deleteAfter[b] <= now
    /\ catalog[b] \in {"available", "delete-failed"}
    /\ catalog' = [catalog EXCEPT ![b] = "deleting"]
    /\ stale' \in {[stale EXCEPT ![b] = FALSE], [stale EXCEPT ![b] = TRUE]}
    /\ rpc' = [rpc EXCEPT ![r] = "claimed"]
    /\ target' = [target EXCEPT ![r] = b]
    /\ UNCHANGED <<now, primaryVars, tombVars, hold, copy, captured, deleteAfter,
                   deletedOn, covers, restoreVars>>

\* updated_at is the time the runner started, not the time of this claim, so the
\* lease of a long run may be stale as soon as it is taken.
ClaimBackup(r, b) ==
    /\ rpc[r] = "idle"
    /\ deleteAfter[b] <= now
    /\ \/ catalog[b] \in {"available", "delete-failed"}
       \/ catalog[b] = "deleting" /\ stale[b]
    /\ catalog' = [catalog EXCEPT ![b] = "deleting"]
    /\ stale' \in {[stale EXCEPT ![b] = FALSE], [stale EXCEPT ![b] = TRUE]}
    /\ rpc' = [rpc EXCEPT ![r] = "claimed"]
    /\ target' = [target EXCEPT ![r] = b]
    /\ UNCHANGED <<now, primaryVars, tombVars, hold, copy, captured, deleteAfter,
                   deletedOn, covers, restoreVars>>

\* Mutant of DeleteCopy: an adapter error counts as a deletion.
DeleteCopyUnchecked(r) ==
    /\ rpc[r] = "claimed"
    /\ copy' \in {copy, [copy EXCEPT ![target[r]] = FALSE]}
    /\ rpc' = [rpc EXCEPT ![r] = "removed"]
    /\ UNCHANGED <<now, primaryVars, tombVars, hold, catalog, captured, deleteAfter,
                   deletedOn, covers, stale, restoreVars, target>>

\* The provider's deletion adapter succeeds ...
DeleteCopy(r) ==
    /\ rpc[r] = "claimed"
    /\ copy' = [copy EXCEPT ![target[r]] = FALSE]
    /\ rpc' = [rpc EXCEPT ![r] = "removed"]
    /\ UNCHANGED <<now, primaryVars, tombVars, hold, catalog, captured, deleteAfter,
                   deletedOn, covers, stale, restoreVars, target>>

\* ... or raises, the copy deleted or not; so may the transaction that follows.
DeletionRaises(r) ==
    /\ \/ rpc[r] = "claimed" /\ copy' \in {copy, [copy EXCEPT ![target[r]] = FALSE]}
       \/ rpc[r] = "removed" /\ UNCHANGED copy
    /\ rpc' = [rpc EXCEPT ![r] = "failed"]
    /\ UNCHANGED <<now, primaryVars, tombVars, hold, catalog, captured, deleteAfter,
                   deletedOn, covers, stale, restoreVars, target>>

\* Every catalogued copy of s is deleted once the catalogue is c.
CopiesDeleted(s, c) ==
    \A b \in Backups :
        s \in covers[b] => c[b] \notin {"available", "deleting", "delete-failed"}

\* Mutant of Idle: the runner drops the backup and goes on working.
IdleTargetOnly(r) ==
    /\ target' = [target EXCEPT ![r] = NoBackup]
    /\ UNCHANGED rpc

\* On to the next candidate.
Idle(r) ==
    /\ rpc' = [rpc EXCEPT ![r] = "idle"]
    /\ target' = [target EXCEPT ![r] = NoBackup]

CommitDeleted(r) ==
    LET b == target[r] IN
    /\ rpc[r] = "removed"
    /\ catalog' = [catalog EXCEPT ![b] = IF @ = "deleting" THEN "deleted" ELSE @]
    /\ deletedOn' = [deletedOn EXCEPT ![b] = IF catalog[b] = "deleting" THEN now ELSE @]
    /\ tomb' = [s \in Subjects |->
                  IF tomb[s] = "open" /\ s \in covers[b] /\ CopiesDeleted(s, catalog')
                  THEN "done" ELSE tomb[s]]
    /\ Idle(r)
    /\ UNCHANGED <<now, primaryVars, deletedAt, hold, copy, captured, deleteAfter, covers,
                   stale, restoreVars>>

RecordFailure(r) ==
    /\ rpc[r] = "failed"
    /\ catalog' = [catalog EXCEPT ![target[r]] = IF @ = "deleting" THEN "delete-failed" ELSE @]
    /\ Idle(r)
    /\ UNCHANGED <<now, primaryVars, tombVars, hold, copy, captured, deleteAfter, deletedOn,
                   covers, stale, restoreVars>>

CrashRunner(r) ==
    /\ rpc[r] # "idle"
    /\ Idle(r)
    /\ UNCHANGED <<now, primaryVars, tombVars, hold, backupVars, restoreVars>>

LeaseElapses(b) ==
    /\ catalog[b] = "deleting" /\ ~stale[b]
    /\ stale' = [stale EXCEPT ![b] = TRUE]
    /\ UNCHANGED <<now, primaryVars, tombVars, hold, catalog, copy, captured, deleteAfter,
                   deletedOn, covers, restoreVars, runnerVars>>

-----------------------------------------------------------------------------
(* runPrimaryRetentionSweep *)

\* Mutant of Purgeable: a tombstone is dropped at its expiry, finished or not.
PurgeableAtExpiry(s, t) == t[s] # "none" /\ deletedAt[s] + TombstoneDays <= now

Purgeable(s, t) == t[s] = "done" /\ deletedAt[s] + TombstoneDays <= now

\* Tombstones after the sweep has marked those whose copies are all deleted.
Finalized ==
    [s \in Subjects |->
        IF /\ tomb[s] = "open" /\ deletedAt[s] + BackupMaxDays <= now
           /\ CopiesDeleted(s, catalog)
        THEN "done" ELSE tomb[s]]

\* The executed sweep: aged hold chains, aged rows of deleted backups, finished
\* tombstones.  Its deletions in tables of other modules are not part of this state.
\* A restore test precedes the deletion of its copy, so it has aged when that has.
RetentionSweep ==
    /\ hold' = [s \in Holdable |-> [k \in HoldKeys |->
                  IF /\ hold[s][k].action # "none"
                     /\ hold[s][k].at + AuditDays <= now
                     /\ ~(hold[s][k].action = "place" /\ hold[s][k].expires > now)
                  THEN [action |-> "none", expires |-> 0, at |-> 0]
                  ELSE hold[s][k]]]
    /\ catalog' = [b \in Backups |->
                     IF /\ catalog[b] = "deleted" /\ deletedOn[b] + AuditDays <= now
                        /\ ~HoldActive(b)
                     THEN "uncatalogued" ELSE catalog[b]]
    /\ tomb' = [s \in Subjects |->
                  IF Purgeable(s, Finalized) THEN "none" ELSE Finalized[s]]
    /\ UNCHANGED <<now, primaryVars, deletedAt, copy, captured, deleteAfter, deletedOn,
                   covers, stale, restoreVars, runnerVars>>

\* Transactions are short: one that is open at midnight is one that fails.
NextDay ==
    /\ now < Horizon
    /\ now' = now + 1
    /\ deletion' = [u \in Users |-> "idle"]
    /\ evaluating' = NoBackup
    /\ clear' = FALSE
    /\ UNCHANGED <<account, payload, held, tombVars, hold, backupVars, verdict, runnerVars>>

-----------------------------------------------------------------------------
Days == 0..Horizon

RunnerStep(r) ==
    \/ DeleteCopy(r) \/ DeletionRaises(r) \/ CommitDeleted(r) \/ RecordFailure(r)

LifNext ==
    \/ \E s \in Holdable, k \in HoldKeys :
          ReleaseHold(s, k) \/ \E e \in Days : PlaceHold(s, k, e)
    \/ \E u \in Users :
          \/ BeginDeletion(u) \/ LockSubjects(u) \/ CommitDeletion(u)
          \/ RollBackDeletion(u)
          \/ \E o \in Objects : DeletePayload(u, o)
    \/ \E o \in Objects : PutThroughUrl(o)
    \/ \E b \in Backups :
          \/ \E S \in SUBSET Subjects : CaptureBackup(b, S)
          \/ \E d \in Days : RegisterBackup(b, d)
          \/ RegisterAgain(b) \/ BeginRestore(b) \/ LeaseElapses(b)
    \/ CommitRestore
    \/ \E r \in Runners :
          RunnerStep(r) \/ CrashRunner(r) \/ \E b \in Backups : ClaimBackup(r, b)
    \/ RetentionSweep
    \/ NextDay

LifSpec == LifInit /\ [][LifNext]_lifVars

\* Time passes, the runner and the sweep keep being invoked, and a deletion that is
\* attempted again and again is not refused by the provider for ever.
LifFairness ==
    /\ WF_lifVars(NextDay) /\ WF_lifVars(RetentionSweep)
    /\ \A b \in Backups : WF_lifVars(LeaseElapses(b))
    /\ \A r \in Runners :
          /\ WF_lifVars(RunnerStep(r))
          /\ SF_lifVars(DeleteCopy(r)) /\ SF_lifVars(CommitDeleted(r))
          /\ \A b \in Backups : SF_lifVars(ClaimBackup(r, b))

LifFairSpec == LifSpec /\ LifFairness
-----------------------------------------------------------------------------
(* Properties *)

\* DATA-LIFECYCLE section 1, "A pre-deletion backup must never resurrect a deleted
\* user or object": as long as the restore gate would let a copy through,
\* every deleted subject in it still has an active tombstone.
NoResurrection ==
    \A b \in Backups : Restorable(b) =>
        \A s \in covers[b] : Gone(s) => Suppressed(s)

\* Section 3.3, "marks tombstones backup-complete only when no non-deleted
\* catalogued copy remains", however late a copy is catalogued and
\* however many runners claim it.
BackupCompleteTruthful ==
    \A s \in Subjects : tomb[s] = "done" => CopiesDeleted(s, catalog)

\* "tombstones only after backup completion and the 45-day expiry": a tombstone
\* disappears only when its subject has no catalogued copy left.
TombstoneOutlivesCopies ==
    [][\A s \in Subjects : (tomb[s] # "none" /\ tomb'[s] = "none") =>
          CopiesDeleted(s, catalog) /\ deletedAt[s] + TombstoneDays <= now]_lifVars

\* A copy the catalogue calls deleted is deleted, although a runner whose lease was
\* taken over may finish, fail or die in any order with its successor.
DeletedCopyIsGone == \A b \in Backups : catalog[b] = "deleted" => ~copy[b]

\* What the receipt can promise, "primary/object completion" and suppression until
\* tombstoneExpiresAt: whatever an account had in storage as its last purge began is
\* removed, however many deletions of it failed half-way and whatever was put back
\* between them, so what a deleted account has there was put there through a URL
\* since; and each of its subjects keeps a tombstone until that day.
ReceiptTruthful ==
    \A u \in Users : account[u] = "deleted" =>
        /\ PayloadsDeleted(u)
        /\ \A s \in SubjectsOf(u) :
              tomb[s] # "none" \/ deletedAt[s] + TombstoneDays <= now

\* A hold on the account or on any of its objects that was recorded on an earlier
\* day, and not released, blocks the deletion: whatever is in force when
\* an account is purged was recorded while the purge was running.
EarlierHoldBlocks ==
    [][\A u \in Users : (account[u] = "present" /\ account'[u] = "deleted") =>
          \A s \in SubjectsOf(u) \cap Holdable, k \in HoldKeys :
              (hold[s][k].action = "place" /\ hold[s][k].expires > now)
                  => hold[s][k].at = now]_lifVars

\* Section 3.1, "concurrent hold/catalog/restore authority cannot race the purge": no
\* account is deleted while a recorded hold on it is in force.
NoPurgeUnderHold ==
    [][\A u \in Users : (account[u] = "present" /\ account'[u] = "deleted") =>
          \A s \in SubjectsOf(u) : ~HoldActive(s)]_lifVars

\* The same sentence for the restore gate: no copy is declared eligible when a
\* subject in it has already been deleted.
EligibleVerdictCurrent ==
    [][\A b \in Backups : (verdict'[b] = "eligible" /\ verdict[b] # "eligible") =>
          \A s \in covers[b] : ~Gone(s)]_lifVars

\* What is to happen in the end: an available copy is deleted, a tombstone dropped.
Available(b) == catalog[b] = "available"
CopyDeleted(b) == catalog[b] = "deleted"
Tombstoned(s) == tomb[s] # "none"
=============================================================================
