------------------------ MODULE ObservabilityCustody ------------------------
(***************************************************************************)
(* The custody store for observability signal sets: three directories of a *)
(* private root, changed under a lock file by processes that may be        *)
(* killed, meet I/O errors, or lose power between two system calls.        *)
(*                                                                         *)
(* vol is what the file system shows, dur what a directory held when it    *)
(* was last synced. After a power loss every unsynced change of a          *)
(* directory may or may not have happened. Record ids are 1, 2, ... in the *)
(* order in which a directory listing sorts them.                          *)
(***************************************************************************)
EXTENDS Naturals, FiniteSets

CONSTANTS Procs, MaxId,
          MaxRecords,   \* MAX_OBSERVABILITY_CUSTODY_RECORDS
          Retention,    \* OBSERVABILITY_CUSTODY_RETENTION_SECONDS
          MaxClock, MaxFaults, Nil

Ids == 1..MaxId
Dirs == {"objects", "records", "deletions"}

VARIABLES vol, dur,    \* directory -> ids under their final name
          left,        \* directories that hold an abandoned temporary file
          lock,        \* owner of .mutation-lock, or Nil
          op,          \* process -> the operation it is in, or Nil
          created,     \* id -> createdAt of its record
          bad,         \* files changed from outside: <<directory, id>>
          used,        \* history: ids drawn
          returned,    \* history: ids whose store reported success
          last,        \* history: the operation that ended last
          killed,      \* history: a process was killed or power was lost
          clock, faults

cusVars == <<vol, dur, left, lock, op, created, bad, used, returned, last, killed, clock, faults>>

----------------------------------------------------------------------------
(* Directories.                                                            *)

link(d, id) == [vol EXCEPT ![d] = @ \cup {id}]
unlinkSync(d, id) == [vol EXCEPT ![d] = @ \ {id}]
fsyncDirectory(d) == dur' = [dur EXCEPT ![d] = vol[d]]

\* A record or receipt file that is there and passes its validation.
loadArtifact(d, id) == id \in vol[d] /\ <<d, id>> \notin bad

\* A record that readCustodyRecord returns; every other one makes it throw.
Readable(id) == loadArtifact("records", id) /\ id \in vol["objects"] /\ <<"objects", id>> \notin bad

\* listArtifactIds throws when a temporary file is in the directory.
Listable(d) == d \notin left

----------------------------------------------------------------------------
(* Operations.                                                             *)

Enter(p, o) == op' = [op EXCEPT ![p] = o]
Goto(p, pc) == op' = [op EXCEPT ![p].pc = pc]
Throw(p, io) == op' = [op EXCEPT ![p].pc = "unlock", ![p].ok = FALSE, ![p].temp = Nil, ![p].io = @ \/ io]
At(p, pc) == op[p] # Nil /\ op[p].pc = pc
Op(kind, id, pc, todo) ==
  [kind |-> kind, id |-> id, pc |-> pc, todo |-> todo, temp |-> Nil, ok |-> TRUE, at |-> clock, io |-> FALSE]

files == <<vol, dur, left>>
rest == <<lock, created, bad, used, returned, last, killed, clock, faults>>

(* withMutationLock: openSync(.., "wx") throws when the file exists.       *)
storeObservabilitySignalSet(p) ==
  /\ op[p] = Nil /\ lock = Nil /\ Cardinality(used) < MaxId
  /\ \E id \in Ids \ used :
       /\ used' = used \cup {id} /\ created' = [created EXCEPT ![id] = clock]
       /\ Enter(p, Op("store", id, "list", {}))
  /\ lock' = p
  /\ UNCHANGED <<files, bad, returned, last, killed, clock, faults>>

deleteCustodyRecord(p) ==
  /\ op[p] = Nil /\ lock = Nil
  /\ \E id \in used : Enter(p, Op("delete", id, "read", {}))
  /\ lock' = p
  /\ UNCHANGED <<files, created, bad, used, returned, last, killed, clock, faults>>

sweepCustodyRoot(p) ==
  /\ op[p] = Nil /\ lock = Nil
  /\ Enter(p, Op("sweep", Nil, "scan", Nil))
  /\ lock' = p
  /\ UNCHANGED <<files, created, bad, used, returned, last, killed, clock, faults>>

\* A query takes no lock: it reads the record, then the object.
queryCustodyRecord(p) ==
  /\ op[p] = Nil
  /\ \E id \in vol["records"] \cup vol["deletions"] :
       Enter(p, [Op("query", id, "object", {}) EXCEPT
                   !.ok = loadArtifact("records", id), !.todo = id \in vol["deletions"]])
  /\ UNCHANGED <<files, rest>>

readCustodyRecord(p) ==
  /\ At(p, "object")
  /\ last' = [kind |-> "query", closed |-> op[p].todo, at |-> clock, calm |-> TRUE,
              ok |-> op[p].ok /\ op[p].id \in vol["objects"] /\ <<"objects", op[p].id>> \notin bad]
  /\ op' = [op EXCEPT ![p] = Nil]
  /\ UNCHANGED <<files, lock, created, bad, used, returned, killed, clock, faults>>

----------------------------------------------------------------------------
(* store, under the lock.                                                  *)

\* The bound, the identity, and the object under its temporary name.
List(p) ==
  /\ At(p, "list")
  /\ IF ~Listable("records") \/ Cardinality(vol["records"]) >= MaxRecords
     THEN Throw(p, FALSE) ELSE op' = [op EXCEPT ![p].pc = "objName", ![p].temp = "objects"]
  /\ UNCHANGED <<files, rest>>

publishObject(p) ==
  /\ At(p, "objName")
  /\ vol' = link("objects", op[p].id)
  /\ op' = [op EXCEPT ![p].pc = "objSync", ![p].temp = Nil]
  /\ UNCHANGED <<dur, left, rest>>

syncObject(p) ==
  /\ At(p, "objSync")
  /\ fsyncDirectory("objects")
  /\ op' = [op EXCEPT ![p].pc = "recName", ![p].temp = "records"]
  /\ UNCHANGED <<vol, left, rest>>

publishRecord(p) ==
  /\ At(p, "recName")
  /\ vol' = link("records", op[p].id)
  /\ op' = [op EXCEPT ![p].pc = "recSync", ![p].temp = Nil]
  /\ UNCHANGED <<dur, left, rest>>

\* Mutant: the store reports success before its record is synced.
syncRecordLater(p) ==
  /\ At(p, "recSync")
  /\ Goto(p, "unlock")
  /\ UNCHANGED <<files, rest>>

syncRecord(p) ==
  /\ At(p, "recSync")
  /\ fsyncDirectory("records")
  /\ Goto(p, "unlock")
  /\ UNCHANGED <<vol, left, rest>>

(* The record could not be written: the object is removed and the          *)
(* directory synced.                                                       *)
removeObject(p) ==
  /\ At(p, "undo")
  /\ vol' = unlinkSync("objects", op[p].id)
  /\ dur' = [dur EXCEPT !["objects"] = vol'["objects"]]
  /\ Throw(p, FALSE)
  /\ UNCHANGED <<left, rest>>

----------------------------------------------------------------------------
(* deleteUnlocked.                                                         *)

\* Checks, and the receipt under its temporary name.
readForDelete(p) ==
  /\ At(p, "read")
  /\ IF /\ Readable(op[p].id) /\ op[p].at >= created[op[p].id]
        /\ op[p].kind = "sweep" => op[p].at >= created[op[p].id] + Retention
        /\ op[p].id \notin vol["deletions"]
     THEN op' = [op EXCEPT ![p].pc = "unlink", ![p].temp = "deletions"]
     ELSE Throw(p, FALSE)
  /\ UNCHANGED <<files, rest>>

unlinkObject(p) ==
  /\ At(p, "unlink")
  /\ vol' = unlinkSync("objects", op[p].id)
  /\ Goto(p, "objGone")
  /\ UNCHANGED <<dur, left, rest>>

syncUnlink(p) ==
  /\ At(p, "objGone")
  /\ fsyncDirectory("objects")
  /\ Goto(p, "rcpName")
  /\ UNCHANGED <<vol, left, rest>>

publishReceipt(p) ==
  /\ At(p, "rcpName")
  /\ vol' = link("deletions", op[p].id)
  /\ op' = [op EXCEPT ![p].pc = "rcpSync", ![p].temp = Nil]
  /\ UNCHANGED <<dur, left, rest>>

syncReceipt(p) ==
  /\ At(p, "rcpSync")
  /\ fsyncDirectory("deletions")
  /\ Goto(p, "recUnlink")
  /\ UNCHANGED <<vol, left, rest>>

unlinkRecord(p) ==
  /\ At(p, "recUnlink")
  /\ vol' = unlinkSync("records", op[p].id)
  /\ Goto(p, "recGone")
  /\ UNCHANGED <<dur, left, rest>>

syncRecordGone(p) ==
  /\ At(p, "recGone")
  /\ fsyncDirectory("records")
  /\ Goto(p, IF op[p].kind = "sweep" THEN "scan" ELSE "unlock")
  /\ UNCHANGED <<vol, left, rest>>

(* The sweep lists the records once, then reads them in order; one that    *)
(* cannot be read ends it.                                                 *)
scan(p) ==
  /\ At(p, "scan")
  /\ IF op[p].todo = Nil
     THEN IF Listable("records") THEN op' = [op EXCEPT ![p].todo = vol["records"]] ELSE Throw(p, FALSE)
     ELSE IF op[p].todo = {} THEN Goto(p, "unlock")
     ELSE LET id == CHOOSE i \in op[p].todo : \A j \in op[p].todo : i <= j
          IN IF ~Readable(id) THEN Throw(p, FALSE)
             ELSE op' = [op EXCEPT ![p].todo = @ \ {id}, ![p].id = id,
                           ![p].pc = IF op[p].at >= created[id] + Retention THEN "read" ELSE "scan"]
  /\ UNCHANGED <<files, rest>>

----------------------------------------------------------------------------
Ended(p) ==
  [kind |-> op[p].kind, closed |-> FALSE, ok |-> op[p].ok, at |-> op[p].at, calm |-> ~op[p].io]

\* finally: the lock file is removed, whether or not the operation threw.
unlock(p) ==
  /\ At(p, "unlock")
  /\ lock' = Nil
  /\ op' = [op EXCEPT ![p] = Nil]
  /\ returned' = IF op[p].ok /\ op[p].kind = "store" THEN returned \cup {op[p].id} ELSE returned
  /\ last' = Ended(p)
  /\ UNCHANGED <<files, created, bad, used, killed, clock, faults>>

Step(p) ==
  \/ List(p) \/ publishObject(p) \/ syncObject(p) \/ publishRecord(p) \/ syncRecord(p) \/ removeObject(p)
  \/ readForDelete(p) \/ unlinkObject(p) \/ syncUnlink(p) \/ publishReceipt(p) \/ syncReceipt(p)
  \/ unlinkRecord(p) \/ syncRecordGone(p) \/ scan(p) \/ unlock(p) \/ readCustodyRecord(p)

----------------------------------------------------------------------------
(* Faults.                                                                 *)

Fault == faults < MaxFaults /\ faults' = faults + 1

(* A system call of the step fails: what its catch clauses undo.           *)
ioError(p) ==
  /\ Fault /\ op[p] # Nil
  /\ \/ /\ op[p].pc \in {"objName", "objSync", "unlink"}    \* the temporary file is removed
        /\ Throw(p, TRUE) /\ left' = left
     \/ /\ op[p].pc \in {"recName", "recSync"}
        /\ op' = [op EXCEPT ![p].pc = "undo", ![p].temp = Nil, ![p].io = TRUE] /\ left' = left
     \/ /\ op[p].pc \in {"objGone", "rcpName"}
        /\ Throw(p, TRUE) /\ left' = left \cup {"deletions"}
     \/ /\ op[p].pc \in {"rcpSync", "recUnlink", "recGone"}
        /\ Throw(p, TRUE) /\ left' = left
  /\ UNCHANGED <<vol, dur, lock, created, bad, used, returned, last, killed, clock>>

\* The process is killed: the lock file and its temporary file stay.
kill(p) ==
  /\ Fault /\ killed' = TRUE /\ op[p] # Nil
  /\ op' = [op EXCEPT ![p] = Nil]
  /\ left' = IF op[p].temp # Nil THEN left \cup {op[p].temp} ELSE left
  /\ UNCHANGED <<vol, dur, lock, created, bad, used, returned, last, clock>>

Unsynced(d) == (vol[d] \ dur[d]) \cup (dur[d] \ vol[d])

powerLoss ==
  /\ Fault /\ killed' = TRUE /\ \E p \in Procs : op[p] # Nil
  /\ \E flips \in [Dirs -> SUBSET Ids] :
       /\ \A d \in Dirs : flips[d] \subseteq Unsynced(d)
       /\ vol' = [d \in Dirs |-> (vol[d] \ flips[d]) \cup (flips[d] \cap dur[d])]
       /\ dur' = vol'
       \* a file keeps its temporary name when its renaming is lost
       /\ \E t \in SUBSET {d \in Dirs : \/ flips[d] \cap vol[d] # {}
                                     \/ \E p \in Procs : op[p] # Nil /\ op[p].temp = d} :
            left' = left \cup t
  /\ lock' \in {lock, Nil}
  /\ op' = [p \in Procs |-> Nil]
  /\ UNCHANGED <<created, bad, used, returned, last, clock>>

\* External: somebody else changes the bytes of a file.
tamper ==
  /\ Fault /\ \E d \in Dirs : \E id \in vol[d] : bad' = bad \cup {<<d, id>>}
  /\ UNCHANGED <<files, lock, op, created, used, returned, last, killed, clock>>

tick ==
  /\ clock < MaxClock /\ clock' = clock + 1
  /\ UNCHANGED <<files, lock, op, created, bad, used, returned, last, killed, faults>>

----------------------------------------------------------------------------
CusInit ==
  /\ vol = [d \in Dirs |-> {}] /\ dur = vol /\ left = {} /\ lock = Nil
  /\ op = [p \in Procs |-> Nil] /\ created = [i \in Ids |-> 0] /\ bad = {}
  /\ used = {} /\ returned = {} /\ last = Nil /\ killed = FALSE /\ clock = 0 /\ faults = 0

Begin(p) ==
  \/ storeObservabilitySignalSet(p) \/ deleteCustodyRecord(p) \/ sweepCustodyRoot(p) \/ queryCustodyRecord(p)

CusNext ==
  \/ \E p \in Procs : Begin(p) \/ Step(p) \/ ioError(p) \/ kill(p)
  \/ powerLoss \/ tamper \/ tick

\* A process that is not killed goes on; nothing makes it start or fail.
CusFairness == \A p \in Procs : WF_cusVars(Step(p))

CusSpec == CusInit /\ [][CusNext]_cusVars /\ CusFairness

----------------------------------------------------------------------------
CusTypeOK ==
  /\ vol \in [Dirs -> SUBSET Ids] /\ dur \in [Dirs -> SUBSET Ids]
  /\ left \subseteq Dirs /\ lock \in Procs \cup {Nil}
  /\ clock \in 0..MaxClock /\ faults \in 0..MaxFaults
  /\ returned \subseteq used /\ Cardinality(vol["records"]) <= MaxId

\* The audit reports no issue.
auditCustodyRoot ==
  /\ lock = Nil /\ left = {}
  /\ Cardinality(vol["records"]) <= MaxRecords
  /\ \A id \in vol["records"] : id \notin vol["deletions"] /\ Readable(id)
  /\ vol["objects"] \subseteq vol["records"]
  /\ \A id \in vol["deletions"] :
       loadArtifact("deletions", id) /\ id \notin vol["records"] \cup vol["objects"]

Quiet == \A p \in Procs : op[p] = Nil

(* What the store said it keeps is live or has a deletion receipt, after   *)
(* any kill, I/O error or loss of power: nothing vanishes in silence.      *)
NothingLostInSilence ==
  \A id \in returned : id \in vol["records"] \cup vol["deletions"]

(* A deletion receipt claims that the object is absent, and it is: also    *)
(* when power is lost between any two steps of the deletion.               *)
ReceiptTruthful == vol["deletions"] \cap vol["objects"] = {}

(* The number of live records, those without a receipt, is bounded,        *)
(* whoever stores at the same time.                                        *)
LiveRecordsBounded == Cardinality(vol["records"] \ vol["deletions"]) <= MaxRecords

(* When no operation is under way and the audit is content, every set      *)
(* that was stored is either live and intact or deleted with its object    *)
(* gone, and no bytes lie about without a record.                          *)
AuditFindsEverything ==
  Quiet /\ auditCustodyRoot =>
    /\ \A id \in returned :
         \/ {d \in Dirs : id \in vol[d]} = {"records", "objects"}
         \/ {d \in Dirs : id \in vol[d]} = {"deletions"}
    /\ \A id \in Ids \ vol["records"] : id \notin vol["objects"]
    /\ \A f \in bad : f[2] \notin vol[f[1]]

(* A query that began after the deletion receipt appeared answers nothing. *)
DeletedStaysClosed == last # Nil /\ last.kind = "query" /\ last.closed => ~last.ok

(* The lock file outlives its owner only if the owner was killed or power  *)
(* was lost: errors give it back.                                          *)
LockHasOwner == lock # Nil /\ ~killed => op[lock] # Nil

(* An operation under way.                                                 *)
Operating == \E p \in Procs : op[p] # Nil
============================================================================
