---------------------------- MODULE StorageProofs ----------------------------
(***************************************************************************)
(* Machine-checked safety of object uploads and of recorder archives, for  *)
(* any number of keys, payloads, plans, models and concurrent requests.    *)
(***************************************************************************)
EXTENDS RecorderArchive, TLAPS

-----------------------------------------------------------------------------
(* What the proofs assume of the constants *)

\* The length of a payload, the media type and the purpose the gateway's own writer
\* uses, the digest's own cache key, and an absent value that is none of the present.
UploadConstants ==
  /\ Enforces \in BOOLEAN
  /\ "policy-onnx" \in Purposes
  /\ PolicyType \in Types
  /\ \A c \in Contents : DigestKey[c] \in Keys
  /\ None \notin Contents /\ None \notin Keys
  /\ None \notin Rows /\ None \notin Objects

\* A materialization row and an admission row.
MatRow == [plan : Plans, status : {"staged", "materialized"}, err : BOOLEAN]
AdmissionRow == [model : Models, hash : {p.hash : p \in Plans}]

\* A plan names a payload for each role, with its key; it is a plan, never absent.
ArchiveConstants ==
  /\ UploadConstants
  /\ "recorder" \in Purposes
  /\ Len(Roles) \in Nat
  /\ \A p \in Plans : \A r \in {Roles[i] : i \in 1..Len(Roles)} :
        p.files[r] \in Contents /\ FileKey[<<r, p.files[r]>>] \in Keys
  /\ \A r \in {Roles[i] : i \in 1..Len(Roles)} : FileType[r] \in Types
  /\ None \notin Plans /\ None \notin MatRow /\ None \notin AdmissionRow

-----------------------------------------------------------------------------
(* The inductive invariant of the uploads *)

\* A store that checks what is put through a URL holds, under every object key, the
\* payload the key is named for, and reports its digest; another reports none.
StoreAsNamed ==
  \A o \in ObjectKeys : store[o] # None =>
    /\ store[o].sum = Sum(store[o].content)
    /\ Enforces => store[o].content = o[2]

\* An inspection taken at any time: the length is the reported payload's, where one is
\* reported at all.
InspectionSound(insp) ==
  /\ insp.sha = None <=> ~Enforces
  /\ Enforces => insp.size = SizeOf[insp.sha]

RequestsSound ==
  \A r \in Reqs :
    /\ req[r].pc # "idle" => req[r].key \in Keys
    /\ req[r].pc \in {"inspected", "read"} =>
         req[r].insp \in Inspections /\ InspectionSound(req[r].insp)
    /\ req[r].pc = "read" => req[r].decl \in Decls

\* A complete row declares its payload's true length where the store reports digests;
\* elsewhere it is one the gateway wrote.
CompleteRowsSound ==
  \A k \in Keys : blobs[k] # None /\ blobs[k].status = "complete" =>
    IF Enforces THEN blobs[k].decl.size = SizeOf[blobs[k].decl.sha]
    ELSE \E c \in Contents : k = DigestKey[c] /\ blobs[k] = PolicyRow(c)

\* The policy writer carries a payload; a deleted account has no row.
PolicyCarries == policy.pc = "stored" => policy.content \in Contents
DeletedIsEmpty == account = "deleted" => \A k \in Keys : blobs[k] = None

UploadInv ==
  /\ TypeOK
  /\ RowsNameTheirDigest
  /\ StoreAsNamed
  /\ RequestsSound
  /\ CompleteRowsSound
  /\ PolicyCarries
  /\ DeletedIsEmpty

-----------------------------------------------------------------------------
(* The inductive invariant of the archive *)

\* The rows and requests of the archive have their shape.
ArchiveShape ==
  /\ mat \in MatRow \cup {None}
  /\ comp \in [Completers -> [pc : {"idle", "next", "inspected", "bound"},
                              plan : Plans \cup {None}, i : 1..(Len(Roles) + 1),
                              insp : Inspections \cup {None}]]
  /\ adm \in [Admitters -> [pc : {"idle", "preflight", "streaming", "verified"},
                            plan : Plans \cup {None}, model : Models \cup {None}]]
  /\ models \in [Models -> [status : {"admitted", "draft"}, hash : Hashes]]
  /\ telemetry \in Nat

\* Under a recorder key the store holds the planned payload: the desktop sends nothing
\* else through a URL, and the gateway's own writer is not among the archive's steps.
FilesAsPlanned == \A o \in ObjectKeys : store[o] # None => store[o].content = o[2]

\* A row that was staged is gone only with its account.
RowLasts ==
  mat = None /\ account # "deleted" =>
    /\ \A c \in Completers : comp[c].pc = "idle"
    /\ \A a \in Admitters : adm[a].pc = "idle"

\* A completion works on the staged plan and inspects one of its files; one that is
\* past the binding has checked the manifest against the plan.
CompletersSound ==
  \A c \in Completers : comp[c].pc # "idle" =>
    /\ comp[c].plan \in Plans
    /\ mat # None => comp[c].plan = mat.plan
    /\ comp[c].pc = "inspected" => /\ comp[c].i \in 1..Len(Roles)
                                   /\ comp[c].insp \in Inspections
                                   /\ InspectionSound(comp[c].insp)
    /\ comp[c].pc = "bound" => verifyManifestReceiptBindings(comp[c].plan)

\* An admission request works on the materialized plan; one that is verified has
\* streamed payloads the verifier accepts.
AdmittersSound ==
  \A a \in Admitters : adm[a].pc # "idle" =>
    /\ adm[a].plan \in Plans /\ adm[a].model \in Models
    /\ mat # None => mat.status = "materialized" /\ adm[a].plan = mat.plan
    /\ adm[a].pc = "verified" => \A r \in RoleSet : adm[a].plan.files[r] \in Sound

\* A materialized row is bound to its manifest and shows no error.
MaterializedSound ==
  mat # None /\ mat.status = "materialized" =>
    verifyManifestReceiptBindings(mat.plan) /\ ~mat.err

\* What the invariant says beyond the uploads.
RowsInv ==
  /\ ArchiveShape
  /\ RowLasts
  /\ CompletersSound
  /\ AdmittersSound
  /\ MaterializedSound
  /\ AdmissionTruthful

ArchiveInv ==
  /\ UploadInv
  /\ FilesAsPlanned
  /\ policy = IdlePolicy
  /\ RowsInv

-----------------------------------------------------------------------------
(* Operators of the upload *)

\* An inspection of a stored object is sound.
LEMMA InspectSound ==
  ASSUME UploadConstants, NEW o \in Objects, o.sum = Sum(o.content)
  PROVE  Inspect(o) \in Inspections /\ InspectionSound(Inspect(o))
  BY DEF UploadConstants, Objects, Inspections, Inspect, InspectionSound, Sum, Sizes

\* The conditional UPDATE keeps what the row declares, and completes a row only on a
\* matching inspection; on the word of a store that reports no digest it completes none.
LEMMA VerifiedRow ==
  ASSUME UploadConstants, NEW row \in Rows \cup {None}, NEW insp \in Inspections,
         InspectionSound(insp), NEW d \in Decls
  PROVE  /\ Verified(row, insp, d) \in Rows \cup {None}
         /\ Verified(row, insp, d) = None <=> row = None
         /\ row # None => /\ Verified(row, insp, d).obj = row.obj
                          /\ Verified(row, insp, d).decl = row.decl
         /\ row # None /\ Verified(row, insp, d).status = "complete" =>
              \/ Verified(row, insp, d) = row
              \/ Enforces /\ row.decl.size = SizeOf[row.decl.sha]
<1>1. CASE row = None
  BY <1>1 DEF Verified
<1>2. CASE row # None /\ row.decl # d
  BY <1>2 DEF Verified, UploadConstants
<1>3. CASE row # None /\ row.decl = d /\ Matches(insp, d)
  <2>1. /\ Verified(row, insp, d) = [row EXCEPT !.status = "complete", !.err = None]
        /\ row \in Rows
    BY <1>3 DEF Verified
  <2>2. d.sha \in Contents /\ d.sha # None
    BY DEF Decls, UploadConstants
  <2>3. Enforces /\ d.size = SizeOf[d.sha]
    BY <1>3, <2>2 DEF Matches, InspectionSound, UploadConstants
  <2> QED
    BY <1>3, <2>1, <2>3 DEF Rows, UploadConstants
<1>4. CASE row # None /\ row.decl = d /\ ~Matches(insp, d)
  <2>1. /\ Verified(row, insp, d) = [row EXCEPT !.status = "staged", !.err = "mismatch"]
        /\ row \in Rows
    BY <1>4 DEF Verified
  <2> QED
    BY <1>4, <2>1 DEF Rows, UploadConstants
<1> QED
  BY <1>1, <1>2, <1>3, <1>4

\* A row registered for a declaration is new or the one found.
LEMMA DeclaredRow ==
  ASSUME UploadConstants, UploadInv, NEW k \in Keys, NEW p \in Purposes, NEW d \in Decls,
         blobs[k] # None => blobs[k].decl = d
  PROVE  /\ Declared(k, p, d) \in Rows /\ Declared(k, p, d) # None
         /\ Declared(k, p, d).decl = d
         /\ Declared(k, p, d).obj \in ObjectKeys /\ Declared(k, p, d).obj[2] = d.sha
         /\ \/ Declared(k, p, d) = blobs[k]
            \/ blobs[k] = None /\ Declared(k, p, d).status = "staged"
<1>1. CASE blobs[k] # None
  <2>1. Declared(k, p, d) = blobs[k] /\ blobs[k] \in Rows
    BY <1>1 DEF Declared, UploadInv, TypeOK
  <2> QED
    BY <1>1, <2>1 DEF UploadInv, RowsNameTheirDigest, Rows
<1>2. CASE blobs[k] = None
  <2>1. Declared(k, p, d) =
          [obj |-> <<p, d.sha>>, decl |-> d, status |-> "staged", err |-> None]
    BY <1>2 DEF Declared
  <2>2. d.sha \in Contents
    BY DEF Decls
  <2>3. <<p, d.sha>> \in ObjectKeys
    BY <2>2 DEF ObjectKeys
  <2>4. Declared(k, p, d) \in Rows
    BY <2>1, <2>3 DEF Rows
  <2> QED
    BY <1>2, <2>1, <2>3, <2>4 DEF UploadConstants
<1> QED
  BY <1>1, <1>2

\* The row the policy writer binds.
LEMMA PolicyRowShape ==
  ASSUME UploadConstants, NEW c \in Contents
  PROVE  /\ PolicyRow(c) \in Rows /\ PolicyRow(c) # None
         /\ PolicyRow(c).obj = <<"policy-onnx", c>> /\ PolicyRow(c).obj[2] = c
         /\ PolicyRow(c).decl.sha = c /\ PolicyRow(c).decl.size = SizeOf[c]
         /\ PolicyRow(c).status = "complete"
<1>1. <<"policy-onnx", c>> \in ObjectKeys
  BY DEF ObjectKeys, UploadConstants
<1>2. [sha |-> c, size |-> SizeOf[c], type |-> PolicyType] \in Decls
  BY DEF Decls, Sizes, UploadConstants
<1>3. PolicyRow(c) \in Rows
  BY <1>1, <1>2 DEF PolicyRow, Rows
<1> QED
  BY <1>3 DEF PolicyRow, UploadConstants

-----------------------------------------------------------------------------
(* The uploads' invariant, step by step *)

\* What the invariant says of one row.
RowSound(k, row) ==
  /\ row.obj[2] = row.decl.sha
  /\ row.status = "complete" =>
       IF Enforces THEN row.decl.size = SizeOf[row.decl.sha]
       ELSE \E c \in Contents : k = DigestKey[c] /\ row = PolicyRow(c)

LEMMA RowsAreSound ==
  ASSUME UploadInv, NEW k \in Keys, blobs[k] # None
  PROVE  RowSound(k, blobs[k]) /\ blobs[k] \in Rows /\ blobs[k].decl \in Decls
                               /\ blobs[k].obj \in ObjectKeys
  BY DEF UploadInv, TypeOK, RowsNameTheirDigest, CompleteRowsSound, RowSound, Rows

\* A step that changes rows and issues URLs: every new row must be sound, and none may
\* appear in a deleted account.
LEMMA RowsStep ==
  ASSUME UploadConstants, UploadInv,
         blobs' \in [Keys -> Rows \cup {None}],
         urls' \subseteq ObjectKeys \X Contents, \A u \in urls' : u[1][2] = u[2],
         \A k \in Keys : blobs'[k] # None => RowSound(k, blobs'[k]),
         account' = "deleted" => \A k \in Keys : blobs'[k] = None,
         account' \in {"open", "purging", "emptied", "deleted"},
         policy' = policy \/ policy' = IdlePolicy,
         req' = req \/ \E r \in Reqs : req' = [req EXCEPT ![r] = IdleReq],
         UNCHANGED store
  PROVE  UploadInv'
<1>1. TypeOK'
  <2>1. policy' \in [pc : {"idle", "stored"}, content : Contents \cup {None}]
    BY DEF UploadInv, TypeOK, IdlePolicy
  <2>2. req' \in [Reqs -> [pc : {"idle", "found", "inspected", "read"},
                          key : Keys \cup {None},
                          decl : Decls \cup {None},
                          insp : Inspections \cup {None}]]
    BY DEF UploadInv, TypeOK, IdleReq
  <2> QED
    BY <2>1, <2>2 DEF UploadInv, TypeOK
<1>2. RowsNameTheirDigest' /\ CompleteRowsSound'
  BY DEF RowsNameTheirDigest, CompleteRowsSound, RowSound
<1>3. StoreAsNamed' /\ RequestsSound'
  BY DEF UploadInv, StoreAsNamed, RequestsSound, IdleReq, TypeOK
<1>4. PolicyCarries'
  BY DEF UploadInv, PolicyCarries, IdlePolicy
<1>5. DeletedIsEmpty'
  BY DEF DeletedIsEmpty
<1> QED
  BY <1>1, <1>2, <1>3, <1>4, <1>5 DEF UploadInv

\* A step that changes the store only writes what the key names, reported as the store
\* reports, or removes.
LEMMA StoreStep ==
  ASSUME UploadConstants, UploadInv,
         store' \in [ObjectKeys -> Objects \cup {None}],
         \A o \in ObjectKeys : store'[o] # None =>
            \/ store'[o] = store[o]
            \/ store'[o].sum = Sum(store'[o].content) /\ (Enforces => store'[o].content = o[2]),
         account' = account \/ account' \in {"open", "purging", "emptied"},
         policy' \in [pc : {"idle", "stored"}, content : Contents \cup {None}],
         PolicyCarries',
         UNCHANGED <<blobs, urls, req>>
  PROVE  UploadInv'
<1>1. TypeOK'
  BY DEF UploadInv, TypeOK
<1>2. RowsNameTheirDigest' /\ CompleteRowsSound'
  BY DEF UploadInv, RowsNameTheirDigest, CompleteRowsSound
<1>3. StoreAsNamed'
  BY DEF UploadInv, StoreAsNamed
<1>4. RequestsSound'
  BY DEF UploadInv, RequestsSound
<1>5. DeletedIsEmpty'
  BY DEF UploadInv, DeletedIsEmpty
<1> QED
  BY <1>1, <1>2, <1>3, <1>4, <1>5 DEF UploadInv

\* A step of a completion request that writes no row.
LEMMA RequestStep ==
  ASSUME UploadConstants, UploadInv, NEW r \in Reqs, NEW q,
         req' = [req EXCEPT ![r] = q],
         q \in [pc : {"idle", "found", "inspected", "read"}, key : Keys \cup {None},
                decl : Decls \cup {None}, insp : Inspections \cup {None}],
         q.pc # "idle" => q.key \in Keys,
         q.pc \in {"inspected", "read"} => q.insp \in Inspections /\ InspectionSound(q.insp),
         q.pc = "read" => q.decl \in Decls,
         UNCHANGED <<blobs, store, urls, policy, account>>
  PROVE  UploadInv'
<1>1. TypeOK'
  BY DEF UploadInv, TypeOK
<1>2. RequestsSound'
  BY DEF UploadInv, TypeOK, RequestsSound
<1> QED
  BY <1>1, <1>2 DEF UploadInv, RowsNameTheirDigest, CompleteRowsSound, StoreAsNamed,
                    PolicyCarries, DeletedIsEmpty

LEMMA RegisterInv ==
  ASSUME UploadConstants, UploadInv, NEW k \in Keys, NEW p \in Purposes, NEW d \in Decls,
         registerObjectBlob(k, p, d)
  PROVE  UploadInv'
<1> DEFINE row == Declared(k, p, d)
<1>1. /\ row \in Rows /\ row # None /\ row.decl = d /\ row.obj \in ObjectKeys
      /\ row.obj[2] = d.sha
      /\ row = blobs[k] \/ (blobs[k] = None /\ row.status = "staged")
  BY DeclaredRow DEF registerObjectBlob
<1>2. RowSound(k, row)
  BY <1>1, RowsAreSound DEF RowSound
<1>3. blobs' = [blobs EXCEPT ![k] = row] /\ blobs \in [Keys -> Rows \cup {None}]
  BY DEF registerObjectBlob, UploadInv, TypeOK
<1> HIDE DEF row
<1>4. \A j \in Keys : blobs'[j] # None => RowSound(j, blobs'[j])
  BY <1>2, <1>3, RowsAreSound
<1>5. d.sha \in Contents
  BY DEF Decls
<1>6. urls' \subseteq ObjectKeys \X Contents /\ \A u \in urls' : u[1][2] = u[2]
  BY <1>1, <1>5 DEF registerObjectBlob, UploadInv, TypeOK, RowsNameTheirDigest, row
<1>7. blobs' \in [Keys -> Rows \cup {None}]
  BY <1>1, <1>3
<1> QED
  BY <1>4, <1>6, <1>7, RowsStep DEF registerObjectBlob

LEMMA PresignInv ==
  ASSUME UploadConstants, UploadInv, NEW k \in Keys, presignObjectAccess(k)
  PROVE  UploadInv'
<1>1. /\ RowSound(k, blobs[k]) /\ blobs[k].obj \in ObjectKeys
      /\ blobs[k].decl.sha \in Contents
  BY RowsAreSound DEF presignObjectAccess, Decls
<1>2. urls' \subseteq ObjectKeys \X Contents /\ \A u \in urls' : u[1][2] = u[2]
  BY <1>1 DEF presignObjectAccess, UploadInv, TypeOK, RowsNameTheirDigest, RowSound
<1> QED
  BY <1>2, RowsStep, RowsAreSound DEF presignObjectAccess, UploadInv, TypeOK, DeletedIsEmpty

LEMMA ExpiryInv ==
  ASSUME UploadConstants, UploadInv, NEW u \in urls, UrlExpires(u)
  PROVE  UploadInv'
<1>1. urls' \subseteq ObjectKeys \X Contents /\ \A w \in urls' : w[1][2] = w[2]
  BY DEF UrlExpires, UploadInv, TypeOK, RowsNameTheirDigest
<1> QED
  BY <1>1, RowsStep, RowsAreSound DEF UrlExpires, UploadInv, TypeOK, DeletedIsEmpty

LEMMA PutInv ==
  ASSUME UploadConstants, UploadInv, NEW u \in urls, NEW c \in Contents, NEW t \in Types,
         PutThroughUrl(u, c, t)
  PROVE  UploadInv'
<1> DEFINE o == [content |-> c, type |-> t, sum |-> Sum(c)]
<1>1. o \in Objects /\ o # None /\ o.sum = Sum(o.content) /\ o.content = c
  BY DEF Objects, Sum, UploadConstants
<1>2. u[1] \in ObjectKeys /\ u[1][2] = u[2]
  BY DEF UploadInv, TypeOK, RowsNameTheirDigest
<1>3. store' = [store EXCEPT ![u[1]] = o] /\ (Enforces => c = u[2])
  BY DEF PutThroughUrl
<1> HIDE DEF o
<1>4. store' \in [ObjectKeys -> Objects \cup {None}]
  BY <1>1, <1>2, <1>3 DEF UploadInv, TypeOK
<1>5. \A x \in ObjectKeys : store'[x] # None =>
         \/ store'[x] = store[x]
         \/ store'[x].sum = Sum(store'[x].content) /\ (Enforces => store'[x].content = x[2])
  BY <1>1, <1>2, <1>3 DEF UploadInv, TypeOK
<1> QED
  BY <1>4, <1>5, StoreStep DEF PutThroughUrl, UploadInv, TypeOK, PolicyCarries

LEMMA PutPolicyInv ==
  ASSUME UploadConstants, UploadInv, NEW c \in Contents, putStoredObject(c)
  PROVE  UploadInv'
<1> DEFINE o == [content |-> c, type |-> PolicyType, sum |-> Sum(c)]
<1> DEFINE x == <<"policy-onnx", c>>
<1>1. o \in Objects /\ o # None /\ o.sum = Sum(o.content) /\ o.content = c
  BY DEF Objects, Sum, UploadConstants
<1>2. x \in ObjectKeys /\ x[2] = c
  BY DEF ObjectKeys, UploadConstants
<1>3. store' = [store EXCEPT ![x] = o]
  BY DEF putStoredObject
<1> HIDE DEF o, x
<1>4. store' \in [ObjectKeys -> Objects \cup {None}]
  BY <1>1, <1>2, <1>3 DEF UploadInv, TypeOK
<1>5. \A y \in ObjectKeys : store'[y] # None =>
         \/ store'[y] = store[y]
         \/ store'[y].sum = Sum(store'[y].content) /\ (Enforces => store'[y].content = y[2])
  BY <1>1, <1>2, <1>3 DEF UploadInv, TypeOK
<1>6. /\ policy' \in [pc : {"idle", "stored"}, content : Contents \cup {None}]
      /\ PolicyCarries'
  BY DEF putStoredObject, PolicyCarries
<1> QED
  BY <1>4, <1>5, <1>6, StoreStep DEF putStoredObject

LEMMA RequestInv ==
  ASSUME UploadConstants, UploadInv, NEW r \in Reqs,
         \/ inspectStoredObject(r) \/ getOwnedObjectBlob(r)
         \/ \E k \in Keys : completeFind(r, k)
  PROVE  UploadInv'
<1> DEFINE Q == [pc : {"idle", "found", "inspected", "read"}, key : Keys \cup {None},
                 decl : Decls \cup {None}, insp : Inspections \cup {None}]
<1>1. IdleReq \in Q /\ IdleReq.pc = "idle" /\ req[r] \in Q
  BY DEF IdleReq, UploadInv, TypeOK
<1>2. ASSUME inspectStoredObject(r) PROVE UploadInv'
  <2> DEFINE row == blobs[req[r].key]
  <2> DEFINE o == IF row = None THEN None ELSE store[row.obj]
  <2> DEFINE q == IF o = None THEN IdleReq
                  ELSE [req[r] EXCEPT !.pc = "inspected", !.insp = Inspect(o)]
  <2>1. /\ req[r].pc = "found" /\ req' = [req EXCEPT ![r] = q]
        /\ UNCHANGED <<blobs, store, urls, policy, account>>
    BY <1>2 DEF inspectStoredObject
  <2>2. CASE o = None
    BY <1>1, <1>2, <2>1, <2>2, RequestStep DEF inspectStoredObject
  <2>3. CASE o # None
    <3>1. req[r].key \in Keys /\ row # None
      BY <2>1, <2>3 DEF UploadInv, RequestsSound
    <3>2. row.obj \in ObjectKeys /\ o = store[row.obj]
      BY <3>1, RowsAreSound
    <3>3. o \in Objects /\ o.sum = Sum(o.content)
      BY <2>3, <3>2 DEF UploadInv, TypeOK, StoreAsNamed
    <3>4. Inspect(o) \in Inspections /\ InspectionSound(Inspect(o))
      BY <3>3, InspectSound
    <3>5. q = [req[r] EXCEPT !.pc = "inspected", !.insp = Inspect(o)]
      BY <2>3
    <3> HIDE DEF o, row
    <3>6. /\ q \in Q /\ q.pc = "inspected" /\ q.insp = Inspect(o) /\ q.key = req[r].key
      BY <1>1, <3>4, <3>5
    <3> HIDE DEF q
    <3> QED
      BY <2>1, <3>1, <3>4, <3>6, RequestStep
  <2> QED
    BY <2>2, <2>3
<1>3. ASSUME getOwnedObjectBlob(r) PROVE UploadInv'
  <2> DEFINE row == blobs[req[r].key]
  <2> DEFINE q == IF row = None THEN IdleReq
                  ELSE [req[r] EXCEPT !.pc = "read", !.decl = row.decl]
  <2>1. req[r].pc = "inspected" /\ req' = [req EXCEPT ![r] = q]
    BY <1>3 DEF getOwnedObjectBlob
  <2>2. CASE row = None
    BY <1>1, <1>3, <2>1, <2>2, RequestStep DEF getOwnedObjectBlob
  <2>3. CASE row # None
    <3>1. /\ req[r].key \in Keys /\ req[r].insp \in Inspections
          /\ InspectionSound(req[r].insp)
      BY <2>1 DEF UploadInv, RequestsSound
    <3>2. row.decl \in Decls
      BY <2>3, <3>1, RowsAreSound
    <3>3. q = [req[r] EXCEPT !.pc = "read", !.decl = row.decl]
      BY <2>3
    <3> HIDE DEF row
    <3>4. /\ q \in Q /\ q.pc = "read" /\ q.decl = row.decl /\ q.key = req[r].key
          /\ q.insp = req[r].insp
      BY <1>1, <3>2, <3>3
    <3> QED
      BY <1>3, <2>1, <3>1, <3>2, <3>4, RequestStep DEF getOwnedObjectBlob
  <2> QED
    BY <2>2, <2>3
<1>4. ASSUME NEW k \in Keys, completeFind(r, k) PROVE UploadInv'
  <2> DEFINE q == [IdleReq EXCEPT !.pc = "found", !.key = k]
  <2>1. q \in Q /\ q.pc = "found" /\ q.key = k
    BY <1>1 DEF IdleReq
  <2>2. req' = [req EXCEPT ![r] = q]
    BY <1>4 DEF completeFind
  <2> QED
    BY <1>4, <2>1, <2>2, RequestStep DEF completeFind
<1> QED
  BY <1>2, <1>3, <1>4

LEMMA VerifyInv ==
  ASSUME UploadConstants, UploadInv, NEW k \in Keys, NEW insp \in Inspections,
         InspectionSound(insp), NEW d \in Decls,
         blobs' = [blobs EXCEPT ![k] = Verified(@, insp, d)],
         req' = req \/ \E r \in Reqs : req' = [req EXCEPT ![r] = IdleReq],
         UNCHANGED <<store, urls, policy, account>>
  PROVE  UploadInv'
<1> DEFINE n == Verified(blobs[k], insp, d)
<1>1. blobs[k] \in Rows \cup {None} /\ blobs \in [Keys -> Rows \cup {None}]
  BY DEF UploadInv, TypeOK
<1>2. /\ n \in Rows \cup {None}
      /\ n = None <=> blobs[k] = None
      /\ blobs[k] # None => n.obj = blobs[k].obj /\ n.decl = blobs[k].decl
      /\ blobs[k] # None /\ n.status = "complete" =>
           n = blobs[k] \/ (Enforces /\ blobs[k].decl.size = SizeOf[blobs[k].decl.sha])
  BY <1>1, VerifiedRow
<1>3. blobs' = [blobs EXCEPT ![k] = n]
  BY <1>1
<1> HIDE DEF n
<1>4. n # None => RowSound(k, n)
  BY <1>2, RowsAreSound DEF RowSound
<1>5. \A j \in Keys : blobs'[j] # None => RowSound(j, blobs'[j])
  BY <1>1, <1>3, <1>4, RowsAreSound
<1>6. account' = "deleted" => \A j \in Keys : blobs'[j] = None
  BY <1>1, <1>2, <1>3 DEF UploadInv, DeletedIsEmpty
<1>7. blobs' \in [Keys -> Rows \cup {None}]
  BY <1>1, <1>2, <1>3
<1> QED
  BY <1>5, <1>6, <1>7, RowsStep DEF UploadInv, TypeOK, RowsNameTheirDigest

LEMMA CompleteInv ==
  ASSUME UploadConstants, UploadInv, NEW r \in Reqs, completeObjectBlobUpload(r)
  PROVE  UploadInv'
<1>1. /\ req[r].key \in Keys /\ req[r].insp \in Inspections
      /\ InspectionSound(req[r].insp) /\ req[r].decl \in Decls
  BY DEF completeObjectBlobUpload, UploadInv, RequestsSound
<1> QED
  BY <1>1, VerifyInv DEF completeObjectBlobUpload

LEMMA PolicyInv ==
  ASSUME UploadConstants, UploadInv, upsertCompletedPolicyBlob
  PROVE  UploadInv'
<1> DEFINE c == policy.content
<1> DEFINE k == DigestKey[c]
<1>1. c \in Contents /\ k \in Keys
  BY DEF upsertCompletedPolicyBlob, UploadInv, PolicyCarries, UploadConstants
<1>2. /\ blobs' = blobs \/ (blobs' = [blobs EXCEPT ![k] = PolicyRow(c)] /\ account # "deleted")
      /\ policy' = IdlePolicy /\ UNCHANGED <<store, urls, req, account>>
  BY DEF upsertCompletedPolicyBlob
<1>3. PolicyRow(c) \in Rows /\ RowSound(k, PolicyRow(c))
  BY <1>1, PolicyRowShape DEF RowSound
<1>4. blobs \in [Keys -> Rows \cup {None}]
  BY DEF UploadInv, TypeOK
<1>5. \A j \in Keys : blobs'[j] # None => RowSound(j, blobs'[j])
  BY <1>1, <1>2, <1>3, <1>4, RowsAreSound
<1>6. account' = "deleted" => \A j \in Keys : blobs'[j] = None
  BY <1>2 DEF UploadInv, DeletedIsEmpty
<1>7. blobs' \in [Keys -> Rows \cup {None}]
  BY <1>1, <1>2, <1>3, <1>4
<1> QED
  BY <1>2, <1>5, <1>6, <1>7, RowsStep DEF UploadInv, TypeOK, RowsNameTheirDigest

LEMMA DeletionInv ==
  ASSUME UploadConstants, UploadInv,
         deleteUserData \/ (\E gone \in SUBSET BoundObjects : deleteStoredObjects(gone))
           \/ deleteCommit
  PROVE  UploadInv'
<1>1. CASE deleteUserData
  BY <1>1, RowsStep, RowsAreSound DEF deleteUserData, UploadInv, TypeOK, RowsNameTheirDigest
<1>2. ASSUME NEW gone \in SUBSET BoundObjects, deleteStoredObjects(gone) PROVE UploadInv'
  <2>1. store' = [o \in ObjectKeys |-> IF o \in gone THEN None ELSE store[o]]
    BY <1>2 DEF deleteStoredObjects
  <2>2. store' \in [ObjectKeys -> Objects \cup {None}]
    BY <2>1 DEF UploadInv, TypeOK
  <2>3. \A o \in ObjectKeys : store'[o] # None => store'[o] = store[o]
    BY <2>1
  <2>4. account' \in {"open", "emptied"} /\ UNCHANGED <<blobs, urls, req, policy>>
    BY <1>2 DEF deleteStoredObjects
  <2> QED
    BY <2>2, <2>3, <2>4, StoreStep DEF UploadInv, TypeOK, PolicyCarries
<1>3. CASE deleteCommit
  <2>1. /\ \/ account' = "deleted" /\ blobs' = [k \in Keys |-> None]
           \/ account' = "open" /\ blobs' = blobs
        /\ UNCHANGED <<store, urls, req, policy>>
    BY <1>3 DEF deleteCommit
  <2> QED
    BY <2>1, RowsStep, RowsAreSound DEF UploadInv, TypeOK, RowsNameTheirDigest
<1> QED
  BY <1>1, <1>2, <1>3

LEMMA UploadInvInit == UploadConstants /\ UploadInit => UploadInv
<1> SUFFICES ASSUME UploadConstants, UploadInit PROVE UploadInv
  OBVIOUS
<1>1. TypeOK
  BY DEF UploadInit, TypeOK, IdleReq, IdlePolicy
<1> QED
  BY <1>1 DEF UploadInit, UploadInv, RowsNameTheirDigest, StoreAsNamed, RequestsSound,
              CompleteRowsSound, PolicyCarries, DeletedIsEmpty, IdleReq, IdlePolicy

\* Every step of the uploads keeps the invariant.
LEMMA UploadInvStep == UploadConstants /\ UploadInv /\ [UploadNext]_upVars => UploadInv'
<1> SUFFICES ASSUME UploadConstants, UploadInv, [UploadNext]_upVars PROVE UploadInv'
  OBVIOUS
<1>1. CASE UNCHANGED upVars
  BY <1>1, RowsStep, RowsAreSound DEF upVars, UploadInv, TypeOK, RowsNameTheirDigest,
                                      DeletedIsEmpty
<1>2. CASE UploadNext
  BY <1>2, RegisterInv, PresignInv, ExpiryInv, PutInv, PutPolicyInv, RequestInv, CompleteInv,
     PolicyInv, DeletionInv DEF UploadNext
<1> QED
  BY <1>1, <1>2

\* The conditional UPDATE changes no declaration and brings no row back.
LEMMA VerifyKeeps ==
  ASSUME UploadConstants, UploadInv, NEW k \in Keys, NEW insp \in Inspections,
         InspectionSound(insp), NEW d \in Decls,
         blobs' = [blobs EXCEPT ![k] = Verified(@, insp, d)]
  PROVE  DeclarationsImmutable /\ \A j \in Keys : blobs'[j] = None <=> blobs[j] = None
<1> DEFINE n == Verified(blobs[k], insp, d)
<1>1. blobs[k] \in Rows \cup {None} /\ blobs \in [Keys -> Rows \cup {None}]
  BY DEF UploadInv, TypeOK
<1>2. /\ n = None <=> blobs[k] = None
      /\ blobs[k] # None => n.obj = blobs[k].obj /\ n.decl = blobs[k].decl
  BY <1>1, VerifiedRow
<1>3. blobs' = [blobs EXCEPT ![k] = n]
  BY <1>1
<1> HIDE DEF n
<1> QED
  BY <1>1, <1>2, <1>3 DEF DeclarationsImmutable, UploadInv, DeletedIsEmpty

\* The invariant says of complete rows what the uploads promise.
LEMMA UploadRowsVerified ==
  ASSUME UploadConstants, UploadInv
  PROVE  CompleteMeansVerified /\ UnverifiedStaysStaged
<1>1. CompleteMeansVerified
  <2> SUFFICES ASSUME NEW k \in Keys, blobs[k] # None, blobs[k].status = "complete", Enforces,
                      store[blobs[k].obj] # None
               PROVE  /\ store[blobs[k].obj].content = blobs[k].decl.sha
                      /\ SizeOf[store[blobs[k].obj].content] = blobs[k].decl.size
    BY DEF CompleteMeansVerified
  <2>1. RowSound(k, blobs[k]) /\ blobs[k].obj \in ObjectKeys
    BY RowsAreSound
  <2> QED
    BY <2>1 DEF UploadInv, StoreAsNamed, RowSound
<1>2. UnverifiedStaysStaged
  BY DEF UploadInv, CompleteRowsSound, UnverifiedStaysStaged
<1> QED
  BY <1>1, <1>2

\* No step changes what a row declares.
LEMMA DeclarationStep ==
  ASSUME UploadConstants, UploadInv, [UploadNext]_upVars
  PROVE  [DeclarationsImmutable]_upVars
<1> SUFFICES ASSUME UploadNext PROVE DeclarationsImmutable
  OBVIOUS
<1>1. blobs \in [Keys -> Rows \cup {None}]
  BY DEF UploadInv, TypeOK
<1>2. CASE blobs' = blobs
  BY <1>2 DEF DeclarationsImmutable, UploadInv, DeletedIsEmpty
<1>3. ASSUME NEW k \in Keys, NEW p \in Purposes, NEW d \in Decls, registerObjectBlob(k, p, d)
      PROVE  DeclarationsImmutable
  <2>1. account = "open" /\ blobs' = [blobs EXCEPT ![k] = Declared(k, p, d)]
    BY <1>3 DEF registerObjectBlob
  <2>2. blobs[k] # None => Declared(k, p, d) = blobs[k]
    BY DEF Declared
  <2> QED
    BY <1>1, <2>1, <2>2 DEF DeclarationsImmutable
<1>4. ASSUME NEW r \in Reqs, completeObjectBlobUpload(r) PROVE DeclarationsImmutable
  <2>1. /\ req[r].key \in Keys /\ req[r].insp \in Inspections
        /\ InspectionSound(req[r].insp) /\ req[r].decl \in Decls
    BY <1>4 DEF completeObjectBlobUpload, UploadInv, RequestsSound
  <2> QED
    BY <1>1, <1>4, <2>1, VerifyKeeps DEF completeObjectBlobUpload
<1>5. CASE upsertCompletedPolicyBlob
  <2> DEFINE c == policy.content
  <2> DEFINE k == DigestKey[c]
  <2>1. c \in Contents /\ k \in Keys
    BY <1>5 DEF upsertCompletedPolicyBlob, UploadInv, PolicyCarries, UploadConstants
  <2>2. \/ blobs' = blobs
        \/ /\ blobs' = [blobs EXCEPT ![k] = PolicyRow(c)] /\ account # "deleted"
           /\ blobs[k] # None => blobs[k].obj = PolicyRow(c).obj
                                 /\ blobs[k].decl = PolicyRow(c).decl
    BY <1>5 DEF upsertCompletedPolicyBlob
  <2> HIDE DEF c, k
  <2> QED
    BY <1>1, <1>2, <2>1, <2>2 DEF DeclarationsImmutable
<1>6. CASE deleteCommit
  BY <1>6 DEF deleteCommit, DeclarationsImmutable
<1> QED
  BY <1>2, <1>3, <1>4, <1>5, <1>6 DEF UploadNext, presignObjectAccess, UrlExpires, PutThroughUrl,
     inspectStoredObject, getOwnedObjectBlob, completeFind, putStoredObject, deleteUserData,
     deleteStoredObjects

-----------------------------------------------------------------------------
(* Theorems: object uploads *)

\* CompleteMeansVerified, UnverifiedStaysStaged and RowsNameTheirDigest, for any number
\* of keys, payloads and racing completion requests: a complete row has the declared
\* bytes behind it, and a store that does not verify completes no client's declaration
\* (registerObjectBlob, completeObjectBlobUpload, upsertCompletedPolicyBlob).
THEOREM UploadsVerified ==
  ASSUME UploadConstants
  PROVE  UploadSpec => [](TypeOK /\ CompleteMeansVerified /\ UnverifiedStaysStaged
                            /\ RowsNameTheirDigest)
<1>1. UploadInit => UploadInv
  BY UploadInvInit
<1>2. UploadInv /\ [UploadNext]_upVars => UploadInv'
  BY UploadInvStep
<1>3. UploadInv => TypeOK /\ CompleteMeansVerified /\ UnverifiedStaysStaged
                     /\ RowsNameTheirDigest
  BY UploadRowsVerified DEF UploadInv
<1> QED
  BY <1>1, <1>2, <1>3, PTL DEF UploadSpec

\* DeclarationsImmutable, for every step: what a row declares and where it is stored is
\* written once, and a deleted account never regains a row (the conflict clauses of
\* registerObjectBlob and upsertCompletedPolicyBlob).
THEOREM DeclarationsKept ==
  ASSUME UploadConstants
  PROVE  UploadSpec => [][DeclarationsImmutable]_upVars
<1>1. UploadInit => UploadInv
  BY UploadInvInit
<1>2. UploadInv /\ [UploadNext]_upVars => UploadInv'
  BY UploadInvStep
<1>3. UploadInv /\ [UploadNext]_upVars => [DeclarationsImmutable]_upVars
  BY DeclarationStep
<1> QED
  BY <1>1, <1>2, <1>3, PTL DEF UploadSpec

-----------------------------------------------------------------------------
(* The archive's invariant, step by step *)

\* The file a completion inspects next: its key and its declaration.
LEMMA PlannedFile ==
  ASSUME ArchiveConstants, NEW p \in Plans, NEW r \in RoleSet
  PROVE  /\ KeyOf(p, r) \in Keys /\ DeclOf(p, r) \in Decls
         /\ DeclOf(p, r).sha = p.files[r] /\ p.files[r] \in Contents
  BY DEF ArchiveConstants, RoleSet, KeyOf, DeclOf, Decls, Sizes

\* Staging: the rows of the plan are new or the ones found.
LEMMA StageUploads ==
  ASSUME ArchiveConstants, UploadInv, NEW p \in Plans, stageRecorderArchive(p)
  PROVE  UploadInv'
<1> DEFINE planned(k) == \E r \in RoleSet : k = KeyOf(p, r)
<1> DEFINE role(k) == CHOOSE r \in RoleSet : k = KeyOf(p, r)
<1> DEFINE row(k) == Declared(k, "recorder", DeclOf(p, role(k)))
<1>1. blobs' = [k \in Keys |-> IF planned(k) THEN row(k) ELSE blobs[k]]
  BY DEF stageRecorderArchive
<1>2. ASSUME NEW k \in Keys, planned(k)
      PROVE  row(k) \in Rows /\ RowSound(k, row(k))
  <2>1. role(k) \in RoleSet /\ k = KeyOf(p, role(k))
    BY <1>2
  <2> HIDE DEF role
  <2>2. DeclOf(p, role(k)) \in Decls
    BY <2>1, PlannedFile
  <2>3. blobs[k] # None => blobs[k].decl = DeclOf(p, role(k))
    BY <2>1 DEF stageRecorderArchive
  <2>4. UploadConstants /\ "recorder" \in Purposes
    BY DEF ArchiveConstants
  <2>5. /\ row(k) \in Rows /\ row(k).obj[2] = DeclOf(p, role(k)).sha
        /\ row(k).decl = DeclOf(p, role(k))
        /\ row(k) = blobs[k] \/ (blobs[k] = None /\ row(k).status = "staged")
    BY <2>2, <2>3, <2>4, DeclaredRow
  <2>6. row(k) # None
    BY <2>5, <2>4 DEF UploadConstants
  <2> QED
    BY <2>5, <2>6, RowsAreSound DEF RowSound
<1> HIDE DEF planned, row
<1>3. blobs' \in [Keys -> Rows \cup {None}]
  BY <1>1, <1>2 DEF UploadInv, TypeOK
<1>4. \A k \in Keys : blobs'[k] # None => RowSound(k, blobs'[k])
  BY <1>1, <1>2, RowsAreSound
<1>5. \A r \in RoleSet : <<<<"recorder", p.files[r]>>, p.files[r]>> \in ObjectKeys \X Contents
  BY PlannedFile DEF ObjectKeys, ArchiveConstants
<1>6. urls' \subseteq ObjectKeys \X Contents /\ \A u \in urls' : u[1][2] = u[2]
  BY <1>5 DEF stageRecorderArchive, UploadInv, TypeOK, RowsNameTheirDigest
<1>7. account = "open" /\ UNCHANGED <<store, req, policy, account>>
  BY DEF stageRecorderArchive
<1> QED
  BY <1>3, <1>4, <1>6, <1>7, RowsStep DEF ArchiveConstants

\* A step that leaves the uploads alone keeps their invariant.
LEMMA UploadsFrame ==
  ASSUME UploadInv, UNCHANGED upVars
  PROVE  UploadInv'
  BY DEF upVars, UploadInv, TypeOK, RowsNameTheirDigest, StoreAsNamed, RequestsSound,
         CompleteRowsSound, PolicyCarries, DeletedIsEmpty

\* The part of the invariant about uploads, over every step of the archive.
LEMMA ArchiveUploads ==
  ASSUME ArchiveConstants, ArchiveInv, [Next]_vars
  PROVE  UploadInv' /\ FilesAsPlanned' /\ policy' = IdlePolicy
<1>1. UploadConstants /\ UploadInv /\ FilesAsPlanned /\ policy = IdlePolicy
  BY DEF ArchiveConstants, ArchiveInv
<1>2. ASSUME UNCHANGED upVars PROVE UploadInv' /\ FilesAsPlanned' /\ policy' = IdlePolicy
  BY <1>1, <1>2, UploadsFrame DEF FilesAsPlanned, upVars
<1>3. ASSUME NEW p \in Plans, stageRecorderArchive(p)
      PROVE  UploadInv' /\ FilesAsPlanned' /\ policy' = IdlePolicy
  <2>1. UNCHANGED <<store, policy>>
    BY <1>3 DEF stageRecorderArchive
  <2> QED
    BY <1>1, <1>3, <2>1, StageUploads DEF FilesAsPlanned
<1>4. ASSUME NEW c \in Completers, completeFile(c)
      PROVE  UploadInv' /\ FilesAsPlanned' /\ policy' = IdlePolicy
  <2> DEFINE r == Roles[comp[c].i]
  <2>1. /\ comp[c].plan \in Plans /\ comp[c].i \in 1..Len(Roles)
        /\ comp[c].insp \in Inspections /\ InspectionSound(comp[c].insp)
    BY <1>4 DEF completeFile, ArchiveInv, RowsInv, CompletersSound
  <2>2. r \in RoleSet
    BY <2>1 DEF RoleSet
  <2>3. RoleKey(c) \in Keys /\ DeclOf(comp[c].plan, r) \in Decls
    BY <2>1, <2>2, PlannedFile DEF RoleKey
  <2>4. /\ blobs' = [blobs EXCEPT ![RoleKey(c)] =
                        Verified(@, comp[c].insp, DeclOf(comp[c].plan, r))]
        /\ UNCHANGED <<store, urls, req, policy, account>>
    BY <1>4 DEF completeFile
  <2> HIDE DEF r
  <2>5. UploadInv'
    BY <1>1, <2>1, <2>3, <2>4, VerifyInv
  <2> QED
    BY <1>1, <2>4, <2>5 DEF FilesAsPlanned
<1>5. ASSUME purgeCommit PROVE UploadInv' /\ FilesAsPlanned' /\ policy' = IdlePolicy
  <2>1. deleteCommit /\ UNCHANGED <<store, policy>>
    BY <1>5 DEF purgeCommit, deleteCommit
  <2> QED
    BY <1>1, <2>1, DeletionInv DEF FilesAsPlanned
<1>6. ASSUME Uploads PROVE UploadInv' /\ FilesAsPlanned' /\ policy' = IdlePolicy
  <2>1. ASSUME NEW u \in urls, NEW t \in Types, PutThroughUrl(u, u[2], t)
        PROVE  UploadInv' /\ FilesAsPlanned' /\ policy' = IdlePolicy
    <3>1. u[2] \in Contents /\ u[1] \in ObjectKeys /\ u[1][2] = u[2]
      BY <1>1 DEF UploadInv, TypeOK, RowsNameTheirDigest
    <3>2. /\ store' = [store EXCEPT ![u[1]] =
                         [content |-> u[2], type |-> t, sum |-> Sum(u[2])]]
          /\ UNCHANGED policy
      BY <2>1 DEF PutThroughUrl
    <3>3. FilesAsPlanned'
      BY <1>1, <3>1, <3>2 DEF FilesAsPlanned, UploadInv, TypeOK
    <3> QED
      BY <1>1, <2>1, <3>1, <3>2, <3>3, PutInv
  <2>2. ASSUME NEW r \in Reqs,
               \/ inspectStoredObject(r) \/ getOwnedObjectBlob(r) \/ completeObjectBlobUpload(r)
               \/ \E k \in Keys : completeFind(r, k)
        PROVE  UploadInv' /\ FilesAsPlanned' /\ policy' = IdlePolicy
    <3>1. UNCHANGED <<store, policy>>
      BY <2>2 DEF inspectStoredObject, getOwnedObjectBlob, completeObjectBlobUpload, completeFind
    <3> QED
      BY <1>1, <2>2, <3>1, RequestInv, CompleteInv DEF FilesAsPlanned
  <2>3. CASE deleteUserData
    <3>1. UNCHANGED <<store, policy>>
      BY <2>3 DEF deleteUserData
    <3> QED
      BY <1>1, <2>3, <3>1, DeletionInv DEF FilesAsPlanned
  <2>4. ASSUME NEW gone \in SUBSET BoundObjects, deleteStoredObjects(gone)
        PROVE  UploadInv' /\ FilesAsPlanned' /\ policy' = IdlePolicy
    <3>1. /\ store' = [o \in ObjectKeys |-> IF o \in gone THEN None ELSE store[o]]
          /\ UNCHANGED policy
      BY <2>4 DEF deleteStoredObjects
    <3> QED
      BY <1>1, <2>4, <3>1, DeletionInv DEF FilesAsPlanned
  <2> QED
    BY <1>6, <2>1, <2>2, <2>3, <2>4 DEF Uploads
<1>7. CASE UNCHANGED vars
  BY <1>2, <1>7 DEF vars
<1>8. CASE Next
  BY <1>2, <1>3, <1>4, <1>5, <1>6, <1>8
     DEF Next, completeBegin, completeInspect, completeBind, completeRecorderArchive,
         admitCheckBlobs, streamPrivateArchive, admitRecorderArchive, admitBegin,
         updateModelContract
<1> QED
  BY <1>7, <1>8

\* The shapes of a completion's and an admission's progress.
Completion == [pc : {"idle", "next", "inspected", "bound"}, plan : Plans \cup {None},
               i : 1..(Len(Roles) + 1), insp : Inspections \cup {None}]
Admission == [pc : {"idle", "preflight", "streaming", "verified"}, plan : Plans \cup {None},
              model : Models \cup {None}]

\* How a completion may move the row: the plan and a materialization last.
RowMoves ==
  \/ mat' = mat
  \/ /\ mat # None /\ mat' # None /\ mat' \in MatRow
     /\ mat'.plan = mat.plan
     /\ mat.status = "materialized" => mat'.status = "materialized"
     /\ mat'.status = "materialized" => verifyManifestReceiptBindings(mat'.plan) /\ ~mat'.err

\* One completion takes a step.
LEMMA CompleterStep ==
  ASSUME ArchiveConstants, RowsInv, RowMoves, NEW c \in Completers, NEW q \in Completion,
         comp' = [comp EXCEPT ![c] = q],
         q.pc # "idle" => /\ q.plan \in Plans
                          /\ mat' # None => q.plan = mat'.plan
                          /\ mat' = None => account = "deleted",
         q.pc = "inspected" => /\ q.i \in 1..Len(Roles) /\ q.insp \in Inspections
                               /\ InspectionSound(q.insp),
         q.pc = "bound" => verifyManifestReceiptBindings(q.plan),
         UNCHANGED <<account, models, adm, admission, telemetry>>
  PROVE  RowsInv'
<1>1. ArchiveShape'
  BY DEF RowsInv, ArchiveShape, RowMoves, MatRow, Completion
<1>2. RowLasts'
  BY DEF RowsInv, RowLasts, RowMoves, ArchiveShape
<1>3. CompletersSound'
  <2> SUFFICES ASSUME NEW d \in Completers, comp'[d].pc # "idle"
               PROVE  /\ comp'[d].plan \in Plans
                      /\ mat' # None => comp'[d].plan = mat'.plan
                      /\ comp'[d].pc = "inspected" => /\ comp'[d].i \in 1..Len(Roles)
                                                      /\ comp'[d].insp \in Inspections
                                                      /\ InspectionSound(comp'[d].insp)
                      /\ comp'[d].pc = "bound" => verifyManifestReceiptBindings(comp'[d].plan)
    BY DEF CompletersSound, InspectionSound, verifyManifestReceiptBindings
  <2>1. CASE d = c
    BY <2>1 DEF RowsInv, ArchiveShape
  <2>2. CASE d # c
    BY <2>2 DEF RowsInv, ArchiveShape, CompletersSound, RowMoves
  <2> QED
    BY <2>1, <2>2
<1>4. AdmittersSound'
  BY DEF RowsInv, AdmittersSound, RowMoves
<1>5. MaterializedSound'
  BY DEF RowsInv, MaterializedSound, RowMoves, verifyManifestReceiptBindings
<1>6. AdmissionTruthful'
  BY DEF RowsInv, AdmissionTruthful, RowMoves
<1> QED
  BY <1>1, <1>2, <1>3, <1>4, <1>5, <1>6 DEF RowsInv

\* One admission request takes a step that writes nothing.
LEMMA AdmitterStep ==
  ASSUME ArchiveConstants, RowsInv, NEW a \in Admitters, NEW q \in Admission,
         adm' = [adm EXCEPT ![a] = q],
         q.pc # "idle" => /\ q.plan \in Plans /\ q.model \in Models
                          /\ mat # None => mat.status = "materialized" /\ q.plan = mat.plan
                          /\ mat = None => account = "deleted",
         q.pc = "verified" => \A r \in RoleSet : q.plan.files[r] \in Sound,
         UNCHANGED <<account, mat, comp, models>>
  PROVE  /\ ArchiveShape /\ telemetry' \in Nat => ArchiveShape'
         /\ RowLasts' /\ CompletersSound' /\ AdmittersSound' /\ MaterializedSound'
<1>1. ASSUME telemetry' \in Nat PROVE ArchiveShape'
  BY <1>1 DEF RowsInv, ArchiveShape, Admission
<1>2. RowLasts'
  BY DEF RowsInv, RowLasts, ArchiveShape
<1>3. CompletersSound' /\ MaterializedSound'
  BY DEF RowsInv, CompletersSound, MaterializedSound, InspectionSound,
         verifyManifestReceiptBindings
<1>4. AdmittersSound'
  <2> SUFFICES ASSUME NEW b \in Admitters, adm'[b].pc # "idle"
               PROVE  /\ adm'[b].plan \in Plans /\ adm'[b].model \in Models
                      /\ mat' # None => mat'.status = "materialized" /\ adm'[b].plan = mat'.plan
                      /\ adm'[b].pc = "verified" =>
                           \A r \in RoleSet : adm'[b].plan.files[r] \in Sound
    BY DEF AdmittersSound, RoleSet
  <2>1. CASE b = a
    BY <2>1 DEF RowsInv, ArchiveShape
  <2>2. CASE b # a
    BY <2>2 DEF RowsInv, ArchiveShape, AdmittersSound
  <2> QED
    BY <2>1, <2>2
<1> QED
  BY <1>1, <1>2, <1>3, <1>4

\* A completion that fails leaves an error on a staged row and nothing on another.
LEMMA FailMoves ==
  ASSUME ArchiveConstants, RowsInv, NEW c \in Completers, Fail(c)
  PROVE  RowMoves
<1>1. CASE mat # None /\ mat.status = "staged"
  <2>1. mat' = [mat EXCEPT !.err = TRUE] /\ mat \in MatRow
    BY <1>1 DEF Fail, RowsInv, ArchiveShape, MatRow
  <2>2. mat' \in MatRow /\ mat'.plan = mat.plan /\ mat'.status = "staged"
    BY <1>1, <2>1 DEF MatRow
  <2>3. mat' # None
    BY <2>2 DEF ArchiveConstants
  <2> QED
    BY <1>1, <2>2, <2>3 DEF RowMoves
<1>2. CASE ~(mat # None /\ mat.status = "staged")
  BY <1>2 DEF Fail, RowMoves
<1> QED
  BY <1>1, <1>2

LEMMA CompletionRows ==
  ASSUME ArchiveConstants, ArchiveInv, NEW c \in Completers,
         \/ completeBegin(c) \/ completeInspect(c) \/ completeFile(c) \/ completeBind(c)
         \/ completeRecorderArchive(c)
  PROVE  RowsInv' /\ RowMoves
<1>1. /\ RowsInv /\ comp[c] \in Completion /\ IdleComp \in Completion /\ IdleComp.pc = "idle"
      /\ Len(Roles) \in Nat
  BY DEF ArchiveConstants, ArchiveInv, RowsInv, ArchiveShape, Completion, IdleComp
<1>2. comp[c].pc # "idle" => /\ comp[c].plan \in Plans
                             /\ mat # None => comp[c].plan = mat.plan
                             /\ mat = None => account = "deleted"
  BY <1>1 DEF RowsInv, CompletersSound, RowLasts
<1>3. ASSUME completeBegin(c) PROVE RowsInv' /\ RowMoves
  <2> DEFINE q == [IdleComp EXCEPT !.pc = "next", !.plan = mat.plan]
  <2>1. mat # None /\ mat.plan \in Plans
    BY <1>1, <1>3 DEF completeBegin, RowsInv, ArchiveShape, MatRow
  <2>2. q \in Completion /\ q.pc = "next" /\ q.plan = mat.plan
    BY <1>1, <2>1 DEF Completion, IdleComp
  <2>3. /\ comp' = [comp EXCEPT ![c] = q]
        /\ UNCHANGED <<account, mat, models, adm, admission, telemetry>>
    BY <1>3 DEF completeBegin, upVars
  <2> HIDE DEF q
  <2> QED
    BY <1>1, <2>1, <2>2, <2>3, CompleterStep DEF RowMoves
<1>4. ASSUME Fail(c), comp[c].pc # "idle", UNCHANGED <<account, models, adm, admission, telemetry>>
      PROVE  RowsInv' /\ RowMoves
  <2>1. comp' = [comp EXCEPT ![c] = IdleComp] /\ RowMoves
    BY <1>1, <1>4, FailMoves DEF Fail
  <2> QED
    BY <1>1, <1>4, <2>1, CompleterStep
<1>5. ASSUME completeInspect(c) PROVE RowsInv' /\ RowMoves
  <2> DEFINE row == blobs[RoleKey(c)]
  <2> DEFINE o == IF row = None THEN None ELSE store[row.obj]
  <2>1. /\ comp[c].pc = "next" /\ comp[c].i <= Len(Roles)
        /\ UNCHANGED <<account, models, adm, admission, telemetry>>
        /\ \/ /\ o # None /\ mat' = mat
              /\ comp' = [comp EXCEPT ![c].pc = "inspected", ![c].insp = Inspect(o)]
           \/ Fail(c)
    BY <1>5 DEF completeInspect, upVars
  <2>2. CASE Fail(c)
    BY <1>4, <2>1, <2>2
  <2>3. CASE /\ o # None /\ mat' = mat
             /\ comp' = [comp EXCEPT ![c].pc = "inspected", ![c].insp = Inspect(o)]
    <3>1. comp[c].i \in 1..Len(Roles) /\ Roles[comp[c].i] \in RoleSet
      BY <1>1, <2>1 DEF Completion, RoleSet
    <3>2. RoleKey(c) \in Keys
      BY <1>2, <2>1, <3>1, PlannedFile DEF RoleKey
    <3>3. UploadConstants /\ UploadInv
      BY DEF ArchiveConstants, ArchiveInv
    <3>4. row # None /\ row.obj \in ObjectKeys /\ o = store[row.obj]
      BY <2>3, <3>2, <3>3, RowsAreSound
    <3>5. o \in Objects /\ o.sum = Sum(o.content)
      BY <2>3, <3>3, <3>4 DEF UploadInv, TypeOK, StoreAsNamed
    <3>6. Inspect(o) \in Inspections /\ InspectionSound(Inspect(o))
      BY <3>3, <3>5, InspectSound
    <3> DEFINE q == [comp[c] EXCEPT !.pc = "inspected", !.insp = Inspect(o)]
    <3>7. comp' = [comp EXCEPT ![c] = q]
      BY <1>1, <2>3 DEF RowsInv, ArchiveShape
    <3> HIDE DEF o, row
    <3>8. /\ q \in Completion /\ q.pc = "inspected" /\ q.plan = comp[c].plan
          /\ q.i = comp[c].i /\ q.insp = Inspect(o)
      BY <1>1, <3>6 DEF Completion
    <3> HIDE DEF q
    <3>9. RowMoves
      BY <2>3 DEF RowMoves
    <3> QED
      BY <1>1, <1>2, <2>1, <2>3, <3>1, <3>6, <3>7, <3>8, <3>9, CompleterStep
  <2> QED
    BY <2>1, <2>2, <2>3
<1>6. ASSUME completeFile(c) PROVE RowsInv' /\ RowMoves
  <2>1. /\ comp[c].pc = "inspected"
        /\ UNCHANGED <<account, models, adm, admission, telemetry>>
        /\ \/ comp' = [comp EXCEPT ![c].pc = "next", ![c].i = @ + 1] /\ mat' = mat
           \/ Fail(c)
    BY <1>6 DEF completeFile
  <2>2. CASE Fail(c)
    BY <1>4, <2>1, <2>2
  <2>3. CASE comp' = [comp EXCEPT ![c].pc = "next", ![c].i = @ + 1] /\ mat' = mat
    <3> DEFINE q == [comp[c] EXCEPT !.pc = "next", !.i = comp[c].i + 1]
    <3>1. comp' = [comp EXCEPT ![c] = q]
      BY <1>1, <2>3 DEF RowsInv, ArchiveShape
    <3>2. comp[c].i \in 1..Len(Roles)
      BY <1>1, <2>1 DEF RowsInv, CompletersSound
    <3> DEFINE n == comp[c].i + 1
    <3>5. n \in 1..(Len(Roles) + 1)
      BY <1>1, <3>2
    <3> HIDE DEF n
    <3>6. q = [comp[c] EXCEPT !.pc = "next", !.i = n]
      BY DEF n
    <3>3. q \in Completion /\ q.pc = "next" /\ q.plan = comp[c].plan
      BY <1>1, <3>5, <3>6 DEF Completion
    <3> HIDE DEF q
    <3>4. RowMoves
      BY <2>3 DEF RowMoves
    <3> QED
      BY <1>1, <1>2, <2>1, <2>3, <3>1, <3>3, <3>4, CompleterStep
  <2> QED
    BY <2>1, <2>2, <2>3
<1>7. ASSUME completeBind(c) PROVE RowsInv' /\ RowMoves
  <2>1. /\ comp[c].pc = "next"
        /\ UNCHANGED <<account, models, adm, admission, telemetry>>
        /\ \/ /\ verifyManifestReceiptBindings(comp[c].plan)
              /\ comp' = [comp EXCEPT ![c].pc = "bound"] /\ mat' = mat
           \/ Fail(c)
    BY <1>7 DEF completeBind, upVars
  <2>2. CASE Fail(c)
    BY <1>4, <2>1, <2>2
  <2>3. CASE /\ verifyManifestReceiptBindings(comp[c].plan)
             /\ comp' = [comp EXCEPT ![c].pc = "bound"] /\ mat' = mat
    <3> DEFINE q == [comp[c] EXCEPT !.pc = "bound"]
    <3>1. comp' = [comp EXCEPT ![c] = q]
      BY <1>1, <2>3 DEF RowsInv, ArchiveShape
    <3>2. q \in Completion /\ q.pc = "bound" /\ q.plan = comp[c].plan
      BY <1>1 DEF Completion
    <3> HIDE DEF q
    <3>3. RowMoves
      BY <2>3 DEF RowMoves
    <3> QED
      BY <1>1, <1>2, <2>1, <2>3, <3>1, <3>2, <3>3, CompleterStep
  <2> QED
    BY <2>1, <2>2, <2>3
<1>8. ASSUME completeRecorderArchive(c) PROVE RowsInv' /\ RowMoves
  <2>1. /\ comp[c].pc = "bound" /\ comp' = [comp EXCEPT ![c] = IdleComp]
        /\ mat' = IF mat = None THEN None
                  ELSE [mat EXCEPT !.status = "materialized", !.err = FALSE]
        /\ UNCHANGED <<account, models, adm, admission, telemetry>>
    BY <1>8 DEF completeRecorderArchive, upVars
  <2>2. RowMoves
    <3>1. CASE mat = None
      BY <2>1, <3>1 DEF RowMoves
    <3>2. CASE mat # None
      <4>1. mat \in MatRow /\ mat' = [mat EXCEPT !.status = "materialized", !.err = FALSE]
        BY <1>1, <2>1, <3>2 DEF RowsInv, ArchiveShape, MatRow
      <4>2. mat' \in MatRow /\ mat'.plan = mat.plan /\ mat'.status = "materialized" /\ ~mat'.err
        BY <4>1 DEF MatRow
      <4>3. mat' # None
        BY <4>2 DEF ArchiveConstants
      <4>4. verifyManifestReceiptBindings(mat.plan)
        BY <1>1, <2>1, <3>2 DEF RowsInv, CompletersSound
      <4> QED
        BY <3>2, <4>2, <4>3, <4>4 DEF RowMoves
    <3> QED
      BY <3>1, <3>2
  <2> QED
    BY <1>1, <2>1, <2>2, CompleterStep
<1> QED
  BY <1>3, <1>5, <1>6, <1>7, <1>8

LEMMA AdmissionRows ==
  ASSUME ArchiveConstants, ArchiveInv, NEW a \in Admitters,
         \/ admitCheckBlobs(a) \/ streamPrivateArchive(a) \/ admitRecorderArchive(a)
         \/ \E m \in Models : admitBegin(a, m)
  PROVE  RowsInv'
<1>1. /\ RowsInv /\ adm[a] \in Admission /\ IdleAdm \in Admission /\ IdleAdm.pc = "idle"
      /\ telemetry \in Nat /\ ArchiveShape
  BY DEF ArchiveInv, RowsInv, ArchiveShape, Admission, IdleAdm
<1>2. adm[a].pc # "idle" =>
        /\ adm[a].plan \in Plans /\ adm[a].model \in Models
        /\ mat # None => mat.status = "materialized" /\ adm[a].plan = mat.plan
        /\ mat = None => account = "deleted"
  BY <1>1 DEF RowsInv, AdmittersSound, RowLasts
<1>3. ASSUME UNCHANGED <<mat, admission, telemetry>> PROVE AdmissionTruthful'
  BY <1>1, <1>3 DEF RowsInv, AdmissionTruthful, RoleSet
<1>4. ASSUME NEW m \in Models, admitBegin(a, m) PROVE RowsInv'
  <2> DEFINE q == [pc |-> "preflight", plan |-> mat.plan, model |-> m]
  <2>1. /\ mat # None /\ mat.status = "materialized" /\ adm' = [adm EXCEPT ![a] = q]
        /\ UNCHANGED <<account, mat, comp, models, admission, telemetry>>
    BY <1>4 DEF admitBegin, upVars
  <2>2. mat.plan \in Plans
    BY <1>1, <2>1 DEF ArchiveShape, MatRow
  <2>3. q \in Admission /\ q.pc = "preflight" /\ q.plan = mat.plan /\ q.model = m
    BY <2>2 DEF Admission
  <2> HIDE DEF q
  <2> QED
    BY <1>1, <1>3, <2>1, <2>2, <2>3, AdmitterStep DEF RowsInv
<1>5. ASSUME admitCheckBlobs(a) PROVE RowsInv'
  <2> DEFINE q == IF PlannedComplete(adm[a].plan) THEN [adm[a] EXCEPT !.pc = "streaming"]
                  ELSE IdleAdm
  <2>1. /\ adm[a].pc = "preflight" /\ adm' = [adm EXCEPT ![a] = q]
        /\ UNCHANGED <<account, mat, comp, models, admission, telemetry>>
    BY <1>5 DEF admitCheckBlobs, upVars
  <2>2. /\ q \in Admission /\ q.pc \in {"idle", "streaming"}
        /\ q.pc # "idle" => q.plan = adm[a].plan /\ q.model = adm[a].model
    BY <1>1 DEF Admission, IdleAdm
  <2> HIDE DEF q
  <2> QED
    BY <1>1, <1>2, <1>3, <2>1, <2>2, AdmitterStep DEF RowsInv
<1>6. ASSUME streamPrivateArchive(a) PROVE RowsInv'
  <2> DEFINE q == IF validateReport(adm[a].plan) THEN [adm[a] EXCEPT !.pc = "verified"]
                  ELSE IdleAdm
  <2>1. /\ adm[a].pc = "streaming" /\ adm' = [adm EXCEPT ![a] = q]
        /\ UNCHANGED <<account, mat, comp, models, admission, telemetry>>
    BY <1>6 DEF streamPrivateArchive, upVars
  <2>2. /\ q \in Admission
        /\ q.pc # "idle" => /\ q.plan = adm[a].plan /\ q.model = adm[a].model
                            /\ validateReport(adm[a].plan)
    BY <1>1 DEF Admission, IdleAdm
  <2> HIDE DEF q
  <2>3. q.pc = "verified" => \A r \in RoleSet : q.plan.files[r] \in Sound
    BY <2>2 DEF validateReport
  <2> QED
    BY <1>1, <1>2, <1>3, <2>1, <2>2, <2>3, AdmitterStep DEF RowsInv
<1>7. ASSUME admitRecorderArchive(a) PROVE RowsInv'
  <2>1. /\ adm[a].pc = "verified" /\ adm' = [adm EXCEPT ![a] = IdleAdm]
        /\ UNCHANGED <<account, mat, comp, models>>
        /\ \/ admission' = admission /\ telemetry' = telemetry
           \/ /\ mat # None /\ admission = None
              /\ admission' = [model |-> adm[a].model, hash |-> adm[a].plan.hash]
              /\ telemetry' = telemetry + 1
    BY <1>7 DEF admitRecorderArchive, Admissible, upVars
  <2>2. telemetry' \in Nat
    BY <1>1, <2>1
  <2>3. AdmissionTruthful'
    <3>1. CASE admission' = admission /\ telemetry' = telemetry
      BY <1>3, <2>1, <3>1
    <3>2. CASE /\ mat # None /\ admission = None
               /\ admission' = [model |-> adm[a].model, hash |-> adm[a].plan.hash]
               /\ telemetry' = telemetry + 1
      <4>1. /\ mat.status = "materialized" /\ adm[a].plan = mat.plan
            /\ adm[a].plan \in Plans /\ adm[a].model \in Models
            /\ \A r \in RoleSet : mat.plan.files[r] \in Sound
        BY <1>1, <1>2, <2>1, <3>2 DEF RowsInv, AdmittersSound
      <4>2. admission' \in AdmissionRow /\ admission'.hash = mat.plan.hash
        BY <3>2, <4>1 DEF AdmissionRow
      <4>3. admission' # None
        BY <4>2 DEF ArchiveConstants
      <4>4. telemetry = 0
        BY <1>1, <3>2 DEF RowsInv, AdmissionTruthful
      <4> QED
        BY <2>1, <3>2, <4>1, <4>2, <4>3, <4>4 DEF AdmissionTruthful, RoleSet
    <3> QED
      BY <2>1, <3>1, <3>2
  <2> QED
    BY <1>1, <2>1, <2>2, <2>3, AdmitterStep DEF RowsInv
<1> QED
  BY <1>4, <1>5, <1>6, <1>7

\* Every step of the archive keeps the rest of the invariant.
LEMMA RowsStepInv ==
  ASSUME ArchiveConstants, ArchiveInv, [Next]_vars
  PROVE  RowsInv'
<1>1. RowsInv
  BY DEF ArchiveInv
<1>2. ASSUME UNCHANGED recVars, account' = "deleted" <=> account = "deleted" PROVE RowsInv'
  BY <1>1, <1>2 DEF RowsInv, recVars, ArchiveShape, RowLasts, CompletersSound, AdmittersSound,
     MaterializedSound, AdmissionTruthful, RoleSet, InspectionSound, verifyManifestReceiptBindings
<1>3. ASSUME NEW p \in Plans, stageRecorderArchive(p) PROVE RowsInv'
  <2> DEFINE row == [plan |-> p, status |-> "staged", err |-> FALSE]
  <2>1. /\ mat' = IF mat = None THEN row ELSE mat
        /\ account = "open" /\ UNCHANGED <<account, comp, models, adm, admission, telemetry>>
    BY <1>3 DEF stageRecorderArchive
  <2>2. CASE mat # None
    BY <1>2, <2>1, <2>2 DEF recVars
  <2>3. CASE mat = None
    <3>5. row \in MatRow /\ row.status = "staged"
      BY DEF MatRow
    <3>1. row \in MatRow /\ row # None /\ row.status = "staged"
      BY <3>5 DEF ArchiveConstants
    <3>2. /\ \A c \in Completers : comp[c].pc = "idle"
          /\ \A a \in Admitters : adm[a].pc = "idle"
      BY <1>1, <2>1, <2>3 DEF RowsInv, RowLasts
    <3>3. admission = None
      BY <1>1, <2>3 DEF RowsInv, AdmissionTruthful
    <3>4. mat' = row
      BY <2>1, <2>3
    <3> HIDE DEF row
    <3> QED
      BY <1>1, <2>1, <3>1, <3>2, <3>3, <3>4 DEF RowsInv, ArchiveShape, RowLasts,
         CompletersSound, AdmittersSound, MaterializedSound, AdmissionTruthful
  <2> QED
    BY <2>2, <2>3
<1>4. ASSUME NEW m \in Models, NEW h \in Hashes, NEW s \in {"admitted", "draft"},
             updateModelContract(m, h, s)
      PROVE  RowsInv'
  <2>1. /\ models' = [models EXCEPT ![m] = [status |-> s, hash |-> h]]
        /\ UNCHANGED <<account, mat, comp, adm, admission, telemetry>>
    BY <1>4 DEF updateModelContract, upVars
  <2>2. models' \in [Models -> [status : {"admitted", "draft"}, hash : Hashes]]
    BY <1>1, <2>1 DEF RowsInv, ArchiveShape
  <2> QED
    BY <1>1, <2>1, <2>2 DEF RowsInv, ArchiveShape, RowLasts, CompletersSound, AdmittersSound,
       MaterializedSound, AdmissionTruthful, RoleSet, InspectionSound,
       verifyManifestReceiptBindings
<1>5. ASSUME purgeCommit PROVE RowsInv'
  <2>1. /\ account = "emptied" /\ UNCHANGED <<comp, models, adm>>
        /\ \/ account' = "deleted" /\ mat' = None /\ admission' = None /\ telemetry' = 0
           \/ account' = "open" /\ UNCHANGED <<mat, admission, telemetry>>
    BY <1>5 DEF purgeCommit, deleteCommit
  <2>2. CASE account' = "open" /\ UNCHANGED <<mat, admission, telemetry>>
    BY <1>2, <2>1, <2>2 DEF recVars
  <2>3. CASE account' = "deleted" /\ mat' = None /\ admission' = None /\ telemetry' = 0
    BY <1>1, <2>1, <2>3 DEF RowsInv, ArchiveShape, RowLasts, CompletersSound, AdmittersSound,
       MaterializedSound, AdmissionTruthful, RoleSet, InspectionSound,
       verifyManifestReceiptBindings
  <2> QED
    BY <2>1, <2>2, <2>3
<1>6. ASSUME Uploads PROVE RowsInv'
  <2>1. UNCHANGED recVars /\ (account' = "deleted" <=> account = "deleted")
    BY <1>6 DEF Uploads, PutThroughUrl, inspectStoredObject, getOwnedObjectBlob,
       completeObjectBlobUpload, completeFind, deleteUserData, deleteStoredObjects
  <2> QED
    BY <1>2, <2>1
<1>7. CASE UNCHANGED vars
  BY <1>2, <1>7 DEF vars, upVars
<1>8. CASE Next
  BY <1>3, <1>4, <1>5, <1>6, <1>8, CompletionRows, AdmissionRows DEF Next
<1> QED
  BY <1>7, <1>8

LEMMA ArchiveInvInit == ArchiveConstants /\ Init => ArchiveInv
<1> SUFFICES ASSUME ArchiveConstants, Init PROVE ArchiveInv
  OBVIOUS
<1>1. UploadInv
  BY UploadInvInit DEF Init, ArchiveConstants
<1>2. FilesAsPlanned /\ policy = IdlePolicy
  BY DEF Init, UploadInit, FilesAsPlanned
<1>3. ArchiveShape
  <2>1. Len(Roles) \in Nat
    BY DEF ArchiveConstants
  <2>2. 1 \in 1..(Len(Roles) + 1)
    BY <2>1
  <2>3. models \in [Models -> [status : {"admitted", "draft"}, hash : Hashes]]
    BY DEF Init
  <2> QED
    BY <2>2, <2>3 DEF Init, ArchiveShape, IdleComp, IdleAdm
<1>4. RowLasts /\ CompletersSound /\ AdmittersSound /\ MaterializedSound /\ AdmissionTruthful
  BY DEF Init, RowLasts, CompletersSound, AdmittersSound, MaterializedSound, AdmissionTruthful,
         IdleComp, IdleAdm
<1> QED
  BY <1>1, <1>2, <1>3, <1>4 DEF ArchiveInv, RowsInv

LEMMA ArchiveInvStep == ArchiveConstants /\ ArchiveInv /\ [Next]_vars => ArchiveInv'
  BY ArchiveUploads, RowsStepInv DEF ArchiveInv

\* What the invariant says of the archive.
LEMMA ArchiveMeaning ==
  ASSUME ArchiveConstants, ArchiveInv
  PROVE  RecTypeOK /\ MaterializedTruthful /\ MaterializedShowsNoError /\ AdmissionTruthful
<1>1. RecTypeOK
  BY DEF ArchiveInv, RowsInv, ArchiveShape, RecTypeOK, MatRow
<1>2. MaterializedTruthful
  <2> SUFFICES ASSUME mat # None, mat.status = "materialized"
               PROVE  /\ Describes[mat.plan.files["manifest"]] = mat.plan
                      /\ \A r \in RoleSet : LET o == store[<<"recorder", mat.plan.files[r]>>]
                                            IN  o # None => o.content = mat.plan.files[r]
    BY DEF MaterializedTruthful
  <2>1. mat.plan \in Plans /\ verifyManifestReceiptBindings(mat.plan)
    BY DEF ArchiveInv, RowsInv, ArchiveShape, MatRow, MaterializedSound
  <2>2. \A r \in RoleSet : <<"recorder", mat.plan.files[r]>> \in ObjectKeys
    BY <2>1, PlannedFile DEF ObjectKeys, ArchiveConstants
  <2> QED
    BY <2>1, <2>2 DEF ArchiveInv, FilesAsPlanned, verifyManifestReceiptBindings
<1>3. MaterializedShowsNoError
  BY DEF ArchiveInv, RowsInv, MaterializedSound, MaterializedShowsNoError
<1> QED
  BY <1>1, <1>2, <1>3 DEF ArchiveInv, RowsInv

\* What a step may do to the archive's row and its admission.
LEMMA ArchiveSteps ==
  ASSUME ArchiveConstants, ArchiveInv, Next
  PROVE  AdmittedForCurrentModel /\ ArchiveMonotone
<1>1. RowsInv
  BY DEF ArchiveInv
<1>2. ASSUME UNCHANGED <<mat, admission>> PROVE AdmittedForCurrentModel /\ ArchiveMonotone
  BY <1>2 DEF AdmittedForCurrentModel, ArchiveMonotone
<1>3. ASSUME NEW p \in Plans, stageRecorderArchive(p)
      PROVE  AdmittedForCurrentModel /\ ArchiveMonotone
  <2>1. (mat # None => mat' = mat) /\ UNCHANGED admission
    BY <1>3 DEF stageRecorderArchive
  <2> QED
    BY <2>1 DEF AdmittedForCurrentModel, ArchiveMonotone
<1>4. ASSUME NEW c \in Completers,
             \/ completeBegin(c) \/ completeInspect(c) \/ completeFile(c) \/ completeBind(c)
             \/ completeRecorderArchive(c)
      PROVE  AdmittedForCurrentModel /\ ArchiveMonotone
  <2>1. RowMoves /\ UNCHANGED admission
    BY <1>4, CompletionRows DEF completeBegin, completeInspect, completeFile, completeBind,
       completeRecorderArchive
  <2> QED
    BY <2>1 DEF AdmittedForCurrentModel, ArchiveMonotone, RowMoves
<1>5. ASSUME NEW a \in Admitters, admitRecorderArchive(a)
      PROVE  AdmittedForCurrentModel /\ ArchiveMonotone
  <2>1. /\ mat' = mat
        /\ \/ admission' = admission
           \/ /\ admission = None
              /\ admission' = [model |-> adm[a].model, hash |-> adm[a].plan.hash]
              /\ models[adm[a].model].status = "admitted"
              /\ models[adm[a].model].hash = adm[a].plan.hash
    BY <1>5 DEF admitRecorderArchive, Admissible, requireAdmittedModelProof
  <2> QED
    BY <2>1 DEF AdmittedForCurrentModel, ArchiveMonotone
<1>6. CASE purgeCommit
  <2>1. \/ account' = "deleted" /\ admission' = None
        \/ UNCHANGED <<mat, admission>>
    BY <1>6 DEF purgeCommit
  <2> QED
    BY <1>2, <2>1 DEF AdmittedForCurrentModel, ArchiveMonotone
<1> QED
  BY <1>2, <1>3, <1>4, <1>5, <1>6 DEF Next, admitCheckBlobs, streamPrivateArchive, admitBegin,
     updateModelContract, Uploads, recVars

-----------------------------------------------------------------------------
(* Theorems: recorder archives *)

\* MaterializedTruthful, MaterializedShowsNoError and AdmissionTruthful, for any number
\* of racing completions, admissions, single-blob completions and model edits: a
\* materialized archive is what its manifest says and shows no error, and one is admitted
\* with exactly one telemetry log, its files judged sound; the blob rows behind it are
\* as sound as the uploads' own (completeRecorderArchive, admitRecorderArchive).
THEOREM ArchiveTruthful ==
  ASSUME ArchiveConstants
  PROVE  Spec => [](RecTypeOK /\ CompleteMeansVerified /\ MaterializedTruthful
                      /\ MaterializedShowsNoError /\ AdmissionTruthful)
<1>1. Init => ArchiveInv
  BY ArchiveInvInit
<1>2. ArchiveInv /\ [Next]_vars => ArchiveInv'
  BY ArchiveInvStep
<1>3. ArchiveInv => RecTypeOK /\ CompleteMeansVerified /\ MaterializedTruthful
                      /\ MaterializedShowsNoError /\ AdmissionTruthful
  BY ArchiveMeaning, UploadRowsVerified DEF ArchiveInv, ArchiveConstants
<1> QED
  BY <1>1, <1>2, <1>3, PTL DEF Spec

\* AdmittedForCurrentModel and ArchiveMonotone, for every step: the transaction that
\* admits reads the model again, and neither a slower completion nor a second request
\* replaces a plan, a materialization or an admission (admitRecorderArchive,
\* completeRecorderArchive).
THEOREM ArchiveOneWay ==
  ASSUME ArchiveConstants
  PROVE  Spec => [][AdmittedForCurrentModel /\ ArchiveMonotone]_vars
<1>1. Init => ArchiveInv
  BY ArchiveInvInit
<1>2. ArchiveInv /\ [Next]_vars => ArchiveInv'
  BY ArchiveInvStep
<1>3. ArchiveInv /\ [Next]_vars => [AdmittedForCurrentModel /\ ArchiveMonotone]_vars
  BY ArchiveSteps
<1> QED
  BY <1>1, <1>2, <1>3, PTL DEF Spec
=============================================================================
