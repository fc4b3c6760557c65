---------------------------- MODULE ObjectUpload ----------------------------
(***************************************************************************)
(* Object blobs of one owner: the declaration rows of object_blobs, the    *)
(* S3-compatible store behind them, the presigned URLs that outlive the    *)
(* request that issued them, the completion requests that verify what was  *)
(* stored, the gateway's own policy writer, and account deletion, which    *)
(* removes stored payloads inside an open database transaction.            *)
(*                                                                         *)
(* A payload is named by its digest, so a content value stands for both    *)
(* the bytes and their SHA-256; SizeOf is its length.  Cache keys are      *)
(* owner scoped and object keys are derived from the digest, so two rows   *)
(* that declare the same digest share one stored object.                   *)
(***************************************************************************)
EXTENDS Naturals, FiniteSets

CONSTANTS Keys,        \* cache keys the owner registers under
          Contents,    \* payloads, identified by digest
          Types,       \* media types
          Purposes,    \* purposes a client may name, "policy-onnx" among them
          SizeOf,      \* SizeOf[c]: byte length of payload c
          DigestKey,   \* DigestKey[c]: the cache key "sha256:c", the default one
          PolicyType,  \* application/octet-stream
          Reqs,        \* concurrent completion requests
          Enforces,    \* does the store check the signed checksum of a PUT?
          None         \* absent row, object, checksum or error

(* Lengths that can be declared; 0 is one no payload has.                  *)
Sizes == {SizeOf[c] : c \in Contents} \cup {0}

(* What a client declares when it registers a blob.                        *)
Decls == [sha : Contents, size : Sizes, type : Types]

(* users/<owner>/<purpose>/<digest>.                                       *)
ObjectKeys == Purposes \X Contents

(* A row of object_blobs; obj and decl never change after insertion.       *)
Rows == [obj : ObjectKeys, decl : Decls,
         status : {"staged", "complete"}, err : {None, "mismatch"}]

(* A stored object; sum is the checksum the store reports on HEAD.         *)
Objects == [content : Contents, type : Types, sum : Contents \cup {None}]

(* HEAD's answer: what inspectStoredObject returns.                        *)
Inspections == [size : Sizes, type : Types, sha : Contents \cup {None}]

VARIABLES blobs,    \* cache key -> row, or None
          store,    \* object key -> object, or None
          urls,     \* outstanding presigned uploads: <<object key, digest>>
          req,      \* completion request -> its progress
          policy,   \* progress of the gateway's policy writer
          account   \* "open", "purging", "emptied" or "deleted"

upVars == <<blobs, store, urls, req, policy, account>>

IdleReq == [pc |-> "idle", key |-> None, decl |-> None, insp |-> None]
IdlePolicy == [pc |-> "idle", content |-> None]

TypeOK ==
  /\ blobs \in [Keys -> Rows \cup {None}]
  /\ store \in [ObjectKeys -> Objects \cup {None}]
  /\ urls \subseteq ObjectKeys \X Contents
  /\ req \in [Reqs -> [pc : {"idle", "found", "inspected", "read"},
                       key : Keys \cup {None},
                       decl : Decls \cup {None},
                       insp : Inspections \cup {None}]]
  /\ policy \in [pc : {"idle", "stored"}, content : Contents \cup {None}]
  /\ account \in {"open", "purging", "emptied", "deleted"}

UploadInit ==
  /\ blobs = [k \in Keys |-> None]
  /\ store = [o \in ObjectKeys |-> None]
  /\ urls = {}
  /\ req = [r \in Reqs |-> IdleReq]
  /\ policy = IdlePolicy
  /\ account = "open"

(***************************************************************************)
(* The deletion transaction locks the owner and the rows it purges: until  *)
(* it ends, an insert waits on the owner and an update waits on the row.   *)
(***************************************************************************)
DeletionRunning == account \in {"purging", "emptied"}

(***************************************************************************)
(* POST /v1/blobs: insert the declaration, or find the identical one (the  *)
(* purpose is not compared), and presign a PUT for the row's object.  A    *)
(* key bound to another declaration is a 409.                              *)
(***************************************************************************)
Declared(k, p, d) ==
  IF blobs[k] # None THEN blobs[k]
  ELSE [obj |-> <<p, d.sha>>, decl |-> d, status |-> "staged", err |-> None]

registerObjectBlob(k, p, d) ==
  /\ account = "open"
  /\ blobs[k] # None => blobs[k].decl = d
  /\ blobs' = [blobs EXCEPT ![k] = Declared(k, p, d)]
  /\ urls' = urls \cup {<<Declared(k, p, d).obj, d.sha>>}
  /\ UNCHANGED <<store, req, policy, account>>

(* POST /v1/blobs/:id/access with action "upload": a fresh URL, whatever   *)
(* the status of the row.  The reads see the rows until deletion commits.  *)
presignObjectAccess(k) ==
  /\ blobs[k] # None
  /\ urls' = urls \cup {<<blobs[k].obj, blobs[k].decl.sha>>}
  /\ UNCHANGED <<blobs, store, req, policy, account>>

(***************************************************************************)
(* The client PUTs through a presigned URL.  The signature covers the      *)
(* checksum but not the content-type header.  A store that enforces the    *)
(* checksum takes only the declared bytes and reports their digest; one    *)
(* that ignores it takes anything and reports none.                        *)
(***************************************************************************)
Sum(c) == IF Enforces THEN c ELSE None

PutThroughUrl(u, c, t) ==
  /\ u \in urls
  /\ Enforces => c = u[2]
  /\ store' = [store EXCEPT ![u[1]] = [content |-> c, type |-> t, sum |-> Sum(c)]]
  /\ UNCHANGED <<blobs, urls, req, policy, account>>

UrlExpires(u) ==
  /\ u \in urls
  /\ urls' = urls \ {u}
  /\ UNCHANGED <<blobs, store, req, policy, account>>

(***************************************************************************)
(* POST /v1/blobs/:id/complete in the order the route awaits: read the     *)
(* row, HEAD the object, read the row again, then one conditional UPDATE.  *)
(***************************************************************************)
completeFind(r, k) ==
  /\ req[r].pc = "idle"
  /\ blobs[k] # None
  /\ req' = [req EXCEPT ![r] = [IdleReq EXCEPT !.pc = "found", !.key = k]]
  /\ UNCHANGED <<blobs, store, urls, policy, account>>

Inspect(o) == [size |-> SizeOf[o.content], type |-> o.type, sha |-> o.sum]

(* The row named the object when it was found; rows never move.            *)
inspectStoredObject(r) ==
  /\ req[r].pc = "found"
  /\ LET row == blobs[req[r].key]
         o == IF row = None THEN None ELSE store[row.obj]
     IN  req' = [req EXCEPT ![r] = IF o = None THEN IdleReq
                                   ELSE [@ EXCEPT !.pc = "inspected", !.insp = Inspect(o)]]
  /\ UNCHANGED <<blobs, store, urls, policy, account>>

getOwnedObjectBlob(r) ==
  /\ req[r].pc = "inspected"
  /\ req' = [req EXCEPT ![r] = IF blobs[req[r].key] = None THEN IdleReq
                               ELSE [@ EXCEPT !.pc = "read", !.decl = blobs[req[r].key].decl]]
  /\ UNCHANGED <<blobs, store, urls, policy, account>>

(* Mutant: the digest is compared only when the store reports one.         *)
MatchesIfReported(insp, d) ==
  insp.size = d.size /\ insp.type = d.type /\ insp.sha \in {None, d.sha}

Matches(insp, d) == insp.size = d.size /\ insp.type = d.type /\ insp.sha = d.sha

(* The conditional UPDATE: a row that is gone or carries another           *)
(* declaration is a 409 and nothing is written.                            *)
Verified(row, insp, d) ==
  IF row = None THEN None
  ELSE IF row.decl # d THEN row
  ELSE IF Matches(insp, d) THEN [row EXCEPT !.status = "complete", !.err = None]
  ELSE [row EXCEPT !.status = "staged", !.err = "mismatch"]

completeObjectBlobUpload(r) ==
  /\ req[r].pc = "read"
  /\ ~DeletionRunning
  /\ blobs' = [blobs EXCEPT ![req[r].key] = Verified(@, req[r].insp, req[r].decl)]
  /\ req' = [req EXCEPT ![r] = IdleReq]
  /\ UNCHANGED <<store, urls, policy, account>>

(***************************************************************************)
(* materializeJobOutput, policy branch: put the bytes, compare the store's *)
(* answer, then bind a complete row under the digest's own cache key.  The *)
(* insert fails once the owner is gone; the object stays behind.           *)
(***************************************************************************)
PolicyRow(c) ==
  [obj |-> <<"policy-onnx", c>>, decl |-> [sha |-> c, size |-> SizeOf[c], type |-> PolicyType],
   status |-> "complete", err |-> None]

putStoredObject(c) ==
  /\ policy.pc = "idle"
  /\ account # "deleted"
  /\ store' = [store EXCEPT ![<<"policy-onnx", c>>] =
                 [content |-> c, type |-> PolicyType, sum |-> Sum(c)]]
  /\ policy' = [pc |-> "stored", content |-> c]
  /\ UNCHANGED <<blobs, urls, req, account>>

upsertCompletedPolicyBlob ==
  LET k == DigestKey[policy.content]
      row == PolicyRow(policy.content)
      bound == blobs[k] # None /\ (blobs[k].obj # row.obj \/ blobs[k].decl # row.decl)
  IN  /\ policy.pc = "stored"
      /\ ~DeletionRunning
      /\ blobs' = IF account = "deleted" \/ bound THEN blobs ELSE [blobs EXCEPT ![k] = row]
      /\ policy' = IdlePolicy
      /\ UNCHANGED <<store, urls, req, account>>

(***************************************************************************)
(* deleteUserData: one serializable transaction that locks the owner,      *)
(* reads the object keys, purges the rows, removes the payloads from the   *)
(* store and commits.  A storage failure rolls the rows back; payloads     *)
(* already removed stay removed.                                           *)
(***************************************************************************)
deleteUserData ==
  /\ account = "open"
  /\ account' = "purging"
  /\ UNCHANGED <<blobs, store, urls, req, policy>>

BoundObjects == {blobs[k].obj : k \in {j \in Keys : blobs[j] # None}}

deleteStoredObjects(gone) ==
  /\ account = "purging"
  /\ gone \subseteq BoundObjects
  /\ store' = [o \in ObjectKeys |-> IF o \in gone THEN None ELSE store[o]]
  /\ account' = IF gone = BoundObjects THEN "emptied" ELSE "open"
  /\ UNCHANGED <<blobs, urls, req, policy>>

deleteCommit ==
  /\ account = "emptied"
  /\ \/ account' = "deleted" /\ blobs' = [k \in Keys |-> None]
     \/ account' = "open" /\ UNCHANGED blobs
  /\ UNCHANGED <<store, urls, req, policy>>

UploadNext ==
  \/ \E k \in Keys : \/ presignObjectAccess(k)
                     \/ \E p \in Purposes, d \in Decls : registerObjectBlob(k, p, d)
  \/ \E u \in urls : UrlExpires(u) \/ \E c \in Contents, t \in Types : PutThroughUrl(u, c, t)
  \/ \E r \in Reqs : \/ inspectStoredObject(r)
                     \/ getOwnedObjectBlob(r)
                     \/ completeObjectBlobUpload(r)
                     \/ \E k \in Keys : completeFind(r, k)
  \/ \E c \in Contents : putStoredObject(c)
  \/ upsertCompletedPolicyBlob
  \/ deleteUserData
  \/ \E gone \in SUBSET BoundObjects : deleteStoredObjects(gone)
  \/ deleteCommit

UploadSpec == UploadInit /\ [][UploadNext]_upVars

-----------------------------------------------------------------------------
(***************************************************************************)
(* A row marked complete has the declared bytes behind it: whatever is     *)
(* stored under its object key is the payload it declares, at the declared *)
(* length, although the presigned URLs issued before completion stay       *)
(* usable, completions race each other with inspections taken earlier, two *)
(* rows may share one object, and the gateway writes objects of its own    *)
(* (completeObjectBlobUpload, upsertCompletedPolicyBlob).  The object may  *)
(* be absent: a deletion that rolled back has removed it.  A store that    *)
(* ignores checksums reports none, and then only the gateway's own writes  *)
(* complete a row.                                                         *)
(***************************************************************************)
CompleteMeansVerified ==
  \A k \in Keys :
    blobs[k] # None /\ blobs[k].status = "complete" /\ Enforces =>
      LET o == store[blobs[k].obj]
      IN  o # None => o.content = blobs[k].decl.sha /\ SizeOf[o.content] = blobs[k].decl.size

(***************************************************************************)
(* A client's declaration is never completed on the word of a store that   *)
(* does not verify checksums: there, a complete row is one the gateway     *)
(* wrote itself, under the digest's own key (completeObjectBlobUpload).    *)
(***************************************************************************)
UnverifiedStaysStaged ==
  \A k \in Keys :
    blobs[k] # None /\ blobs[k].status = "complete" /\ ~Enforces =>
      \E c \in Contents : k = DigestKey[c] /\ blobs[k] = PolicyRow(c)

(***************************************************************************)
(* Every row names the object its declaration is stored under, so a URL or *)
(* an inspection for the row is about the declared digest; rows that name  *)
(* one object declare one digest (registerObjectBlob, defaultObjectKey).   *)
(***************************************************************************)
RowsNameTheirDigest ==
  /\ \A k \in Keys : blobs[k] # None => blobs[k].obj[2] = blobs[k].decl.sha
  /\ \A u \in urls : u[1][2] = u[2]

(***************************************************************************)
(* A declaration is written once: no later registration, completion or     *)
(* policy delivery changes what a row declares or where it is stored, and  *)
(* a deleted account never regains a row (the conflict clauses of          *)
(* registerObjectBlob and upsertCompletedPolicyBlob, and the re-check of   *)
(* completeObjectBlobUpload).                                              *)
(***************************************************************************)
DeclarationsImmutable ==
  \A k \in Keys :
    /\ blobs[k] # None /\ blobs'[k] # None =>
         blobs'[k].decl = blobs[k].decl /\ blobs'[k].obj = blobs[k].obj
    /\ account = "deleted" => blobs'[k] = None
=============================================================================
