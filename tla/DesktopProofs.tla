---------------------------- MODULE DesktopProofs ----------------------------
(***************************************************************************)
(* Machine-checked safety of the desktop shell and its panels: the         *)
(* recorder, for any rigs, models, devices and capture directories, the    *)
(* import of an archive, for any directories, contents and models, and the *)
(* rehearsal of a deployment, for any rigs, models and jobs; each for any  *)
(* number of page loads and starts.  And of the studio page: the playback  *)
(* of a policy, for any controllers, sessions and frames, the stage, for   *)
(* any overlapping operations, the panels, for any courses and handlers,   *)
(* and the replay of a ghost trace, for any overlays and times.            *)
(***************************************************************************)
EXTENDS DesktopCapture, ArchiveImport, DeploymentLadder, PolicyPlayback, StudioStage,
        StudioPanels, GhostReplay, FiniteSetTheorems, NaturalsInduction,
        WellFoundedInduction, TLAPS

-----------------------------------------------------------------------------
(* The recorder panel and the shell's recorder *)

Descs == {DescOf[d] : d \in Devices} \cup {None}
Custodies == [auth : Auths, model : Models, idPort : Ports, desc : Descs, idDesc : Descs,
              pre : Devices]
ActiveRows == [art : Artifacts, dir : Dirs, hash : Hashes, port : Ports, at : 0..MaxTime,
               failed : BOOLEAN, cust : Custodies \cup {None}]
ArchiveRows == [done : BOOLEAN, art : Artifacts, hash : Hashes, port : Ports, at : 0..MaxTime]
StatusRows == [state : {"inactive"}] \cup
              [state : {"finished", "recording"}, art : Artifacts, dir : Dirs, hash : Hashes,
               port : Ports, at : 0..MaxTime]

\* What the shell can be asked.
CustodyRequests == [art : Artifacts, dir : Dirs, hash : Hashes, port : Ports, idPort : Ports,
                    model : Models]
Commands == [page : Nat, kind : {"status", "stop"}] \cup [page : Nat, kind : {"start"}, req : Requests]
            \cup [page : Nat, kind : {"custody-start"}, req : CustodyRequests]
            \cup [page : Nat, kind : {"custody-stop"}, auth : {x.id : x \in Auths}]
Starts == {"start", "custody-start"}
Stops == {"stop", "custody-stop"}

\* What a handler of the panel keeps while it waits.
Calls == [kind : {"refresh", "recover"}] \cup [kind : {"start"}, req : Requests]
         \cup [kind : {"stop"}, expected : StatusRows, dir : Dirs \cup {None}]
         \cup [kind : {"custody-stop"}, expected : StatusRows, dir : Dirs \cup {None}, model : Models,
               auth : {x.id : x \in Auths}]
         \cup [kind : {"after"}, dir : Dirs \cup {None}]

\* The absent value is no capture, no archive and no call.
CaptureConstants ==
  /\ MaxTime \in Nat /\ MaxReloads \in Nat
  /\ None \notin ActiveRows /\ None \notin ArchiveRows /\ None \notin Calls

UiTypes ==
  /\ ui = [status |-> ui.status, receipt |-> ui.receipt, proof |-> ui.proof, dir |-> ui.dir,
           custody |-> ui.custody, model |-> ui.model, path |-> ui.path, call |-> ui.call]
  /\ ui.status \in StatusRows \cup {None} /\ ui.dir \in Dirs \cup {None}
  /\ ui.model \in Models \cup {None} /\ ui.call \in Calls \cup {None}
  /\ ui.receipt # None => Capture(ui.receipt)

CaptureTypes ==
  /\ active \in ActiveRows \cup {None} /\ archives \in [Dirs -> ArchiveRows \cup {None}]
  /\ authFile \in Auths /\ plugged \in [Ports -> Devices \cup {None}]
  /\ now \in 0..MaxTime /\ page \in 0..MaxReloads
  /\ proofFile # None => Capture(proofFile) /\ proofFile.dir \in Dirs
  /\ UiTypes

Complete(d) == d \in Dirs /\ archives[d] # None /\ archives[d].done

\* The archive of the capture under way is there, is its own, and is not complete.
RecorderSound ==
  active # None => /\ archives[active.dir] # None /\ ~archives[active.dir].done
                   /\ Same(archives[active.dir], active)

OfferSound == ui.path # None => Complete(ui.path)

\* The command the panel waits for is the last one, those before it are of earlier pages,
\* and only the first can be anything but a status: while it is a start there is time left.
CommandsSound ==
  /\ cmds \in Seq(Commands) /\ Len(cmds) <= page + 1
  /\ \A i \in 1..Len(cmds) : /\ i < Len(cmds) => cmds[i].page < page
                             /\ i > 1 => cmds[i].kind = "status"
                             /\ cmds[i].kind \in Starts => now < MaxTime
  /\ cmds # <<>> => inbox = None /\ Busy /\ cmds[Len(cmds)].page = page
  /\ inbox # None => Busy
  /\ Len(cmds) > 1 => ui.status = None /\ ui.call.kind = "refresh"

\* A status that names the shell's capture, or none if there is none.
NamesCapture(s, c) ==
  /\ s \in StatusRows
  /\ s.state = "inactive" <=> c = None
  /\ c # None => Same(s, c) /\ s.dir = c.dir

Names(s) == NamesCapture(s, active)

InStep ==
  ui.status # None => Names(ui.status) /\ (active # None => ui.dir = active.dir)

\* The command under way is the one of the handler's call.
CommandOf(c, call) ==
  /\ call.kind \in {"refresh", "after", "recover"} => c.kind = "status"
  /\ call.kind = "start" => /\ c.kind \in Starts
                            /\ c.req.art = call.req.art /\ c.req.dir = call.req.dir
                            /\ c.req.hash = call.req.hash
  /\ call.kind \in Stops => c.kind = call.kind

\* What holds while a handler waits, by what it waits for.
CallsSound ==
  /\ ~Busy => InStep
  /\ cmds # <<>> => CommandOf(cmds[Len(cmds)], ui.call)
  /\ Busy => /\ ui.call.kind = "refresh" => InStep
             /\ ui.call.kind = "start" => /\ ui.dir = ui.call.req.dir
                                          /\ (cmds # <<>> => active = None /\ InStep)
             /\ ui.call.kind \in Stops /\ active # None =>
                  ui.dir = active.dir /\ ui.call.dir = active.dir
             /\ ui.call.kind = "after" => active = None /\ Complete(ui.call.dir)
             /\ ui.call.kind = "recover" => (active # None => ui.dir = active.dir)

\* What the answer to each call says.
ReplySound ==
  inbox # None =>
    /\ ui.call.kind \in {"refresh", "after", "recover"} =>
         inbox.kind = "status" /\ Names(inbox.status)
    /\ ui.call.kind = "start" =>
         \/ inbox.kind = "error" /\ InStep
         \/ /\ inbox.kind = "status" /\ Names(inbox.status)
            /\ startDesktopRecorder(ui.call, inbox.status)
    /\ ui.call.kind \in Stops =>
         /\ inbox.kind \in {"error", "receipt", "proof"}
         /\ inbox.kind # "error" => active = None /\ Complete(ui.call.dir)
         /\ inbox.kind = "receipt" => Capture(inbox.receipt)
         /\ inbox.kind = "proof" => inbox.proof = proofFile

\* The inductive invariant of a recording.
CaptureInv ==
  /\ CaptureTypes /\ RecorderSound /\ ProofContinuity /\ OfferSound
  /\ CommandsSound /\ CallsSound /\ ReplySound

LEMMA CaptureInit ==
  ASSUME CaptureConstants, CapInit
  PROVE CaptureInv
<1> DEFINE c == [page |-> 0, kind |-> "status"]
           r == [kind |-> "refresh"]
<1>1. /\ ui = [status |-> None, receipt |-> None, proof |-> None, dir |-> None, custody |-> FALSE,
               model |-> None, path |-> None, call |-> r]
      /\ cmds = <<c>> /\ c \in Commands /\ r \in Calls
  BY DEF CapInit, IdleUi, Commands, Calls
<1>2. CaptureTypes
  <2>1. UiTypes
    BY <1>1 DEF UiTypes
  <2> QED BY <2>1 DEF CaptureConstants, CapInit, CaptureTypes
<1>3. RecorderSound /\ ProofContinuity /\ OfferSound
  BY <1>1 DEF CapInit, RecorderSound, ProofContinuity, OfferSound
<1>4. CommandsSound
  BY <1>1 DEF CaptureConstants, CapInit, CommandsSound, Busy, Starts
<1>5. CallsSound /\ ReplySound
  BY <1>1 DEF CapInit, CallsSound, ReplySound, InStep, CommandOf, Stops
<1> QED BY <1>2, <1>3, <1>4, <1>5 DEF CaptureInv

-----------------------------------------------------------------------------
(* What a command does to the recorder and its files *)

\* A capture begins in a directory that was not there.
Begins(c) ==
  /\ c.kind \in Starts /\ MayBegin(c.req)
  /\ \E cust \in Custodies \cup {None} : Begin(c.req, cust)
  /\ UNCHANGED <<proofFile, authFile>>

\* A capture ends: the archive is closed, and a proof is written if everything matches.
Ends(c) ==
  /\ c.kind \in Stops /\ active # None /\ active' = None
  /\ c.kind = "stop" => active.cust = None
  /\ \E clean \in BOOLEAN : Join(clean)
  /\ UNCHANGED <<authFile, now>>
  /\ \/ UNCHANGED proofFile
     \/ /\ archives'[active.dir].done /\ finish_custody_proof(active)
        /\ proofFile' = Proof(active)

LEMMA CommandTypes ==
  /\ \A c \in Commands : c.kind \in {"status", "stop", "start", "custody-start", "custody-stop"}
  /\ \A c \in Commands : c.kind = "start" => c.req \in Requests
  /\ \A c \in Commands : c.kind = "custody-start" => c.req \in CustodyRequests
  /\ \A c \in Commands : c.kind \in Starts =>
       c.req.art \in Artifacts /\ c.req.dir \in Dirs /\ c.req.hash \in Hashes /\ c.req.port \in Ports
BY DEF Commands, Requests, CustodyRequests, Starts

LEMMA FirstCommand ==
  ASSUME CommandsSound, Shell
  PROVE /\ Head(cmds) \in Commands /\ Head(cmds) = cmds[1]
        /\ cmds' = Tail(cmds) /\ cmds' \in Seq(Commands)
        /\ Len(cmds) \in Nat \ {0} /\ Len(cmds') = Len(cmds) - 1
        /\ \A i \in 1..Len(cmds') : cmds'[i] = cmds[i + 1]
        /\ inbox = None /\ Busy
BY DEF CommandsSound, Shell

LEMMA ShellEffect ==
  ASSUME CaptureInv, Shell
  PROVE \/ UNCHANGED <<native, now>>
        \/ Begins(Head(cmds))
        \/ Ends(Head(cmds))
<1> DEFINE c == Head(cmds)
<1>1. c \in Commands
  BY FirstCommand DEF CaptureInv
<1>2. CASE c.kind = "start" /\ start_background_recording(c)
  BY <1>2 DEF start_background_recording, Begins, Starts
<1>3. CASE c.kind = "custody-start" /\ start_custodied_background_recording(c)
  <2>1. c.req \in CustodyRequests
    BY <1>1, <1>3, CommandTypes
  <2>2. CASE UNCHANGED <<native, now>>
    BY <2>2
  <2>3. CASE ~UNCHANGED <<native, now>>
    <3> DEFINE cust == [auth |-> authFile, model |-> c.req.model, idPort |-> c.req.idPort,
                        desc |-> Desc(c.req.port), idDesc |-> Desc(c.req.idPort),
                        pre |-> plugged[c.req.idPort]]
    <3>1. /\ MayBegin(c.req) /\ plugged[c.req.idPort] # None /\ Begin(c.req, cust)
          /\ UNCHANGED <<proofFile, authFile>>
      BY <1>3, <2>3 DEF start_custodied_background_recording
    <3>2. \A p \in Ports : Desc(p) \in Descs
      BY DEF CaptureInv, CaptureTypes, Desc, Descs
    <3>3. cust \in Custodies
      BY <2>1, <3>1, <3>2 DEF Custodies, CustodyRequests, CaptureInv, CaptureTypes
    <3> QED BY <1>3, <3>1, <3>3 DEF Begins, Starts
  <2> QED BY <2>2, <2>3
<1>4. CASE c.kind = "stop" /\ stop_background_recording(c) /\ UNCHANGED now
  BY <1>4 DEF stop_background_recording, Ends, Stops, native
<1>5. CASE c.kind = "custody-stop" /\ stop_custodied_background_recording(c) /\ UNCHANGED now
  BY <1>5 DEF stop_custodied_background_recording, Ends, Stops, native
<1>6. CASE c.kind = "status" /\ recorder_status(c) /\ UNCHANGED now
  BY <1>6 DEF recorder_status
<1> QED BY <1>2, <1>3, <1>4, <1>5, <1>6 DEF Shell

\* No archive disappears, and a complete one stays as it is.
ArchivesKept ==
  \A d \in Dirs : archives[d] # None =>
    /\ archives'[d] # None /\ Same(archives[d], archives'[d])
    /\ archives[d].done => archives'[d] = archives[d]

LEMMA CaptureBegins ==
  ASSUME CaptureConstants, CaptureInv, NEW c \in Commands, Begins(c), now < MaxTime
  PROVE /\ active' \in ActiveRows /\ archives' \in [Dirs -> ArchiveRows \cup {None}]
        /\ now' \in 0..MaxTime /\ RecorderSound' /\ ArchivesKept
        /\ active'.art = c.req.art /\ active'.dir = c.req.dir /\ active'.hash = c.req.hash
        /\ active'.failed = FALSE /\ active = None
<1>1. PICK cust \in Custodies \cup {None} : Begin(c.req, cust)
  BY DEF Begins
<1>2. c.req.art \in Artifacts /\ c.req.dir \in Dirs /\ c.req.hash \in Hashes /\ c.req.port \in Ports
  BY CommandTypes DEF Begins
<1> DEFINE d == c.req.dir
           n == [done |-> FALSE, art |-> c.req.art, hash |-> c.req.hash, port |-> c.req.port,
                 at |-> now]
<1>3. /\ active = None /\ archives[d] = None /\ archives \in [Dirs -> ArchiveRows \cup {None}]
      /\ MaxTime \in Nat /\ now \in 0..MaxTime
  BY DEF Begins, MayBegin, CaptureInv, CaptureTypes, CaptureConstants
<1>4. /\ active' = [art |-> c.req.art, dir |-> d, hash |-> c.req.hash, port |-> c.req.port,
                    at |-> now, failed |-> FALSE, cust |-> cust]
      /\ archives' = [archives EXCEPT ![d] = n] /\ now' = now + 1
  BY <1>1 DEF Begin
<1>5. active' \in ActiveRows /\ n \in ArchiveRows
  BY <1>2, <1>3, <1>4 DEF ActiveRows, ArchiveRows
<1>6. archives' \in [Dirs -> ArchiveRows \cup {None}] /\ archives'[d] = n /\ n # None
      /\ \A x \in Dirs : x # d => archives'[x] = archives[x]
  BY <1>2, <1>3, <1>4, <1>5 DEF CaptureConstants
<1>7. RecorderSound'
  BY <1>4, <1>6 DEF RecorderSound, Same
<1>8. ArchivesKept
  BY <1>3, <1>6 DEF ArchivesKept, Same
<1> QED BY <1>3, <1>4, <1>5, <1>6, <1>7, <1>8

LEMMA CaptureEnds ==
  ASSUME CaptureConstants, CaptureInv, NEW c, Ends(c)
  PROVE /\ archives' \in [Dirs -> ArchiveRows \cup {None}] /\ RecorderSound' /\ ArchivesKept
        /\ active.dir \in Dirs /\ archives'[active.dir] # None
        /\ Same(archives'[active.dir], active)
<1>1. PICK clean \in BOOLEAN : Join(clean)
  BY DEF Ends
<1>2. active \in ActiveRows /\ archives \in [Dirs -> ArchiveRows \cup {None}] /\ active' = None
  BY DEF Ends, CaptureInv, CaptureTypes
<1> DEFINE d == active.dir
           a == archives[d]
           b == clean /\ ~active.failed
<1>3. /\ d \in Dirs /\ a \in ArchiveRows /\ ~a.done /\ Same(a, active)
      /\ b \in BOOLEAN
  BY <1>2 DEF ActiveRows, CaptureInv, RecorderSound, Ends
<1>4. archives' = [archives EXCEPT ![d] = [a EXCEPT !.done = b]]
  BY <1>1, <1>2, <1>3 DEF Join
<1>5. [a EXCEPT !.done = b] \in ArchiveRows /\ Same([a EXCEPT !.done = b], active)
      /\ Same(a, [a EXCEPT !.done = b])
  BY <1>3 DEF ArchiveRows, Same
<1>6. /\ archives' \in [Dirs -> ArchiveRows \cup {None}] /\ archives'[d] = [a EXCEPT !.done = b]
      /\ \A x \in Dirs : x # d => archives'[x] = archives[x]
  BY <1>2, <1>3, <1>4, <1>5
<1>7. ArchivesKept
  BY <1>3, <1>5, <1>6 DEF ArchivesKept, CaptureConstants, Same
<1>8. RecorderSound'
  BY <1>2 DEF RecorderSound
<1> QED BY <1>3, <1>5, <1>6, <1>7, <1>8 DEF CaptureConstants

\* What a proof on file or on display stands for.
ProofBacked(p) ==
  /\ archives[p.dir] # None
  /\ archives[p.dir].done /\ Same(archives[p.dir], p)
  /\ p.pre = p.post
  /\ \E a \in Auths : /\ a.id = p.auth /\ a.uid = p.pre /\ a.model = p.model
                      /\ a.art = p.art /\ a.hash = p.hash /\ a.port = p.port

LEMMA ProofParts ==
  ProofContinuity <=> /\ proofFile # None => ProofBacked(proofFile)
                      /\ ui.proof # None => /\ ProofBacked(ui.proof)
                                            /\ ui.proof = proofFile /\ ~ui.proof.promoted
BY DEF ProofContinuity, ProofBacked

\* A proof that is backed stays so.
LEMMA ProofStays ==
  ASSUME CaptureInv, ArchivesKept, proofFile' = proofFile, ui'.proof \in {None, ui.proof}
  PROVE ProofContinuity'
<1>1. ASSUME proofFile # None
      PROVE ProofBacked(proofFile)'
  <2>1. ProofBacked(proofFile) /\ proofFile.dir \in Dirs
    BY <1>1, ProofParts DEF CaptureInv, CaptureTypes
  <2>2. archives'[proofFile.dir] = archives[proofFile.dir]
    BY <2>1 DEF ProofBacked, ArchivesKept
  <2> QED BY <2>1, <2>2 DEF ProofBacked
<1>2. ui.proof # None => ui.proof = proofFile /\ ~ui.proof.promoted
  BY ProofParts DEF CaptureInv
<1>3. /\ proofFile' # None => ProofBacked(proofFile)'
      /\ ui'.proof # None => ProofBacked(ui.proof)' /\ ui'.proof = proofFile' /\ ~ui'.proof.promoted
  BY <1>1, <1>2 DEF ProofBacked
<1> QED BY <1>3 DEF ProofContinuity, ProofBacked

LEMMA OfferStays ==
  ASSUME CaptureInv, ArchivesKept, ui'.path \in {None, ui.path}
  PROVE OfferSound'
BY DEF CaptureInv, OfferSound, Complete, ArchivesKept

LEMMA CompleteStays ==
  ASSUME ArchivesKept
  PROVE \A d : Complete(d) => Complete(d)'
BY DEF ArchivesKept, Complete

LEMMA ShellNative ==
  ASSUME CaptureConstants, CaptureInv, Shell
  PROVE CaptureTypes' /\ RecorderSound' /\ ProofContinuity' /\ OfferSound' /\ ArchivesKept
<1> DEFINE c == Head(cmds)
<1>1. c \in Commands /\ (c.kind \in Starts => now < MaxTime) /\ UNCHANGED <<world, page, ui>>
  BY FirstCommand DEF CaptureInv, CommandsSound, Shell
<1>2. CASE UNCHANGED <<native, now>>
  <2>1. ArchivesKept
    BY <1>2 DEF native, ArchivesKept, Same
  <2>2. CaptureTypes' /\ RecorderSound'
    BY <1>1, <1>2 DEF native, world, CaptureInv, CaptureTypes, UiTypes, RecorderSound
  <2> QED BY <1>1, <1>2, <2>1, <2>2, ProofStays, OfferStays DEF native
<1>3. CASE Begins(c)
  <2>1. now < MaxTime
    BY <1>1, <1>3 DEF Begins
  <2>2. /\ active' \in ActiveRows /\ archives' \in [Dirs -> ArchiveRows \cup {None}]
        /\ now' \in 0..MaxTime /\ RecorderSound' /\ ArchivesKept
    BY <1>1, <1>3, <2>1, CaptureBegins
  <2>3. UNCHANGED <<proofFile, authFile>>
    BY <1>3 DEF Begins
  <2>4. CaptureTypes'
    BY <1>1, <2>2, <2>3 DEF world, CaptureInv, CaptureTypes, UiTypes
  <2> QED BY <1>1, <2>2, <2>3, <2>4, ProofStays, OfferStays
<1>4. CASE Ends(c)
  <2>1. /\ archives' \in [Dirs -> ArchiveRows \cup {None}] /\ RecorderSound' /\ ArchivesKept
        /\ active.dir \in Dirs /\ archives'[active.dir] # None /\ Same(archives'[active.dir], active)
    BY <1>4, CaptureEnds
  <2>2. active' = None /\ UNCHANGED <<authFile, now>>
    BY <1>4 DEF Ends
  <2>3. CASE UNCHANGED proofFile
    <3>1. CaptureTypes'
      BY <1>1, <2>1, <2>2, <2>3 DEF world, CaptureInv, CaptureTypes, UiTypes
    <3> QED BY <1>1, <2>1, <2>3, <3>1, ProofStays, OfferStays
  <2>4. CASE /\ archives'[active.dir].done /\ finish_custody_proof(active)
             /\ proofFile' = Proof(active)
    <3> DEFINE p == Proof(active)
    <3>1. /\ p.auth = active.cust.auth.id /\ p.model = active.cust.model /\ p.dir = active.dir
          /\ p.pre = active.cust.pre /\ p.post = plugged[active.cust.idPort]
          /\ p.art = active.art /\ p.hash = active.hash /\ p.port = active.port /\ p.at = active.at
      BY DEF Proof
    <3>2. /\ authFile \in Auths /\ authFile = active.cust.auth
          /\ plugged[active.cust.idPort] = active.cust.pre
          /\ plugged[active.cust.idPort] = authFile.uid /\ proofFile = None
          /\ authFile.art = active.art /\ authFile.model = active.cust.model
          /\ authFile.hash = active.hash /\ authFile.port = active.port
      BY <2>4 DEF finish_custody_proof, load_and_verify_authorization, validate_custody_probe,
         CaptureInv, CaptureTypes
    <3>3. active \in ActiveRows
      BY <1>4 DEF Ends, CaptureInv, CaptureTypes
    <3>4. Capture(p) /\ p.dir \in Dirs
      BY <3>1, <3>3 DEF Capture, ActiveRows
    <3>5. CaptureTypes'
      BY <1>1, <2>1, <2>2, <2>4, <3>4 DEF world, CaptureInv, CaptureTypes, UiTypes, Capture
    <3>6. \E a \in Auths : /\ a.id = p.auth /\ a.uid = p.pre /\ a.model = p.model
                           /\ a.art = p.art /\ a.hash = p.hash /\ a.port = p.port
      BY <3>1, <3>2
    <3>7. archives'[p.dir] # None /\ archives'[p.dir].done /\ Same(archives'[p.dir], p)
      BY <2>1, <2>4, <3>1 DEF Same
    <3>8. p.pre = p.post
      BY <3>1, <3>2
    <3>9. ui'.proof = None
      BY <1>1, <3>2, ProofParts DEF CaptureInv
    <3> HIDE DEF p
    <3>10. ProofContinuity'
      BY <2>4, <3>6, <3>7, <3>8, <3>9 DEF ProofContinuity, p
    <3> QED BY <1>1, <2>1, <3>5, <3>10, OfferStays
  <2> QED BY <1>4, <2>3, <2>4 DEF Ends
<1> QED BY <1>2, <1>3, <1>4, ShellEffect

-----------------------------------------------------------------------------
(* What a command answers *)

LEMMA StatusNames ==
  ASSUME CaptureConstants
  PROVE \A c \in ActiveRows \cup {None} :
          NamesCapture(StatusOf(c), c) /\ parseRecorderControlStatus(StatusOf(c))
<1>1. NamesCapture(StatusOf(None), None) /\ parseRecorderControlStatus(StatusOf(None))
  BY DEF NamesCapture, StatusOf, Inactive, StatusRows, parseRecorderControlStatus
<1>2. ASSUME NEW c \in ActiveRows
      PROVE NamesCapture(StatusOf(c), c) /\ parseRecorderControlStatus(StatusOf(c))
  <2> DEFINE s == [state |-> IF c.failed THEN "finished" ELSE "recording", art |-> c.art,
                   dir |-> c.dir, hash |-> c.hash, port |-> c.port, at |-> c.at]
  <2>1. StatusOf(c) = s /\ c # None
    BY <1>2 DEF StatusOf, CaptureConstants
  <2>2. s \in StatusRows
    BY <1>2 DEF StatusRows, ActiveRows
  <2>3. s.state # "inactive" /\ Same(s, c) /\ s.dir = c.dir
    BY DEF Same
  <2>4. DOMAIN s = {"state", "art", "dir", "hash", "port", "at"}
    OBVIOUS
  <2> HIDE DEF s
  <2> QED BY <2>1, <2>2, <2>3, <2>4 DEF NamesCapture, parseRecorderControlStatus
<1> QED BY <1>1, <1>2

\* Commands of earlier pages: nothing is shown, and nothing is answered.
LEMMA EarlierPage ==
  ASSUME CaptureConstants, CaptureInv, Shell, Head(cmds).page # page
  PROVE CommandsSound' /\ CallsSound' /\ ReplySound'
<1> DEFINE c == Head(cmds)
<1>1. /\ c \in Commands /\ c = cmds[1] /\ cmds' \in Seq(Commands)
      /\ Len(cmds) \in Nat \ {0} /\ Len(cmds') = Len(cmds) - 1
      /\ \A i \in 1..Len(cmds') : cmds'[i] = cmds[i + 1]
      /\ inbox = None /\ Busy
  BY FirstCommand DEF CaptureInv
<1>2. Len(cmds) > 1 /\ ui.status = None /\ ui.call.kind = "refresh"
  BY <1>1 DEF CaptureInv, CommandsSound
<1>3. inbox' = inbox /\ UNCHANGED <<page, ui>>
  BY DEF Shell, start_background_recording, start_custodied_background_recording,
     stop_background_recording, stop_custodied_background_recording, recorder_status, Reply
<1>4. \A i \in 1..Len(cmds') : cmds'[i].kind = "status"
  BY <1>1 DEF CaptureInv, CommandsSound
<1>5. CommandsSound'
  <2>1. \A i \in 1..Len(cmds') : i < Len(cmds') => cmds'[i].page < page
    BY <1>1 DEF CaptureInv, CommandsSound
  <2>2. Len(cmds') <= page + 1 /\ cmds'[Len(cmds')] = cmds[Len(cmds)] /\ cmds # <<>>
    BY <1>1, <1>2 DEF CaptureInv, CommandsSound, CaptureTypes
  <2>3. cmds'[Len(cmds')].page = page
    BY <2>2 DEF CaptureInv, CommandsSound
  <2> QED BY <1>1, <1>2, <1>3, <1>4, <2>1, <2>2, <2>3 DEF CommandsSound, Busy, Starts
<1>6. CallsSound'
  <2>1. cmds'[Len(cmds')] = cmds[Len(cmds)] /\ cmds # <<>>
    BY <1>1, <1>2
  <2> QED BY <1>1, <1>2, <1>3, <2>1 DEF CaptureInv, CallsSound, InStep, Busy, CommandOf, Stops
<1>7. ReplySound'
  BY <1>1, <1>3 DEF ReplySound
<1> QED BY <1>5, <1>6, <1>7

LEMMA AtMostOne ==
  \A n \in Nat \ {0} : n = 1 \/ 1 < n
OBVIOUS

\* The command of the current page is the only one, and its answer arrives.
LEMMA CurrentPage ==
  ASSUME CaptureConstants, CaptureInv, Shell, Head(cmds).page = page
  PROVE CommandsSound' /\ CallsSound' /\ ReplySound'
<1> DEFINE c == Head(cmds)
<1>1. c \in Commands /\ inbox = None /\ Busy /\ UNCHANGED <<page, ui>>
  BY FirstCommand DEF CaptureInv, Shell
<1>2. cmds' = <<>> /\ CommandOf(c, ui.call) /\ ui.call \in Calls /\ cmds # <<>>
  <2>1. Len(cmds) = 1
    <3>1. c = cmds[1] /\ Len(cmds) \in Nat \ {0} /\ page \in Nat
      BY FirstCommand DEF CaptureInv, CaptureTypes, CaptureConstants
    <3>2. 1 < Len(cmds) => cmds[1].page < page
      BY <3>1 DEF CaptureInv, CommandsSound
    <3>3. cmds[1].page = page
      BY <3>1
    <3>4. ~(1 < Len(cmds))
      BY <3>1, <3>2, <3>3
    <3> QED BY <3>1, <3>4, AtMostOne
  <2>2. cmds' = <<>> /\ c = cmds[Len(cmds)] /\ cmds # <<>>
    BY <2>1, FirstCommand DEF CaptureInv
  <2> QED BY <1>1, <2>2 DEF CaptureInv, CallsSound, CaptureTypes, UiTypes, Busy
<1>3. CommandsSound'
  BY <1>1, <1>2 DEF CommandsSound, Busy, CaptureInv, CaptureTypes
<1>4. CASE ui.call.kind \in {"refresh", "after", "recover"}
  <2>1. c.kind = "status"
    BY <1>2, <1>4 DEF CommandOf
  <2>2. UNCHANGED native /\ inbox' = [kind |-> "status", status |-> StatusOf(active)]
    BY <2>1 DEF Shell, recorder_status, Reply
  <2>3. Names(StatusOf(active))
    BY StatusNames DEF Names, CaptureInv, CaptureTypes
  <2>4. ReplySound'
    BY <1>1, <1>4, <2>2, <2>3 DEF ReplySound, Names, native, Stops
  <2>5. CallsSound'
    BY <1>1, <1>2, <1>4, <2>2 DEF CaptureInv, CallsSound, Busy, InStep, Names, Complete, native, Stops
  <2> QED BY <1>3, <2>4, <2>5
<1>5. CASE ui.call.kind = "start"
  <2>1. /\ c.kind \in Starts /\ c.req.art = ui.call.req.art /\ c.req.dir = ui.call.req.dir
        /\ c.req.hash = ui.call.req.hash
        /\ ui.dir = ui.call.req.dir /\ active = None /\ InStep
    BY <1>1, <1>2, <1>5 DEF CommandOf, CaptureInv, CallsSound
  <2>2. CallsSound'
    BY <1>1, <1>2, <1>5, <2>1 DEF CallsSound, Busy, Stops
  <2>3. \/ UNCHANGED native /\ inbox' = Error
        \/ Begins(c) /\ inbox' = [kind |-> "status", status |-> StatusOf(active')]
    <3>1. CASE c.kind = "start" /\ start_background_recording(c)
      BY <3>1 DEF start_background_recording, Reply, Begins, Starts
    <3>2. CASE c.kind = "custody-start" /\ start_custodied_background_recording(c)
      <4>1. \/ UNCHANGED native /\ inbox' = Error
            \/ /\ now' = now + 1
               /\ inbox' = [kind |-> "status", status |-> StatusOf(active')]
        BY <3>2 DEF start_custodied_background_recording, Reply, Begin
      <4>2. now' = now + 1 => Begins(c)
        BY <3>2, ShellEffect DEF Ends, Stops, CaptureInv, CaptureTypes, CaptureConstants
      <4> QED BY <4>1, <4>2
    <3> QED BY <2>1, <3>1, <3>2 DEF Shell, Starts
  <2>4. CASE UNCHANGED native /\ inbox' = Error
    <3>1. InStep'
      BY <1>1, <2>1, <2>4 DEF native, InStep, Names
    <3>2. ui' = ui /\ inbox'.kind = "error"
      BY <1>1, <2>4 DEF Error
    <3>3. ui'.call.kind = "start"
      BY <1>5, <3>2
    <3>4. /\ ui'.call.kind \notin {"refresh", "after", "recover"}
          /\ ui'.call.kind \notin Stops
      BY <3>3 DEF Stops
    <3> QED BY <1>3, <2>2, <3>1, <3>2, <3>4 DEF ReplySound, Stops
  <2>5. CASE Begins(c) /\ inbox' = [kind |-> "status", status |-> StatusOf(active')]
    <3>1. now < MaxTime
      BY <1>2, <2>1, FirstCommand DEF CaptureInv, CommandsSound
    <3>2. /\ active' \in ActiveRows /\ active'.art = c.req.art /\ active'.dir = c.req.dir
          /\ active'.hash = c.req.hash /\ active'.failed = FALSE
      BY <1>1, <2>5, <3>1, CaptureBegins
    <3> DEFINE s == StatusOf(active')
    <3>3. NamesCapture(s, active') /\ parseRecorderControlStatus(s)
      BY <3>2, StatusNames
    <3>4. s.state = "recording" /\ s.art = active'.art /\ s.dir = active'.dir /\ s.hash = active'.hash
      BY <3>2 DEF StatusOf, CaptureConstants
    <3> HIDE DEF s
    <3>5. startDesktopRecorder(ui.call, s)
      BY <2>1, <3>2, <3>3, <3>4 DEF startDesktopRecorder
    <3>6. inbox'.kind = "status" /\ inbox'.status = s /\ ui' = ui
      BY <1>1, <2>5 DEF s
    <3> QED BY <1>3, <1>5, <2>2, <3>3, <3>5, <3>6 DEF ReplySound, Names, Stops, startDesktopRecorder,
               parseRecorderControlStatus
  <2>6. ReplySound'
    BY <2>3, <2>4, <2>5
  <2> QED BY <1>3, <2>2, <2>6
<1>6. CASE ui.call.kind \in Stops
  <2>1. c.kind = ui.call.kind
    BY <1>2, <1>6 DEF CommandOf
  <2>2. active # None => ui.dir = active.dir /\ ui.call.dir = active.dir
    BY <1>1, <1>6 DEF CaptureInv, CallsSound, Stops
  <2>3. \/ UNCHANGED native /\ inbox' = Error
        \/ /\ Ends(c)
           /\ \/ inbox' = Error
              \/ archives'[active.dir].done /\ inbox' = [kind |-> "receipt", receipt |-> Receipt(active)]
              \/ /\ archives'[active.dir].done /\ proofFile' = Proof(active)
                 /\ inbox' = [kind |-> "proof", proof |-> Proof(active)]
    <3>1. CASE c.kind = "stop" /\ stop_background_recording(c) /\ UNCHANGED now
      BY <3>1 DEF stop_background_recording, Reply, Ends, Stops
    <3>2. CASE c.kind = "custody-stop" /\ stop_custodied_background_recording(c) /\ UNCHANGED now
      BY <3>2 DEF stop_custodied_background_recording, Reply, Ends, Stops
    <3> QED BY <1>6, <2>1, <3>1, <3>2 DEF Shell, Stops
  <2>4. CASE UNCHANGED native /\ inbox' = Error
    <3>1. CallsSound'
      BY <1>1, <1>2, <1>6, <2>2, <2>4 DEF CallsSound, Busy, native, Stops
    <3>2. ReplySound'
      BY <1>1, <1>6, <2>4 DEF ReplySound, Error, Stops
    <3> QED BY <1>3, <3>1, <3>2
  <2>5. CASE /\ Ends(c)
             /\ \/ inbox' = Error
                \/ archives'[active.dir].done /\ inbox' = [kind |-> "receipt", receipt |-> Receipt(active)]
                \/ /\ archives'[active.dir].done /\ proofFile' = Proof(active)
                   /\ inbox' = [kind |-> "proof", proof |-> Proof(active)]
    <3>1. active' = None /\ active # None /\ active \in ActiveRows
      BY <2>5 DEF Ends, CaptureInv, CaptureTypes
    <3>2. active.dir \in Dirs /\ archives'[active.dir] # None
      BY <2>5, CaptureEnds
    <3>3. CallsSound'
      BY <1>1, <1>2, <1>6, <3>1 DEF CallsSound, Busy, Stops
    <3>4. Capture(Receipt(active))
      BY <3>1 DEF Capture, Receipt, ActiveRows
    <3>5. archives'[active.dir].done => Complete(ui.call.dir)'
      BY <1>1, <2>2, <3>1, <3>2 DEF Complete
    <3>6. ui' = ui /\ ui.call.kind \notin {"refresh", "after", "recover", "start"}
      BY <1>1, <1>6 DEF Stops
    <3>7. ReplySound'
      <4>1. CASE inbox' = Error
        BY <3>6, <4>1 DEF ReplySound, Error
      <4>2. CASE archives'[active.dir].done /\ inbox' = [kind |-> "receipt", receipt |-> Receipt(active)]
        <5>1. inbox'.kind = "receipt" /\ inbox'.receipt = Receipt(active)
          BY <4>2
        <5> QED BY <3>1, <3>4, <3>5, <3>6, <4>2, <5>1 DEF ReplySound, Capture
      <4>3. CASE /\ archives'[active.dir].done /\ proofFile' = Proof(active)
                 /\ inbox' = [kind |-> "proof", proof |-> Proof(active)]
        <5>1. inbox'.kind = "proof" /\ inbox'.proof = proofFile'
          BY <4>3
        <5> QED BY <3>1, <3>5, <3>6, <4>3, <5>1 DEF ReplySound
      <4> QED BY <2>5, <4>1, <4>2, <4>3
    <3> QED BY <1>3, <3>3, <3>7
  <2> QED BY <2>3, <2>4, <2>5
<1>7. ui.call.kind \in {"refresh", "after", "recover", "start"} \cup Stops
  BY <1>2 DEF Calls, Stops
<1> QED BY <1>4, <1>5, <1>6, <1>7

LEMMA ShellCommands ==
  ASSUME CaptureConstants, CaptureInv, Shell
  PROVE CaptureInv'
BY ShellNative, EarlierPage, CurrentPage DEF CaptureInv
-----------------------------------------------------------------------------
(* The panel's handlers *)

LEMMA NothingUnderWay ==
  ASSUME CaptureConstants, CaptureInv, ~Busy \/ inbox # None
  PROVE /\ cmds = <<>> /\ (~Busy => inbox = None) /\ page \in Nat
        /\ \A c : Append(cmds, c) = <<c>>
<1>1. cmds = <<>> /\ (~Busy => inbox = None) /\ page \in Nat
  BY DEF CaptureInv, CommandsSound, CaptureTypes, CaptureConstants
<1>2. \A c : Append(<<>>, c) = <<c>>
  OBVIOUS
<1> QED BY <1>1, <1>2

\* A handler comes to its end.
LEMMA PanelSettles ==
  ASSUME CaptureConstants, CaptureInv, UNCHANGED <<native, world, now, page>>,
         cmds' = <<>>, inbox' = None, UiTypes', ui'.call = None, InStep', ProofContinuity', OfferSound'
  PROVE CaptureInv'
<1>1. CaptureTypes' /\ RecorderSound'
  BY DEF native, world, CaptureInv, CaptureTypes, RecorderSound
<1>2. CommandsSound'
  BY DEF CommandsSound, CaptureInv, CaptureTypes, CaptureConstants, Busy
<1>3. CallsSound' /\ ReplySound'
  BY DEF CallsSound, ReplySound, Busy
<1> QED BY <1>1, <1>2, <1>3 DEF CaptureInv

\* A handler sends a command and waits.
LEMMA PanelAsks ==
  ASSUME CaptureConstants, CaptureInv, UNCHANGED <<native, world, now, page>>,
         NEW c \in Commands, cmds' = <<c>>, c.page = page, c.kind \in Starts => now < MaxTime,
         inbox' = None, UiTypes', ui'.call # None, CallsSound', ProofContinuity', OfferSound'
  PROVE CaptureInv'
<1>1. CaptureTypes' /\ RecorderSound'
  BY DEF native, world, CaptureInv, CaptureTypes, RecorderSound
<1>2. CommandsSound'
  <2>1. page \in Nat /\ Len(cmds') = 1 /\ cmds' \in Seq(Commands) /\ cmds'[1] = c
    BY DEF CaptureInv, CaptureTypes, CaptureConstants
  <2> QED BY <2>1 DEF CommandsSound, Busy
<1>3. ReplySound'
  BY DEF ReplySound
<1> QED BY <1>1, <1>2, <1>3 DEF CaptureInv

\* What the handlers leave as it is.
LEMMA FilesStay ==
  ASSUME CaptureInv, UNCHANGED native
  PROVE /\ ArchivesKept /\ (\A s : Names(s) => Names(s)')
        /\ (ui'.proof \in {None, ui.proof} => ProofContinuity')
        /\ (ui'.path \in {None, ui.path} => OfferSound')
<1>1. ArchivesKept /\ proofFile' = proofFile /\ active' = active
  BY DEF ArchivesKept, native, Same
<1> QED BY <1>1, ProofStays, OfferStays DEF Names

LEMMA RefreshReply ==
  ASSUME CaptureConstants, CaptureInv, Deliver, ui.call.kind = "refresh", refreshReply
  PROVE CaptureInv'
<1>1. /\ inbox # None /\ inbox' = None /\ UNCHANGED <<native, world, now, page>>
      /\ cmds = <<>> /\ cmds' = <<>> /\ Busy
  BY NothingUnderWay DEF Deliver, refreshReply, Done, CaptureInv, CommandsSound
<1>2. inbox.kind = "status" /\ Names(inbox.status) /\ InStep
  BY <1>1 DEF CaptureInv, ReplySound, CallsSound
<1>3. CASE /\ parseRecorderControlStatus(inbox.status)
           /\ Done([ui EXCEPT !.status = inbox.status,
                        !.dir = IF inbox.status.state = "inactive" THEN @ ELSE inbox.status.dir])
  <2> DEFINE d == IF inbox.status.state = "inactive" THEN ui.dir ELSE inbox.status.dir
  <2>1. ui' = [status |-> inbox.status, receipt |-> ui.receipt, proof |-> ui.proof, dir |-> d,
               custody |-> ui.custody, model |-> ui.model, path |-> ui.path, call |-> None]
    BY <1>3 DEF Done, CaptureInv, CaptureTypes, UiTypes
  <2>2. inbox.status \in StatusRows /\ d \in Dirs \cup {None} /\ (active # None => d = active.dir)
    BY <1>2 DEF Names, NamesCapture, StatusRows, CaptureInv, CaptureTypes, UiTypes
  <2> HIDE DEF d
  <2>3. UiTypes' /\ ui'.call = None
    BY <2>1, <2>2 DEF UiTypes, CaptureInv, CaptureTypes, Capture
  <2>4. InStep'
    BY <1>1, <1>2, <2>1, <2>2 DEF InStep, Names, native
  <2> QED BY <1>1, <2>1, <2>3, <2>4, FilesStay, PanelSettles
<1>4. CASE Done(ui)
  <2>1. ui' = [ui EXCEPT !.call = None]
    BY <1>4 DEF Done
  <2>2. UiTypes' /\ ui'.call = None
    BY <2>1 DEF UiTypes, CaptureInv, CaptureTypes, Capture
  <2>3. ui'.status = ui.status /\ ui'.dir = ui.dir /\ ui'.proof = ui.proof /\ ui'.path = ui.path
    BY <2>1 DEF UiTypes, CaptureInv, CaptureTypes
  <2>4. InStep'
    BY <1>1, <1>2, <2>3 DEF InStep, Names, native
  <2> QED BY <1>1, <2>2, <2>3, <2>4, FilesStay, PanelSettles
<1> QED BY <1>3, <1>4 DEF refreshReply

LEMMA StartReply ==
  ASSUME CaptureConstants, CaptureInv, Deliver, ui.call.kind = "start", startReply
  PROVE CaptureInv'
<1>1. /\ inbox # None /\ inbox' = None /\ UNCHANGED <<native, world, now, page>>
      /\ cmds = <<>> /\ cmds' = <<>> /\ Busy
  BY NothingUnderWay DEF Deliver, startReply, Done, CaptureInv, CommandsSound
<1>2. ui.dir = ui.call.req.dir
  BY <1>1 DEF CaptureInv, CallsSound
<1>3. \/ inbox.kind = "error" /\ InStep
      \/ /\ inbox.kind = "status" /\ Names(inbox.status)
         /\ startDesktopRecorder(ui.call, inbox.status)
  BY <1>1 DEF CaptureInv, ReplySound
<1>4. CASE inbox.kind = "status" /\ startDesktopRecorder(ui.call, inbox.status)
  <2>1. ui' = [status |-> inbox.status, receipt |-> ui.receipt, proof |-> ui.proof, dir |-> ui.dir,
               custody |-> ui.custody, model |-> ui.model, path |-> ui.path, call |-> None]
    BY <1>4 DEF startReply, Done, CaptureInv, CaptureTypes, UiTypes
  <2>2. Names(inbox.status) /\ inbox.status.dir = ui.dir /\ inbox.status \in StatusRows
    BY <1>2, <1>3, <1>4 DEF startDesktopRecorder, Names, NamesCapture
  <2>3. UiTypes' /\ ui'.call = None
    BY <2>1, <2>2 DEF UiTypes, CaptureInv, CaptureTypes, Capture
  <2>4. InStep'
    BY <1>1, <2>1, <2>2 DEF InStep, Names, NamesCapture, native
  <2> QED BY <1>1, <2>1, <2>3, <2>4, FilesStay, PanelSettles
<1>5. CASE ~(inbox.kind = "status" /\ startDesktopRecorder(ui.call, inbox.status))
  <2>1. ui' = [ui EXCEPT !.call = None] /\ InStep
    BY <1>3, <1>5 DEF startReply, Done
  <2>2. UiTypes' /\ ui'.call = None
    BY <2>1 DEF UiTypes, CaptureInv, CaptureTypes, Capture
  <2>3. ui'.status = ui.status /\ ui'.dir = ui.dir /\ ui'.proof = ui.proof /\ ui'.path = ui.path
    BY <2>1 DEF UiTypes, CaptureInv, CaptureTypes
  <2>4. InStep'
    BY <1>1, <2>1, <2>3 DEF InStep, Names, native
  <2> QED BY <1>1, <2>2, <2>3, <2>4, FilesStay, PanelSettles
<1> QED BY <1>4, <1>5

\* A stop is followed by a reading of the status.
LEMMA AskedStatus ==
  ASSUME CaptureConstants, CaptureInv
  PROVE /\ Status \in Commands /\ Status.page = page /\ Status.kind = "status"
        /\ Recover \in Calls
        /\ \A call \in Calls : call.kind \in Stops =>
             After(call) \in Calls /\ call.dir \in Dirs \cup {None}
<1>1. page \in Nat
  BY DEF CaptureInv, CaptureTypes, CaptureConstants
<1> QED BY <1>1 DEF Status, Commands, Recover, After, Calls, Stops

LEMMA StopReply ==
  ASSUME CaptureConstants, CaptureInv, Deliver, ui.call.kind \in Stops, stopReply
  PROVE CaptureInv'
<1> DEFINE ok == \/ inbox.kind = "receipt" /\ stopDesktopRecorder(ui.call, inbox.receipt)
                 \/ inbox.kind = "proof" /\ stopDesktopCustodiedRecorder(ui.call, inbox.proof)
<1>1. /\ inbox # None /\ inbox' = None /\ UNCHANGED <<native, world, now, page>>
      /\ cmds = <<>> /\ cmds' = <<Status>> /\ Busy /\ ui.call \in Calls
  BY NothingUnderWay
  DEF Deliver, stopReply, ReadStatus, Send, CaptureInv, CommandsSound, Busy, CaptureTypes, UiTypes
<1>2. /\ active # None => ui.dir = active.dir
      /\ inbox.kind # "error" => active = None /\ Complete(ui.call.dir)
      /\ inbox.kind = "receipt" => Capture(inbox.receipt)
      /\ inbox.kind = "proof" => inbox.proof = proofFile
  BY <1>1 DEF CaptureInv, ReplySound, CallsSound
<1>3. Status.kind \notin Starts
  BY AskedStatus DEF Starts
<1>4. CASE ok
  <2> DEFINE r == IF inbox.kind = "receipt" THEN inbox.receipt ELSE ui.receipt
             p == IF inbox.kind = "proof" THEN inbox.proof ELSE ui.proof
             a == After(ui.call)
  <2>1. ui' = [status |-> ui.status, receipt |-> r, proof |-> p, dir |-> ui.dir,
               custody |-> ui.custody, model |-> ui.model, path |-> ui.path, call |-> a]
    BY <1>4 DEF stopReply, ReadStatus, CaptureInv, CaptureTypes, UiTypes
  <2>2. /\ a \in Calls /\ a # None /\ a.kind = "after" /\ a.dir = ui.call.dir
        /\ active = None /\ Complete(a.dir)
    BY <1>1, <1>2, <1>4, AskedStatus DEF After, CaptureConstants
  <2>3. r # None => Capture(r)
    BY <1>2 DEF CaptureInv, CaptureTypes, UiTypes
  <2>4. /\ p # None => p = proofFile /\ ~p.promoted
        /\ proofFile # None => ProofBacked(proofFile)
    BY <1>2, <1>4, ProofParts
    DEF CaptureInv, stopDesktopCustodiedRecorder, parseRecorderCustodyProof
  <2> HIDE DEF r, p, a
  <2>5. UiTypes' /\ ui'.call # None
    BY <2>1, <2>2, <2>3 DEF UiTypes, CaptureInv, CaptureTypes, Capture
  <2>6. ProofContinuity'
    BY <1>1, <2>1, <2>4 DEF ProofContinuity, ProofBacked, native
  <2>7. ui'.call = a /\ ui'.path = ui.path /\ active' = None /\ Complete(ui.call.dir)'
    BY <1>1, <2>1, <2>2 DEF Complete, native
  <2>8. CallsSound'
    BY <1>1, <2>2, <2>7, AskedStatus DEF CallsSound, CommandOf, Busy, Stops
  <2> QED BY <1>1, <1>3, <2>5, <2>6, <2>7, <2>8, AskedStatus, FilesStay, PanelAsks
<1>5. CASE ~ok
  <2>1. ui' = [ui EXCEPT !.call = Recover]
    BY <1>5 DEF stopReply, ReadStatus
  <2>2. UiTypes' /\ ui'.call = Recover /\ ui'.call # None
    BY <2>1, AskedStatus DEF UiTypes, CaptureInv, CaptureTypes, Capture, CaptureConstants
  <2>3. ui'.dir = ui.dir /\ ui'.proof = ui.proof /\ ui'.path = ui.path
    BY <2>1 DEF UiTypes, CaptureInv, CaptureTypes
  <2>4. CallsSound'
    BY <1>1, <1>2, <2>2, <2>3, AskedStatus DEF CallsSound, CommandOf, Recover, Busy, native, Stops
  <2> QED BY <1>1, <1>3, <2>2, <2>3, <2>4, AskedStatus, FilesStay, PanelAsks
<1> QED BY <1>4, <1>5

LEMMA AfterReply ==
  ASSUME CaptureConstants, CaptureInv, Deliver, ui.call.kind = "after", afterReply
  PROVE CaptureInv'
<1>1. /\ inbox # None /\ inbox' = None /\ UNCHANGED <<native, world, now, page>>
      /\ cmds = <<>> /\ Busy
  BY NothingUnderWay DEF Deliver, CaptureInv, CommandsSound
<1>2. inbox.kind = "status" /\ Names(inbox.status) /\ active = None /\ Complete(ui.call.dir)
  BY <1>1 DEF CaptureInv, ReplySound, CallsSound
<1>3. CASE Done([ui EXCEPT !.status = inbox.status, !.path = ui.call.dir])
  <2>1. /\ ui' = [status |-> inbox.status, receipt |-> ui.receipt, proof |-> ui.proof, dir |-> ui.dir,
                  custody |-> ui.custody, model |-> ui.model, path |-> ui.call.dir, call |-> None]
        /\ cmds' = <<>>
    BY <1>1, <1>3 DEF Done, CaptureInv, CaptureTypes, UiTypes
  <2>2. inbox.status \in StatusRows
    BY <1>2 DEF Names, NamesCapture
  <2>3. UiTypes' /\ ui'.call = None
    BY <2>1, <2>2 DEF UiTypes, CaptureInv, CaptureTypes, Capture
  <2>4. InStep'
    BY <1>1, <1>2, <2>1 DEF InStep, Names, native
  <2>5. OfferSound'
    BY <1>1, <1>2, <2>1 DEF OfferSound, Complete, native
  <2> QED BY <1>1, <2>1, <2>3, <2>4, <2>5, FilesStay, PanelSettles
<1>4. CASE ReadStatus(ui, Recover)
  <2>1. ui' = [ui EXCEPT !.call = Recover] /\ cmds' = <<Status>> /\ Status.kind \notin Starts
    BY <1>1, <1>4, NothingUnderWay, AskedStatus DEF ReadStatus, Send, Starts
  <2>2. UiTypes' /\ ui'.call = Recover /\ ui'.call # None
    BY <2>1, AskedStatus DEF UiTypes, CaptureInv, CaptureTypes, Capture, CaptureConstants
  <2>3. ui'.dir = ui.dir /\ ui'.proof = ui.proof /\ ui'.path = ui.path
    BY <2>1 DEF UiTypes, CaptureInv, CaptureTypes
  <2>4. CallsSound'
    BY <1>1, <1>2, <2>1, <2>2, <2>3, AskedStatus
    DEF CallsSound, CommandOf, Recover, Busy, native, Stops
  <2> QED BY <1>1, <2>1, <2>2, <2>3, <2>4, AskedStatus, FilesStay, PanelAsks
<1> QED BY <1>3, <1>4 DEF afterReply

LEMMA RecoverReply ==
  ASSUME CaptureConstants, CaptureInv, Deliver, ui.call.kind = "recover", recoverReply
  PROVE CaptureInv'
<1>1. /\ inbox # None /\ inbox' = None /\ UNCHANGED <<native, world, now, page>>
      /\ cmds = <<>> /\ cmds' = <<>> /\ Busy
  BY NothingUnderWay DEF Deliver, recoverReply, Done, CaptureInv, CommandsSound
<1>2. inbox.kind = "status" /\ Names(inbox.status) /\ (active # None => ui.dir = active.dir)
  BY <1>1 DEF CaptureInv, ReplySound, CallsSound
<1>3. PICK s \in {inbox.status, None} : ui' = [[ui EXCEPT !.status = s] EXCEPT !.call = None]
  BY DEF recoverReply, Done
<1>4. ui' = [status |-> s, receipt |-> ui.receipt, proof |-> ui.proof, dir |-> ui.dir,
             custody |-> ui.custody, model |-> ui.model, path |-> ui.path, call |-> None]
  BY <1>3 DEF CaptureInv, CaptureTypes, UiTypes
<1>5. s \in StatusRows \cup {None}
  BY <1>2 DEF Names, NamesCapture
<1>6. UiTypes' /\ ui'.call = None
  BY <1>4, <1>5 DEF UiTypes, CaptureInv, CaptureTypes, Capture
<1>7. InStep'
  BY <1>1, <1>2, <1>4 DEF InStep, Names, native
<1> QED BY <1>1, <1>4, <1>6, <1>7, FilesStay, PanelSettles

LEMMA AnswerTaken ==
  ASSUME CaptureConstants, CaptureInv, Deliver
  PROVE CaptureInv'
<1>1. CASE ui.call.kind = "refresh" /\ refreshReply
  BY <1>1, RefreshReply
<1>2. CASE ui.call.kind = "start" /\ startReply
  BY <1>2, StartReply
<1>3. CASE ui.call.kind \in {"stop", "custody-stop"} /\ stopReply
  BY <1>3, StopReply DEF Stops
<1>4. CASE ui.call.kind = "after" /\ afterReply
  BY <1>4, AfterReply
<1>5. CASE ui.call.kind = "recover" /\ recoverReply
  BY <1>5, RecoverReply
<1> QED BY <1>1, <1>2, <1>3, <1>4, <1>5 DEF Deliver

\* While no handler waits the panel is in step.
LEMMA PanelAtRest ==
  ASSUME CaptureConstants, CaptureInv, ~Busy
  PROVE cmds = <<>> /\ inbox = None /\ InStep /\ page \in Nat /\ \A c : Append(cmds, c) = <<c>>
BY NothingUnderWay DEF CaptureInv, CallsSound

LEMMA Refreshing ==
  ASSUME CaptureConstants, CaptureInv, refreshControls
  PROVE CaptureInv'
<1> DEFINE call == [kind |-> "refresh"]
<1>1. /\ cmds = <<>> /\ inbox = None /\ InStep /\ inbox' = None
      /\ UNCHANGED <<native, world, now, page>> /\ cmds' = <<Status>> /\ Status.kind \notin Starts
      /\ ui' = [ui EXCEPT !.call = call]
  BY PanelAtRest, AskedStatus DEF refreshControls, Call, Send, Starts
<1>2. call \in Calls /\ call # None
  BY DEF Calls, CaptureConstants
<1>3. UiTypes' /\ ui'.call = call /\ ui'.call # None
  BY <1>1, <1>2 DEF UiTypes, CaptureInv, CaptureTypes, Capture
<1>4. ui'.status = ui.status /\ ui'.dir = ui.dir /\ ui'.proof = ui.proof /\ ui'.path = ui.path
  BY <1>1 DEF UiTypes, CaptureInv, CaptureTypes
<1>5. CallsSound'
  BY <1>1, <1>3, <1>4, AskedStatus DEF CallsSound, CommandOf, Busy, InStep, Names, native, Stops
<1> QED BY <1>1, <1>3, <1>4, <1>5, AskedStatus, FilesStay, PanelAsks

LEMMA Starting ==
  ASSUME CaptureConstants, CaptureInv, startRecorder
  PROVE CaptureInv'
<1>1. /\ cmds = <<>> /\ inbox = None /\ InStep /\ page \in Nat
      /\ \A c : Append(cmds, c) = <<c>>
      /\ now < MaxTime /\ ui.status # None /\ ui.status.state = "inactive"
  BY PanelAtRest DEF startRecorder, canStart
<1>2. active = None
  BY <1>1 DEF InStep, Names, NamesCapture
<1> DEFINE cleared(r) == [ui EXCEPT !.receipt = None, !.proof = None, !.dir = r.dir]
           call(r) == [kind |-> "start", req |-> r]
<1>3. PICK r \in Requests :
        /\ UNCHANGED <<native, world, now, page, inbox>>
        /\ \/ ui' = cleared(r) /\ cmds' = cmds
           \/ \E c : /\ cmds' = <<c>> /\ ui' = [cleared(r) EXCEPT !.call = call(r)]
                     /\ c \in Commands /\ c.kind \in Starts /\ c.page = page
                     /\ c.req.art = r.art /\ c.req.dir = r.dir /\ c.req.hash = r.hash
  <2>1. PICK r \in Requests, wellFormed \in BOOLEAN, idPort \in Ports, proofInArchive \in BOOLEAN :
          \/ ui' = cleared(r) /\ UNCHANGED <<native, world, now, cmds, inbox, page>>
          \/ Call(cleared(r), call(r), [page |-> page, kind |-> "start", req |-> r])
          \/ /\ ui.model # None
             /\ Call(cleared(r), call(r),
                     [page |-> page, kind |-> "custody-start",
                      req |-> [art |-> r.art, dir |-> r.dir, hash |-> r.hash, port |-> r.port,
                               idPort |-> idPort, model |-> ui.model]])
    BY Zenon DEF startRecorder
  <2> DEFINE plain == [page |-> page, kind |-> "start", req |-> r]
             q == [art |-> r.art, dir |-> r.dir, hash |-> r.hash, port |-> r.port,
                   idPort |-> idPort, model |-> ui.model]
             kept == [page |-> page, kind |-> "custody-start", req |-> q]
  <2>2. plain \in Commands /\ plain.kind \in Starts /\ plain.page = page /\ plain.req = r
    BY <1>1 DEF Commands, Starts
  <2>3. ui.model # None => q \in CustodyRequests
    BY DEF CustodyRequests, Requests, CaptureInv, CaptureTypes, UiTypes
  <2>4. q.art = r.art /\ q.dir = r.dir /\ q.hash = r.hash
    OBVIOUS
  <2> HIDE DEF q
  <2>5. /\ ui.model # None => kept \in Commands
        /\ kept.kind \in Starts /\ kept.page = page /\ kept.req = q
    BY <1>1, <2>3 DEF Commands, Starts
  <2> HIDE DEF plain, kept, cleared, call
  <2>6. CASE ui' = cleared(r) /\ UNCHANGED <<native, world, now, cmds, inbox, page>>
    BY <2>6
  <2>7. CASE Call(cleared(r), call(r), plain)
    BY <1>1, <2>2, <2>7 DEF Call, Send
  <2>8. CASE ui.model # None /\ Call(cleared(r), call(r), kept)
    BY <1>1, <2>4, <2>5, <2>8 DEF Call, Send
  <2> QED BY <2>1, <2>6, <2>7, <2>8 DEF plain, kept, q
<1>4. r.dir \in Dirs /\ call(r) \in Calls /\ call(r) # None /\ call(r).kind = "start"
      /\ call(r).req = r
  BY DEF Requests, Calls, CaptureConstants
<1>5. CASE ui' = cleared(r) /\ cmds' = cmds
  <2>1. ui' = [status |-> ui.status, receipt |-> None, proof |-> None, dir |-> r.dir,
               custody |-> ui.custody, model |-> ui.model, path |-> ui.path, call |-> ui.call]
    BY <1>5 DEF CaptureInv, CaptureTypes, UiTypes
  <2>2. UiTypes' /\ ui'.call = None
    BY <1>4, <2>1 DEF UiTypes, CaptureInv, CaptureTypes, startRecorder, canStart, Busy
  <2>3. InStep'
    BY <1>1, <1>2, <1>3, <2>1 DEF InStep, Names, native
  <2> QED BY <1>1, <1>3, <1>5, <2>1, <2>2, <2>3, FilesStay, PanelSettles
<1>6. CASE \E c : /\ cmds' = <<c>> /\ ui' = [cleared(r) EXCEPT !.call = call(r)]
                  /\ c \in Commands /\ c.kind \in Starts /\ c.page = page
                  /\ c.req.art = r.art /\ c.req.dir = r.dir /\ c.req.hash = r.hash
  <2>1. PICK c : /\ cmds' = <<c>> /\ ui' = [cleared(r) EXCEPT !.call = call(r)]
                 /\ c \in Commands /\ c.kind \in Starts /\ c.page = page
                 /\ c.req.art = r.art /\ c.req.dir = r.dir /\ c.req.hash = r.hash
    BY <1>6
  <2> HIDE DEF call
  <2>2. ui' = [status |-> ui.status, receipt |-> None, proof |-> None, dir |-> r.dir,
               custody |-> ui.custody, model |-> ui.model, path |-> ui.path, call |-> call(r)]
    BY <2>1 DEF CaptureInv, CaptureTypes, UiTypes
  <2>3. UiTypes' /\ ui'.call # None /\ ui'.call.kind = "start" /\ ui'.call.req = r
    BY <1>4, <2>2 DEF UiTypes, CaptureInv, CaptureTypes
  <2>4. InStep' /\ active' = None
    BY <1>1, <1>2, <1>3, <2>2 DEF InStep, Names, native
  <2>5. CommandOf(cmds[Len(cmds)], ui.call)'
    BY <2>1, <2>3 DEF CommandOf, Starts, Stops
  <2>6. CallsSound'
    BY <2>2, <2>3, <2>4, <2>5 DEF CallsSound, Busy, Stops
  <2> QED BY <1>1, <1>3, <2>1, <2>2, <2>3, <2>6, FilesStay, PanelAsks
<1> QED BY <1>3, <1>5, <1>6

LEMMA Stopping ==
  ASSUME CaptureConstants, CaptureInv, stopRecorder
  PROVE CaptureInv'
<1>1. /\ cmds = <<>> /\ inbox = None /\ InStep /\ page \in Nat
      /\ \A c : Append(cmds, c) = <<c>>
      /\ ui.status \in StatusRows /\ ui.status # None
  BY PanelAtRest DEF stopRecorder, canStop, CaptureInv, CaptureTypes, UiTypes
<1>2. active # None => ui.dir = active.dir
  BY <1>1 DEF InStep
<1>3. PICK call \in Calls, c \in Commands :
        /\ Call(ui, call, c) /\ c.page = page
        /\ call.kind \in Stops /\ c.kind = call.kind /\ call.dir = ui.dir
  <2>1. CASE Call(ui, [kind |-> "stop", expected |-> ui.status, dir |-> ui.dir],
                  [page |-> page, kind |-> "stop"])
    <3> DEFINE call == [kind |-> "stop", expected |-> ui.status, dir |-> ui.dir]
               c == [page |-> page, kind |-> "stop"]
    <3>1. call \in Calls /\ c \in Commands /\ call.kind = "stop" /\ c.kind = "stop"
          /\ c.page = page /\ call.dir = ui.dir
      BY <1>1 DEF Calls, Commands, CaptureInv, CaptureTypes, UiTypes
    <3> HIDE DEF call, c
    <3>2. Call(ui, call, c)
      BY <2>1 DEF call, c
    <3> QED BY <3>1, <3>2 DEF Stops
  <2>2. ASSUME ui.model # None, NEW a \in {x.id : x \in Auths},
               Call(ui, [kind |-> "custody-stop", expected |-> ui.status, dir |-> ui.dir,
                         model |-> ui.model, auth |-> a],
                    [page |-> page, kind |-> "custody-stop", auth |-> a])
        PROVE \E call \in Calls, c \in Commands :
                /\ Call(ui, call, c) /\ c.page = page
                /\ call.kind \in Stops /\ c.kind = call.kind /\ call.dir = ui.dir
    <3> DEFINE call == [kind |-> "custody-stop", expected |-> ui.status, dir |-> ui.dir,
                        model |-> ui.model, auth |-> a]
               c == [page |-> page, kind |-> "custody-stop", auth |-> a]
    <3>1. call \in Calls /\ c \in Commands /\ call.kind = "custody-stop" /\ c.kind = "custody-stop"
          /\ c.page = page /\ call.dir = ui.dir
      BY <1>1, <2>2 DEF Calls, Commands, CaptureInv, CaptureTypes, UiTypes
    <3> HIDE DEF call, c
    <3>2. Call(ui, call, c)
      BY <2>2 DEF call, c
    <3> QED BY <3>1, <3>2 DEF Stops
  <2> QED BY <2>1, <2>2 DEF stopRecorder
<1>4. /\ ui' = [ui EXCEPT !.call = call] /\ cmds' = <<c>> /\ inbox' = None
      /\ UNCHANGED <<native, world, now, page>>
  BY <1>1, <1>3 DEF Call, Send
<1>5. UiTypes' /\ ui'.call = call /\ ui'.call # None
  BY <1>4 DEF UiTypes, CaptureInv, CaptureTypes, Capture, CaptureConstants
<1>6. ui'.dir = ui.dir /\ ui'.proof = ui.proof /\ ui'.path = ui.path
  BY <1>4 DEF UiTypes, CaptureInv, CaptureTypes
<1>7. CallsSound'
  BY <1>2, <1>3, <1>4, <1>5, <1>6 DEF CallsSound, CommandOf, Busy, native, Stops
<1>8. c.kind \notin Starts
  BY <1>3 DEF Starts, Stops
<1> QED BY <1>3, <1>4, <1>5, <1>6, <1>7, <1>8, FilesStay, PanelAsks

LEMMA Toggling ==
  ASSUME CaptureConstants, CaptureInv, toggleCustody
  PROVE CaptureInv'
<1>1. /\ cmds = <<>> /\ inbox = None /\ InStep /\ ui.call = None
      /\ UNCHANGED <<native, world, now, page, cmds, inbox>>
  BY PanelAtRest DEF toggleCustody, Busy
<1>2. ui' = [status |-> ui.status, receipt |-> ui.receipt, proof |-> None, dir |-> ui.dir,
             custody |-> ~ui.custody, model |-> ui.model, path |-> ui.path, call |-> ui.call]
  BY DEF toggleCustody, CaptureInv, CaptureTypes, UiTypes
<1>3. UiTypes' /\ ui'.call = None
  BY <1>1, <1>2 DEF UiTypes, CaptureInv, CaptureTypes, Capture
<1>4. InStep'
  BY <1>1, <1>2 DEF InStep, Names, native
<1> QED BY <1>1, <1>2, <1>3, <1>4, FilesStay, PanelSettles

\* The parent changes the model also while a handler waits.
LEMMA ModelChanges ==
  ASSUME CaptureConstants, CaptureInv, selectModel
  PROVE CaptureInv'
<1>1. PICK m \in Models : ui' = [ui EXCEPT !.model = m]
  BY DEF selectModel
<1>2. ui' = [status |-> ui.status, receipt |-> ui.receipt, proof |-> ui.proof, dir |-> ui.dir,
             custody |-> ui.custody, model |-> m, path |-> ui.path, call |-> ui.call]
  BY <1>1 DEF CaptureInv, CaptureTypes, UiTypes
<1>3. UNCHANGED <<native, world, now, cmds, inbox, page>>
  BY DEF selectModel
<1>4. /\ ui'.status = ui.status /\ ui'.dir = ui.dir /\ ui'.call = ui.call /\ ui'.path = ui.path
      /\ ui'.proof = ui.proof /\ UiTypes'
  BY <1>2 DEF UiTypes, CaptureInv, CaptureTypes, Capture
<1>5. CaptureTypes' /\ RecorderSound'
  BY <1>3, <1>4 DEF native, world, CaptureInv, CaptureTypes, RecorderSound
<1>6. CommandsSound'
  BY <1>3, <1>4 DEF CaptureInv, CommandsSound, Busy
<1>7. InStep => InStep'
  BY <1>3, <1>4 DEF InStep, Names, native
<1>8. CallsSound'
  BY <1>3, <1>4, <1>7 DEF CaptureInv, CallsSound, Busy, Complete, native
<1>9. ReplySound'
  BY <1>3, <1>4, <1>7 DEF CaptureInv, ReplySound, Names, Complete, Capture, native
<1> QED BY <1>3, <1>4, <1>5, <1>6, <1>8, <1>9, FilesStay DEF CaptureInv

LEMMA PageLoads ==
  ASSUME CaptureConstants, CaptureInv, Reload
  PROVE CaptureInv'
<1> DEFINE call == [kind |-> "refresh"]
           c == [page |-> page + 1, kind |-> "status"]
<1>1. /\ page \in Nat /\ page < MaxReloads /\ page' = page + 1 /\ inbox' = None
      /\ cmds' = Append(cmds, c) /\ UNCHANGED <<native, world, now>>
  BY DEF Reload, Send, CaptureInv, CaptureTypes, CaptureConstants
<1>2. /\ ui' = [status |-> None, receipt |-> None, proof |-> None, dir |-> None, custody |-> FALSE,
                model |-> None, path |-> None, call |-> call]
      /\ call \in Calls /\ call # None
  <2>1. call \in Calls /\ call # None
    BY DEF Calls, CaptureConstants
  <2>2. ui' = [IdleUi EXCEPT !.call = call]
    BY DEF Reload
  <2> HIDE DEF call
  <2> QED BY <2>1, <2>2 DEF IdleUi
<1>3. UiTypes' /\ ui'.call = call /\ ui'.status = None /\ ui'.proof = None /\ ui'.path = None
  BY <1>2 DEF UiTypes
<1>4. CaptureTypes' /\ RecorderSound'
  BY <1>1, <1>3 DEF native, world, CaptureInv, CaptureTypes, CaptureConstants, RecorderSound
<1>5. /\ cmds' \in Seq(Commands) /\ Len(cmds') = Len(cmds) + 1 /\ Len(cmds) \in Nat
      /\ cmds'[Len(cmds')] = c /\ \A i \in 1..Len(cmds) : cmds'[i] = cmds[i]
  BY <1>1 DEF Commands, CaptureInv, CommandsSound
<1>6. \A i \in 1..Len(cmds) : cmds[i].page \in Nat /\ cmds[i].page <= page
  <2> SUFFICES ASSUME NEW i \in 1..Len(cmds)
               PROVE cmds[i].page \in Nat /\ cmds[i].page <= page
    OBVIOUS
  <2>1. cmds[i] \in Commands
    BY DEF CaptureInv, CommandsSound
  <2>2. cmds[i].page \in Nat
    BY <2>1 DEF Commands
  <2>3. i < Len(cmds) => cmds[i].page < page
    BY DEF CaptureInv, CommandsSound
  <2>4. i = Len(cmds) => cmds[i].page = page
    BY <1>5 DEF CaptureInv, CommandsSound
  <2> QED BY <1>1, <1>5, <2>2, <2>3, <2>4
<1>7. CommandsSound'
  <2>1. \A i \in 1..Len(cmds') : i < Len(cmds') => cmds'[i].page < page'
    BY <1>1, <1>5, <1>6
  <2>2. \A i \in 1..Len(cmds') : i > 1 => cmds'[i].kind = "status"
    BY <1>5 DEF CaptureInv, CommandsSound
  <2>3. \A i \in 1..Len(cmds') : cmds'[i].kind \in Starts => now' < MaxTime
    BY <1>1, <1>5 DEF CaptureInv, CommandsSound, Starts
  <2>4. Len(cmds') <= page' + 1
    BY <1>1, <1>5 DEF CaptureInv, CommandsSound
  <2>5. cmds'[Len(cmds')].page = page'
    BY <1>1, <1>5
  <2> QED BY <1>1, <1>2, <1>3, <1>5, <2>1, <2>2, <2>3, <2>4, <2>5 DEF CommandsSound, Busy
<1>8. CallsSound'
  BY <1>2, <1>3, <1>5 DEF CallsSound, CommandOf, Busy, InStep, Stops
<1>9. ReplySound'
  BY <1>1 DEF ReplySound
<1> QED BY <1>1, <1>3, <1>4, <1>7, <1>8, <1>9, FilesStay DEF CaptureInv

-----------------------------------------------------------------------------
(* The world *)

LEMMA PlugsChange ==
  ASSUME CaptureConstants, CaptureInv, UNCHANGED <<active, archives, proofFile, now, cmds, inbox, page, ui>>,
         authFile' \in Auths, plugged' \in [Ports -> Devices \cup {None}]
  PROVE CaptureInv'
BY DEF CaptureInv, CaptureTypes, UiTypes, Capture, RecorderSound, ProofContinuity, OfferSound, Complete,
   CommandsSound, Busy, CallsSound, InStep, Names, ReplySound

LEMMA ThreadStops ==
  ASSUME CaptureConstants, CaptureInv, ThreadFails
  PROVE CaptureInv' /\ active' # None
<1>1. /\ active \in ActiveRows /\ active' = [active EXCEPT !.failed = TRUE]
      /\ UNCHANGED <<archives, proofFile, authFile, world, now, cmds, inbox, page, ui>>
  BY DEF ThreadFails, CaptureInv, CaptureTypes
<1>2. /\ active' \in ActiveRows /\ Same(active, active') /\ active'.dir = active.dir
      /\ active'.art = active.art /\ active'.hash = active.hash
  BY <1>1 DEF ActiveRows, Same
<1>3. active # None /\ active' # None
  BY <1>1, <1>2 DEF CaptureConstants
<1>4. CaptureTypes'
  BY <1>1, <1>2 DEF CaptureInv, CaptureTypes, UiTypes, Capture, world
<1>5. RecorderSound'
  BY <1>1, <1>2, <1>3 DEF CaptureInv, RecorderSound, Same
<1>6. \A s : Names(s) => NamesCapture(s, active')
  BY <1>2, <1>3 DEF Names, NamesCapture, Same
<1>7. InStep => InStep'
  BY <1>1, <1>2, <1>3, <1>6 DEF InStep, Names
<1>8. CallsSound'
  BY <1>1, <1>2, <1>3, <1>7 DEF CaptureInv, CallsSound, Busy, Complete
<1>9. ReplySound'
  BY <1>1, <1>3, <1>6, <1>7 DEF CaptureInv, ReplySound, Names, Complete, Capture
<1>10. ProofContinuity' /\ OfferSound' /\ CommandsSound'
  BY <1>1 DEF CaptureInv, ProofContinuity, OfferSound, Complete, CommandsSound, Busy
<1> QED BY <1>3, <1>4, <1>5, <1>8, <1>9, <1>10 DEF CaptureInv

LEMMA CaptureNext ==
  ASSUME CaptureConstants, CaptureInv, [CapNext]_capVars
  PROVE CaptureInv'
<1>1. CASE Shell
  BY <1>1, ShellCommands
<1>2. CASE Deliver
  BY <1>2, AnswerTaken
<1>3. CASE Reload
  BY <1>3, PageLoads
<1>4. CASE refreshControls \/ startRecorder \/ stopRecorder \/ toggleCustody \/ selectModel
  BY <1>4, Refreshing, Starting, Stopping, Toggling, ModelChanges
<1>5. CASE Replug
  <2>1. authFile \in Auths /\ plugged \in [Ports -> Devices \cup {None}]
    BY DEF CaptureInv, CaptureTypes
  <2>2. /\ UNCHANGED <<active, archives, proofFile, now, cmds, inbox, page, ui>>
        /\ authFile' \in Auths /\ plugged' \in [Ports -> Devices \cup {None}]
    BY <1>5, <2>1 DEF Replug, native
  <2> QED BY <2>2, PlugsChange
<1>6. CASE ThreadFails
  BY <1>6, ThreadStops
<1>7. CASE SignAuthorization
  <2>1. plugged \in [Ports -> Devices \cup {None}]
    BY DEF CaptureInv, CaptureTypes
  <2>2. /\ UNCHANGED <<active, archives, proofFile, now, cmds, inbox, page, ui>>
        /\ authFile' \in Auths /\ plugged' \in [Ports -> Devices \cup {None}]
    BY <1>7, <2>1 DEF SignAuthorization
  <2> QED BY <2>2, PlugsChange
<1>8. CASE UNCHANGED capVars
  <2>1. authFile \in Auths /\ plugged \in [Ports -> Devices \cup {None}]
    BY DEF CaptureInv, CaptureTypes
  <2>2. /\ UNCHANGED <<active, archives, proofFile, now, cmds, inbox, page, ui>>
        /\ authFile' \in Auths /\ plugged' \in [Ports -> Devices \cup {None}]
    BY <1>8, <2>1 DEF capVars, native, world
  <2> QED BY <2>2, PlugsChange
<1> QED BY <1>1, <1>2, <1>3, <1>4, <1>5, <1>6, <1>7, <1>8 DEF CapNext

-----------------------------------------------------------------------------
CaptureSafe == CapTypeOK /\ PanelInStep /\ ProofContinuity /\ OfferedArchiveIsStopped

\* What a step of the recording never does.
CaptureKept == CustodyNotBypassed /\ CompletedArchiveKept

LEMMA CaptureImplies ==
  ASSUME CaptureConstants, CaptureInv
  PROVE CaptureSafe
<1>1. CapTypeOK
  <2>1. active # None => Capture(active) /\ active.dir \in Dirs /\ active.failed \in BOOLEAN
    BY DEF CaptureInv, CaptureTypes, ActiveRows, Capture
  <2>2. \A d \in Dirs : archives[d] # None => Capture(archives[d]) /\ archives[d].done \in BOOLEAN
    BY DEF CaptureInv, CaptureTypes, ArchiveRows, Capture
  <2>3. Len(cmds) <= MaxReloads + 1
    BY DEF CaptureInv, CommandsSound, CaptureTypes, CaptureConstants
  <2>4. /\ proofFile # None => Capture(proofFile)
        /\ now \in 0..MaxTime /\ page \in 0..MaxReloads
        /\ ui.receipt # None => Capture(ui.receipt)
        /\ inbox # None => Busy
    BY DEF CaptureInv, CaptureTypes, UiTypes, CommandsSound
  <2> QED BY <2>1, <2>2, <2>3, <2>4 DEF CapTypeOK
<1>2. PanelInStep
  BY DEF CaptureInv, CallsSound, InStep, Names, NamesCapture, PanelInStep, Quiet
<1>3. OfferedArchiveIsStopped
  BY DEF CaptureInv, OfferSound, Complete, OfferedArchiveIsStopped
<1> QED BY <1>1, <1>2, <1>3 DEF CaptureSafe, CaptureInv

LEMMA CaptureStep ==
  ASSUME CaptureConstants, CaptureInv, [CapNext]_capVars
  PROVE CaptureKept
<1>1. CASE Shell
  <2>1. ArchivesKept
    BY <1>1, ShellNative
  <2>2. CompletedArchiveKept
    BY <2>1 DEF ArchivesKept, CompletedArchiveKept
  <2>3. CustodyNotBypassed
    <3>1. CASE UNCHANGED <<native, now>>
      BY <3>1 DEF native, CustodyNotBypassed
    <3>2. CASE Begins(Head(cmds))
      BY <3>2 DEF Begins, MayBegin, CustodyNotBypassed
    <3>3. CASE Ends(Head(cmds))
      BY <3>3 DEF Ends, Stops, CustodyNotBypassed
    <3> QED BY <1>1, <3>1, <3>2, <3>3, ShellEffect
  <2> QED BY <2>2, <2>3 DEF CaptureKept
<1>2. CASE ThreadFails
  <2>1. active' # None /\ archives' = archives
    BY <1>2, ThreadStops DEF ThreadFails
  <2> QED BY <2>1 DEF CaptureKept, CustodyNotBypassed, CompletedArchiveKept, Same
<1>3. CASE ~(Shell \/ ThreadFails)
  <2>1. active' = active /\ archives' = archives
    BY <1>3 DEF CapNext, capVars, native, Deliver, Reload, refreshControls, startRecorder, stopRecorder,
       toggleCustody, selectModel, Replug, SignAuthorization, Call
  <2> QED BY <2>1 DEF CaptureKept, CustodyNotBypassed, CompletedArchiveKept, Same
<1> QED BY <1>1, <1>2, <1>3

\* The recorder panel shows the capture the shell has whenever nothing is under way, a custody proof
\* stands for a complete archive and one authorized device, and the archive offered is complete, for
\* any devices, ports, directories and number of page loads (src/packages/studio/src/App.tsx,
\* src/apps/desktop).
THEOREM CaptureIsSafe == ASSUME CaptureConstants PROVE CapSpec => []CaptureSafe
<1>1. CapInit => CaptureInv
  BY CaptureInit
<1>2. CaptureInv /\ [CapNext]_capVars => CaptureInv'
  BY CaptureNext
<1>3. CaptureInv => CaptureSafe
  BY CaptureImplies
<1> QED BY <1>1, <1>2, <1>3, PTL DEF CapSpec

\* A capture under custody is ended only by a custody stop, and no archive is changed or deleted
\* once it is complete.
THEOREM CaptureKeeps == ASSUME CaptureConstants PROVE CapSpec => [][CaptureKept]_capVars
<1>1. CapInit => CaptureInv
  BY CaptureInit
<1>2. CaptureInv /\ [CapNext]_capVars => CaptureInv'
  BY CaptureNext
<1>3. CaptureInv /\ [CapNext]_capVars => [CaptureKept]_capVars
  BY CaptureStep
<1> QED BY <1>1, <1>2, <1>3, PTL DEF CapSpec

-----------------------------------------------------------------------------
(* Importing an archive *)

MatRow == [plan : Contents, status : {"staged", "materialized"}]

\* An absent value is no directory, content or model, and no row.
ImportConstants ==
  Absent \notin Folders /\ Absent \notin Contents /\ Absent \notin Candidates /\ Absent \notin MatRow

ImportTypes ==
  /\ claims \subseteq Answers
  /\ disk \in [Folders -> Contents \cup {Absent}]
  /\ verified \subseteq Contents /\ objects \subseteq Contents \X Files
  /\ rows \in [Recordings -> MatRow \cup {Absent}]
  /\ admitted \in [Recordings -> Candidates \cup {Absent}]
  /\ path \in Folders /\ model \in Candidates /\ hi \in Folders \cup {Absent}

\* An inspection is of an archive the desktop has reported, and came without claims.
Inspected(i) == i.dir \in Folders /\ i.content \in verified /\ "inspection" \notin claims

\* A content the gateway holds as a materialized row, whose answers came without claims.
Materialized(c) ==
  /\ c \in Contents
  /\ claims \cap {"inspection", "plan", "receipt", "materialization"} = {}
  /\ Row(c) # Absent /\ Row(c).status = "materialized" /\ Row(c).plan = c

\* What the materialize handler has at each of its awaits: the inspection it began with, the
\* plan that says the same, and the row it staged.
MaterializerSound ==
  hm # Absent =>
    /\ hm \in [pc : {"prepare", "stage", "upload", "complete"}, dir : Folders,
               insp : [dir : Folders, content : Contents], plan : Contents \cup {Absent},
               done : SUBSET Files]
    /\ Inspected(hm.insp)
    /\ hm.pc # "prepare" => /\ hm.plan \in Contents /\ Info[hm.plan] = Info[hm.insp.content]
                            /\ "plan" \notin claims
    /\ hm.pc \in {"upload", "complete"} => /\ Row(hm.plan) # Absent /\ Row(hm.plan).plan = hm.plan
                                           /\ "materialization" \notin claims
    /\ hm.pc = "complete" => "receipt" \notin claims

InspectionSound ==
  inspection # Absent => inspection \in [dir : Folders, content : Contents] /\ Inspected(inspection)

MaterializationSound == materialization # Absent => Materialized(materialization)

AdmitterSound == ha # Absent => Materialized(ha.plan) /\ ha.model \in Candidates

AdmissionSound ==
  admission # Absent =>
    /\ Materialized(admission.plan) /\ "admission" \notin claims
    /\ admission.model \in Candidates
    /\ admitted[Info[admission.plan].art] = admission.model
    /\ HashOf[admission.model] = Info[admission.plan].hash

PanelSound ==
  InspectionSound /\ MaterializationSound /\ AdmitterSound /\ AdmissionSound

\* The inductive invariant of an import.
ImportInv == ImportTypes /\ MaterializerSound /\ PanelSound /\ RowsWereVerified /\ OnlyPlannedUploaded

LEMMA RecordingOf == \A c \in Contents : Info[c].art \in Recordings
BY DEF Recordings

LEMMA ImportInit ==
  ASSUME ImportConstants, ImpInit
  PROVE ImportInv
BY DEF ImportConstants, ImpInit, ImportInv, ImportTypes, MaterializerSound, PanelSound, InspectionSound,
   MaterializationSound, AdmitterSound, AdmissionSound, RowsWereVerified, OnlyPlannedUploaded,
   Answers, Uploaded

\* Rows stay, with their plan, and a materialized one stays materialized.
RowsKept ==
  \A a \in Recordings : rows[a] # Absent =>
    /\ rows'[a] # Absent /\ rows'[a].plan = rows[a].plan
    /\ rows[a].status = "materialized" => rows'[a].status = "materialized"

LEMMA MaterializedKept ==
  ASSUME RowsKept, claims' = claims
  PROVE \A c : Materialized(c) => Materialized(c)'
BY RecordingOf DEF RowsKept, Materialized, Row

LEMMA SameRows ==
  ASSUME UNCHANGED rows
  PROVE RowsKept
BY DEF RowsKept

\* The user and the file system touch nothing that was answered.
LEMMA SurroundingsKeep ==
  ASSUME ImportConstants, ImportInv, typePath \/ changeModel \/ ReplaceDirectory
  PROVE ImportInv'
<1>1. UNCHANGED <<claims, verified, objects, gateway, inspection, materialization, admission, hi, hm, ha>>
  BY DEF typePath, changeModel, ReplaceDirectory, panel
<1>2. UNCHANGED <<MaterializerSound, PanelSound, RowsWereVerified, OnlyPlannedUploaded>>
  BY <1>1 DEF gateway, MaterializerSound, PanelSound, InspectionSound, MaterializationSound,
     AdmitterSound, AdmissionSound, RowsWereVerified, OnlyPlannedUploaded, Inspected, Materialized,
     Row, Uploaded
<1>3. ImportTypes'
  BY <1>1 DEF ImportInv, ImportTypes, gateway, panel, typePath, changeModel, ReplaceDirectory
<1> QED BY <1>2, <1>3 DEF ImportInv

LEMMA InspectKeeps ==
  ASSUME ImportConstants, ImportInv, inspectArchive \/ inspectRecorderArchive
  PROVE ImportInv'
<1>1. CASE inspectArchive
  <2>1. ImportTypes'
    BY <1>1 DEF ImportInv, ImportTypes, inspectArchive, gateway
  <2>2. MaterializerSound' /\ RowsWereVerified' /\ OnlyPlannedUploaded'
    BY <1>1 DEF ImportInv, inspectArchive, gateway, MaterializerSound, RowsWereVerified,
       OnlyPlannedUploaded, Inspected, Row, Uploaded
  <2>3. PanelSound'
    BY <1>1 DEF ImportInv, PanelSound, inspectArchive, gateway, InspectionSound, MaterializationSound,
       AdmitterSound, AdmissionSound, Materialized, Row
  <2> QED BY <2>1, <2>2, <2>3 DEF ImportInv
<1>2. CASE inspectRecorderArchive
  <2>1. ImportTypes' /\ verified \subseteq verified'
    BY <1>2 DEF ImportInv, ImportTypes, inspectRecorderArchive, gateway
  <2>2. MaterializerSound'
    BY <1>2, <2>1 DEF ImportInv, inspectRecorderArchive, gateway, MaterializerSound, Inspected, Row
  <2>3. InspectionSound'
    BY <1>2 DEF ImportInv, ImportTypes, PanelSound, InspectionSound, Inspected, inspectRecorderArchive,
       parseRecorderArchiveInspection
  <2>4. (MaterializationSound /\ AdmitterSound /\ AdmissionSound)'
    BY <1>2 DEF ImportInv, PanelSound, inspectRecorderArchive, gateway, MaterializationSound,
       AdmitterSound, AdmissionSound, Materialized, Row
  <2>5. RowsWereVerified' /\ OnlyPlannedUploaded'
    BY <1>2, <2>1 DEF ImportInv, inspectRecorderArchive, gateway, RowsWereVerified,
       OnlyPlannedUploaded, Uploaded
  <2> QED BY <2>1, <2>2, <2>3, <2>4, <2>5 DEF ImportInv, PanelSound
<1> QED BY <1>1, <1>2

LEMMA MaterializePressed ==
  ASSUME ImportConstants, ImportInv, materializeArchive
  PROVE ImportInv'
<1>1. ImportTypes' /\ RowsWereVerified' /\ OnlyPlannedUploaded'
  BY DEF ImportInv, ImportTypes, materializeArchive, gateway, RowsWereVerified, OnlyPlannedUploaded,
     Uploaded
<1>2. MaterializerSound'
  BY DEF ImportInv, ImportTypes, PanelSound, InspectionSound, materializeArchive, MaterializerSound,
     Inspected
<1>3. PanelSound'
  BY DEF ImportInv, PanelSound, materializeArchive, gateway, InspectionSound, MaterializationSound,
     AdmitterSound, AdmissionSound, Inspected, Materialized, Row
<1> QED BY <1>1, <1>2, <1>3 DEF ImportInv

\* A step of the materialize handler leaves the other handlers and what they show alone.
LEMMA OthersKeep ==
  ASSUME ImportInv, RowsKept, UNCHANGED <<HmUnchanged, admitted>>,
         materialization' = materialization \/ MaterializationSound'
  PROVE PanelSound'
<1> USE DEF HmUnchanged
<1>1. InspectionSound'
  BY DEF ImportInv, PanelSound, InspectionSound, Inspected
<1>2. MaterializationSound'
  BY MaterializedKept DEF ImportInv, PanelSound, MaterializationSound
<1>3. AdmitterSound'
  BY MaterializedKept DEF ImportInv, PanelSound, AdmitterSound
<1>4. AdmissionSound'
  BY MaterializedKept DEF ImportInv, PanelSound, AdmissionSound
<1> QED BY <1>1, <1>2, <1>3, <1>4 DEF PanelSound

LEMMA PrepareKeeps ==
  ASSUME ImportConstants, ImportInv, prepareRecorderArchiveUpload
  PROVE ImportInv'
<1> USE DEF HmUnchanged, gateway
<1>1. ImportTypes' /\ RowsWereVerified' /\ OnlyPlannedUploaded'
  BY DEF ImportInv, ImportTypes, prepareRecorderArchiveUpload, RowsWereVerified, OnlyPlannedUploaded,
     Uploaded
<1>2. MaterializerSound'
  BY DEF ImportInv, ImportTypes, prepareRecorderArchiveUpload, Abort, MaterializerSound, Inspected,
     PlanMatches, parseRecorderUploadPlan
<1>3. PanelSound'
  BY OthersKeep, SameRows DEF prepareRecorderArchiveUpload
<1> QED BY <1>1, <1>2, <1>3 DEF ImportInv

LEMMA StageKeeps ==
  ASSUME ImportConstants, ImportInv, stageRecorderArchive
  PROVE ImportInv'
<1> USE DEF HmUnchanged
<1> DEFINE a == Info[hm.plan].art
<1>1. /\ hm # Absent /\ hm.pc = "stage" /\ hm.plan \in Contents /\ a \in Recordings
      /\ hm.insp.content \in verified /\ Info[hm.plan] = Info[hm.insp.content]
  BY RecordingOf DEF ImportInv, MaterializerSound, Inspected, stageRecorderArchive
<1>2. \/ UNCHANGED rows
      \/ /\ rows[a] = Absent
         /\ rows' = [rows EXCEPT ![a] = [plan |-> hm.plan, status |-> "staged"]]
  BY DEF stageRecorderArchive, Row
<1>3. [plan |-> hm.plan, status |-> "staged"] \in MatRow
  BY <1>1 DEF MatRow
<1>4. RowsKept
  BY <1>1, <1>2, <1>3 DEF RowsKept, ImportInv, ImportTypes
<1>5. ImportTypes'
  BY <1>1, <1>2, <1>3 DEF stageRecorderArchive, ImportInv, ImportTypes
<1>6. \A b \in Recordings : rows'[b] # Absent =>
        \/ rows[b] # Absent /\ rows'[b] = rows[b]
        \/ b = a /\ rows'[b] = [plan |-> hm.plan, status |-> "staged"]
  BY <1>1, <1>2 DEF ImportInv, ImportTypes
<1>7. RowsWereVerified'
  BY <1>1, <1>6 DEF ImportInv, RowsWereVerified, stageRecorderArchive
<1>8. OnlyPlannedUploaded'
  BY <1>4, <1>6 DEF ImportInv, OnlyPlannedUploaded, Uploaded, RowsKept, stageRecorderArchive
<1>9. MaterializerSound'
  <2> SUFFICES ASSUME hm' # Absent
               PROVE MaterializerSound'
    BY DEF MaterializerSound
  <2>1. \/ rows' = rows /\ rows[a] # Absent /\ AfterStage(rows[a])
        \/ rows' = [rows EXCEPT ![a] = [plan |-> hm.plan, status |-> "staged"]] /\ AfterStage(rows'[a])
    BY DEF stageRecorderArchive, Abort, Row
  <2>2. rows'[a] # Absent
    BY <1>1, <1>3, <2>1 DEF ImportConstants, ImportInv, ImportTypes
  <2>3. /\ hm' = [hm EXCEPT !.pc = "upload"] /\ rows'[a].plan = hm.plan
        /\ "materialization" \notin claims
    BY <2>1 DEF AfterStage, Abort, Step, parseRecorderStageResponse, parseRecorderMaterialization
  <2>4. hm \in [pc : {"prepare", "stage", "upload", "complete"}, dir : Folders,
                insp : [dir : Folders, content : Contents], plan : Contents \cup {Absent},
                done : SUBSET Files]
    BY <1>1 DEF ImportInv, MaterializerSound
  <2>5. hm'.plan = hm.plan /\ hm'.insp = hm.insp /\ hm'.pc = "upload"
    BY <2>3, <2>4
  <2>6. Row(hm.plan)' # Absent /\ Row(hm.plan)'.plan = hm'.plan
    BY <2>2, <2>3, <2>5 DEF Row
  <2> QED BY <1>1, <2>3, <2>4, <2>5, <2>6 DEF ImportInv, MaterializerSound, Inspected, stageRecorderArchive
<1>10. PanelSound'
  BY <1>4, OthersKeep DEF stageRecorderArchive
<1> QED BY <1>5, <1>7, <1>8, <1>9, <1>10 DEF ImportInv

LEMMA UploadKeeps ==
  ASSUME ImportConstants, ImportInv, uploadFile
  PROVE ImportInv'
<1> USE DEF HmUnchanged, gateway
<1>1. /\ hm.pc = "upload" /\ hm.plan \in Contents /\ Info[hm.plan].art \in Recordings
      /\ Row(hm.plan) # Absent /\ Row(hm.plan).plan = hm.plan
  BY RecordingOf DEF ImportInv, MaterializerSound, uploadFile
<1>2. \/ objects' = objects
      \/ \E f \in Files : objects' = objects \cup {<<hm.plan, f>>}
  BY DEF uploadFile, Planned
<1>3. ImportTypes' /\ RowsWereVerified'
  BY <1>1, <1>2 DEF ImportInv, ImportTypes, RowsWereVerified, uploadFile
<1>4. OnlyPlannedUploaded'
  BY <1>1, <1>2 DEF ImportInv, OnlyPlannedUploaded, Uploaded, Row, uploadFile
<1>5. \/ hm' = Absent
      \/ \E f \in Files : hm' = [hm EXCEPT !.done = @ \cup {f}]
      \/ hm' = [hm EXCEPT !.pc = "complete"] /\ "receipt" \notin claims
  BY DEF uploadFile, Abort, Step, parseRecorderUploadReceipt
<1>6. MaterializerSound'
  <2>1. CASE hm' = Absent
    BY <2>1 DEF MaterializerSound
  <2>2. CASE \E f \in Files : hm' = [hm EXCEPT !.done = @ \cup {f}]
    BY <1>1, <2>2 DEF ImportInv, MaterializerSound, Inspected, Row, uploadFile
  <2>3. CASE hm' = [hm EXCEPT !.pc = "complete"] /\ "receipt" \notin claims
    BY <1>1, <2>3 DEF ImportInv, MaterializerSound, Inspected, Row, uploadFile
  <2> QED BY <1>5, <2>1, <2>2, <2>3
<1>7. PanelSound'
  BY OthersKeep, SameRows DEF uploadFile
<1> QED BY <1>3, <1>4, <1>6, <1>7 DEF ImportInv

LEMMA CompleteKeeps ==
  ASSUME ImportConstants, ImportInv, completeRecorderArchive
  PROVE ImportInv'
<1> USE DEF HmUnchanged
<1> DEFINE a == Info[hm.plan].art
<1>1. /\ hm # Absent /\ hm.pc = "complete" /\ hm.plan \in Contents /\ a \in Recordings
      /\ rows[a] \in MatRow /\ rows[a].plan = hm.plan
      /\ claims \cap {"inspection", "plan", "receipt", "materialization"} = {}
  BY RecordingOf DEF ImportInv, ImportTypes, MaterializerSound, Inspected, Row, completeRecorderArchive
<1>2. /\ hm' = Absent
      /\ \/ UNCHANGED <<rows, materialization>>
         \/ /\ Uploaded(hm.plan) /\ rows' = [rows EXCEPT ![a].status = "materialized"]
            /\ materialization' = hm.plan \/ UNCHANGED materialization
  BY DEF completeRecorderArchive, Abort
<1>3. [rows[a] EXCEPT !.status = "materialized"] \in MatRow
  BY <1>1 DEF MatRow
<1>4. ImportTypes'
  BY <1>1, <1>2, <1>3 DEF completeRecorderArchive, ImportInv, ImportTypes
<1>5. \A b \in Recordings :
        \/ rows'[b] = rows[b]
        \/ /\ b = a /\ Uploaded(hm.plan)
           /\ rows'[b] = [rows[a] EXCEPT !.status = "materialized"]
  BY <1>1, <1>2 DEF ImportInv, ImportTypes
<1>6. rows[a].plan = hm.plan /\ [rows[a] EXCEPT !.status = "materialized"].plan = hm.plan
      /\ [rows[a] EXCEPT !.status = "materialized"].status = "materialized"
  BY <1>1 DEF MatRow
<1>7. RowsKept
  BY <1>1, <1>3, <1>5, <1>6 DEF ImportConstants, RowsKept
<1>8. RowsWereVerified'
  <2>1. rows[a] # Absent
    BY <1>1 DEF ImportConstants
  <2>2. \A b \in Recordings : rows'[b] # Absent => rows[b] # Absent /\ rows'[b].plan = rows[b].plan
    BY <1>5, <1>6, <2>1
  <2>3. verified' = verified
    BY DEF completeRecorderArchive
  <2> QED BY <2>2, <2>3 DEF ImportInv, RowsWereVerified
<1>9. OnlyPlannedUploaded'
  BY <1>5, <1>6, <1>7 DEF ImportInv, OnlyPlannedUploaded, Uploaded, RowsKept, completeRecorderArchive
<1>10. MaterializerSound'
  BY <1>2 DEF MaterializerSound
<1>11. materialization' = materialization \/ MaterializationSound'
  <2> SUFFICES ASSUME materialization' # materialization
               PROVE MaterializationSound'
    OBVIOUS
  <2>1. materialization' = hm.plan /\ rows' = [rows EXCEPT ![a].status = "materialized"]
    BY <1>2
  <2>2. rows'[a] = [rows[a] EXCEPT !.status = "materialized"]
    BY <1>1, <2>1 DEF ImportInv, ImportTypes
  <2>3. rows'[a] # Absent /\ rows'[a].status = "materialized" /\ rows'[a].plan = hm.plan
    BY <1>3, <1>6, <2>2 DEF ImportConstants
  <2>4. Row(materialization)' = rows'[a]
    BY <2>1 DEF Row
  <2> QED BY <1>1, <2>1, <2>3, <2>4 DEF MaterializationSound, Materialized, completeRecorderArchive
<1>12. PanelSound'
  BY <1>7, <1>11, OthersKeep DEF completeRecorderArchive
<1> QED BY <1>4, <1>8, <1>9, <1>10, <1>12 DEF ImportInv

LEMMA AdmitKeeps ==
  ASSUME ImportConstants, ImportInv, admitArchive \/ admitRecorderArchive
  PROVE ImportInv'
<1>1. CASE admitArchive
  <2>1. ImportTypes' /\ RowsWereVerified' /\ OnlyPlannedUploaded'
    BY <1>1 DEF ImportInv, ImportTypes, admitArchive, gateway, RowsWereVerified, OnlyPlannedUploaded,
       Uploaded
  <2>2. MaterializerSound'
    BY <1>1 DEF ImportInv, admitArchive, gateway, MaterializerSound, Inspected, Row
  <2>3. PanelSound'
    BY <1>1 DEF ImportInv, ImportTypes, PanelSound, admitArchive, gateway, InspectionSound,
       MaterializationSound, AdmitterSound, AdmissionSound, Inspected, Materialized, Row
  <2> QED BY <2>1, <2>2, <2>3 DEF ImportInv
<1>2. CASE admitRecorderArchive
  <2>1. /\ Materialized(ha.plan) /\ ha.model \in Candidates /\ Info[ha.plan].art \in Recordings
        /\ ha' = Absent
        /\ UNCHANGED <<claims, disk, verified, objects, rows, path, inspection, materialization, model,
                       hi, hm>>
    BY <1>2, RecordingOf DEF ImportInv, PanelSound, AdmitterSound, Materialized, admitRecorderArchive
  <2>2. \/ UNCHANGED <<admitted, admission>>
        \/ /\ HashOf[ha.model] = Info[ha.plan].hash
           /\ admitted[Info[ha.plan].art] \in {Absent, ha.model}
           /\ admitted' = [admitted EXCEPT ![Info[ha.plan].art] = ha.model]
           /\ \/ UNCHANGED admission
              \/ /\ "admission" \notin claims
                 /\ admission' = [plan |-> ha.plan, model |-> ha.model]
    BY <1>2 DEF admitRecorderArchive, Admissible, parseRecorderAdmission
  <2>3. ImportTypes'
    BY <2>1, <2>2 DEF ImportInv, ImportTypes
  <2>4. RowsWereVerified' /\ OnlyPlannedUploaded' /\ MaterializerSound'
    BY <2>1 DEF ImportInv, RowsWereVerified, OnlyPlannedUploaded, Uploaded, MaterializerSound,
       Inspected, Row
  <2>5. InspectionSound' /\ MaterializationSound' /\ AdmitterSound'
    BY <2>1 DEF ImportInv, PanelSound, InspectionSound, MaterializationSound, AdmitterSound, Inspected,
       Materialized, Row
  <2>6. AdmissionSound'
    <3>1. CASE UNCHANGED <<admitted, admission>>
      BY <2>1, <3>1 DEF ImportInv, PanelSound, AdmissionSound, Materialized, Row
    <3>2. CASE ~UNCHANGED <<admitted, admission>>
      <4>1. /\ HashOf[ha.model] = Info[ha.plan].hash
            /\ admitted[Info[ha.plan].art] \in {Absent, ha.model}
            /\ admitted' = [admitted EXCEPT ![Info[ha.plan].art] = ha.model]
        BY <2>2, <3>2
      <4>2. CASE UNCHANGED admission
        <5> SUFFICES ASSUME admission # Absent
                     PROVE AdmissionSound'
          BY <4>2 DEF AdmissionSound
        <5>1. admitted[Info[admission.plan].art] = admission.model /\ admission.model # Absent
          BY DEF ImportConstants, ImportInv, PanelSound, AdmissionSound
        <5>2. admitted'[Info[admission.plan].art] = admission.model
          BY <2>1, <4>1, <5>1, RecordingOf DEF ImportInv, ImportTypes
        <5> QED BY <2>1, <4>2, <5>2 DEF ImportInv, PanelSound, AdmissionSound, Materialized, Row
      <4>3. CASE admission' = [plan |-> ha.plan, model |-> ha.model] /\ "admission" \notin claims
        BY <2>1, <4>1, <4>3 DEF AdmissionSound, Materialized, Row, ImportInv, ImportTypes
      <4> QED BY <2>2, <3>2, <4>2, <4>3
    <3> QED BY <3>1, <3>2
  <2> QED BY <2>3, <2>4, <2>5, <2>6 DEF ImportInv, PanelSound
<1> QED BY <1>1, <1>2

LEMMA ImportNext ==
  ASSUME ImportConstants, ImportInv, [ImpNext]_impVars
  PROVE ImportInv'
<1>1. CASE UNCHANGED impVars
  BY <1>1 DEF impVars, gateway, panel, ImportInv, ImportTypes, MaterializerSound, PanelSound,
     InspectionSound, MaterializationSound, AdmitterSound, AdmissionSound, RowsWereVerified,
     OnlyPlannedUploaded, Inspected, Materialized, Row, Uploaded
<1>2. CASE ImpNext
  BY <1>2, SurroundingsKeep, InspectKeeps, MaterializePressed, PrepareKeeps, StageKeeps, UploadKeeps,
     CompleteKeeps, AdmitKeeps DEF ImpNext, materialize
<1> QED BY <1>1, <1>2

\* What the panel shows is what the gateway has.
ImportSafe == ImpTypeOK /\ RowsWereVerified /\ OnlyPlannedUploaded /\ DisplayBacked

LEMMA ImportImplies ==
  ASSUME ImportConstants, ImportInv
  PROVE ImportSafe
<1>1. ImpTypeOK
  BY DEF ImportInv, ImportTypes, MaterializerSound, PanelSound, InspectionSound, ImpTypeOK, MatRow
<1>2. DisplayBacked
  <2>1. inspection # Absent => "inspection" \notin claims
    BY DEF ImportInv, PanelSound, InspectionSound, Inspected
  <2>2. admission # Absent => claims = {}
    BY DEF ImportInv, ImportTypes, PanelSound, AdmissionSound, Materialized, Answers
  <2> QED BY <2>1, <2>2 DEF DisplayBacked, ImportInv, PanelSound, MaterializationSound, AdmissionSound,
             Materialized
<1> QED BY <1>1, <1>2 DEF ImportSafe, ImportInv

(* What the import panel shows the gateway has, every row was seen verified first, and the *)
(* store holds files of staged plans only, all of them once a row is materialized, through *)
(* replaced directories, lost answers and answers that claim authority.                    *)
THEOREM ImportIsSafe ==
  ASSUME ImportConstants
  PROVE ImpSpec => []ImportSafe
<1>1. ImpInit => ImportInv
  BY ImportInit
<1>2. ImportInv /\ [ImpNext]_impVars => ImportInv'
  BY ImportNext
<1>3. ImportInv => ImportSafe
  BY ImportImplies
<1> QED BY <1>1, <1>2, <1>3, PTL DEF ImpSpec

-----------------------------------------------------------------------------
(* The rehearsal of a deployment *)

Evidence == [rig : Rigs, model : Pool, policy : {p.id : p \in Policies}, gate : {"exportable"},
             job : {j.id : j \in Jobs}]
Sessions == [id : 0..MaxStarts, ev : Evidence, stage : Stages]

\* The commands of the panel.
StatusOrders == [load : Nat, kind : {"status"}]
StartOrders == [load : Nat, kind : {"start"}, id : 0..MaxStarts, confirm : {0}, ev : Evidence]
AdvanceOrders == [load : Nat, kind : {"advance"}, id : 0..MaxStarts, from : Stages, to : Stages,
                  confirm : Stages]
ResetOrders == [load : Nat, kind : {"reset"}, id : 0..MaxStarts, confirm : {"end"}]
Orders == StatusOrders \cup StartOrders \cup AdvanceOrders \cup ResetOrders

\* What the shell says of a session, and of none.
AtRestStatuses == [state : {"inactive"}, promoted : BOOLEAN]
SessionStatuses == [state : {"rehearsing", "rehearsal-complete"}, id : 0..MaxStarts, ev : Evidence,
                    stage : Stages, promoted : BOOLEAN]
Statuses == AtRestStatuses \cup {s \in SessionStatuses : s.state = "rehearsing" => s.stage # Free}

\* There is a rig, and the absent value is no command, no answer and no session.
RehearsalConstants ==
  /\ Rigs # {} /\ MaxStarts \in Nat /\ MaxLoads \in Nat
  /\ Nothing \notin Orders /\ Nothing \notin Sessions /\ Nothing \notin Statuses \cup {Refusal}

RehearsalTypes ==
  /\ session \in Sessions \cup {Nothing} /\ faulty \in BOOLEAN
  /\ starts \in 0..MaxStarts /\ load \in 0..MaxLoads
  /\ ladderUi \in [status : Statuses \cup {Nothing}, rig : Rigs, startOk : BOOLEAN, stageOk : BOOLEAN,
                   call : Orders \cup {Nothing}]
  /\ props.model \in Pool \cup {Nothing} /\ props.policies \subseteq Policies /\ props.jobs \subseteq Jobs
  /\ props = [model |-> props.model, report |-> props.report, policies |-> props.policies,
              jobs |-> props.jobs]
  /\ ticks \subseteq (0..MaxStarts) \X Stages

Bound(e) ==
  /\ \E p \in Policies : p.id = e.policy /\ p.model = e.model /\ p.gate = "exportable"
  /\ \E j \in Jobs : j.id = e.job /\ isPassingSupervisorDecision(j)

\* A start brings evidence of its own, an advance was confirmed.
OrderSound(c) ==
  /\ c.kind = "start" => Bound(c.ev)
  /\ c.kind = "advance" => <<c.id, c.to>> \in ticks

\* The command the page waits for is the last one; those before it are of earlier loads.
QueueSound ==
  /\ orders \in Seq(Orders) /\ Len(orders) <= load + 1
  /\ \A i \in 1..Len(orders) : OrderSound(orders[i]) /\ (i < Len(orders) => orders[i].load < load)
  /\ orders # <<>> => /\ response = Nothing /\ ladderUi.call = orders[Len(orders)]
                      /\ orders[Len(orders)].load = load
  /\ response # Nothing => Waiting

\* The panel shows the session the shell has, or nothing.
LadderAgrees == ladderUi.status # Nothing => ladderUi.status = LadderStatus(session)

\* A panel that shows something has no commands of earlier loads under way, and shows what is
\* there until a command of its own is answered.
DisplaySound ==
  /\ ladderUi.status # Nothing => Len(orders) <= 1 /\ ~faulty
  /\ response = Nothing => LadderAgrees
  /\ Waiting /\ ladderUi.call.kind = "start" => AtRest
  /\ Waiting /\ ladderUi.call.kind = "advance" => Rehearsing
  /\ ladderUi.stageOk => /\ Rehearsing
                         /\ <<ladderUi.status.id, nextDeploymentStage(ladderUi.status.stage)>> \in ticks

\* An answer is a refusal, and then nothing has changed, or says what the command made.
AnswerSound ==
  response # Nothing =>
    \/ response = Refusal /\ LadderAgrees
    \/ /\ response = LadderStatus(session)
       /\ ladderUi.call.kind = "status" => LadderAgrees
       /\ ladderUi.call.kind = "start" =>
            /\ session # Nothing /\ session.stage = 0
            /\ session.id = ladderUi.call.id /\ session.ev = ladderUi.call.ev
       /\ ladderUi.call.kind = "advance" =>
            /\ session # Nothing /\ session.stage = ladderUi.call.to
            /\ session.id = ladderUi.status.id /\ session.ev = ladderUi.status.ev
       /\ ladderUi.call.kind = "reset" => session = Nothing

\* The inductive invariant of a rehearsal.
RehearsalInv ==
  /\ RehearsalTypes /\ QueueSound /\ DisplaySound /\ AnswerSound
  /\ EveryStageConfirmed /\ EvidenceBound

LEMMA StatusesOf ==
  ASSUME RehearsalTypes
  PROVE LadderStatus(session) \in Statuses
BY DEF RehearsalTypes, LadderStatus, inactive_status, status_for_session, Statuses, AtRestStatuses,
   SessionStatuses, Sessions, Stages, Free

LEMMA RehearsalInit ==
  ASSUME RehearsalConstants, RehInit
  PROVE RehearsalInv
<1> DEFINE c == [load |-> 0, kind |-> "status"]
<1>1. (CHOOSE r \in Rigs : TRUE) \in Rigs
  BY DEF RehearsalConstants
<1>2. /\ ladderUi = [status |-> Nothing, rig |-> CHOOSE r \in Rigs : TRUE, startOk |-> FALSE,
                     stageOk |-> FALSE, call |-> c]
      /\ orders = <<c>> /\ c \in Orders
  BY DEF RehInit, BlankPanel, Orders, StatusOrders
<1>3. RehearsalTypes
  <2>1. ladderUi \in [status : Statuses \cup {Nothing}, rig : Rigs, startOk : BOOLEAN,
                    stageOk : BOOLEAN, call : Orders \cup {Nothing}]
    BY <1>1, <1>2
  <2> QED BY <2>1 DEF RehearsalConstants, RehInit, RehearsalTypes
<1>4. QueueSound
  BY <1>2 DEF RehInit, QueueSound, OrderSound
<1>5. DisplaySound
  <2>1. ladderUi.status = Nothing /\ ladderUi.stageOk = FALSE /\ ladderUi.call.kind = "status"
    BY <1>2
  <2> QED BY <2>1 DEF DisplaySound, LadderAgrees
<1>6. AnswerSound /\ EveryStageConfirmed /\ EvidenceBound
  BY DEF RehInit, AnswerSound, EveryStageConfirmed, EvidenceBound
<1> QED BY <1>3, <1>4, <1>5, <1>6 DEF RehearsalInv

-----------------------------------------------------------------------------
\* A command's effect on the session, whoever sent it.
LEMMA SessionKept ==
  ASSUME RehearsalConstants, RehearsalInv, LadderShell
  PROVE RehearsalTypes' /\ EveryStageConfirmed' /\ EvidenceBound'
<1> DEFINE c == Head(orders)
<1>1. c \in Orders /\ OrderSound(c)
  BY DEF RehearsalInv, QueueSound, LadderShell
<1>2. UNCHANGED <<faulty, load, starts, ladderUi, props, ticks>>
  BY DEF LadderShell
<1>3. CASE session' = session
  BY <1>2, <1>3 DEF RehearsalInv, RehearsalTypes, EveryStageConfirmed, EvidenceBound
<1>4. CASE session' = Nothing
  BY <1>2, <1>4 DEF RehearsalInv, RehearsalTypes, EveryStageConfirmed, EvidenceBound
<1>5. CASE c.kind = "start" /\ session' = [id |-> c.id, ev |-> c.ev, stage |-> 0]
  <2>1. session' \in Sessions /\ Bound(c.ev)
    BY <1>1, <1>5 DEF Orders, StatusOrders, StartOrders, AdvanceOrders, ResetOrders, Sessions,
       Stages, OrderSound
  <2>2. RehearsalTypes'
    BY <1>2, <2>1 DEF RehearsalInv, RehearsalTypes
  <2>3. EveryStageConfirmed'
    BY <1>5 DEF EveryStageConfirmed
  <2>4. EvidenceBound'
    BY <1>5, <2>1 DEF EvidenceBound, Bound
  <2> QED BY <2>2, <2>3, <2>4
<1>6. CASE c.kind = "advance" /\ session # Nothing /\ c.id = session.id /\ session.stage < Free
           /\ c.to = session.stage + 1 /\ session' = [session EXCEPT !.stage = @ + 1]
  <2>1. session \in Sessions
    BY <1>6 DEF RehearsalInv, RehearsalTypes
  <2>2. /\ session' \in Sessions /\ session'.id = session.id /\ session'.ev = session.ev
        /\ session'.stage = session.stage + 1
    BY <1>6, <2>1 DEF Sessions, Stages, Free
  <2>3. RehearsalTypes'
    BY <1>2, <2>2 DEF RehearsalInv, RehearsalTypes
  <2>4. EveryStageConfirmed'
    BY <1>1, <1>2, <1>6, <2>1, <2>2 DEF RehearsalInv, EveryStageConfirmed, OrderSound, Sessions, Stages
  <2>5. EvidenceBound'
    BY <1>6, <2>2 DEF RehearsalInv, EvidenceBound
  <2> QED BY <2>3, <2>4, <2>5
<1> QED BY <1>3, <1>4, <1>5, <1>6 DEF LadderShell, start, advance, reset, status

LEMMA ShellOrders ==
  ASSUME RehearsalConstants, RehearsalInv, LadderShell
  PROVE RehearsalInv'
<1> DEFINE c == Head(orders)
<1>1. c \in Orders /\ c = orders[1] /\ Len(orders) \in Nat \ {0} /\ response = Nothing
  BY DEF RehearsalInv, QueueSound, LadderShell
<1>2. UNCHANGED <<faulty, load, starts, ladderUi, props, ticks>> /\ orders' = Tail(orders)
  BY DEF LadderShell
<1>3. RehearsalTypes' /\ EveryStageConfirmed' /\ EvidenceBound'
  BY SessionKept
<1>4. /\ orders' \in Seq(Orders) /\ Len(orders') = Len(orders) - 1
      /\ \A i \in 1..Len(orders') : orders'[i] = orders[i + 1]
  BY <1>2 DEF RehearsalInv, QueueSound, LadderShell
<1>5. CASE c.load # load
  <2>1. Len(orders) >= 2 /\ ladderUi.status = Nothing
    BY <1>1, <1>5 DEF RehearsalInv, QueueSound, DisplaySound
  <2>2. response' = response
    BY <1>5 DEF LadderShell, start, advance, reset, status, Respond
  <2>3. QueueSound'
    BY <1>1, <1>2, <1>4, <2>1, <2>2 DEF RehearsalInv, RehearsalTypes, QueueSound, OrderSound, Waiting
  <2>4. DisplaySound' /\ AnswerSound'
    BY <1>1, <1>2, <2>1, <2>2 DEF RehearsalInv, DisplaySound, AnswerSound, LadderAgrees, Waiting, AtRest,
       Rehearsing
  <2> QED BY <1>3, <2>3, <2>4 DEF RehearsalInv
<1>6. CASE c.load = load
  <2>1. Len(orders) = 1 /\ c = ladderUi.call /\ orders' = <<>>
    BY <1>1, <1>4, <1>6 DEF RehearsalInv, RehearsalTypes, QueueSound
  <2>2. Waiting /\ LadderAgrees
    BY <1>1, <2>1 DEF RehearsalConstants, Waiting, RehearsalInv, DisplaySound
  <2>3. QueueSound'
    BY <1>2, <1>4, <2>1, <2>2 DEF QueueSound, Waiting, RehearsalInv, RehearsalTypes
  <2>4. AnswerSound'
    <3>1. CASE c.kind = "status"
      BY <1>2, <1>6, <2>1, <2>2, <3>1 DEF LadderShell, status, Respond, AnswerSound, LadderAgrees,
         LadderStatus, inactive_status, status_for_session
    <3>2. CASE c.kind = "start"
      <4>1. \/ session' = session /\ response' = Refusal
            \/ /\ session' = [id |-> c.id, ev |-> c.ev, stage |-> 0]
               /\ response' = LadderStatus(session')
        BY <1>6, <3>2 DEF LadderShell, start, Respond
      <4>2. [id |-> c.id, ev |-> c.ev, stage |-> 0] \in Sessions
        BY <1>1, <3>2 DEF Orders, StatusOrders, StartOrders, AdvanceOrders, ResetOrders, Sessions, Stages
      <4> QED BY <1>2, <2>1, <2>2, <3>2, <4>1, <4>2 DEF RehearsalConstants, AnswerSound, LadderAgrees,
                 LadderStatus, inactive_status, status_for_session
    <3>3. CASE c.kind = "advance"
      <4>1. \/ session' = session /\ response' = Refusal
            \/ /\ session # Nothing /\ c.id = session.id /\ c.to = session.stage + 1
               /\ session.stage < Free
               /\ session' = [session EXCEPT !.stage = @ + 1] /\ response' = LadderStatus(session')
        BY <1>6, <3>3 DEF LadderShell, advance, Respond
      <4>2. ladderUi.status = LadderStatus(session)
        BY <2>1, <2>2, <3>3 DEF RehearsalInv, DisplaySound, Rehearsing, LadderAgrees
      <4>3. CASE session' = session /\ response' = Refusal
        BY <1>2, <2>2, <4>3 DEF AnswerSound, LadderAgrees, LadderStatus, inactive_status, status_for_session
      <4>4. CASE session # Nothing /\ c.to = session.stage + 1 /\ session.stage < Free
                 /\ session' = [session EXCEPT !.stage = @ + 1] /\ response' = LadderStatus(session')
        <5>1. session \in Sessions
          BY <4>4 DEF RehearsalInv, RehearsalTypes
        <5>2. /\ session' \in Sessions /\ session'.id = session.id /\ session'.ev = session.ev
              /\ session'.stage = session.stage + 1
          BY <4>4, <5>1 DEF Sessions, Stages, Free
        <5>3. ladderUi.status.id = session.id /\ ladderUi.status.ev = session.ev
          BY <4>2, <4>4 DEF LadderStatus, status_for_session
        <5> QED BY <1>2, <2>1, <3>3, <4>4, <5>2, <5>3 DEF RehearsalConstants, AnswerSound, LadderAgrees,
                   LadderStatus, inactive_status, status_for_session
      <4> QED BY <4>1, <4>3, <4>4
    <3>4. CASE c.kind = "reset"
      <4>1. \/ session' = session /\ response' = Refusal
            \/ session' = Nothing /\ response' = LadderStatus(session')
        BY <1>6, <3>4 DEF LadderShell, reset, Respond
      <4> QED BY <1>2, <2>1, <2>2, <3>4, <4>1 DEF AnswerSound, LadderAgrees, LadderStatus, inactive_status,
                 status_for_session
    <3> QED BY <3>1, <3>2, <3>3, <3>4 DEF LadderShell
  <2>5. DisplaySound'
    <3>1. response' # Nothing
      <4>1. response' = Refusal \/ response' = LadderStatus(session)'
        BY <1>2, <1>6 DEF LadderShell, start, advance, reset, status, Respond, LadderStatus,
           inactive_status, status_for_session
      <4>2. LadderStatus(session)' \in Statuses
        BY <1>3, StatusesOf DEF RehearsalTypes, LadderStatus, inactive_status, status_for_session,
           Statuses, AtRestStatuses, SessionStatuses, Sessions, Stages, Free
      <4> QED BY <4>1, <4>2 DEF RehearsalConstants
    <3>2. Len(orders') <= 1
      BY <2>1
    <3>3. /\ (ladderUi.status # Nothing => ~faulty)'
          /\ (Waiting /\ ladderUi.call.kind = "start" => AtRest)'
          /\ (Waiting /\ ladderUi.call.kind = "advance" => Rehearsing)'
          /\ (ladderUi.stageOk => /\ Rehearsing
                                 /\ <<ladderUi.status.id, nextDeploymentStage(ladderUi.status.stage)>> \in ticks)'
      BY <1>2 DEF RehearsalInv, DisplaySound, Waiting, AtRest, Rehearsing, nextDeploymentStage
    <3> QED BY <3>1, <3>2, <3>3 DEF DisplaySound
  <2> QED BY <1>3, <2>3, <2>4, <2>5 DEF RehearsalInv
<1> QED BY <1>5, <1>6

-----------------------------------------------------------------------------
\* The page takes an answer: nothing was under way but the command it is to.
LEMMA LadderAnswered ==
  ASSUME RehearsalConstants, RehearsalInv, TakeAnswer
  PROVE RehearsalInv'
<1>1. /\ UNCHANGED <<session, faulty, orders, load, starts, props, ticks>>
      /\ response' = Nothing /\ orders = <<>> /\ Waiting /\ ladderUi.call \in Orders
      /\ ladderUi \in [status : Statuses \cup {Nothing}, rig : Rigs, startOk : BOOLEAN,
                       stageOk : BOOLEAN, call : Orders \cup {Nothing}]
  BY DEF TakeAnswer, RehearsalInv, QueueSound, RehearsalTypes, Waiting
<1>2. LadderStatus(session) \in Statuses
  BY StatusesOf DEF RehearsalInv
<1>3. EveryStageConfirmed' /\ EvidenceBound' /\ AnswerSound'
  BY <1>1 DEF RehearsalInv, EveryStageConfirmed, EvidenceBound, AnswerSound
<1>4. QueueSound'
  BY <1>1 DEF RehearsalInv, RehearsalTypes, QueueSound
<1>5. ladderUi' = [ladderUi EXCEPT !.call = Nothing] \/ parseDeploymentLadderStatus(response)
  BY DEF TakeAnswer, ladderReply, startDeploymentLadder, advanceDeploymentLadder, resetDeploymentLadder,
     Settle
<1>6. ASSUME ladderUi' = [ladderUi EXCEPT !.call = Nothing], LadderAgrees
      PROVE RehearsalInv'
  <2>1. RehearsalTypes'
    BY <1>1, <1>6 DEF RehearsalInv, RehearsalTypes
  <2>2. DisplaySound'
    BY <1>1, <1>6 DEF RehearsalInv, DisplaySound, LadderAgrees, Waiting, Rehearsing, LadderStatus,
       inactive_status, status_for_session
  <2> QED BY <1>3, <1>4, <2>1, <2>2 DEF RehearsalInv
<1>7. ASSUME NEW s \in BOOLEAN, NEW t \in BOOLEAN, NEW r \in Rigs, ~faulty,
             ladderUi' = [ladderUi EXCEPT !.status = LadderStatus(session), !.rig = r, !.startOk = s,
                                          !.stageOk = t, !.call = Nothing],
             t => ladderUi.stageOk /\ LadderAgrees
      PROVE RehearsalInv'
  <2>1. RehearsalTypes'
    BY <1>1, <1>2, <1>7 DEF RehearsalInv, RehearsalTypes
  <2>2. /\ ladderUi'.status = LadderStatus(session) /\ ladderUi'.stageOk = t
        /\ ladderUi'.call = Nothing
    BY <1>1, <1>7
  <2>3. t => LadderStatus(session) = ladderUi.status
    BY <1>7 DEF RehearsalInv, DisplaySound, Rehearsing, LadderAgrees
  <2>4. DisplaySound'
    BY <1>1, <1>7, <2>2, <2>3 DEF RehearsalInv, DisplaySound, LadderAgrees, Waiting, Rehearsing, LadderStatus,
       inactive_status, status_for_session
  <2> QED BY <1>3, <1>4, <2>1, <2>4 DEF RehearsalInv
<1>8. ASSUME parseDeploymentLadderStatus(response)
      PROVE response = LadderStatus(session) /\ ~faulty
  BY <1>8 DEF TakeAnswer, parseDeploymentLadderStatus, RehearsalInv, RehearsalTypes, AnswerSound,
     Refusal, LadderStatus, inactive_status, status_for_session
<1>9. ASSUME ladderUi' = [ladderUi EXCEPT !.call = Nothing], faulty
      PROVE LadderAgrees
  BY <1>9 DEF RehearsalInv, DisplaySound, LadderAgrees
<1>10. CASE ladderUi.call.kind = "status" /\ ladderReply
  <2>1. CASE parseDeploymentLadderStatus(response)
    <3>1. response = LadderStatus(session) /\ ~faulty /\ LadderAgrees
      BY <1>8, <1>10, <2>1 DEF TakeAnswer, RehearsalInv, AnswerSound
    <3> DEFINE rig == IF response.state = "inactive" THEN ladderUi.rig ELSE response.ev.rig
    <3>2. rig \in Rigs
      BY <1>1, <1>2, <3>1 DEF Statuses, AtRestStatuses, SessionStatuses, Evidence
    <3>3. ladderUi' = [ladderUi EXCEPT !.status = LadderStatus(session), !.rig = rig,
                         !.startOk = ladderUi.startOk, !.stageOk = ladderUi.stageOk, !.call = Nothing]
      BY <1>1, <1>10, <2>1, <3>1 DEF ladderReply, Settle
    <3> HIDE DEF rig
    <3> QED BY <1>1, <1>7, <3>1, <3>2, <3>3
  <2>2. CASE ~parseDeploymentLadderStatus(response)
    <3>1. ladderUi' = [ladderUi EXCEPT !.call = Nothing]
      BY <1>10, <2>2 DEF ladderReply, Settle
    <3>2. LadderAgrees
      BY <1>10 DEF TakeAnswer, RehearsalInv, AnswerSound
    <3> QED BY <1>6, <3>1, <3>2
  <2> QED BY <2>1, <2>2
<1>11. CASE ladderUi.call.kind = "start" /\ startDeploymentLadder
  <2>1. AtRest
    BY <1>1, <1>11 DEF RehearsalInv, DisplaySound
  <2>2. ~ladderUi.stageOk /\ ~faulty
    BY <2>1 DEF AtRest, RehearsalInv, DisplaySound, Rehearsing
  <2>3. CASE response = Refusal /\ LadderAgrees
    <3>1. ladderUi' = [ladderUi EXCEPT !.call = Nothing]
      BY <1>11, <2>3 DEF startDeploymentLadder, Settle, parseDeploymentLadderStatus, Refusal
    <3> QED BY <1>6, <2>3, <3>1
  <2>4. CASE response = LadderStatus(session) /\ session # Nothing /\ session.stage = 0
             /\ session.id = ladderUi.call.id /\ session.ev = ladderUi.call.ev
    <3>1. ladderUi' = [ladderUi EXCEPT !.status = LadderStatus(session), !.rig = ladderUi.rig,
                         !.startOk = FALSE, !.stageOk = FALSE, !.call = Nothing]
      <4>1. /\ parseDeploymentLadderStatus(response) /\ response.state = "rehearsing"
            /\ response.stage = 0
            /\ response.id = ladderUi.call.id /\ response.ev = ladderUi.call.ev
        BY <2>2, <2>4 DEF parseDeploymentLadderStatus, LadderStatus, status_for_session, Free
      <4>2. ladderUi' = [[ladderUi EXCEPT !.status = response, !.startOk = FALSE] EXCEPT !.call = Nothing]
        BY <1>11, <4>1 DEF startDeploymentLadder, Settle
      <4>3. ladderUi.stageOk = FALSE
        BY <1>1, <2>2
      <4> QED BY <1>1, <2>4, <4>2, <4>3
    <3> QED BY <1>1, <1>7, <2>2, <3>1
  <2> QED BY <1>11, <2>3, <2>4 DEF TakeAnswer, RehearsalInv, AnswerSound
<1>12. CASE ladderUi.call.kind = "advance" /\ advanceDeploymentLadder
  <2>1. ~faulty
    BY <1>1, <1>12 DEF RehearsalInv, DisplaySound, Rehearsing
  <2>2. CASE response = Refusal /\ LadderAgrees
    <3>1. ladderUi' = [ladderUi EXCEPT !.call = Nothing]
      BY <1>12, <2>2 DEF advanceDeploymentLadder, Settle, parseDeploymentLadderStatus, Refusal
    <3> QED BY <1>6, <2>2, <3>1
  <2>3. CASE response = LadderStatus(session) /\ session # Nothing /\ session.stage = ladderUi.call.to
             /\ session.id = ladderUi.status.id /\ session.ev = ladderUi.status.ev
    <3>1. ladderUi' = [ladderUi EXCEPT !.status = LadderStatus(session), !.rig = ladderUi.rig,
                         !.startOk = ladderUi.startOk, !.stageOk = FALSE, !.call = Nothing]
      <4>1. /\ parseDeploymentLadderStatus(response) /\ response.state # "inactive"
            /\ response.id = ladderUi.status.id /\ response.ev = ladderUi.status.ev
            /\ response.stage = ladderUi.call.to
        BY <2>1, <2>3 DEF parseDeploymentLadderStatus, LadderStatus, status_for_session
      <4> QED BY <1>1, <1>12, <2>3, <4>1 DEF advanceDeploymentLadder, Settle
    <3> QED BY <1>1, <1>7, <2>1, <3>1
  <2> QED BY <1>12, <2>2, <2>3 DEF TakeAnswer, RehearsalInv, AnswerSound
<1>13. CASE ladderUi.call.kind = "reset" /\ resetDeploymentLadder
  <2>1. CASE response = Refusal /\ LadderAgrees
    <3>1. ladderUi' = [ladderUi EXCEPT !.call = Nothing]
      BY <1>13, <2>1 DEF resetDeploymentLadder, Settle, parseDeploymentLadderStatus, Refusal
    <3> QED BY <1>6, <2>1, <3>1
  <2>2. CASE response = LadderStatus(session) /\ session = Nothing
    <3>1. CASE faulty
      <4>1. ladderUi' = [ladderUi EXCEPT !.call = Nothing]
        BY <1>13, <2>2, <3>1 DEF resetDeploymentLadder, Settle, parseDeploymentLadderStatus,
           LadderStatus, inactive_status
      <4> QED BY <1>6, <1>9, <3>1, <4>1
    <3>2. CASE ~faulty
      <4>1. ladderUi' = [ladderUi EXCEPT !.status = LadderStatus(session), !.rig = ladderUi.rig,
                           !.startOk = ladderUi.startOk, !.stageOk = FALSE, !.call = Nothing]
        BY <1>1, <1>13, <2>2, <3>2 DEF resetDeploymentLadder, Settle, parseDeploymentLadderStatus,
           LadderStatus, inactive_status
      <4> QED BY <1>1, <1>7, <3>2, <4>1
    <3> QED BY <3>1, <3>2
  <2> QED BY <1>13, <2>1, <2>2 DEF TakeAnswer, RehearsalInv, AnswerSound
<1> QED BY <1>10, <1>11, <1>12, <1>13 DEF TakeAnswer

\* A command is sent when none is under way.
LEMMA OrderIssued ==
  ASSUME RehearsalConstants, RehearsalInv, ~Waiting,
         NEW c \in Orders, OrderSound(c), c.load = load, Issue(ladderUi, c),
         starts' \in 0..MaxStarts,
         c.kind = "start" => AtRest, c.kind = "advance" => Rehearsing
  PROVE RehearsalInv'
<1>1. orders = <<>> /\ response = Nothing /\ LadderAgrees
  BY DEF RehearsalInv, QueueSound, DisplaySound, Waiting, RehearsalTypes, RehearsalConstants
<1>2. /\ ladderUi' = [ladderUi EXCEPT !.call = c] /\ orders' = <<c>>
      /\ UNCHANGED <<session, faulty, response, load, props, ticks>>
  BY <1>1 DEF Issue
<1>3. /\ ladderUi'.status = ladderUi.status /\ ladderUi'.stageOk = ladderUi.stageOk
      /\ ladderUi'.call = c
  BY <1>2 DEF RehearsalInv, RehearsalTypes
<1>4. RehearsalTypes'
  BY <1>2 DEF RehearsalInv, RehearsalTypes
<1>5. QueueSound'
  BY <1>1, <1>2, <1>3 DEF RehearsalInv, RehearsalTypes, QueueSound, OrderSound
<1>6. DisplaySound'
  BY <1>1, <1>2, <1>3 DEF RehearsalInv, DisplaySound, LadderAgrees, AtRest, Rehearsing, LadderStatus,
     inactive_status, status_for_session
<1>7. AnswerSound' /\ EveryStageConfirmed' /\ EvidenceBound'
  BY <1>1, <1>2 DEF RehearsalInv, AnswerSound, EveryStageConfirmed, EvidenceBound
<1> QED BY <1>4, <1>5, <1>6, <1>7 DEF RehearsalInv

LEMMA ButtonsKeep ==
  ASSUME RehearsalConstants, RehearsalInv,
         refreshLadder \/ startLadder \/ advanceLadder \/ resetLadder
  PROVE RehearsalInv'
<1>1. /\ ladderUi.rig \in Rigs /\ load \in Nat /\ starts \in 0..MaxStarts /\ MaxStarts \in Nat
      /\ ladderUi.status \in Statuses \cup {Nothing}
  BY DEF RehearsalConstants, RehearsalInv, RehearsalTypes
<1>2. CASE refreshLadder
  <2>1. [load |-> load, kind |-> "status"] \in Orders
    BY <1>1 DEF Orders, StatusOrders
  <2> QED BY <1>1, <1>2, <2>1, OrderIssued DEF refreshLadder, OrderSound
<1>3. CASE startLadder
  <2>1. PICK p \in policy, j \in supervisorJob :
          Issue(ladderUi, [load |-> load, kind |-> "start", id |-> starts, confirm |-> 0,
                     ev |-> [rig |-> ladderUi.rig, model |-> props.model, policy |-> p.id,
                             gate |-> p.gate, job |-> j.id]])
    BY <1>3 DEF startLadder
  <2> DEFINE e == [rig |-> ladderUi.rig, model |-> props.model, policy |-> p.id, gate |-> p.gate,
                   job |-> j.id]
             c == [load |-> load, kind |-> "start", id |-> starts, confirm |-> 0, ev |-> e]
  <2>2. /\ p \in Policies /\ p.model = props.model /\ p.gate = "exportable" /\ props.model \in Pool
        /\ j \in Jobs /\ isPassingSupervisorDecision(j)
    BY <1>3 DEF policy, supervisorJob, RehearsalInv, RehearsalTypes, startLadder
  <2>3. e \in Evidence /\ Bound(e)
    BY <1>1, <2>2 DEF Evidence, Bound
  <2>4. c \in Orders /\ OrderSound(c)
    BY <1>1, <2>3 DEF Orders, StartOrders, OrderSound
  <2>5. starts' \in 0..MaxStarts
    BY <1>1, <1>3 DEF startLadder
  <2> QED BY <1>3, <2>1, <2>4, <2>5, OrderIssued DEF startLadder, AtRest
<1>4. CASE advanceLadder
  <2> DEFINE to == nextDeploymentStage(ladderUi.status.stage)
             c == [load |-> load, kind |-> "advance", id |-> ladderUi.status.id,
                   from |-> ladderUi.status.stage, to |-> to, confirm |-> confirmationForStage(to)]
  <2>1. ladderUi.status \in SessionStatuses /\ ladderUi.status.stage # Free
    BY <1>1, <1>4 DEF advanceLadder, Rehearsing, Statuses, AtRestStatuses
  <2>2. <<ladderUi.status.id, to>> \in ticks
    BY <1>4 DEF advanceLadder, RehearsalInv, DisplaySound
  <2>3. c \in Orders /\ OrderSound(c)
    BY <1>1, <2>1, <2>2 DEF Orders, AdvanceOrders, SessionStatuses, nextDeploymentStage,
       confirmationForStage, Stages, Free, OrderSound
  <2> QED BY <1>1, <1>4, <2>3, OrderIssued DEF advanceLadder
<1>5. CASE resetLadder
  <2>1. ladderUi.status \in SessionStatuses
    BY <1>1, <1>5 DEF resetLadder, AtRest, Statuses, AtRestStatuses
  <2>2. [load |-> load, kind |-> "reset", id |-> ladderUi.status.id, confirm |-> "end"] \in Orders
    BY <1>1, <2>1 DEF Orders, ResetOrders, SessionStatuses
  <2> QED BY <1>1, <1>5, <2>2, OrderIssued DEF resetLadder, OrderSound
<1> QED BY <1>2, <1>3, <1>4, <1>5

\* A new load shows nothing, and asks last.
LEMMA LoadedAgain ==
  ASSUME RehearsalConstants, RehearsalInv, LoadAgain
  PROVE RehearsalInv'
<1> DEFINE c == [load |-> load + 1, kind |-> "status"]
           n == Len(orders)
<1>1. /\ load' = load + 1 /\ load' \in 0..MaxLoads /\ response' = Nothing
      /\ ladderUi' = [status |-> Nothing, rig |-> CHOOSE r \in Rigs : TRUE, startOk |-> FALSE,
                     stageOk |-> FALSE, call |-> c]
      /\ orders' = Append(orders, c)
      /\ UNCHANGED <<session, faulty, starts, props, ticks>>
  <2>1. load' = load + 1 /\ load < MaxLoads /\ ladderUi' = MountedPanel /\ orders' = Append(orders, ladderUi'.call)
        /\ response' = Nothing /\ UNCHANGED <<session, faulty, starts, props, ticks>>
    BY DEF LoadAgain
  <2>2. ladderUi' = [status |-> Nothing, rig |-> CHOOSE r \in Rigs : TRUE, startOk |-> FALSE,
                     stageOk |-> FALSE, call |-> c]
    BY <2>1 DEF MountedPanel, BlankPanel
  <2>3. ladderUi'.call = c
    BY <2>2
  <2>4. load' \in 0..MaxLoads
    BY <2>1 DEF RehearsalInv, RehearsalTypes, RehearsalConstants
  <2> QED BY <2>1, <2>2, <2>3, <2>4
<1>2. c \in Orders /\ (CHOOSE r \in Rigs : TRUE) \in Rigs
  BY DEF Orders, StatusOrders, RehearsalConstants, RehearsalInv, RehearsalTypes
<1>3. RehearsalTypes'
  <2>1. ladderUi' \in [status : Statuses \cup {Nothing}, rig : Rigs, startOk : BOOLEAN,
                      stageOk : BOOLEAN, call : Orders \cup {Nothing}]
    BY <1>1, <1>2
  <2> QED BY <1>1, <2>1 DEF RehearsalInv, RehearsalTypes
<1>4. QueueSound'
  <2>1. /\ orders' \in Seq(Orders) /\ n \in Nat /\ Len(orders') = n + 1 /\ orders'[n + 1] = c
        /\ \A i \in 1..n : orders'[i] = orders[i]
    BY <1>1, <1>2 DEF RehearsalInv, QueueSound
  <2>2. \A i \in 1..n : orders[i].load < load + 1 /\ OrderSound(orders[i])
    <3>1. /\ load \in Nat /\ \A i \in 1..n : OrderSound(orders[i]) /\ (i < n => orders[i].load < load)
          /\ orders # <<>> => orders[n].load = load
      BY DEF RehearsalInv, QueueSound, RehearsalTypes
    <3>2. \A i \in 1..n : orders # <<>> /\ (i < n \/ i = n)
      BY <2>1
    <3>3. \A i \in 1..n : orders[i].load < load + 1
      <4> TAKE i \in 1..n
      <4>1. CASE i < n
        <5>1. orders[i].load \in Nat
          BY DEF RehearsalInv, QueueSound, Orders, StatusOrders, StartOrders, AdvanceOrders, ResetOrders
        <5> QED BY <3>1, <4>1, <5>1
      <4>2. CASE i = n
        BY <3>1, <3>2, <4>2
      <4> QED BY <3>2, <4>1, <4>2
    <3> QED BY <3>1, <3>3
  <2> QED BY <1>1, <2>1, <2>2 DEF RehearsalInv, QueueSound, OrderSound, RehearsalTypes
<1>5. DisplaySound' /\ AnswerSound' /\ EveryStageConfirmed' /\ EvidenceBound'
  BY <1>1 DEF RehearsalInv, DisplaySound, AnswerSound, LadderAgrees, EveryStageConfirmed, EvidenceBound
<1> QED BY <1>3, <1>4, <1>5 DEF RehearsalInv

\* The boxes, the rig and what the page gives the panel.
LEMMA FormKeeps ==
  ASSUME RehearsalConstants, RehearsalInv, chooseRig \/ tick \/ parentChanges
  PROVE RehearsalInv'
<1>1. CASE chooseRig \/ parentChanges
  <2>1. /\ UNCHANGED <<session, faulty, orders, response, load, starts, ticks>>
        /\ ladderUi'.status = ladderUi.status /\ ladderUi'.stageOk = ladderUi.stageOk
        /\ ladderUi'.call = ladderUi.call
    BY <1>1 DEF chooseRig, parentChanges, RehearsalInv, RehearsalTypes
  <2>2. RehearsalTypes'
    BY <1>1 DEF chooseRig, parentChanges, RehearsalInv, RehearsalTypes
  <2> QED BY <2>1, <2>2 DEF RehearsalInv, QueueSound, OrderSound, DisplaySound, AnswerSound, LadderAgrees,
             Waiting, AtRest, Rehearsing, EveryStageConfirmed, EvidenceBound, LadderStatus,
             inactive_status, status_for_session
<1>2. CASE tick
  <2>1. /\ UNCHANGED <<session, faulty, orders, response, load, starts, props>>
        /\ ladderUi'.status = ladderUi.status /\ ladderUi'.call = ladderUi.call /\ ticks \subseteq ticks'
    BY <1>2 DEF tick, RehearsalInv, RehearsalTypes
  <2>2. ladderUi'.stageOk => /\ Rehearsing
                            /\ <<ladderUi.status.id, nextDeploymentStage(ladderUi.status.stage)>> \in ticks'
    BY <1>2 DEF tick, RehearsalInv, RehearsalTypes, DisplaySound
  <2>3. RehearsalTypes'
    <3>1. CASE UNCHANGED ticks
      BY <1>2, <2>1, <3>1 DEF tick, RehearsalInv, RehearsalTypes
    <3>2. CASE Rehearsing
      <4>1. ladderUi.status \in SessionStatuses /\ ladderUi.status.stage # Free
        BY <3>2 DEF Rehearsing, RehearsalInv, RehearsalTypes, Statuses, AtRestStatuses
      <4>2. <<ladderUi.status.id, nextDeploymentStage(ladderUi.status.stage)>> \in (0..MaxStarts) \X Stages
        BY <4>1 DEF SessionStatuses, nextDeploymentStage, Stages, Free
      <4> QED BY <1>2, <2>1, <4>2 DEF tick, RehearsalInv, RehearsalTypes
    <3> QED BY <1>2, <3>1, <3>2 DEF tick
  <2>4. QueueSound'
    BY <2>1 DEF RehearsalInv, QueueSound, OrderSound, Waiting
  <2>5. DisplaySound' /\ AnswerSound'
    BY <2>1, <2>2 DEF RehearsalInv, DisplaySound, AnswerSound, LadderAgrees, Waiting, AtRest, Rehearsing,
       LadderStatus, inactive_status, status_for_session
  <2>6. EveryStageConfirmed' /\ EvidenceBound'
    BY <2>1 DEF RehearsalInv, EveryStageConfirmed, EvidenceBound
  <2> QED BY <2>3, <2>4, <2>5, <2>6 DEF RehearsalInv
<1> QED BY <1>1, <1>2

LEMMA RehearsalNext ==
  ASSUME RehearsalConstants, RehearsalInv, [RehNext]_rehVars
  PROVE RehearsalInv'
<1>1. CASE UNCHANGED rehVars
  BY <1>1 DEF rehVars, RehearsalInv, RehearsalTypes, QueueSound, OrderSound, DisplaySound, AnswerSound,
     LadderAgrees, Waiting, AtRest, Rehearsing, EveryStageConfirmed, EvidenceBound, LadderStatus,
     inactive_status, status_for_session
<1>2. CASE RehNext
  BY <1>2, ShellOrders, LadderAnswered, ButtonsKeep, LoadedAgain, FormKeeps DEF RehNext
<1> QED BY <1>1, <1>2

RehearsalSafe == RehTypeOK /\ EveryStageConfirmed /\ EvidenceBound /\ LadderInStep

LEMMA RehearsalImplies ==
  ASSUME RehearsalConstants, RehearsalInv
  PROVE RehearsalSafe
<1>1. RehTypeOK
  BY DEF RehearsalConstants, RehearsalInv, RehearsalTypes, QueueSound, RehTypeOK, Sessions
<1>2. LadderInStep
  BY DEF RehearsalInv, DisplaySound, LadderAgrees, LadderInStep
<1> QED BY <1>1, <1>2 DEF RehearsalSafe, RehearsalInv

(* Every stage of a rehearsal was confirmed in that rehearsal, its evidence is of its own    *)
(* model, and a panel with nothing under way shows the session of the shell: through reloads *)
(* with commands under way, refused commands and boxes ticked meanwhile.                     *)
THEOREM RehearsalIsSafe ==
  ASSUME RehearsalConstants
  PROVE RehSpec => []RehearsalSafe
<1>1. RehInit => RehearsalInv
  BY RehearsalInit
<1>2. RehearsalInv /\ [RehNext]_rehVars => RehearsalInv'
  BY RehearsalNext
<1>3. RehearsalInv => RehearsalSafe
  BY RehearsalImplies
<1> QED BY <1>1, <1>2, <1>3, PTL DEF RehSpec

-----------------------------------------------------------------------------
(* The stage of the studio *)

-----------------------------------------------------------------------------
(* The stage of the page *)

StageRows == [bake : Nat, scene : Nat, session : [doc : Nat, live : BOOLEAN, jog : Nat],
              contract : Nat, artifact : Nat, report : [doc : Nat, refused : BOOLEAN],
              binding : Nat, jog : Nat, busy : BOOLEAN]
Positions == {"unused", "fetch", "drop", "bake", "session", "validate", "patchValidate",
              "patchSession", "save", "done"}
Kinds == {"none", "load", "patch", "save"}
Sources == {"share", "fragment", "demo"}
OpRows == [kind : Kinds, at : Positions, doc : Nat, hash : Nat, sources : Seq(Sources),
           busy : BOOLEAN]

StageConstants == MaxOps \in Nat

\* The live session is the only one, of document doc and with the offsets of the page.
SessionOf(doc) ==
  /\ alive = IF stage.session.live THEN {doc} ELSE {}
  /\ stage.session.live => stage.session.doc = doc /\ stage.session.jog = stage.jog

\* Everything on the page is of the contract of the store.
Whole ==
  /\ stage.contract = stage.scene /\ stage.binding \in {Empty, stage.contract}
  /\ stage.report.doc # stage.contract => stage.report.refused
  /\ SessionOf(stage.contract)

\* What the stage shows while operation o alone is under way, by where o stands.
StandsSound(o) ==
  LET p == ops[o] IN
  /\ stage.busy = p.busy
  /\ p.at \in {"fetch", "drop", "bake", "save"} => Whole
  /\ p.at = "save" => p.hash = stage.contract
  /\ p.at \in {"fetch", "drop", "bake", "session", "validate"} => p.hash \in {Empty, p.doc}
  /\ p.at \in {"session", "validate", "patchValidate", "patchSession"} => stage.scene = p.doc
  /\ p.at = "session" => alive = {} /\ stage.session = NoSession /\ stage.jog = 0
  /\ p.at = "validate" => SessionOf(p.doc)
  /\ p.at = "patchValidate" => SessionOf(stage.contract)
  /\ p.at = "patchSession" => /\ stage.contract = p.doc /\ alive = {} /\ ~stage.session.live
                              /\ stage.report.doc # stage.contract => stage.report.refused
  /\ p.at \in {"patchValidate", "patchSession"} => stage.binding = Empty

\* Operations are numbered in the order in which they start.
OpsSound == \E k \in 0..MaxOps : \A o \in Ops : ops[o].at # "unused" <=> o <= k

OneAtATime ==
  ~overlap => /\ \A o, p \in Ops : UnderWay(o) /\ UnderWay(p) => o = p
              /\ \A o \in Ops : UnderWay(o) => StandsSound(o)
              /\ StageQuiet => Whole /\ ~stage.busy

StageTypes ==
  /\ stage \in StageRows /\ ops \in [Ops -> OpRows] /\ overlap \in BOOLEAN
  /\ bake = [h \in DOMAIN bake |-> bake[h]]

StageInv == StageTypes /\ OpsSound /\ HandleIsCurrent /\ OneAtATime

LEMMA OpRowsSound == Boot \in OpRows /\ Unused \in OpRows
<1> DEFINE all == <<"share", "fragment", "demo">>
             none == <<>>
<1>1. none \in Seq(Sources) /\ all \in Seq(Sources)
  BY DEF Sources
<1>2. /\ Boot = [kind |-> "load", at |-> "fetch", doc |-> 1, hash |-> Empty, sources |-> all,
                   busy |-> FALSE]
        /\ Unused = [kind |-> "none", at |-> "unused", doc |-> Empty, hash |-> Empty,
                     sources |-> none, busy |-> FALSE]
  BY DEF Boot, Unused
<1> HIDE DEF all, none
<1>3. Boot \in OpRows
  BY <1>1, <1>2 DEF OpRows, Positions, Kinds, Empty
<1>4. Unused \in OpRows
  BY <1>1, <1>2 DEF OpRows, Positions, Kinds, Empty
<1> QED BY <1>3, <1>4

LEMMA StageInvInit == StageConstants /\ StageInit => StageInv
<1> SUFFICES ASSUME StageConstants, StageInit PROVE StageInv
  OBVIOUS
<1> USE DEF StageConstants
<1>2. StageTypes
  BY OpRowsSound DEF StageInit, StageTypes, StageRows, NoSession, Empty
<1>3. OpsSound
  <2>1. CASE MaxOps = 0
    BY <2>1 DEF OpsSound, Ops
  <2>2. CASE MaxOps # 0
    <3>1. \A o \in Ops : ops[o].at # "unused" <=> o <= 1
      BY <2>2 DEF StageInit, Ops, Boot, Unused
    <3> QED BY <2>2, <3>1 DEF OpsSound
  <2> QED BY <2>1, <2>2
<1>4. HandleIsCurrent
  BY DEF StageInit, HandleIsCurrent, NoSession
<1>5. Whole /\ ~stage.busy
  BY DEF StageInit, Whole, SessionOf, NoSession
<1>6. \A o \in Ops : UnderWay(o) => o = 1 /\ StandsSound(o)
  BY <1>5 DEF StageInit, UnderWay, StandsSound, Boot, Unused, Empty
<1> QED BY <1>2, <1>3, <1>4, <1>5, <1>6 DEF StageInv, OneAtATime

\* A new operation is one that has not begun; nothing was under way unless it overlaps.
LEMMA StartSound ==
  ASSUME StageConstants, StageInv, NEW r \in OpRows, r.at # "unused", Start(r)
  PROVE  /\ ops' \in [Ops -> OpRows] /\ overlap' \in BOOLEAN /\ OpsSound'
         /\ NextOp \in Ops /\ ops' = [ops EXCEPT ![NextOp] = r]
         /\ ~overlap' => Whole /\ ~stage.busy /\ \A o \in Ops : ops'[o].at \notin {"unused", "done"}
                                                     => o = NextOp /\ ops'[o] = r
<1> USE DEF StageConstants
<1>1. PICK k \in 0..MaxOps : \A o \in Ops : ops[o].at # "unused" <=> o <= k
  BY DEF StageInv, OpsSound
<1>2. {o \in Ops : ops[o].at # "unused"} = 1..k
  BY <1>1 DEF Ops
<1>3. NextOp = k + 1
  <2>1. Cardinality(1..k) = k
    BY FS_Interval
  <2> QED BY <1>2, <2>1 DEF NextOp, Started
<1>4. NextOp \in Ops /\ ops' = [ops EXCEPT ![NextOp] = r]
      /\ overlap' = (overlap \/ \E o \in Ops : UnderWay(o))
  BY DEF Start
<1>5. k + 1 \in 0..MaxOps
  BY <1>3, <1>4 DEF Ops
<1>6. \A o \in Ops : ops'[o].at # "unused" <=> o <= k + 1
  BY <1>1, <1>3, <1>4 DEF StageInv, StageTypes, Ops
<1>7. ~overlap' => StageQuiet /\ ~overlap
  BY <1>4 DEF StageInv, StageTypes, StageQuiet
<1>8. \A o \in Ops : o # NextOp => ops'[o] = ops[o]
  BY <1>4 DEF StageInv, StageTypes
<1> QED
  BY <1>4, <1>5, <1>6, <1>7, <1>8 DEF StageInv, StageTypes, OneAtATime, StageQuiet, UnderWay, OpsSound

\* An operation goes on.
LEMMA OpSoundStep ==
  ASSUME StageConstants, StageInv, NEW o \in Ops, UnderWay(o), overlap' = overlap,
         NEW r \in OpRows, r.at # "unused", ops' = [ops EXCEPT ![o] = r]
  PROVE  /\ ops' \in [Ops -> OpRows] /\ OpsSound' /\ ops'[o] = r
         /\ ~overlap => /\ StandsSound(o)
                        /\ \A p \in Ops : p # o => ops'[p].at \in {"unused", "done"}
<1>1. ops' \in [Ops -> OpRows] /\ ops'[o] = r /\ \A p \in Ops : p # o => ops'[p] = ops[p]
  BY DEF StageInv, StageTypes
<1>2. OpsSound'
  BY <1>1 DEF StageInv, OpsSound, UnderWay
<1> QED
  BY <1>1, <1>2 DEF StageInv, OneAtATime, UnderWay

\* The invariant after a step of operation o, from what holds when it is alone.
LEMMA OpKeeps ==
  ASSUME StageConstants, StageInv, NEW o \in Ops, UnderWay(o), overlap' = overlap,
         NEW r \in OpRows, r.at # "unused", ops' = [ops EXCEPT ![o] = r],
         stage' \in StageRows, HandleIsCurrent', bake' = [h \in DOMAIN bake' |-> bake'[h]],
         StandsSound(o) /\ r.at # "done" => StandsSound(o)',
         StandsSound(o) /\ r.at = "done" => Whole' /\ ~stage'.busy
  PROVE  StageInv'
<1>1. /\ ops' \in [Ops -> OpRows] /\ OpsSound' /\ ops'[o] = r
      /\ ~overlap => /\ StandsSound(o)
                     /\ \A p \in Ops : p # o => ops'[p].at \in {"unused", "done"}
  BY OpSoundStep
<1>2. StageTypes'
  BY <1>1 DEF StageInv, StageTypes
<1>3. OneAtATime'
  BY <1>1 DEF OneAtATime, UnderWay, StageQuiet
<1> QED BY <1>1, <1>2, <1>3 DEF StageInv

\* The invariant after a start.
LEMMA StartKeeps ==
  ASSUME StageConstants, StageInv, NEW r \in OpRows, r.at # "unused", Start(r),
         stage' \in StageRows, HandleIsCurrent', bake' = [h \in DOMAIN bake' |-> bake'[h]],
         NEW n \in Ops, n = NextOp,
         Whole /\ ~stage.busy /\ r.at # "done" /\ ops'[n] = r => StandsSound(n)',
         Whole /\ ~stage.busy /\ r.at = "done" => Whole' /\ ~stage'.busy
  PROVE  StageInv'
<1>1. /\ ops' \in [Ops -> OpRows] /\ overlap' \in BOOLEAN /\ OpsSound'
      /\ ops' = [ops EXCEPT ![n] = r]
      /\ ~overlap' => Whole /\ ~stage.busy /\ \A o \in Ops : ops'[o].at \notin {"unused", "done"}
                                                  => o = n /\ ops'[o] = r
  BY StartSound
<1>2. ops'[n] = r
  BY <1>1 DEF StageInv, StageTypes
<1>3. OneAtATime'
  BY <1>1, <1>2 DEF OneAtATime, UnderWay, StageQuiet
<1> QED BY <1>1, <1>3 DEF StageInv, StageTypes

\* A start that leaves the stage as it is but for a busy flag and the binding.
LEMMA PlainStart ==
  ASSUME StageConstants, StageInv, NEW r \in OpRows, Start(r), UNCHANGED <<bake, alive>>,
         r.at \in {"fetch", "drop", "bake", "save"},
         r.at = "save" => r.hash = stage.contract, r.at # "save" => r.hash \in {Empty, r.doc},
         NEW b \in BOOLEAN, ~stage.busy => b = r.busy, NEW d \in {stage.binding, Empty},
         stage' = [stage EXCEPT !.busy = b, !.binding = d]
  PROVE  StageInv'
<1>1. stage \in StageRows
  BY DEF StageInv, StageTypes
<1>2. stage' \in StageRows /\ HandleIsCurrent'
  <2>1. d \in Nat
    BY <1>1 DEF StageRows, Empty
  <2>2. stage' \in StageRows
    BY <1>1, <2>1 DEF StageRows
  <2>3. /\ stage'.bake = stage.bake /\ stage'.scene = stage.scene /\ stage'.artifact = stage.artifact
        /\ stage'.contract = stage.contract /\ stage'.session = stage.session
    BY <1>1 DEF StageRows
  <2> QED BY <2>2, <2>3 DEF StageInv, HandleIsCurrent
<1>3. NextOp \in Ops
  BY DEF Start
<1>4. ASSUME Whole, ~stage.busy, ops'[NextOp] = r, NEW n \in Ops, n = NextOp PROVE StandsSound(n)'
  <2>1. ops'[n] = r
    BY <1>4
  <2>2. stage'.busy = r.busy
    BY <1>1, <1>4 DEF StageRows, OpRows
  <2>3. Whole' /\ stage'.contract = stage.contract
    BY <1>1, <1>4 DEF StageRows, Whole, SessionOf
  <2> QED BY <2>1, <2>2, <2>3 DEF StandsSound
<1>5. bake' = [h \in DOMAIN bake' |-> bake'[h]]
  BY DEF StageInv, StageTypes
<1> QED BY <1>2, <1>3, <1>4, <1>5, StartKeeps

LEMMA LoadStep ==
  ASSUME StageConstants, StageInv,
         \/ loadDemo \/ (\E r \in BOOLEAN : runGenerate(r)) \/ editActiveModel
         \/ saveCodesignCandidate \/ selectActiveModel \/ saveCurrentModel \/ onDrop
  PROVE  StageInv'
<1>1. NextOp \in Nat
  <2>1. \A r : Start(r) => NextOp \in Nat
    BY DEF Start, Ops, StageConstants
  <2>2. \E r : Start(r)
    BY DEF loadDemo, runGenerate, editActiveModel, saveCodesignCandidate, selectActiveModel,
           saveCurrentModel, onDrop
  <2> QED BY <2>1, <2>2
<1>3. stage \in StageRows /\ stage.busy \in BOOLEAN /\ stage.contract \in Nat
  BY DEF StageInv, StageTypes, StageRows
<1>4. Unused \in OpRows
  BY OpRowsSound
<1>5. /\ stage = [stage EXCEPT !.busy = stage.busy, !.binding = stage.binding]
      /\ [stage EXCEPT !.busy = TRUE] = [stage EXCEPT !.busy = TRUE, !.binding = stage.binding]
  BY <1>3 DEF StageRows
<1>6. CASE loadDemo
  <2> DEFINE r == [Unused EXCEPT !.kind = "load", !.at = "fetch", !.doc = NextOp]
  <2>1. r \in OpRows /\ r.at = "fetch" /\ r.hash = Empty /\ r.busy = FALSE
    BY <1>1, <1>3, <1>4, <1>6 DEF OpRows, Positions, Kinds, Unused, Empty
  <2>2. Start(r) /\ UNCHANGED <<bake, alive>> /\ stage' = [stage EXCEPT !.busy = stage.busy, !.binding = stage.binding]
    BY <1>6, <1>5 DEF loadDemo
  <2>3. ~stage.busy => stage.busy = r.busy
    BY <1>3, <2>1
  <2> HIDE DEF r
  <2> QED BY <1>3, <1>5, <2>1, <2>2, <2>3, PlainStart
<1>7. ASSUME NEW g \in BOOLEAN, runGenerate(g) PROVE StageInv'
  <2> DEFINE r == [Unused EXCEPT !.kind = "load", !.at = "fetch", !.doc = NextOp,
                                !.hash = IF g THEN NextOp ELSE Empty]
  <2>1. r \in OpRows /\ r.at = "fetch" /\ r.hash \in {Empty, r.doc} /\ r.busy = FALSE
    BY <1>1, <1>3, <1>4, <1>7 DEF OpRows, Positions, Kinds, Unused, Empty
  <2>2. Start(r) /\ UNCHANGED <<bake, alive>> /\ stage' = [stage EXCEPT !.busy = stage.busy, !.binding = stage.binding]
    BY <1>7, <1>5 DEF runGenerate
  <2>3. ~stage.busy => stage.busy = r.busy
    BY <1>3, <2>1
  <2> HIDE DEF r
  <2> QED BY <1>3, <1>5, <2>1, <2>2, <2>3, PlainStart
<1>8. CASE editActiveModel \/ saveCodesignCandidate
  <2> DEFINE r == ModelOperation
  <2>1. r \in OpRows /\ r.at = "fetch" /\ r.hash = r.doc /\ r.busy
    BY <1>1, <1>3, <1>4, <1>8 DEF OpRows, Positions, Kinds, ModelOperation, Unused, Empty
  <2>2. Start(r) /\ UNCHANGED <<bake, alive>> /\ stage' = [stage EXCEPT !.busy = TRUE, !.binding = stage.binding]
    BY <1>8, <1>5 DEF editActiveModel, saveCodesignCandidate
  <2> HIDE DEF r
  <2> QED BY <1>3, <1>5, <2>1, <2>2, PlainStart
<1>9. CASE selectActiveModel
  <2> DEFINE r == [ModelOperation EXCEPT !.at = "bake"]
  <2>1. r \in OpRows /\ r.at = "bake" /\ r.hash = r.doc /\ r.busy
    BY <1>1, <1>3, <1>4, <1>9 DEF OpRows, Positions, Kinds, ModelOperation, Unused, Empty
  <2>2. Start(r) /\ UNCHANGED <<bake, alive>> /\ stage' = [stage EXCEPT !.busy = TRUE, !.binding = Empty]
    BY <1>9, <1>5 DEF selectActiveModel
  <2> HIDE DEF r
  <2> QED BY <1>3, <1>5, <2>1, <2>2, PlainStart
<1>10. CASE saveCurrentModel
  <2> DEFINE r == [Unused EXCEPT !.kind = "save", !.at = "save", !.doc = stage.contract,
                                !.hash = stage.contract, !.busy = TRUE]
  <2>1. r \in OpRows /\ r.at = "save" /\ r.hash = stage.contract /\ r.busy
    BY <1>1, <1>3, <1>4, <1>10 DEF OpRows, Positions, Kinds, Unused, Empty
  <2>2. Start(r) /\ UNCHANGED <<bake, alive>> /\ stage' = [stage EXCEPT !.busy = TRUE, !.binding = stage.binding]
    BY <1>10, <1>5 DEF saveCurrentModel
  <2> HIDE DEF r
  <2> QED BY <1>3, <1>5, <2>1, <2>2, PlainStart
<1>11. CASE onDrop
  <2> DEFINE r == [Unused EXCEPT !.kind = "load", !.at = "drop", !.doc = NextOp]
  <2>1. r \in OpRows /\ r.at = "drop" /\ r.hash = Empty /\ r.busy = FALSE
    BY <1>1, <1>3, <1>4, <1>11 DEF OpRows, Positions, Kinds, Unused, Empty
  <2>2. Start(r) /\ UNCHANGED <<bake, alive>> /\ stage' = [stage EXCEPT !.busy = stage.busy, !.binding = stage.binding]
    BY <1>11, <1>5 DEF onDrop
  <2>3. ~stage.busy => stage.busy = r.busy
    BY <1>3, <2>1
  <2> HIDE DEF r
  <2> QED BY <1>3, <1>5, <2>1, <2>2, <2>3, PlainStart
<1> QED BY <1>6, <1>7, <1>8, <1>9, <1>10, <1>11

LEMMA PatchStep ==
  ASSUME StageConstants, StageInv, applyPatch
  PROVE  StageInv'
<1>1. NextOp \in Nat
  <2>1. \A r : Start(r) => NextOp \in Nat
    BY DEF Start, Ops, StageConstants
  <2> QED BY <2>1 DEF applyPatch
<1>2. stage \in StageRows /\ Unused \in OpRows /\ bake = [h \in DOMAIN bake |-> bake[h]]
  BY OpRowsSound DEF StageInv, StageTypes
<1>3. CASE /\ Start([Unused EXCEPT !.kind = "patch", !.at = "patchValidate", !.doc = NextOp])
           /\ bake' = [bake EXCEPT ![stage.bake] = NextOp]
           /\ stage' = [stage EXCEPT !.binding = Empty, !.scene = NextOp]
           /\ alive' = alive
  <2> DEFINE r == [Unused EXCEPT !.kind = "patch", !.at = "patchValidate", !.doc = NextOp]
  <2>1. r \in OpRows /\ r.at = "patchValidate" /\ r.doc = NextOp /\ r.busy = FALSE
    BY <1>1, <1>2 DEF OpRows, Positions, Kinds, Unused
  <2>2. Start(r)
    BY <1>3
  <2>3. stage' \in StageRows /\ HandleIsCurrent'
    BY <1>1, <1>2, <1>3 DEF applyPatch, StageInv, StageRows, HandleIsCurrent, Empty
  <2>4. ASSUME NEW n \in Ops, n = NextOp, Whole, ~stage.busy, ops'[n] = r PROVE StandsSound(n)'
    <3>1. stage'.busy = r.busy /\ stage'.scene = r.doc /\ SessionOf(stage.contract)'
          /\ stage'.contract = stage.contract /\ stage'.binding = Empty
      BY <1>2, <1>3, <2>1, <2>4 DEF StageRows, Whole, SessionOf
    <3> HIDE DEF r
    <3> QED BY <2>1, <2>4, <3>1 DEF StandsSound, SessionOf
  <2>5. bake' = [h \in DOMAIN bake' |-> bake'[h]]
    BY <1>2, <1>3
  <2>6. NextOp \in Ops /\ r.at # "unused" /\ r.at # "done"
    BY <2>1, <2>2 DEF Start
  <2> HIDE DEF r
  <2> QED BY <2>1, <2>2, <2>3, <2>4, <2>5, <2>6, StartKeeps
<1>4. CASE /\ Start([Unused EXCEPT !.kind = "patch", !.at = "done"])
           /\ stage' = [stage EXCEPT !.binding = Empty]
           /\ bake' = bake /\ alive' = alive
  <2> DEFINE r == [Unused EXCEPT !.kind = "patch", !.at = "done"]
  <2>1. r \in OpRows /\ r.at = "done"
    BY <1>2 DEF OpRows, Positions, Kinds
  <2>2. Start(r) /\ NextOp \in Ops
    BY <1>4 DEF Start
  <2>3. stage' \in StageRows /\ HandleIsCurrent'
    BY <1>2, <1>4 DEF StageInv, StageRows, HandleIsCurrent, Empty
  <2>4. Whole /\ ~stage.busy => Whole' /\ ~stage'.busy
    BY <1>2, <1>4 DEF StageRows, Whole, SessionOf
  <2>5. bake' = [h \in DOMAIN bake' |-> bake'[h]]
    BY <1>2, <1>4
  <2> HIDE DEF r
  <2> QED BY <2>1, <2>2, <2>3, <2>4, <2>5, StartKeeps
<1> QED BY <1>3, <1>4 DEF applyPatch

\* The user's jogs touch the offsets and the live session only.
LEMMA JogStep ==
  ASSUME StageConstants, StageInv, jogDrag \/ clearJog
  PROVE  StageInv'
<1>1. stage \in StageRows /\ UNCHANGED <<bake, alive, ops, overlap>>
  BY DEF StageInv, StageTypes, jogDrag, clearJog
<1>2. /\ stage' \in StageRows
      /\ stage'.bake = stage.bake /\ stage'.scene = stage.scene /\ stage'.contract = stage.contract
      /\ stage'.artifact = stage.artifact /\ stage'.report = stage.report
      /\ stage'.binding = stage.binding /\ stage'.busy = stage.busy
      /\ stage'.session.live = stage.session.live /\ stage'.session.doc = stage.session.doc
      /\ stage.session.live => stage'.session.jog = stage'.jog
  <2>1. ASSUME NEW j \in Nat, NEW i \in Nat, stage.session.live => i = j,
               stage' = [stage EXCEPT !.jog = j, !.session.jog = i]
        PROVE  <1>2
    BY <1>1, <2>1 DEF StageRows
  <2>2. CASE jogDrag
    <3> DEFINE i == IF stage.session.live THEN stage.jog + 1 ELSE stage.session.jog
    <3>1. i \in Nat /\ stage.jog + 1 \in Nat
      BY <1>1 DEF StageRows
    <3>2. stage' = [stage EXCEPT !.jog = stage.jog + 1, !.session.jog = i]
      BY <1>1, <2>2 DEF jogDrag, StageRows
    <3> QED BY <2>1, <3>1, <3>2
  <2>3. CASE clearJog
    <3> DEFINE i == IF stage.session.live THEN 0 ELSE stage.session.jog
    <3>1. i \in Nat
      BY <1>1 DEF StageRows
    <3>2. stage' = [stage EXCEPT !.jog = 0, !.session.jog = i]
      BY <1>1, <2>3 DEF clearJog, StageRows
    <3> QED BY <2>1, <3>1, <3>2
  <2> QED BY <2>2, <2>3
<1>3. stage.session = NoSession /\ stage.jog = 0 => FALSE
  BY DEF jogDrag, clearJog, NoSession
<1>4. HandleIsCurrent'
  BY <1>1, <1>2 DEF StageInv, HandleIsCurrent
<1>5. \A d : SessionOf(d) => SessionOf(d)'
  BY <1>1, <1>2 DEF SessionOf
<1>6. Whole => Whole'
  BY <1>2, <1>5 DEF Whole
<1>7. \A o \in Ops : StandsSound(o) => StandsSound(o)'
  BY <1>1, <1>2, <1>3, <1>5, <1>6 DEF StandsSound
<1> QED
  BY <1>1, <1>2, <1>4, <1>6, <1>7 DEF StageInv, StageTypes, OpsSound, OneAtATime, UnderWay, StageQuiet

LEMMA OperationStep ==
  ASSUME StageConstants, StageInv, NEW o \in Ops,
         \/ Fetched(o) \/ BakeReady(o) \/ SessionReady(o) \/ Validated(o)
         \/ PatchValidated(o) \/ PatchSessionReady(o) \/ Saved(o) \/ DropValidated(o)
  PROVE  StageInv'
<1>1. /\ stage \in StageRows /\ ops \in [Ops -> OpRows] /\ bake = [h \in DOMAIN bake |-> bake[h]]
      /\ HandleIsCurrent /\ UnderWay(o) /\ overlap' = overlap /\ ops[o] \in OpRows
  BY DEF StageInv, StageTypes, UnderWay, Fetched, BakeReady, SessionReady, Validated, PatchValidated,
         PatchSessionReady, Saved, DropValidated
<1> DEFINE at(a) == [ops[o] EXCEPT !.at = a]
<1>2. ASSUME NEW a \in Positions PROVE at(a) \in OpRows /\ at(a).at = a
  BY <1>1 DEF OpRows
<1>3. ASSUME NEW a, Goto(o, a) PROVE ops' = [ops EXCEPT ![o] = at(a)]
  BY <1>1, <1>3 DEF Goto
<1>4. ASSUME NEW s \in StageRows, End(o, s)
      PROVE  /\ ops' = [ops EXCEPT ![o] = at("done")] /\ stage' \in StageRows
             /\ stage' = [s EXCEPT !.busy = @ /\ ~ops[o].busy]
  BY <1>1, <1>3, <1>4 DEF End, StageRows, OpRows
\* A step that leaves the stage as it is, but for the binding: the operation goes on before
\* its bake, or ends.
<1>5. ASSUME UNCHANGED <<bake, alive>>, NEW r \in OpRows, ops' = [ops EXCEPT ![o] = r],
             r.at \in {"fetch", "bake"}, r.hash = ops[o].hash, r.doc = ops[o].doc,
             r.busy = ops[o].busy, ops[o].at \in {"fetch", "drop", "bake"},
             NEW b \in {stage.binding, Empty}, stage' = [stage EXCEPT !.binding = b]
      PROVE  StageInv'
  <2>1. b \in Nat
    BY <1>1 DEF StageRows, Empty
  <2>2. stage' \in StageRows /\ HandleIsCurrent'
    BY <1>1, <1>5, <2>1 DEF StageRows, HandleIsCurrent
  <2>3. Whole => Whole'
    BY <1>1, <1>5 DEF StageRows, Whole, SessionOf
  <2>4. ops'[o] = r /\ stage'.busy = stage.busy
    BY <1>1, <1>5 DEF StageRows
  <2>5. StandsSound(o) => StandsSound(o)'
    BY <1>5, <2>3, <2>4 DEF StandsSound
  <2> QED BY <1>1, <1>5, <2>2, <2>5, OpKeeps
<1>6. ASSUME UNCHANGED <<bake, alive>>, ops[o].at \in {"fetch", "drop", "bake", "save"},
             NEW s \in StageRows, End(o, s),
             StandsSound(o) /\ Whole => /\ s.contract = s.scene /\ s.binding \in {Empty, s.contract}
                                        /\ s.report.doc # s.contract => s.report.refused,
             s.contract = stage.contract, s.session = stage.session, s.jog = stage.jog,
             s.busy = stage.busy, s.bake = stage.bake, s.scene = stage.scene, s.artifact = stage.artifact
      PROVE  StageInv'
  <2>1. /\ ops' = [ops EXCEPT ![o] = at("done")] /\ stage' \in StageRows
        /\ stage' = [s EXCEPT !.busy = @ /\ ~ops[o].busy]
    BY <1>4, <1>6
  <2>2. /\ stage'.contract = s.contract /\ stage'.scene = s.scene /\ stage'.binding = s.binding
        /\ stage'.report = s.report /\ stage'.session = s.session /\ stage'.jog = s.jog
        /\ stage'.bake = s.bake /\ stage'.artifact = s.artifact
        /\ stage'.busy = (s.busy /\ ~ops[o].busy)
    BY <2>1 DEF StageRows
  <2>3. HandleIsCurrent'
    BY <1>1, <1>6, <2>2 DEF HandleIsCurrent
  <2>4. ASSUME StandsSound(o) PROVE Whole' /\ ~stage'.busy
    BY <1>6, <2>2, <2>4 DEF StandsSound, Whole, SessionOf
  <2>5. at("done") \in OpRows /\ at("done").at = "done"
    BY <1>2 DEF Positions
  <2> HIDE DEF at
  <2> QED BY <1>1, <1>6, <2>1, <2>3, <2>4, <2>5, OpKeeps
<1>7. ASSUME GiveUp(o), UNCHANGED <<bake, alive>>, ops[o].at \in {"fetch", "bake"}
      PROVE  StageInv'
  <2>1. CASE ops[o].sources # <<>> /\ Tail(ops[o].sources) # <<>>
    <3> DEFINE r == [ops[o] EXCEPT !.sources = Tail(@), !.at = "fetch"]
    <3>1. r \in OpRows /\ r.at = "fetch" /\ r.hash = ops[o].hash /\ r.doc = ops[o].doc
          /\ r.busy = ops[o].busy
      <4>1. ops[o].sources \in Seq(Sources)
        BY <1>1 DEF OpRows
      <4>2. Tail(ops[o].sources) \in Seq(Sources)
        BY <2>1, <4>1
      <4> QED BY <1>1, <4>2 DEF OpRows, Positions
    <3>2. ops' = [ops EXCEPT ![o] = r]
      BY <1>1, <1>7, <2>1 DEF GiveUp
    <3>3. stage' = [stage EXCEPT !.binding = stage.binding]
      BY <1>1, <1>7, <2>1 DEF GiveUp, StageRows
    <3> HIDE DEF r
    <3> QED BY <1>5, <1>7, <3>1, <3>2, <3>3
  <2>2. CASE End(o, stage)
    BY <1>1, <1>6, <1>7, <2>2 DEF Whole
  <2> QED BY <1>7, <2>1, <2>2 DEF GiveUp
<1>8. CASE Fetched(o)
  <2>1. CASE Goto(o, "bake") /\ stage' = [stage EXCEPT !.binding = Empty]
    <3>1. at("bake") \in OpRows /\ at("bake").at = "bake" /\ at("bake").hash = ops[o].hash
          /\ at("bake").doc = ops[o].doc /\ at("bake").busy = ops[o].busy
      BY <1>1 DEF OpRows, Positions
    <3>2. ops' = [ops EXCEPT ![o] = at("bake")]
      BY <1>3, <2>1
    <3> HIDE DEF at
    <3> QED BY <1>5, <1>8, <2>1, <3>1, <3>2 DEF Fetched
  <2> QED BY <1>7, <1>8, <2>1 DEF Fetched
<1>9. CASE BakeReady(o)
  <2>1. CASE /\ bake' = CoreBake(o, ops[o].doc)
             /\ alive' = alive \ {stage.session.doc}
             /\ stage' = [stage EXCEPT !.bake = o, !.scene = ops[o].doc, !.session = NoSession,
                                       !.jog = 0]
             /\ Goto(o, "session")
    <3>1. ops' = [ops EXCEPT ![o] = at("session")] /\ at("session") \in OpRows
          /\ at("session").at = "session" /\ at("session").hash = ops[o].hash
          /\ at("session").doc = ops[o].doc /\ at("session").busy = ops[o].busy
      BY <1>1, <1>2, <1>3, <2>1 DEF Positions, OpRows
    <3>2. stage' \in StageRows /\ stage'.scene = ops[o].doc /\ stage'.session = NoSession
          /\ stage'.jog = 0 /\ stage'.busy = stage.busy /\ stage'.bake = o
          /\ stage'.artifact = stage.artifact /\ stage'.contract = stage.contract
      <4>1. o \in Nat /\ ops[o].doc \in Nat
        BY <1>1 DEF OpRows, Ops, StageConstants
      <4>2. NoSession \in [doc : Nat, live : BOOLEAN, jog : Nat]
        BY DEF NoSession, Empty
      <4> QED BY <1>1, <2>1, <4>1, <4>2 DEF StageRows
    <3>3. HandleIsCurrent' /\ bake' = [h \in DOMAIN bake' |-> bake'[h]]
      BY <1>1, <2>1, <3>2 DEF HandleIsCurrent, CoreBake, NoSession
    <3>4. ASSUME StandsSound(o) PROVE StandsSound(o)'
      <4>1. alive' = {}
        BY <1>9, <2>1, <3>4 DEF BakeReady, StandsSound, Whole, SessionOf
      <4>2. ops'[o] = at("session")
        BY <1>1, <3>1
      <4> HIDE DEF at
      <4> QED BY <1>9, <3>1, <3>2, <3>4, <4>1, <4>2 DEF StandsSound, BakeReady
    <3> HIDE DEF at
    <3> QED BY <1>1, <3>1, <3>2, <3>3, <3>4, OpKeeps
  <2> QED BY <1>7, <1>9, <2>1 DEF BakeReady
<1>10. CASE SessionReady(o)
  <2>1. PICK d \in Nat, l \in BOOLEAN :
          /\ stage' = [stage EXCEPT !.session = [doc |-> d, live |-> l, jog |-> 0]]
          /\ l => d = ops[o].doc
          /\ alive' = IF l THEN alive \cup {ops[o].doc} ELSE alive
    <3>1. ops[o].doc \in Nat /\ Empty \in Nat
      BY <1>1 DEF OpRows, Empty
    <3> QED BY <1>10, <3>1 DEF SessionReady, NoSession
  <2>2. ops' = [ops EXCEPT ![o] = at("validate")] /\ at("validate") \in OpRows
        /\ at("validate").at = "validate" /\ at("validate").hash = ops[o].hash
        /\ at("validate").doc = ops[o].doc /\ at("validate").busy = ops[o].busy
    BY <1>1, <1>2, <1>3, <1>10 DEF Positions, OpRows, SessionReady
  <2>3. /\ stage' \in StageRows /\ stage'.scene = stage.scene /\ stage'.jog = stage.jog
        /\ stage'.busy = stage.busy /\ stage'.bake = stage.bake /\ stage'.artifact = stage.artifact
        /\ stage'.contract = stage.contract
        /\ stage'.session.live = l /\ stage'.session.doc = d /\ stage'.session.jog = 0
    BY <1>1, <2>1 DEF StageRows
  <2>4. HandleIsCurrent' /\ bake' = [h \in DOMAIN bake' |-> bake'[h]]
    BY <1>1, <1>10, <2>1, <2>3 DEF HandleIsCurrent, SessionReady
  <2>5. ASSUME StandsSound(o) PROVE StandsSound(o)'
    <3>1. ops'[o] = at("validate")
      BY <1>1, <2>2
    <3> HIDE DEF at
    <3>2. alive = {} /\ stage.jog = 0 /\ stage.scene = ops[o].doc /\ stage.busy = ops[o].busy
          /\ ops[o].hash \in {Empty, ops[o].doc}
      BY <1>10, <2>5 DEF StandsSound, SessionReady
    <3>3. \A e : e = ops[o].doc => SessionOf(e)'
      BY <2>1, <2>3, <3>2 DEF SessionOf
    <3>4. SessionOf(ops[o].doc)'
      BY <2>2, <3>1, <3>3
    <3> QED BY <2>2, <2>3, <3>1, <3>2, <3>4 DEF StandsSound
  <2> HIDE DEF at
  <2> QED BY <1>1, <2>2, <2>3, <2>4, <2>5, OpKeeps
<1>11. CASE Validated(o)
  <2> DEFINE ready(r) == [stage EXCEPT !.artifact = ops[o].doc, !.contract = ops[o].doc, !.report = r,
                                        !.binding = ops[o].hash]
  <2>1. PICK report \in [doc : Nat, refused : BOOLEAN] :
          report.doc = ops[o].doc /\ End(o, ready(report))
    <3>1. \A d \in Nat : \A j \in Judged(d) : j \in [doc : Nat, refused : BOOLEAN] /\ j.doc = d
      BY DEF Judged
    <3>2. ops[o].doc \in Nat /\ stage.contract \in Nat
      BY <1>1 DEF StageRows, OpRows
    <3>3. PICK local \in Judged(ops[o].doc), override \in Judged(ops[o].doc) \cup Judged(stage.contract) :
             End(o, [setLoaded(stage, ops[o].doc, selectContractReport(local, override))
                       EXCEPT !.binding = ops[o].hash])
      BY <1>11 DEF Validated
    <3>4. selectContractReport(local, override) \in [doc : Nat, refused : BOOLEAN]
          /\ selectContractReport(local, override).doc = ops[o].doc
      BY <3>1, <3>2 DEF selectContractReport
    <3> QED BY <1>1, <3>3, <3>4 DEF setLoaded, StageRows
  <2> DEFINE s == ready(report)
  <2>a. /\ s = [stage EXCEPT !.artifact = ops[o].doc, !.contract = ops[o].doc, !.report = report,
                             !.binding = ops[o].hash]
        /\ report.doc = ops[o].doc /\ End(o, s)
    BY <2>1
  <2> HIDE DEF s
  <2>2. /\ s \in StageRows /\ s.contract = ops[o].doc /\ s.artifact = ops[o].doc /\ s.report = report
        /\ s.binding = ops[o].hash /\ s.bake = stage.bake /\ s.scene = stage.scene
        /\ s.session = stage.session /\ s.jog = stage.jog /\ s.busy = stage.busy
    BY <1>1, <2>a DEF StageRows, OpRows
  <2>3. /\ ops' = [ops EXCEPT ![o] = at("done")] /\ stage' \in StageRows
        /\ stage' = [s EXCEPT !.busy = @ /\ ~ops[o].busy]
    BY <1>4, <2>a, <2>2
  <2>4. /\ stage'.contract = s.contract /\ stage'.scene = s.scene /\ stage'.binding = s.binding
        /\ stage'.report = s.report /\ stage'.session = s.session /\ stage'.jog = s.jog
        /\ stage'.bake = s.bake /\ stage'.artifact = s.artifact
        /\ stage'.busy = (s.busy /\ ~ops[o].busy)
    BY <2>2, <2>3 DEF StageRows
  <2>5. UNCHANGED <<bake, alive>>
    BY <1>11 DEF Validated
  <2>6. HandleIsCurrent'
    BY <1>1, <2>2, <2>4, <2>5 DEF HandleIsCurrent
  <2>7. ASSUME StandsSound(o) PROVE Whole' /\ ~stage'.busy
    <3>1. SessionOf(ops[o].doc) /\ stage.scene = ops[o].doc /\ stage.busy = ops[o].busy
          /\ ops[o].hash \in {Empty, ops[o].doc}
      BY <1>11, <2>7 DEF StandsSound, Validated
    <3>2. \A e : SessionOf(e) => SessionOf(e)'
      BY <2>2, <2>4, <2>5 DEF SessionOf
    <3>3. stage'.contract = ops[o].doc
      BY <2>2, <2>4
    <3>4. SessionOf(stage.contract)'
      BY <3>1, <3>2, <3>3
    <3> QED BY <2>a, <2>2, <2>4, <3>1, <3>4 DEF Whole
  <2>8. at("done") \in OpRows /\ at("done").at = "done"
    BY <1>2 DEF Positions
  <2> HIDE DEF at
  <2> QED BY <1>1, <2>3, <2>5, <2>6, <2>7, <2>8, OpKeeps
<1>12. CASE PatchValidated(o)
  <2>1. PICK report \in [doc : Nat, refused : BOOLEAN] :
          /\ stage' = [stage EXCEPT !.artifact = ops[o].doc, !.contract = ops[o].doc,
                                    !.report = report, !.session.live = FALSE]
          /\ report.doc = ops[o].doc
    <3>1. ops[o].doc \in Nat
      BY <1>1 DEF OpRows
    <3>2. \A j \in Judged(ops[o].doc) : j \in [doc : Nat, refused : BOOLEAN] /\ j.doc = ops[o].doc
      BY <3>1 DEF Judged
    <3> QED BY <1>1, <1>12, <3>2 DEF PatchValidated, setLoaded, Disposed, StageRows
  <2>2. ops' = [ops EXCEPT ![o] = at("patchSession")] /\ at("patchSession") \in OpRows
        /\ at("patchSession").at = "patchSession" /\ at("patchSession").doc = ops[o].doc
        /\ at("patchSession").busy = ops[o].busy
    BY <1>1, <1>2, <1>3, <1>12 DEF Positions, OpRows, PatchValidated
  <2>3. /\ stage' \in StageRows /\ stage'.contract = ops[o].doc /\ stage'.artifact = ops[o].doc
        /\ stage'.report = report /\ ~stage'.session.live /\ stage'.scene = stage.scene
        /\ stage'.bake = stage.bake /\ stage'.binding = stage.binding /\ stage'.busy = stage.busy
    BY <1>1, <2>1 DEF StageRows, OpRows
  <2>4. HandleIsCurrent' /\ bake' = [h \in DOMAIN bake' |-> bake'[h]]
    BY <1>1, <1>12, <2>3 DEF HandleIsCurrent, PatchValidated
  <2>5. ASSUME StandsSound(o) PROVE StandsSound(o)'
    <3>1. ops'[o] = at("patchSession")
      BY <1>1, <2>2
    <3>2. alive' = {} /\ stage.scene = ops[o].doc /\ stage.busy = ops[o].busy /\ stage.binding = Empty
      BY <1>12, <2>5 DEF StandsSound, PatchValidated, SessionOf
    <3> HIDE DEF at
    <3> QED BY <2>1, <2>2, <2>3, <3>1, <3>2 DEF StandsSound
  <2> HIDE DEF at
  <2> QED BY <1>1, <2>2, <2>3, <2>4, <2>5, OpKeeps
<1>13. CASE PatchSessionReady(o)
  <2> DEFINE open(d, l, j) == [stage EXCEPT !.session = [doc |-> d, live |-> l, jog |-> j]]
  <2>1. PICK d \in Nat, l \in BOOLEAN, j \in Nat :
          /\ End(o, open(d, l, j))
          /\ l => d = ops[o].doc /\ j = stage.jog
          /\ alive' = IF l THEN alive \cup {ops[o].doc} ELSE alive
    <3>1. ops[o].doc \in Nat /\ Empty \in Nat /\ stage.jog \in Nat
      BY <1>1 DEF OpRows, Empty, StageRows
    <3> QED BY <1>13, <3>1 DEF PatchSessionReady, NoSession
  <2> DEFINE s == open(d, l, j)
  <2>a. s = [stage EXCEPT !.session = [doc |-> d, live |-> l, jog |-> j]] /\ End(o, s)
    BY <2>1
  <2> HIDE DEF s
  <2>2. /\ s \in StageRows /\ s.contract = stage.contract /\ s.artifact = stage.artifact
        /\ s.report = stage.report /\ s.binding = stage.binding /\ s.bake = stage.bake
        /\ s.scene = stage.scene /\ s.jog = stage.jog /\ s.busy = stage.busy
        /\ s.session.live = l /\ s.session.doc = d /\ s.session.jog = j
    BY <1>1, <2>a DEF StageRows
  <2>3. /\ ops' = [ops EXCEPT ![o] = at("done")] /\ stage' \in StageRows
        /\ stage' = [s EXCEPT !.busy = @ /\ ~ops[o].busy]
    BY <1>4, <2>a, <2>2
  <2>4. /\ stage'.contract = s.contract /\ stage'.scene = s.scene /\ stage'.binding = s.binding
        /\ stage'.report = s.report /\ stage'.session = s.session /\ stage'.jog = s.jog
        /\ stage'.bake = s.bake /\ stage'.artifact = s.artifact
        /\ stage'.busy = (s.busy /\ ~ops[o].busy)
    BY <2>2, <2>3 DEF StageRows
  <2>5. bake' = bake
    BY <1>13 DEF PatchSessionReady
  <2>6. HandleIsCurrent'
    BY <1>1, <2>1, <2>2, <2>4, <2>5 DEF HandleIsCurrent
  <2>7. ASSUME StandsSound(o) PROVE Whole' /\ ~stage'.busy
    <3>1. /\ stage.contract = ops[o].doc /\ stage.scene = ops[o].doc /\ alive = {}
          /\ stage.report.doc # stage.contract => stage.report.refused
          /\ stage.binding = Empty /\ stage.busy = ops[o].busy
      BY <1>13, <2>7 DEF StandsSound, PatchSessionReady
    <3>2. \A e : e = ops[o].doc => SessionOf(e)'
      BY <2>1, <2>2, <2>4, <3>1 DEF SessionOf
    <3>3. SessionOf(stage.contract)'
      BY <2>2, <2>4, <3>1, <3>2
    <3> QED BY <2>2, <2>4, <3>1, <3>3 DEF Whole
  <2>8. at("done") \in OpRows /\ at("done").at = "done"
    BY <1>2 DEF Positions
  <2> HIDE DEF at
  <2> QED BY <1>1, <2>3, <2>5, <2>6, <2>7, <2>8, OpKeeps
<1>14. CASE Saved(o)
  <2>1. CASE End(o, stage)
    BY <1>1, <1>6, <1>14, <2>1 DEF Whole, Saved
  <2>2. CASE End(o, [stage EXCEPT !.binding = ops[o].hash])
    <3> DEFINE s == [stage EXCEPT !.binding = ops[o].hash]
    <3>1. /\ s \in StageRows /\ s.contract = stage.contract /\ s.artifact = stage.artifact
          /\ s.report = stage.report /\ s.bake = stage.bake /\ s.binding = ops[o].hash
          /\ s.scene = stage.scene /\ s.jog = stage.jog /\ s.busy = stage.busy
          /\ s.session = stage.session
      BY <1>1 DEF StageRows, OpRows
    <3>2. s.report.doc # s.contract => s.report.refused \/ ~Whole
      BY <3>1 DEF Whole
    <3>3. UNCHANGED <<bake, alive>> /\ ops[o].at = "save"
      BY <1>14 DEF Saved
    <3>4. StandsSound(o) /\ Whole => s.contract = s.scene /\ s.binding \in {Empty, s.contract}
      BY <3>1, <3>3 DEF StandsSound, Whole
    <3>5. End(o, s)
      BY <2>2
    <3> HIDE DEF s
    <3> QED BY <1>6, <3>1, <3>2, <3>3, <3>4, <3>5
  <2> QED BY <1>14, <2>1, <2>2 DEF Saved
<1>15. CASE DropValidated(o)
  <2>1. CASE Goto(o, "bake") /\ stage' = [stage EXCEPT !.binding = Empty]
    <3>1. at("bake") \in OpRows /\ at("bake").at = "bake" /\ at("bake").hash = ops[o].hash
          /\ at("bake").doc = ops[o].doc /\ at("bake").busy = ops[o].busy
      BY <1>1 DEF OpRows, Positions
    <3>2. ops' = [ops EXCEPT ![o] = at("bake")]
      BY <1>3, <2>1
    <3> HIDE DEF at
    <3> QED BY <1>5, <1>15, <2>1, <3>1, <3>2 DEF DropValidated
  <2>2. CASE End(o, IF stage.artifact = Empty THEN stage
                    ELSE [stage EXCEPT !.report = [doc |-> ops[o].doc, refused |-> TRUE]])
    <3> DEFINE s == IF stage.artifact = Empty THEN stage
                    ELSE [stage EXCEPT !.report = [doc |-> ops[o].doc, refused |-> TRUE]]
    <3>1. /\ s \in StageRows /\ s.contract = stage.contract /\ s.artifact = stage.artifact
          /\ s.bake = stage.bake /\ s.binding = stage.binding
          /\ s.scene = stage.scene /\ s.jog = stage.jog /\ s.busy = stage.busy
          /\ s.session = stage.session /\ (s.report = stage.report \/ s.report.refused)
      BY <1>1 DEF StageRows, OpRows
    <3>2. s.report.doc # s.contract => s.report.refused \/ ~Whole
      BY <3>1 DEF Whole
    <3>3. UNCHANGED <<bake, alive>> /\ ops[o].at = "drop"
      BY <1>15 DEF DropValidated
    <3>4. Whole => s.contract = s.scene /\ s.binding \in {Empty, s.contract}
      BY <3>1 DEF Whole
    <3>5. End(o, s)
      BY <2>2
    <3> HIDE DEF s
    <3> QED BY <1>6, <3>1, <3>2, <3>3, <3>4, <3>5
  <2> QED BY <1>15, <2>1, <2>2 DEF DropValidated
<1> QED BY <1>8, <1>9, <1>10, <1>11, <1>12, <1>13, <1>14, <1>15

LEMMA StageInvStep == StageConstants /\ StageInv /\ [StageNext]_stageVars => StageInv'
<1> SUFFICES ASSUME StageConstants, StageInv, [StageNext]_stageVars PROVE StageInv'
  OBVIOUS
<1>1. CASE UNCHANGED stageVars
  BY <1>1 DEF stageVars, StageInv, StageTypes, OpsSound, HandleIsCurrent, OneAtATime, UnderWay,
              StageQuiet, StandsSound, Whole, SessionOf
<1> QED BY <1>1, LoadStep, PatchStep, JogStep, OperationStep DEF StageNext

LEMMA StageInvMeaning == StageInv => StageSafe
<1>1. ASSUME StageInv, StageQuiet, ~overlap
      PROVE  /\ stage.contract = stage.scene
             /\ stage.binding \in {Empty, stage.contract}
             /\ stage.report.doc # stage.contract => stage.report.refused
             /\ alive = (IF stage.session.live THEN {stage.contract} ELSE {})
             /\ stage.session.live => stage.session.jog = stage.jog
             /\ ~stage.busy
  BY <1>1 DEF StageInv, OneAtATime, Whole, SessionOf
<1> QED BY <1>1 DEF StageInv, StageSafe, StageWhole

\* StageSafe: the handle a patch is applied to is the one shown, and operations that do
\* not overlap leave one document on the page (loadContract, applyPatch).
THEOREM StageIsSafe == ASSUME StageConstants PROVE StageSpec => []StageSafe
<1>1. StageInit => StageInv
  BY StageInvInit
<1>2. StageInv /\ [StageNext]_stageVars => StageInv'
  BY StageInvStep
<1> QED BY <1>1, <1>2, StageInvMeaning, PTL DEF StageSpec

-----------------------------------------------------------------------------
(* The panels of the studio *)

\* A nonempty set of naturals has a least element.
LEMMA LeastOf ==
  ASSUME NEW T, T \subseteq Nat, T # {}
  PROVE  \E x \in T : \A y \in T : x <= y
<1> DEFINE R == OpToRel(<, Nat)
<1>1. IsWellFoundedOn(R, Nat) /\ \A x, y \in Nat : <<y, x>> \in R <=> y < x
  BY NatLessThanWellFounded DEF OpToRel
<1> HIDE DEF R
<1>2. PICK x \in T : \A y \in T : ~(<<y, x>> \in R)
  BY <1>1, WFMin
<1>3. ASSUME NEW y \in T PROVE x <= y
  <2>1. x \in Nat /\ y \in Nat /\ ~(y < x)
    BY <1>1, <1>2
  <2> QED
    BY <2>1
<1> QED
  BY <1>3

-----------------------------------------------------------------------------
(* The panels of the page *)

PanelsConstants == Courses \in Nat /\ Slots \subseteq Nat

PanelNames == {"post", "job", "course", "jobs", "artifacts", "reviews", "consents", "models",
          "leaderboard", "submissions", "platform", "platformBoard", "platformSubmissions"}
JobStates == {"none", "active", "terminal"}
Reqs == [name : PanelNames, got : JobStates \cup {"pending"}]

\* A request that ends its handler by a refusal is awaited alone.
StepSound(step) == step \subseteq Reqs /\ \A r \in step : Caught(r.name) \/ step = {r}
StepRows == {step \in SUBSET Reqs : StepSound(step)}
CallRows == [flags : SUBSET Flags, steps : Seq(StepRows), course : Nat]

PanelRows == [busy : [Flags -> BOOLEAN], job : JobStates \cup {"pending"}, course : Nat, url : Nat,
              board : Nat]

\* Flag f is up for the handler in slot s.
Holder(f, s) ==
  calls[s].steps # <<>> /\ (f \in calls[s].flags \/ f \in HoldsOf(Head(calls[s].steps)))

PanelsInv ==
  /\ server \in [job : JobStates, courses : Nat]
  /\ panels \in PanelRows
  /\ calls \in [Slots -> CallRows]
  /\ \A f \in Flags : panels.busy[f] => \E s \in Slots : Holder(f, s)

LEMMA PanelsInvInit == PanelsConstants /\ PanelsInit => PanelsInv
<1> SUFFICES ASSUME PanelsConstants, PanelsInit PROVE PanelsInv
  OBVIOUS
<1>1. Idle \in CallRows
  <2> DEFINE none == <<>>
  <2>1. none \in Seq(StepRows)
    OBVIOUS
  <2>2. Idle = [flags |-> {}, steps |-> none, course |-> NoCourse]
    BY DEF Idle, Handler
  <2> HIDE DEF none
  <2> QED BY <2>1, <2>2 DEF CallRows, NoCourse
<1> QED BY <1>1 DEF PanelsInit, PanelsInv, PanelRows, JobStates, NoCourse, Flags

\* A handler begins in a slot that is free.
LEMMA SlotIsFree ==
  ASSUME PanelsConstants, PanelsInv, FreeSlots # {}
  PROVE  Slot \in Slots /\ calls[Slot].steps = <<>>
<1>1. FreeSlots \subseteq Nat
  BY DEF PanelsConstants, FreeSlots
<1>2. \E s \in FreeSlots : \A t \in FreeSlots : s <= t
  BY <1>1, LeastOf
<1>3. Slot \in FreeSlots
  BY <1>2 DEF Slot
<1> QED BY <1>3 DEF FreeSlots

\* The handlers a user can start.
Handlers == {h \in CallRows : h.steps # <<>>}

LEMMA RunKeeps ==
  ASSUME PanelsConstants, PanelsInv, FreeSlots # {}, NEW h \in Handlers,
         NEW c \in Nat, calls' = [calls EXCEPT ![Slot] = [h EXCEPT !.course = c]],
         server' = server, panels' \in PanelRows,
         \A f \in Flags : panels'.busy[f] => \/ panels.busy[f] \/ f \in h.flags
                                             \/ f \in HoldsOf(Head(h.steps))
  PROVE  PanelsInv'
<1>1. Slot \in Slots /\ calls[Slot].steps = <<>>
  BY SlotIsFree
<1>2. calls' \in [Slots -> CallRows] /\ calls'[Slot].flags = h.flags /\ calls'[Slot].steps = h.steps
      /\ \A s \in Slots : s # Slot => calls'[s] = calls[s]
  BY <1>1 DEF PanelsInv, Handlers, CallRows
<1>3. ASSUME NEW f \in Flags, panels'.busy[f] PROVE \E s \in Slots : Holder(f, s)'
  <2>1. CASE panels.busy[f]
    <3>1. PICK s \in Slots : Holder(f, s)
      BY <2>1 DEF PanelsInv
    <3>2. s # Slot
      BY <1>1, <3>1 DEF Holder
    <3> QED BY <1>2, <3>1, <3>2 DEF Holder
  <2>2. CASE f \in h.flags \/ f \in HoldsOf(Head(h.steps))
    <3>1. PICK n \in Slots : n = Slot
      BY <1>1
    <3>2. Holder(f, n)'
      BY <1>2, <2>2, <3>1 DEF Holder, Handlers
    <3> QED BY <3>2
  <2> QED BY <1>3, <2>1, <2>2
<1> QED BY <1>2, <1>3 DEF PanelsInv

\* Every handler of the panels is a sequence of sound steps.
LEMMA StepsOfHandlers ==
  /\ \A a \in StepRows : <<a>> \in Seq(StepRows) /\ <<a>> # <<>>
  /\ \A a, b \in StepRows : <<a, b>> \in Seq(StepRows) /\ <<a, b>> # <<>>
  /\ \A a, b, c \in StepRows : <<a, b, c>> \in Seq(StepRows) /\ <<a, b, c>> # <<>>
  OBVIOUS

LEMMA PanelHandlersSound == PanelHandlers \cup {mountEffect, Refresh(refreshJobs \cup refreshArtifacts)} \subseteq Handlers
<1>1. ASSUME NEW n \in PanelNames PROVE Req(n) \in Reqs
  BY <1>1 DEF Req, Reqs
<1>2. ASSUME NEW n \in PanelNames PROVE Await({n}) \in StepRows
  <2>1. Await({n}) = {Req(n)} /\ Req(n) \in Reqs
    BY <1>1, <1>2 DEF Await
  <2> QED BY <2>1 DEF StepRows, StepSound
<1>3. ASSUME NEW a \in StepRows, NEW b \in StepRows, \A r \in a \cup b : Caught(r.name)
      PROVE  a \cup b \in StepRows
  BY <1>3 DEF StepRows, StepSound
<1>4. \A n \in {"reviews", "consents", "models", "jobs", "artifacts", "platform"} :
        /\ n \in PanelNames /\ \A r \in Await({n}) : Caught(r.name)
  BY DEF Await, Req, Caught, PanelNames
<1> DEFINE lists == {refreshReviews, refreshConsents, refreshModels, refreshJobs, refreshArtifacts,
                     refreshPlatform}
<1>5. \A a \in lists : a \in StepRows /\ \A r \in a : Caught(r.name)
  BY <1>2, <1>4 DEF refreshReviews, refreshConsents, refreshModels, refreshJobs, refreshArtifacts,
                    refreshPlatform
<1>6. post \in StepRows /\ Await({"job"}) \in StepRows /\ Await({"course"}) \in StepRows
      /\ refreshLeaderboard \in StepRows /\ refreshClassroomSubmissions \in StepRows
  BY <1>2 DEF post, refreshLeaderboard, refreshClassroomSubmissions, PanelNames
<1>7. /\ refreshJobs \cup refreshArtifacts \in StepRows
      /\ refreshJobs \cup refreshArtifacts \cup refreshPlatform \in StepRows
      /\ refreshConsents \cup refreshJobs \cup refreshArtifacts \cup refreshPlatform \in StepRows
  <2>1. refreshJobs \cup refreshArtifacts \in StepRows
    BY <1>3, <1>5
  <2>2. refreshJobs \cup refreshArtifacts \cup refreshPlatform \in StepRows
    BY <1>3, <1>5, <2>1
  <2>3. refreshConsents \cup refreshJobs \in StepRows
    BY <1>3, <1>5
  <2>4. refreshConsents \cup refreshJobs \cup refreshArtifacts \in StepRows
    BY <1>3, <1>5, <2>3
  <2>5. refreshConsents \cup refreshJobs \cup refreshArtifacts \cup refreshPlatform \in StepRows
    BY <1>3, <1>5, <2>4
  <2> QED BY <2>1, <2>2, <2>5
<1>8. ASSUME NEW flags \in SUBSET Flags, NEW steps \in Seq(StepRows), steps # <<>>
      PROVE  Handler(flags, steps) \in Handlers
  BY <1>8 DEF Handler, Handlers, CallRows, NoCourse
<1>9. ASSUME NEW flags \in SUBSET Flags, NEW a \in StepRows, NEW b \in StepRows, NEW c \in StepRows
      PROVE  /\ Handler(flags, <<a>>) \in Handlers /\ Handler(flags, <<a, b>>) \in Handlers
             /\ Handler(flags, <<a, b, c>>) \in Handlers
  BY <1>8, StepsOfHandlers
<1>10. {"artifact"} \subseteq Flags /\ {"review"} \subseteq Flags /\ {"scan"} \subseteq Flags
       /\ {"consent"} \subseteq Flags /\ {"platform"} \subseteq Flags
  BY DEF Flags
<1>11. /\ setReviewFilter \in Handlers /\ Refresh(refreshModels) \in Handlers /\ mountEffect \in Handlers
       /\ Refresh(refreshJobs \cup refreshArtifacts) \in Handlers
  BY <1>5, <1>7, <1>9 DEF Refresh, setReviewFilter, mountEffect
<1>12. /\ share \in Handlers /\ openArtifactBlob \in Handlers /\ alignPhotoscanArtifact \in Handlers
       /\ recordDecision \in Handlers /\ uploadScanFiles \in Handlers /\ runFixtureJob \in Handlers
  BY <1>5, <1>6, <1>9, <1>10 DEF share, openArtifactBlob, alignPhotoscanArtifact, recordDecision,
        uploadScanFiles, runFixtureJob
<1>13. /\ changeConsent \in Handlers /\ shareFirstTelemetry \in Handlers
       /\ contributeActivePattern \in Handlers /\ trainFromFirstTelemetry \in Handlers
  BY <1>5, <1>6, <1>7, <1>9, <1>10 DEF changeConsent, shareFirstTelemetry, contributeActivePattern,
        trainFromFirstTelemetry
<1>14. /\ publishFixtureCourse \in Handlers /\ submitFixtureLeaderboardRun \in Handlers
       /\ publishFixtureAssignment \in Handlers /\ submitFixtureAssignment \in Handlers
       /\ reportFixtureModeration \in Handlers
  BY <1>5, <1>6, <1>9, <1>10 DEF publishFixtureCourse, submitFixtureLeaderboardRun,
        publishFixtureAssignment, submitFixtureAssignment, reportFixtureModeration
<1>15. /\ submitModelListing \in Handlers /\ submitPolicyListing \in Handlers
       /\ requestPrintQuoteLink \in Handlers /\ recordMarketplaceUsage \in Handlers
       /\ refreshVendorLinks \subseteq Handlers
  BY <1>5, <1>6, <1>9, <1>10 DEF submitModelListing, submitPolicyListing, requestPrintQuoteLink,
        recordMarketplaceUsage, refreshVendorLinks
<1> QED BY <1>11, <1>12, <1>13, <1>14, <1>15 DEF PanelHandlers

\* What follows the first step of a call.
LEMMA HeadReplaced ==
  ASSUME NEW S, NEW q \in Seq(S), q # <<>>, NEW a \in S
  PROVE  <<a>> \o Tail(q) \in Seq(S) /\ <<a>> \o Tail(q) # <<>> /\ Head(<<a>> \o Tail(q)) = a
  OBVIOUS

\* A request of the first step is settled: the flags its handler held it holds on, or they
\* come down.
LEMMA ContinueKeeps ==
  ASSUME PanelsConstants, PanelsInv, NEW s \in Slots, calls[s].steps # <<>>,
         NEW r \in Head(calls[s].steps), NEW u, NEW next \in CallRows, Continue(s, r, u, next),
         u \in PanelRows,
         u.busy = panels.busy, server' \in [job : JobStates, courses : Nat],
         next.steps = <<>> => HoldsOf(Head(calls[s].steps)) \subseteq Holds(r.name),
         next.steps # <<>> => /\ next.flags = calls[s].flags
                              /\ HoldsOf(Head(calls[s].steps))
                                   \subseteq Holds(r.name) \cup HoldsOf(Head(next.steps))
  PROVE  PanelsInv'
<1> DEFINE ended == next.steps = <<>>
           released == (Holds(r.name) \ (IF ended THEN {} ELSE HoldsOf(Head(next.steps))))
                       \cup (IF ended THEN calls[s].flags ELSE {})
           raised == IF ended THEN {} ELSE HoldsOf(Head(next.steps))
<1>1. panels' = [u EXCEPT !.busy = Raise(Lower(u.busy, released), raised)]
      /\ calls' = [calls EXCEPT ![s] = IF ended THEN Idle ELSE next]
  BY DEF Continue
<1>2. Idle \in CallRows /\ Idle.steps = <<>>
  BY DEF Idle, Handler, CallRows, NoCourse
<1>3. calls' \in [Slots -> CallRows] /\ calls'[s] = (IF ended THEN Idle ELSE next)
      /\ \A t \in Slots : t # s => calls'[t] = calls[t]
  BY <1>1, <1>2 DEF PanelsInv
<1>4. Raise(Lower(u.busy, released), raised) \in [Flags -> BOOLEAN]
      /\ \A f \in Flags : Raise(Lower(u.busy, released), raised)[f]
                            <=> (panels.busy[f] /\ f \notin released) \/ f \in raised
  BY DEF Raise, Lower
<1> HIDE DEF released, raised
<1>5. panels' \in PanelRows
      /\ panels'.busy = Raise(Lower(u.busy, released), raised)
  BY <1>1, <1>4 DEF PanelRows
<1>6. ASSUME NEW f \in Flags, panels'.busy[f] PROVE \E t \in Slots : Holder(f, t)'
  <2>1. CASE f \in raised
    <3>1. Holder(f, s)'
      BY <1>3, <2>1 DEF raised, Holder
    <3> QED BY <3>1
  <2>2. CASE panels.busy[f] /\ f \notin released
    <3>1. PICK t \in Slots : Holder(f, t)
      BY <2>2 DEF PanelsInv
    <3>2. CASE t # s
      BY <1>3, <3>1, <3>2 DEF Holder
    <3>3. CASE t = s
      <4>1. ~ended /\ f \in calls[s].flags \cup HoldsOf(Head(next.steps))
        BY <2>2, <3>1, <3>3 DEF Holder, released
      <4>2. Holder(f, s)'
        BY <1>3, <4>1 DEF Holder
      <4> QED BY <4>2
    <3> QED BY <3>2, <3>3
  <2> QED BY <1>4, <1>5, <1>6, <2>1, <2>2
<1> QED BY <1>3, <1>5, <1>6 DEF PanelsInv

LEMMA BeginStep ==
  ASSUME PanelsConstants, PanelsInv,
         \/ \E h \in PanelHandlers : Click(h)
         \/ \E c \in 1..server.courses : selectCourse(c)
         \/ MountEffect \/ PollJobs
  PROVE  PanelsInv'
<1>1. panels \in PanelRows /\ panels.course \in Nat
  BY DEF PanelsInv, PanelRows
<1>2. ASSUME NEW h \in Handlers, Run(h), FreeSlots # {}, server' = server PROVE PanelsInv'
  <2> DEFINE up == h.flags \cup HoldsOf(Head(h.steps))
  <2>1. panels' = [panels EXCEPT !.busy = Raise(panels.busy, up)]
    BY <1>2 DEF Run
  <2>2. Raise(panels.busy, up) \in [Flags -> BOOLEAN]
        /\ \A f \in Flags : Raise(panels.busy, up)[f] <=> panels.busy[f] \/ f \in up
    BY DEF Raise
  <2>3. panels' \in PanelRows /\ panels'.busy = Raise(panels.busy, up)
    BY <1>1, <2>1, <2>2 DEF PanelRows
  <2>4. calls' = [calls EXCEPT ![Slot] = [h EXCEPT !.course = panels.course]]
    BY <1>2 DEF Run
  <2> QED BY <1>1, <1>2, <2>2, <2>3, <2>4, RunKeeps
<1>3. ASSUME NEW c \in 1..server.courses, selectCourse(c) PROVE PanelsInv'
  <2>1. c \in Nat
    BY DEF PanelsInv
  <2>2. panels' \in PanelRows /\ panels'.busy = panels.busy
    BY <1>1, <1>3, <2>1 DEF selectCourse, PanelRows
  <2>3. Refresh(refreshLeaderboard) \in Handlers
    <3>1. Await({"leaderboard"}) = {Req("leaderboard")} /\ Req("leaderboard") \in Reqs
      BY DEF Await, Req, Reqs, PanelNames
    <3>2. refreshLeaderboard \in StepRows
      BY <3>1 DEF StepRows, StepSound, refreshLeaderboard
    <3> QED BY <3>2, StepsOfHandlers DEF Refresh, Handler, Handlers, CallRows, NoCourse
  <2> QED BY <1>3, <2>1, <2>2, <2>3, RunKeeps DEF selectCourse
<1>4. ASSUME NEW h \in PanelHandlers, Click(h) PROVE PanelsInv'
  BY <1>2, <1>4, PanelHandlersSound DEF Click
<1>5. ASSUME MountEffect PROVE PanelsInv'
  BY <1>2, <1>5, PanelHandlersSound DEF MountEffect
<1>6. ASSUME PollJobs PROVE PanelsInv'
  BY <1>2, <1>6, PanelHandlersSound DEF PollJobs
<1> QED BY <1>3, <1>4, <1>5, <1>6

\* Serving a list of jobs changes neither the flags nor who holds them.
LEMMA ServeStep ==
  ASSUME PanelsConstants, PanelsInv, NEW s \in Slots, Serve(s)
  PROVE  PanelsInv'
<1> DEFINE steps == calls[s].steps
           got == [name |-> "jobs", got |-> server.job]
           new == (steps[1] \ {Req("jobs")}) \cup {got}
<1>1. /\ steps \in Seq(StepRows) /\ steps # <<>> /\ Req("jobs") \in steps[1] /\ Head(steps) = steps[1]
      /\ calls[s] \in CallRows
  BY DEF Serve, PanelsInv, CallRows
<1>2. /\ calls' = [calls EXCEPT ![s] = [calls[s] EXCEPT !.steps = [steps EXCEPT ![1] = new]]]
      /\ UNCHANGED <<server, panels>>
  BY DEF Serve, PanelsInv, CallRows
<1>3. steps[1] \in StepRows /\ got \in Reqs
  BY <1>1 DEF PanelsInv, Reqs, PanelNames
<1>4. Caught("jobs") /\ got.name = "jobs" /\ Req("jobs").name = "jobs" /\ Holds("jobs") = {}
  BY DEF Caught, Req, Holds
<1>5. new \in StepRows
  <2>1. \A r \in new : Caught(r.name)
    <3>1. \A r \in steps[1] : Caught(r.name) \/ r = Req("jobs")
      BY <1>1, <1>3 DEF StepRows, StepSound
    <3> QED BY <1>4, <3>1
  <2> QED BY <1>3, <2>1 DEF StepRows, StepSound
<1>6. HoldsOf(new) = HoldsOf(steps[1])
  BY <1>4 DEF HoldsOf
<1> HIDE DEF new
<1>7. [steps EXCEPT ![1] = new] \in Seq(StepRows) /\ [steps EXCEPT ![1] = new] # <<>>
      /\ Head([steps EXCEPT ![1] = new]) = new
  BY <1>1, <1>5
<1> HIDE DEF steps
<1>8. /\ calls' \in [Slots -> CallRows] /\ calls'[s].flags = calls[s].flags
      /\ calls'[s].steps = [steps EXCEPT ![1] = new]
      /\ \A t \in Slots : t # s => calls'[t] = calls[t]
  BY <1>1, <1>2, <1>7 DEF PanelsInv, CallRows
<1>9. ASSUME NEW f, NEW t \in Slots, Holder(f, t) PROVE Holder(f, t)'
  BY <1>1, <1>6, <1>7, <1>8, <1>9 DEF Holder, steps
<1> QED BY <1>2, <1>8, <1>9 DEF PanelsInv

\* What remains of a call after request r, with what follows it.
LEMMA AdvanceSound ==
  ASSUME NEW call \in CallRows, call.steps # <<>>, NEW r \in Head(call.steps),
         NEW follow \in SUBSET Reqs, \A x \in follow : Caught(x.name)
  PROVE  /\ Advance(call, r, follow) \in CallRows
         /\ Advance(call, r, follow).steps = <<>> => HoldsOf(Head(call.steps)) \subseteq Holds(r.name)
         /\ Advance(call, r, follow).steps # <<>> =>
              /\ Advance(call, r, follow).flags = call.flags
              /\ HoldsOf(Head(call.steps))
                   \subseteq Holds(r.name) \cup HoldsOf(Head(Advance(call, r, follow).steps))
<1> DEFINE left == (Head(call.steps) \ {r}) \cup follow
<1>1. call.steps \in Seq(StepRows) /\ Head(call.steps) \in StepRows /\ Tail(call.steps) \in Seq(StepRows)
  BY DEF CallRows
<1>2. left \in StepRows
  <2>1. \A x \in left : Caught(x.name)
    BY <1>1 DEF StepRows, StepSound
  <2> QED BY <1>1, <2>1 DEF StepRows, StepSound
<1>3. HoldsOf(Head(call.steps)) \subseteq Holds(r.name) \cup HoldsOf(left)
  BY DEF HoldsOf
<1>4. left = {} => HoldsOf(left) = {}
  BY DEF HoldsOf
<1> HIDE DEF left
<1>5. CASE left # {}
  <2>1. /\ <<left>> \o Tail(call.steps) \in Seq(StepRows) /\ <<left>> \o Tail(call.steps) # <<>>
        /\ Head(<<left>> \o Tail(call.steps)) = left
    BY <1>1, <1>2, HeadReplaced
  <2>2. Advance(call, r, follow) = [call EXCEPT !.steps = <<left>> \o Tail(call.steps)]
    BY <1>5 DEF Advance, left
  <2> QED BY <1>3, <2>1, <2>2 DEF CallRows
<1>6. CASE left = {}
  <2>1. Advance(call, r, follow) = [call EXCEPT !.steps = Tail(call.steps)]
    BY <1>6 DEF Advance, left
  <2> QED BY <1>1, <1>3, <1>4, <1>6, <2>1 DEF CallRows
<1> QED BY <1>5, <1>6

LEMMA FollowSound ==
  ASSUME NEW n \in PanelNames
  PROVE  Follow(n) \in SUBSET Reqs /\ \A x \in Follow(n) : Caught(x.name)
  BY DEF Follow, Req, Reqs, PanelNames, Caught

\* The page after an answer: its flags are as they were.
LEMMA AppliedSound ==
  ASSUME PanelsInv, NEW r \in Reqs, NEW c \in Nat
  PROVE  /\ Applied(r, c) \in PanelRows /\ Applied(r, c).busy = panels.busy
         /\ Refused(r) \in PanelRows /\ Refused(r).busy = panels.busy
         /\ Settled(c) \in Nat
<1>1. panels \in PanelRows /\ server.courses + 1 \in Nat /\ r.got \in JobStates \cup {"pending"}
  BY DEF PanelsInv, Reqs
<1>2. Settled(c) \in Nat
  BY <1>1 DEF Settled, PanelRows
<1>3. Applied(r, c) \in PanelRows /\ Applied(r, c).busy = panels.busy
  BY <1>1, <1>2 DEF Applied, PanelRows
<1>4. Refused(r) \in PanelRows /\ Refused(r).busy = panels.busy
  BY <1>1 DEF Refused, PanelRows, JobStates, NoCourse
<1> QED BY <1>2, <1>3, <1>4

\* The requests awaited in slot s.
LEMMA HeadsSound ==
  ASSUME PanelsInv, NEW s \in Slots, calls[s].steps # <<>>, NEW r \in Head(calls[s].steps)
  PROVE  /\ calls[s] \in CallRows /\ r \in Reqs /\ r.name \in PanelNames
         /\ Head(calls[s].steps) \subseteq Reqs
         /\ Caught(r.name) \/ Head(calls[s].steps) = {r}
<1>1. calls[s] \in CallRows /\ Head(calls[s].steps) \in StepRows
  BY DEF PanelsInv, CallRows
<1> QED BY <1>1 DEF StepRows, StepSound, Reqs

LEMMA AnswerStep ==
  ASSUME PanelsConstants, PanelsInv, NEW s \in Slots, AnswerOk(s)
  PROVE  PanelsInv'
<1>1. PICK r \in Head(calls[s].steps) :
         /\ server' = [job |-> IF r.name = "job" THEN "active" ELSE server.job,
                       courses |-> server.courses + (IF r.name = "course" THEN 1 ELSE 0)]
         /\ LET c == IF r.name = "platform" THEN Settled(calls[s].course) ELSE calls[s].course
            IN Continue(s, r, Applied(r, calls[s].course),
                        Advance([calls[s] EXCEPT !.course = c], r, Follow(r.name)))
  BY DEF AnswerOk
<1>2. calls[s].steps # <<>>
  BY DEF AnswerOk
<1>3. calls[s] \in CallRows /\ r \in Reqs /\ r.name \in PanelNames
  BY <1>2, HeadsSound
<1> DEFINE c == IF r.name = "platform" THEN Settled(calls[s].course) ELSE calls[s].course
           call == [calls[s] EXCEPT !.course = c]
           next == Advance(call, r, Follow(r.name))
           u == Applied(r, calls[s].course)
<1>4. calls[s].course \in Nat
  BY <1>3 DEF CallRows
<1>5. u \in PanelRows /\ u.busy = panels.busy /\ c \in Nat
  BY <1>3, <1>4, AppliedSound
<1>6. call \in CallRows /\ call.steps = calls[s].steps /\ call.flags = calls[s].flags
  <2> HIDE DEF c
  <2> QED BY <1>3, <1>5 DEF CallRows
<1>7. server' \in [job : JobStates, courses : Nat]
  BY <1>1 DEF PanelsInv, JobStates
<1>8. Continue(s, r, u, next)
  BY <1>1
<1> HIDE DEF u, call, c
<1>9. /\ next \in CallRows
      /\ next.steps = <<>> => HoldsOf(Head(calls[s].steps)) \subseteq Holds(r.name)
      /\ next.steps # <<>> => /\ next.flags = calls[s].flags
                              /\ HoldsOf(Head(calls[s].steps))
                                   \subseteq Holds(r.name) \cup HoldsOf(Head(next.steps))
  <2>1. /\ Follow(r.name) \in SUBSET Reqs /\ \A x \in Follow(r.name) : Caught(x.name)
        /\ call.steps # <<>> /\ r \in Head(call.steps)
    BY <1>2, <1>3, <1>6, FollowSound
  <2> DEFINE follow == Follow(r.name)
  <2> HIDE DEF follow
  <2>2. next = Advance(call, r, follow)
    BY DEF follow
  <2>3. follow \in SUBSET Reqs /\ \A x \in follow : Caught(x.name)
    BY <2>1 DEF follow
  <2>4. /\ Advance(call, r, follow) \in CallRows
        /\ Advance(call, r, follow).steps = <<>> => HoldsOf(Head(call.steps)) \subseteq Holds(r.name)
        /\ Advance(call, r, follow).steps # <<>> =>
              /\ Advance(call, r, follow).flags = call.flags
              /\ HoldsOf(Head(call.steps))
                   \subseteq Holds(r.name) \cup HoldsOf(Head(Advance(call, r, follow).steps))
    BY <1>6, <2>1, <2>3, AdvanceSound
  <2> QED BY <1>6, <2>2, <2>4
<1> HIDE DEF next
<1> QED BY <1>2, <1>5, <1>7, <1>8, <1>9, ContinueKeeps

LEMMA RefusalStep ==
  ASSUME PanelsConstants, PanelsInv, NEW s \in Slots, AnswerRefused(s)
  PROVE  PanelsInv'
<1>1. PICK r \in Head(calls[s].steps) :
         Continue(s, r, Refused(r), IF Caught(r.name) THEN Advance(calls[s], r, {}) ELSE Idle)
  BY DEF AnswerRefused
<1>2. calls[s].steps # <<>> /\ server' = server
  BY DEF AnswerRefused
<1>3. calls[s] \in CallRows /\ r \in Reqs /\ (Caught(r.name) \/ Head(calls[s].steps) = {r})
  BY <1>2, HeadsSound
<1> DEFINE next == IF Caught(r.name) THEN Advance(calls[s], r, {}) ELSE Idle
<1>4. Refused(r) \in PanelRows /\ Refused(r).busy = panels.busy
  BY <1>3, AppliedSound
<1>5. server' \in [job : JobStates, courses : Nat]
  BY <1>2 DEF PanelsInv
<1>6. /\ next \in CallRows
      /\ next.steps = <<>> => HoldsOf(Head(calls[s].steps)) \subseteq Holds(r.name)
      /\ next.steps # <<>> => /\ next.flags = calls[s].flags
                              /\ HoldsOf(Head(calls[s].steps))
                                   \subseteq Holds(r.name) \cup HoldsOf(Head(next.steps))
  <2>1. CASE Caught(r.name)
    BY <1>2, <1>3, <2>1, AdvanceSound
  <2>2. CASE ~Caught(r.name)
    <3>1. next.steps = <<>> /\ next \in CallRows
      BY <2>2 DEF Idle, Handler, CallRows, NoCourse
    <3>2. HoldsOf(Head(calls[s].steps)) \subseteq Holds(r.name)
      BY <1>3, <2>2 DEF HoldsOf
    <3> QED BY <3>1, <3>2
  <2> QED BY <2>1, <2>2
<1>7. Continue(s, r, Refused(r), next)
  BY <1>1
<1> HIDE DEF next
<1> QED BY <1>2, <1>4, <1>5, <1>6, <1>7, ContinueKeeps

LEMMA PanelsInvStep ==
  ASSUME PanelsConstants, PanelsInv, [PanelsNext]_panelVars
  PROVE  PanelsInv'
<1>1. CASE \/ \E h \in PanelHandlers : Click(h)
           \/ \E c \in 1..server.courses : selectCourse(c)
           \/ MountEffect \/ PollJobs
  BY <1>1, BeginStep
<1>2. CASE JobEnds
  <2>1. server' \in [job : JobStates, courses : Nat]
    BY <1>2 DEF JobEnds, PanelsInv, JobStates
  <2>2. UNCHANGED <<panels, calls>>
    BY <1>2 DEF JobEnds
  <2> QED BY <2>1, <2>2 DEF PanelsInv, Holder
<1>3. CASE \E s \in Slots : Serve(s) \/ AnswerOk(s) \/ AnswerRefused(s)
  BY <1>3, ServeStep, AnswerStep, RefusalStep
<1>4. CASE UNCHANGED panelVars
  BY <1>4 DEF panelVars, PanelsInv, Holder
<1> QED BY <1>1, <1>2, <1>3, <1>4 DEF PanelsNext

LEMMA PanelsInvMeaning == PanelsInv => BusyMeansWork
  BY DEF PanelsInv, BusyMeansWork, Holder

\* BusyMeansWork: a busy flag of a course panel has a handler behind it, for any courses and any
\* handlers under way at once, whatever the order of their answers (App.tsx, the course panels).
THEOREM PanelsAreSafe == ASSUME PanelsConstants PROVE PanelsSpec => []BusyMeansWork
<1>1. PanelsInit => PanelsInv
  BY PanelsInvInit
<1>2. PanelsInv /\ [PanelsNext]_panelVars => PanelsInv'
  BY PanelsInvStep
<1> QED BY <1>1, <1>2, PanelsInvMeaning, PTL DEF PanelsSpec

-----------------------------------------------------------------------------
(* Playing a policy *)

PlayConstants ==
    /\ Controllers \subseteq Nat \ {0} /\ Targets \in Nat \ {0} /\ Duration \in Nat /\ Period \in Nat
    /\ MaxFrames \in Nat /\ MaxSessions \in Nat /\ MaxFaults \in Nat

\* What the worker is asked once it has its session, and what it answers.
Questions == [type : {"step"}, dt : Nat \ {0}, input : Inputs] \cup [type : {"policySnapshot"}, id : Nat]
Replies ==
    [type : {"stepped", "error"}] \cup [type : {"policySnapshot"}, id : Nat, reached : BOOLEAN]
    \cup [type : {"policySnapshotError"}, id : Nat]
Steps == [dt : Nat, input : Inputs]
Modes == {"none", "loading", "patching", "fallback", "worker", "local"}

CoreRows == [asked : Nat, advanced : Nat, lost : Nat, last : Inputs]
CtlStages == {"unused", "creating", "live", "disposed", "refusing", "refused"}
Places == {"idle", "snap", "local", "prep", "run", "created", "ask", "rejected"}
CtlRows == [st : CtlStages, at : Places, id : Nat, failure : BOOLEAN, released : BOOLEAN,
            target : Nat, completed : Nat, input : Inputs, next : Nat, source : Nat,
            reached : BOOLEAN]
LoopRows == [playing : Nat, elapsed : Nat, driving : BOOLEAN, zeroed : BOOLEAN]

\* The positions of the steps in the worker's queue, and of the answers to steps.
StepsOf(q) == {i \in DOMAIN q : q[i].type = "step"}
StepAnswersOf(q) == {i \in DOMAIN q : q[i].type \in {"stepped", "error"}}

\* The facade while a worker serves it.
WorkerRows == [mode : {"worker"}, inbox : Seq(Questions), outbox : Seq(Replies),
               stepPending : BOOLEAN, queued : Steps, awaiting : SUBSET Nat, nextId : Nat \ {0}]

\* The step the page believes outstanding is at one place, and no time is lost.
ClockInv(f, k) ==
    \/ /\ f.stepPending = FALSE /\ StepsOf(f.inbox) = {} /\ StepAnswersOf(f.outbox) = {}
       /\ k.asked = k.advanced + k.lost + f.queued.dt
    \/ /\ f.stepPending = TRUE /\ StepAnswersOf(f.outbox) = {}
       /\ \E i \in DOMAIN f.inbox :
            /\ StepsOf(f.inbox) = {i}
            /\ k.asked = k.advanced + k.lost + f.queued.dt + f.inbox[i].dt
    \/ /\ f.stepPending = TRUE /\ StepsOf(f.inbox) = {}
       /\ \E i \in DOMAIN f.outbox : StepAnswersOf(f.outbox) = {i}
       /\ k.asked = k.advanced + k.lost + f.queued.dt

\* Until a step has failed, time is held back only behind an outstanding step.
HeldInv(f, k) == k.lost = 0 /\ f.queued.dt > 0 => f.stepPending = TRUE

\* Only a step that failed is answered by an error.
FailedInv(f, k) == \A i \in DOMAIN f.outbox : f.outbox[i].type = "error" => k.lost # 0

WorkerServed(f, k) == f \in WorkerRows /\ ClockInv(f, k) /\ HeldInv(f, k) /\ FailedInv(f, k)

\* The last command on its way to the core is zero.
ZeroInv(f, k) ==
    k.lost = 0 =>
        /\ f.queued.dt > 0 => f.queued.input = "zero"
        /\ f.queued.dt = 0 => IF StepsOf(f.inbox) = {} THEN k.last = "zero"
                              ELSE \A i \in StepsOf(f.inbox) : f.inbox[i].input = "zero"

FacadeOk(f, k) ==
    /\ f.mode \in Modes
    /\ f.mode \in {"none", "fallback", "local"} => f = Fresh(f.mode)
    /\ f.mode \in {"loading", "patching"} =>
         /\ k.asked = 0 /\ k.advanced = 0 /\ k.lost = 0
         /\ \/ f = Post(Fresh(f.mode), [type |-> "create"])
            \/ \E a \in {"created", "error"} :
                  f = [Fresh(f.mode) EXCEPT !.outbox = Append(@, [type |-> a])]
    /\ f.mode = "worker" => WorkerServed(f, k)

\* The command the core is left with once a playback has ended.
Zeroed(f, k) ==
    /\ f.mode \in {"worker", "local"}
    /\ f.mode = "worker" => ZeroInv(f, k)
    /\ f.mode = "local" => k.last = "zero"

LoopOk(f, k, cs, l) ==
    /\ l.zeroed => l.driving = FALSE /\ Zeroed(f, k)
    /\ l.playing # Nobody => l.playing \in Controllers /\ cs[l.playing].st = "live"

\* Where a controller's chain may stand, when its runtime is released.
Sound(k) ==
    /\ k.st \in {"unused", "refusing", "refused"} => k.at = "idle"
    /\ k.st = "creating" => k.at \in {"snap", "local", "prep", "run", "created", "ask"}
    /\ k.st = "live" => k.at \in {"idle", "snap", "local", "run", "ask"}
    /\ k.st = "disposed" => k.at \in {"idle", "snap", "local", "run"}
    /\ k.released <=> (k.st = "disposed" /\ k.at = "idle") \/ k.st \in {"refusing", "refused"}
    /\ k.st = "creating" => k.failure = FALSE
    /\ k.st = "live" /\ k.failure => k.at = "idle" /\ k.input = "zero"

\* The requests the page tracks are those of the chains that wait.
Tracked(ids, cs) ==
    /\ \A i \in ids : \E c \in Controllers : cs[c].at = "snap" /\ cs[c].id = i
    /\ \A c \in Controllers : cs[c].at = "snap" => cs[c].id \in ids
    /\ \A c, d \in Controllers : cs[c].at = "snap" /\ cs[d].at = "snap" /\ cs[c].id = cs[d].id => c = d

CtlOk(f, cs) ==
    /\ \A c \in Controllers : Sound(cs[c]) /\ cs[c].at # "ask"
    /\ Tracked(f.awaiting, cs)
    /\ \A i \in f.awaiting : i \in Nat /\ 1 <= i /\ i < f.nextId

PlayInv ==
    /\ core \in CoreRows /\ ctl \in [Controllers -> CtlRows] /\ loop \in LoopRows
    /\ count \in [frames : Nat, sessions : Nat, faults : Nat]
    /\ FacadeOk(facade, core) /\ CtlOk(facade, ctl) /\ LoopOk(facade, core, ctl, loop)

-----------------------------------------------------------------------------
(* The queues *)

LEMMA StepsAppended ==
  ASSUME NEW S, NEW q \in Seq(S), NEW m \in S
  PROVE  /\ StepsOf(Append(q, m)) = StepsOf(q) \cup (IF m.type = "step" THEN {Len(q) + 1} ELSE {})
         /\ StepAnswersOf(Append(q, m)) = StepAnswersOf(q)
              \cup (IF m.type \in {"stepped", "error"} THEN {Len(q) + 1} ELSE {})
         /\ \A i \in DOMAIN q : i \in DOMAIN Append(q, m) /\ Append(q, m)[i] = q[i]
         /\ Len(q) + 1 \in DOMAIN Append(q, m) /\ Append(q, m)[Len(q) + 1] = m
         /\ Append(q, m) \in Seq(S) /\ Len(q) + 1 \notin DOMAIN q
<1>1. /\ DOMAIN Append(q, m) = DOMAIN q \cup {Len(q) + 1} /\ Len(q) + 1 \notin DOMAIN q
      /\ \A i \in DOMAIN q : Append(q, m)[i] = q[i]
      /\ Append(q, m)[Len(q) + 1] = m /\ Append(q, m) \in Seq(S)
  OBVIOUS
<1> QED BY <1>1 DEF StepsOf, StepAnswersOf

LEMMA HeadTaken ==
  ASSUME NEW S, NEW q \in Seq(S), q # <<>>
  PROVE  /\ Tail(q) \in Seq(S) /\ Head(q) = q[1] /\ Head(q) \in S /\ 1 \in DOMAIN q
         /\ \A i \in DOMAIN Tail(q) : i \in Nat \ {0} /\ i + 1 \in DOMAIN q /\ Tail(q)[i] = q[i + 1]
         /\ \A i \in DOMAIN q : i # 1 => i - 1 \in DOMAIN Tail(q) /\ Tail(q)[i - 1] = q[i]
  OBVIOUS

LEMMA StepsTaken ==
  ASSUME NEW S, NEW q \in Seq(S), q # <<>>
  PROVE  /\ StepsOf(q) = {} => StepsOf(Tail(q)) = {} /\ Head(q).type # "step"
         /\ StepAnswersOf(q) = {} => /\ StepAnswersOf(Tail(q)) = {}
                                     /\ Head(q).type \notin {"stepped", "error"}
         /\ \A i \in DOMAIN q : StepsOf(q) = {i} =>
              \/ i = 1 /\ Head(q).type = "step" /\ StepsOf(Tail(q)) = {}
              \/ /\ i # 1 /\ Head(q).type # "step" /\ StepsOf(Tail(q)) = {i - 1}
                 /\ i - 1 \in DOMAIN Tail(q) /\ Tail(q)[i - 1] = q[i]
         /\ \A i \in DOMAIN q : StepAnswersOf(q) = {i} =>
              \/ i = 1 /\ Head(q).type \in {"stepped", "error"} /\ StepAnswersOf(Tail(q)) = {}
              \/ /\ i # 1 /\ Head(q).type \notin {"stepped", "error"}
                 /\ StepAnswersOf(Tail(q)) = {i - 1} /\ i - 1 \in DOMAIN Tail(q)
<1> DEFINE p == Tail(q)
<1>1. /\ Head(q) = q[1] /\ 1 \in DOMAIN q
      /\ \A i \in DOMAIN p : i \in Nat \ {0} /\ i + 1 \in DOMAIN q /\ p[i] = q[i + 1]
      /\ \A i \in DOMAIN q : i \in Nat
      /\ \A i \in DOMAIN q : i # 1 => i - 1 \in DOMAIN p /\ p[i - 1] = q[i]
  BY HeadTaken
<1> HIDE DEF p
<1>2. StepsOf(q) = {} => StepsOf(p) = {} /\ Head(q).type # "step"
  BY <1>1 DEF StepsOf
<1>3. StepAnswersOf(q) = {} => /\ StepAnswersOf(p) = {}
                               /\ Head(q).type \notin {"stepped", "error"}
  BY <1>1 DEF StepAnswersOf
<1>4. ASSUME NEW i \in DOMAIN q, StepsOf(q) = {i}
      PROVE  \/ i = 1 /\ Head(q).type = "step" /\ StepsOf(p) = {}
             \/ /\ i # 1 /\ Head(q).type # "step" /\ StepsOf(p) = {i - 1}
                /\ i - 1 \in DOMAIN p /\ p[i - 1] = q[i]
  <2>1. \A j \in DOMAIN q : q[j].type = "step" <=> j = i
    BY <1>4 DEF StepsOf
  <2>2. \A j \in DOMAIN p : p[j].type = "step" <=> j + 1 = i
    BY <1>1, <2>1
  <2>3. StepsOf(p) = {j \in DOMAIN p : j + 1 = i}
    BY <2>2 DEF StepsOf
  <2>4. CASE i = 1
    <3>1. \A j \in DOMAIN p : j + 1 # i
      BY <1>1, <2>4
    <3> QED BY <1>1, <2>1, <2>3, <2>4, <3>1
  <2>5. CASE i # 1
    <3>1. i - 1 \in DOMAIN p /\ p[i - 1] = q[i] /\ Head(q).type # "step"
      BY <1>1, <2>1, <2>5
    <3>2. \A j \in DOMAIN p : j + 1 = i <=> j = i - 1
      BY <1>1
    <3>3. StepsOf(p) = {i - 1}
      BY <2>3, <3>1, <3>2
    <3> QED BY <2>5, <3>1, <3>3
  <2> QED BY <2>4, <2>5
<1>5. ASSUME NEW i \in DOMAIN q, StepAnswersOf(q) = {i}
      PROVE  \/ i = 1 /\ Head(q).type \in {"stepped", "error"} /\ StepAnswersOf(p) = {}
             \/ /\ i # 1 /\ Head(q).type \notin {"stepped", "error"}
                /\ StepAnswersOf(p) = {i - 1} /\ i - 1 \in DOMAIN p
  <2>1. \A j \in DOMAIN q : q[j].type \in {"stepped", "error"} <=> j = i
    BY <1>5 DEF StepAnswersOf
  <2>2. \A j \in DOMAIN p : p[j].type \in {"stepped", "error"} <=> j + 1 = i
    BY <1>1, <2>1
  <2>3. StepAnswersOf(p) = {j \in DOMAIN p : j + 1 = i}
    BY <2>2 DEF StepAnswersOf
  <2>4. CASE i = 1
    <3>1. \A j \in DOMAIN p : j + 1 # i
      BY <1>1, <2>4
    <3> QED BY <1>1, <2>1, <2>3, <2>4, <3>1
  <2>5. CASE i # 1
    <3>1. i - 1 \in DOMAIN p /\ Head(q).type \notin {"stepped", "error"}
      BY <1>1, <2>1, <2>5
    <3>2. \A j \in DOMAIN p : j + 1 = i <=> j = i - 1
      BY <1>1
    <3>3. StepAnswersOf(p) = {i - 1}
      BY <2>3, <3>1, <3>2
    <3> QED BY <2>5, <3>1, <3>3
  <2> QED BY <2>4, <2>5
<1> QED BY <1>2, <1>3, <1>4, <1>5 DEF p

-----------------------------------------------------------------------------
(* The facade *)

LEMMA RequestServed ==
  ASSUME NEW f, NEW k, WorkerServed(f, k)
  PROVE  /\ WorkerServed(RequestSnapshot(f), k)
         /\ ZeroInv(f, k) => ZeroInv(RequestSnapshot(f), k)
         /\ RequestSnapshot(f).awaiting = f.awaiting \cup {f.nextId}
         /\ RequestSnapshot(f).nextId = f.nextId + 1
<1> DEFINE m == [type |-> "policySnapshot", id |-> f.nextId]
           g == RequestSnapshot(f)
<1>1. f \in WorkerRows /\ f.inbox \in Seq(Questions) /\ f.nextId \in Nat
  BY DEF WorkerServed, WorkerRows
<1>2. m \in Questions
  BY <1>1 DEF Questions
<1> DEFINE q == Append(f.inbox, m)
<1>3. /\ q \in Seq(Questions) /\ StepsOf(q) = StepsOf(f.inbox)
      /\ \A i \in DOMAIN f.inbox : i \in DOMAIN q /\ q[i] = f.inbox[i]
  <2>1. m.type # "step"
    OBVIOUS
  <2> HIDE DEF m
  <2>2. /\ q \in Seq(Questions)
        /\ StepsOf(q) = StepsOf(f.inbox) \cup (IF m.type = "step" THEN {Len(f.inbox) + 1} ELSE {})
        /\ \A i \in DOMAIN f.inbox : i \in DOMAIN q /\ q[i] = f.inbox[i]
    BY <1>1, <1>2, StepsAppended
  <2> HIDE DEF q
  <2> QED BY <2>1, <2>2
<1>4. g = [f EXCEPT !.awaiting = f.awaiting \cup {f.nextId}, !.nextId = f.nextId + 1, !.inbox = q]
  BY <1>1 DEF RequestSnapshot, Post, WorkerRows
<1> HIDE DEF m, q, g
<1>5. /\ g \in WorkerRows /\ g.inbox = q /\ g.outbox = f.outbox /\ g.queued = f.queued
      /\ g.stepPending = f.stepPending /\ g.awaiting = f.awaiting \cup {f.nextId}
      /\ g.nextId = f.nextId + 1
  <2>1. f.awaiting \cup {f.nextId} \in SUBSET Nat /\ f.nextId + 1 \in Nat \ {0}
    BY <1>1 DEF WorkerRows
  <2> QED BY <1>1, <1>3, <1>4, <2>1 DEF WorkerRows
<1>6. ClockInv(g, k)
  BY <1>3, <1>5 DEF ClockInv, WorkerServed
<1>7. HeldInv(g, k)
  BY <1>5 DEF HeldInv, WorkerServed
<1>9. FailedInv(g, k)
  BY <1>5 DEF FailedInv, WorkerServed
<1>8. ZeroInv(f, k) => ZeroInv(g, k)
  BY <1>3, <1>5 DEF ZeroInv, StepsOf
<1> QED BY <1>5, <1>6, <1>7, <1>8, <1>9 DEF g, WorkerServed

\* The requests that are tracked do not matter to the clock.
LEMMA AwaitingFree ==
  ASSUME NEW f, NEW k, NEW ids \in SUBSET Nat, WorkerServed(f, k)
  PROVE  /\ WorkerServed([f EXCEPT !.awaiting = ids], k)
         /\ ZeroInv(f, k) => ZeroInv([f EXCEPT !.awaiting = ids], k)
  BY DEF WorkerServed, WorkerRows, ClockInv, HeldInv, FailedInv, ZeroInv

LEMMA DispatchServed ==
  ASSUME NEW f, NEW k \in CoreRows, NEW j \in CoreRows, WorkerServed(f, k),
         NEW dt \in Nat, NEW input \in Inputs,
         j.asked = k.asked + dt, j.advanced = k.advanced, j.lost = k.lost, dt > 0
  PROVE  /\ WorkerServed(DispatchStep(f, dt, input), j)
         /\ input = "zero" => ZeroInv(DispatchStep(f, dt, input), j)
         /\ DispatchStep(f, dt, input).awaiting = f.awaiting
         /\ DispatchStep(f, dt, input).nextId = f.nextId
<1> DEFINE g == DispatchStep(f, dt, input)
<1>1. /\ f \in WorkerRows /\ f.queued.dt \in Nat /\ f.stepPending \in BOOLEAN /\ ClockInv(f, k)
      /\ f.inbox \in Seq(Questions)
  BY DEF WorkerServed, WorkerRows, Steps
<1>a. /\ k.asked \in Nat /\ k.advanced \in Nat /\ k.lost \in Nat
      /\ j.asked \in Nat /\ j.advanced \in Nat /\ j.lost \in Nat
  BY DEF CoreRows
<1>2. CASE f.stepPending = TRUE
  <2> DEFINE held == [dt |-> f.queued.dt + dt, input |-> input]
  <2>1. g = [f EXCEPT !.queued = held] /\ held \in Steps /\ held.dt = f.queued.dt + dt /\ held.input = input
    BY <1>1, <1>2 DEF DispatchStep, Steps
  <2> HIDE DEF held, g
  <2>2. /\ g \in WorkerRows /\ g.queued = held /\ g.inbox = f.inbox /\ g.outbox = f.outbox
        /\ g.stepPending = TRUE /\ g.awaiting = f.awaiting /\ g.nextId = f.nextId
    BY <1>1, <1>2, <2>1 DEF WorkerRows
  <2>3. ClockInv(g, j)
    <3>1. \A i \in DOMAIN f.inbox : StepsOf(f.inbox) = {i} => f.inbox[i].dt \in Nat
      BY <1>1 DEF StepsOf, Questions
    <3>2. CASE /\ StepAnswersOf(f.outbox) = {}
               /\ \E i \in DOMAIN f.inbox : /\ StepsOf(f.inbox) = {i}
                                            /\ k.asked = k.advanced + k.lost + f.queued.dt + f.inbox[i].dt
      <4>1. PICK i \in DOMAIN f.inbox : /\ StepsOf(f.inbox) = {i}
                                       /\ k.asked = k.advanced + k.lost + f.queued.dt + f.inbox[i].dt
        BY <3>2
      <4>2. f.inbox[i].dt \in Nat /\ g.inbox[i].dt = f.inbox[i].dt
        BY <2>2, <3>1, <4>1
      <4>3. g.queued.dt = f.queued.dt + dt
        BY <2>1, <2>2
      <4>4. j.asked = j.advanced + j.lost + g.queued.dt + g.inbox[i].dt
        <5> DEFINE d == f.inbox[i].dt
        <5>1. k.asked = k.advanced + k.lost + f.queued.dt + d /\ d \in Nat
          BY <4>1, <4>2
        <5>2. g.inbox[i].dt = d
          BY <4>2
        <5> HIDE DEF d
        <5> QED BY <1>1, <1>a, <4>3, <5>1, <5>2
      <4> QED BY <2>2, <3>2, <4>1, <4>4 DEF ClockInv
    <3>3. CASE /\ StepsOf(f.inbox) = {} /\ \E i \in DOMAIN f.outbox : StepAnswersOf(f.outbox) = {i}
               /\ k.asked = k.advanced + k.lost + f.queued.dt
      BY <1>1, <1>a, <2>1, <2>2, <3>3 DEF ClockInv
    <3> QED BY <1>1, <1>2, <3>2, <3>3 DEF ClockInv
  <2>4. HeldInv(g, j)
    BY <2>2 DEF HeldInv
  <2>5. input = "zero" => ZeroInv(g, j)
    BY <1>1, <2>1, <2>2 DEF ZeroInv
  <2>6. FailedInv(g, j)
    BY <2>2 DEF FailedInv, WorkerServed
  <2> QED BY <2>2, <2>3, <2>4, <2>5, <2>6 DEF g, WorkerServed
<1>3. CASE f.stepPending = FALSE
  <2> DEFINE m == [type |-> "step", dt |-> dt, input |-> input]
             q == Append(f.inbox, m)
  <2>1. m \in Questions /\ m.type = "step" /\ m.dt = dt /\ m.input = input
    BY DEF Questions
  <2>2. g = [f EXCEPT !.stepPending = TRUE, !.inbox = q]
    BY <1>1, <1>3 DEF DispatchStep, Post, WorkerRows
  <2> HIDE DEF m
  <2>3. /\ q \in Seq(Questions) /\ StepsOf(q) = StepsOf(f.inbox) \cup {Len(f.inbox) + 1}
        /\ Len(f.inbox) + 1 \in DOMAIN q /\ q[Len(f.inbox) + 1] = m
    BY <1>1, <2>1, StepsAppended
  <2> HIDE DEF q, g
  <2>4. /\ g \in WorkerRows /\ g.inbox = q /\ g.outbox = f.outbox /\ g.queued = f.queued
        /\ g.stepPending = TRUE /\ g.awaiting = f.awaiting /\ g.nextId = f.nextId
    BY <1>1, <2>2, <2>3 DEF WorkerRows
  <2>5. /\ StepsOf(f.inbox) = {} /\ StepAnswersOf(f.outbox) = {}
        /\ k.asked = k.advanced + k.lost + f.queued.dt
    BY <1>1, <1>3 DEF ClockInv
  <2>6. PICK i \in DOMAIN q : i = Len(f.inbox) + 1
    BY <2>3
  <2>7. StepsOf(q) = {i} /\ q[i] = m
    BY <2>3, <2>5, <2>6
  <2>8. j.asked = j.advanced + j.lost + g.queued.dt + q[i].dt
    BY <1>1, <1>a, <2>1, <2>4, <2>5, <2>7
  <2>9. ClockInv(g, j)
    BY <2>4, <2>5, <2>6, <2>7, <2>8 DEF ClockInv
  <2>10. HeldInv(g, j)
    BY <2>4 DEF HeldInv
  <2>11. ASSUME input = "zero" PROVE ZeroInv(g, j)
    <3>1. k.lost = 0 => f.queued.dt = 0
      BY <1>1, <1>3 DEF WorkerServed, HeldInv
    <3> QED BY <1>1, <2>1, <2>4, <2>7, <2>11, <3>1 DEF ZeroInv
  <2>12. FailedInv(g, j)
    BY <2>4 DEF FailedInv, WorkerServed
  <2> QED BY <2>4, <2>9, <2>10, <2>11, <2>12 DEF g, WorkerServed
<1> QED BY <1>1, <1>2, <1>3

\* The page takes the oldest answer; the answer to a step frees the slot.
LEMMA TakenServed ==
  ASSUME NEW f, NEW k \in CoreRows, WorkerServed(f, k), f.outbox # <<>>
  PROVE  LET m == Head(f.outbox)
             t == [f EXCEPT !.outbox = Tail(@)]
         IN /\ m \in Replies
            /\ m.type \notin {"stepped", "error"} =>
                  WorkerServed(t, k) /\ (ZeroInv(f, k) => ZeroInv(t, k))
            /\ m.type \in {"stepped", "error"} =>
                  /\ f.stepPending = TRUE /\ StepsOf(f.inbox) = {} /\ StepAnswersOf(t.outbox) = {}
                  /\ k.asked = k.advanced + k.lost + f.queued.dt
            /\ m.type = "error" => k.lost # 0
            /\ FailedInv(t, k)
            /\ t \in WorkerRows /\ t.awaiting = f.awaiting /\ t.nextId = f.nextId
            /\ t.inbox = f.inbox /\ t.queued = f.queued /\ t.stepPending = f.stepPending
<1> DEFINE m == Head(f.outbox)
           q == Tail(f.outbox)
           t == [f EXCEPT !.outbox = q]
<1>1. f \in WorkerRows /\ f.outbox \in Seq(Replies)
  BY DEF WorkerServed, WorkerRows
<1>2. q \in Seq(Replies) /\ m \in Replies
  BY <1>1, HeadTaken
<1>3. /\ StepAnswersOf(f.outbox) = {} => /\ StepAnswersOf(q) = {}
                                         /\ m.type \notin {"stepped", "error"}
      /\ \A i \in DOMAIN f.outbox : StepAnswersOf(f.outbox) = {i} =>
              \/ m.type \in {"stepped", "error"} /\ StepAnswersOf(q) = {}
              \/ /\ m.type \notin {"stepped", "error"}
                 /\ StepAnswersOf(q) = {i - 1} /\ i - 1 \in DOMAIN q
  BY <1>1, StepsTaken
<1> HIDE DEF q, m
<1>7. /\ m.type = "error" => k.lost # 0
      /\ \A i \in DOMAIN q : q[i].type = "error" => k.lost # 0
  BY <1>1, HeadTaken DEF WorkerServed, FailedInv, q, m
<1>4. /\ t \in WorkerRows /\ t.awaiting = f.awaiting /\ t.nextId = f.nextId /\ t.outbox = q
      /\ t.inbox = f.inbox /\ t.queued = f.queued /\ t.stepPending = f.stepPending
  BY <1>1, <1>2 DEF WorkerRows
<1> HIDE DEF t
<1>5. ASSUME m.type \notin {"stepped", "error"}
      PROVE  WorkerServed(t, k) /\ (ZeroInv(f, k) => ZeroInv(t, k))
  <2>1. ClockInv(t, k)
    <3>1. CASE StepAnswersOf(f.outbox) = {}
      BY <1>3, <1>4, <3>1 DEF ClockInv, WorkerServed
    <3>2. CASE /\ f.stepPending = TRUE /\ StepsOf(f.inbox) = {}
               /\ k.asked = k.advanced + k.lost + f.queued.dt
               /\ \E i \in DOMAIN f.outbox : StepAnswersOf(f.outbox) = {i}
      BY <1>3, <1>4, <1>5, <3>2 DEF ClockInv
    <3> QED BY <3>1, <3>2 DEF ClockInv, WorkerServed
  <2> QED BY <1>4, <1>7, <2>1 DEF WorkerServed, HeldInv, FailedInv, ZeroInv
<1>6. ASSUME m.type \in {"stepped", "error"}
      PROVE  /\ f.stepPending = TRUE /\ StepsOf(f.inbox) = {} /\ StepAnswersOf(t.outbox) = {}
             /\ k.asked = k.advanced + k.lost + f.queued.dt
  BY <1>3, <1>4, <1>6 DEF ClockInv, WorkerServed
<1>8. FailedInv(t, k)
  BY <1>4, <1>7 DEF FailedInv
<1> QED BY <1>2, <1>4, <1>5, <1>6, <1>7, <1>8 DEF t, q, m

\* An answer to the outstanding step: what queued up goes out at once, or nothing does.
LEMMA AnswerServed ==
  ASSUME NEW t \in WorkerRows, NEW k \in CoreRows, StepsOf(t.inbox) = {},
         StepAnswersOf(t.outbox) = {}, k.asked = k.advanced + k.lost + t.queued.dt,
         FailedInv(t, k)
  PROVE  /\ WorkerServed(Stepped(t), k) /\ (ZeroInv(t, k) => ZeroInv(Stepped(t), k))
         /\ Stepped(t).awaiting = t.awaiting /\ Stepped(t).nextId = t.nextId
         /\ k.lost # 0 => WorkerServed(StepFailed(t), k)
         /\ ZeroInv(t, k) => ZeroInv(StepFailed(t), k)
         /\ StepFailed(t).awaiting = t.awaiting /\ StepFailed(t).nextId = t.nextId
<1>0. /\ t.queued \in Steps /\ t.queued.dt \in Nat /\ t.queued.input \in Inputs
      /\ t.inbox \in Seq(Questions)
      /\ k.asked \in Nat /\ k.advanced \in Nat /\ k.lost \in Nat
  BY DEF WorkerRows, Steps, CoreRows
<1> DEFINE free == [t EXCEPT !.stepPending = FALSE]
<1>1. /\ free \in WorkerRows /\ free.stepPending = FALSE /\ free.inbox = t.inbox
      /\ free.outbox = t.outbox /\ free.queued = t.queued /\ free.awaiting = t.awaiting
      /\ free.nextId = t.nextId
  BY DEF WorkerRows
<1>2. Stepped(t) = IF t.queued.dt > 0
                     THEN DispatchStep([free EXCEPT !.queued = NoStep], t.queued.dt, t.queued.input)
                     ELSE free
  BY <1>1 DEF Stepped
<1>3. StepFailed(t) = free
  BY DEF StepFailed
<1> HIDE DEF free
<1>4. ClockInv(free, k) /\ (ZeroInv(t, k) => ZeroInv(free, k))
  BY <1>1 DEF ClockInv, ZeroInv
<1>5. k.lost # 0 \/ ~(t.queued.dt > 0) => WorkerServed(free, k)
  BY <1>1, <1>4 DEF WorkerServed, HeldInv, FailedInv
<1>6. CASE t.queued.dt > 0
  <2> DEFINE e == [free EXCEPT !.queued = NoStep]
             m == [type |-> "step", dt |-> t.queued.dt, input |-> t.queued.input]
             q == Append(t.inbox, m)
             g == Stepped(t)
  <2>1. /\ e \in WorkerRows /\ e.queued = NoStep /\ e.inbox = t.inbox /\ e.outbox = t.outbox
        /\ e.stepPending = FALSE /\ e.awaiting = t.awaiting /\ e.nextId = t.nextId
    BY <1>1 DEF WorkerRows, NoStep, Steps, Inputs
  <2> HIDE DEF e
  <2>2. m \in Questions /\ m.type = "step" /\ m.dt = t.queued.dt /\ m.input = t.queued.input
    BY <1>0, <1>6 DEF Questions
  <2>3. g = [e EXCEPT !.stepPending = TRUE, !.inbox = q]
    BY <1>2, <1>6, <2>1 DEF DispatchStep, Post, WorkerRows, e
  <2> HIDE DEF m
  <2>4. /\ q \in Seq(Questions) /\ StepsOf(q) = StepsOf(t.inbox) \cup {Len(t.inbox) + 1}
        /\ Len(t.inbox) + 1 \in DOMAIN q /\ q[Len(t.inbox) + 1] = m
    BY <1>0, <2>2, StepsAppended
  <2> HIDE DEF q, g
  <2>5. /\ g \in WorkerRows /\ g.inbox = q /\ g.outbox = t.outbox /\ g.queued = NoStep
        /\ g.stepPending = TRUE /\ g.awaiting = t.awaiting /\ g.nextId = t.nextId
    BY <2>1, <2>3, <2>4 DEF WorkerRows
  <2>6. PICK i \in DOMAIN q : i = Len(t.inbox) + 1
    BY <2>4
  <2>7. StepsOf(q) = {i} /\ q[i] = m
    BY <2>4, <2>6
  <2>8. NoStep.dt = 0
    BY DEF NoStep
  <2>9. k.asked = k.advanced + k.lost + g.queued.dt + q[i].dt
    BY <1>0, <2>2, <2>5, <2>7, <2>8
  <2>10. WorkerServed(g, k)
    BY <2>5, <2>6, <2>7, <2>9 DEF WorkerServed, ClockInv, HeldInv, FailedInv
  <2>11. ZeroInv(t, k) => ZeroInv(g, k)
    BY <1>6, <2>2, <2>5, <2>7, <2>8 DEF ZeroInv
  <2> QED BY <1>1, <1>3, <1>4, <1>5, <2>5, <2>10, <2>11 DEF g
<1>7. CASE ~(t.queued.dt > 0)
  BY <1>1, <1>2, <1>3, <1>4, <1>5, <1>7
<1> QED BY <1>6, <1>7

\* The worker takes its oldest request and answers it.
LEMMA WorkServed ==
  ASSUME NEW f, NEW k \in CoreRows, WorkerServed(f, k), f.inbox # <<>>, NEW answer \in Replies
  PROVE  LET m == Head(f.inbox)
             g == [f EXCEPT !.inbox = Tail(@), !.outbox = Append(@, answer)]
         IN /\ m \in Questions /\ g \in WorkerRows
            /\ g.awaiting = f.awaiting /\ g.nextId = f.nextId /\ g.queued = f.queued
            /\ g.stepPending = f.stepPending
            /\ \A i \in DOMAIN g.outbox :
                  g.outbox[i].type = "error" => k.lost # 0 \/ answer.type = "error"
            /\ m.type # "step" /\ answer.type \notin {"stepped", "error"} =>
                  WorkerServed(g, k) /\ (ZeroInv(f, k) => ZeroInv(g, k))
            /\ m.type = "step" /\ answer.type \in {"stepped", "error"} =>
                  /\ f.stepPending = TRUE /\ StepsOf(g.inbox) = {}
                  /\ \E i \in DOMAIN g.outbox : StepAnswersOf(g.outbox) = {i}
                  /\ k.asked = k.advanced + k.lost + f.queued.dt + m.dt
                  /\ ZeroInv(f, k) /\ k.lost = 0 =>
                       /\ f.queued.dt > 0 => f.queued.input = "zero"
                       /\ f.queued.dt = 0 => m.input = "zero"
<1> DEFINE m == Head(f.inbox)
           p == Tail(f.inbox)
           q == Append(f.outbox, answer)
           g == [f EXCEPT !.inbox = p, !.outbox = q]
<1>1. f \in WorkerRows /\ f.inbox \in Seq(Questions) /\ f.outbox \in Seq(Replies)
  BY DEF WorkerServed, WorkerRows
<1>2. p \in Seq(Questions) /\ m \in Questions /\ m = f.inbox[1]
  BY <1>1, HeadTaken
<1>3. /\ StepsOf(f.inbox) = {} => StepsOf(p) = {} /\ m.type # "step"
      /\ \A i \in DOMAIN f.inbox : StepsOf(f.inbox) = {i} =>
              \/ i = 1 /\ m.type = "step" /\ StepsOf(p) = {}
              \/ /\ i # 1 /\ m.type # "step" /\ StepsOf(p) = {i - 1}
                 /\ i - 1 \in DOMAIN p /\ p[i - 1] = f.inbox[i]
  BY <1>1, StepsTaken
<1>4. /\ StepAnswersOf(q) = StepAnswersOf(f.outbox)
              \cup (IF answer.type \in {"stepped", "error"} THEN {Len(f.outbox) + 1} ELSE {})
      /\ \A i \in DOMAIN f.outbox : i \in DOMAIN q /\ q[i] = f.outbox[i]
      /\ Len(f.outbox) + 1 \in DOMAIN q /\ q[Len(f.outbox) + 1] = answer
      /\ q \in Seq(Replies)
  BY <1>1, StepsAppended
<1>5. \A i \in DOMAIN q : q[i].type = "error" => k.lost # 0 \/ answer.type = "error"
  <2>1. DOMAIN q = DOMAIN f.outbox \cup {Len(f.outbox) + 1}
    BY <1>1
  <2> HIDE DEF q
  <2> QED BY <1>4, <2>1 DEF WorkerServed, FailedInv
<1> HIDE DEF p, q, m
<1>6. /\ g \in WorkerRows /\ g.inbox = p /\ g.outbox = q /\ g.awaiting = f.awaiting
      /\ g.nextId = f.nextId /\ g.queued = f.queued /\ g.stepPending = f.stepPending
  BY <1>1, <1>2, <1>4 DEF WorkerRows
<1> HIDE DEF g
<1>7. ASSUME m.type # "step", answer.type \notin {"stepped", "error"}
      PROVE  WorkerServed(g, k) /\ (ZeroInv(f, k) => ZeroInv(g, k))
  <2>1. StepAnswersOf(q) = StepAnswersOf(f.outbox)
    BY <1>4, <1>7
  <2>2. CASE StepsOf(f.inbox) = {}
    <3>1. StepsOf(p) = {}
      BY <1>3, <2>2
    <3>2. ClockInv(g, k)
      <4>1. CASE f.stepPending = FALSE
        BY <1>6, <2>1, <2>2, <3>1, <4>1 DEF ClockInv, WorkerServed
      <4>2. CASE /\ f.stepPending = TRUE /\ k.asked = k.advanced + k.lost + f.queued.dt
                 /\ \E i \in DOMAIN f.outbox : StepAnswersOf(f.outbox) = {i}
        BY <1>4, <1>6, <2>1, <2>2, <3>1, <4>2 DEF ClockInv
      <4> QED BY <2>2, <4>1, <4>2 DEF ClockInv, WorkerServed
    <3> QED BY <1>5, <1>6, <1>7, <2>2, <3>1, <3>2 DEF WorkerServed, HeldInv, FailedInv, ZeroInv
  <2>3. CASE StepsOf(f.inbox) # {}
    <3>1. /\ f.stepPending = TRUE /\ StepAnswersOf(f.outbox) = {}
          /\ \E i \in DOMAIN f.inbox :
            /\ StepsOf(f.inbox) = {i}
            /\ k.asked = k.advanced + k.lost + f.queued.dt + f.inbox[i].dt
      BY <2>3 DEF ClockInv, WorkerServed
    <3>2. PICK i \in DOMAIN f.inbox :
            /\ StepsOf(f.inbox) = {i}
            /\ k.asked = k.advanced + k.lost + f.queued.dt + f.inbox[i].dt
      BY <3>1
    <3>3. PICK n \in DOMAIN p : StepsOf(p) = {n} /\ p[n] = f.inbox[i]
      BY <1>3, <1>7, <3>2
    <3>4. ClockInv(g, k)
      BY <1>6, <2>1, <3>1, <3>2, <3>3 DEF ClockInv
    <3>5. ZeroInv(f, k) => ZeroInv(g, k)
      BY <1>6, <3>2, <3>3 DEF ZeroInv
    <3> QED BY <1>5, <1>6, <1>7, <3>4, <3>5 DEF WorkerServed, HeldInv, FailedInv
  <2> QED BY <2>2, <2>3
<1>8. ASSUME m.type = "step", answer.type \in {"stepped", "error"}
      PROVE  /\ f.stepPending = TRUE /\ StepsOf(g.inbox) = {}
             /\ \E i \in DOMAIN g.outbox : StepAnswersOf(g.outbox) = {i}
             /\ k.asked = k.advanced + k.lost + f.queued.dt + m.dt
             /\ ZeroInv(f, k) /\ k.lost = 0 =>
                  /\ f.queued.dt > 0 => f.queued.input = "zero"
                  /\ f.queued.dt = 0 => m.input = "zero"
  <2>1. /\ f.stepPending = TRUE /\ StepAnswersOf(f.outbox) = {}
        /\ \E i \in DOMAIN f.inbox :
             /\ StepsOf(f.inbox) = {i}
             /\ k.asked = k.advanced + k.lost + f.queued.dt + f.inbox[i].dt
    BY <1>3, <1>8 DEF ClockInv, WorkerServed
  <2>2. /\ StepsOf(f.inbox) = {1} /\ StepsOf(p) = {}
        /\ k.asked = k.advanced + k.lost + f.queued.dt + m.dt
    BY <1>2, <1>3, <1>8, <2>1
  <2>3. \E i \in DOMAIN g.outbox : StepAnswersOf(g.outbox) = {i}
    BY <1>4, <1>6, <1>8, <2>1
  <2>4. ZeroInv(f, k) /\ k.lost = 0 =>
                  /\ f.queued.dt > 0 => f.queued.input = "zero"
                  /\ f.queued.dt = 0 => m.input = "zero"
    BY <1>2, <2>2 DEF ZeroInv
  <2> QED BY <1>6, <2>1, <2>2, <2>3, <2>4
<1> QED BY <1>2, <1>5, <1>6, <1>7, <1>8 DEF m, g, p, q

-----------------------------------------------------------------------------
(* The controllers *)

Chained3 == {"creating", "live", "disposed"}

LEMMA FailSound ==
  ASSUME NEW k \in CtlRows, k.st \in Chained3, k.st = "live" => k.released = FALSE
  PROVE  /\ Fail(k) \in CtlRows /\ Sound(Fail(k)) /\ Fail(k).at = "idle"
         /\ k.st = "live" => Fail(k).st = "live"
  BY DEF Chained3, Fail, Reject, SettleChain, Zero, CtlRows, Sound, CtlStages, Places, Inputs, Nobody

LEMMA DisposeSound ==
  ASSUME NEW k \in CtlRows, Sound(k)
  PROVE  /\ Dispose(k) \in CtlRows /\ Dispose(k).at = k.at /\ Dispose(k).id = k.id
         /\ k.at # "ask" => Sound(Dispose(k))
         /\ k.st \in Chained3 => Dispose(k).st \in Chained3
  BY DEF Chained3, Dispose, Zero, CtlRows, Sound, CtlStages, Inputs

LEMMA FinishSound ==
  ASSUME NEW k \in CtlRows, k.st \in Chained3, k.released = FALSE,
         k.st \in {"creating", "live"} => k.failure = FALSE
  PROVE  /\ Finish(k) \in CtlRows /\ Sound(Finish(k)) /\ Finish(k).at \in {"idle", "created"}
         /\ Finish(k).st = k.st
  BY DEF Chained3, Finish, SettleChain, CtlRows, Sound, CtlStages, Places, Nobody

LEMMA SnapshotSound ==
  ASSUME NEW k \in CtlRows, Sound(k), k.at \in {"snap", "local", "prep"}, NEW reached \in BOOLEAN
  PROVE  /\ k.st \in Chained3 /\ (k.st = "live" => k.released = FALSE)
         /\ ProcessSnapshot(k, reached) \in CtlRows /\ Sound(ProcessSnapshot(k, reached))
         /\ ProcessSnapshot(k, reached).at # "snap" /\ ProcessSnapshot(k, reached).st = k.st
         /\ k.at # "prep" => /\ OnSnapshot(k, reached) \in CtlRows /\ Sound(OnSnapshot(k, reached))
                             /\ OnSnapshot(k, reached).at # "snap"
                             /\ OnSnapshot(k, reached).st = k.st
<1>1. /\ k.st \in Chained3 /\ k.released = FALSE
      /\ k.st \in {"creating", "live"} => k.failure = FALSE
      /\ k.completed + 1 \in Nat /\ k.target + 1 \in Nat
  BY DEF Sound, CtlRows, Chained3, CtlStages
<1>2. /\ ProcessSnapshot(k, reached) \in CtlRows /\ Sound(ProcessSnapshot(k, reached))
      /\ ProcessSnapshot(k, reached).at # "snap" /\ ProcessSnapshot(k, reached).st = k.st
  <2>1. CASE k.st = "disposed"
    BY <1>1, <2>1 DEF ProcessSnapshot, SettleChain, CtlRows, Sound, Places, Nobody
  <2>2. CASE k.st # "disposed" /\ ~reached
    BY <1>1, <2>2 DEF ProcessSnapshot, CtlRows, Sound, Places, Nobody, Chained3
  <2>3. CASE k.st # "disposed" /\ reached /\ k.completed + 1 >= Targets
    <3> DEFINE z == [k EXCEPT !.input = "zero", !.completed = k.completed + 1]
    <3>1. z \in CtlRows /\ z.st = k.st /\ z.released = FALSE /\ (z.st \in {"creating", "live"} => z.failure = FALSE)
      BY <1>1 DEF CtlRows, Inputs
    <3>2. ProcessSnapshot(k, reached) = Finish(z)
      BY <2>3 DEF ProcessSnapshot, Zero, CtlRows
    <3> HIDE DEF z
    <3>3. /\ Finish(z) \in CtlRows /\ Sound(Finish(z)) /\ Finish(z).at \in {"idle", "created"}
          /\ Finish(z).st = z.st
      BY <1>1, <3>1, FinishSound
    <3> QED BY <3>1, <3>2, <3>3
  <2>4. CASE k.st # "disposed" /\ reached /\ ~(k.completed + 1 >= Targets)
    <3>1. ProcessSnapshot(k, reached) =
            [k EXCEPT !.completed = k.completed + 1, !.target = k.target + 1, !.at = "ask", !.id = Nobody]
      BY <2>4 DEF ProcessSnapshot, CtlRows
    <3> DEFINE a == ProcessSnapshot(k, reached)
    <3> HIDE DEF a
    <3>2. a = [k EXCEPT !.completed = k.completed + 1, !.target = k.target + 1, !.at = "ask", !.id = 0]
      BY <3>1 DEF a, Nobody
    <3>3. a \in CtlRows
      BY <1>1, <3>2 DEF CtlRows, Places
    <3>4. /\ a.st = k.st /\ a.at = "ask" /\ a.released = FALSE /\ a.failure = FALSE
          /\ a.st \in {"creating", "live"}
      BY <1>1, <2>4, <3>2 DEF CtlRows, Chained3
    <3>5. Sound(a)
      BY <3>4 DEF Sound
    <3> QED BY <3>3, <3>4, <3>5 DEF a
  <2> QED BY <2>1, <2>2, <2>3, <2>4
<1>3. ASSUME k.at # "prep"
      PROVE  /\ OnSnapshot(k, reached) \in CtlRows /\ Sound(OnSnapshot(k, reached))
             /\ OnSnapshot(k, reached).at # "snap"
             /\ OnSnapshot(k, reached).st = k.st
  <2>1. CASE k.st = "creating" /\ k.completed = 0
    BY <1>1, <1>3, <2>1 DEF OnSnapshot, CtlRows, Sound, Places, Nobody
  <2>2. CASE ~(k.st = "creating" /\ k.completed = 0)
    BY <1>2, <2>2 DEF OnSnapshot
  <2> QED BY <2>1, <2>2
<1> QED BY <1>1, <1>2, <1>3

-----------------------------------------------------------------------------
(* The requests of the chains *)

\* As Tracked, for every controller but c.
TrackedBut(ids, cs, c) ==
    /\ \A i \in ids : \E d \in Controllers : d # c /\ cs[d].at = "snap" /\ cs[d].id = i
    /\ \A d \in Controllers : d # c /\ cs[d].at = "snap" => cs[d].id \in ids
    /\ \A d, e \in Controllers :
         d # c /\ e # c /\ cs[d].at = "snap" /\ cs[e].at = "snap" /\ cs[d].id = cs[e].id => d = e

LEMMA Untrack ==
  ASSUME NEW ids, NEW cs, NEW c \in Controllers, Tracked(ids, cs)
  PROVE  /\ cs[c].at = "snap" => TrackedBut(ids \ {cs[c].id}, cs, c)
         /\ cs[c].at # "snap" => TrackedBut(ids, cs, c)
  BY DEF Tracked, TrackedBut

LEMMA Retrack ==
  ASSUME NEW ids, NEW cs \in [Controllers -> CtlRows], NEW c \in Controllers, TrackedBut(ids, cs, c),
         NEW k
  PROVE  /\ k.at # "snap" => Tracked(ids, [cs EXCEPT ![c] = k])
         /\ k.at = "snap" /\ k.id \notin ids => Tracked(ids \cup {k.id}, [cs EXCEPT ![c] = k])
<1> DEFINE n == [cs EXCEPT ![c] = k]
<1>1. n[c] = k /\ \A d \in Controllers : d # c => n[d] = cs[d]
  OBVIOUS
<1> HIDE DEF n
<1>2. ASSUME k.at # "snap" PROVE Tracked(ids, n)
  BY <1>1, <1>2 DEF Tracked, TrackedBut
<1>3. ASSUME k.at = "snap", k.id \notin ids PROVE Tracked(ids \cup {k.id}, n)
  <2>1. ASSUME NEW i \in ids \cup {k.id} PROVE \E d \in Controllers : n[d].at = "snap" /\ n[d].id = i
    BY <1>1, <1>3, <2>1 DEF TrackedBut
  <2>2. ASSUME NEW d \in Controllers, n[d].at = "snap" PROVE n[d].id \in ids \cup {k.id}
    BY <1>1, <2>2 DEF TrackedBut
  <2>3. ASSUME NEW d \in Controllers, NEW e \in Controllers, n[d].at = "snap", n[e].at = "snap",
               n[d].id = n[e].id
        PROVE  d = e
    <3>1. \A x \in Controllers : x # c /\ n[x].at = "snap" => n[x].id # k.id
      BY <1>1, <1>3 DEF TrackedBut
    <3> QED BY <1>1, <2>3, <3>1 DEF TrackedBut
  <2> QED BY <2>1, <2>2, <2>3 DEF Tracked
<1> QED BY <1>2, <1>3 DEF n

\* One controller of cs becomes k, over the facade f.
LEMMA OneChanged ==
  ASSUME NEW cs \in [Controllers -> CtlRows], \A d \in Controllers : Sound(cs[d]) /\ cs[d].at # "ask",
         NEW c \in Controllers, NEW k \in CtlRows, Sound(k), k.at # "ask",
         NEW f, TrackedBut(f.awaiting, cs, c), NEW g,
         f.awaiting \subseteq Nat, f.nextId \in Nat \ {0},
         \A i \in f.awaiting : i \in Nat /\ 1 <= i /\ i < f.nextId,
         \/ k.at # "snap" /\ g = f
         \/ /\ k.at = "snap" /\ k.id = f.nextId /\ g.awaiting = f.awaiting \cup {f.nextId}
            /\ g.nextId = f.nextId + 1
  PROVE  CtlOk(g, [cs EXCEPT ![c] = k]) /\ [cs EXCEPT ![c] = k] \in [Controllers -> CtlRows]
<1> DEFINE n == [cs EXCEPT ![c] = k]
<1>1. n \in [Controllers -> CtlRows] /\ n[c] = k /\ \A d \in Controllers : d # c => n[d] = cs[d]
  OBVIOUS
<1>2. /\ k.at # "snap" => Tracked(f.awaiting, n)
      /\ k.at = "snap" /\ k.id \notin f.awaiting => Tracked(f.awaiting \cup {k.id}, n)
  BY Retrack
<1> HIDE DEF n
<1>3. \A d \in Controllers : Sound(n[d]) /\ n[d].at # "ask"
  BY <1>1
<1>4. f.nextId \notin f.awaiting
  OBVIOUS
<1>5. CtlOk(g, n)
  <2>1. Tracked(g.awaiting, n)
    BY <1>2, <1>4
  <2>2. \A i \in g.awaiting : i \in Nat /\ 1 <= i /\ i < g.nextId
    OBVIOUS
  <2> QED BY <1>3, <2>1, <2>2 DEF CtlOk
<1> QED BY <1>1, <1>5 DEF n

LEMMA FacadeRanges ==
  ASSUME NEW f, NEW k, FacadeOk(f, k)
  PROVE  /\ f.nextId \in Nat \ {0} /\ f.awaiting \in SUBSET Nat
         /\ f.mode # "worker" => f.awaiting = {} /\ f.nextId = 1
<1> DEFINE fresh(f0) == f0.awaiting = {} /\ f0.nextId = 1
<1>1. fresh(Fresh(f.mode))
  BY DEF Fresh
<1>2. CASE f.mode \in {"none", "fallback", "local"}
  BY <1>1, <1>2 DEF FacadeOk
<1>3. CASE f.mode \in {"loading", "patching"}
  <2>1. fresh(Post(Fresh(f.mode), [type |-> "create"]))
    BY DEF Fresh, Post
  <2>2. ASSUME NEW a PROVE fresh([Fresh(f.mode) EXCEPT !.outbox = Append(@, [type |-> a])])
    BY DEF Fresh
  <2>3. \/ f = Post(Fresh(f.mode), [type |-> "create"])
        \/ \E a : f = [Fresh(f.mode) EXCEPT !.outbox = Append(@, [type |-> a])]
    BY <1>3 DEF FacadeOk
  <2>4. f.awaiting = {} /\ f.nextId = 1
    BY <2>1, <2>2, <2>3
  <2> QED BY <1>3, <2>4
<1>4. CASE f.mode = "worker"
  BY <1>4 DEF FacadeOk, WorkerServed, WorkerRows
<1> QED BY <1>2, <1>3, <1>4 DEF FacadeOk, Modes

-----------------------------------------------------------------------------
(* The continuations of a chain *)

\* What a step of one chain keeps: the facade's invariant, the requests, who is live, and the
\* zero command on its way.
ChainKept ==
    /\ FacadeOk(facade', core) /\ CtlOk(facade', ctl') /\ ctl' \in [Controllers -> CtlRows]
    /\ facade'.mode = facade.mode
    /\ facade.mode = "worker" /\ ZeroInv(facade, core) => ZeroInv(facade', core)
    /\ \A d \in Controllers : ctl[d].st = "live" => ctl'[d].st = "live"

\* The facade s follows the page's facade within a step.
Follows(s) ==
    /\ FacadeOk(s, core) /\ s.mode = facade.mode
    /\ facade.mode = "worker" /\ ZeroInv(facade, core) => ZeroInv(s, core)
    /\ \A i \in s.awaiting : i \in Nat /\ 1 <= i /\ i < s.nextId

LEMMA CtlNow ==
  PlayInv => ctl \in [Controllers -> CtlRows] /\ \A c \in Controllers : Sound(ctl[c]) /\ ctl[c].at # "ask"
  BY DEF PlayInv, CtlOk

LEMMA ChangedQuietly ==
  ASSUME PlayInv, NEW c \in Controllers, NEW k \in CtlRows, Sound(k), k.at \notin {"ask", "snap"},
         ctl[c].st = "live" => k.st = "live",
         NEW s, Follows(s), TrackedBut(s.awaiting, ctl, c),
         facade' = s, ctl' = [ctl EXCEPT ![c] = k]
  PROVE  ChainKept
<1>1. /\ s.nextId \in Nat \ {0} /\ s.awaiting \subseteq Nat
      /\ \A i \in s.awaiting : i \in Nat /\ 1 <= i /\ i < s.nextId
  BY FacadeRanges DEF Follows
<1>2. CtlOk(s, [ctl EXCEPT ![c] = k]) /\ [ctl EXCEPT ![c] = k] \in [Controllers -> CtlRows]
  BY <1>1, CtlNow, OneChanged
<1>3. \A d \in Controllers : ctl[d].st = "live" => ctl'[d].st = "live"
  BY DEF PlayInv
<1> QED BY <1>2, <1>3 DEF ChainKept, Follows

\* A request of a chain: the worker session's id is new.
LEMMA ChangedAsking ==
  ASSUME PlayInv, NEW c \in Controllers, NEW k \in CtlRows, Sound(k), k.at = "snap",
         ctl[c].st = "live" => k.st = "live",
         NEW s, Follows(s), TrackedBut(s.awaiting, ctl, c), s.mode = "worker", k.id = s.nextId,
         facade' = RequestSnapshot(s), ctl' = [ctl EXCEPT ![c] = k]
  PROVE  ChainKept
<1>1. /\ s.nextId \in Nat \ {0} /\ s.awaiting \subseteq Nat
      /\ \A i \in s.awaiting : i \in Nat /\ 1 <= i /\ i < s.nextId
  BY FacadeRanges DEF Follows
<1> DEFINE g == RequestSnapshot(s)
<1>2. WorkerServed(s, core)
  BY DEF Follows, FacadeOk
<1>3. /\ WorkerServed(g, core) /\ (ZeroInv(s, core) => ZeroInv(g, core))
      /\ g.awaiting = s.awaiting \cup {s.nextId} /\ g.nextId = s.nextId + 1
  BY <1>2, RequestServed
<1> HIDE DEF g
<1>4. CtlOk(g, [ctl EXCEPT ![c] = k]) /\ [ctl EXCEPT ![c] = k] \in [Controllers -> CtlRows]
  BY <1>1, <1>3, CtlNow, OneChanged
<1>5. \A d \in Controllers : ctl[d].st = "live" => ctl'[d].st = "live"
  BY DEF PlayInv
<1>6. FacadeOk(g, core) /\ g.mode = "worker"
  BY <1>3 DEF FacadeOk, WorkerServed, WorkerRows, Modes
<1> QED BY <1>3, <1>4, <1>5, <1>6 DEF ChainKept, Follows, g

LEMMA GoOnSound ==
  ASSUME PlayInv, NEW c \in Controllers, NEW k \in CtlRows, Sound(k), k.at # "snap",
         ctl[c].st = "live" => k.st = "live",
         NEW s, Follows(s), TrackedBut(s.awaiting, ctl, c), GoOn(c, k, s)
  PROVE  ChainKept
<1>1. CASE k.at # "ask"
  BY <1>1, ChangedQuietly DEF GoOn
<1>2. CASE k.at = "ask"
  <2>1. /\ k.st \in {"creating", "live"} /\ k.released = FALSE
        /\ k.failure = FALSE
    BY <1>2 DEF Sound, CtlRows, CtlStages
  <2>2. Ask(c, k, s)
    BY <1>2 DEF GoOn
  <2>3. CASE k.source # count.sessions \/ s.mode \notin {"worker", "local"}
    <3>1. facade' = s /\ ctl' = [ctl EXCEPT ![c] = Fail(k)]
      BY <2>2, <2>3 DEF Ask
    <3>2. Fail(k) \in CtlRows /\ Sound(Fail(k)) /\ Fail(k).at = "idle" /\ (k.st = "live" => Fail(k).st = "live")
      BY <2>1, FailSound DEF Chained3
    <3> HIDE DEF Fail
    <3> QED BY <3>1, <3>2, ChangedQuietly
  <2>4. CASE k.source = count.sessions /\ s.mode = "local"
    <3> DEFINE n == [k EXCEPT !.at = "local"]
    <3>1. facade' = s /\ ctl' = [ctl EXCEPT ![c] = n]
      BY <2>2, <2>4 DEF Ask
    <3>2. n \in CtlRows /\ Sound(n) /\ n.at = "local" /\ n.st = k.st
      BY <2>1 DEF CtlRows, Sound, Places
    <3> HIDE DEF n
    <3> QED BY <3>1, <3>2, ChangedQuietly
  <2>5. CASE k.source = count.sessions /\ s.mode = "worker"
    <3> DEFINE n == [k EXCEPT !.at = "snap", !.id = s.nextId]
    <3>1. facade' = RequestSnapshot(s) /\ ctl' = [ctl EXCEPT ![c] = n]
      BY <2>2, <2>5 DEF Ask
    <3>2. s.nextId \in Nat
      BY FacadeRanges DEF Follows
    <3>3. n \in CtlRows /\ Sound(n) /\ n.at = "snap" /\ n.st = k.st /\ n.id = s.nextId
      BY <2>1, <3>2 DEF CtlRows, Sound, Places
    <3> HIDE DEF n
    <3> QED BY <2>5, <3>1, <3>3, ChangedAsking
  <2> QED BY <2>3, <2>4, <2>5
<1> QED BY <1>1, <1>2

\* The invariant after a step of one chain.
LEMMA ChainKeeps ==
  ASSUME PlayInv, ChainKept, core' = core, loop' = loop,
         count' \in [frames : Nat, sessions : Nat, faults : Nat]
  PROVE  PlayInv'
<1>1. LoopOk(facade', core, ctl', loop)
  BY DEF PlayInv, LoopOk, Zeroed, ChainKept
<1>2. FacadeOk(facade, core)' /\ CtlOk(facade, ctl)' /\ LoopOk(facade, core, ctl, loop)'
  BY <1>1 DEF ChainKept
<1> QED BY <1>2 DEF PlayInv, ChainKept

-----------------------------------------------------------------------------
(* The actions *)

LEMMA CtlSame ==
  ASSUME NEW f, NEW g, NEW cs, CtlOk(f, cs), g.awaiting = f.awaiting, g.nextId = f.nextId
  PROVE  CtlOk(g, cs)
  BY DEF CtlOk

LEMMA ChainFound ==
  ASSUME PlayInv, NEW id \in facade.awaiting
  PROVE  Chain(id) \in Controllers /\ ctl[Chain(id)].at = "snap" /\ ctl[Chain(id)].id = id
<1>1. \E c \in Controllers : ctl[c].at = "snap" /\ ctl[c].id = id
  BY DEF PlayInv, CtlOk, Tracked
<1> QED BY <1>1 DEF Chain

\* Where a controller whose chain is under way stands.
LEMMA ChainRuns ==
  ASSUME PlayInv, NEW c \in Controllers, ctl[c].at \in {"snap", "local", "prep", "run"}
  PROVE  /\ ctl[c] \in CtlRows /\ Sound(ctl[c]) /\ ctl[c].st \in Chained3 /\ ctl[c].released = FALSE
         /\ ctl[c].st \in {"creating", "live"} => ctl[c].failure = FALSE
<1>1. ctl[c] \in CtlRows /\ Sound(ctl[c])
  BY DEF PlayInv, CtlOk
<1> QED BY <1>1 DEF Sound, CtlRows, Chained3, CtlStages

\* The chain of controller c ends in an error.
LEMMA FailKept ==
  ASSUME PlayInv, NEW c \in Controllers, ctl[c].at \in {"snap", "local", "prep", "run"},
         NEW s, Follows(s), TrackedBut(s.awaiting, ctl, c),
         facade' = s, ctl' = [ctl EXCEPT ![c] = Fail(ctl[c])]
  PROVE  ChainKept
<1>1. /\ Fail(ctl[c]) \in CtlRows /\ Sound(Fail(ctl[c])) /\ Fail(ctl[c]).at = "idle"
      /\ ctl[c].st = "live" => Fail(ctl[c]).st = "live"
  BY ChainRuns, FailSound
<1> DEFINE k == Fail(ctl[c])
<1> HIDE DEF k
<1>2. k \in CtlRows /\ Sound(k) /\ k.at = "idle" /\ (ctl[c].st = "live" => k.st = "live")
      /\ ctl' = [ctl EXCEPT ![c] = k]
  BY <1>1 DEF k
<1> QED BY <1>2, ChangedQuietly

LEMMA SameFacade == PlayInv => Follows(facade)
  BY DEF PlayInv, Follows, CtlOk

\* The page without request id.
LEMMA WithoutRequest ==
  ASSUME PlayInv, NEW s, Follows(s), s.mode = "worker", s.awaiting = facade.awaiting,
         NEW id \in facade.awaiting
  PROVE  /\ Follows([s EXCEPT !.awaiting = @ \ {id}])
         /\ [s EXCEPT !.awaiting = @ \ {id}].awaiting = facade.awaiting \ {id}
<1> DEFINE ids == s.awaiting \ {id}
           g == [s EXCEPT !.awaiting = ids]
<1>1. WorkerServed(s, core) /\ s \in WorkerRows /\ s.awaiting \in SUBSET Nat
  BY DEF Follows, FacadeOk, WorkerServed, WorkerRows
<1>2. WorkerServed(g, core) /\ (ZeroInv(s, core) => ZeroInv(g, core))
  BY <1>1, AwaitingFree
<1>3. g.awaiting = ids /\ g.nextId = s.nextId /\ g.mode = "worker"
  BY <1>1 DEF WorkerRows
<1> HIDE DEF g
<1>4. Follows(g)
  BY <1>2, <1>3 DEF Follows, FacadeOk, Modes
<1> QED BY <1>3, <1>4 DEF g

LEMMA TimeoutStep ==
  ASSUME PlayInv, SnapshotTimesOut
  PROVE  PlayInv'
<1>1. PICK id \in facade.awaiting :
         /\ facade' = [facade EXCEPT !.awaiting = @ \ {id}]
         /\ ctl' = [ctl EXCEPT ![Chain(id)] = Fail(@)]
  BY DEF SnapshotTimesOut
<1>2. UNCHANGED <<core, loop, count>>
  BY DEF SnapshotTimesOut
<1> DEFINE c == Chain(id)
           s == [facade EXCEPT !.awaiting = @ \ {id}]
<1>3. c \in Controllers /\ ctl[c].at = "snap" /\ ctl[c].id = id
  BY ChainFound
<1>4. facade.mode = "worker"
  BY FacadeRanges DEF PlayInv
<1>5. Follows(s) /\ s.awaiting = facade.awaiting \ {id}
  BY <1>4, SameFacade, WithoutRequest
<1>6. TrackedBut(facade.awaiting \ {id}, ctl, c)
  BY <1>3, Untrack DEF PlayInv, CtlOk
<1>7. ctl' = [ctl EXCEPT ![c] = Fail(ctl[c])]
  BY <1>1
<1>8. facade' = s
  BY <1>1
<1> HIDE DEF c, s
<1>9. ChainKept
  BY <1>3, <1>5, <1>6, <1>7, <1>8, FailKept
<1> QED BY <1>2, <1>9, ChainKeeps DEF PlayInv

LEMMA ResponseStep ==
  ASSUME PlayInv, HandleResponse
  PROVE  PlayInv'
<1> DEFINE m == Head(facade.outbox)
           t == [facade EXCEPT !.outbox = Tail(@)]
<1>1. /\ facade.mode = "worker" /\ facade.outbox # <<>> /\ UNCHANGED <<core, loop, count>>
      /\ core \in CoreRows /\ WorkerServed(facade, core)
  BY DEF HandleResponse, PlayInv, FacadeOk
<1>2. /\ m \in Replies
      /\ m.type \notin {"stepped", "error"} =>
            WorkerServed(t, core) /\ (ZeroInv(facade, core) => ZeroInv(t, core))
      /\ m.type \in {"stepped", "error"} =>
            /\ facade.stepPending = TRUE /\ StepsOf(facade.inbox) = {} /\ StepAnswersOf(t.outbox) = {}
            /\ core.asked = core.advanced + core.lost + facade.queued.dt
      /\ m.type = "error" => core.lost # 0
      /\ FailedInv(t, core)
      /\ t \in WorkerRows /\ t.awaiting = facade.awaiting /\ t.nextId = facade.nextId
      /\ t.inbox = facade.inbox /\ t.queued = facade.queued /\ t.stepPending = facade.stepPending
  BY <1>1, TakenServed
<1>3. /\ m.type = "stepped" => facade' = Stepped(t) /\ UNCHANGED ctl
      /\ m.type = "error" => facade' = StepFailed(t) /\ UNCHANGED ctl
      /\ m.type \notin {"stepped", "error"} /\ m.id \notin facade.awaiting => facade' = t /\ UNCHANGED ctl
      /\ m.type \notin {"stepped", "error"} /\ m.id \in facade.awaiting =>
           LET s == [t EXCEPT !.awaiting = @ \ {m.id}]
               c == Chain(m.id)
           IN IF m.type = "policySnapshot" THEN GoOn(c, OnSnapshot(ctl[c], m.reached), s)
              ELSE facade' = s /\ ctl' = [ctl EXCEPT ![c] = Fail(@)]
  <2>1. t = Received /\ m = Head(facade.outbox)
    BY DEF Received
  <2> HIDE DEF t, m
  <2>2. (CASE m.type = "stepped" -> facade' = Stepped(t) /\ UNCHANGED ctl
          [] m.type = "error" -> facade' = StepFailed(t) /\ UNCHANGED ctl
          [] OTHER ->
               LET c == Chain(m.id)
                   s == [t EXCEPT !.awaiting = @ \ {m.id}]
               IN IF m.id \notin facade.awaiting THEN facade' = t /\ UNCHANGED ctl
                  ELSE IF m.type = "policySnapshot"
                    THEN GoOn(c, OnSnapshot(ctl[c], m.reached), s)
                    ELSE facade' = s /\ ctl' = [ctl EXCEPT ![c] = Fail(@)])
    BY <2>1 DEF HandleResponse
  <2>3. m.type = "stepped" => facade' = Stepped(t) /\ UNCHANGED ctl
    BY <2>2
  <2>4. m.type = "error" => facade' = StepFailed(t) /\ UNCHANGED ctl
    BY <2>2
  <2>5. m.type \notin {"stepped", "error"} /\ m.id \notin facade.awaiting => facade' = t /\ UNCHANGED ctl
    BY <2>2
  <2>6. ASSUME m.type \notin {"stepped", "error"}, m.id \in facade.awaiting
        PROVE  LET s == [t EXCEPT !.awaiting = @ \ {m.id}]
                   c == Chain(m.id)
               IN IF m.type = "policySnapshot" THEN GoOn(c, OnSnapshot(ctl[c], m.reached), s)
                  ELSE facade' = s /\ ctl' = [ctl EXCEPT ![c] = Fail(@)]
    BY <2>2, <2>6
  <2> QED BY <2>3, <2>4, <2>5, <2>6
<1> HIDE DEF m, t
<1>4. ASSUME NEW g, facade' = g, UNCHANGED ctl, WorkerServed(g, core), g.awaiting = facade.awaiting,
             g.nextId = facade.nextId, ZeroInv(facade, core) => ZeroInv(g, core)
      PROVE  ChainKept
  <2>1. FacadeOk(g, core) /\ g.mode = "worker"
    BY <1>4 DEF FacadeOk, WorkerServed, WorkerRows, Modes
  <2>2. CtlOk(g, ctl)
    BY <1>4, CtlSame DEF PlayInv
  <2> QED BY <1>1, <1>4, <2>1, <2>2 DEF ChainKept, PlayInv
<1>5. CASE m.type \in {"stepped", "error"}
  <2>1. ZeroInv(facade, core) => ZeroInv(t, core)
    BY <1>2, <1>5 DEF ZeroInv
  <2>2. /\ WorkerServed(Stepped(t), core) /\ (ZeroInv(t, core) => ZeroInv(Stepped(t), core))
        /\ Stepped(t).awaiting = t.awaiting /\ Stepped(t).nextId = t.nextId
        /\ core.lost # 0 => WorkerServed(StepFailed(t), core)
        /\ ZeroInv(t, core) => ZeroInv(StepFailed(t), core)
        /\ StepFailed(t).awaiting = t.awaiting /\ StepFailed(t).nextId = t.nextId
    BY <1>1, <1>2, <1>5, AnswerServed
  <2>3. CASE m.type = "stepped"
    <3> DEFINE g == Stepped(t)
    <3> HIDE DEF g
    <3>1. /\ facade' = g /\ UNCHANGED ctl /\ WorkerServed(g, core) /\ g.awaiting = facade.awaiting
          /\ g.nextId = facade.nextId /\ (ZeroInv(facade, core) => ZeroInv(g, core))
      BY <1>2, <1>3, <2>1, <2>2, <2>3 DEF g
    <3> QED BY <1>1, <1>4, <3>1, ChainKeeps DEF PlayInv
  <2>4. CASE m.type = "error"
    <3> DEFINE g == StepFailed(t)
    <3> HIDE DEF g
    <3>1. /\ facade' = g /\ UNCHANGED ctl /\ WorkerServed(g, core) /\ g.awaiting = facade.awaiting
          /\ g.nextId = facade.nextId /\ (ZeroInv(facade, core) => ZeroInv(g, core))
      BY <1>2, <1>3, <2>1, <2>2, <2>4 DEF g
    <3> QED BY <1>1, <1>4, <3>1, ChainKeeps DEF PlayInv
  <2> QED BY <1>5, <2>3, <2>4
<1>6. CASE m.type \notin {"stepped", "error"} /\ m.id \notin facade.awaiting
  BY <1>1, <1>2, <1>3, <1>4, <1>6, ChainKeeps DEF PlayInv
<1>7. CASE m.type \notin {"stepped", "error"} /\ m.id \in facade.awaiting
  <2> DEFINE c == Chain(m.id)
             s == [t EXCEPT !.awaiting = @ \ {m.id}]
  <2>1. c \in Controllers /\ ctl[c].at = "snap" /\ ctl[c].id = m.id
    BY <1>7, ChainFound
  <2>2. Follows(t) /\ t.mode = "worker"
    BY <1>1, <1>2, <1>7 DEF Follows, FacadeOk, Modes, PlayInv, CtlOk, WorkerRows
  <2>3. Follows(s) /\ s.awaiting = facade.awaiting \ {m.id}
    BY <1>2, <1>7, <2>2, WithoutRequest
  <2>4. TrackedBut(facade.awaiting \ {m.id}, ctl, c)
    BY <2>1, Untrack DEF PlayInv, CtlOk
  <2>5. IF m.type = "policySnapshot" THEN GoOn(c, OnSnapshot(ctl[c], m.reached), s)
        ELSE facade' = s /\ ctl' = [ctl EXCEPT ![c] = Fail(ctl[c])]
    BY <1>3, <1>7
  <2> HIDE DEF c, s
  <2>6. CASE m.type = "policySnapshot"
    <3>1. m.reached \in BOOLEAN
      BY <1>2, <2>6 DEF Replies
    <3> DEFINE k == OnSnapshot(ctl[c], m.reached)
    <3>2. k \in CtlRows /\ Sound(k) /\ k.at # "snap" /\ k.st = ctl[c].st
      BY <2>1, <3>1, ChainRuns, SnapshotSound
    <3>3. GoOn(c, k, s)
      BY <2>5, <2>6
    <3> HIDE DEF k
    <3>4. ChainKept
      BY <2>1, <2>3, <2>4, <3>2, <3>3, GoOnSound
    <3> QED BY <1>1, <3>4, ChainKeeps DEF PlayInv
  <2>7. CASE m.type # "policySnapshot"
    <3>1. ChainKept
      BY <2>1, <2>3, <2>4, <2>5, <2>7, FailKept
    <3> QED BY <1>1, <3>1, ChainKeeps DEF PlayInv
  <2> QED BY <2>6, <2>7
<1> QED BY <1>5, <1>6, <1>7

LEMMA PromiseStep ==
  ASSUME PlayInv, NEW c \in Controllers, LocalSnapshot(c) \/ InferenceEnds(c) \/ Prepared(c)
  PROVE  PlayInv'
<1>1. /\ core' = core /\ loop' = loop
      /\ count' = count \/ count' = [count EXCEPT !.faults = count.faults + 1]
  BY DEF LocalSnapshot, InferenceEnds, Prepared
<1>2. count' \in [frames : Nat, sessions : Nat, faults : Nat]
  BY <1>1 DEF PlayInv
<1>3. ctl[c].at \in {"local", "prep", "run"} /\ TrackedBut(facade.awaiting, ctl, c) /\ Follows(facade)
  <2>1. ctl[c].at \in {"local", "prep", "run"}
    BY DEF LocalSnapshot, InferenceEnds, Prepared
  <2> QED BY <2>1, Untrack, SameFacade DEF PlayInv, CtlOk
<1>4. CASE LocalSnapshot(c)
  <2>1. PICK reached \in BOOLEAN : GoOn(c, OnSnapshot(ctl[c], reached), facade)
    BY <1>4 DEF LocalSnapshot
  <2>2. ctl[c].at = "local"
    BY <1>4 DEF LocalSnapshot
  <2> DEFINE k == OnSnapshot(ctl[c], reached)
  <2>3. k \in CtlRows /\ Sound(k) /\ k.at # "snap" /\ k.st = ctl[c].st
    BY <2>2, ChainRuns, SnapshotSound
  <2>4. GoOn(c, k, facade)
    BY <2>1
  <2> HIDE DEF k
  <2>5. ChainKept
    BY <1>3, <2>3, <2>4, GoOnSound
  <2> QED BY <1>1, <1>2, <2>5, ChainKeeps
<1>5. CASE facade' = facade /\ ctl' = [ctl EXCEPT ![c] = Fail(ctl[c])]
  <2>1. ChainKept
    BY <1>3, <1>5, FailKept
  <2> QED BY <1>1, <1>2, <2>1, ChainKeeps
<1>6. CASE /\ ctl[c].at = "run" /\ facade' = facade
           /\ ctl' = [ctl EXCEPT ![c] = Finish([ctl[c] EXCEPT !.input = "policy"])]
  <2> DEFINE i == [ctl[c] EXCEPT !.input = "policy"]
             k == Finish(i)
  <2>1. /\ ctl[c] \in CtlRows /\ ctl[c].st \in Chained3 /\ ctl[c].released = FALSE
        /\ ctl[c].st \in {"creating", "live"} => ctl[c].failure = FALSE
    BY <1>6, ChainRuns
  <2>2. /\ i \in CtlRows /\ i.st = ctl[c].st /\ i.released = FALSE
        /\ i.st \in {"creating", "live"} => i.failure = FALSE
    BY <2>1 DEF CtlRows, Inputs
  <2> HIDE DEF i
  <2>3. k \in CtlRows /\ Sound(k) /\ k.at \in {"idle", "created"} /\ k.st = ctl[c].st
    BY <2>1, <2>2, FinishSound
  <2>4. ctl' = [ctl EXCEPT ![c] = k] /\ facade' = facade
    BY <1>6 DEF i
  <2> HIDE DEF k
  <2>5. ChainKept
    BY <1>3, <2>3, <2>4, ChangedQuietly
  <2> QED BY <1>1, <1>2, <2>5, ChainKeeps
<1>7. CASE InferenceEnds(c)
  BY <1>5, <1>6, <1>7 DEF InferenceEnds
<1>8. CASE Prepared(c)
  <2>1. CASE GoOn(c, ProcessSnapshot(ctl[c], ctl[c].reached), facade)
    <3> DEFINE k == ProcessSnapshot(ctl[c], ctl[c].reached)
    <3>1. ctl[c].at = "prep" /\ ctl[c].reached \in BOOLEAN
      BY <1>8 DEF Prepared, PlayInv, CtlRows
    <3>2. k \in CtlRows /\ Sound(k) /\ k.at # "snap" /\ k.st = ctl[c].st
      BY <3>1, ChainRuns, SnapshotSound
    <3>3. GoOn(c, k, facade)
      BY <2>1
    <3> HIDE DEF k
    <3>4. ChainKept
      BY <1>3, <3>2, <3>3, GoOnSound
    <3> QED BY <1>1, <1>2, <3>4, ChainKeeps
  <2> QED BY <1>5, <1>8, <2>1 DEF Prepared
<1> QED BY <1>4, <1>7, <1>8

LEMMA RefusalReported ==
  ASSUME PlayInv, NEW c \in Controllers, ReportRefusal(c)
  PROVE  PlayInv'
<1> DEFINE k == [ctl[c] EXCEPT !.st = "refused"]
<1>1. /\ ctl' = [ctl EXCEPT ![c] = k] /\ loop' = [loop EXCEPT !.driving = FALSE]
      /\ UNCHANGED <<facade, core, count>> /\ ctl[c].st = "refusing"
  BY DEF ReportRefusal
<1>2. ctl[c] \in CtlRows /\ Sound(ctl[c]) /\ ctl[c].at = "idle" /\ ctl[c].released = TRUE
  BY <1>1, CtlNow DEF Sound, CtlRows
<1>3. k \in CtlRows /\ Sound(k) /\ k.at = "idle"
  BY <1>2 DEF Sound, CtlRows, CtlStages
<1> HIDE DEF k
<1>4. /\ facade.nextId \in Nat \ {0} /\ facade.awaiting \subseteq Nat
      /\ \A i \in facade.awaiting : i \in Nat /\ 1 <= i /\ i < facade.nextId
  BY FacadeRanges DEF PlayInv, CtlOk
<1>5. TrackedBut(facade.awaiting, ctl, c)
  BY <1>2, Untrack DEF PlayInv, CtlOk
<1>6. CtlOk(facade, ctl') /\ ctl' \in [Controllers -> CtlRows]
  BY <1>1, <1>3, <1>4, <1>5, CtlNow, OneChanged
<1>7. loop' \in LoopRows /\ LoopOk(facade, core, ctl', loop')
  BY <1>1, CtlNow DEF PlayInv, LoopOk, LoopRows
<1>8. CtlOk(facade, ctl)' /\ LoopOk(facade, core, ctl, loop)' /\ FacadeOk(facade, core)'
  BY <1>1, <1>6, <1>7 DEF PlayInv
<1> QED BY <1>1, <1>6, <1>7, <1>8 DEF PlayInv

LEMMA TakeOverStep ==
  ASSUME PlayConstants, PlayInv, NEW c \in Controllers, TakeOver(c)
  PROVE  PlayInv'
<1> DEFINE made == [ctl[c] EXCEPT !.st = "live", !.at = "idle", !.next = Period]
           current == ctl[c].source = count.sessions /\ Live
           k == IF current THEN made ELSE Dispose(made)
<1>1. /\ ctl' = [ctl EXCEPT ![c] = k] /\ UNCHANGED <<facade, core, count>> /\ ctl[c].at = "created"
      /\ loop' = IF current THEN [playing |-> c, elapsed |-> 0, driving |-> TRUE, zeroed |-> FALSE]
                 ELSE [loop EXCEPT !.driving = FALSE]
  BY DEF TakeOver
<1>2. /\ ctl[c] \in CtlRows /\ ctl[c].st = "creating" /\ ctl[c].released = FALSE
      /\ ctl[c].failure = FALSE
  BY <1>1, CtlNow DEF Sound, CtlRows, CtlStages
<1>3. made \in CtlRows /\ Sound(made) /\ made.at = "idle" /\ made.st = "live"
  BY <1>2 DEF Sound, CtlRows, CtlStages, Places, PlayConstants
<1> HIDE DEF made, current
<1>4. k \in CtlRows /\ Sound(k) /\ k.at = "idle" /\ (current => k.st = "live")
  BY <1>3, DisposeSound
<1> HIDE DEF k
<1>5. /\ facade.nextId \in Nat \ {0} /\ facade.awaiting \subseteq Nat
      /\ \A i \in facade.awaiting : i \in Nat /\ 1 <= i /\ i < facade.nextId
  BY FacadeRanges DEF PlayInv, CtlOk
<1>6. TrackedBut(facade.awaiting, ctl, c)
  BY <1>1, Untrack DEF PlayInv, CtlOk
<1>7. CtlOk(facade, ctl') /\ ctl' \in [Controllers -> CtlRows]
  BY <1>1, <1>4, <1>5, <1>6, CtlNow, OneChanged
<1>8. /\ ctl'[c] = k /\ \A d \in Controllers : d # c => ctl'[d] = ctl[d]
      /\ c \in Nat
  BY <1>1, CtlNow DEF PlayConstants
<1>9. loop' \in LoopRows /\ LoopOk(facade, core, ctl', loop')
  <2>1. CASE current
    BY <1>1, <1>4, <1>8, <2>1 DEF LoopOk, LoopRows
  <2>2. CASE ~current
    BY <1>1, <1>2, <1>8, <2>2 DEF PlayInv, LoopOk, LoopRows
  <2> QED BY <2>1, <2>2
<1>10. CtlOk(facade, ctl)' /\ LoopOk(facade, core, ctl, loop)' /\ FacadeOk(facade, core)'
  BY <1>1, <1>7, <1>9 DEF PlayInv
<1> QED BY <1>1, <1>7, <1>9, <1>10 DEF PlayInv

LEMMA DrivingStep ==
  ASSUME PlayInv, NEW on \in BOOLEAN, SetDriving(on)
  PROVE  PlayInv'
<1>1. /\ loop' = [loop EXCEPT !.driving = on, !.zeroed = loop.zeroed /\ ~on]
      /\ UNCHANGED <<facade, core, ctl, count>>
  BY DEF SetDriving
<1>2. loop' \in LoopRows /\ loop'.playing = loop.playing /\ loop'.driving = on
      /\ (loop'.zeroed => loop.zeroed /\ on = FALSE)
  BY <1>1 DEF PlayInv, LoopRows
<1>3. LoopOk(facade, core, ctl, loop')
  BY <1>2 DEF PlayInv, LoopOk
<1>4. CtlOk(facade, ctl)' /\ LoopOk(facade, core, ctl, loop)' /\ FacadeOk(facade, core)'
  BY <1>1, <1>3 DEF PlayInv
<1> QED BY <1>1, <1>2, <1>4 DEF PlayInv

\* The playback of controller p is disposed, beside all the others.
LEMMA OthersSound ==
  ASSUME PlayInv, NEW n, n = [d \in Controllers |-> IF d = loop.playing THEN Dispose(ctl[d]) ELSE ctl[d]]
  PROVE  /\ n \in [Controllers -> CtlRows] /\ CtlOk(facade, n)
         /\ \A d \in Controllers : n[d].at = ctl[d].at /\ n[d].id = ctl[d].id
<1>1. \A d \in Controllers : /\ n[d] \in CtlRows /\ Sound(n[d])
                             /\ n[d].at = ctl[d].at /\ n[d].id = ctl[d].id
  BY CtlNow, DisposeSound
<1>2. n \in [Controllers -> CtlRows]
  BY <1>1
<1>3. CtlOk(facade, n)
  BY <1>1 DEF PlayInv, CtlOk, Tracked
<1> QED BY <1>1, <1>2, <1>3

LEMMA StartStep ==
  ASSUME PlayInv, NEW c \in Controllers, StartPlayback(c)
  PROVE  PlayInv'
<1> DEFINE begun == [NotCreated EXCEPT !.st = "creating", !.source = count.sessions]
           others == [d \in Controllers |-> IF d = loop.playing THEN Dispose(ctl[d]) ELSE ctl[d]]
<1>1. /\ facade.mode \in {"worker", "local", "patching"} /\ ctl[c].st = "unused"
      /\ loop' = [loop EXCEPT !.playing = Nobody] /\ UNCHANGED <<core, count>>
  BY DEF StartPlayback, PlayInv, FacadeOk, Modes
<1>2. \/ /\ facade.mode = "patching" /\ facade' = facade /\ ctl' = [others EXCEPT ![c] = Fail(begun)]
      \/ /\ facade.mode = "local" /\ facade' = facade
         /\ ctl' = [others EXCEPT ![c] = [begun EXCEPT !.at = "local"]]
      \/ /\ facade.mode = "worker" /\ facade' = RequestSnapshot(facade)
         /\ ctl' = [others EXCEPT ![c] = [begun EXCEPT !.at = "snap", !.id = facade.nextId]]
  BY <1>1 DEF StartPlayback, Live
<1>3. /\ begun \in CtlRows /\ begun.st = "creating" /\ begun.released = FALSE /\ begun.failure = FALSE
  BY DEF NotCreated, CtlRows, CtlStages, Places, Inputs, Nobody, PlayInv
<1>4. /\ others \in [Controllers -> CtlRows] /\ CtlOk(facade, others)
      /\ \A d \in Controllers : others[d].at = ctl[d].at /\ others[d].id = ctl[d].id
  <2> DEFINE n == others
  <2>1. n = [d \in Controllers |-> IF d = loop.playing THEN Dispose(ctl[d]) ELSE ctl[d]]
    OBVIOUS
  <2> HIDE DEF n, others
  <2>2. /\ n \in [Controllers -> CtlRows] /\ CtlOk(facade, n)
        /\ \A d \in Controllers : n[d].at = ctl[d].at /\ n[d].id = ctl[d].id
    BY <2>1, OthersSound
  <2> QED BY <2>2 DEF n
<1> HIDE DEF others, begun
<1>5. /\ facade.nextId \in Nat \ {0} /\ facade.awaiting \subseteq Nat
      /\ \A i \in facade.awaiting : i \in Nat /\ 1 <= i /\ i < facade.nextId
  BY FacadeRanges DEF PlayInv, CtlOk
<1>6. TrackedBut(facade.awaiting, others, c)
  <2>1. others[c].at = "idle"
    BY <1>1, <1>4, CtlNow DEF Sound
  <2> QED BY <1>4, <2>1, Untrack DEF CtlOk
<1>a. \A d \in Controllers : Sound(others[d]) /\ others[d].at # "ask"
  BY <1>4 DEF CtlOk
<1>7. /\ FacadeOk(facade', core) /\ CtlOk(facade', ctl') /\ ctl' \in [Controllers -> CtlRows]
      /\ facade'.mode = facade.mode
      /\ facade.mode = "worker" /\ ZeroInv(facade, core) => ZeroInv(facade', core)
  <2>1. CASE /\ facade.mode = "patching" /\ facade' = facade
             /\ ctl' = [others EXCEPT ![c] = Fail(begun)]
    <3> DEFINE k == Fail(begun)
    <3>1. k \in CtlRows /\ Sound(k) /\ k.at = "idle"
      BY <1>3, FailSound DEF Chained3
    <3> HIDE DEF k
    <3>2. CtlOk(facade, [others EXCEPT ![c] = k]) /\ [others EXCEPT ![c] = k] \in [Controllers -> CtlRows]
      BY <1>4, <1>5, <1>6, <1>a, <3>1, OneChanged
    <3> QED BY <2>1, <3>2 DEF k, PlayInv
  <2>2. CASE /\ facade.mode = "local" /\ facade' = facade
             /\ ctl' = [others EXCEPT ![c] = [begun EXCEPT !.at = "local"]]
    <3> DEFINE k == [begun EXCEPT !.at = "local"]
    <3>1. k \in CtlRows /\ Sound(k) /\ k.at = "local"
      BY <1>3 DEF CtlRows, Sound, Places
    <3> HIDE DEF k
    <3>2. CtlOk(facade, [others EXCEPT ![c] = k]) /\ [others EXCEPT ![c] = k] \in [Controllers -> CtlRows]
      BY <1>4, <1>5, <1>6, <1>a, <3>1, OneChanged
    <3> QED BY <2>2, <3>2 DEF k, PlayInv
  <2>3. CASE /\ facade.mode = "worker" /\ facade' = RequestSnapshot(facade)
             /\ ctl' = [others EXCEPT ![c] = [begun EXCEPT !.at = "snap", !.id = facade.nextId]]
    <3> DEFINE k == [begun EXCEPT !.at = "snap", !.id = facade.nextId]
               g == RequestSnapshot(facade)
    <3>1. k \in CtlRows /\ Sound(k) /\ k.at = "snap" /\ k.id = facade.nextId
      BY <1>3, <1>5 DEF CtlRows, Sound, Places
    <3>2. WorkerServed(facade, core)
      BY <2>3 DEF PlayInv, FacadeOk
    <3>3. /\ WorkerServed(g, core) /\ (ZeroInv(facade, core) => ZeroInv(g, core))
          /\ g.awaiting = facade.awaiting \cup {facade.nextId} /\ g.nextId = facade.nextId + 1
      BY <3>2, RequestServed
    <3> HIDE DEF k, g
    <3>4. CtlOk(g, [others EXCEPT ![c] = k]) /\ [others EXCEPT ![c] = k] \in [Controllers -> CtlRows]
      BY <1>4, <1>5, <1>6, <1>a, <3>1, <3>3, OneChanged
    <3>5. FacadeOk(g, core) /\ g.mode = "worker"
      BY <3>3 DEF FacadeOk, WorkerServed, WorkerRows, Modes
    <3> QED BY <2>3, <3>3, <3>4, <3>5 DEF k, g
  <2> QED BY <1>2, <2>1, <2>2, <2>3
<1>8. loop' \in LoopRows /\ LoopOk(facade', core, ctl', loop')
  BY <1>1, <1>7 DEF PlayInv, LoopOk, LoopRows, Zeroed, Nobody
<1>9. CtlOk(facade, ctl)' /\ LoopOk(facade, core, ctl, loop)' /\ FacadeOk(facade, core)'
  BY <1>1, <1>7, <1>8
<1> QED BY <1>1, <1>7, <1>8, <1>9 DEF PlayInv

\* A new session: every chain that waits for an observation is rejected.
LEMMA RejectSound ==
  ASSUME NEW k \in CtlRows, Sound(k), k.at # "ask"
  PROVE  /\ RejectAwaiting(k) \in CtlRows /\ Sound(RejectAwaiting(k))
         /\ RejectAwaiting(k).at \notin {"ask", "snap"}
         /\ k.st = "live" => RejectAwaiting(k).st = "live"
<1>1. CASE k.at = "snap"
  <2>1. k.st \in Chained3 /\ (k.st = "live" => k.released = FALSE)
    BY <1>1 DEF Sound, CtlRows, CtlStages, Chained3
  <2>2. RejectAwaiting(k) = Fail(k)
    BY <1>1 DEF RejectAwaiting
  <2> QED BY <2>1, <2>2, FailSound
<1>2. CASE k.at # "snap"
  BY <1>2 DEF RejectAwaiting
<1> QED BY <1>1, <1>2

LEMMA ReplacedSound ==
  ASSUME PlayInv, NEW mode \in {"loading", "patching"}, ReplaceSession(mode)
  PROVE  /\ FacadeOk(facade', core') /\ core' \in CoreRows /\ facade'.awaiting = {}
         /\ count' \in [frames : Nat, sessions : Nat, faults : Nat]
<1>1. core' = [asked |-> 0, advanced |-> 0, lost |-> 0, last |-> "zero"]
  BY DEF ReplaceSession
<1>2. core' \in CoreRows
  BY <1>1 DEF CoreRows, Inputs
<1>3. count' = [count EXCEPT !.sessions = count.sessions + 1]
  BY DEF ReplaceSession
<1>4. count' \in [frames : Nat, sessions : Nat, faults : Nat]
  BY <1>3 DEF PlayInv
<1>5. facade' = Post(Fresh(mode), [type |-> "create"]) \/ facade' = Fresh("fallback")
  BY DEF ReplaceSession
<1>6. CASE facade' = Fresh("fallback")
  <2>1. Fresh("fallback").mode = "fallback" /\ Fresh("fallback").awaiting = {}
    BY DEF Fresh
  <2> QED BY <1>2, <1>4, <1>6, <2>1 DEF FacadeOk, Modes
<1>7. CASE facade' = Post(Fresh(mode), [type |-> "create"])
  <2>1. facade'.mode = mode /\ facade'.awaiting = {}
    BY <1>7 DEF Post, Fresh
  <2> QED BY <1>1, <1>2, <1>4, <1>7, <2>1 DEF FacadeOk, Modes
<1> QED BY <1>5, <1>6, <1>7

LEMMA SessionStep ==
  ASSUME PlayInv, LoadContract \/ ApplyPatch
  PROVE  PlayInv'
<1>1. ASSUME NEW n \in [Controllers -> CtlRows], ctl' = n,
             \A c \in Controllers : Sound(n[c]) /\ n[c].at \notin {"ask", "snap"},
             facade'.awaiting = {}
      PROVE  CtlOk(facade', ctl') /\ ctl' \in [Controllers -> CtlRows]
  BY <1>1 DEF CtlOk, Tracked
<1>2. CASE LoadContract
  <2> DEFINE k(c) == RejectAwaiting(IF c = loop.playing THEN Dispose(ctl[c]) ELSE ctl[c])
             n == [c \in Controllers |-> k(c)]
  <2>1. ctl' = n /\ loop' = [loop EXCEPT !.playing = Nobody, !.zeroed = FALSE]
    BY <1>2 DEF LoadContract
  <2>2. /\ FacadeOk(facade', core') /\ core' \in CoreRows /\ facade'.awaiting = {}
        /\ count' \in [frames : Nat, sessions : Nat, faults : Nat]
    BY <1>2, ReplacedSound DEF LoadContract
  <2>3. ASSUME NEW c \in Controllers PROVE k(c) \in CtlRows /\ Sound(k(c)) /\ k(c).at \notin {"ask", "snap"}
    <3>1. ctl[c] \in CtlRows /\ Sound(ctl[c]) /\ ctl[c].at # "ask"
      BY CtlNow
    <3>2. Dispose(ctl[c]) \in CtlRows /\ Sound(Dispose(ctl[c])) /\ Dispose(ctl[c]).at # "ask"
      BY <3>1, DisposeSound
    <3> QED BY <3>1, <3>2, RejectSound
  <2> HIDE DEF k
  <2>4. n \in [Controllers -> CtlRows] /\ \A c \in Controllers : Sound(n[c]) /\ n[c].at \notin {"ask", "snap"}
    BY <2>3
  <2> HIDE DEF n
  <2>5. CtlOk(facade', ctl') /\ ctl' \in [Controllers -> CtlRows]
    BY <1>1, <2>1, <2>2, <2>4
  <2>6. loop' \in LoopRows /\ LoopOk(facade', core', ctl', loop')
    BY <2>1 DEF PlayInv, LoopRows, LoopOk, Nobody
  <2>7. CtlOk(facade, ctl)' /\ LoopOk(facade, core, ctl, loop)' /\ FacadeOk(facade, core)'
    BY <2>2, <2>5, <2>6
  <2> QED BY <2>2, <2>5, <2>6, <2>7 DEF PlayInv
<1>3. CASE ApplyPatch
  <2> DEFINE n == [c \in Controllers |-> RejectAwaiting(ctl[c])]
  <2>1. ctl' = n /\ loop' = [loop EXCEPT !.zeroed = FALSE]
    BY <1>3 DEF ApplyPatch
  <2>2. /\ FacadeOk(facade', core') /\ core' \in CoreRows /\ facade'.awaiting = {}
        /\ count' \in [frames : Nat, sessions : Nat, faults : Nat]
    BY <1>3, ReplacedSound DEF ApplyPatch
  <2>3. /\ n \in [Controllers -> CtlRows]
        /\ \A c \in Controllers : /\ Sound(n[c]) /\ n[c].at \notin {"ask", "snap"}
                                  /\ ctl[c].st = "live" => n[c].st = "live"
    BY CtlNow, RejectSound
  <2> HIDE DEF n
  <2>4. CtlOk(facade', ctl') /\ ctl' \in [Controllers -> CtlRows]
    BY <1>1, <2>1, <2>2, <2>3
  <2>5. loop' \in LoopRows /\ LoopOk(facade', core', ctl', loop')
    BY <2>1, <2>3 DEF PlayInv, LoopRows, LoopOk
  <2>6. CtlOk(facade, ctl)' /\ LoopOk(facade, core, ctl, loop)' /\ FacadeOk(facade, core)'
    BY <2>2, <2>4, <2>5
  <2> QED BY <2>2, <2>4, <2>5, <2>6 DEF PlayInv
<1> QED BY <1>2, <1>3

\* A step of the worker or of the facade alone.
LEMMA FacadeStep ==
  ASSUME PlayInv, ctl' = ctl, loop' = loop, core' \in CoreRows,
         count' \in [frames : Nat, sessions : Nat, faults : Nat],
         FacadeOk(facade', core'), facade'.awaiting = facade.awaiting, facade'.nextId = facade.nextId,
         loop.zeroed => Zeroed(facade', core')
  PROVE  PlayInv'
<1>1. CtlOk(facade', ctl)
  BY CtlSame DEF PlayInv
<1>2. LoopOk(facade', core', ctl, loop)
  BY DEF PlayInv, LoopOk
<1>3. CtlOk(facade, ctl)' /\ LoopOk(facade, core, ctl, loop)' /\ FacadeOk(facade, core)'
  BY <1>1, <1>2
<1> QED BY <1>3 DEF PlayInv

\* Two facades that agree on every field are equal.
FacadeRows(S) == [mode : S, inbox : S, outbox : S, stepPending : S, queued : S, awaiting : S, nextId : S]

LEMMA SameFields ==
  ASSUME NEW S, NEW f \in FacadeRows(S), NEW g \in FacadeRows(S), f.mode = g.mode, f.inbox = g.inbox,
         f.outbox = g.outbox, f.stepPending = g.stepPending, f.queued = g.queued,
         f.awaiting = g.awaiting, f.nextId = g.nextId
  PROVE  f = g
  BY DEF FacadeRows

\* The queues of a facade that no worker serves yet.
LEMMA StartingQueues ==
  ASSUME PlayInv, facade.mode \in {"loading", "patching"}
  PROVE  /\ core.asked = 0 /\ core.advanced = 0 /\ core.lost = 0 /\ facade.awaiting = {}
         /\ facade.nextId = 1
         /\ \/ facade = [Fresh(facade.mode) EXCEPT !.inbox = <<[type |-> "create"]>>]
            \/ \E a \in {"created", "error"} :
                 facade = [Fresh(facade.mode) EXCEPT !.outbox = <<[type |-> a]>>]
<1>1. ASSUME NEW x PROVE Append(<<>>, x) = <<x>>
  OBVIOUS
<1>2. /\ Post(Fresh(facade.mode), [type |-> "create"])
           = [Fresh(facade.mode) EXCEPT !.inbox = <<[type |-> "create"]>>]
      /\ \A a : [Fresh(facade.mode) EXCEPT !.outbox = Append(@, [type |-> a])]
                  = [Fresh(facade.mode) EXCEPT !.outbox = <<[type |-> a]>>]
  BY <1>1 DEF Post, Fresh
<1> QED BY <1>2, FacadeRanges DEF PlayInv, FacadeOk

\* The worker answers requests only once it has been created.
LEMMA Answering ==
  ASSUME PlayInv, facade.inbox # <<>>
  PROVE  \/ facade.mode \in {"loading", "patching"} /\ Head(facade.inbox).type = "create"
         \/ facade.mode = "worker" /\ WorkerServed(facade, core) /\ Head(facade.inbox) \in Questions
<1>1. \A mode : Fresh(mode).inbox = <<>>
  BY DEF Fresh
<1>2. CASE facade.mode \in {"none", "fallback", "local"}
  <2>1. facade = Fresh(facade.mode)
    BY <1>2 DEF PlayInv, FacadeOk
  <2> QED BY <1>1, <2>1
<1>3. CASE facade.mode \in {"loading", "patching"}
  <2>1. \A a : [Fresh(facade.mode) EXCEPT !.outbox = <<[type |-> a]>>].inbox = <<>>
    BY DEF Fresh
  <2>2. facade = [Fresh(facade.mode) EXCEPT !.inbox = <<[type |-> "create"]>>]
    BY <1>3, <2>1, StartingQueues
  <2> DEFINE first == <<[type |-> "create"]>>
  <2>3. Head(first).type = "create"
    OBVIOUS
  <2> HIDE DEF first
  <2>4. facade.inbox = first
    <3>1. [Fresh(facade.mode) EXCEPT !.inbox = first].inbox = first
      BY DEF Fresh
    <3> QED BY <2>2, <3>1 DEF first
  <2> QED BY <1>3, <2>3, <2>4
<1>4. CASE facade.mode = "worker"
  <2>1. WorkerServed(facade, core) /\ facade.inbox \in Seq(Questions)
    BY <1>4 DEF PlayInv, FacadeOk, WorkerServed, WorkerRows
  <2> QED BY <1>4, <2>1, HeadTaken
<1> QED BY <1>2, <1>3, <1>4 DEF PlayInv, FacadeOk, Modes

LEMMA CreatesStep ==
  ASSUME PlayInv, WorkerCreates
  PROVE  PlayInv'
<1>1. /\ core' = core /\ loop' = loop /\ ctl' = ctl
      /\ facade.inbox # <<>> /\ Head(facade.inbox).type = "create"
      /\ count' = count \/ count' = [count EXCEPT !.faults = count.faults + 1]
  BY DEF WorkerCreates, WorkerAnswer
<1>2. count' \in [frames : Nat, sessions : Nat, faults : Nat]
  BY <1>1 DEF PlayInv
<1>3. PICK a \in {"created", "error"} :
        facade' = [facade EXCEPT !.inbox = Tail(@), !.outbox = Append(@, [type |-> a])]
  BY DEF WorkerCreates, WorkerAnswer
<1>4. facade.mode \in {"loading", "patching"}
  BY <1>1, Answering DEF Questions
<1> DEFINE first == <<[type |-> "create"]>>
           f == [Fresh(facade.mode) EXCEPT !.inbox = first]
<1>5. facade = f
  <2>1. \A b : [Fresh(facade.mode) EXCEPT !.outbox = <<[type |-> b]>>].inbox = <<>>
    BY DEF Fresh
  <2> QED BY <1>1, <1>4, <2>1, StartingQueues
<1>6. Tail(first) = <<>>
  OBVIOUS
<1> HIDE DEF first
<1>7. facade' = [Fresh(facade.mode) EXCEPT !.outbox = Append(@, [type |-> a])]
  <2> DEFINE none == <<>>
             o == Append(none, [type |-> a])
             n == [Fresh(facade.mode) EXCEPT !.outbox = o]
             S == {facade.mode, first, none, o, FALSE, NoStep, {}, 1}
  <2>1. /\ facade.inbox = first /\ facade.outbox = none /\ facade.stepPending = FALSE
        /\ facade.queued = NoStep /\ facade.awaiting = {} /\ facade.nextId = 1
        /\ facade \in FacadeRows(S)
    BY <1>5 DEF Fresh, FacadeRows
  <2>2. facade' = [facade EXCEPT !.inbox = none, !.outbox = o]
    BY <1>3, <1>6, <2>1
  <2>3. n = [Fresh(facade.mode) EXCEPT !.outbox = Append(@, [type |-> a])]
    BY DEF Fresh
  <2>4. /\ n.mode = facade.mode /\ n.inbox = none /\ n.outbox = o /\ n.stepPending = FALSE
        /\ n.queued = NoStep /\ n.awaiting = {} /\ n.nextId = 1 /\ n \in FacadeRows(S)
    BY DEF Fresh, FacadeRows
  <2> HIDE DEF none, o, n
  <2>5. /\ facade'.mode = facade.mode /\ facade'.inbox = none /\ facade'.outbox = o
        /\ facade'.stepPending = FALSE /\ facade'.queued = NoStep /\ facade'.awaiting = {}
        /\ facade'.nextId = 1 /\ facade' \in FacadeRows(S)
    BY <2>1, <2>2 DEF FacadeRows
  <2> HIDE DEF S
  <2>6. facade' = n
    BY <2>4, <2>5, SameFields
  <2> QED BY <2>3, <2>6
<1>8. facade'.mode = facade.mode /\ facade'.awaiting = {} /\ facade'.nextId = 1
  BY <1>7 DEF Fresh
<1>9. FacadeOk(facade', core)
  BY <1>4, <1>7, <1>8, StartingQueues DEF FacadeOk, Modes
<1>10. loop.zeroed = FALSE /\ core \in CoreRows /\ facade.awaiting = {} /\ facade.nextId = 1
  BY <1>4, FacadeRanges DEF PlayInv, LoopOk, Zeroed, LoopRows
<1> QED BY <1>1, <1>2, <1>8, <1>9, <1>10, FacadeStep

LEMMA ObservesStep ==
  ASSUME PlayInv, WorkerObserves
  PROVE  PlayInv'
<1>1. /\ core' = core /\ loop' = loop /\ ctl' = ctl
      /\ facade.inbox # <<>> /\ Head(facade.inbox).type = "policySnapshot"
      /\ count' = count \/ count' = [count EXCEPT !.faults = count.faults + 1]
  BY DEF WorkerObserves, WorkerAnswer
<1>2. count' \in [frames : Nat, sessions : Nat, faults : Nat] /\ core \in CoreRows
  BY <1>1 DEF PlayInv
<1>3. facade.mode = "worker" /\ WorkerServed(facade, core) /\ Head(facade.inbox) \in Questions
  BY <1>1, Answering
<1>4. Head(facade.inbox).id \in Nat
  BY <1>1, <1>3 DEF Questions
<1>5. PICK answer \in Replies :
        /\ answer.type \notin {"stepped", "error"}
        /\ facade' = [facade EXCEPT !.inbox = Tail(@), !.outbox = Append(@, answer)]
  <2> DEFINE id == Head(facade.inbox).id
  <2>1. CASE \E reached \in BOOLEAN :
               WorkerAnswer("policySnapshot", [type |-> "policySnapshot", id |-> id, reached |-> reached])
    <3>1. PICK reached \in BOOLEAN :
               WorkerAnswer("policySnapshot", [type |-> "policySnapshot", id |-> id, reached |-> reached])
      BY <2>1
    <3> DEFINE answer == [type |-> "policySnapshot", id |-> id, reached |-> reached]
    <3>2. answer \in Replies /\ answer.type \notin {"stepped", "error"}
      BY <1>4 DEF Replies
    <3> HIDE DEF answer
    <3>3. facade' = [facade EXCEPT !.inbox = Tail(@), !.outbox = Append(@, answer)]
      BY <3>1 DEF WorkerAnswer, answer
    <3> QED BY <3>2, <3>3
  <2>2. CASE WorkerAnswer("policySnapshot", [type |-> "policySnapshotError", id |-> id])
    <3> DEFINE answer == [type |-> "policySnapshotError", id |-> id]
    <3>2. answer \in Replies /\ answer.type \notin {"stepped", "error"}
      BY <1>4 DEF Replies
    <3> HIDE DEF answer
    <3>3. facade' = [facade EXCEPT !.inbox = Tail(@), !.outbox = Append(@, answer)]
      BY <2>2 DEF WorkerAnswer, answer
    <3> QED BY <3>2, <3>3
  <2> QED BY <2>1, <2>2 DEF WorkerObserves
<1> DEFINE g == [facade EXCEPT !.inbox = Tail(@), !.outbox = Append(@, answer)]
<1>6. /\ g \in WorkerRows /\ g.awaiting = facade.awaiting /\ g.nextId = facade.nextId
      /\ WorkerServed(g, core) /\ (ZeroInv(facade, core) => ZeroInv(g, core))
  BY <1>1, <1>2, <1>3, <1>5, WorkServed
<1>7. facade' = g
  BY <1>5
<1> HIDE DEF g
<1>8. FacadeOk(g, core) /\ g.mode = "worker"
  BY <1>6 DEF FacadeOk, WorkerRows, Modes
<1>9. loop.zeroed => Zeroed(g, core)
  BY <1>3, <1>6, <1>8 DEF PlayInv, LoopOk, Zeroed
<1> QED BY <1>1, <1>2, <1>6, <1>7, <1>8, <1>9, FacadeStep

LEMMA StepsStep ==
  ASSUME PlayInv, WorkerSteps
  PROVE  PlayInv'
<1> DEFINE m == Head(facade.inbox)
<1>1. facade.inbox # <<>> /\ m.type = "step" /\ ctl' = ctl
  BY DEF WorkerSteps, WorkerAnswer
<1>2. facade.mode = "worker" /\ WorkerServed(facade, core) /\ m \in Questions /\ core \in CoreRows
  BY <1>1, Answering DEF PlayInv
<1>3. m.dt \in Nat \ {0} /\ m.input \in Inputs
  BY <1>1, <1>2 DEF Questions
<1>a. /\ core.asked \in Nat /\ core.advanced \in Nat /\ core.lost \in Nat /\ core.last \in Inputs
      /\ facade.queued.dt \in Nat
  BY <1>2 DEF CoreRows, WorkerServed, WorkerRows, Steps
<1>4. ASSUME NEW a \in {"stepped", "error"}
      PROVE  LET g == [facade EXCEPT !.inbox = Tail(@), !.outbox = Append(@, [type |-> a])]
             IN /\ g \in WorkerRows
                /\ g.awaiting = facade.awaiting /\ g.nextId = facade.nextId /\ g.queued = facade.queued
                /\ g.stepPending = TRUE /\ StepsOf(g.inbox) = {}
                /\ \A i \in DOMAIN g.outbox : g.outbox[i].type = "error" => core.lost # 0 \/ a = "error"
                /\ \E i \in DOMAIN g.outbox : StepAnswersOf(g.outbox) = {i}
                /\ core.asked = core.advanced + core.lost + facade.queued.dt + m.dt
                /\ ZeroInv(facade, core) /\ core.lost = 0 =>
                     /\ facade.queued.dt > 0 => facade.queued.input = "zero"
                     /\ facade.queued.dt = 0 => m.input = "zero"
  <2> DEFINE answer == [type |-> a]
  <2>1. answer \in Replies /\ answer.type = a
    BY DEF Replies
  <2> HIDE DEF answer
  <2> DEFINE g == [facade EXCEPT !.inbox = Tail(@), !.outbox = Append(@, answer)]
  <2>3. /\ g \in WorkerRows
        /\ g.awaiting = facade.awaiting /\ g.nextId = facade.nextId /\ g.queued = facade.queued
        /\ g.stepPending = facade.stepPending
    <3>1. g \in WorkerRows
      BY <1>1, <1>2, <2>1, WorkServed
    <3>2. facade \in WorkerRows
      BY <1>2 DEF WorkerServed
    <3>3. /\ g.awaiting = facade.awaiting /\ g.nextId = facade.nextId /\ g.queued = facade.queued
          /\ g.stepPending = facade.stepPending
      BY <3>2 DEF WorkerRows
    <3> QED BY <3>1, <3>3
  <2>4. \A i \in DOMAIN g.outbox : g.outbox[i].type = "error" => core.lost # 0 \/ answer.type = "error"
    <3>1. facade \in WorkerRows /\ FailedInv(facade, core)
      BY <1>2 DEF WorkerServed
    <3>2. facade.outbox \in Seq(Replies) /\ g.outbox = Append(facade.outbox, answer)
      BY <3>1 DEF WorkerRows
    <3>3. \A i \in DOMAIN g.outbox :
             \/ i \in DOMAIN facade.outbox /\ g.outbox[i] = facade.outbox[i]
             \/ g.outbox[i] = answer
      BY <3>2
    <3> HIDE DEF g
    <3> QED BY <3>1, <3>3 DEF FailedInv
  <2>2. /\ facade.stepPending = TRUE /\ StepsOf(g.inbox) = {}
        /\ \E i \in DOMAIN g.outbox : StepAnswersOf(g.outbox) = {i}
        /\ core.asked = core.advanced + core.lost + facade.queued.dt + m.dt
        /\ ZeroInv(facade, core) /\ core.lost = 0 =>
             /\ facade.queued.dt > 0 => facade.queued.input = "zero"
             /\ facade.queued.dt = 0 => m.input = "zero"
    BY <1>1, <1>2, <2>1, WorkServed
  <2> HIDE DEF m
  <2> QED BY <2>1, <2>2, <2>3, <2>4 DEF answer
<1> HIDE DEF m
<1>5. CASE /\ facade' = [facade EXCEPT !.inbox = Tail(@), !.outbox = Append(@, [type |-> "stepped"])]
           /\ core' = [core EXCEPT !.advanced = core.advanced + m.dt, !.last = m.input]
           /\ UNCHANGED <<count, loop>>
  <2> DEFINE g == [facade EXCEPT !.inbox = Tail(@), !.outbox = Append(@, [type |-> "stepped"])]
  <2>1. /\ g \in WorkerRows
        /\ g.awaiting = facade.awaiting /\ g.nextId = facade.nextId /\ g.queued = facade.queued
        /\ g.stepPending = TRUE /\ StepsOf(g.inbox) = {}
        /\ \A i \in DOMAIN g.outbox : g.outbox[i].type = "error" => core.lost # 0
        /\ \E i \in DOMAIN g.outbox : StepAnswersOf(g.outbox) = {i}
        /\ core.asked = core.advanced + core.lost + facade.queued.dt + m.dt
        /\ ZeroInv(facade, core) /\ core.lost = 0 =>
             /\ facade.queued.dt > 0 => facade.queued.input = "zero"
             /\ facade.queued.dt = 0 => m.input = "zero"
    BY <1>4
  <2>2. facade' = g
    BY <1>5
  <2> HIDE DEF g
  <2>3. /\ core' \in CoreRows /\ core'.asked = core.asked /\ core'.advanced = core.advanced + m.dt
        /\ core'.lost = core.lost /\ core'.last = m.input
    <3>1. core.advanced + m.dt \in Nat
      BY <1>3, <1>a
    <3> QED BY <1>2, <1>3, <1>5, <3>1 DEF CoreRows
  <2>4. core'.asked = core'.advanced + core'.lost + g.queued.dt
    BY <1>3, <1>a, <2>1, <2>3
  <2>5. WorkerServed(g, core')
    BY <2>1, <2>3, <2>4 DEF WorkerServed, ClockInv, HeldInv, FailedInv
  <2>6. FacadeOk(g, core') /\ g.mode = "worker"
    BY <2>1, <2>5 DEF FacadeOk, WorkerRows, Modes
  <2>7. loop.zeroed => Zeroed(g, core')
    BY <1>2, <2>1, <2>3, <2>6 DEF PlayInv, LoopOk, Zeroed, ZeroInv
  <2>8. count' \in [frames : Nat, sessions : Nat, faults : Nat]
    BY <1>5 DEF PlayInv
  <2> QED BY <1>1, <1>5, <2>1, <2>2, <2>3, <2>6, <2>7, <2>8, FacadeStep
<1>6. CASE /\ facade' = [facade EXCEPT !.inbox = Tail(@), !.outbox = Append(@, [type |-> "error"])]
           /\ core' = [core EXCEPT !.lost = core.lost + m.dt]
           /\ loop' = [loop EXCEPT !.zeroed = FALSE]
           /\ count' = [count EXCEPT !.faults = count.faults + 1]
  <2> DEFINE g == [facade EXCEPT !.inbox = Tail(@), !.outbox = Append(@, [type |-> "error"])]
  <2>1. /\ g \in WorkerRows
        /\ g.awaiting = facade.awaiting /\ g.nextId = facade.nextId /\ g.queued = facade.queued
        /\ g.stepPending = TRUE /\ StepsOf(g.inbox) = {}
        /\ \E i \in DOMAIN g.outbox : StepAnswersOf(g.outbox) = {i}
        /\ core.asked = core.advanced + core.lost + facade.queued.dt + m.dt
    BY <1>4
  <2>2. facade' = g
    BY <1>6
  <2> HIDE DEF g
  <2>3. /\ core' \in CoreRows /\ core'.asked = core.asked /\ core'.advanced = core.advanced
        /\ core'.lost = core.lost + m.dt /\ core'.lost # 0
    BY <1>2, <1>3, <1>6, <1>a DEF CoreRows
  <2>4. core'.asked = core'.advanced + core'.lost + g.queued.dt
    BY <1>3, <1>a, <2>1, <2>3
  <2>5. WorkerServed(g, core')
    BY <2>1, <2>3, <2>4 DEF WorkerServed, ClockInv, HeldInv, FailedInv
  <2>6. FacadeOk(g, core')
    BY <2>1, <2>5 DEF FacadeOk, WorkerRows, Modes
  <2>7. count' \in [frames : Nat, sessions : Nat, faults : Nat]
    BY <1>6 DEF PlayInv
  <2>8. CtlOk(g, ctl)
    BY <2>1, CtlSame DEF PlayInv
  <2>9. loop' \in LoopRows /\ LoopOk(g, core', ctl, loop')
    BY <1>6 DEF PlayInv, LoopRows, LoopOk
  <2>10. CtlOk(facade, ctl)' /\ LoopOk(facade, core, ctl, loop)' /\ FacadeOk(facade, core)'
    BY <1>1, <2>2, <2>6, <2>8, <2>9
  <2> QED BY <1>1, <2>3, <2>7, <2>9, <2>10 DEF PlayInv
<1> QED BY <1>5, <1>6 DEF WorkerSteps, WorkerAnswer, m

LEMMA CreationStep ==
  ASSUME PlayInv, ReceiveCreation \/ CreateLocal
  PROVE  PlayInv'
<1>1. /\ core' = core /\ loop' = loop /\ ctl' = ctl
      /\ count' = count \/ count' = [count EXCEPT !.faults = count.faults + 1]
  BY DEF ReceiveCreation, CreateLocal
<1>2. count' \in [frames : Nat, sessions : Nat, faults : Nat] /\ core \in CoreRows
  BY <1>1 DEF PlayInv
<1>3. /\ facade.mode \in {"loading", "patching", "fallback"} /\ facade.awaiting = {} /\ facade.nextId = 1
      /\ loop.zeroed = FALSE
  <2>1. facade.mode \in {"loading", "patching", "fallback"}
    BY DEF ReceiveCreation, CreateLocal
  <2> QED BY <2>1, FacadeRanges DEF PlayInv, LoopOk, LoopRows, Zeroed
<1>4. ASSUME NEW mode \in {"none", "fallback", "local"}, facade' = Fresh(mode) PROVE PlayInv'
  <2>1. facade'.mode = mode /\ facade'.awaiting = {} /\ facade'.nextId = 1
    BY <1>4 DEF Fresh
  <2>2. FacadeOk(facade', core)
    BY <1>4, <2>1 DEF FacadeOk, Modes
  <2> QED BY <1>1, <1>2, <1>3, <2>1, <2>2, FacadeStep
<1>5. CASE CreateLocal
  BY <1>4, <1>5 DEF CreateLocal
<1>6. CASE ReceiveCreation
  <2>1. CASE Head(facade.outbox).type # "created"
    BY <1>4, <1>6, <2>1 DEF ReceiveCreation
  <2>2. CASE Head(facade.outbox).type = "created"
    <3>1. /\ facade' = [Received EXCEPT !.mode = "worker"] /\ facade.mode \in {"loading", "patching"}
          /\ facade.outbox # <<>>
      BY <1>6, <2>2 DEF ReceiveCreation
    <3>2. PICK a \in {"created", "error"} : facade = [Fresh(facade.mode) EXCEPT !.outbox = <<[type |-> a]>>]
      <4>1. [Fresh(facade.mode) EXCEPT !.inbox = <<[type |-> "create"]>>].outbox = <<>>
        BY DEF Fresh
      <4> QED BY <3>1, <4>1, StartingQueues
    <3> DEFINE one == <<[type |-> a]>>
    <3>3. Tail(one) = <<>>
      OBVIOUS
    <3> HIDE DEF one
    <3>4. /\ facade.outbox = one /\ facade.inbox = <<>> /\ facade.stepPending = FALSE
          /\ facade.queued = NoStep /\ facade.awaiting = {} /\ facade.nextId = 1
      BY <3>2 DEF one, Fresh
    <3> DEFINE none == <<>>
               n == Fresh("worker")
               S == {facade.mode, "worker", none, one, FALSE, NoStep, {}, 1}
    <3>5. facade.inbox = none /\ facade \in FacadeRows(S)
      BY <3>2 DEF one, Fresh, FacadeRows
    <3>13. facade' = [[facade EXCEPT !.outbox = none] EXCEPT !.mode = "worker"]
      BY <3>1, <3>3, <3>4 DEF Received
    <3>12. /\ n.mode = "worker" /\ n.inbox = none /\ n.outbox = none /\ n.stepPending = FALSE
           /\ n.queued = NoStep /\ n.awaiting = {} /\ n.nextId = 1 /\ n \in FacadeRows(S)
      BY DEF Fresh, FacadeRows
    <3> HIDE DEF none, n
    <3>14. /\ facade'.mode = "worker" /\ facade'.inbox = none /\ facade'.outbox = none
           /\ facade'.stepPending = FALSE /\ facade'.queued = NoStep /\ facade'.awaiting = {}
           /\ facade'.nextId = 1 /\ facade' \in FacadeRows(S)
      BY <3>4, <3>5, <3>13 DEF FacadeRows
    <3> HIDE DEF S
    <3>15. facade' = n
      BY <3>12, <3>14, SameFields
    <3>6. facade' = Fresh("worker")
      BY <3>15 DEF n
    <3> DEFINE g == Fresh("worker")
    <3>7. /\ g.inbox = <<>> /\ g.outbox = <<>> /\ g.stepPending = FALSE /\ g.queued = NoStep
          /\ g.awaiting = {} /\ g.nextId = 1 /\ g \in WorkerRows /\ g.mode = "worker"
      BY DEF Fresh, WorkerRows, NoStep, Steps, Inputs
    <3> HIDE DEF g
    <3>8. StepsOf(g.inbox) = {} /\ StepAnswersOf(g.outbox) = {} /\ NoStep.dt = 0
      BY <3>7 DEF StepsOf, StepAnswersOf, NoStep
    <3>9. core.asked = 0 /\ core.advanced = 0 /\ core.lost = 0
      BY <3>1, StartingQueues
    <3>10. WorkerServed(g, core)
      BY <3>7, <3>8, <3>9 DEF WorkerServed, ClockInv, HeldInv, FailedInv
    <3>11. FacadeOk(g, core)
      BY <3>7, <3>10 DEF FacadeOk, Modes
    <3> QED BY <1>1, <1>2, <1>3, <3>6, <3>7, <3>11, FacadeStep DEF g
  <2> QED BY <2>1, <2>2
<1> QED BY <1>5, <1>6

-----------------------------------------------------------------------------
(* A frame *)

\* The controller that plays, after the frame that scheduled it and perhaps ended it.
LEMMA FrameChain ==
  ASSUME PlayConstants, PlayInv, NEW c \in Controllers, ctl[c].st = "live", NEW elapsed \in Nat,
         NEW over \in BOOLEAN
  PROVE  LET asks == Schedules(ctl[c], elapsed)
             begun == IF asks THEN Schedule(ctl[c], elapsed) ELSE ctl[c]
             ended == IF over THEN Dispose(begun) ELSE begun
             k == IF ended.at = "rejected" THEN Reject(ended) ELSE ended
         IN /\ k \in CtlRows /\ Sound(k) /\ k.at # "ask" /\ (~over => k.st = "live")
            /\ ~asks => k.at = ctl[c].at /\ k.id = ctl[c].id
            /\ asks => ctl[c].at # "snap"
            /\ asks /\ facade.mode = "worker" => k.at = "snap" /\ k.id = facade.nextId
            /\ asks /\ facade.mode # "worker" => k.at # "snap"
<1> DEFINE asks == Schedules(ctl[c], elapsed)
           begun == IF asks THEN Schedule(ctl[c], elapsed) ELSE ctl[c]
           ended == IF over THEN Dispose(begun) ELSE begun
           k == IF ended.at = "rejected" THEN Reject(ended) ELSE ended
<1>1. /\ ctl[c] \in CtlRows /\ Sound(ctl[c]) /\ ctl[c].at # "ask"
      /\ facade.nextId \in Nat /\ count.sessions \in Nat
  BY CtlNow, FacadeRanges DEF PlayInv
<1>2. CASE ~asks
  <2>1. /\ Dispose(ctl[c]) \in CtlRows /\ Dispose(ctl[c]).at = ctl[c].at
        /\ Dispose(ctl[c]).id = ctl[c].id /\ Sound(Dispose(ctl[c]))
    BY <1>1, DisposeSound
  <2>2. ctl[c].at # "rejected"
    BY <1>1 DEF Sound
  <2>3. ended \in {ctl[c], Dispose(ctl[c])} /\ (~over => ended = ctl[c])
    BY <1>2
  <2> HIDE DEF ended, asks
  <2>4. k = ended
    BY <2>1, <2>2, <2>3
  <2> HIDE DEF k
  <2> QED BY <1>1, <1>2, <2>1, <2>3, <2>4 DEF asks, begun, ended, k
<1>3. CASE asks
  <2>1. ctl[c].at = "idle" /\ ctl[c].failure = FALSE /\ ctl[c].released = FALSE
    BY <1>1, <1>3 DEF Schedules, Sound, CtlRows
  <2>2. begun = Schedule(ctl[c], elapsed)
    BY <1>3
  <2>3. elapsed + Period \in Nat
    BY DEF PlayConstants
  <2>4. /\ begun \in CtlRows /\ begun.st = "live" /\ begun.failure = FALSE /\ begun.released = FALSE
        /\ facade.mode = "worker" => begun.at = "snap" /\ begun.id = facade.nextId
        /\ facade.mode = "local" => begun.at = "local"
        /\ facade.mode \notin {"worker", "local"} => begun.at = "rejected"
    <3> DEFINE a == CASE facade.mode = "worker" -> "snap" [] facade.mode = "local" -> "local"
                      [] OTHER -> "rejected"
               i == IF facade.mode = "worker" THEN facade.nextId ELSE 0
               n == elapsed + Period
    <3>1. begun = [ctl[c] EXCEPT !.next = n, !.source = count.sessions, !.at = a, !.id = i]
      BY <2>2 DEF Schedule, Nobody
    <3>2. /\ a \in Places /\ i \in Nat /\ n \in Nat
          /\ facade.mode = "worker" => a = "snap" /\ i = facade.nextId
          /\ facade.mode = "local" => a = "local"
          /\ facade.mode \notin {"worker", "local"} => a = "rejected"
      BY <1>1, <2>3 DEF Places
    <3> HIDE DEF a, i, n, begun
    <3>3. /\ begun \in CtlRows /\ begun.st = ctl[c].st /\ begun.failure = ctl[c].failure
          /\ begun.released = ctl[c].released /\ begun.at = a /\ begun.id = i
      BY <1>1, <3>1, <3>2 DEF CtlRows
    <3> QED BY <2>1, <3>2, <3>3
  <2>a. begun.at \in {"snap", "local", "rejected"}
    BY <2>4
  <2> HIDE DEF begun
  <2>5. /\ ended \in CtlRows /\ ended.at = begun.at /\ ended.id = begun.id /\ ended.released = FALSE
        /\ ~over => ended = begun
        /\ over => ended.st = "disposed" /\ ended.failure = FALSE
    BY <2>4, <2>a DEF Dispose, Zero, CtlRows, CtlStages, Inputs
  <2>6. CASE begun.at = "rejected"
    <3>1. k = Reject(ended)
      BY <2>5, <2>6
    <3>2. ended.st \in {"live", "disposed"}
      BY <2>4, <2>5
    <3> HIDE DEF ended, k
    <3>3. k = Fail(ended)
      BY <3>1, <3>2 DEF Fail
    <3>4. /\ Fail(ended) \in CtlRows /\ Sound(Fail(ended)) /\ Fail(ended).at = "idle"
          /\ ended.st = "live" => Fail(ended).st = "live"
      BY <2>5, <3>2, FailSound DEF Chained3
    <3>5. facade.mode # "worker"
      BY <2>4, <2>6
    <3>6. /\ k \in CtlRows /\ Sound(k) /\ k.at = "idle" /\ (~over => k.st = "live")
      BY <2>4, <2>5, <3>3, <3>4
    <3> HIDE DEF asks
    <3>7. asks /\ ctl[c].at # "snap"
      BY <1>3, <2>1
    <3> QED BY <3>5, <3>6, <3>7 DEF asks, k, ended, begun
  <2>7. CASE begun.at # "rejected"
    <3>1. k = ended
      BY <2>5, <2>7
    <3> HIDE DEF ended, k
    <3>2. Sound(k)
      BY <2>4, <2>5, <2>7, <2>a, <3>1 DEF Sound
    <3>3. /\ k \in CtlRows /\ k.at # "ask" /\ (~over => k.st = "live")
          /\ facade.mode = "worker" => k.at = "snap" /\ k.id = facade.nextId
          /\ facade.mode # "worker" => k.at # "snap"
      BY <2>4, <2>5, <2>7, <3>1
    <3> HIDE DEF asks
    <3>4. asks /\ ctl[c].at # "snap"
      BY <1>3, <2>1
    <3> QED BY <3>2, <3>3, <3>4 DEF asks, k, ended, begun
  <2> QED BY <2>6, <2>7
<1> QED BY <1>2, <1>3

\* A controller that keeps its place and its request.
LEMMA SamePlace ==
  ASSUME PlayInv, NEW c \in Controllers, NEW k \in CtlRows, Sound(k), k.at # "ask",
         k.at = ctl[c].at, k.id = ctl[c].id
  PROVE  CtlOk(facade, [ctl EXCEPT ![c] = k]) /\ [ctl EXCEPT ![c] = k] \in [Controllers -> CtlRows]
<1> DEFINE n == [ctl EXCEPT ![c] = k]
<1>1. /\ n \in [Controllers -> CtlRows]
      /\ \A d \in Controllers : n[d].at = ctl[d].at /\ n[d].id = ctl[d].id
      /\ \A d \in Controllers : Sound(n[d]) /\ n[d].at # "ask"
  BY CtlNow
<1> HIDE DEF n
<1>2. CtlOk(facade, n)
  BY <1>1 DEF PlayInv, CtlOk, Tracked
<1> QED BY <1>1, <1>2 DEF n

LEMMA FrameStep ==
  ASSUME PlayConstants, PlayInv, NEW dt \in 0..1, Frame(dt)
  PROVE  PlayInv'
<1> DEFINE c == loop.playing
           elapsed == loop.elapsed + dt
           asks == c # Nobody /\ Schedules(ctl[c], elapsed)
           over == c # Nobody /\ (ctl[c].failure \/ elapsed >= Duration)
           input == IF c = Nobody THEN "sticks" ELSE IF over THEN "zero" ELSE ctl[c].input
           observed == IF asks /\ facade.mode = "worker" THEN RequestSnapshot(facade) ELSE facade
           begun == IF asks THEN Schedule(ctl[c], elapsed) ELSE ctl[c]
           ended == IF over THEN Dispose(begun) ELSE begun
           k == IF ended.at = "rejected" THEN Reject(ended) ELSE ended
<1>1. /\ loop.driving = TRUE /\ facade.mode \in {"worker", "local", "patching"}
      /\ count' = [count EXCEPT !.frames = count.frames + 1]
      /\ facade' = IF dt > 0 /\ facade.mode = "worker" THEN DispatchStep(observed, dt, input) ELSE observed
      /\ core' = [core EXCEPT !.asked = core.asked + (IF Live THEN dt ELSE 0),
                              !.advanced = core.advanced + (IF facade.mode = "local" THEN dt ELSE 0),
                              !.last = IF dt > 0 /\ facade.mode = "local" THEN input ELSE core.last]
      /\ ctl' = IF c = Nobody THEN ctl ELSE [ctl EXCEPT ![c] = k]
      /\ loop' = IF c = Nobody THEN loop
                 ELSE IF over THEN [playing |-> Nobody, elapsed |-> 0, driving |-> FALSE,
                                    zeroed |-> dt > 0 /\ Live]
                 ELSE [loop EXCEPT !.elapsed = elapsed]
  BY DEF Frame, PlayInv, LoopRows
<1>2. count' \in [frames : Nat, sessions : Nat, faults : Nat]
  BY <1>1 DEF PlayInv
<1>3. /\ dt \in Nat /\ elapsed \in Nat /\ loop \in LoopRows /\ core \in CoreRows
      /\ core.asked \in Nat /\ core.advanced \in Nat /\ core.lost \in Nat /\ core.last \in Inputs
      /\ c # Nobody => c \in Controllers /\ ctl[c].st = "live"
      /\ loop.zeroed = FALSE /\ over \in BOOLEAN /\ elapsed >= 0
  BY <1>1 DEF PlayInv, LoopRows, CoreRows, LoopOk
<1>4. c # Nobody => /\ k \in CtlRows /\ Sound(k) /\ k.at # "ask" /\ (~over => k.st = "live")
                    /\ ~asks => k.at = ctl[c].at /\ k.id = ctl[c].id
                    /\ asks => ctl[c].at # "snap"
                    /\ asks /\ facade.mode = "worker" => k.at = "snap" /\ k.id = facade.nextId
                    /\ asks /\ facade.mode # "worker" => k.at # "snap"
  <2> HIDE DEF over, elapsed
  <2> SUFFICES ASSUME c # Nobody
               PROVE  /\ k \in CtlRows /\ Sound(k) /\ k.at # "ask" /\ (~over => k.st = "live")
                      /\ ~asks => k.at = ctl[c].at /\ k.id = ctl[c].id
                      /\ asks => ctl[c].at # "snap"
                      /\ asks /\ facade.mode = "worker" => k.at = "snap" /\ k.id = facade.nextId
                      /\ asks /\ facade.mode # "worker" => k.at # "snap"
    OBVIOUS
  <2>1. asks = Schedules(ctl[c], elapsed)
    BY DEF Schedules
  <2> QED BY <1>3, <2>1, FrameChain
<1>5. input \in Inputs
  BY <1>3 DEF PlayInv, CtlRows, Inputs
<1>6. over => input = "zero"
  OBVIOUS
<1>a. asks => c # Nobody
  OBVIOUS
<1> HIDE DEF k, ended, begun, asks, over, input, elapsed
<1>7. asks /\ facade.mode = "worker" =>
        /\ WorkerServed(observed, core) /\ observed.awaiting = facade.awaiting \cup {facade.nextId}
        /\ observed.nextId = facade.nextId + 1
  BY RequestServed DEF PlayInv, FacadeOk
<1>8. ~(asks /\ facade.mode = "worker") => observed = facade
  OBVIOUS
<1> HIDE DEF observed
<1>9. FacadeOk(facade, core) /\ observed.mode = facade.mode
      /\ (facade.mode = "worker" => WorkerServed(observed, core))
  BY <1>7, <1>8 DEF PlayInv, FacadeOk, WorkerServed, WorkerRows
<1>10. /\ core' \in CoreRows /\ core'.lost = core.lost
       /\ core'.asked = core.asked + (IF Live THEN dt ELSE 0)
       /\ core'.advanced = core.advanced + (IF facade.mode = "local" THEN dt ELSE 0)
       /\ core'.last = IF dt > 0 /\ facade.mode = "local" THEN input ELSE core.last
  <2> DEFINE x == core.asked + (IF Live THEN dt ELSE 0)
             y == core.advanced + (IF facade.mode = "local" THEN dt ELSE 0)
             z == IF dt > 0 /\ facade.mode = "local" THEN input ELSE core.last
  <2>1. x \in Nat /\ y \in Nat /\ z \in Inputs
    BY <1>3, <1>5
  <2>2. core' = [core EXCEPT !.asked = x, !.advanced = y, !.last = z]
    BY <1>1
  <2> HIDE DEF x, y, z
  <2>3. core' \in CoreRows /\ core'.lost = core.lost /\ core'.asked = x /\ core'.advanced = y /\ core'.last = z
    BY <1>3, <2>1, <2>2 DEF CoreRows
  <2> QED BY <2>3 DEF x, y, z
<1>11. /\ FacadeOk(facade', core') /\ facade'.awaiting = observed.awaiting
       /\ facade'.nextId = observed.nextId /\ facade'.mode = facade.mode
       /\ facade.mode = "worker" /\ dt > 0 /\ over => ZeroInv(facade', core')
  <2>1. CASE facade.mode = "worker" /\ dt > 0
    <3>1. core'.asked = core.asked + dt /\ core'.advanced = core.advanced
      BY <1>3, <1>10, <2>1 DEF Live
    <3> DEFINE g == DispatchStep(observed, dt, input)
               j == core'
    <3>2. j \in CoreRows /\ j.asked = core.asked + dt /\ j.advanced = core.advanced /\ j.lost = core.lost
      BY <1>10, <3>1
    <3> HIDE DEF j
    <3>3. /\ WorkerServed(g, j) /\ (input = "zero" => ZeroInv(g, j))
          /\ g.awaiting = observed.awaiting /\ g.nextId = observed.nextId
      BY <1>3, <1>5, <1>9, <2>1, <3>2, DispatchServed
    <3>4. facade' = g
      BY <1>1, <2>1
    <3> HIDE DEF g
    <3>5. FacadeOk(g, j) /\ g.mode = "worker"
      BY <3>3 DEF FacadeOk, WorkerServed, WorkerRows, Modes
    <3> QED BY <1>6, <2>1, <3>3, <3>4, <3>5 DEF j
  <2>2. CASE ~(facade.mode = "worker" /\ dt > 0)
    <3>1. facade' = observed
      BY <1>1, <2>2
    <3>2. facade.mode # "local" =>
            core'.asked = core.asked /\ core'.advanced = core.advanced /\ core'.last = core.last
      BY <1>1, <1>3, <1>10, <2>2 DEF Live
    <3>3. CASE facade.mode = "worker"
      <4>1. WorkerServed(observed, core')
        BY <1>9, <1>10, <3>2, <3>3 DEF WorkerServed, ClockInv, HeldInv, FailedInv
      <4>2. FacadeOk(observed, core')
        BY <1>9, <3>3, <4>1 DEF FacadeOk, Modes
      <4> QED BY <1>9, <2>2, <3>1, <3>3, <4>2
    <3>4. CASE facade.mode # "worker"
      <4>1. observed = facade
        BY <1>8, <3>4
      <4>2. FacadeOk(facade, core')
        BY <1>1, <1>9, <1>10, <3>2, <3>4 DEF FacadeOk
      <4> QED BY <3>1, <3>4, <4>1, <4>2
    <3> QED BY <3>3, <3>4
  <2> QED BY <2>1, <2>2
<1>b. /\ facade.nextId \in Nat \ {0} /\ facade.awaiting \subseteq Nat
      /\ \A i \in facade.awaiting : i \in Nat /\ 1 <= i /\ i < facade.nextId
  BY FacadeRanges DEF PlayInv, CtlOk
<1>12. CtlOk(facade', ctl') /\ ctl' \in [Controllers -> CtlRows]
  <2>1. CASE c = Nobody
    <3>1. observed = facade
      BY <1>8, <1>a, <2>1
    <3> QED BY <1>1, <1>11, <2>1, <3>1, CtlSame DEF PlayInv
  <2>2. CASE c # Nobody
    <3>1. ctl' = [ctl EXCEPT ![c] = k] /\ c \in Controllers
      BY <1>1, <1>3, <2>2
    <3>2. CtlOk(observed, [ctl EXCEPT ![c] = k]) /\ [ctl EXCEPT ![c] = k] \in [Controllers -> CtlRows]
      <4> HIDE DEF c
      <4>1. CASE ~asks
        BY <1>4, <1>8, <2>2, <3>1, <4>1, SamePlace
      <4>2. CASE asks
        <5>1. TrackedBut(facade.awaiting, ctl, c)
          BY <1>4, <2>2, <3>1, <4>2, Untrack DEF PlayInv, CtlOk
        <5>2. \/ k.at # "snap" /\ observed = facade
              \/ /\ k.at = "snap" /\ k.id = facade.nextId
                 /\ observed.awaiting = facade.awaiting \cup {facade.nextId}
                 /\ observed.nextId = facade.nextId + 1
          BY <1>4, <1>7, <1>8, <2>2, <4>2
        <5> QED BY <1>4, <1>b, <2>2, <3>1, <5>1, <5>2, CtlNow, OneChanged
      <4> QED BY <4>1, <4>2
    <3> QED BY <1>11, <3>1, <3>2, CtlSame
  <2> QED BY <2>1, <2>2
<1>13. loop' \in LoopRows /\ LoopOk(facade', core', ctl', loop')
  <2>1. CASE c = Nobody
    <3>1. loop' = loop
      BY <1>1, <2>1
    <3> QED BY <1>3, <2>1, <3>1 DEF LoopOk
  <2>2. CASE c # Nobody /\ over
    <3>1. loop' = [playing |-> 0, elapsed |-> 0, driving |-> FALSE, zeroed |-> dt > 0 /\ Live]
      BY <1>1, <2>2 DEF Nobody
    <3>2. loop' \in LoopRows /\ loop'.playing = 0 /\ loop'.driving = FALSE
          /\ (loop'.zeroed => dt > 0 /\ Live)
      BY <3>1 DEF LoopRows
    <3>3. ASSUME dt > 0, Live PROVE Zeroed(facade', core')
      BY <1>3, <1>6, <1>10, <1>11, <2>2, <3>3 DEF Zeroed, Live
    <3> QED BY <3>2, <3>3 DEF LoopOk, Nobody
  <2>3. CASE c # Nobody /\ ~over
    <3>1. /\ loop' = [loop EXCEPT !.elapsed = elapsed] /\ ctl' = [ctl EXCEPT ![c] = k]
          /\ c \in Controllers /\ k.st = "live"
      BY <1>1, <1>3, <1>4, <2>3
    <3>2. loop' \in LoopRows /\ loop'.playing = c /\ loop'.zeroed = FALSE
      BY <1>3, <3>1 DEF LoopRows
    <3>3. ctl'[c].st = "live"
      BY <3>1 DEF PlayInv
    <3> QED BY <3>1, <3>2, <3>3 DEF LoopOk
  <2> QED BY <2>1, <2>2, <2>3
<1>14. CtlOk(facade, ctl)' /\ LoopOk(facade, core, ctl, loop)' /\ FacadeOk(facade, core)'
  BY <1>11, <1>12, <1>13
<1> QED BY <1>2, <1>10, <1>12, <1>13, <1>14 DEF PlayInv

LEMMA PlayInvInit == PlayConstants /\ PlayInit => PlayInv
<1> SUFFICES ASSUME PlayConstants, PlayInit PROVE PlayInv
  OBVIOUS
<1>1. NotCreated \in CtlRows /\ Sound(NotCreated) /\ NotCreated.at = "idle" /\ NotCreated.st = "unused"
  BY DEF NotCreated, CtlRows, Sound, CtlStages, Places, Inputs, Nobody
<1>2. ctl \in [Controllers -> CtlRows] /\ \A c \in Controllers : ctl[c] = NotCreated
  BY <1>1 DEF PlayInit
<1>3. core \in CoreRows /\ loop \in LoopRows /\ count \in [frames : Nat, sessions : Nat, faults : Nat]
  BY DEF PlayInit, CoreRows, LoopRows, Inputs, Nobody
<1>4. facade.mode = "none" /\ facade.awaiting = {} /\ facade = Fresh(facade.mode)
  BY DEF PlayInit, Fresh
<1>5. FacadeOk(facade, core)
  BY <1>4 DEF FacadeOk, Modes
<1>6. CtlOk(facade, ctl)
  BY <1>1, <1>2, <1>4 DEF CtlOk, Tracked
<1>7. LoopOk(facade, core, ctl, loop)
  BY DEF PlayInit, LoopOk
<1> QED BY <1>2, <1>3, <1>5, <1>6, <1>7 DEF PlayInv

LEMMA PlayInvStep ==
  ASSUME PlayConstants, PlayInv, [PlayNext]_playVars
  PROVE  PlayInv'
<1>1. CASE UNCHANGED playVars
  BY <1>1 DEF playVars, PlayInv
<1>2. CASE PlayNext
  BY <1>2, SessionStep, CreationStep, CreatesStep, StepsStep, ObservesStep, ResponseStep, TimeoutStep,
     StartStep, PromiseStep, TakeOverStep, RefusalReported, DrivingStep, FrameStep DEF PlayNext
<1> QED BY <1>1, <1>2

LEMMA ClockMeaning == ASSUME PlayInv PROVE ClockConserved
<1> SUFFICES ASSUME facade.mode = "worker" PROVE ClockConserved
  BY DEF ClockConserved
<1> DEFINE steps == Queued(facade.inbox, {"step"})
           answers == Queued(facade.outbox, {"stepped", "error"})
           first == CHOOSE i \in steps : TRUE
<1>1. ClockInv(facade, core) /\ facade.stepPending \in BOOLEAN
  BY DEF PlayInv, FacadeOk, WorkerServed, WorkerRows
<1>2. steps = StepsOf(facade.inbox) /\ answers = StepAnswersOf(facade.outbox)
  BY DEF Queued, StepsOf, StepAnswersOf
<1>3. /\ core.asked \in Nat /\ core.advanced \in Nat /\ core.lost \in Nat
      /\ facade.queued.dt \in Nat
  BY DEF PlayInv, CoreRows, FacadeOk, WorkerServed, WorkerRows, Steps
<1>4. \A i : steps = {i} => first = i
  OBVIOUS
<1> HIDE DEF steps, answers, first
<1>5. /\ steps = {} => Cardinality(steps) = 0
      /\ answers = {} => Cardinality(answers) = 0
      /\ \A i : steps = {i} => Cardinality(steps) = 1
      /\ \A i : answers = {i} => Cardinality(answers) = 1
  BY FS_EmptySet, FS_Singleton
<1>6. /\ Cardinality(steps) + Cardinality(answers) = (IF facade.stepPending THEN 1 ELSE 0)
      /\ core.asked = core.advanced + core.lost + facade.queued.dt
           + (IF steps = {} THEN 0 ELSE facade.inbox[first].dt)
  <2>1. CASE /\ facade.stepPending = FALSE /\ steps = {} /\ answers = {}
             /\ core.asked = core.advanced + core.lost + facade.queued.dt
    BY <1>3, <1>5, <2>1
  <2>2. CASE /\ facade.stepPending = TRUE /\ answers = {}
             /\ \E i \in DOMAIN facade.inbox :
                  /\ steps = {i}
                  /\ core.asked = core.advanced + core.lost + facade.queued.dt + facade.inbox[i].dt
    <3>1. PICK i \in DOMAIN facade.inbox :
             /\ steps = {i}
             /\ core.asked = core.advanced + core.lost + facade.queued.dt + facade.inbox[i].dt
      BY <2>2
    <3>2. steps # {} /\ first = i /\ Cardinality(steps) = 1 /\ Cardinality(answers) = 0
      BY <1>4, <1>5, <2>2, <3>1
    <3> QED BY <2>2, <3>1, <3>2
  <2>3. CASE /\ facade.stepPending = TRUE /\ steps = {}
             /\ \E i \in DOMAIN facade.outbox : answers = {i}
             /\ core.asked = core.advanced + core.lost + facade.queued.dt
    <3>1. PICK i \in DOMAIN facade.outbox : answers = {i}
      BY <2>3
    <3>2. Cardinality(steps) = 0 /\ Cardinality(answers) = 1
      BY <1>5, <2>3, <3>1
    <3> QED BY <1>3, <2>3, <3>2
  <2> QED BY <1>1, <1>2, <2>1, <2>2, <2>3 DEF ClockInv
<1> QED BY <1>6 DEF ClockConserved, steps, answers, first

LEMMA EndMeaning == ASSUME PlayInv PROVE EndedMeansZero
<1> SUFFICES ASSUME loop.zeroed, core.lost = 0, ~facade.stepPending, Live
             PROVE  core.last = "zero" /\ facade.queued.dt = 0
  BY DEF EndedMeansZero
<1>1. Zeroed(facade, core) /\ FacadeOk(facade, core)
  BY DEF PlayInv, LoopOk
<1>2. CASE facade.mode = "local"
  <2>1. facade = Fresh("local")
    BY <1>1, <1>2 DEF FacadeOk
  <2> QED BY <1>1, <1>2, <2>1 DEF Zeroed, Fresh, NoStep
<1>3. CASE facade.mode = "worker"
  <2>1. ZeroInv(facade, core) /\ WorkerServed(facade, core)
    BY <1>1, <1>3 DEF Zeroed, FacadeOk
  <2>2. facade.queued.dt \in Nat /\ facade.stepPending \in BOOLEAN
    BY <2>1 DEF WorkerServed, WorkerRows, Steps
  <2>3. facade.queued.dt = 0
    BY <2>1, <2>2 DEF WorkerServed, HeldInv
  <2>4. StepsOf(facade.inbox) = {}
    BY <2>1, <2>2 DEF WorkerServed, ClockInv
  <2> QED BY <2>1, <2>3, <2>4 DEF ZeroInv
<1> QED BY <1>2, <1>3 DEF Live

LEMMA PlayInvMeaning == ASSUME PlayConstants, PlayInv PROVE PlayTypeOK /\ PlaybackSafe
<1>1. CtlOk(facade, ctl) /\ LoopOk(facade, core, ctl, loop) /\ FacadeOk(facade, core)
  BY DEF PlayInv
<1>2. \A c \in Controllers : ctl[c] \in CtlRows /\ Sound(ctl[c]) /\ ctl[c].at # "ask"
  BY <1>1 DEF PlayInv, CtlOk
<1>3. PlayTypeOK
  <2>1. /\ core.last \in Inputs /\ loop.playing \in Controllers \cup {Nobody}
        /\ facade.mode \in {"none", "loading", "patching", "fallback", "worker", "local"}
    BY <1>1 DEF PlayInv, CoreRows, LoopOk, FacadeOk, Modes
  <2>2. /\ facade.queued.input \in Inputs /\ facade.awaiting \in SUBSET Nat
        /\ facade.nextId \in Nat
    <3>1. facade.nextId \in Nat \ {0} /\ facade.awaiting \in SUBSET Nat
      BY <1>1, FacadeRanges
    <3>2. CASE facade.mode = "worker"
      BY <1>1, <3>1, <3>2 DEF FacadeOk, WorkerServed, WorkerRows, Steps
    <3>3. CASE facade.mode \in {"none", "fallback", "local"}
      BY <1>1, <3>1, <3>3 DEF FacadeOk, Fresh, NoStep, Inputs
    <3>4. CASE facade.mode \in {"loading", "patching"}
      <4>1. Post(Fresh(facade.mode), [type |-> "create"]).queued = NoStep
        BY DEF Post, Fresh
      <4>2. \A a : [Fresh(facade.mode) EXCEPT !.outbox = Append(@, [type |-> a])].queued = NoStep
        BY DEF Fresh
      <4>3. facade.queued = NoStep
        BY <1>1, <3>4, <4>1, <4>2 DEF FacadeOk
      <4> QED BY <3>1, <4>3 DEF NoStep, Inputs
    <3> QED BY <1>1, <3>2, <3>3, <3>4 DEF FacadeOk, Modes
  <2>3. facade.awaiting \subseteq 1..facade.nextId
    BY <1>1, <2>2 DEF CtlOk
  <2>4. ASSUME NEW c \in Controllers
        PROVE  /\ ctl[c].st \in {"unused", "creating", "live", "disposed", "refusing", "refused"}
               /\ ctl[c].at \in {"idle", "snap", "local", "prep", "run", "created"}
    BY <1>2 DEF CtlRows, Sound, CtlStages, Places
  <2> QED BY <2>1, <2>2, <2>3, <2>4 DEF PlayTypeOK
<1>4. ObservationsTracked
  BY <1>1 DEF CtlOk, Tracked, ObservationsTracked
<1>5. RuntimeReleasedWhenQuiet
  BY <1>2 DEF RuntimeReleasedWhenQuiet, Sound
<1>6. OnlyLiveControllerPlays
  BY <1>1, <1>2 DEF OnlyLiveControllerPlays, LoopOk, Sound
<1> QED BY <1>3, <1>4, <1>5, <1>6, ClockMeaning, EndMeaning DEF PlaybackSafe

\* PlaybackSafe: no time of a playback is lost or run twice, every chain that waits has a request
\* that is tracked, a runtime is released once and only when quiet, an ended playback leaves the
\* core at zero and a disposed controller plays nothing, for any controllers, sessions, frames and
\* faults (wasm.ts, policyRuntime.ts, App.tsx onFrame).
THEOREM PlaybackIsSafe ==
  ASSUME PlayConstants PROVE PlaySpec => [](PlayTypeOK /\ PlaybackSafe)
<1>1. PlayInit => PlayInv
  BY PlayInvInit
<1>2. PlayInv /\ [PlayNext]_playVars => PlayInv'
  BY PlayInvStep
<1>3. PlayInv => PlayTypeOK /\ PlaybackSafe
  BY PlayInvMeaning
<1> QED BY <1>1, <1>2, <1>3, PTL DEF PlaySpec

-----------------------------------------------------------------------------
(* The ghost replay *)

Entries == [time : Int, point : Int]
Samples == [time : Int, actual : Int, predicted : Int, divergence : Int]

\* Overlays as they are stored; windows, when there is one, bound the impact.
ReplayConstants ==
    /\ TicksPerSecond \in Nat /\ MaxElapsed \in Nat /\ NoRecord \notin Payloads
    /\ \A p \in Payloads :
         /\ p.overlay # NoRecord =>
              /\ p.overlay.startS \in Int /\ p.overlay.endS \in Int
              /\ p.overlay.points \in Seq(Samples) /\ p.overlay.seekIndex \in Seq(Entries)
         /\ p.window # NoRecord =>
              p.window.startS \in Int /\ p.window.impactS \in Int /\ p.window.endS \in Int

\* Where each time is later than the one before, a later index has a later time.
LEMMA Increasing ==
  ASSUME NEW q, NEW n \in Nat, \A i \in 1..n : q[i].time \in Int,
         \A i \in 2..n : q[i].time > q[i - 1].time
  PROVE  \A i, j \in 1..n : i < j => q[i].time < q[j].time
<1> SUFFICES ASSUME NEW i \in 1..n, NEW j \in 1..n, i < j, ~(q[i].time < q[j].time) PROVE FALSE
  OBVIOUS
<1> DEFINE T == {k \in 1..n : i < k /\ ~(q[i].time < q[k].time)}
<1>0. T \subseteq Nat /\ T # {}
  OBVIOUS
<1>1. PICK k \in T : \A m \in T : k <= m
  BY <1>0, LeastOf
<1>2. k \in 2..n /\ k - 1 \in 1..n /\ q[k].time > q[k - 1].time
  BY <1>1
<1>3. CASE k - 1 = i
  BY <1>1, <1>2, <1>3
<1>4. CASE k - 1 # i
  <2>1. k - 1 \notin T /\ i < k - 1
    BY <1>1, <1>2, <1>4
  <2>2. q[i].time < q[k - 1].time
    BY <1>2, <2>1
  <2>3. q[i].time \in Int /\ q[k].time \in Int /\ q[k - 1].time \in Int
    BY <1>2
  <2> QED BY <1>1, <1>2, <2>2, <2>3
<1> QED BY <1>3, <1>4

-----------------------------------------------------------------------------
(* The search *)

\* r is the last index of lo..top at or before t, lo when there is none.
LastUpTo(q, lo, top, t, r) ==
    /\ r \in lo..top /\ (r = lo \/ q[r].time <= t)
    /\ \A j \in lo..top : j > r => q[j].time > t

LEMMA LastExists ==
  ASSUME NEW q, NEW lo \in Int, NEW top \in Int, lo <= top, NEW t \in Int,
         \A i \in lo..top : q[i].time \in Int
  PROVE  \E r \in lo..top : LastUpTo(q, lo, top, t, r)
<1> DEFINE T == {d \in Nat : top - d \in lo..top /\ (top - d = lo \/ q[top - d].time <= t)}
<1>1. top - lo \in T
  OBVIOUS
<1>2. PICK d \in T : \A m \in T : d <= m
  BY <1>1, LeastOf
<1>3. ASSUME NEW j \in lo..top, j > top - d PROVE q[j].time > t
  <2>1. top - j \in Nat /\ top - (top - j) = j /\ ~(d <= top - j)
    BY <1>2, <1>3
  <2>2. top - j \notin T
    BY <1>2, <2>1
  <2>3. ~(q[j].time <= t) /\ q[j].time \in Int
    BY <2>1, <2>2
  <2> QED BY <2>3
<1>4. LastUpTo(q, lo, top, t, top - d)
  BY <1>2, <1>3 DEF LastUpTo
<1> QED BY <1>2, <1>4

LEMMA LastUnique ==
  ASSUME NEW q, NEW lo \in Int, NEW top \in Int, NEW t \in Int,
         \A i \in lo..top : q[i].time \in Int,
         NEW r, NEW s, LastUpTo(q, lo, top, t, r), LastUpTo(q, lo, top, t, s)
  PROVE  r = s
<1>1. r \in lo..top /\ s \in lo..top
  BY DEF LastUpTo
<1>2. ASSUME NEW a \in lo..top, NEW b \in lo..top, LastUpTo(q, lo, top, t, a),
             LastUpTo(q, lo, top, t, b), a < b
      PROVE  FALSE
  <2>1. q[b].time > t /\ q[b].time <= t /\ q[b].time \in Int
    BY <1>2 DEF LastUpTo
  <2> QED BY <2>1
<1> QED BY <1>1, <1>2

\* One turn of the loop keeps the index that is searched for.
LEMMA LastHalved ==
  ASSUME NEW q, NEW lo \in Int, NEW width \in Nat \ {0}, NEW t \in Int,
         \A i \in lo..(lo + width) : q[i].time \in Int,
         \A i, j \in lo..(lo + width) : i < j => q[i].time < q[j].time,
         NEW half, half = (width + 1) \div 2
  PROVE  /\ half \in 1..width
         /\ q[lo + half].time <= t =>
              \A r : LastUpTo(q, lo + half, lo + width, t, r) => LastUpTo(q, lo, lo + width, t, r)
         /\ ~(q[lo + half].time <= t) =>
              \A r : LastUpTo(q, lo, lo + half - 1, t, r) => LastUpTo(q, lo, lo + width, t, r)
<1>1. half \in 1..width
  OBVIOUS
<1>2. ASSUME q[lo + half].time <= t, NEW r, LastUpTo(q, lo + half, lo + width, t, r)
      PROVE  LastUpTo(q, lo, lo + width, t, r)
  <2>1. r \in (lo + half)..(lo + width) /\ q[r].time <= t
    BY <1>1, <1>2 DEF LastUpTo
  <2>2. \A j \in lo..(lo + width) : j > r => q[j].time > t
    <3>1. \A j \in lo..(lo + width) : j > r => j \in (lo + half)..(lo + width)
      BY <1>1, <2>1
    <3> QED BY <1>2, <3>1 DEF LastUpTo
  <2> QED BY <1>1, <2>1, <2>2 DEF LastUpTo
<1>3. ASSUME ~(q[lo + half].time <= t), NEW r, LastUpTo(q, lo, lo + half - 1, t, r)
      PROVE  LastUpTo(q, lo, lo + width, t, r)
  <2>1. r \in lo..(lo + half - 1) /\ (r = lo \/ q[r].time <= t)
    BY <1>1, <1>3 DEF LastUpTo
  <2>2. ASSUME NEW j \in lo..(lo + width), j > r PROVE q[j].time > t
    <3>1. lo + half \in lo..(lo + width) /\ q[lo + half].time \in Int /\ q[j].time \in Int
      BY <1>1
    <3>2. CASE j <= lo + half - 1
      <4>1. j \in lo..(lo + half - 1)
        BY <1>1, <2>2, <3>2
      <4> QED BY <1>3, <2>2, <4>1 DEF LastUpTo
    <3>3. CASE j = lo + half
      BY <1>3, <3>1, <3>3
    <3>4. CASE j > lo + half
      <4>1. q[lo + half].time < q[j].time
        BY <3>1, <3>4
      <4> QED BY <1>3, <3>1, <4>1
    <3> QED BY <1>1, <3>2, <3>3, <3>4
  <2> QED BY <1>1, <2>1, <2>2 DEF LastUpTo
<1> QED BY <1>1, <1>2, <1>3

LEMMA SearchFinds ==
  ASSUME NEW q, NEW from \in Int, NEW to \in Int, from <= to, NEW t \in Int,
         \A i \in from..to : q[i].time \in Int,
         \A i, j \in from..to : i < j => q[i].time < q[j].time
  PROVE  LastUpTo(q, from, to, t, searchTimes(q, from, to, t))
<1> DEFINE Half(w) == (w + 1) \div 2
           Turn(s, w, lo) == IF w = 0 THEN lo
                             ELSE IF q[lo + Half(w)].time <= t THEN s[w - Half(w)][lo + Half(w)]
                                                               ELSE s[Half(w) - 1][lo]
           Turns(s) == [w \in 0..(to - from) |-> [lo \in from..(to - w) |-> Turn(s, w, lo)]]
           search == CHOOSE s : s = Turns(s)
           Right(w, lo, r) == LastUpTo(q, lo, lo + w, t, r)
           found == [w \in 0..(to - from) |-> [lo \in from..(to - w) |->
                        CHOOSE r \in lo..(lo + w) : Right(w, lo, r)]]
<1>1. searchTimes(q, from, to, t) = search[to - from][from]
  BY DEF searchTimes
<1>2. ASSUME NEW w \in 0..(to - from), NEW lo \in from..(to - w)
      PROVE  /\ Right(w, lo, found[w][lo])
             /\ \A r : Right(w, lo, r) => found[w][lo] = r
  <2>1. /\ w \in Nat /\ lo \in Int /\ lo + w \in Int /\ lo <= lo + w
        /\ \A i \in lo..(lo + w) : q[i].time \in Int
    OBVIOUS
  <2>2. found[w][lo] = CHOOSE r \in lo..(lo + w) : Right(w, lo, r)
    OBVIOUS
  <2>3. \E r \in lo..(lo + w) : Right(w, lo, r)
    <3> HIDE DEF found
    <3> QED BY <2>1, LastExists
  <2>4. Right(w, lo, found[w][lo])
    <3> HIDE DEF Right, found
    <3> QED BY <2>2, <2>3
  <2>5. \A r : Right(w, lo, r) => found[w][lo] = r
    <3> SUFFICES ASSUME NEW r, Right(w, lo, r) PROVE found[w][lo] = r
      OBVIOUS
    <3> HIDE DEF found
    <3> QED BY <2>1, <2>4, LastUnique
  <2> QED BY <2>4, <2>5
<1>3. ASSUME NEW s, NEW w \in 0..(to - from), NEW lo \in from..(to - w),
             \A u \in 0..(to - from) : u < w =>
                \A l \in from..(to - u) : Right(u, l, s[u][l])
      PROVE  Right(w, lo, Turn(s, w, lo))
  <2>1. CASE w = 0
    BY <2>1 DEF LastUpTo
  <2>2. CASE w # 0
    <3> DEFINE half == Half(w)
    <3>1. w \in Nat \ {0} /\ lo \in Int /\ lo..(lo + w) \subseteq from..to /\ half = (w + 1) \div 2
      BY <2>2
    <3> HIDE DEF half
    <3>2. /\ half \in 1..w
          /\ q[lo + half].time <= t =>
               \A r : LastUpTo(q, lo + half, lo + w, t, r) => LastUpTo(q, lo, lo + w, t, r)
          /\ ~(q[lo + half].time <= t) =>
               \A r : LastUpTo(q, lo, lo + half - 1, t, r) => LastUpTo(q, lo, lo + w, t, r)
      BY <3>1, LastHalved
    <3>3. Turn(s, w, lo) = IF q[lo + half].time <= t THEN s[w - half][lo + half] ELSE s[half - 1][lo]
      BY <2>2 DEF half
    <3>4. CASE q[lo + half].time <= t
      <4>1. /\ w - half \in 0..(to - from) /\ w - half < w
            /\ lo + half \in from..(to - (w - half)) /\ lo + half + (w - half) = lo + w
        BY <3>1, <3>2
      <4>2. Right(w - half, lo + half, s[w - half][lo + half])
        BY <1>3, <4>1
      <4> QED BY <3>2, <3>3, <3>4, <4>1, <4>2
    <3>5. CASE ~(q[lo + half].time <= t)
      <4>1. /\ half - 1 \in 0..(to - from) /\ half - 1 < w
            /\ lo \in from..(to - (half - 1)) /\ lo + (half - 1) = lo + half - 1
        BY <3>1, <3>2
      <4>2. Right(half - 1, lo, s[half - 1][lo])
        BY <1>3, <4>1
      <4> QED BY <3>2, <3>3, <3>5, <4>1, <4>2
    <3> QED BY <3>4, <3>5
  <2> QED BY <2>1, <2>2
<1>4. found = Turns(found)
  <2>1. \A w \in 0..(to - from) : \A lo \in from..(to - w) : found[w][lo] = Turn(found, w, lo)
    <3> SUFFICES ASSUME NEW w \in 0..(to - from), NEW lo \in from..(to - w)
                 PROVE  found[w][lo] = Turn(found, w, lo)
      OBVIOUS
    <3>1. Right(w, lo, Turn(found, w, lo))
      <4> HIDE DEF found, Turn, Right
      <4> QED BY <1>2, <1>3
    <3> HIDE DEF found, Turn, Right
    <3> QED BY <1>2, <3>1
  <2>2. \A w \in 0..(to - from) : found[w] = [lo \in from..(to - w) |-> found[w][lo]]
    OBVIOUS
  <2>3. found = [w \in 0..(to - from) |-> found[w]]
    OBVIOUS
  <2> HIDE DEF found, Turn
  <2>4. \A w \in 0..(to - from) : found[w] = [lo \in from..(to - w) |-> Turn(found, w, lo)]
    BY <2>1, <2>2
  <2> QED BY <2>3, <2>4
<1>5. search = Turns(search)
  <2> HIDE DEF Turns, found
  <2> QED BY <1>4
<1>6. \A w \in 0..(to - from) : \A lo \in from..(to - w) : Right(w, lo, search[w][lo])
  <2> DEFINE Wrong == {w \in 0..(to - from) : \E lo \in from..(to - w) : ~Right(w, lo, search[w][lo])}
  <2> HIDE DEF Right, search
  <2>1. SUFFICES ASSUME Wrong # {} PROVE FALSE
    OBVIOUS
  <2>2. Wrong \subseteq Nat
    OBVIOUS
  <2>3. PICK w \in Wrong : \A u \in Wrong : w <= u
    BY <2>1, <2>2, LeastOf
  <2>4. PICK lo \in from..(to - w) : ~Right(w, lo, search[w][lo])
    BY <2>3
  <2>5. w \in 0..(to - from)
    BY <2>3
  <2>6. \A u \in 0..(to - from) : u < w => \A l \in from..(to - u) : Right(u, l, search[u][l])
    BY <2>3, <2>5
  <2> HIDE DEF Turn, Wrong
  <2>7. Right(w, lo, Turn(search, w, lo))
    BY <1>3, <2>5, <2>6
  <2>8. search[w][lo] = Turn(search, w, lo)
    <3>1. search[w] = [l \in from..(to - w) |-> Turn(search, w, l)]
      BY <1>5, <2>5
    <3> QED BY <3>1
  <2> QED BY <2>4, <2>7, <2>8
<1>7. to - from \in 0..(to - from) /\ from \in from..(to - (to - from)) /\ from + (to - from) = to
  OBVIOUS
<1>8. Right(to - from, from, search[to - from][from])
  BY <1>6, <1>7
<1> QED BY <1>1, <1>7, <1>8

-----------------------------------------------------------------------------
(* Interpolation *)

LEMMA Products ==
  ASSUME NEW a \in Int, NEW b \in Int, a >= 0, b >= 0
  PROVE  a * b >= 0
  OBVIOUS

\* A position on the way from left to right lies between the two.
LEMMA MixBetween ==
  ASSUME NEW left \in Int, NEW right \in Int, NEW num \in Int, NEW den \in Int,
         0 <= num, num <= den, NEW ratio, ratio = [num |-> num, den |-> den]
  PROVE  /\ mix(left, right, ratio).num >= MinOf(left, right) * mix(left, right, ratio).den
         /\ mix(left, right, ratio).num <= MaxOf(left, right) * mix(left, right, ratio).den
         /\ num = 0 => mix(left, right, ratio).num = left * mix(left, right, ratio).den
<1>1. mix(left, right, ratio).num = left * den + (right - left) * num
      /\ mix(left, right, ratio).den = den
  BY DEF mix
<1>2. CASE left <= right
  <2>1. (right - left) * num >= 0 /\ (right - left) * (den - num) >= 0
    BY <1>2, Products
  <2>2. MinOf(left, right) = left /\ MaxOf(left, right) = right
    BY <1>2 DEF MinOf, MaxOf
  <2>3. left * den + (right - left) * num >= left * den
    BY <2>1
  <2>4. right * den - (left * den + (right - left) * num) = (right - left) * (den - num)
    OBVIOUS
  <2>5. left * den + (right - left) * num <= right * den
    BY <2>1, <2>4
  <2>6. num = 0 => left * den + (right - left) * num = left * den
    OBVIOUS
  <2> QED BY <1>1, <2>2, <2>3, <2>5, <2>6
<1>3. CASE ~(left <= right)
  <2>1. (left - right) * num >= 0 /\ (left - right) * (den - num) >= 0
    BY <1>3, Products
  <2>2. MinOf(left, right) = right /\ MaxOf(left, right) = left
    BY <1>3 DEF MinOf, MaxOf
  <2>3. left * den - (left * den + (right - left) * num) = (left - right) * num
    OBVIOUS
  <2>4. (left * den + (right - left) * num) - right * den = (left - right) * (den - num)
    OBVIOUS
  <2>5. left * den + (right - left) * num <= left * den
    BY <2>1, <2>3
  <2>6. left * den + (right - left) * num >= right * den
    BY <2>1, <2>4
  <2>7. num = 0 => left * den + (right - left) * num = left * den
    OBVIOUS
  <2> QED BY <1>1, <2>2, <2>5, <2>6, <2>7
<1> QED BY <1>2, <1>3

-----------------------------------------------------------------------------
(* The seek *)

\* What parsing established of the points: their times increase from start to end.
LEMMA PointsInOrder ==
  ASSUME NEW o, o.points \in Seq(Samples), validPoints(o)
  PROVE  /\ Len(o.points) \in Nat /\ Len(o.points) >= 2
         /\ \A i \in 1..Len(o.points) : o.points[i] \in Samples /\ o.points[i].time \in Int
         /\ \A i, j \in 1..Len(o.points) : i < j => o.points[i].time < o.points[j].time
         /\ o.points[1].time = o.startS /\ o.points[Len(o.points)].time = o.endS
         /\ o.startS < o.endS
<1> DEFINE q == o.points
           n == Len(q)
<1>1. /\ n \in Nat /\ n >= 2 /\ \A i \in 1..n : q[i] \in Samples /\ q[i].time \in Int
      /\ \A i \in 2..n : q[i].time > q[i - 1].time
      /\ q[1].time = o.startS /\ q[n].time = o.endS
  <2>1. n \in Nat /\ \A i \in 1..n : q[i] \in Samples
    OBVIOUS
  <2>2. \A i \in 1..n : q[i].time \in Int
    BY <2>1 DEF Samples
  <2>3. /\ n >= 2 /\ \A i \in 2..n : q[i].time > q[i - 1].time
        /\ q[1].time = o.startS /\ q[n].time = o.endS
    BY DEF validPoints
  <2> QED BY <2>1, <2>2, <2>3
<1> HIDE DEF q, n
<1>2. \A i, j \in 1..n : i < j => q[i].time < q[j].time
  BY <1>1, Increasing
<1>3. 1 \in 1..n /\ n \in 1..n /\ 1 < n
  BY <1>1
<1>4. o.startS < o.endS
  BY <1>1, <1>2, <1>3
<1> QED BY <1>1, <1>2, <1>4 DEF q, n

\* Where the index sends the search, and what is left to search there.
LEMMA IndexNarrows ==
  ASSUME NEW o, o.points \in Seq(Samples), o.seekIndex \in Seq(Entries),
         validPoints(o), validSeekIndex(o), NEW t \in Int, o.startS <= t,
         NEW r, r = searchTimes(o.seekIndex, 1, Len(o.seekIndex), t),
         NEW low, low = o.seekIndex[r].point,
         NEW high, high = IF r + 1 <= Len(o.seekIndex)
                            THEN MinOf(Len(o.points), o.seekIndex[r + 1].point + 1)
                            ELSE Len(o.points)
  PROVE  /\ low \in 1..Len(o.points) /\ high \in low..Len(o.points)
         /\ o.points[low].time <= t
         /\ \A i \in 1..Len(o.points) : i > high => o.points[i].time > t
<1> DEFINE x == o.seekIndex
           q == o.points
           m == Len(x)
           n == Len(q)
<1>1. /\ m \in Nat /\ m >= 2 /\ \A i \in 1..m : x[i].time \in Int /\ x[i].point \in Int
      /\ \A i \in 1..m : validSeekEntry(x[i], q)
      /\ x[1].time = o.startS
      /\ \A i \in 2..m : x[i].time > x[i - 1].time
      /\ \A i \in 2..m : x[i].point >= x[i - 1].point
  <2>1. m \in Nat /\ \A i \in 1..m : x[i] \in Entries
    OBVIOUS
  <2>2. \A i \in 1..m : x[i].time \in Int /\ x[i].point \in Int
    BY <2>1 DEF Entries
  <2>3. /\ m >= 2 /\ \A i \in 1..m : validSeekEntry(x[i], q)
        /\ x[1].time = o.startS
        /\ \A i \in 2..m : x[i].time > x[i - 1].time
        /\ \A i \in 2..m : x[i].point >= x[i - 1].point
    BY DEF validSeekIndex
  <2> QED BY <2>1, <2>2, <2>3
<1>2. /\ n \in Nat /\ n >= 2 /\ \A i \in 1..n : q[i].time \in Int
      /\ \A i, j \in 1..n : i < j => q[i].time < q[j].time
  BY PointsInOrder
<1>3. \A i \in 1..m : /\ x[i].point \in 1..n /\ q[x[i].point].time <= x[i].time
                      /\ x[i].point + 1 \in 1..n => q[x[i].point + 1].time > x[i].time
  <2>1. DOMAIN q = 1..n
    OBVIOUS
  <2> HIDE DEF q, x, n, m
  <2> QED BY <1>1, <2>1 DEF validSeekEntry
<1> HIDE DEF q, x, n, m
<1>4. \A i, j \in 1..m : i < j => x[i].time < x[j].time
  BY <1>1, Increasing
<1>5. LastUpTo(x, 1, m, t, searchTimes(x, 1, m, t))
  <2>1. 1 \in Int /\ m \in Int /\ 1 <= m /\ \A i \in 1..m : x[i].time \in Int
    BY <1>1
  <2> QED BY <1>4, <2>1, SearchFinds
<1>6. /\ r \in 1..m /\ (r = 1 \/ x[r].time <= t)
      /\ \A j \in 1..m : j > r => x[j].time > t
  BY <1>5 DEF LastUpTo, x, m
<1>7. x[r].time <= t
  BY <1>1, <1>6
<1>8. low \in 1..n /\ q[low].time <= x[r].time /\ low = x[r].point
  BY <1>3, <1>6 DEF x
<1>9. q[low].time <= t
  BY <1>1, <1>2, <1>6, <1>7, <1>8
<1>10. CASE r + 1 <= m
  <2>1. /\ r + 1 \in 1..m /\ x[r + 1].time > t /\ x[r + 1].point >= low
    <3>1. r + 1 \in 2..m /\ r + 1 \in 1..m /\ r + 1 > r /\ (r + 1) - 1 = r
      BY <1>1, <1>6, <1>10
    <3>2. x[r + 1].time > t
      BY <1>6, <3>1
    <3>3. x[r + 1].point >= x[(r + 1) - 1].point
      BY <1>1, <3>1
    <3> QED BY <1>8, <3>1, <3>2, <3>3
  <2> DEFINE next == x[r + 1].point
  <2>2. /\ next \in 1..n /\ next + 1 \in 1..n => q[next + 1].time > x[r + 1].time
    BY <1>3, <2>1
  <2>3. high = MinOf(n, next + 1)
    BY <1>10 DEF x, m, q, n
  <2>4. next \in 1..n /\ next >= low /\ x[r + 1].time \in Int
    BY <1>1, <1>3, <2>1
  <2> HIDE DEF next
  <2>5. high = (IF n < next + 1 THEN n ELSE next + 1)
    BY <2>3 DEF MinOf
  <2>6. high \in low..n
    BY <1>2, <1>8, <2>4, <2>5
  <2>7. ASSUME NEW i \in 1..n, i > high PROVE q[i].time > t
    <3>1. high = next + 1 /\ next + 1 \in 1..n
      BY <1>2, <2>4, <2>5, <2>7
    <3>2. q[next + 1].time > x[r + 1].time /\ q[next + 1].time < q[i].time
      BY <1>2, <2>2, <2>4, <2>7, <3>1
    <3>3. q[next + 1].time \in Int /\ q[i].time \in Int
      BY <1>2, <3>1
    <3> QED BY <2>1, <2>4, <3>2, <3>3
  <2> QED BY <1>8, <1>9, <2>6, <2>7 DEF q, n
<1>11. CASE ~(r + 1 <= m)
  <2>1. high = n
    BY <1>11 DEF x, m, q, n
  <2>2. high \in low..n /\ \A i \in 1..n : ~(i > high)
    BY <1>2, <1>8, <2>1
  <2> QED BY <1>8, <1>9, <2>2 DEF q, n
<1> QED BY <1>10, <1>11

LEMMA SeekRight ==
  ASSUME NEW o, o.startS \in Int, o.endS \in Int, o.startS <= o.endS,
         o.points \in Seq(Samples), o.seekIndex \in Seq(Entries),
         validPoints(o), validSeekIndex(o), NEW s \in Int,
         NEW frame, frame = seekGhostReplay(o, s)
  PROVE  /\ frame.before \in 1..Len(o.points) /\ frame.after \in 1..Len(o.points)
         /\ o.points[frame.before].time <= frame.timeS
         /\ \A i \in 1..Len(o.points) : o.points[i].time <= frame.timeS => i <= frame.before
         /\ LET left == o.points[frame.before].actual
                right == o.points[frame.after].actual
            IN /\ frame.actual.num >= MinOf(left, right) * frame.actual.den
               /\ frame.actual.num <= MaxOf(left, right) * frame.actual.den
               /\ frame.timeS = o.points[frame.before].time =>
                    frame.actual.num = left * frame.actual.den
<1> DEFINE q == o.points
           n == Len(q)
           t == MinOf(o.endS, MaxOf(o.startS, s))
           r == searchTimes(o.seekIndex, 1, Len(o.seekIndex), t)
           low == o.seekIndex[r].point
           high == IF r + 1 <= Len(o.seekIndex) THEN MinOf(n, o.seekIndex[r + 1].point + 1) ELSE n
           before == searchTimes(q, low, high, t)
           after == MinOf(n, before + 1)
           left == q[before]
           right == q[after]
           span == right.time - left.time
           ratio == IF span > 0 THEN [num |-> t - left.time, den |-> span]
                                ELSE [num |-> 0, den |-> 1]
<1>1. frame = [timeS |-> t, before |-> before, after |-> after,
               actual |-> mix(left.actual, right.actual, ratio),
               predicted |-> mix(left.predicted, right.predicted, ratio)]
  BY Zenon DEF seekGhostReplay
<1>2. t \in Int /\ o.startS <= t
  BY DEF MinOf, MaxOf
<1> HIDE DEF t
<1>3. /\ n \in Nat /\ n >= 2 /\ \A i \in 1..n : q[i] \in Samples /\ q[i].time \in Int
      /\ \A i, j \in 1..n : i < j => q[i].time < q[j].time
  BY PointsInOrder
<1>4. /\ low \in 1..n /\ high \in low..n /\ q[low].time <= t
      /\ \A i \in 1..n : i > high => q[i].time > t
  <2> HIDE DEF r, low, high
  <2>1. /\ low \in 1..Len(o.points) /\ high \in low..Len(o.points)
        /\ o.points[low].time <= t
        /\ \A i \in 1..Len(o.points) : i > high => o.points[i].time > t
    BY <1>2, IndexNarrows DEF r, low, high
  <2> QED BY <2>1
<1> HIDE DEF q, n, r, low, high
<1>5. LastUpTo(q, low, high, t, before)
  <2>1. low \in Int /\ high \in Int /\ low <= high /\ \A i \in low..high : i \in 1..n
    BY <1>3, <1>4
  <2>2. /\ \A i \in low..high : q[i].time \in Int
        /\ \A i, j \in low..high : i < j => q[i].time < q[j].time
    BY <1>3, <2>1
  <2> QED BY <1>2, <2>1, <2>2, SearchFinds DEF before
<1> HIDE DEF before
<1>6. before \in 1..n /\ q[before].time <= t
  BY <1>3, <1>4, <1>5 DEF LastUpTo
<1>7. \A i \in 1..n : i > before => q[i].time > t
  BY <1>3, <1>4, <1>5, <1>6 DEF LastUpTo
<1>8. \A i \in 1..n : q[i].time <= t => i <= before
  BY <1>2, <1>3, <1>6, <1>7
<1>9. /\ after \in 1..n
      /\ after = before \/ after = before + 1
      /\ after = before + 1 => q[before].time < q[after].time /\ t < q[after].time
  BY <1>2, <1>3, <1>6, <1>7 DEF MinOf
<1> HIDE DEF after
<1>10. /\ left.time \in Int /\ right.time \in Int /\ left.actual \in Int /\ right.actual \in Int
  BY <1>3, <1>6, <1>9 DEF Samples
<1>11. \E num, den \in Int : /\ 0 <= num /\ num <= den /\ ratio = [num |-> num, den |-> den]
                             /\ t = left.time => num = 0
  <2>1. CASE span > 0
    <3>1. t - left.time \in Int /\ span \in Int /\ 0 <= t - left.time /\ t - left.time <= span
      <4>1. after # before
        BY <1>10, <2>1
      <4>2. t < right.time /\ left.time <= t
        BY <1>6, <1>9, <4>1
      <4> QED BY <1>2, <1>10, <4>2
    <3>2. ratio = [num |-> t - left.time, den |-> span]
      BY <2>1
    <3>3. t = left.time => t - left.time = 0
      BY <1>2, <1>10
    <3> HIDE DEF ratio, span, left
    <3> QED BY <3>1, <3>2, <3>3
  <2>2. CASE ~(span > 0)
    <3>1. ratio = [num |-> 0, den |-> 1]
      BY <2>2
    <3> HIDE DEF ratio
    <3> QED BY <3>1
  <2> QED BY <2>1, <2>2
<1> HIDE DEF ratio
<1>12. PICK num \in Int, den \in Int : /\ 0 <= num /\ num <= den /\ ratio = [num |-> num, den |-> den]
                                       /\ t = left.time => num = 0
  BY <1>11
<1> DEFINE shown == mix(left.actual, right.actual, ratio)
<1>13. /\ shown.num >= MinOf(left.actual, right.actual) * shown.den
       /\ shown.num <= MaxOf(left.actual, right.actual) * shown.den
       /\ num = 0 => shown.num = left.actual * shown.den
  <2>1. ASSUME NEW a \in Int, NEW b \in Int
        PROVE  /\ mix(a, b, ratio).num >= MinOf(a, b) * mix(a, b, ratio).den
               /\ mix(a, b, ratio).num <= MaxOf(a, b) * mix(a, b, ratio).den
               /\ num = 0 => mix(a, b, ratio).num = a * mix(a, b, ratio).den
    <3>1. 0 <= num /\ num <= den /\ ratio = [num |-> num, den |-> den]
      BY <1>12
    <3> QED BY <3>1, MixBetween
  <2> HIDE DEF left, right
  <2> QED BY <1>10, <2>1
<1> HIDE DEF shown
<1>14. frame.timeS = t /\ frame.before = before /\ frame.after = after /\ frame.actual = shown
  BY <1>1 DEF shown
<1> QED
  <2>1. frame.before \in 1..n /\ frame.after \in 1..n /\ q[frame.before].time <= frame.timeS
        /\ \A i \in 1..n : q[i].time <= frame.timeS => i <= frame.before
    BY <1>6, <1>8, <1>9, <1>14
  <2>2. q[frame.before] = left /\ q[frame.after] = right
    BY <1>14
  <2> HIDE DEF left, right
  <2>3. /\ frame.actual.num >= MinOf(q[frame.before].actual, q[frame.after].actual) * frame.actual.den
        /\ frame.actual.num <= MaxOf(q[frame.before].actual, q[frame.after].actual) * frame.actual.den
        /\ frame.timeS = q[frame.before].time =>
             frame.actual.num = q[frame.before].actual * frame.actual.den
    BY <1>12, <1>13, <1>14, <2>2
  <2> QED BY <2>1, <2>3 DEF q, n

-----------------------------------------------------------------------------
(* The scrubber *)

ReplayInv ==
    /\ records \in Seq(Payloads) /\ selected \in 0..Len(records)
    /\ ReplayTypeOK /\ PlaysWithinReplay

\* What is shown is the overlay of a stored record, and it can be replayed.
LEMMA ReplayShown ==
  ASSUME ReplayConstants, records \in Seq(Payloads), NEW o, o = Replay, o # NoRecord
  PROVE  /\ o.startS \in Int /\ o.endS \in Int /\ o.startS < o.endS
         /\ o.points \in Seq(Samples) /\ o.seekIndex \in Seq(Entries)
         /\ validPoints(o) /\ validSeekIndex(o)
<1>1. Active = NoRecord \/ Active \in Payloads
  BY DEF Active
<1>2. Active \in Payloads /\ o = parseGhostReplay(Active.overlay)
  BY <1>1 DEF Replay, replayOf
<1>3. /\ o = Active.overlay /\ validPoints(o) /\ validSeekIndex(o)
  BY <1>2, Zenon DEF parseGhostReplay
<1>4. /\ o.startS \in Int /\ o.endS \in Int
      /\ o.points \in Seq(Samples) /\ o.seekIndex \in Seq(Entries)
  BY <1>2, <1>3 DEF ReplayConstants
<1> QED BY <1>3, <1>4, PointsInOrder

LEMMA SeekMeaning == ASSUME ReplayConstants, ReplayInv PROVE SeekFindsThePoint
<1> SUFFICES ASSUME Replay # NoRecord PROVE SeekFindsThePoint
  BY DEF SeekFindsThePoint
<1> DEFINE o == Replay
           frame == seekGhostReplay(o, scrubS)
<1>1. /\ o.startS \in Int /\ o.endS \in Int /\ o.startS < o.endS
      /\ o.points \in Seq(Samples) /\ o.seekIndex \in Seq(Entries)
      /\ validPoints(o) /\ validSeekIndex(o)
  BY ReplayShown DEF ReplayInv
<1>2. scrubS \in Int
  BY DEF ReplayInv, ReplayTypeOK
<1> HIDE DEF o
<1>a. o.startS <= o.endS
  BY <1>1
<1>3. /\ frame.before \in 1..Len(o.points) /\ frame.after \in 1..Len(o.points)
      /\ o.points[frame.before].time <= frame.timeS
      /\ \A i \in 1..Len(o.points) : o.points[i].time <= frame.timeS => i <= frame.before
      /\ LET left == o.points[frame.before].actual
             right == o.points[frame.after].actual
         IN /\ frame.actual.num >= MinOf(left, right) * frame.actual.den
            /\ frame.actual.num <= MaxOf(left, right) * frame.actual.den
            /\ frame.timeS = o.points[frame.before].time =>
                 frame.actual.num = left * frame.actual.den
  BY <1>1, <1>2, <1>a, SeekRight
<1> HIDE DEF frame
<1>4. DOMAIN o.points = 1..Len(o.points)
  BY <1>1
<1>5. LET upTo == {i \in DOMAIN o.points : o.points[i].time <= frame.timeS}
          left == o.points[frame.before].actual
          right == o.points[frame.after].actual
      IN  /\ frame.before \in upTo
          /\ \A i \in upTo : i <= frame.before
          /\ frame.actual.num >= MinOf(left, right) * frame.actual.den
          /\ frame.actual.num <= MaxOf(left, right) * frame.actual.den
          /\ frame.timeS = o.points[frame.before].time =>
               frame.actual.num = left * frame.actual.den
  BY <1>3, <1>4, Zenon
<1> QED BY <1>5, Zenon DEF SeekFindsThePoint, o, frame

LEMMA ReplayInvInit == ReplayConstants /\ ReplayInit => ReplayInv
<1> SUFFICES ASSUME ReplayConstants, ReplayInit PROVE ReplayInv
  OBVIOUS
<1>1. <<>> \in Seq(Payloads) /\ Len(<<>>) = 0
  OBVIOUS
<1>2. records \in Seq(Payloads) /\ Len(records) = 0
  BY <1>1 DEF ReplayInit
<1>3. selected = 0 /\ scrubS = 0 /\ playing = FALSE
  BY DEF ReplayInit
<1>4. PlaysWithinReplay
  BY <1>3, Zenon DEF PlaysWithinReplay
<1>5. selected \in 0..Len(records)
  BY <1>2, <1>3
<1>6. Len(records) <= 2 /\ scrubS \in Int
  BY <1>2, <1>3
<1>7. playing \in BOOLEAN
  BY <1>3, Zenon
<1> QED BY <1>2, <1>4, <1>5, <1>6, <1>7 DEF ReplayInv, ReplayTypeOK

\* Where a new record leaves the scrubber.
LEMMA ActiveChanged ==
  ASSUME ReplayConstants, NEW p, p = NoRecord \/ p \in Payloads, OnActiveChanged(p)
  PROVE  playing' = FALSE /\ scrubS' \in Int
<1>1. crashWindow(p) # NoRecord => crashWindow(p).impactS \in Int
  BY DEF crashWindow, ReplayConstants
<1>2. replayOf(p) # NoRecord => replayOf(p).startS \in Int
  BY Zenon DEF replayOf, parseGhostReplay, ReplayConstants
<1> HIDE DEF crashWindow, replayOf
<1> QED BY <1>1, <1>2 DEF OnActiveChanged

LEMMA RecordsStep == ASSUME ReplayConstants, ReplayInv, RecordsArrive PROVE ReplayInv'
<1>1. Active = NoRecord \/ Active \in Payloads
  BY DEF Active, ReplayInv
<1>2. PICK p \in Payloads : records' \in {<<>>, <<p>>, <<Active, p>>, <<p, Active>>}
  BY DEF RecordsArrive
<1>3. Active \in Payloads \/ records' \in {<<>>, <<p>>}
  <2>1. CASE records' = <<Active, p>>
    <3>1. 1 \in DOMAIN records' /\ records'[1] = Active
      BY <2>1
    <3> QED BY <1>1, <3>1 DEF RecordsArrive
  <2>2. CASE records' = <<p, Active>>
    <3>1. 2 \in DOMAIN records' /\ records'[2] = Active
      BY <2>2
    <3> QED BY <1>1, <3>1 DEF RecordsArrive
  <2> QED BY <1>2, <2>1, <2>2
<1>4. records' \in Seq(Payloads) /\ Len(records') <= 2 /\ Len(records') \in Nat
  <2>1. ASSUME NEW a \in Payloads, NEW b \in Payloads
        PROVE  /\ <<a, b>> \in Seq(Payloads) /\ Len(<<a, b>>) = 2
               /\ <<a>> \in Seq(Payloads) /\ Len(<<a>>) = 1
               /\ <<>> \in Seq(Payloads) /\ Len(<<>>) = 0
    OBVIOUS
  <2>2. records' = <<>> \/ records' = <<p>> \/ (Active \in Payloads /\ records' \in {<<Active, p>>, <<p, Active>>})
    BY <1>2, <1>3, Zenon
  <2>3. CASE records' = <<>>
    BY <1>2, <2>1, <2>3
  <2>4. CASE records' = <<p>>
    BY <1>2, <2>1, <2>4
  <2>5. CASE Active \in Payloads /\ records' = <<Active, p>>
    BY <1>2, <2>1, <2>5
  <2>6. CASE Active \in Payloads /\ records' = <<p, Active>>
    BY <1>2, <2>1, <2>6
  <2> QED BY <2>2, <2>3, <2>4, <2>5, <2>6, Zenon
<1>5. selected' \in 0..Len(records')
  BY <1>4 DEF RecordsArrive, MinOf
<1> DEFINE shown == IF selected' = 0 THEN NoRecord ELSE records'[selected']
<1>6. shown = NoRecord \/ shown \in Payloads
  BY <1>4, <1>5
<1>7. OnActiveChanged(shown)
  BY DEF RecordsArrive
<1> HIDE DEF shown
<1>8. playing' = FALSE /\ scrubS' \in Int
  BY <1>6, <1>7, ActiveChanged
<1> QED BY <1>4, <1>5, <1>8 DEF ReplayInv, ReplayTypeOK, PlaysWithinReplay

LEMMA SelectStep == ASSUME ReplayConstants, ReplayInv, Select PROVE ReplayInv'
<1>1. PICK i \in DOMAIN records : selected' = i /\ OnActiveChanged(records[i])
  BY DEF Select
<1>2. records' = records /\ records[i] \in Payloads /\ i \in 0..Len(records)
  BY <1>1 DEF Select, ReplayInv
<1>3. playing' = FALSE /\ scrubS' \in Int
  BY <1>1, <1>2, ActiveChanged
<1> QED BY <1>1, <1>2, <1>3 DEF ReplayInv, ReplayTypeOK, PlaysWithinReplay

LEMMA ScrubStep ==
  ASSUME ReplayConstants, ReplayInv, Drag \/ StepBack \/ StepForward \/ TogglePlay \/ AnimationFrame
  PROVE  ReplayInv'
<1>1. records' = records /\ selected' = selected
  BY DEF Drag, StepBack, StepForward, TogglePlay, AnimationFrame
<1>2. /\ records \in Seq(Payloads) /\ selected \in 0..Len(records) /\ Len(records) <= 2
      /\ scrubS \in Int /\ playing \in BOOLEAN
  BY DEF ReplayInv, ReplayTypeOK
<1>3. Replay' = Replay
  BY <1>1 DEF Replay, Active
<1> DEFINE o == Replay
<1>4. o # NoRecord => o.startS \in Int /\ o.endS \in Int /\ o.startS < o.endS
  BY <1>2, ReplayShown
<1>5. CASE Drag
  <2>1. Active \in Payloads
    BY <1>2, <1>5 DEF Drag, Active
  <2>2. crashWindow(Active) # NoRecord => /\ crashWindow(Active).startS \in Int
                                          /\ crashWindow(Active).endS \in Int
    BY <2>1 DEF crashWindow, ReplayConstants
  <2>3. scrubS' \in Int /\ playing' = FALSE
    BY <1>4, <1>5, <2>2 DEF Drag
  <2> QED BY <1>1, <1>2, <2>3 DEF ReplayInv, ReplayTypeOK, PlaysWithinReplay
<1>6. CASE StepBack
  <2>1. scrubS' \in Int /\ playing' = FALSE
    BY <1>2, <1>4, <1>6 DEF StepBack, MaxOf
  <2> QED BY <1>1, <1>2, <2>1 DEF ReplayInv, ReplayTypeOK, PlaysWithinReplay
<1>7. CASE StepForward
  <2>1. scrubS' \in Int /\ playing' = FALSE
    BY <1>2, <1>4, <1>7 DEF StepForward, MinOf
  <2> QED BY <1>1, <1>2, <2>1 DEF ReplayInv, ReplayTypeOK, PlaysWithinReplay
<1>8. CASE TogglePlay
  <2>1. /\ scrubS' \in Int /\ playing' \in BOOLEAN /\ o # NoRecord
        /\ playing' => scrubS' < o.endS
    <3>1. CASE playing = TRUE
      <4>1. playing' = FALSE /\ scrubS' = scrubS /\ o # NoRecord
        BY <1>8, <3>1 DEF TogglePlay
      <4> QED BY <1>2, <4>1
    <3>2. CASE playing = FALSE
      <4>1. /\ playing' = TRUE /\ o # NoRecord
            /\ scrubS' = IF scrubS >= o.endS THEN o.startS ELSE scrubS
        BY <1>8, <3>2 DEF TogglePlay
      <4> HIDE DEF o
      <4> QED BY <1>2, <1>4, <4>1
    <3> QED BY <1>2, <3>1, <3>2
  <2> QED BY <1>1, <1>2, <1>3, <2>1 DEF ReplayInv, ReplayTypeOK, PlaysWithinReplay
<1>9. CASE AnimationFrame
  <2>1. o # NoRecord
    BY <1>9 DEF AnimationFrame
  <2>2. PICK elapsed \in 0..MaxElapsed :
          /\ scrubS' = MinOf(o.endS, scrubS + elapsed)
          /\ playing' = (MinOf(o.endS, scrubS + elapsed) < o.endS)
    BY <1>9 DEF AnimationFrame
  <2>3. scrubS' \in Int /\ playing' \in BOOLEAN /\ (playing' => scrubS' < o.endS)
    <3> DEFINE next == MinOf(o.endS, scrubS + elapsed)
               more == next < o.endS
    <3>1. next \in Int
      BY <1>2, <1>4, <2>1 DEF ReplayConstants, MinOf
    <3>2. scrubS' = next /\ playing' = more /\ more \in BOOLEAN
      BY <2>2
    <3>3. more => next < o.endS
      OBVIOUS
    <3> HIDE DEF o, next, more
    <3> QED BY <3>1, <3>2, <3>3
  <2> QED BY <1>1, <1>2, <1>3, <2>1, <2>3 DEF ReplayInv, ReplayTypeOK, PlaysWithinReplay
<1> QED BY <1>5, <1>6, <1>7, <1>8, <1>9

LEMMA ReplayInvStep ==
  ASSUME ReplayConstants, ReplayInv, [ReplayNext]_replayVars
  PROVE  ReplayInv'
<1>1. CASE UNCHANGED replayVars
  BY <1>1 DEF replayVars, ReplayInv, ReplayTypeOK, PlaysWithinReplay, Replay, Active
<1>2. CASE ReplayNext
  BY <1>2, RecordsStep, SelectStep, ScrubStep DEF ReplayNext
<1> QED BY <1>1, <1>2

LEMMA ReplayInvMeaning == ReplayConstants /\ ReplayInv => ReplayTypeOK /\ ReplaySafe
  BY SeekMeaning DEF ReplayInv, ReplaySafe

\* ReplaySafe: whatever overlay parsing accepted and wherever the scrubber stands, the indexed
\* search finds the last point at or before the time shown, the position shown lies between that
\* point and the next, and only a replay short of its end plays (ghostReplay.ts, CrashScrubber).
THEOREM ReplayIsSafe ==
  ASSUME ReplayConstants PROVE ReplaySpec => [](ReplayTypeOK /\ ReplaySafe)
<1>1. ReplayInit => ReplayInv
  BY ReplayInvInit
<1>2. ReplayInv /\ [ReplayNext]_replayVars => ReplayInv'
  BY ReplayInvStep
<1>3. ReplayInv => ReplayTypeOK /\ ReplaySafe
  BY ReplayInvMeaning
<1> QED BY <1>1, <1>2, <1>3, PTL DEF ReplaySpec
=============================================================================
