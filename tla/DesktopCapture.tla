--------------------------- MODULE DesktopCapture ---------------------------
(***************************************************************************)
(* Recording telemetry from the studio: the recorder panel of a web page   *)
(* drives the one recorder of the desktop shell through commands.  A       *)
(* handler of the panel awaits the shell and goes on with what it captured *)
(* when the button was pressed; the page may be reloaded at any time, and  *)
(* then its commands still run, in order, on the shell's main thread while *)
(* their answers are dropped.  Under custody the shell brackets the        *)
(* capture with two identity probes against a signed authorization.        *)
(* Devices are unplugged and exchanged while a capture runs.               *)
(*                                                                         *)
(* A device is a unit with its own UID; DescOf gives the OS descriptor the *)
(* port shows for it, which two units may share.  A request, a status, a   *)
(* receipt or a proof is the record of the fields that are compared.       *)
(***************************************************************************)
EXTENDS Naturals, Sequences

CONSTANTS Artifacts, Dirs, Ports, Devices, Hashes, Models,
          DescOf,        \* DescOf[d]: OS descriptor of device d
          Auths,         \* signed authorizations: id, the binding and expires
          MaxTime,       \* captures started, bounded
          MaxReloads, MaxSwaps,
          None

VARIABLES active,     \* shell: the recorder's capture, or None
          archives,   \* shell: directory -> archive on disk, or None
          proofFile,  \* shell: the custody proof written, or None
          authFile,   \* shell: the authorization at the authorization path
          plugged,    \* port -> device, or None
          now,        \* wall clock
          drift,      \* answers in which this desktop build claims authority
          cmds,       \* commands on their way to the shell, in order
          inbox,      \* the answer awaited by the current page, or None
          page,       \* number of the current page load
          ui,         \* panel state of the current page
          swaps

native == <<active, archives, proofFile, authFile>>
world == <<plugged, drift, swaps>>
capVars == <<native, world, now, cmds, inbox, page, ui>>

Inactive == [state |-> "inactive"]

IdleUi == [status |-> None, receipt |-> None, proof |-> None, dir |-> None,
           custody |-> FALSE, model |-> None, path |-> None, call |-> None]

Busy == ui.call # None        \* controlBusy

----------------------------------------------------------------------------
(* Commands of the shell.  Each runs to its end before the next.           *)

Same(s, r) == s.art = r.art /\ s.hash = r.hash /\ s.port = r.port /\ s.at = r.at

StatusOf(c) ==
  IF c = None THEN Inactive
  ELSE [state |-> IF c.failed THEN "finished" ELSE "recording", art |-> c.art,
        dir |-> c.dir, hash |-> c.hash, port |-> c.port, at |-> c.at]

Desc(p) == IF plugged[p] = None THEN None ELSE DescOf[plugged[p]]

(* The authorization read now binds exactly this capture and is unexpired. *)
load_and_verify_authorization(a, art, model, hash, port, idPort) ==
  /\ a # None
  /\ a.art = art /\ a.model = model /\ a.hash = hash
  /\ a.port = port /\ a.desc = Desc(port)
  /\ a.idPort = idPort /\ a.idDesc = Desc(idPort)
  /\ now <= a.expires

validate_custody_probe(a, idPort) == plugged[idPort] = a.uid /\ DescOf[plugged[idPort]] = a.idDesc

Reply(c, answer) == inbox' = IF c.page = page THEN answer ELSE inbox

Error == [kind |-> "error"]

Begin(r, cust) ==
  /\ active' = [art |-> r.art, dir |-> r.dir, hash |-> r.hash, port |-> r.port, at |-> now,
                failed |-> FALSE, cust |-> cust]
  /\ archives' = [archives EXCEPT ![r.dir] =
                    [done |-> FALSE, art |-> r.art, hash |-> r.hash, port |-> r.port, at |-> now]]
  /\ now' = now + 1

(* The checks of both starts: no recorder active, the port enumerated, the *)
(* archive directory new.                                                  *)
MayBegin(r) == active = None /\ plugged[r.port] # None /\ archives[r.dir] = None

start_background_recording(c) ==
  IF MayBegin(c.req)
  THEN /\ Begin(c.req, None)
       /\ Reply(c, [kind |-> "status", status |-> StatusOf(active')])
       /\ UNCHANGED <<proofFile, authFile>>
  ELSE Reply(c, Error) /\ UNCHANGED <<native, now>>

start_custodied_background_recording(c) ==
  LET r == c.req IN
  IF /\ MayBegin(r) /\ plugged[r.idPort] # None
     /\ load_and_verify_authorization(authFile, r.art, r.model, r.hash, r.port, r.idPort)
     /\ validate_custody_probe(authFile, r.idPort)
  THEN /\ Begin(r, [auth |-> authFile, model |-> r.model, idPort |-> r.idPort,
                    desc |-> Desc(r.port), idDesc |-> Desc(r.idPort), pre |-> plugged[r.idPort]])
       /\ Reply(c, [kind |-> "status", status |-> StatusOf(active')])
       /\ UNCHANGED <<proofFile, authFile>>
  ELSE Reply(c, Error) /\ UNCHANGED <<native, now>>

(* Joining the recorder thread: it closes the archive, or has failed or    *)
(* stops in the middle of a frame and leaves the archive incomplete.       *)
Join(clean) == archives' = [archives EXCEPT ![active.dir].done = clean /\ ~active.failed]

Receipt(c) == [art |-> c.art, hash |-> c.hash, port |-> c.port, at |-> c.at,
               promoted |-> "receipt" \in drift]

\* Mutant: the plain stop does not look for custody.
stopTakesCustodied(c) ==
  IF active = None
  THEN Reply(c, Error) /\ UNCHANGED native
  ELSE \E clean \in BOOLEAN :
         /\ Join(clean) /\ active' = None
         /\ Reply(c, IF archives'[active.dir].done
                     THEN [kind |-> "receipt", receipt |-> Receipt(active)] ELSE Error)
         /\ UNCHANGED <<proofFile, authFile>>

stop_background_recording(c) ==
  IF active = None \/ active.cust # None
  THEN Reply(c, Error) /\ UNCHANGED native
  ELSE \E clean \in BOOLEAN :
         /\ Join(clean) /\ active' = None
         /\ Reply(c, IF archives'[active.dir].done
                     THEN [kind |-> "receipt", receipt |-> Receipt(active)] ELSE Error)
         /\ UNCHANGED <<proofFile, authFile>>

Proof(c) == [auth |-> c.cust.auth.id, model |-> c.cust.model, art |-> c.art, hash |-> c.hash,
             port |-> c.port, at |-> c.at, dir |-> c.dir, idPort |-> c.cust.idPort,
             expected |-> c.cust.auth.uid, pre |-> c.cust.pre, post |-> plugged[c.cust.idPort],
             promoted |-> "proof" \in drift]

(* What must hold after the archive is closed for a proof to be written:   *)
(* both descriptors as at the start, the same authorization still valid    *)
(* and still at its path, and the same device answering the second probe.  *)
finish_custody_proof(c) ==
  /\ plugged[c.port] # None /\ Desc(c.port) = c.cust.desc
  /\ plugged[c.cust.idPort] # None /\ Desc(c.cust.idPort) = c.cust.idDesc
  /\ load_and_verify_authorization(authFile, c.art, c.cust.model, c.hash, c.port, c.cust.idPort)
  /\ authFile = c.cust.auth
  /\ validate_custody_probe(authFile, c.cust.idPort)
  /\ plugged[c.cust.idPort] = c.cust.pre
  /\ proofFile = None

stop_custodied_background_recording(c) ==
  IF active = None THEN Reply(c, Error) /\ UNCHANGED native
  ELSE IF active.cust = None THEN Reply(c, Error) /\ UNCHANGED native
  ELSE IF c.auth # active.cust.auth.id THEN Reply(c, Error) /\ UNCHANGED native
  ELSE \E clean \in BOOLEAN :
         /\ Join(clean) /\ active' = None /\ UNCHANGED authFile
         /\ IF archives'[active.dir].done /\ finish_custody_proof(active)
            THEN /\ proofFile' = Proof(active)
                 /\ Reply(c, [kind |-> "proof", proof |-> Proof(active)])
            ELSE UNCHANGED proofFile /\ Reply(c, Error)

recorder_status(c) ==
  Reply(c, [kind |-> "status", status |-> StatusOf(active)]) /\ UNCHANGED native

Shell ==
  /\ cmds # <<>>
  /\ cmds' = Tail(cmds)
  /\ LET c == Head(cmds) IN
       \/ c.kind = "start" /\ start_background_recording(c)
       \/ c.kind = "custody-start" /\ start_custodied_background_recording(c)
       \/ c.kind = "stop" /\ stop_background_recording(c) /\ UNCHANGED now
       \/ c.kind = "custody-stop" /\ stop_custodied_background_recording(c) /\ UNCHANGED now
       \/ c.kind = "status" /\ recorder_status(c) /\ UNCHANGED now
  /\ UNCHANGED <<world, page, ui>>

----------------------------------------------------------------------------
(* The panel.                                                              *)

Send(cmd) == cmds' = Append(cmds, cmd)

(* Sends a command and remembers the handler's captured values.            *)
Call(u, call, cmd) ==
  /\ Send(cmd)
  /\ ui' = [u EXCEPT !.call = call]
  /\ UNCHANGED <<native, world, now, inbox, page>>

Status == [page |-> page, kind |-> "status"]

refreshControls ==
  /\ ~Busy
  /\ Call(ui, [kind |-> "refresh"], Status)

canStart == ~Busy /\ ui.status # None /\ ui.status.state = "inactive"
canStop == ~Busy /\ ui.status # None /\ ui.status.state # "inactive"

(* Form fields of the request are typed while the recorder is inactive.    *)
Requests == [art : Artifacts, dir : Dirs, hash : Hashes, port : Ports]

(* wellFormed: identifier, absolute directory, rate, rig, hashes, seed and *)
(* environment are within the bounds of the format.                        *)
validateRecorderStartRequest(wellFormed) == wellFormed

validateRecorderCustodyStartRequest(r, wellFormed, idPort, proofInArchive) ==
  validateRecorderStartRequest(wellFormed) /\ idPort # r.port /\ ~proofInArchive

(* startRecorder: a report is admitted (its hash is r.hash);               *)
(* the previous receipt and proof disappear; a request the client refuses  *)
(* is never sent.                                                          *)
startRecorder ==
  /\ canStart
  /\ now < MaxTime
  /\ \E r \in Requests, wellFormed \in BOOLEAN, idPort \in Ports, proofInArchive \in BOOLEAN :
       LET cleared == [ui EXCEPT !.receipt = None, !.proof = None, !.dir = r.dir]
           call == [kind |-> "start", req |-> r]
           refused == ui' = cleared /\ UNCHANGED <<native, world, now, cmds, inbox, page>>
       IN \/ /\ ~ui.custody
             /\ IF validateRecorderStartRequest(wellFormed)
                THEN Call(cleared, call, [page |-> page, kind |-> "start", req |-> r])
                ELSE refused
          \/ /\ ui.custody /\ ui.model # None /\ idPort # r.port
             /\ IF validateRecorderCustodyStartRequest(r, wellFormed, idPort, proofInArchive)
                THEN Call(cleared, call,
                          [page |-> page, kind |-> "custody-start",
                           req |-> [art |-> r.art, dir |-> r.dir, hash |-> r.hash, port |-> r.port,
                                    idPort |-> idPort, model |-> ui.model]])
                ELSE refused

(* stopRecorder: the expected status, the model and the                    *)
(* directory are those of the click.                                       *)
stopRecorder ==
  /\ canStop
  /\ \/ /\ ~ui.custody
        /\ Call(ui, [kind |-> "stop", expected |-> ui.status, dir |-> ui.dir],
                [page |-> page, kind |-> "stop"])
     \/ /\ ui.custody /\ ui.model # None
        /\ \E a \in {x.id : x \in Auths} :
             Call(ui, [kind |-> "custody-stop", expected |-> ui.status, dir |-> ui.dir,
                       model |-> ui.model, auth |-> a],
                  [page |-> page, kind |-> "custody-stop", auth |-> a])

toggleCustody ==
  /\ ~Busy
  /\ ui' = [ui EXCEPT !.custody = ~@, !.proof = None]
  /\ UNCHANGED <<native, world, now, cmds, inbox, page>>

(* The active model is a property the parent changes whenever it likes.    *)
selectModel ==
  /\ \E m \in Models : m # ui.model /\ ui' = [ui EXCEPT !.model = m]
  /\ UNCHANGED <<native, world, now, cmds, inbox, page>>

(* A status names a capture in full, or is inactive and names nothing.     *)
parseRecorderControlStatus(s) ==
  DOMAIN s = IF s.state = "inactive" THEN {"state"}
             ELSE {"state", "art", "dir", "hash", "port", "at"}

parseRecorderStopReceipt(r) == ~r.promoted

parseRecorderCustodyProof(p) ==
  /\ ~p.promoted
  /\ p.port # p.idPort
  /\ p.expected = p.pre /\ p.pre = p.post

stopDesktopRecorder(call, r) == parseRecorderStopReceipt(r) /\ Same(call.expected, r)

stopDesktopCustodiedRecorder(call, p) ==
  /\ parseRecorderCustodyProof(p)
  /\ p.auth = call.auth /\ p.model = call.model /\ Same(call.expected, p)

startDesktopRecorder(call, s) ==
  /\ parseRecorderControlStatus(s)
  /\ s.state = "recording" /\ s.dir = call.req.dir
  /\ s.art = call.req.art /\ s.hash = call.req.hash

(* The answer ends the handler, or the handler goes on to read the status. *)
Done(u) == ui' = [u EXCEPT !.call = None] /\ UNCHANGED cmds
ReadStatus(u, call) == ui' = [u EXCEPT !.call = call] /\ Send(Status)

refreshReply ==
  \/ /\ inbox.kind = "status" /\ parseRecorderControlStatus(inbox.status)
     /\ Done([ui EXCEPT !.status = inbox.status,
                        !.dir = IF inbox.status.state = "inactive" THEN @ ELSE inbox.status.dir])
  \/ Done(ui)              \* a call of the refresh failed: nothing is set

\* Mutant: a refused start does not reset the busy flag.
startReplyStaysBusy ==
  /\ inbox.kind = "status"
  /\ startDesktopRecorder(ui.call, inbox.status)
  /\ Done([ui EXCEPT !.status = inbox.status])

startReply ==
  IF inbox.kind = "status" /\ startDesktopRecorder(ui.call, inbox.status)
  THEN Done([ui EXCEPT !.status = inbox.status])
  ELSE Done(ui)

After(call) == [kind |-> "after", dir |-> call.dir]
Recover == [kind |-> "recover"]

stopReply ==
  LET ok == \/ inbox.kind = "receipt" /\ stopDesktopRecorder(ui.call, inbox.receipt)
            \/ inbox.kind = "proof" /\ stopDesktopCustodiedRecorder(ui.call, inbox.proof)
  IN IF ok
     THEN ReadStatus([ui EXCEPT !.receipt = IF inbox.kind = "receipt" THEN inbox.receipt ELSE @,
                                !.proof = IF inbox.kind = "proof" THEN inbox.proof ELSE @],
                     After(ui.call))
     ELSE ReadStatus(ui, Recover)

(* After an accepted stop: a failing status read goes to the catch clause, *)
(* which reads it again; there a failing read forgets the status.          *)
afterReply ==
  \/ /\ parseRecorderControlStatus(inbox.status)
     /\ Done([ui EXCEPT !.status = inbox.status, !.path = ui.call.dir])
  \/ ReadStatus(ui, Recover)

recoverReply ==
  \/ parseRecorderControlStatus(inbox.status) /\ Done([ui EXCEPT !.status = inbox.status])
  \/ Done([ui EXCEPT !.status = None])

Deliver ==
  /\ inbox # None
  /\ inbox' = None
  /\ \/ ui.call.kind = "refresh" /\ refreshReply
     \/ ui.call.kind = "start" /\ startReply
     \/ ui.call.kind \in {"stop", "custody-stop"} /\ stopReply
     \/ ui.call.kind = "after" /\ afterReply
     \/ ui.call.kind = "recover" /\ recoverReply
  /\ UNCHANGED <<native, world, now, page>>

(* A reload forgets the panel and mounts it again, which refreshes.        *)
Reload ==
  /\ page < MaxReloads
  /\ page' = page + 1
  /\ inbox' = None
  /\ ui' = [IdleUi EXCEPT !.call = [kind |-> "refresh"]]
  /\ Send([page |-> page + 1, kind |-> "status"])
  /\ UNCHANGED <<native, world, now>>

----------------------------------------------------------------------------
(* The world: devices, the recorder thread and the authorization file.     *)

Replug ==
  /\ swaps < MaxSwaps /\ swaps' = swaps + 1
  /\ \E p \in Ports, d \in Devices \cup {None} :
       /\ d # plugged[p]
       /\ d # None => \A q \in Ports : plugged[q] # d
       /\ plugged' = [plugged EXCEPT ![p] = d]
  /\ UNCHANGED <<native, now, drift, cmds, inbox, page, ui>>

ThreadFails ==
  /\ active # None /\ ~active.failed
  /\ active' = [active EXCEPT !.failed = TRUE]
  /\ UNCHANGED <<archives, proofFile, authFile, world, now, cmds, inbox, page, ui>>

SignAuthorization ==
  /\ swaps < MaxSwaps /\ swaps' = swaps + 1
  /\ \E a \in Auths : a # authFile /\ authFile' = a
  /\ UNCHANGED <<active, archives, proofFile, plugged, drift, now, cmds, inbox, page, ui>>

CapInit ==
  /\ active = None /\ proofFile = None
  /\ archives = [d \in Dirs |-> None]
  /\ authFile \in Auths
  /\ plugged \in {f \in [Ports -> Devices] : /\ \A p, q \in Ports : p # q => f[p] # f[q]
                                           /\ \A a \in Auths : DescOf[f[a.idPort]] = a.idDesc}
  /\ drift \in {{}, {"receipt"}, {"proof"}}
  /\ now = 0 /\ page = 0 /\ swaps = 0
  /\ ui = [IdleUi EXCEPT !.call = [kind |-> "refresh"]]
  /\ cmds = <<[page |-> 0, kind |-> "status"]>>
  /\ inbox = None

CapNext ==
  \/ Shell \/ Deliver \/ Reload
  \/ refreshControls \/ startRecorder \/ stopRecorder \/ toggleCustody \/ selectModel
  \/ Replug \/ ThreadFails \/ SignAuthorization

(* The shell's main loop and the page's event loop keep running; whether   *)
(* the user presses anything is open.                                      *)
CapSpec == CapInit /\ [][CapNext]_capVars /\ WF_capVars(Shell) /\ WF_capVars(Deliver)

----------------------------------------------------------------------------
Capture(x) == x.art \in Artifacts /\ x.hash \in Hashes /\ x.port \in Ports /\ x.at \in 0..MaxTime

\* Types of the recorder, the files and the panel.
CapTypeOK ==
  /\ active # None => Capture(active) /\ active.dir \in Dirs /\ active.failed \in BOOLEAN
  /\ \A d \in Dirs : archives[d] # None => Capture(archives[d]) /\ archives[d].done \in BOOLEAN
  /\ proofFile # None => Capture(proofFile)
  /\ now \in 0..MaxTime /\ page \in 0..MaxReloads /\ Len(cmds) <= MaxReloads + 1
  /\ ui.receipt # None => Capture(ui.receipt)
  /\ inbox # None => Busy

(* When nothing is under way the panel shows the recorder the shell has:   *)
(* after reloads, refused stops and answers that were dropped, a status on *)
(* display is inactive exactly when no capture is active, and otherwise    *)
(* names the active capture.                                               *)
Quiet == cmds = <<>> /\ inbox = None /\ ~Busy
PanelInStep ==
  Quiet /\ ui.status # None =>
    /\ ui.status.state = "inactive" <=> active = None
    /\ active # None => Same(ui.status, active) /\ ui.dir = active.dir

(* A custody proof, written or shown, stands for an archive that is        *)
(* complete and for one authorized device answering at both ends; and the  *)
(* panel shows a proof only for the model the authorization was signed for *)
(* and only without claimed authority.                                     *)
ProofContinuity ==
  /\ \A p \in {proofFile, ui.proof} \ {None} :
       /\ archives[p.dir] # None
       /\ archives[p.dir].done /\ Same(archives[p.dir], p)
       /\ p.pre = p.post
       /\ \E a \in Auths : /\ a.id = p.auth /\ a.uid = p.pre /\ a.model = p.model
                           /\ a.art = p.art /\ a.hash = p.hash /\ a.port = p.port
  /\ ui.proof # None => ui.proof = proofFile /\ ~ui.proof.promoted

(* The archive path the panel offers after a stop holds the complete       *)
(* archive of the receipt or proof on display.                             *)
OfferedArchiveIsStopped ==
  Quiet /\ ui.path # None =>
    /\ archives[ui.path] # None
    /\ archives[ui.path].done

(* A capture begun under custody is never ended by a plain stop: a receipt *)
(* on display is of a capture without custody.  The panel's custody switch *)
(* may be flipped, and the page reloaded, while the capture runs.          *)
CustodyNotBypassed ==
  active # None /\ active' = None /\ active.cust # None
    => Head(cmds).kind = "custody-stop"

(* A complete archive is never changed or deleted, whatever happens to its *)
(* custody proof.                                                          *)
CompletedArchiveKept ==
  \A d \in Dirs : archives[d] # None =>
    /\ archives'[d] # None /\ Same(archives[d], archives'[d])
    /\ archives[d].done => archives'[d].done
=============================================================================
