------------------------------- MODULE Relay -------------------------------
(***************************************************************************)
(* A snapshot, or the evidence of a conflict, that goes through the        *)
(* Controller's encrypted relay: the worker (controller/snapshot_relay.go, *)
(* controller/backup.go, controller/conflict_resolutions.go), the          *)
(* relay_transfers rows (store/relay.go), the relay's handlers and spool   *)
(* directory (controller/relay.go), the source's upload                    *)
(* (agent/relay_multipart.go) and the target's RunRelayReceive             *)
(* (agent/snapshot.go, agent/runtime_state.go).                            *)
(*                                                                         *)
(* A task is the attempt it is derived from.  An archive is known by its   *)
(* digest, a ciphertext by the run of the source that encrypted it, since  *)
(* every run uses fresh keys and a fresh upload session.  A request is a   *)
(* handler of the relay that may outlive its client.  A capability's       *)
(* expiry is module Transfer's.                                            *)
(***************************************************************************)
EXTENDS Integers, Sequences

CONSTANTS Archives,       \* digests of what the source may archive
          Protocols,      \* whether the Agents speak the multipart protocol
          Evidence,       \* whether a conflict's evidence is sent, or a snapshot
          Parts,          \* relayPartCount of a ciphertext
          RetryMax,       \* Cfg.Backup.RetryMax
          MaxRun, MaxCall, MaxEpoch, MaxFaults

ASSUME RelayAssumption ==
    /\ Archives \subseteq Nat \ {0} /\ Protocols \subseteq BOOLEAN /\ Evidence \subseteq BOOLEAN
    /\ Parts \in Nat \ {0} /\ RetryMax \in Nat \ {0} /\ MaxRun \in Nat /\ MaxCall \in Nat
    /\ MaxEpoch \in Nat \ {0} /\ MaxFaults \in Nat

\* A promotion, or a crash before the last attempt is recorded as failed,
\* gives an attempt more.
Tasks == 1..(RetryMax + MaxFaults)
Runs == 1..MaxRun
Calls == 1..MaxCall

VARIABLES wf,        \* the workflow: its state, attempt, how many of its attempts
                     \*   count as retries, and whether its capability is prepared
          gen,       \* the active controller generation
          ctl,       \* the worker: where it is and the source's receipt
          row,       \* relay_transfers, by task
          age,       \* each task: fresh until expires_at, due, then old
                     \*   (its files are past twice the retention)
          cmd,       \* agent_commands by kind and task, with the receipt's digest
          call,      \* upload handlers in progress
          file,      \* .relay-upload-*.ciphertext of the handler, by run
          dir,       \* each run's .parts directory: -1, or the parts in it
          src,       \* RunSnapshot on the source
          runs,      \* runs so far, and what each has archived
          multipart, \* both Agents speak the multipart protocol
          evidence,  \* it is a conflict's evidence that is sent
          xfer,      \* Transfers[snapshot] of the target
          rcv,       \* RunRelayReceive on the target, by task
          disk,      \* the archive published on the target
          faults

relay == <<row, age>>
spool == <<call, file, dir>>
history == <<runs, multipart, evidence>>
source == <<src, history>>
target == <<xfer, rcv, disk>>
relayVars == <<wf, gen, ctl, relay, cmd, spool, source, target, faults>>

NoRow == [st |-> "none", archive |-> 0, cipher |-> 0, path |-> 0, lease |-> FALSE, gen |-> 0]
NoCall == [run |-> 0, op |-> "none", written |-> FALSE, deaf |-> FALSE]
NoSource == [pc |-> "idle", task |-> 0, run |-> 0, sent |-> 0, wait |-> FALSE]
NoReceive == [pc |-> "idle", archive |-> 0, cipher |-> 0]
Kinds == {"prepare", "receive", "start"}
Terminal == {"succeeded", "failed"}
Ended == {"consumed", "expired"}
Kept == {"stored", "downloading", "consumed"}
Moving == {"transferring", "verifying", "publishing"}

RelayInit ==
    /\ wf = [st |-> "open", task |-> 1, retries |-> 0, prepared |-> TRUE] /\ gen = 1
    /\ ctl = [at |-> "begin", archive |-> 0, asked |-> FALSE]
    /\ row = [t \in Tasks |-> NoRow] /\ age = [t \in Tasks |-> "fresh"]
    /\ cmd = [c \in Kinds \X Tasks |-> [st |-> "none", archive |-> 0]]
    /\ call = [i \in Calls |-> NoCall] /\ file = [i \in Calls |-> 0] /\ dir = [r \in Runs |-> -1]
    /\ src = NoSource /\ runs = <<>> /\ multipart \in Protocols /\ evidence \in Evidence
    /\ xfer = [st |-> "none", task |-> 0, archive |-> 0]
    /\ rcv = [t \in Tasks |-> NoReceive] /\ disk = 0
    /\ faults = 0

Fault == faults < MaxFaults /\ faults' = faults + 1
Open == wf.st \notin Terminal

\* The workflow is past quiescing without a prepared capability: nothing replaces
\* it, and without it no retry can be scheduled.
Stuck == wf.st \in Moving /\ ~wf.prepared

TaskOf(r) == runs[r].task
ArchiveOf(r) == runs[r].archive

\* The row may be used: it is of the active generation and has not expired.
Fresh(t) == row[t].gen = gen /\ age[t] = "fresh"

---------------------------------------------------------------------------
(* The Controller's worker.                                                *)

Go(pc) == ctl' = [ctl EXCEPT !.at = pc]
Set(k, t, st, a) == cmd' = [cmd EXCEPT ![<<k, t>>] = [st |-> st, archive |-> a]]
Command(k) == cmd[<<k, wf.task>>]
Answered(k) == Command(k).st \in {"ok", "failed"} /\ UNCHANGED faults
TimesOut(k) == Command(k).st \in {"queued", "running"} /\ Fault
Enqueue(k) == IF Command(k).st = "none" THEN Set(k, wf.task, "queued", 0) ELSE UNCHANGED cmd

\* The fence of a retry: every task that has not ended expires now.
Fenced == [t \in Tasks |-> IF row[t].st \in Ended \cup {"none"} \/ age[t] = "old" THEN age[t] ELSE "due"]

Resume == wf' = [wf EXCEPT !.st = "open"] /\ age' = Fenced

\* executeSnapshotWorkflow and executeConflictResolution.  A waiting workflow is
\* resumed and read again (ResumeSnapshotRetry), and a capability that is not
\* prepared is replaced while the workflow is quiescing (RotateSnapshotCapability),
\* past it the attempt is given up.
Begin ==
    /\ ctl.at = "begin" /\ Open
    /\ CASE wf.st = "waiting" -> Resume /\ UNCHANGED ctl
         [] wf.st = "publishing" -> Go("receipt") /\ UNCHANGED <<wf, age>>
         [] wf.st = "open" -> wf' = [wf EXCEPT !.prepared = TRUE] /\ Go("relay") /\ UNCHANGED age
         [] OTHER -> Go(IF wf.prepared THEN "relay" ELSE "retry") /\ UNCHANGED <<wf, age>>
    /\ UNCHANGED <<gen, row, cmd, spool, source, target, faults>>

\* prepareSnapshotRelay: the attempt's task is created, or found and, but for
\* evidence, still usable.
PrepareSnapshotRelay ==
    LET t == wf.task IN
    /\ ctl.at = "relay" /\ Open
    /\ IF row[t].st = "none"
       THEN row' = [row EXCEPT ![t] = [NoRow EXCEPT !.st = "prepared", !.gen = gen]] /\ Go("prepare")
       ELSE /\ Go(IF evidence \/ (row[t].st # "expired" /\ age[t] = "fresh") THEN "prepare" ELSE "retry")
            /\ UNCHANGED row
    /\ UNCHANGED <<wf, gen, age, cmd, spool, source, target, faults>>

\* recoverOrRetryRelaySnapshot: a publishing target may have a receipt;
\* recoverConflictTransferReceipt asks for one in any case.
RecoverOrRetry == Go(IF evidence \/ wf.st = "publishing" THEN "receipt" ELSE "retry")

\* The target prepares and is told to receive, then the source to send; evidence
\* is received once it is stored.
SendCommands ==
    /\ \/ ctl.at = "prepare" /\ Command("prepare").st = "none" /\ Enqueue("prepare")
          /\ UNCHANGED <<ctl, faults>>
       \/ /\ ctl.at = "prepare" /\ (Answered("prepare") \/ TimesOut("prepare"))
          /\ CASE Command("prepare").st = "ok" ->
                    Go("send") /\ (IF evidence THEN UNCHANGED cmd ELSE Enqueue("receive"))
               [] Command("prepare").st # "ok" ->
                    Go(IF evidence THEN "receipt" ELSE "retry") /\ UNCHANGED cmd
       \/ ctl.at = "send" /\ Enqueue("start") /\ Go("source") /\ UNCHANGED faults
    /\ UNCHANGED <<wf, gen, relay, spool, source, target>>

AwaitSource ==
    /\ ctl.at = "source" /\ (Answered("start") \/ TimesOut("start"))
    /\ IF Command("start").st = "ok"
       THEN ctl' = [ctl EXCEPT !.at = "target", !.archive = Command("start").archive] /\ Enqueue("receive")
       ELSE RecoverOrRetry /\ UNCHANGED cmd
    /\ UNCHANGED <<wf, gen, relay, spool, source, target>>

\* matchingRelayReceipts.
Matching == Command("receive").archive = ctl.archive

AwaitTarget ==
    /\ ctl.at = "target" /\ (Answered("receive") \/ TimesOut("receive"))
    /\ IF Command("receive").st # "ok" THEN RecoverOrRetry
       ELSE Go(IF Matching THEN "complete" ELSE "retry")
    /\ UNCHANGED <<wf, gen, relay, cmd, spool, source, target>>

\* loadPublishedSnapshotReceipt and recoverConflictTransferReceipt ask the target,
\* with one operation for an attempt, or for all attempts of evidence: refused once,
\* they are refused again.
Receipt == xfer.st = "published" /\ ~ctl.asked

LoadReceipt ==
    /\ ctl.at = "receipt"
    /\ \/ Receipt /\ Go("complete") /\ UNCHANGED faults
       \/ ~Receipt /\ ctl' = [ctl EXCEPT !.at = "retry", !.asked = TRUE] /\ UNCHANGED faults
       \/ Receipt /\ Fault /\ \E lost \in BOOLEAN : ctl' = [ctl EXCEPT !.at = "retry", !.asked = lost]
    /\ UNCHANGED <<wf, gen, relay, cmd, spool, source, target>>

\* completeSnapshotExecution consumes the prepared capability of a publishing
\* workflow; MarkConflictResolutionTransferComplete.
Complete ==
    /\ ctl.at = "complete"
    /\ wf' = [wf EXCEPT !.st = IF evidence \/ (wf.st = "publishing" /\ wf.prepared) THEN "succeeded" ELSE @]
    /\ Go("begin")
    /\ UNCHANGED <<gen, relay, cmd, spool, source, target, faults>>

\* A new attempt with a new task waits; a snapshot's capability is revoked.
NextAttempt(retry, at) ==
    /\ age' = Fenced
    /\ ctl' = [at |-> at, archive |-> 0, asked |-> evidence /\ ctl.asked]
    /\ wf' = [st |-> "waiting", task |-> wf.task + 1, retries |-> wf.retries + retry, prepared |-> evidence]

\* retrySnapshotWorkflow and retryConflictResolution.  ScheduleSnapshotRetry rolls
\* back unless it revokes a snapshot's prepared capability.
Retry ==
    /\ ctl.at = "retry" /\ Open
    /\ IF wf.prepared
       THEN NextAttempt(1, IF wf.retries + 1 >= RetryMax THEN "fail" ELSE "begin")
       ELSE Go("begin") /\ UNCHANGED <<wf, age>>
    /\ UNCHANGED <<gen, row, cmd, spool, source, target, faults>>

\* failSnapshotWorkflow and FailConflictResolution, a transaction of their own.
FailWorkflow ==
    /\ ctl.at = "fail"
    /\ wf' = [wf EXCEPT !.st = "failed"]
    /\ Go("begin")
    /\ UNCHANGED <<gen, relay, cmd, spool, source, target, faults>>

\* AdoptStaleSnapshotWorkflows marks the workflow for recovery.
\* AdoptStaleConflictResolutions starts it afresh, with a new task if it had one.
Adopt ==
    /\ ctl.at = "adopt" /\ Open
    /\ IF ~evidence THEN Go("recover") /\ UNCHANGED <<wf, age>>
       ELSE /\ age' = Fenced
            /\ wf' = [wf EXCEPT !.st = "open", !.task = IF \E t \in Tasks : row[t].st # "none" THEN @ + 1 ELSE @]
            /\ Go("begin")
    /\ UNCHANGED <<gen, row, cmd, spool, source, target, faults>>

\* recoverSnapshotAfterControllerGeneration: the target's receipt decides
\* (PrepareRecoveredSnapshotCompletion), or the attempt is abandoned, outside the
\* retry budget (ResetRecoveredSnapshotWorkflow).  Resuming clears the marker.
RecoverGeneration ==
    /\ ctl.at = "recover" /\ Open
    /\ CASE wf.st = "waiting" -> Resume /\ Go("begin")
         [] wf.st \in Moving /\ xfer.st = "published" ->
              wf' = [wf EXCEPT !.st = "publishing"] /\ age' = Fenced /\ Go("complete")
         [] OTHER -> NextAttempt(0, "begin")
    /\ UNCHANGED <<gen, row, cmd, spool, source, target, faults>>

WorkerStep ==
    \/ Begin \/ PrepareSnapshotRelay \/ SendCommands \/ AwaitSource \/ AwaitTarget
    \/ LoadReceipt \/ Complete \/ Retry \/ FailWorkflow \/ Adopt \/ RecoverGeneration

\* The Controller stops: its handlers are gone, what they have written stays.
ClientsHear == src' = IF src.wait /\ ~multipart THEN [src EXCEPT !.wait = FALSE, !.pc = "failed"]
                      ELSE [src EXCEPT !.wait = FALSE]
HandlersDie == call' = [i \in Calls |-> NoCall] /\ UNCHANGED <<file, dir>>

ControllerCrash ==
    /\ Open /\ Fault
    /\ ctl' = [ctl EXCEPT !.at = IF @ \in {"adopt", "recover"} THEN @ ELSE "begin", !.archive = 0]
    /\ HandlersDie /\ ClientsHear
    /\ UNCHANGED <<wf, gen, relay, cmd, history, target>>

Promote ==
    /\ gen < MaxEpoch /\ Open /\ Fault
    /\ gen' = gen + 1
    /\ ctl' = [ctl EXCEPT !.at = "adopt", !.archive = 0]
    /\ HandlersDie /\ ClientsHear
    /\ cmd' = [c \in DOMAIN cmd |-> IF cmd[c].st \in {"queued", "running"}
                                    THEN [cmd[c] EXCEPT !.st = "failed"] ELSE cmd[c]]
    /\ UNCHANGED <<wf, relay, history, target>>

---------------------------------------------------------------------------
(* The relay: upload.                                                      *)

\* Mutant: any archive may go into an upload that is under way.
GrantsAny(t, a) == Fresh(t) /\ row[t].st \in {"prepared", "uploading"}

\* ClaimRelayMultipartUpload: the owner may claim again while it uploads, for
\* the archive of the first claim.
GrantsMultipart(t, a) ==
    Fresh(t) /\ row[t].st \in {"prepared", "uploading"} /\ row[t].archive \in {0, a}

\* ClaimRelayUpload takes a prepared task only.  Its other case, an upload
\* whose lease has lapsed, never arises: a claim's lease ends a retention from
\* now, which is past the task's expires_at.
Grants(t, a) == Fresh(t) /\ row[t].st = "prepared" /\ row[t].archive \in {0, a}

\* ... and both return the fact to an exact retry of what is stored.
Replays(t, a) == Fresh(t) /\ row[t].st \in Kept /\ row[t].archive = a

Claim(t, a) == row' = [row EXCEPT ![t].st = "uploading", ![t].archive = a]

ReleaseRelayUpload(t) ==
    IF row[t].st = "uploading" /\ row[t].gen = gen
    THEN row' = [row EXCEPT ![t].st = "prepared", ![t].archive = 0] ELSE UNCHANGED row

CanStore(t) == Fresh(t) /\ row[t].st = "uploading" /\ row[t].cipher = 0

\* CompleteRelayUpload.
Store(i) ==
    row' = [row EXCEPT ![TaskOf(call[i].run)].st = "stored",
                       ![TaskOf(call[i].run)].cipher = call[i].run,
                       ![TaskOf(call[i].run)].path = i]

FreeCalls == {i \in Calls : call[i] = NoCall /\ file[i] = 0 /\ \A t \in Tasks : row[t].path # i}
NextCall == CHOOSE i \in FreeCalls : \A j \in FreeCalls : i <= j
Accept(op) ==
    /\ FreeCalls # {}
    /\ call' = [call EXCEPT ![NextCall] = [NoCall EXCEPT !.run = src.run, !.op = op]]
    /\ src' = [src EXCEPT !.wait = TRUE]

\* The answer reaches the run unless its client has gone.
Reply(i, next) ==
    /\ call' = [call EXCEPT ![i] = NoCall]
    /\ src' = IF call[i].deaf THEN src ELSE next
Again == [src EXCEPT !.wait = FALSE]
Sent == [src EXCEPT !.wait = FALSE, !.sent = @ + 1]
Uploaded == [src EXCEPT !.wait = FALSE, !.pc = "stored"]
Refused == [src EXCEPT !.wait = FALSE, !.pc = "failed"]

At(pc) == src.pc = pc /\ ~src.wait
Mine == src.task
Archive == ArchiveOf(src.run)

\* beginRelayMultipartUpload and handleMultipartStart, or the legacy upload of
\* an Agent or a relay without the multipart protocol.
BeginUpload ==
    /\ At("begin")
    /\ IF multipart
       THEN /\ CASE GrantsMultipart(Mine, Archive) ->
                      /\ Claim(Mine, Archive)
                      /\ dir' = [dir EXCEPT ![src.run] = IF @ = -1 THEN 0 ELSE @]
                      /\ src' = [src EXCEPT !.pc = "parts"]
                 [] Replays(Mine, Archive) -> src' = Uploaded /\ UNCHANGED <<row, dir>>
                 [] OTHER -> src' = Refused /\ UNCHANGED <<row, dir>>
            /\ UNCHANGED call
       ELSE /\ CASE Grants(Mine, Archive) -> Claim(Mine, Archive) /\ Accept("put")
                 [] Replays(Mine, Archive) -> src' = Uploaded /\ UNCHANGED <<row, call>>
                 [] OTHER -> src' = Refused /\ UNCHANGED <<row, call>>
            /\ UNCHANGED dir
    /\ UNCHANGED <<wf, gen, ctl, age, cmd, file, history, target, faults>>

\* uploadRelayMultipartPart: every request claims before it writes.
UploadPart ==
    /\ At("parts") /\ src.sent < Parts
    /\ CASE GrantsMultipart(Mine, Archive) -> Claim(Mine, Archive) /\ Accept("part")
         [] Replays(Mine, Archive) -> src' = Sent /\ UNCHANGED <<row, call>>
         [] OTHER -> src' = Refused /\ UNCHANGED <<row, call>>
    /\ UNCHANGED <<wf, gen, ctl, age, cmd, file, dir, history, target, faults>>

\* handleMultipartUploadPart: a part is linked once, into the session's own
\* directory, which is made again if it has gone.
LinkPart(i) ==
    LET r == call[i].run IN
    /\ call[i].op = "part"
    /\ dir' = [dir EXCEPT ![r] = IF dir[r] = -1 THEN 1 ELSE IF dir[r] < Parts THEN @ + 1 ELSE @]
    /\ Reply(i, Sent)
    /\ UNCHANGED <<wf, gen, ctl, relay, cmd, file, history, target, faults>>

\* completeRelayMultipartUpload; a stored task must hold this very ciphertext.
CompleteUpload ==
    /\ At("parts") /\ src.sent = Parts
    /\ CASE GrantsMultipart(Mine, Archive) -> Claim(Mine, Archive) /\ Accept("complete")
         [] Replays(Mine, Archive) ->
              /\ src' = IF row[Mine].cipher = src.run THEN Uploaded ELSE Refused
              /\ UNCHANGED <<row, call>>
         [] OTHER -> src' = Refused /\ UNCHANGED <<row, call>>
    /\ UNCHANGED <<wf, gen, ctl, age, cmd, file, dir, history, target, faults>>

\* handleMultipartUploadComplete puts the parts together, handleUpload copies
\* the body; a missing part is asked for again.
WriteCiphertext(i) ==
    /\ call[i].op \in {"complete", "put"} /\ ~call[i].written
    /\ IF call[i].op = "put" \/ dir[call[i].run] = Parts
       THEN /\ file' = [file EXCEPT ![i] = call[i].run]
            /\ call' = [call EXCEPT ![i].written = TRUE]
            /\ UNCHANGED src
       ELSE Reply(i, Again) /\ UNCHANGED file
    /\ UNCHANGED <<wf, gen, ctl, relay, cmd, dir, history, target, faults>>

StoreCiphertext(i) ==
    LET t == TaskOf(call[i].run) IN
    /\ call[i].written
    /\ IF CanStore(t)
       THEN /\ Store(i)
            /\ dir' = [dir EXCEPT ![call[i].run] = -1]
            /\ Reply(i, Uploaded)
            /\ UNCHANGED file
       ELSE /\ IF call[i].op = "put" THEN ReleaseRelayUpload(t) ELSE UNCHANGED row
            /\ file' = [file EXCEPT ![i] = 0]
            /\ Reply(i, Refused)
            /\ UNCHANGED dir
    /\ UNCHANGED <<wf, gen, ctl, age, cmd, history, target, faults>>

\* The request is cut off: the client hears nothing, and its handler goes on
\* or, its context cancelled, gives up and removes its file.  Cancelled in the
\* middle of its last statement, it does so although the row says stored.
ClientGone(i) ==
    /\ call[i].run # 0 /\ ~call[i].deaf /\ Fault
    /\ call' = [call EXCEPT ![i].deaf = TRUE]
    /\ src' = IF call[i].op = "put" THEN Refused ELSE Again
    /\ UNCHANGED <<wf, gen, ctl, relay, cmd, file, dir, history, target>>

GiveUp(i) ==
    LET t == TaskOf(call[i].run) IN
    /\ call[i].deaf
    /\ call' = [call EXCEPT ![i] = NoCall]
    /\ file' = [file EXCEPT ![i] = 0]
    /\ \/ UNCHANGED row
       \/ call[i].op = "put" /\ ReleaseRelayUpload(t)
       \/ call[i].written /\ CanStore(t) /\ Store(i)
    /\ UNCHANGED <<wf, gen, ctl, age, cmd, dir, source, target, faults>>

HandlerStep == \E i \in Calls : LinkPart(i) \/ WriteCiphertext(i) \/ StoreCiphertext(i) \/ GiveUp(i)

---------------------------------------------------------------------------
(* The source Agent.                                                       *)

\* SetSnapshotWorkflowProgress takes a report in its turn, or again, once the
\* workflow is of the active generation; evidence is sent without reports.
Takes(from, to) == evidence \/ (ctl.at # "adopt" /\ wf.st \in {from, to})
Report(to) == wf' = IF evidence THEN wf ELSE [wf EXCEPT !.st = to]

\* start_snapshot and start_conflict_evidence_transfer: one run at a time.  The
\* source's reports up to transferring are one step, and it uploads; started again
\* past quiescing, a snapshot is refused its first report.
StartRun(t) ==
    /\ cmd[<<"start", t>>].st = "queued"
    /\ IF src.pc = "idle" /\ Len(runs) < MaxRun /\ Takes("open", "open")
       THEN /\ \E a \in Archives : runs' = Append(runs, [task |-> t, archive |-> a])
            /\ src' = [NoSource EXCEPT !.pc = "begin", !.task = t, !.run = Len(runs) + 1]
            /\ Report("transferring")
            /\ Set("start", t, "running", 0)
       ELSE Set("start", t, "failed", 0) /\ UNCHANGED <<wf, src, runs>>
    /\ UNCHANGED <<multipart, evidence, gen, ctl, relay, spool, target, faults>>

EndRun ==
    /\ src.pc \in {"stored", "failed"}
    /\ IF cmd[<<"start", Mine>>].st # "running" THEN UNCHANGED cmd
       ELSE IF src.pc = "stored" THEN Set("start", Mine, "ok", Archive)
       ELSE Set("start", Mine, "failed", 0)
    /\ src' = NoSource
    /\ UNCHANGED <<wf, gen, ctl, relay, spool, history, target, faults>>

\* The Agent restarts; the command is delivered again.
SourceCrash ==
    /\ src.pc # "idle" /\ Fault
    /\ call' = [i \in Calls |-> IF call[i].run = src.run THEN [call[i] EXCEPT !.deaf = TRUE] ELSE call[i]]
    /\ cmd' = [cmd EXCEPT ![<<"start", Mine>>].st = IF @ = "running" THEN "queued" ELSE @]
    /\ src' = NoSource
    /\ UNCHANGED <<wf, gen, ctl, relay, file, dir, history, target>>

SourceStep == (\E t \in Tasks : StartRun(t)) \/ BeginUpload \/ UploadPart \/ CompleteUpload \/ EndRun

---------------------------------------------------------------------------
(* The relay: download, and the target Agent.                              *)

ClaimRelayDownload(t) ==
    Fresh(t) /\ (row[t].st = "stored" \/ (row[t].st = "downloading" /\ ~row[t].lease))

ContinueRelayDownload(t) == Fresh(t) /\ row[t].st = "downloading" /\ row[t].lease

\* Mutant: a task that expired unread is not reported as over.
GoneConsumed(t) == row[t].st = "consumed"

\* The relay answers that the task is over.
Gone(t) == row[t].st \in Ended \/ age[t] # "fresh"

\* validRelayStoragePath.
OnSpool(t) == row[t].path # 0 /\ file[row[t].path] # 0

\* prepareRelayTransfer: what is received or published is not replaced.
PrepareRelayTransfer(t) ==
    /\ cmd[<<"prepare", t>>].st = "queued"
    /\ IF xfer.st \in {"none", "prepared"} \/ (xfer.st = "failed" /\ xfer.task # t)
       THEN /\ xfer' = [st |-> "prepared", task |-> t, archive |-> 0]
            /\ Set("prepare", t, "ok", 0)
       ELSE Set("prepare", t, "failed", 0) /\ UNCHANGED xfer
    /\ UNCHANGED <<wf, gen, ctl, relay, spool, source, rcv, disk, faults>>

\* RunRelayReceive: a receipt is replayed; else relayTransfer must find the task.
StartReceive(t) ==
    /\ cmd[<<"receive", t>>].st = "queued"
    /\ IF xfer.st = "published" \/ (xfer.st = "prepared" /\ xfer.task = t)
       THEN /\ rcv' = [rcv EXCEPT ![t].pc = IF xfer.st = "published" THEN "confirm" ELSE "pull"]
            /\ Set("receive", t, "running", 0)
       ELSE Set("receive", t, "failed", 0) /\ UNCHANGED rcv
    /\ UNCHANGED <<wf, gen, ctl, relay, spool, source, xfer, disk, faults>>

Receiving(t, pc) == rcv' = [rcv EXCEPT ![t].pc = pc]

\* The command ends without a receipt; failTransferIfIncomplete then fails the
\* snapshot's transfer, whichever attempt it is of.
Incomplete(x) == IF x.st \in {"prepared", "consumed"} THEN [x EXCEPT !.st = "failed"] ELSE x

ReceiveFails(t, x) ==
    /\ IF cmd[<<"receive", t>>].st = "running" THEN Set("receive", t, "failed", 0) ELSE UNCHANGED cmd
    /\ rcv' = [rcv EXCEPT ![t] = NoReceive]
    /\ xfer' = Incomplete(x)

\* finishTransfer writes the state over whatever is there.
Failed == [xfer EXCEPT !.st = "failed"]

\* pullRelayMultipartManifest and handleMultipartDownloadManifest, or
\* pullRelayCiphertextLegacy and handleDownload: until the ciphertext is there.
PullCiphertext(t) ==
    /\ rcv[t].pc = "pull"
    /\ IF ClaimRelayDownload(t) \/ (multipart /\ ContinueRelayDownload(t))
       THEN IF OnSpool(t)
            THEN /\ row' = [row EXCEPT ![t].st = "downloading", ![t].lease = TRUE]
                 /\ rcv' = [rcv EXCEPT ![t] = [pc |-> "consume", archive |-> row[t].archive,
                                               cipher |-> file[row[t].path]]]
                 /\ UNCHANGED <<cmd, xfer>>
            ELSE /\ row' = [row EXCEPT ![t].st = "stored", ![t].lease = FALSE]
                 /\ ReceiveFails(t, xfer)
       ELSE Gone(t) /\ ReceiveFails(t, xfer) /\ UNCHANGED row
    /\ UNCHANGED <<wf, gen, ctl, age, spool, source, disk, faults>>

\* consumeTransfer: the capability must be the attempt's own; evidence keeps its.
ConsumeTransfer(t) ==
    /\ rcv[t].pc = "consume"
    /\ IF xfer.st = "prepared" /\ (evidence \/ xfer.task = t)
       THEN xfer' = [xfer EXCEPT !.st = "consumed"] /\ Receiving(t, "body") /\ UNCHANGED cmd
       ELSE ReceiveFails(t, xfer)
    /\ UNCHANGED <<wf, gen, ctl, relay, spool, source, disk, faults>>

\* downloadRelayMultipartPart and handleMultipartDownloadPart need the lease
\* and the file for every part; a legacy body streams from the open file.
Arrives(t) == multipart => ContinueRelayDownload(t) /\ OnSpool(t)

\* DecryptRelayStream gives back the archive to the task it was encrypted for.
Decrypted(t) == IF TaskOf(rcv[t].cipher) = t THEN ArchiveOf(rcv[t].cipher) ELSE 0

\* ReceiveSnapshot takes in the body, compares the digest and reports verifying.
ReceiveBody(t) ==
    /\ rcv[t].pc = "body"
    /\ IF Arrives(t) /\ Decrypted(t) = rcv[t].archive /\ Takes("transferring", "verifying")
       THEN Report("verifying") /\ Receiving(t, "verified") /\ UNCHANGED <<cmd, xfer>>
       ELSE ReceiveFails(t, Failed) /\ UNCHANGED wf
    /\ UNCHANGED <<gen, ctl, relay, spool, source, disk, faults>>

\* Under replicaMutationMu: the report of publishing, then the exchange.
ReportPublishing(t) ==
    /\ rcv[t].pc = "verified" /\ \A u \in Tasks : rcv[u].pc # "fenced"
    /\ IF Takes("verifying", "publishing")
       THEN Report("publishing") /\ Receiving(t, "fenced") /\ UNCHANGED <<cmd, xfer>>
       ELSE ReceiveFails(t, Failed) /\ UNCHANGED wf
    /\ UNCHANGED <<gen, ctl, relay, spool, source, disk, faults>>

Exchange(t) ==
    /\ rcv[t].pc = "fenced"
    /\ disk' = rcv[t].archive
    /\ Receiving(t, "exchanged")
    /\ UNCHANGED <<wf, gen, ctl, relay, cmd, spool, source, xfer, faults>>

\* publishTransfer.
PublishTransfer(t) ==
    /\ rcv[t].pc = "exchanged"
    /\ IF xfer.st = "consumed"
       THEN xfer' = [xfer EXCEPT !.st = "published", !.archive = rcv[t].archive]
            /\ Receiving(t, "confirm") /\ UNCHANGED cmd
       ELSE ReceiveFails(t, xfer)
    /\ UNCHANGED <<wf, gen, ctl, relay, spool, source, disk, faults>>

\* completeRelayDownload and CompleteRelayDownload, which a consumed task
\* answers too; handleComplete then removes the file, and ignores that it cannot.
ConfirmDownload(t) ==
    /\ rcv[t].pc = "confirm"
    /\ IF row[t].gen = gen /\ row[t].st \in {"downloading", "consumed"}
       THEN /\ row' = [row EXCEPT ![t].st = "consumed", ![t].lease = FALSE]
            /\ IF cmd[<<"receive", t>>].st = "running"
               THEN Set("receive", t, "ok", xfer.archive) ELSE UNCHANGED cmd
            /\ rcv' = [rcv EXCEPT ![t] = NoReceive]
            /\ file' \in {file, [file EXCEPT ![row[t].path] = 0]}
            /\ UNCHANGED xfer
       ELSE ReceiveFails(t, xfer) /\ UNCHANGED <<row, file>>
    /\ UNCHANGED <<wf, gen, ctl, age, call, dir, source, disk, faults>>

\* A receive in progress breaks: the connection, the disk, or its lease, which
\* maintainRelayDownloadLease could not renew in time.
ReceiveBreaks(t) ==
    /\ rcv[t].pc \in {"pull", "consume", "body", "verified", "fenced", "confirm"} /\ Fault
    /\ ReceiveFails(t, IF rcv[t].pc \in {"body", "verified", "fenced"} THEN Failed ELSE xfer)
    /\ UNCHANGED <<wf, gen, ctl, relay, spool, source, disk>>

\* download_lease_until passes; RenewRelayDownload keeps a receive's ahead.
LeaseLapses(t) ==
    /\ row[t].lease
    /\ IF rcv[t].pc \in {"idle", "pull"} THEN UNCHANGED faults ELSE Fault
    /\ row' = [row EXCEPT ![t].lease = FALSE]
    /\ UNCHANGED <<wf, gen, ctl, age, cmd, spool, source, target>>

\* loadRuntimeState re-arms an interrupted transfer unless it has expired.
TargetCrash ==
    /\ \E t \in Tasks : rcv[t].pc # "idle"
    /\ Fault
    /\ rcv' = [t \in Tasks |-> NoReceive]
    /\ xfer' \in IF xfer.st = "consumed" THEN {[xfer EXCEPT !.st = s] : s \in {"prepared", "failed"}} ELSE {xfer}
    /\ cmd' = [c \in DOMAIN cmd |-> IF c[1] = "receive" /\ cmd[c].st = "running"
                                    THEN [cmd[c] EXCEPT !.st = "queued"] ELSE cmd[c]]
    /\ UNCHANGED <<wf, gen, ctl, relay, spool, source, disk>>

TargetStep ==
    \E t \in Tasks :
       \/ PrepareRelayTransfer(t) \/ StartReceive(t) \/ PullCiphertext(t) \/ ConsumeTransfer(t)
       \/ ReceiveBody(t) \/ ReportPublishing(t) \/ Exchange(t) \/ PublishTransfer(t)
       \/ ConfirmDownload(t)

---------------------------------------------------------------------------
(* Time and the relay's cleanup.                                           *)

\* A task's retention ends, at the latest long after its workflow.
Expires(t) ==
    /\ row[t].st # "none" /\ age[t] = "fresh"
    /\ IF Open /\ wf.task = t THEN Fault ELSE UNCHANGED faults
    /\ age' = [age EXCEPT ![t] = "due"]
    /\ UNCHANGED <<wf, gen, ctl, row, cmd, spool, source, target>>

\* Nothing of the task is still being written.
Ages(t) ==
    /\ age[t] = "due" /\ (Open => Stuck)
    /\ \A i \in Calls : call[i] # NoCall => TaskOf(call[i].run) # t
    /\ age' = [age EXCEPT ![t] = "old"]
    /\ UNCHANGED <<wf, gen, ctl, row, cmd, spool, source, target, faults>>

\* ExpireRelayTransfers and the removal of the files it returns, which may fail
\* and is not tried again.
ExpireRelayTransfers(t) ==
    /\ age[t] # "fresh" /\ row[t].st \notin Ended \cup {"none"}
    /\ row' = [row EXCEPT ![t].st = "expired", ![t].lease = FALSE]
    /\ file' \in {file, [i \in Calls |-> IF i = row[t].path THEN 0 ELSE file[i]]}
    /\ UNCHANGED <<wf, gen, ctl, age, cmd, call, dir, source, target, faults>>

\* Mutant: only the directories are swept.
SweepsDirectories(t) ==
    /\ UNCHANGED file
    /\ dir' = [r \in Runs |-> IF r \in DOMAIN runs /\ TaskOf(r) = t THEN -1 ELSE dir[r]]

\* Cleanup's second half: whatever an upload left and nobody has touched for
\* twice the retention.
Sweeps(t) ==
    /\ file' = [i \in Calls |-> IF file[i] # 0 /\ TaskOf(file[i]) = t THEN 0 ELSE file[i]]
    /\ dir' = [r \in Runs |-> IF r \in DOMAIN runs /\ TaskOf(r) = t THEN -1 ELSE dir[r]]

Cleanup(t) ==
    \/ ExpireRelayTransfers(t)
    \/ /\ age[t] = "old" /\ Sweeps(t)
       /\ UNCHANGED <<wf, gen, ctl, relay, cmd, call, source, target, faults>>

TimePasses == \E t \in Tasks : LeaseLapses(t) \/ Expires(t) \/ Ages(t) \/ Cleanup(t)

RelayNext ==
    \/ WorkerStep \/ ControllerCrash \/ Promote
    \/ HandlerStep \/ \E i \in Calls : ClientGone(i)
    \/ SourceStep \/ SourceCrash
    \/ TargetStep \/ (\E t \in Tasks : ReceiveBreaks(t)) \/ TargetCrash
    \/ TimePasses

RelaySpec == RelayInit /\ [][RelayNext]_relayVars

RelayFairSpec ==
    /\ RelaySpec
    /\ WF_relayVars(WorkerStep) /\ WF_relayVars(HandlerStep)
    /\ WF_relayVars(SourceStep) /\ WF_relayVars(TargetStep) /\ WF_relayVars(TimePasses)

---------------------------------------------------------------------------
(* Properties.                                                             *)

\* What the relay hands out under a digest is one run's ciphertext of the
\* archive with that digest, whatever runs, sessions and late handlers share
\* the task (ClaimRelayMultipartUpload, CompleteRelayUpload).
StoredIsConsistent ==
    \A t \in Tasks : row[t].cipher # 0 =>
       /\ TaskOf(row[t].cipher) = t
       /\ row[t].st # "expired" => ArchiveOf(row[t].cipher) = row[t].archive

\* A receipt describes the disk.
ReceiptIsDisk == xfer.st = "published" => disk = xfer.archive

\* Nothing stays in the spool directory for ever (handleComplete, Cleanup).
SpoolDrains == <>[](\A i \in Calls : file[i] = 0 /\ \A r \in Runs : dir[r] = -1)

\* The workflow ends, or is stuck for ever: nothing else keeps it from its end, not
\* a target that polls for a task which is over, a lost answer, a Controller that
\* stops before it records the failure, or a promotion, which costs no retry
\* (Gone, retrySnapshotWorkflow, ResetRecoveredSnapshotWorkflow).
RelayEnds == <>(~Open) \/ <>[]Stuck

\* Does not hold: an abandoned attempt's command, delivered late, moves the
\* workflow past quiescing before the new attempt has its capability.
RelayEndsAnyway == <>(~Open)
=============================================================================
