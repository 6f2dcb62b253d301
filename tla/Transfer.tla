----------------------------- MODULE Transfer -----------------------------
(***************************************************************************)
(* One snapshot workflow from its scheduling to its end, over the direct   *)
(* data plane: the Controller's workers (controller/backup.go), the        *)
(* workflow, capability and job rows (store/snapshots.go,                  *)
(* store/backups.go), the source Agent that freezes, copies and sends the  *)
(* user's tree and the target Agent that verifies and publishes it         *)
(* (agent/snapshot.go, agent/runtime_state.go), and the adapter's write    *)
(* gate, which is external.                                                *)
(*                                                                         *)
(* A tree is known by the number of writes it contains.  Every transaction *)
(* and every request is a step; a worker's lease may lapse under it, so    *)
(* two workers may drive the workflow; Agents and Controller may crash     *)
(* between any two steps.  Commands are known by the operation id the      *)
(* Controller derives for them (module CommandQueue has their delivery).   *)
(***************************************************************************)
EXTENDS Integers, FiniteSets

CONSTANTS Workers, NoWorker,
          RetryMax,         \* Cfg.Backup.RetryMax
          MaxCap, MaxGen, MaxWrites,
          MaxFaults         \* crashes, losses, timeouts and lapses together

ASSUME TransferAssumption ==
    /\ NoWorker \notin Workers
    /\ RetryMax \in Nat \ {0} /\ MaxCap \in Nat \ {0} /\ MaxGen \in Nat \ {0}
    /\ MaxWrites \in Nat /\ MaxFaults \in Nat

VARIABLES state,     \* workflows.state
          wf,        \* the rest of the workflows row
          stepDone,  \* its prepare_target step has succeeded
          lease,     \* lease_owner while lease_until is ahead
          cap,       \* its newest transfer capability
          job,       \* backup_jobs.status
          row,       \* the tree replica_copies names on the target
          gen,       \* the active controller generation
          cmd,       \* agent_commands by operation id: the state
          answer,    \* ... and the tree of the receipt in the result
          at,        \* each worker: where it is,
          exec,      \* ... the execution it has loaded
          got,       \* ... and the tree of the receipt it holds
          data,      \* the user's tree on the source
          gate,      \* the adapter's write gate (external)
          src,       \* RunSnapshot on the source
          tomb,      \* CancelledBackups has the job
          xfer,      \* Transfers[snapshot] of the target's runtime state
          rcv,       \* ReceiveSnapshot on the target
          disk,      \* the tree under the replica's final path
          faults

store == <<state, wf, stepDone, lease, cap, job, row, gen>>
source == <<data, gate, src, tomb>>
target == <<xfer, rcv, disk>>
queue == <<cmd, answer>>
wk == <<at, exec, got>>
vars == <<store, queue, wk, source, target, faults>>

Torn == -1
Trees == Nat \cup {Torn}
Caps == 1..MaxCap
Terminal == {"succeeded", "failed", "cancelled"}
Phases == {"scheduled", "quiescing", "drained", "snapshotting", "transferring",
           "verifying", "publishing", "retry_wait"}
Execution == [state : Phases \cup Terminal, attempt : Nat, recov : Nat, recovery : BOOLEAN,
              gen : 1..MaxGen, cap : Caps, prepared : BOOLEAN]
Ops == ({"prepare", "start", "receipt"} \X Caps \X {0}) \cup ({"recover"} \X Caps \X (1..MaxGen))
NoExecution == [state |-> "scheduled", attempt |-> 0, recov |-> 0, recovery |-> FALSE,
                gen |-> 1, cap |-> 1, prepared |-> TRUE]
NoRun == [pc |-> "idle", cap |-> 1, base |-> 0, copy |-> 0, live |-> FALSE]
NoReceive == [pc |-> "idle", c |-> 0]
Calls == {"prepare", "start", "receipt", "recover"}

Init ==   \* CreateSnapshotWorkflow has committed
    /\ state = "scheduled"
    /\ wf = [attempt |-> 0, recov |-> 0, recovery |-> FALSE, gen |-> 1]
    /\ stepDone = FALSE /\ lease = NoWorker
    /\ cap = [id |-> 1, st |-> "prepared"]
    /\ job = "pending" /\ row = 0 /\ gen = 1
    /\ cmd = [op \in Ops |-> "none"] /\ answer = [op \in Ops |-> 0]
    /\ at = [w \in Workers |-> "idle"] /\ got = [w \in Workers |-> 0]
    /\ exec = [w \in Workers |-> NoExecution]
    /\ data = 0 /\ gate = "open" /\ src = NoRun /\ tomb = FALSE
    /\ xfer = [st |-> "none", cap |-> 1, c |-> 0]
    /\ rcv = NoReceive /\ disk = 0
    /\ faults = 0

Fault == faults < MaxFaults /\ faults' = faults + 1
Open == state \notin Terminal
Current == Open /\ wf.gen = gen

---------------------------------------------------------------------------
(* The Controller's workers.                                               *)

Snapshot ==
    [state |-> state, attempt |-> wf.attempt, recov |-> wf.recov, recovery |-> wf.recovery,
     gen |-> wf.gen, cap |-> cap.id, prepared |-> cap.st = "prepared"]

Go(w, pc) == at' = [at EXCEPT ![w] = pc] /\ UNCHANGED <<exec, got>>

GoWith(w, pc, x, c) ==
    /\ at' = [at EXCEPT ![w] = pc]
    /\ exec' = [exec EXCEPT ![w] = x]
    /\ got' = [got EXCEPT ![w] = c]

Rest(w) == GoWith(w, "idle", NoExecution, 0)

\* The worker returns; its deferred ReleaseSnapshotWorkflow clears its own lease.
Return(w) ==
    /\ Rest(w)
    /\ lease' = IF lease = w THEN NoWorker ELSE lease

Claim(w) ==
    /\ at[w] = "idle" /\ Current /\ lease = NoWorker
    /\ lease' = w
    /\ GoWith(w, "load", Snapshot, 0)
    /\ UNCHANGED <<state, wf, stepDone, cap, job, row, gen, queue, source, target, faults>>

\* GetSnapshotWorkflowExecution; a waiting workflow is resumed and read again.
Load(w) ==
    /\ at[w] = "load"
    /\ IF state = "retry_wait"
       THEN /\ state' = "quiescing"
            /\ wf' = [wf EXCEPT !.recovery = FALSE]
            /\ UNCHANGED wk
       ELSE GoWith(w, "exec", Snapshot, 0) /\ UNCHANGED <<state, wf>>
    /\ UNCHANGED <<stepDone, lease, cap, job, row, gen, queue, source, target, faults>>

\* A node is not ready: the workflow is put off as it stands.
Defer(w) ==
    /\ at[w] = "exec" /\ Current /\ Fault
    /\ Rest(w)
    /\ lease' = NoWorker
    /\ UNCHANGED <<state, wf, stepDone, cap, job, row, gen, queue, source, target>>

\* An unavailable node record or target account before the capability check.
ExecFails(w) ==
    /\ at[w] = "exec" /\ Fault
    /\ Go(w, "retry")
    /\ UNCHANGED <<store, queue, source, target>>

Recover(w) ==
    /\ at[w] = "exec" /\ exec[w].recovery
    /\ Go(w, IF exec[w].state \in {"transferring", "verifying", "publishing"}
             THEN "recover" ELSE "reset")
    /\ UNCHANGED <<store, queue, source, target, faults>>

SetQuiescing(w) ==
    /\ at[w] = "exec" /\ ~exec[w].recovery /\ exec[w].state = "scheduled"
    /\ IF state = "scheduled" /\ wf.gen = gen
       THEN /\ state' = "quiescing"
            /\ GoWith(w, "exec", [exec[w] EXCEPT !.state = "quiescing"], 0)
            /\ UNCHANGED lease
       ELSE Return(w) /\ UNCHANGED state
    /\ UNCHANGED <<wf, stepDone, cap, job, row, gen, queue, source, target, faults>>

\* Past the readiness checks: fetch the receipt, use the capability, replace
\* it, or give the attempt up.
Begin(w) ==
    LET x == exec[w] IN
    /\ at[w] = "exec" /\ ~x.recovery /\ x.state # "scheduled"
    /\ \/ x.state = "publishing" /\ Go(w, "receipt") /\ UNCHANGED <<cap, faults>>
       \/ x.state # "publishing" /\ x.prepared /\ Go(w, "prepare") /\ UNCHANGED <<cap, faults>>
       \/ x.state # "publishing" /\ x.state # "quiescing" /\ ~x.prepared
          /\ Go(w, "retry") /\ UNCHANGED <<cap, faults>>
       \/ /\ x.state = "quiescing" /\ cap.id < MaxCap   \* RotateSnapshotCapability
          /\ IF x.prepared THEN Fault ELSE UNCHANGED faults   \* about to expire
          /\ IF Current
             THEN /\ cap' = [id |-> cap.id + 1, st |-> "prepared"]
                  /\ GoWith(w, "prepare", [Snapshot EXCEPT !.cap = cap'.id, !.prepared = TRUE], 0)
             ELSE Go(w, "retry") /\ UNCHANGED cap
    /\ UNCHANGED <<state, wf, stepDone, lease, job, row, gen, queue, source, target>>

OpOf(w) == <<at[w], exec[w].cap, IF at[w] = "recover" THEN exec[w].gen ELSE 0>>

\* runAgentCommandWithOperation: an operation is enqueued once, whoever asks.
Issue(w) ==
    /\ at[w] \in Calls /\ cmd[OpOf(w)] = "none"
    /\ cmd' = [cmd EXCEPT ![OpOf(w)] = "queued"]
    /\ UNCHANGED <<store, answer, wk, source, target, faults>>

\* The worker's wait runs out while the command is still under way.
TimesOut(w) == cmd[OpOf(w)] \in {"queued", "running"} /\ Fault

Answered(w) == cmd[OpOf(w)] \in {"ok", "failed"} /\ UNCHANGED faults

PrepareDone(w) ==
    /\ at[w] = "prepare"
    /\ TimesOut(w) \/ Answered(w)
    /\ IF cmd[OpOf(w)] # "ok" THEN Go(w, "retry") /\ UNCHANGED <<lease, stepDone>>
       ELSE IF Open \/ stepDone      \* CompleteSnapshotWorkflowStep
       THEN Go(w, "mark") /\ stepDone' = TRUE /\ UNCHANGED lease
       ELSE Return(w) /\ UNCHANGED stepDone
    /\ UNCHANGED <<state, wf, cap, job, row, gen, queue, source, target>>

\* UpdateBackupJobStatus(..., "running") looks at no status before it writes.
MarkRunning(w) ==
    /\ at[w] = "mark"
    /\ job' = "running"
    /\ Go(w, "start")
    /\ UNCHANGED <<state, wf, stepDone, lease, cap, row, gen, queue, source, target, faults>>

\* On any failure the latest state decides: a publishing target may have a receipt.
StartDone(w) ==
    /\ at[w] = "start"
    /\ TimesOut(w) \/ Answered(w)
    /\ IF cmd[OpOf(w)] = "ok" THEN GoWith(w, "complete", exec[w], answer[OpOf(w)])
       ELSE IF state = "publishing" THEN GoWith(w, "receipt", Snapshot, 0)
       ELSE Go(w, "retry")
    /\ UNCHANGED <<store, queue, source, target>>

ReceiptDone(w) ==
    /\ at[w] = "receipt"
    /\ TimesOut(w) \/ Answered(w)
    /\ IF cmd[OpOf(w)] = "ok" THEN GoWith(w, "complete", exec[w], answer[OpOf(w)])
       ELSE Go(w, "retry")
    /\ UNCHANGED <<store, queue, source, target>>

\* CompleteSnapshotWorkflow consumes the execution's own capability.
Complete(w) ==
    /\ at[w] = "complete"
    /\ Return(w)
    /\ IF /\ state = "publishing" /\ wf.gen = gen
          /\ cap = [id |-> exec[w].cap, st |-> "prepared"]
       THEN /\ state' = "succeeded"
            /\ cap' = [cap EXCEPT !.st = "consumed"]
            /\ row' = got[w]
            /\ job' = "done"
       ELSE UNCHANGED <<state, cap, row, job>>
    /\ UNCHANGED <<wf, stepDone, gen, queue, source, target, faults>>

\* retrySnapshotWorkflow: cancel what the user aborted, else ScheduleSnapshotRetry,
\* which rolls back unless it revokes a prepared capability.
Retry(w) ==
    /\ at[w] = "retry"
    /\ IF job = "aborted"
       THEN /\ Return(w)
            /\ state' = IF Open THEN "cancelled" ELSE state
            /\ cap' = IF cap.st = "prepared" THEN [cap EXCEPT !.st = "revoked"] ELSE cap
            /\ UNCHANGED <<wf, stepDone>>
       ELSE IF Open /\ state # "retry_wait" /\ cap.st = "prepared"
       THEN /\ state' = "retry_wait"
            /\ wf' = [wf EXCEPT !.attempt = @ + 1, !.recovery = FALSE]
            /\ cap' = [cap EXCEPT !.st = "revoked"]
            /\ stepDone' = FALSE
            /\ lease' = NoWorker
            /\ IF wf'.attempt - exec[w].recov >= RetryMax THEN Go(w, "fail") ELSE Rest(w)
       ELSE Return(w) /\ UNCHANGED <<state, wf, cap, stepDone>>
    /\ UNCHANGED <<job, row, gen, queue, source, target, faults>>

\* failSnapshotWorkflow: a second transaction after the retry is scheduled.
Fail(w) ==
    /\ at[w] = "fail"
    /\ Rest(w)
    /\ IF Open
       THEN /\ state' = "failed"
            /\ lease' = NoWorker
            /\ cap' = IF cap.st = "prepared" THEN [cap EXCEPT !.st = "revoked"] ELSE cap
            /\ job' = IF job \in {"done", "aborted"} THEN job ELSE "failed"
       ELSE UNCHANGED <<state, lease, cap, job>>
    /\ UNCHANGED <<wf, stepDone, row, gen, queue, source, target, faults>>

\* recoverSnapshotAfterControllerGeneration: the target's receipt decides; an
\* inconclusive answer keeps the recovery marker.
RecoverDone(w) ==
    /\ at[w] = "recover"
    /\ TimesOut(w) \/ Answered(w)
    /\ CASE cmd[OpOf(w)] = "ok" ->
              IF Current /\ wf.recovery /\ wf.gen = exec[w].gen
                 /\ state \in {"transferring", "verifying", "publishing"}
              THEN /\ state' = "publishing"
                   /\ wf' = [wf EXCEPT !.recovery = FALSE]
                   /\ stepDone' = TRUE
                   /\ GoWith(w, "complete", [Snapshot EXCEPT !.state = "publishing"], answer[OpOf(w)])
                   /\ UNCHANGED lease
              ELSE Return(w) /\ UNCHANGED <<state, wf, stepDone>>
         [] cmd[OpOf(w)] = "failed" -> Go(w, "reset") /\ UNCHANGED <<state, wf, stepDone, lease>>
         [] OTHER -> Return(w) /\ UNCHANGED <<state, wf, stepDone>>
    /\ UNCHANGED <<cap, job, row, gen, queue, source, target>>

\* ResetRecoveredSnapshotWorkflow: a fresh attempt outside the retry budget.
Reset(w) ==
    /\ at[w] = "reset"
    /\ Return(w)
    /\ IF ~(Current /\ wf.recovery /\ wf.gen = exec[w].gen)
       THEN UNCHANGED <<state, wf, cap, job, stepDone>>
       ELSE /\ cap' = IF cap.st = "prepared" THEN [cap EXCEPT !.st = "revoked"] ELSE cap
            /\ IF job = "aborted"
               THEN state' = "cancelled" /\ UNCHANGED <<wf, job, stepDone>>
               ELSE /\ state' = "retry_wait"
                    /\ wf' = [wf EXCEPT !.attempt = @ + 1, !.recov = @ + 1, !.recovery = FALSE]
                    /\ job' = IF job = "done" THEN job ELSE "pending"
                    /\ stepDone' = FALSE
    /\ UNCHANGED <<row, gen, queue, source, target, faults>>

WorkerStep(w) ==
    \/ Claim(w) \/ Load(w) \/ Recover(w) \/ SetQuiescing(w) \/ Begin(w) \/ Issue(w)
    \/ PrepareDone(w) \/ MarkRunning(w) \/ StartDone(w) \/ ReceiptDone(w) \/ Complete(w)
    \/ Retry(w) \/ Fail(w) \/ RecoverDone(w) \/ Reset(w)

\* resumeSnapshotWorkflows rebinds workflows of an older generation first.
Adopt ==
    /\ Open /\ wf.gen # gen
    /\ wf' = [wf EXCEPT !.gen = gen, !.recovery = TRUE]
    /\ lease' = NoWorker
    /\ UNCHANGED <<state, stepDone, cap, job, row, gen, queue, wk, source, target, faults>>

\* lease_until passes: nobody renews it, or the owner is too slow to notice.
LeaseLapse ==
    /\ lease # NoWorker
    /\ IF at[lease] = "idle" THEN UNCHANGED faults ELSE Fault
    /\ lease' = NoWorker
    /\ UNCHANGED <<state, wf, stepDone, cap, job, row, gen, queue, wk, source, target>>

\* maintainSnapshotWorkflowLease fails to renew and cancels the worker.
WorkerCancelled(w) ==
    /\ at[w] # "idle" /\ Fault
    /\ Return(w)
    /\ UNCHANGED <<state, wf, stepDone, cap, job, row, gen, queue, source, target>>

AllRest ==
    /\ at' = [w \in Workers |-> "idle"]
    /\ exec' = [w \in Workers |-> NoExecution]
    /\ got' = [w \in Workers |-> 0]

ControllerCrash ==
    /\ Fault
    /\ \E w \in Workers : at[w] # "idle"
    /\ AllRest
    /\ UNCHANGED <<store, queue, source, target>>

\* Another Controller takes over: commands of the old generation are superseded.
Promote ==
    /\ gen < MaxGen
    /\ gen' = gen + 1
    /\ AllRest
    /\ cmd' = [op \in Ops |-> IF cmd[op] \in {"queued", "running"} THEN "failed" ELSE cmd[op]]
    /\ UNCHANGED <<answer, state, wf, stepDone, lease, cap, job, row, source, target, faults>>

\* The returning user's ticket (or an administrator) first stops the Agent ...
AbortBackup ==
    /\ job \in {"pending", "running"} /\ ~tomb
    /\ tomb' = TRUE
    /\ src' = IF src.pc = "idle" THEN src ELSE [src EXCEPT !.live = FALSE]
    /\ UNCHANGED <<store, queue, wk, data, gate, target, faults>>

\* ... and then ends job and workflow in one transaction.
AbortJob ==
    /\ tomb /\ job \in {"pending", "running"} /\ Open
    /\ job' = "aborted"
    /\ state' = "cancelled"
    /\ cap' = IF cap.st = "prepared" THEN [cap EXCEPT !.st = "revoked"] ELSE cap
    /\ lease' = NoWorker
    /\ UNCHANGED <<wf, stepDone, row, gen, queue, wk, source, target, faults>>

---------------------------------------------------------------------------
(* The source Agent.                                                       *)

Op(t, c) == <<t, c, 0>>
Answer(op, st, c) ==
    /\ cmd' = [cmd EXCEPT ![op] = st]
    /\ answer' = [answer EXCEPT ![op] = c]
Finish(op, st, c) == IF cmd[op] = "running" THEN Answer(op, st, c) ELSE UNCHANGED queue

\* SetSnapshotWorkflowProgress accepts the phase's predecessor, or a replay.
Accepts(from, to) == wf.gen = gen /\ state \in {from, to}

\* start_snapshot: one run of a job at a time, none once it is cancelled.
StartSnapshot(c) ==
    LET op == Op("start", c) IN
    /\ cmd[op] = "queued"
    /\ IF src.pc = "idle" /\ ~tomb
       THEN /\ src' = [NoRun EXCEPT !.pc = "registered", !.cap = c, !.live = TRUE]
            /\ cmd' = [cmd EXCEPT ![op] = "running"]
       ELSE cmd' = [cmd EXCEPT ![op] = "failed"] /\ UNCHANGED src
    /\ UNCHANGED <<store, answer, wk, data, gate, tomb, target, faults>>

Running(pc) == src.pc = pc /\ src.live

\* The run ends in an error; its deferred release reopens a gate it still holds.
SrcEnd ==
    /\ Finish(Op("start", src.cap), "failed", 0)
    /\ src' = NoRun
    /\ gate' = IF gate = "held" THEN "open" ELSE gate
    /\ UNCHANGED <<store, wk, data, tomb, target>>

\* The adapter closes the gate under a fresh token, in place of any older one.
Quiesce ==
    /\ Running("registered")
    /\ gate' = "held"
    /\ src' = [src EXCEPT !.pc = "quiescing"]
    /\ UNCHANGED <<store, queue, wk, data, tomb, target, faults>>

\* The request reaches the adapter but its answer does not reach the run.
QuiesceLost ==
    /\ src.pc = "registered" /\ Fault
    /\ gate' = "stale"
    /\ Finish(Op("start", src.cap), "failed", 0)
    /\ src' = NoRun
    /\ UNCHANGED <<store, wk, data, tomb, target>>

Reports == [quiescing |-> "drained", drained |-> "snapshotting", released |-> "transferring"]
Before == [drained |-> "quiescing", snapshotting |-> "drained", transferring |-> "snapshotting",
           verifying |-> "transferring", publishing |-> "verifying"]

SrcReport ==
    /\ src.pc \in DOMAIN Reports /\ src.live
    /\ LET to == Reports[src.pc] IN
       /\ Accepts(Before[to], to)
       /\ state' = to
       /\ src' = [src EXCEPT !.pc = to]
    /\ UNCHANGED <<wf, stepDone, lease, cap, job, row, gen, queue, wk, data, gate, tomb, target, faults>>

\* copySnapshotTree reads file by file: the tree it makes is whole only if
\* nothing was written meanwhile.
CopyBegin ==
    /\ Running("snapshotting")
    /\ src' = [src EXCEPT !.pc = "copying", !.base = data]
    /\ UNCHANGED <<store, queue, wk, data, gate, tomb, target, faults>>

CopyEnd ==
    /\ Running("copying")
    /\ src' = [src EXCEPT !.pc = "copied", !.copy = IF data = src.base THEN data ELSE Torn]
    /\ UNCHANGED <<store, queue, wk, data, gate, tomb, target, faults>>

\* Mutant: the release counts as done whatever the adapter answers.
ReleaseAssumed == TRUE

\* releaseSnapshotUser succeeds only for the token that holds the gate.
ReleaseConfirmed == gate = "held"

ReleaseGate ==
    /\ Running("copied") /\ ReleaseConfirmed
    /\ gate' = "open"
    /\ src' = [src EXCEPT !.pc = "released"]
    /\ UNCHANGED <<store, queue, wk, data, tomb, target, faults>>

\* streamSnapshot reaches a target whose prepared capability it carries, which
\* consumes it (consumeTransfer) and takes in the archive.
Send ==
    /\ Running("transferring") /\ xfer.st = "prepared" /\ xfer.cap = src.cap
    /\ xfer' = [xfer EXCEPT !.st = "consumed"]
    /\ rcv' = [pc |-> "received", c |-> src.copy]
    /\ src' = [src EXCEPT !.pc = "sending"]
    /\ UNCHANGED <<store, queue, wk, data, gate, tomb, disk, faults>>

\* The target's receipt comes back and describes what was sent.
SendDone ==
    /\ Running("sending")
    /\ xfer.st = "published" /\ xfer.cap = src.cap /\ xfer.c = src.copy
    /\ Finish(Op("start", src.cap), "ok", xfer.c)
    /\ src' = NoRun
    /\ UNCHANGED <<store, wk, data, gate, tomb, target, faults>>

\* What ends a run: it was cancelled, its report or its release is refused, the
\* target refuses its capability or drops the request.
SrcRefused ==
    /\ src.pc # "idle"
    /\ \/ ~src.live
       \/ src.pc \in DOMAIN Reports /\ ~Accepts(Before[Reports[src.pc]], Reports[src.pc])
       \/ src.pc = "copied" /\ gate # "held"
       \/ src.pc = "transferring" /\ ~(xfer.st = "prepared" /\ xfer.cap = src.cap)
       \/ src.pc = "sending" /\ rcv.pc = "idle" /\ ~(xfer.st = "published" /\ xfer.cap = src.cap)
    /\ SrcEnd
    /\ UNCHANGED faults

SrcFails == src.pc # "idle" /\ src.live /\ Fault /\ SrcEnd

\* The Agent restarts: the run is gone, its command is delivered again, and
\* the gate stays closed until the adapter's lease on it ends.
SourceCrash ==
    /\ src.pc # "idle" /\ Fault
    /\ src' = NoRun
    /\ gate' = IF gate = "held" THEN "stale" ELSE gate
    /\ cmd' = [cmd EXCEPT ![Op("start", src.cap)] = IF @ = "running" THEN "queued" ELSE @]
    /\ UNCHANGED <<store, answer, wk, data, tomb, target>>

\* Without a confirmed renewal the adapter reopens the gate by itself.
GateExpire ==
    /\ gate # "open"
    /\ IF gate = "held" THEN Fault ELSE UNCHANGED faults
    /\ gate' = "open"
    /\ UNCHANGED <<store, queue, wk, data, src, tomb, target>>

UserWrite ==
    /\ gate = "open" /\ data < MaxWrites
    /\ data' = data + 1
    /\ UNCHANGED <<store, queue, wk, gate, src, tomb, target, faults>>

---------------------------------------------------------------------------
(* The target Agent.                                                       *)

\* prepareTransferLocked: a retry with a new capability replaces what is
\* prepared or failed, never what is being received or has been published.
Replaceable(c) == xfer.st \in {"none", "prepared"} \/ (xfer.st = "failed" /\ xfer.cap # c)

PrepareTransfer(c) ==
    LET op == Op("prepare", c)
    IN /\ cmd[op] = "queued"
       /\ IF Replaceable(c)
          THEN /\ xfer' = [st |-> "prepared", cap |-> c, c |-> 0]
               /\ cmd' = [cmd EXCEPT ![op] = "ok"]
          ELSE cmd' = [cmd EXCEPT ![op] = "failed"] /\ UNCHANGED xfer
       /\ UNCHANGED <<store, answer, wk, source, rcv, disk, faults>>

SnapshotReceipt(op) ==
    /\ op[1] \in {"receipt", "recover"} /\ cmd[op] = "queued"
    /\ IF xfer.st = "published" THEN Answer(op, "ok", xfer.c) ELSE Answer(op, "failed", 0)
    /\ UNCHANGED <<store, wk, source, target, faults>>

RcvReports == [received |-> "verifying", verified |-> "publishing"]

\* ReceiveSnapshot reports verifying, extracts and verifies, reports publishing.
RcvReport ==
    /\ rcv.pc \in DOMAIN RcvReports
    /\ LET to == RcvReports[rcv.pc] IN
       /\ Accepts(Before[to], to)
       /\ state' = to
       /\ rcv' = [rcv EXCEPT !.pc = IF to = "verifying" THEN "verified" ELSE "fenced"]
    /\ UNCHANGED <<wf, stepDone, lease, cap, job, row, gen, queue, wk, source, xfer, disk, faults>>

\* atomicallyReplaceSnapshotDirectory.
Exchange ==
    /\ rcv.pc = "fenced"
    /\ disk' = rcv.c
    /\ rcv' = [rcv EXCEPT !.pc = "exchanged"]
    /\ UNCHANGED <<store, queue, wk, source, xfer, faults>>

\* Mutant: the receipt is kept before the directories are exchanged.
PublishEarly ==
    /\ rcv.pc \in {"fenced", "exchanged"}
    /\ IF xfer.st = "consumed" THEN xfer' = [xfer EXCEPT !.st = "published", !.c = rcv.c] ELSE UNCHANGED xfer
    /\ rcv' = NoReceive
    /\ UNCHANGED <<store, queue, wk, source, disk, faults>>

PublishTransfer ==
    /\ rcv.pc = "exchanged"
    /\ IF xfer.st = "consumed" THEN xfer' = [xfer EXCEPT !.st = "published", !.c = rcv.c] ELSE UNCHANGED xfer
    /\ rcv' = NoReceive
    /\ UNCHANGED <<store, queue, wk, source, disk, faults>>

\* finishTransfer(..., "failed"): a report is refused, or verification fails.
RcvFails ==
    /\ rcv.pc \in {"received", "verified", "fenced"}
    /\ IF rcv.pc \in DOMAIN RcvReports /\ ~Accepts(Before[RcvReports[rcv.pc]], RcvReports[rcv.pc])
       THEN UNCHANGED faults ELSE Fault
    /\ xfer' = [xfer EXCEPT !.st = "failed"]
    /\ rcv' = NoReceive
    /\ UNCHANGED <<store, queue, wk, source, disk>>

\* loadRuntimeState: what was being received is prepared again, or has expired.
TargetCrash ==
    /\ rcv.pc # "idle" /\ Fault
    /\ rcv' = NoReceive
    /\ xfer' \in IF xfer.st = "consumed" THEN {[xfer EXCEPT !.st = s] : s \in {"prepared", "failed"}} ELSE {xfer}
    /\ UNCHANGED <<store, queue, wk, source, disk>>

SourceStep ==
    \/ \E c \in Caps : StartSnapshot(c)
    \/ Quiesce \/ SrcReport \/ CopyBegin \/ CopyEnd \/ ReleaseGate \/ Send \/ SendDone \/ SrcRefused

TargetStep ==
    \/ \E c \in Caps : PrepareTransfer(c)
    \/ \E op \in Ops : SnapshotReceipt(op)
    \/ RcvReport \/ Exchange \/ PublishTransfer \/ RcvFails

Next ==
    \/ \E w \in Workers : WorkerStep(w) \/ Defer(w) \/ ExecFails(w) \/ WorkerCancelled(w)
    \/ Adopt \/ LeaseLapse \/ ControllerCrash \/ Promote \/ AbortBackup \/ AbortJob
    \/ SourceStep \/ SrcFails \/ QuiesceLost \/ SourceCrash \/ GateExpire \/ UserWrite
    \/ TargetStep \/ TargetCrash

Spec == Init /\ [][Next]_vars

FairSpec ==
    /\ Spec
    /\ \A w \in Workers : WF_vars(WorkerStep(w))
    /\ WF_vars(Adopt) /\ WF_vars(LeaseLapse) /\ WF_vars(GateExpire)
    /\ WF_vars(SourceStep) /\ WF_vars(TargetStep)

---------------------------------------------------------------------------
(* Properties.                                                             *)

TypeOK ==
    /\ state \in Phases \cup Terminal
    /\ wf \in [attempt : Nat, recov : Nat,
               recovery : BOOLEAN, gen : Nat]
    /\ stepDone \in BOOLEAN
    /\ lease \in Workers \cup {NoWorker}
    /\ cap \in [id : Nat, st : {"prepared", "revoked", "consumed"}]
    /\ job \in {"pending", "running", "done", "failed", "aborted"}
    /\ row \in Trees /\ gen \in Nat
    /\ cmd \in [Ops -> {"none", "queued", "running", "ok", "failed"}] /\ answer \in [Ops -> Trees]
    /\ data \in Nat /\ gate \in {"open", "held", "stale"} /\ tomb \in BOOLEAN
    /\ xfer \in [st : {"none", "prepared", "consumed", "failed", "published"}, cap : Nat, c : Trees]
    /\ disk \in Trees /\ faults \in Nat

\* The receipt a target Agent keeps and replays describes what its directory
\* holds, whatever retries, second workers and restarts come in between, and
\* nothing is being received over it (publishTransfer, prepareTransferLocked).
ReceiptIsDisk == xfer.st = "published" => disk = xfer.c /\ rcv.pc = "idle"

\* The workflow implements Replica: the target never holds a torn tree, the
\* database names a tree only once the target holds it, and a workflow that is
\* given up records nothing (CompleteSnapshotWorkflow, ReceiveSnapshot).
Outcome == IF state \in Terminal THEN state ELSE "open"
R == INSTANCE Replica WITH Previous <- 0, outcome <- Outcome
ImplementsReplica == R!Spec

\* A retry that has been scheduled leads to a fresh attempt or to the end of
\* the workflow (ResetRecoveredSnapshotWorkflow, ScheduleSnapshotRetry).
RetryGoesOn == state = "retry_wait" ~> (cap.st = "prepared" \/ state \in Terminal)

\* An aborted job stays aborted (AbortBackupJobAndSnapshotWorkflow).
AbortStands == [][job = "aborted" => job' = "aborted"]_vars
===========================================================================
