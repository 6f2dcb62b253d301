------------------------------- MODULE Upkeep -------------------------------
(***************************************************************************)
(* The upkeep of one user's copies after they have been published: the     *)
(* deletion of superseded archives and of hot standbys no longer needed    *)
(* (store, controller and agent replica_cleanup.go), the periodic          *)
(* verification of archives (replica_integrity.go of the three), and the   *)
(* retirement of a node (store and controller node_retirements.go), all    *)
(* over the rows that CompleteSnapshotWorkflow writes and                  *)
(* ConfirmReplicaTakeover moves.                                           *)
(*                                                                         *)
(* How a snapshot travels is module Transfer's subject; here a workflow is *)
(* open, then published on the target's disk, then over.  Nodes are always *)
(* connected: an action that has to wait for a node is simply taken later, *)
(* and a command that fails is a refusal.  Time is abstract: a lease is    *)
(* live or it has lapsed, a check or a stability window is due whenever    *)
(* the action is taken.                                                    *)
(***************************************************************************)
EXTENDS Naturals, FiniteSets

CONSTANTS Compute, Storage,  \* the nodes, by role
          First, Standby,    \* the user's home and standby at the start
          Archive,           \* the storage node that holds the archive
          Retiring,          \* nodes an administrator may drain
          MaxSnap,           \* snapshot ids
          MaxBackup,         \* of those, the last one a backup may take
          MaxOps,            \* operation ids of deletions and verifications
          MaxMishaps         \* crashes, lapses, rot, promotions, refusals

Nodes == Compute \cup Storage

ASSUME UpkeepAssumption ==
    /\ First \in Compute /\ Standby \in Compute \ {First} /\ Archive \in Storage
    /\ Compute \cap Storage = {} /\ Retiring \subseteq Nodes
    /\ MaxSnap \in Nat /\ MaxSnap >= 3 /\ MaxBackup \in Nat /\ MaxOps \in Nat /\ MaxMishaps \in Nat

VARIABLES gen,       \* the active controller generation
          home,      \* users.home_node_id
          lease,     \* user_activity_leases: its writer, and whether it is live
          copy,      \* replica_copies of the user, by node
          rep,       \* user_replicas.state, by node
          acct,      \* nodes with a pending, active or conflict account
          wf,        \* the user's snapshot workflow
          snaps,     \* snapshot ids handed out
          integ,     \* integrity_state and integrity_check_kind, by storage node
          check,     \* executeReplicaIntegrityTask, by storage node
          task,      \* the replica_cleanup_tasks row of the node's copy
          ops,       \* operation ids handed out
          jobs,      \* delete_snapshot_replica commands and their workers
          disk,      \* the tree at the final path and its identity, by node
          trash,     \* snapshots under .stcontrol-cleanups, by node
          life,      \* nodes.operational_state
          ret,       \* the node_retirement_operations row
          item,      \* its node_retirement_items row for the user
          worker,    \* executeNodeRetirement
          latest,    \* history: the archive completed last
          mishaps

cleanup == <<task, ops, jobs>>
files == <<disk, trash>>
checks == <<integ, check>>
retirement == <<life, ret, item, worker>>
rows == <<home, copy, rep, acct>>
vars == <<gen, lease, rows, wf, snaps, checks, cleanup, files, retirement, latest,
          mishaps>>

Snaps == 0..MaxSnap
Kind(n) == IF n \in Storage THEN "archive" ELSE "hot_standby"
Copy == [state : {"none", "ready", "stale", "deleting", "corrupt"},
         kind : {"archive", "hot_standby", "active"}, snap : Snaps]
NoCopy(n) == [state |-> "none", kind |-> Kind(n), snap |-> 0]
Open == {"pending", "running", "retry_wait"}
Task == [state : Open \cup {"none", "succeeded", "cancelled", "failed"},
         snap : Snaps, op : 0..MaxOps, gen : 0..MaxMishaps, live : BOOLEAN]
NoTask == [state |-> "none", snap |-> 0, op |-> 0, gen |-> 0, live |-> FALSE]
NewTask(n) == [NoTask EXCEPT !.state = "pending", !.snap = copy[n].snap]
Answers == {"deleted", "already_absent", "superseded", "no_identity", "refused"}
Job == [node : Nodes, snap : Snaps, op : 1..MaxOps, gen : 0..MaxMishaps,
        cmd : {"queued", "detached"} \cup Answers, waits : BOOLEAN]
Tree == [snap : Snaps, ident : Snaps, rotten : BOOLEAN]
NoTree == [snap |-> 0, ident |-> 0, rotten |-> FALSE]
Workflow == [state : {"none", "open", "published"}, source : Compute, target : Nodes,
             snap : Snaps, retires : BOOLEAN]
OpenRetirement == {"scheduled", "migrating", "retry_wait", "verifying", "blocked"}
Retirement == [state : OpenRetirement \cup {"none", "decommissioned", "cancelled"},
               node : Nodes, gen : 0..MaxMishaps]
Flows == {"none", "running", "succeeded", "failed"}
Item == [kind : {"none", "authoritative_home", "archive_replica", "redundant_replica",
                 "account_metadata"},
         state : {"pending", "waiting_offline", "retry_wait", "blocked",
                  "snapshotting", "succeeded", "superseded"},
         flow : Flows,
         target : Nodes, snap : Snaps]
NoItem == [kind |-> "none", state |-> "succeeded", flow |-> "none",
           target |-> First, snap |-> 0]

TypeOK ==
    /\ gen \in 0..MaxMishaps /\ home \in Compute
    /\ lease \in [writer : Compute, live : BOOLEAN]
    /\ copy \in [Nodes -> Copy] /\ acct \subseteq Compute
    /\ rep \in [Nodes -> {"none", "syncing", "ready", "stale", "error", "deleting",
                          "corrupt"}]
    /\ wf \in Workflow /\ snaps \in Snaps
    /\ integ \in [Storage -> [state : {"verified", "checking", "due", "retry_wait",
                                       "corrupt"}, kind : {"light", "deep"}]]
    /\ check \in [Storage -> {"none", "asked", "match", "mismatch"}]
    /\ task \in [Nodes -> Task] /\ ops \in 0..MaxOps /\ jobs \subseteq Job
    /\ disk \in [Nodes -> Tree] /\ trash \in [Nodes -> SUBSET Snaps]
    /\ life \in [Nodes -> {"active", "maintenance", "draining", "retiring",
                           "decommissioned", "retired"}]
    /\ ret \in Retirement /\ item \in Item
    /\ worker \in [at : {"idle", "end", "wait", "item"}, flow : Flows]
    /\ latest \in [node : Storage, snap : Snaps]
    /\ mishaps \in 0..MaxMishaps

Idle == [at |-> "idle", flow |-> "none"]

\* Snapshot 1 is the standby's, 2 an archive that 3 has superseded on another
\* storage node.  A standby published before identity files were written has none.
FirstCopy(n) ==
    IF n = Standby THEN [state |-> "ready", kind |-> "hot_standby", snap |-> 1]
    ELSE IF n = Archive THEN [state |-> "ready", kind |-> "archive", snap |-> 3]
    ELSE IF n \in Storage THEN [state |-> "stale", kind |-> "archive", snap |-> 2]
    ELSE NoCopy(n)

Init ==
    /\ gen = 0 /\ home = First /\ snaps = 3
    /\ lease = [writer |-> First, live |-> FALSE]
    /\ copy = [n \in Nodes |-> FirstCopy(n)]
    /\ rep = [n \in Nodes |-> IF n \in {First, Standby, Archive} THEN "ready"
                             ELSE IF n \in Storage THEN "stale" ELSE "none"]
    /\ acct = {First, Standby}
    /\ wf = [state |-> "none", source |-> First, target |-> Archive, snap |-> 0,
             retires |-> FALSE]
    /\ integ = [n \in Storage |-> [state |-> "verified", kind |-> "deep"]]
    /\ check = [n \in Storage |-> "none"]
    /\ task = [n \in Nodes |->
                 IF n \in Storage \ {Archive}
                 THEN [NoTask EXCEPT !.state = "pending", !.snap = 2] ELSE NoTask]
    /\ ops = 0 /\ jobs = {}
    /\ \E id \in {0, 1} :
         disk = [n \in Nodes |->
                   [snap |-> FirstCopy(n).snap, rotten |-> FALSE,
                    ident |-> IF n = Standby THEN id ELSE FirstCopy(n).snap]]
    /\ trash = [n \in Nodes |-> {}]
    /\ life = [n \in Nodes |-> "active"]
    /\ ret = [state |-> "none", node |-> First, gen |-> 0]
    /\ item = NoItem /\ worker = Idle
    /\ latest = [node |-> Archive, snap |-> 3]
    /\ mishaps = 0

Mishap == mishaps < MaxMishaps /\ mishaps' = mishaps + 1

-----------------------------------------------------------------------------
(* The user, and the controller's generation. *)

\* A login at the home, and the end of the session.
Login ==
    /\ ~lease.live /\ wf.state = "none" /\ Mishap
    /\ life[home] \in {"active", "draining", "retiring"}
    /\ lease' = [writer |-> home, live |-> TRUE]
    /\ UNCHANGED <<gen, rows, wf, snaps, checks, cleanup, files, retirement, latest>>

Leave ==
    /\ lease.live /\ lease' = [lease EXCEPT !.live = FALSE]
    /\ UNCHANGED <<gen, rows, wf, snaps, checks, cleanup, files, retirement, latest,
                   mishaps>>

\* A Controller is promoted: workers of the old one are gone, and what their
\* commands answer can no longer be recorded.
Promote ==
    /\ Mishap /\ gen' = gen + 1
    /\ jobs' = {[j EXCEPT !.waits = FALSE] : j \in jobs}
    /\ check' = [n \in Storage |-> "none"]
    /\ worker' = Idle
    /\ UNCHANGED <<lease, rows, wf, snaps, integ, task, ops, files, life, ret, item,
                   latest>>

\* ConfirmReplicaTakeover: a standby on record as ready becomes the home, the
\* old home's tree a stale standby.
ConfirmReplicaTakeover(n) ==
    /\ n \in Compute \ {home} /\ ~lease.live /\ life[n] = "active" /\ n \in acct
    /\ copy[n].kind = "hot_standby" /\ copy[n].state = "ready" /\ rep[n] = "ready"
    /\ Mishap
    /\ home' = n
    /\ rep' = [rep EXCEPT ![home] = "stale"]
    /\ copy' = [copy EXCEPT ![home].state = "stale", ![home].kind = "hot_standby",
                            ![n].kind = "active"]
    /\ acct' = acct \ {home}
    /\ UNCHANGED <<gen, lease, wf, snaps, checks, cleanup, files, retirement, latest>>

-----------------------------------------------------------------------------
(* Snapshots. *)

Unclean(n) == task[n].state \in Open

\* The last writer on record must have been the source, and no deletion may be
\* pending at either end.
MayCreate(src, n) ==
    /\ ~lease.live /\ lease.writer = src /\ wf.state = "none" /\ snaps < MaxSnap
    /\ n # src /\ life[n] = "active" /\ ~Unclean(n) /\ ~Unclean(src)

\* The part of createSnapshotWorkflow common to every reason for a snapshot.
CreateSnapshotWorkflow(src, n, retires) ==
    /\ MayCreate(src, n)
    /\ snaps' = snaps + 1
    /\ wf' = [state |-> "open", source |-> src, target |-> n, snap |-> snaps + 1,
              retires |-> retires]
    /\ rep' = [rep EXCEPT ![n] = IF @ = "ready" THEN @ ELSE "syncing"]
    /\ acct' = IF n \in Compute THEN acct \cup {n} ELSE acct

Backup(n) ==
    /\ life[home] = "active" /\ snaps < MaxBackup
    /\ CreateSnapshotWorkflow(home, n, FALSE)
    /\ UNCHANGED <<gen, home, lease, copy, checks, cleanup, files, retirement, latest,
                   mishaps>>

\* The receiving Agent exchanges the trees (publishSnapshotDirectory), which a
\* deletion under way on the same node keeps out.
PublishSnapshotDirectory ==
    /\ wf.state = "open"
    /\ \A j \in jobs : j.node = wf.target => j.cmd # "detached"
    /\ wf' = [wf EXCEPT !.state = "published"]
    /\ disk' = [disk EXCEPT ![wf.target] =
                  [snap |-> wf.snap, ident |-> wf.snap, rotten |-> FALSE]]
    /\ UNCHANGED <<gen, lease, rows, snaps, checks, cleanup, trash, retirement, latest,
                   mishaps>>

\* The archives a completed one on n supersedes.
Superseded(n) ==
    {m \in Storage \ {n} : n \in Storage /\ copy[m].state = "ready"}

\* The whole transaction: cleanup tasks of the target that have not started are
\* cancelled, one that runs refuses it; other ready archives become stale and
\* get a cleanup task unless one exists for that snapshot.
CompleteSnapshotWorkflow ==
    LET n == wf.target IN
    /\ wf.state = "published" /\ task[n].state # "running"
    /\ task' = [m \in Nodes |->
                  IF m = n /\ task[m].state \in Open
                  THEN [task[m] EXCEPT !.state = "cancelled", !.live = FALSE]
                  ELSE IF m \in Superseded(n) /\ task[m].snap # copy[m].snap
                  THEN NewTask(m) ELSE task[m]]
    /\ copy' = [m \in Nodes |->
                  IF m = n THEN [state |-> "ready", kind |-> Kind(n), snap |-> wf.snap]
                  ELSE IF m \in Superseded(n) THEN [copy[m] EXCEPT !.state = "stale"]
                  ELSE copy[m]]
    /\ rep' = [m \in Nodes |->
                 IF m = n THEN "ready"
                 ELSE IF {m, n} \subseteq Storage /\ rep[m] = "ready" THEN "stale"
                 ELSE rep[m]]
    /\ integ' = [m \in Storage |->
                   IF m = n THEN [state |-> "verified", kind |-> "deep"] ELSE integ[m]]
    /\ check' = [m \in Storage |-> IF m = n THEN "none" ELSE check[m]]
    /\ latest' = IF n \in Storage THEN [node |-> n, snap |-> wf.snap] ELSE latest
    /\ wf' = [wf EXCEPT !.state = "none"]
    /\ item' = IF wf.retires THEN [item EXCEPT !.flow = "succeeded"] ELSE item
    /\ UNCHANGED <<gen, home, lease, acct, snaps, ops, jobs, files, life, ret, worker,
                   mishaps>>

\* FailSnapshotWorkflow: the target's replica is in error unless a ready copy of
\* an earlier snapshot is on record.
FailSnapshotWorkflow ==
    /\ wf.state # "none" /\ Mishap
    /\ wf' = [wf EXCEPT !.state = "none"]
    /\ rep' = [rep EXCEPT ![wf.target] =
                 IF copy[wf.target].state = "ready" THEN @ ELSE "error"]
    /\ item' = IF wf.retires THEN [item EXCEPT !.flow = "failed"] ELSE item
    /\ UNCHANGED <<gen, home, lease, copy, acct, snaps, checks, cleanup, files, life,
                   ret, worker, latest>>

\* cancelSnapshotWorkflowTx: the user returns; replica rows are left alone.
CancelSnapshotWorkflow ==
    /\ wf.state = "open" /\ Mishap
    /\ wf' = [wf EXCEPT !.state = "none"]
    /\ lease' = [writer |-> home, live |-> TRUE]
    /\ item' = IF wf.retires THEN [item EXCEPT !.flow = "failed"] ELSE item
    /\ UNCHANGED <<gen, rows, snaps, checks, cleanup, files, life, ret, worker, latest>>

-----------------------------------------------------------------------------
(* Deletion of copies no longer needed. *)

\* Archives that count: ready, verified, on an active storage node.
VerifiedArchives ==
    {m \in Storage : /\ copy[m].state = "ready" /\ integ[m].state = "verified"
                     /\ life[m] = "active"}
HomeServes == rep[home] = "ready" /\ life[home] = "active"

\* The copy is the one the task was made for, and not the user's home.
InScope(n) ==
    /\ copy[n].state # "none" /\ copy[n].snap = task[n].snap
    /\ copy[n].kind = Kind(n) /\ home # n

\* The copy may go: another archive is good and, for a standby, the home too.
Dispensable(n) ==
    IF n \in Storage THEN VerifiedArchives \ {n} # {}
    ELSE HomeServes /\ VerifiedArchives # {}

Surplus(n) ==
    /\ wf.state = "none" /\ home # n /\ copy[n].kind = Kind(n) /\ copy[n].snap # 0
    /\ copy[n].state = IF n \in Storage THEN "stale" ELSE "ready"
    /\ Dispensable(n)

\* Tasks whose copy has changed are cancelled; every surplus copy gets a task,
\* and one that was cancelled or has failed is opened again.
Scheduled(n) ==
    LET t == IF task[n].state \in {"pending", "retry_wait"} /\ ~InScope(n)
             THEN [task[n] EXCEPT !.state = "cancelled"] ELSE task[n]
    IN IF ~Surplus(n) THEN t
       ELSE IF t.snap # copy[n].snap THEN NewTask(n)
       ELSE IF t.state \in {"cancelled", "failed"} THEN [t EXCEPT !.state = "pending"]
       ELSE t

ScheduleReplicaCleanupTasks ==
    /\ task' = [n \in Nodes |-> Scheduled(n)] /\ task' # task
    /\ UNCHANGED <<gen, lease, rows, wf, snaps, checks, ops, jobs, files, retirement,
                   latest, mishaps>>

\* The first statement of a claim: lapsed leases are given up.
Reclaimed(n) ==
    IF task[n].state = "running" /\ ~task[n].live
    THEN [task[n] EXCEPT !.state = "retry_wait", !.op = 0] ELSE task[n]

\* Every condition is looked at again, and the copy must still be as the task
\* expects it or already be marked for deletion.
Claimable(n) ==
    /\ Reclaimed(n).state \in {"pending", "retry_wait"} /\ InScope(n)
    /\ life[n] = "active" /\ wf.state = "none" /\ Dispensable(n)
    /\ copy[n].state \in {"deleting", IF n \in Storage THEN "stale" ELSE "ready"}
    /\ rep[n] \in {"deleting", IF n \in Storage THEN "stale" ELSE "ready"}

\* Mutant: the copy is not marked before the command is sent.
ClaimUnmarked(n) ==
    /\ Claimable(n) /\ ops < MaxOps /\ ops' = ops + 1
    /\ task' = [m \in Nodes |->
                  IF m = n THEN [Reclaimed(m) EXCEPT !.state = "running", !.op = ops + 1,
                                                     !.gen = gen, !.live = TRUE]
                  ELSE Reclaimed(m)]
    /\ jobs' = jobs \cup {[node |-> n, snap |-> task[n].snap, op |-> ops + 1,
                           gen |-> gen, cmd |-> "queued", waits |-> TRUE]}
    /\ UNCHANGED <<gen, lease, rows, wf, snaps, checks, files, retirement, latest,
                   mishaps>>

\* The claim, and the command executeReplicaCleanupTask queues with it.
ClaimReplicaCleanupTask(n) ==
    /\ Claimable(n) /\ ops < MaxOps /\ ops' = ops + 1
    /\ task' = [m \in Nodes |->
                  IF m = n THEN [Reclaimed(m) EXCEPT !.state = "running", !.op = ops + 1,
                                                     !.gen = gen, !.live = TRUE]
                  ELSE Reclaimed(m)]
    /\ copy' = [copy EXCEPT ![n].state = "deleting"]
    /\ rep' = [rep EXCEPT ![n] = "deleting"]
    /\ jobs' = jobs \cup {[node |-> n, snap |-> task[n].snap, op |-> ops + 1,
                           gen |-> gen, cmd |-> "queued", waits |-> TRUE]}
    /\ UNCHANGED <<gen, home, lease, acct, wf, snaps, checks, files, retirement, latest,
                   mishaps>>

\* A claim that finds nothing to do still gives up the lapsed leases.
ClaimNothing ==
    /\ \A n \in Nodes : ~Claimable(n)
    /\ task' = [n \in Nodes |-> Reclaimed(n)] /\ task' # task
    /\ UNCHANGED <<gen, lease, rows, wf, snaps, checks, ops, jobs, files, retirement,
                   latest, mishaps>>

Becomes(j, cmd) == jobs' = (jobs \ {j}) \cup {[j EXCEPT !.cmd = cmd]}

\* Mutant: the identity is compared for a standby only.
MatchesAnyArchive(n, snap) == disk[n].ident # 0 /\ (n \in Storage \/ disk[n].ident = snap)

\* replicaTreeMatchesCleanup and readReplicaIdentityMetadata.
ReplicaTreeMatches(n, snap) == disk[n].ident = snap

\* replicaCleanupMutationAllowedLocked: no local writer lease for a standby.
MutationAllowed(n) == n \in Storage \/ ~(lease.live /\ lease.writer = n)

\* deleteSnapshotReplica up to the rename.  A tombstone of the same cleanup is
\* finished first, whatever has been published at the final path since.
DeleteSnapshotReplica(j) ==
    LET n == j.node IN
    /\ j.cmd = "queued"
    /\ \/ /\ j.snap \in trash[n]
          /\ trash' = [trash EXCEPT ![n] = @ \ {j.snap}]
          /\ Becomes(j, "deleted") /\ UNCHANGED disk
       \/ /\ j.snap \notin trash[n] /\ disk[n].snap = 0
          /\ Becomes(j, "already_absent") /\ UNCHANGED files
       \/ /\ j.snap \notin trash[n] /\ disk[n].snap # 0 /\ disk[n].ident = 0
          /\ Becomes(j, "no_identity") /\ UNCHANGED files
       \/ /\ j.snap \notin trash[n] /\ disk[n].ident # 0
          /\ ~ReplicaTreeMatches(n, j.snap)
          /\ Becomes(j, "superseded") /\ UNCHANGED files
       \/ /\ j.snap \notin trash[n] /\ disk[n].ident # 0
          /\ ReplicaTreeMatches(n, j.snap) /\ ~MutationAllowed(n)
          /\ Becomes(j, "refused") /\ UNCHANGED files
       \/ /\ j.snap \notin trash[n] /\ disk[n].ident # 0
          /\ ReplicaTreeMatches(n, j.snap) /\ MutationAllowed(n)
          /\ disk' = [disk EXCEPT ![n] = NoTree]
          /\ trash' = [trash EXCEPT ![n] = @ \cup {j.snap}]
          /\ Becomes(j, "detached")
    /\ UNCHANGED <<gen, lease, rows, wf, snaps, checks, task, ops, retirement, latest,
                   mishaps>>

\* removeReplicaTree, which may fail and leave the tombstone.
RemoveReplicaTree(j) ==
    /\ j.cmd = "detached"
    /\ \/ trash' = [trash EXCEPT ![j.node] = @ \ {j.snap}] /\ Becomes(j, "deleted")
          /\ UNCHANGED mishaps
       \/ Mishap /\ Becomes(j, "refused") /\ UNCHANGED trash
    /\ UNCHANGED <<gen, lease, rows, wf, snaps, checks, task, ops, disk, retirement,
                   latest>>

\* The Agent restarts between the rename and the removal:
\* recoverReplicaCleanupTombstones finishes what is detached, and the command
\* is delivered again.
AgentRestarts(j) ==
    /\ j.cmd = "detached" /\ Mishap
    /\ trash' = [trash EXCEPT ![j.node] = {}] /\ Becomes(j, "queued")
    /\ UNCHANGED <<gen, lease, rows, wf, snaps, checks, task, ops, disk, retirement,
                   latest>>

\* The worker of job j still holds the task.
Holds(j) ==
    LET t == task[j.node] IN t.state = "running" /\ t.op = j.op /\ t.gen = j.gen

\* The lease of a task lapses: early, or because its worker is gone.
LeaseLapses(n) ==
    /\ task[n].state = "running" /\ task[n].live
    /\ task' = [task EXCEPT ![n].live = FALSE]
    /\ IF \E j \in jobs : j.node = n /\ j.waits /\ Holds(j) THEN Mishap
       ELSE UNCHANGED mishaps
    /\ UNCHANGED <<gen, lease, rows, wf, snaps, checks, ops, jobs, files, retirement,
                   latest>>

Done(j) == jobs' = jobs \ {j}

\* CompleteReplicaCleanupTask.  A copy that is no longer marked, or is the home,
\* stays and the task is cancelled.  A refused completion leaves the lease to
\* lapse.
CompleteReplicaCleanupTask(j) ==
    LET n == j.node
        goes == /\ copy[n].state = "deleting" /\ copy[n].snap = j.snap
                /\ copy[n].kind = Kind(n) /\ home # n
    IN
    /\ j.waits /\ j.cmd \in {"deleted", "already_absent", "superseded"}
    /\ Done(j)
    /\ IF Holds(j) /\ j.gen = gen
       THEN /\ task' = [task EXCEPT ![n].live = FALSE,
                                    ![n].state = IF goes THEN "succeeded" ELSE "cancelled"]
            /\ copy' = IF goes THEN [copy EXCEPT ![n] = NoCopy(n)] ELSE copy
            /\ rep' = IF goes /\ rep[n] = "deleting" THEN [rep EXCEPT ![n] = "none"] ELSE rep
       ELSE UNCHANGED <<task, copy, rep>>
    /\ UNCHANGED <<gen, home, lease, acct, wf, snaps, checks, ops, files, retirement,
                   latest, mishaps>>

\* RetryReplicaCleanupTask, after a refusal or when the worker has waited long
\* enough; the command may still run.  The copy stays marked.
RetryReplicaCleanupTask(j) ==
    /\ j.waits
    /\ \/ j.cmd = "refused" /\ Done(j) /\ UNCHANGED mishaps
       \/ j.cmd = "queued" /\ Mishap
          /\ jobs' = (jobs \ {j}) \cup {[j EXCEPT !.waits = FALSE]}
    /\ task' = IF Holds(j) THEN [task EXCEPT ![j.node].state = "retry_wait",
                                             ![j.node].live = FALSE] ELSE task
    /\ UNCHANGED <<gen, lease, rows, wf, snaps, checks, ops, files, retirement, latest>>

\* FailReplicaCleanupTask: the copy is as it was before the claim.
FailReplicaCleanupTask(j) ==
    LET n == j.node IN
    /\ j.waits /\ j.cmd = "no_identity" /\ Done(j)
    /\ IF Holds(j)
       THEN /\ task' = [task EXCEPT ![n].state = "failed", ![n].live = FALSE]
            /\ copy' = IF copy[n].state = "deleting"
                       THEN [copy EXCEPT ![n].state =
                               IF n \in Storage THEN "stale" ELSE "ready"] ELSE copy
            /\ rep' = IF rep[n] = "deleting"
                      THEN [rep EXCEPT ![n] = IF n \in Storage THEN "stale" ELSE "ready"]
                      ELSE rep
       ELSE UNCHANGED <<task, copy, rep>>
    /\ UNCHANGED <<gen, home, lease, acct, wf, snaps, checks, ops, files, retirement,
                   latest, mishaps>>

\* The answer of a command nobody waits for is dropped.
DropAnswer(j) ==
    /\ ~j.waits /\ j.cmd \in Answers /\ Done(j)
    /\ UNCHANGED <<gen, lease, rows, wf, snaps, checks, task, ops, files, retirement,
                   latest, mishaps>>

-----------------------------------------------------------------------------
(* Verification of archives. *)

Fate(n, c) == check' = [check EXCEPT ![n] = c]

\* A ready archive is checked when its time has come, again if the lease of the
\* check has lapsed; now and then deeply.
ClaimReplicaIntegrityTask(n, kind) ==
    /\ copy[n].state = "ready" /\ life[n] = "active" /\ integ[n].state # "corrupt"
    /\ integ[n].state = "checking" => check[n] = "none"
    /\ (integ[n].state # "verified" /\ integ[n].kind = "deep") => kind = "deep"
    /\ ops < MaxOps /\ ops' = ops + 1
    /\ integ' = [integ EXCEPT ![n] = [state |-> "checking", kind |-> kind]]
    /\ Fate(n, "asked")
    /\ UNCHANGED <<gen, lease, rows, wf, snaps, task, jobs, files, retirement, latest,
                   mishaps>>

\* VerifyReplicaIntegrity on the node: the tree must be the snapshot's, and a
\* deep check reads every byte of it.
VerifyReplicaIntegrity(n) ==
    /\ check[n] = "asked" /\ life[n] \notin {"decommissioned", "retired"}
    /\ \/ /\ disk[n].ident = copy[n].snap
          /\ disk[n].rotten => integ[n].kind = "light"
          /\ Fate(n, "match")
       \/ /\ disk[n].ident # copy[n].snap \/ disk[n].rotten
          /\ Fate(n, "mismatch")
    /\ UNCHANGED <<gen, lease, rows, wf, snaps, integ, cleanup, files, retirement, latest,
                   mishaps>>

CompleteReplicaIntegrityTask(n) ==
    /\ check[n] = "match" /\ Fate(n, "none")
    /\ integ' = IF integ[n].state = "checking" /\ copy[n].state = "ready"
                THEN [integ EXCEPT ![n].state = "verified"] ELSE integ
    /\ UNCHANGED <<gen, lease, rows, wf, snaps, cleanup, files, retirement, latest,
                   mishaps>>

\* A light check that does not match asks for a deep one.
EscalateReplicaIntegrityTask(n) ==
    /\ check[n] = "mismatch" /\ integ[n].kind = "light" /\ Fate(n, "none")
    /\ integ' = IF integ[n].state = "checking"
                THEN [integ EXCEPT ![n] = [state |-> "due", kind |-> "deep"]] ELSE integ
    /\ UNCHANGED <<gen, lease, rows, wf, snaps, cleanup, files, retirement, latest,
                   mishaps>>

\* idx_replica_one_ready_archive: at most one ready archive of a user.
OnlyArchive(n) == \A m \in Storage \ {n} : copy[m].state # "ready"

\* A deep mismatch makes the copy corrupt.  Any other failure writes "ready",
\* whatever the copy has become since the claim, unless the index refuses it.
FailReplicaIntegrityTask(n, corrupt) ==
    /\ IF corrupt THEN check[n] = "mismatch" /\ integ[n].kind = "deep"
       ELSE check[n] = "asked"
    /\ Fate(n, "none")
    /\ IF integ[n].state = "checking" /\ copy[n].state # "none" /\ (corrupt \/ OnlyArchive(n))
       THEN /\ integ' = [integ EXCEPT ![n].state = IF corrupt THEN "corrupt"
                                                   ELSE "retry_wait"]
            /\ copy' = [copy EXCEPT ![n].state = IF corrupt THEN "corrupt" ELSE "ready"]
            /\ rep' = IF corrupt THEN [rep EXCEPT ![n] = "corrupt"] ELSE rep
       ELSE UNCHANGED <<integ, copy, rep>>
    /\ UNCHANGED <<gen, home, lease, acct, wf, snaps, cleanup, files, retirement, latest,
                   mishaps>>

\* The lease of a check lapses: its worker's result is refused.
CheckLapses(n) ==
    /\ check[n] # "none" /\ Mishap /\ Fate(n, "none")
    /\ UNCHANGED <<gen, lease, rows, wf, snaps, integ, cleanup, files, retirement,
                   latest>>

\* A disk loses bytes silently.
Rot(n) ==
    /\ disk[n].snap # 0 /\ ~disk[n].rotten /\ Mishap
    /\ disk' = [disk EXCEPT ![n].rotten = TRUE]
    /\ UNCHANGED <<gen, lease, rows, wf, snaps, checks, cleanup, trash, retirement,
                   latest>>

-----------------------------------------------------------------------------
(* Retirement of a node. *)

HoldsCopy(n) == copy[n].state \notin {"none", "stale", "corrupt", "deleting"}
HoldsReplica(n) == rep[n] \notin {"none", "stale", "error"}

\* Mutant: the copies on the node do not count.
DependentHome(n) == home = n \/ n \in acct

\* nodeRetirementDependencyQuery.
Dependent(n) ==
    \/ home = n \/ HoldsReplica(n) \/ HoldsCopy(n) \/ n \in acct
    \/ wf.state # "none" /\ n \in {wf.source, wf.target}
    \/ lease.live /\ lease.writer = n

ItemKind(n) ==
    IF home = n THEN "authoritative_home"
    ELSE IF HoldsCopy(n) \/ HoldsReplica(n)
         THEN IF n \in Storage THEN "archive_replica" ELSE "redundant_replica"
    ELSE IF n \in acct THEN "account_metadata" ELSE "none"

OpenItem == item.state \notin {"succeeded", "superseded"}

\* createNodeRetirementLocked.
CreateNodeRetirement(n) ==
    LET kind == ItemKind(n) IN
    /\ ret.state = "none"
    /\ item' = IF kind = "none" THEN NoItem
               ELSE [NoItem EXCEPT !.kind = kind, !.state = "pending"]
    /\ ret' = [state |-> IF kind = "none" THEN "verifying" ELSE "scheduled",
               node |-> n, gen |-> gen]

\* cancelNodeRetirementLocked.
CancelNodeRetirement(n) ==
    IF ret.node = n /\ ret.state \in OpenRetirement
    THEN /\ ret' = [ret EXCEPT !.state = "cancelled"]
         /\ item' = IF OpenItem THEN [item EXCEPT !.state = "superseded"] ELSE item
    ELSE UNCHANGED <<ret, item>>

\* The states an administrator may ask for (handleAdminTransitionNodeLifecycle
\* and the table of TransitionNodeLifecycle).
Allowed(from) ==
    CASE from = "active" -> {"maintenance", "draining"}
      [] from = "maintenance" -> {"active", "draining", "retired"}
      [] from = "draining" -> {"active", "maintenance"}
      [] from = "retiring" -> {"maintenance"}
      [] from = "decommissioned" -> {"retired"}
      [] OTHER -> {}

\* revokeNodeAccessLocked: commands of the node expire.
RevokeNodeAccess(n) ==
    jobs' = {IF j.node = n THEN [j EXCEPT !.cmd = "refused"] ELSE j : j \in jobs}

TransitionNodeLifecycle(n, to) ==
    /\ n \in Retiring /\ to \in Allowed(life[n])
    /\ to = "retired" => ~Dependent(n)
    /\ life' = [life EXCEPT ![n] = to]
    /\ IF to \in {"draining", "retired"} THEN UNCHANGED mishaps ELSE Mishap
    /\ IF to = "draining" THEN CreateNodeRetirement(n)
       ELSE IF life[n] \in {"draining", "retiring"} THEN CancelNodeRetirement(n)
            ELSE UNCHANGED <<ret, item>>
    /\ IF to = "retired" THEN RevokeNodeAccess(n) ELSE UNCHANGED jobs
    /\ UNCHANGED <<gen, lease, rows, wf, snaps, checks, task, ops, files, worker, latest>>


\* ListSchedulableNodeRetirementIDs and ClaimNodeRetirement, once nobody has the lease.
ClaimableRetirements == OpenRetirement

\* ClaimNodeRetirement, then GetNextNodeRetirementItem; the operation must be of
\* the active generation.
ClaimNodeRetirement ==
    /\ worker.at = "idle" /\ ret.state \in ClaimableRetirements /\ ret.gen = gen
    /\ life[ret.node] \in {"draining", "retiring"}
    /\ life' = [life EXCEPT ![ret.node] = "retiring"]
    /\ ret' = [ret EXCEPT !.state = IF @ = "verifying" THEN @ ELSE "migrating"]
    /\ worker' = [at |-> IF ~OpenItem THEN "end" ELSE IF lease.live THEN "wait" ELSE "item",
                  flow |-> item.flow]
    /\ UNCHANGED <<gen, lease, rows, wf, snaps, checks, cleanup, files, item, latest,
                   mishaps>>

\* The worker is lost; the lease lapses.
WorkerStops ==
    /\ worker.at # "idle" /\ Mishap /\ worker' = Idle
    /\ UNCHANGED <<gen, lease, rows, wf, snaps, checks, cleanup, files, life, ret, item,
                   latest>>

\* ReleaseNodeRetirement.
Release == worker' = Idle

RetryNodeRetirementItem(state, clear) ==
    IF ret.state \in {"migrating", "retry_wait", "blocked"} /\ ret.gen = gen /\ OpenItem
    THEN /\ item' = [item EXCEPT !.state = state, !.flow = IF clear THEN "none" ELSE @]
         /\ ret' = [ret EXCEPT !.state = IF state = "blocked" THEN state ELSE "retry_wait"]
    ELSE UNCHANGED <<item, ret>>

\* executeNodeRetirement when the user was active.
WaitOffline ==
    /\ worker.at = "wait" /\ Release
    /\ RetryNodeRetirementItem("waiting_offline", FALSE)
    /\ UNCHANGED <<gen, lease, rows, wf, snaps, checks, cleanup, files, life, latest,
                   mishaps>>

Snapshots == item.kind \in {"authoritative_home", "archive_replica"}

\* A snapshot of the item that runs is waited for, one that failed is replaced.
DeferNodeRetirement ==
    /\ worker.at = "item" /\ Snapshots /\ worker.flow \in {"running", "failed"} /\ Release
    /\ IF worker.flow = "failed" THEN RetryNodeRetirementItem("retry_wait", TRUE)
       ELSE /\ ret' = IF ret.state = "migrating" /\ ret.gen = gen
                      THEN [ret EXCEPT !.state = "retry_wait"] ELSE ret
            /\ UNCHANGED item
    /\ UNCHANGED <<gen, lease, rows, wf, snaps, checks, cleanup, files, life, latest,
                   mishaps>>

\* selectNodeRetirementSnapshotPath: the nodes that may receive the item.
RetirementTargets ==
    IF item.kind = "authoritative_home"
    THEN {n \in Compute \ {ret.node} : life[n] = "active"}
    ELSE {n \in Storage \ {ret.node} : life[n] = "active" /\ life[home] = "active"}
RetirementSource == IF item.kind = "authoritative_home" THEN ret.node ELSE home

\* createSnapshotWorkflow for an item.
ItemTakesSnapshot ==
    /\ ret.state = "migrating" /\ ret.gen = gen /\ item.flow = "none"
    /\ item.state \in {"pending", "waiting_offline", "retry_wait"}

CreateRetirementSnapshot(n) ==
    /\ ItemTakesSnapshot
    /\ CreateSnapshotWorkflow(RetirementSource, n, TRUE)
    /\ item' = [item EXCEPT !.state = "snapshotting", !.flow = "running", !.target = n,
                            !.snap = snaps + 1]
    /\ UNCHANGED ret

\* Otherwise the item is blocked when it has no target, or tried again.
StartRetirementSnapshot ==
    /\ worker.at = "item" /\ Snapshots /\ worker.flow = "none" /\ Release
    /\ \/ \E n \in RetirementTargets : CreateRetirementSnapshot(n)
       \/ /\ ~\E n \in RetirementTargets :
                  ItemTakesSnapshot /\ MayCreate(RetirementSource, n)
          /\ RetryNodeRetirementItem(IF RetirementTargets = {} THEN "blocked"
                                     ELSE "retry_wait", FALSE)
          /\ UNCHANGED <<snaps, wf, rep, acct>>
    /\ UNCHANGED <<gen, home, lease, copy, checks, cleanup, files, life, latest, mishaps>>

ItemDone == item' = [item EXCEPT !.state = "succeeded"] /\ UNCHANGED ret

\* The copy the item's snapshot left on its target is still the one on record.
Arrived(kind) ==
    /\ copy[item.target].state = "ready" /\ copy[item.target].snap = item.snap
    /\ copy[item.target].kind = kind

CanMigrate ==
    /\ ret.gen = gen /\ item.state \in {"snapshotting", "retry_wait", "blocked"}
    /\ home = ret.node

CompleteNodeRetirementHomeMigration ==
    /\ worker.at = "item" /\ item.kind = "authoritative_home"
    /\ worker.flow = "succeeded" /\ Release
    /\ IF ret.state # "migrating" THEN UNCHANGED <<home, rep, copy, acct, item, ret>>
       ELSE IF CanMigrate /\ ~lease.live /\ Arrived("hot_standby")
               /\ item.target \in acct /\ life[item.target] = "active"
       THEN /\ home' = item.target
            /\ rep' = [rep EXCEPT ![ret.node] = "stale", ![item.target] = "ready"]
            /\ copy' = [copy EXCEPT ![ret.node].state = IF @ = "none" THEN @ ELSE "stale",
                                    ![item.target].kind = "active"]
            /\ acct' = acct \ {ret.node}
            /\ ItemDone
       ELSE /\ RetryNodeRetirementItem(IF CanMigrate /\ lease.live THEN "waiting_offline"
                                       ELSE "blocked", FALSE)
            /\ UNCHANGED <<home, rep, copy, acct>>
    /\ UNCHANGED <<gen, lease, wf, snaps, checks, cleanup, files, life, latest, mishaps>>

\* The condition of CompleteNodeRetirementReplicaItem for each kind of item.
ReplicaMayGo ==
    CASE item.kind = "archive_replica" ->
           item.state \in {"snapshotting", "retry_wait", "blocked"} /\ Arrived("archive")
      [] item.kind = "redundant_replica" ->
           /\ item.state \in {"pending", "retry_wait", "blocked"}
           /\ home # ret.node /\ life[home] = "active"
           /\ \E m \in Storage \ {ret.node} : copy[m].state = "ready" /\ life[m] = "active"
      [] OTHER ->
           /\ item.state \in {"pending", "retry_wait", "blocked"}
           /\ home # ret.node /\ ~HoldsCopy(ret.node) /\ ~HoldsReplica(ret.node)

CompleteNodeRetirementReplicaItem ==
    LET n == ret.node IN
    /\ worker.at = "item" /\ Release
    /\ item.kind = "archive_replica" => worker.flow = "succeeded"
    /\ item.kind # "authoritative_home"
    /\ IF ret.state # "migrating" THEN UNCHANGED <<rep, copy, acct, item, ret>>
       ELSE IF ret.gen = gen /\ ReplicaMayGo
       THEN /\ IF item.kind = "redundant_replica"
               THEN /\ rep' = [rep EXCEPT ![n] = IF @ = "none" THEN @ ELSE "stale"]
                    /\ copy' = [copy EXCEPT ![n].state = IF @ = "none" THEN @ ELSE "stale"]
               ELSE UNCHANGED <<rep, copy>>
            /\ acct' = acct \ {n}
            /\ ItemDone
       ELSE RetryNodeRetirementItem("blocked", FALSE) /\ UNCHANGED <<rep, copy, acct>>
    /\ UNCHANGED <<gen, home, lease, wf, snaps, checks, cleanup, files, life, latest,
                   mishaps>>

\* FinalizeNodeRetirement.
FinalizeNodeRetirement ==
    LET n == ret.node IN
    /\ worker.at = "end" /\ Release
    /\ IF ret.state \notin {"migrating", "verifying", "blocked"} \/ life[n] # "retiring"
          \/ OpenItem
       THEN UNCHANGED <<life, ret, jobs>>
       ELSE IF Dependent(n)
       THEN ret' = [ret EXCEPT !.state = "blocked"] /\ UNCHANGED <<life, jobs>>
       ELSE IF ret.gen = gen
       THEN /\ life' = [life EXCEPT ![n] = "decommissioned"]
            /\ ret' = [ret EXCEPT !.state = "decommissioned"]
            /\ RevokeNodeAccess(n)
       ELSE UNCHANGED <<life, ret, jobs>>
    /\ UNCHANGED <<gen, lease, rows, wf, snaps, checks, task, ops, files, item, latest,
                   mishaps>>

-----------------------------------------------------------------------------
(* The specification. *)

CleanupNext ==
    \/ ScheduleReplicaCleanupTasks \/ ClaimNothing
    \/ \E n \in Nodes : ClaimReplicaCleanupTask(n) \/ LeaseLapses(n)
    \/ \E j \in jobs :
         \/ DeleteSnapshotReplica(j) \/ RemoveReplicaTree(j) \/ AgentRestarts(j)
         \/ CompleteReplicaCleanupTask(j) \/ RetryReplicaCleanupTask(j)
         \/ FailReplicaCleanupTask(j) \/ DropAnswer(j)

IntegrityNext ==
    \E n \in Storage :
       \/ \E kind \in {"light", "deep"} : ClaimReplicaIntegrityTask(n, kind)
       \/ VerifyReplicaIntegrity(n) \/ CompleteReplicaIntegrityTask(n)
       \/ EscalateReplicaIntegrityTask(n)
       \/ \E corrupt \in BOOLEAN : FailReplicaIntegrityTask(n, corrupt)
       \/ CheckLapses(n) \/ Rot(n)

RetirementStep ==
    \/ ClaimNodeRetirement \/ WaitOffline \/ DeferNodeRetirement
    \/ StartRetirementSnapshot \/ CompleteNodeRetirementHomeMigration
    \/ CompleteNodeRetirementReplicaItem \/ FinalizeNodeRetirement

RetirementNext ==
    \/ \E n \in Nodes, to \in {"active", "maintenance", "draining", "retired"} :
         TransitionNodeLifecycle(n, to)
    \/ WorkerStops \/ RetirementStep

SnapshotNext ==
    \/ \E n \in Nodes : Backup(n)
    \/ PublishSnapshotDirectory \/ CompleteSnapshotWorkflow
    \/ FailSnapshotWorkflow \/ CancelSnapshotWorkflow

UserNext ==
    \/ Login \/ Leave \/ Promote \/ \E n \in Compute : ConfirmReplicaTakeover(n)

Next == UserNext \/ SnapshotNext \/ CleanupNext \/ IntegrityNext \/ RetirementNext

Spec == Init /\ [][Next]_vars

\* The tickers of the reconcilers, the Agents' command loops and the snapshot
\* worker run on; users come and go, administrators and faults act or do not.
Tick ==
    \/ ScheduleReplicaCleanupTasks \/ ClaimNothing
    \/ \E n \in Nodes : ClaimReplicaCleanupTask(n)
AgentRuns == \E j \in jobs : DeleteSnapshotReplica(j) \/ RemoveReplicaTree(j)
Answered ==
    /\ UNCHANGED mishaps
    /\ \/ \E n \in Nodes : LeaseLapses(n)
       \/ \E j \in jobs :
            \/ CompleteReplicaCleanupTask(j) \/ RetryReplicaCleanupTask(j)
            \/ FailReplicaCleanupTask(j) \/ DropAnswer(j)

Fairness ==
    /\ WF_vars(Tick) /\ WF_vars(AgentRuns) /\ WF_vars(Answered)
    /\ WF_vars(PublishSnapshotDirectory \/ CompleteSnapshotWorkflow)
    /\ WF_vars(RetirementStep)

FairSpec == Spec /\ Fairness

-----------------------------------------------------------------------------
(* Properties. *)

\* A hot standby or home that is on record as ready is on its node's disk, at
\* least as new as the record says, so that a takeover never finds it deleted:
\* deleteSnapshotReplica only reaches what ClaimReplicaCleanupTask has marked,
\* whatever commands were abandoned, delivered late or replayed.
ReadyIsOnDisk ==
    \A n \in Compute : copy[n].state = "ready" => disk[n].snap >= copy[n].snap

\* The archive completed last is never deleted: CompleteSnapshotWorkflow and
\* ScheduleReplicaCleanupTasks give up only older ones, and a late
\* delete_snapshot_replica leaves what was published at its path since.
NewestArchiveKept == disk[latest.node].snap >= latest.snap

\* A decommissioned or retired node is nobody's home, has no account, takes part
\* in no workflow, and does not hold the newest archive unless that is corrupt
\* (FinalizeNodeRetirement, TransitionNodeLifecycle).
RetiredIsEmpty ==
    \A n \in Nodes : life[n] \in {"decommissioned", "retired"} =>
       /\ home # n /\ n \notin acct
       /\ wf.state # "none" => n \notin {wf.source, wf.target}
       /\ latest.node = n => copy[n].state = "corrupt"

\* The retirement is up to the people: the user is working, or has not written
\* on the home since it moved, or no node in service can take the data.
UpToPeople ==
    \/ lease.live
    \/ Snapshots /\ OpenItem /\ (RetirementTargets = {} \/ lease.writer # RetirementSource)

\* The retirement is where no reconciler gets it out of: it is of an earlier
\* generation; its target waits for a deletion which waits for an archive on a
\* node in service; the home or the copy has gone from under its item; or no item
\* is left and the node's user_replicas row is corrupt or half deleted.
Defeated ==
    \/ ret.gen # gen
    \/ Snapshots /\ OpenItem /\
         \/ \A n \in RetirementTargets : Unclean(n) /\ ~Dispensable(n)
         \/ item.kind = "authoritative_home" /\ home # ret.node
         \/ item.flow = "succeeded" /\ copy[item.target].state # "ready"
    \/ ~OpenItem /\ rep[ret.node] \in {"corrupt", "deleting"}


\* Does not hold: the Controller gets every retirement to its end that is not up
\* to people.
RetirementEndsAnyway ==
    []<>(ret.state \notin OpenRetirement) \/ <>[]UpToPeople

=============================================================================
