------------------------------ MODULE Recovery ------------------------------
(***************************************************************************)
(* What happens to the data of one user when the home fails: the           *)
(* protection state projected from the replica rows (store/protection.go), *)
(* the take-over of a hot standby, the restore of an archive to another    *)
(* compute node (store/restores.go, controller/restores.go,                *)
(* agent/snapshot.go), and the data faults an administrator reports        *)
(* (store/user_data_faults.go, controller/user_data_faults.go).            *)
(*                                                                         *)
(* A tree is the set of the user's writes it contains, so that a copy is   *)
(* compared with what the user has written and with what was given up when *)
(* the loss of recent data was acknowledged.  ActivityLease has the lease  *)
(* protocol itself and Transfer the data plane of a backup; here a session *)
(* is open or not, and a backup is a copy that is published and recorded   *)
(* later.  What they have in common with recovery is that they run at the  *)
(* same time, on the same nodes.                                           *)
(*                                                                         *)
(* Transactions are steps.  A restore is driven by one worker: its claim   *)
(* lasts an hour, longer than all the waits of executeRestoreWorkflow.     *)
(***************************************************************************)
EXTENDS Integers, FiniteSets

CONSTANTS Computes,     \* compute nodes
          Storage,      \* the storage node that holds the archive
          First,        \* the home the user registered on
          Nobody,       \* no node
          MaxWrites,    \* bound on the writes of the user
          MaxLogins,    \* bound on logins
          MaxMishaps,   \* bound on outages, restarts, promotions, crashes and
                        \* lost answers together
          MaxFaults,    \* bound on reported data faults
          MaxRestores,  \* bound on restores
          MaxBackups,   \* bound on backups
          RetryMax      \* of the Backup configuration

AllNodes == Computes \cup {Storage}
LastGen == 1 + MaxMishaps   \* of the controller generation
Trees == SUBSET (1..MaxWrites)
NoTree == {0}   \* no copy is recorded; writes are numbered from 1

ASSUME RecoveryAssumption ==
    /\ First \in Computes /\ Storage \notin Computes
    /\ Nobody \notin AllNodes
    /\ {MaxWrites, MaxLogins, MaxMishaps, MaxFaults, MaxRestores,
        MaxBackups} \subseteq Nat
    /\ RetryMax \in Nat \ {0}

VARIABLES online,   \* nodes the Controller holds for ready
          data,     \* the user's tree on the disk of each node
          home,     \* users.home_node_id
          rep,      \* user_replicas of the compute nodes, kind and state in one
          copy,     \* the tree of each ready replica_copies row
          acct,     \* node_accounts.status
          lease,    \* user_activity_leases: state and writer
          session,  \* the node whose adapter takes the user's writes
          wrote,    \* number of writes so far
          waived,   \* history: writes whose loss the user has acknowledged
          prot,     \* user_protection_states: state and recovery point
          fault,    \* the latest user_data_faults row
          claimed,  \* freezes and releases some Controller process has claimed
          cmds,     \* their Agent commands
          frozen,   \* adapter: nodes with a data-fault gate
          tomb,     \* adapter: faults whose gate was released
          wf,       \* the latest restore workflow
          pc,       \* the next step of its worker
          run,      \* start_restore_transfer of the current capability
          xfer,     \* the pending transfer of the restore target
          recv,     \* the receive under way there
          late,     \* exchanges that restores given up have left behind, by node
          sync,     \* the backup under way
          gen,      \* active controller generation
          spent     \* bounds used up

users   == <<home, rep, copy, acct, lease, session, wrote, waived, prot>>
faults  == <<fault, claimed, cmds, frozen, tomb>>
restore == <<wf, pc, run, xfer, recv, late>>
recoveryVars == <<online, data, users, faults, restore, sync, gen, spent>>

\* Kind and state of a user_replicas row.  "home", "corrupt" and "split" are of
\* kind home; "split" is a home whose replica_copies row says hot_standby.
RepStates == {"none", "home", "corrupt", "split", "hot", "stale", "syncing", "error"}
Closed    == {"none", "succeeded", "failed"}
Op        == {"freeze", "release"} \X (1..MaxFaults) \X (1..LastGen)

\* One of the resources bounded by max is used up.
Spend(what, max) == spent[what] < max /\ spent' = [spent EXCEPT ![what] = @ + 1]

RecoveryTypeOK ==
    /\ online \subseteq AllNodes
    /\ data \in [AllNodes -> Trees]
    /\ home \in Computes
    /\ rep \in [Computes -> RepStates]
    /\ copy \in [AllNodes -> Trees \cup {NoTree}]
    /\ acct \in [Computes -> {"none", "pending", "active", "stale", "error"}]
    /\ lease \in [state : {"active", "ended"}, at : Computes]
    /\ session \in Computes \cup {Nobody}
    /\ wrote \in 0..MaxWrites
    /\ waived \in Trees
    /\ prot \in [state : {"protected", "temporary", "unprotected",
                          "takeover_available", "restore_required", "unavailable"},
                 point : Trees \cup {NoTree}]
    /\ fault \in [seq : 0..MaxFaults, node : Computes, gen : 0..LastGen, relgen : 0..LastGen,
                  state : {"none", "reported", "freezing", "retry_wait", "resolved",
                           "recovery_available", "recovery_unavailable"},
                  release : {"none", "pending", "releasing", "retry_wait", "released"}]
    /\ claimed \subseteq Op
    /\ cmds \in [Op -> {"none", "queued", "done"}]
    /\ frozen \subseteq Computes /\ tomb \subseteq 1..MaxFaults
    /\ wf \in [state : Closed \cup {"scheduled", "retry_wait", "transferring",
                                    "verifying", "publishing"},
               target : Computes, point : Trees, gen : 0..LastGen,
               attempt : 0..RetryMax, cap : {"prepared", "revoked", "consumed"},
               prepare : {"none", "ok"}]
    /\ pc \in {"idle", "account", "rotate", "prepare", "start", "receipt"}
    /\ run \in {"none", "queued", "running", "ok", "failed"}
    /\ xfer \in {"none", "prepared", "consumed", "published", "failed"}
    /\ recv \in {"none", "verified", "publishing"}
    /\ late \in [Computes -> Trees \cup {NoTree}]
    /\ sync \in [state : {"none", "sent", "publishing", "late", "published"},
                 src : Computes, dst : AllNodes, tree : Trees]
    /\ gen \in 1..LastGen
    /\ spent \in [{"logins", "mishaps", "restores", "backups"} -> Nat]

\* The user has an archive, and may have hot standbys.
RecoveryInit ==
    /\ online = AllNodes
    /\ data = [n \in AllNodes |-> {}]
    /\ home = First
    /\ \E hot \in SUBSET (Computes \ {First}) :
         /\ rep = [n \in Computes |-> IF n = First THEN "home"
                                      ELSE IF n \in hot THEN "hot" ELSE "none"]
         /\ copy = [n \in AllNodes |-> IF n \in hot \cup {Storage} THEN {} ELSE NoTree]
         /\ acct = [n \in Computes |-> IF n \in hot \cup {First} THEN "active" ELSE "none"]
    /\ lease = [state |-> "ended", at |-> First]
    /\ session = Nobody /\ wrote = 0 /\ waived = {}
    /\ prot = [state |-> "protected", point |-> {}]
    /\ fault = [seq |-> 0, node |-> First, gen |-> 0, relgen |-> 0, state |-> "none",
                release |-> "none"]
    /\ claimed = {} /\ cmds = [op \in Op |-> "none"] /\ frozen = {} /\ tomb = {}
    /\ wf = [state |-> "none", target |-> First, point |-> {}, gen |-> 0, attempt |-> 0,
             cap |-> "revoked", prepare |-> "none"]
    /\ pc = "idle" /\ run = "none" /\ xfer = "none" /\ recv = "none"
    /\ late = [n \in Computes |-> NoTree]
    /\ sync = [state |-> "none", src |-> First, dst |-> Storage, tree |-> {}]
    /\ gen = 1
    /\ spent = [b \in {"logins", "mishaps", "restores", "backups"} |-> 0]

------------------------------------------------------------------------------
(* The projection of protection states. *)

\* The home is up and both of its rows say that it is whole.
AuthoritativeReady(h, r) == h \in online /\ r[h] = "home"

\* The ready hot standbys that are up.
Hot(r, a, c) == {n \in Computes \cap online :
                   r[n] = "hot" /\ a[n] = "active" /\ c[n] # NoTree}

\* The archive is recorded and its node is up.
Archived(c) == Storage \in online /\ c[Storage] # NoTree

\* The protection row for given users and replica rows; replica conflicts are
\* the subject of Conflict.
Desired(h, r, a, c) ==
    LET hot   == Hot(r, a, c)
        ready == AuthoritativeReady(h, r)
    IN  [state |-> CASE ready /\ Archived(c)                   -> "protected"
                     [] ready /\ ~Archived(c) /\ hot # {}      -> "temporary"
                     [] ready /\ ~Archived(c) /\ hot = {}      -> "unprotected"
                     [] ~ready /\ hot # {}                     -> "takeover_available"
                     [] ~ready /\ hot = {} /\ Archived(c)      -> "restore_required"
                     [] ~ready /\ hot = {} /\ ~Archived(c)     -> "unavailable",
         point |-> IF hot # {} /\ (~ready \/ ~Archived(c)) THEN c[CHOOSE n \in hot : TRUE]
                   ELSE IF Archived(c) THEN c[Storage] ELSE NoTree]

ReconcileProtectionStates ==
    /\ prot' = Desired(home, rep, acct, copy)
    /\ prot' # prot
    /\ UNCHANGED <<online, data, home, rep, copy, acct, lease, session, wrote,
                   waived, faults, restore, sync, gen, spent>>

------------------------------------------------------------------------------
(* The user, the nodes and the Controller processes. *)

NodeDown(n) ==
    /\ n \in online
    /\ Spend("mishaps", MaxMishaps)
    /\ online' = online \ {n}
    /\ UNCHANGED <<data, users, faults, restore, sync, gen>>

NodeUp(n) ==
    /\ n \notin online
    /\ online' = online \cup {n}
    /\ UNCHANGED <<data, users, faults, restore, sync, gen, spent>>

\* A login stops the backup whose source is the node of the login; what the
\* target has begun to publish comes to an end all the same.
AbortOnLogin ==
    sync' = IF sync.state = "none" \/ sync.src # home THEN sync
            ELSE [sync EXCEPT !.state = IF @ \in {"publishing", "late"} THEN "late"
                                        ELSE "none"]

\* handleLoginTicket at the home; an open restore does not stand in its way.
Login ==
    /\ home \in online
    /\ rep[home] \in {"home", "split"} /\ acct[home] = "active"
    /\ lease.state = "ended" /\ session = Nobody
    /\ Spend("logins", MaxLogins)
    /\ AbortOnLogin
    /\ lease' = [state |-> "active", at |-> home]
    /\ session' = home
    /\ UNCHANGED <<online, data, home, rep, copy, acct, wrote, waived, prot, faults,
                   restore, gen>>

Write ==
    /\ session # Nobody /\ session \notin frozen
    /\ wrote < MaxWrites
    /\ wrote' = wrote + 1
    /\ data' = [data EXCEPT ![session] = @ \cup {wrote + 1}]
    /\ UNCHANGED <<online, home, rep, copy, acct, lease, session, waived, prot,
                   faults, restore, sync, gen, spent>>

\* The user leaves, or the lease and the node's own deadline run out.
Leave ==
    /\ session # Nobody \/ lease.state = "active"
    /\ session' = Nobody
    /\ lease' = [lease EXCEPT !.state = "ended"]
    /\ UNCHANGED <<online, data, home, rep, copy, acct, wrote, waived, prot,
                   faults, restore, sync, gen, spent>>

\* A passive Controller is promoted; what the old process has begun goes on.
Promote ==
    /\ Spend("mishaps", MaxMishaps)
    /\ gen' = gen + 1
    /\ UNCHANGED <<online, data, users, faults, restore, sync>>

\* The Controller process stops and starts again.
Restart ==
    /\ pc # "idle" \/ claimed # {}
    /\ Spend("mishaps", MaxMishaps)
    /\ claimed' = {}
    /\ pc' = "idle"
    /\ UNCHANGED <<online, data, users, fault, cmds, frozen, tomb, wf, run, xfer, recv,
                   late, sync, gen>>

------------------------------------------------------------------------------
(* Backups, as far as recovery meets them. *)

\* Mutant: the Agent takes no lock for the exchange of trees.
PublishingUnlocked(n) == FALSE

\* The Agent holds replicaMutationMu from before it reports "publishing" until
\* the trees are exchanged.
Publishing(n) == \/ sync.state \in {"publishing", "late"} /\ sync.dst = n
                 \/ recv = "publishing" /\ wf.target = n
                 \/ n \in Computes /\ late[n] # NoTree

\* CreateSnapshotWorkflow from the home, whatever the state of its replica row;
\* a ready standby stays ready.  The account of the target is provisioned
\* before anything is sent.
CreateSnapshotWorkflow(n) ==
    /\ sync.state = "none" /\ wf.state \in Closed
    /\ home \in online /\ n \in online \ {home}
    /\ lease = [state |-> "ended", at |-> home]
    /\ Spend("backups", MaxBackups)
    /\ sync' = [state |-> "sent", src |-> home, dst |-> n, tree |-> data[home]]
    /\ IF n = Storage THEN UNCHANGED <<rep, acct>>
       ELSE /\ rep' = [rep EXCEPT ![n] = IF @ = "hot" THEN @ ELSE "syncing"]
            /\ acct' = [acct EXCEPT ![n] = "active"]
    /\ UNCHANGED <<online, data, home, copy, lease, session, wrote, waived, prot,
                   faults, restore, gen>>

\* The target has verified the tree and reports "publishing".
PublishBackup ==
    /\ sync.state = "sent" /\ sync.dst \in online
    /\ ~Publishing(sync.dst)
    /\ sync' = [sync EXCEPT !.state = "publishing"]
    /\ UNCHANGED <<online, data, users, faults, restore, gen, spent>>

\* The trees are exchanged; nobody asks for the lease of the user.
ExchangeBackup ==
    /\ sync.state \in {"publishing", "late"}
    /\ data' = [data EXCEPT ![sync.dst] = sync.tree]
    /\ sync' = [sync EXCEPT !.state = IF @ = "late" THEN "none" ELSE "published"]
    /\ UNCHANGED <<online, users, faults, restore, gen, spent>>

\* CompleteSnapshotWorkflow asks neither where the home is by now nor of what
\* kind the target's row is.
CompleteSnapshotWorkflow ==
    /\ sync.state = "published"
    /\ copy' = [copy EXCEPT ![sync.dst] = sync.tree]
    /\ rep' = IF sync.dst = Storage THEN rep
              ELSE [rep EXCEPT ![sync.dst] = IF @ \in {"home", "split", "corrupt"}
                                             THEN "split" ELSE "hot"]
    /\ sync' = [sync EXCEPT !.state = "none"]
    /\ UNCHANGED <<online, data, home, acct, lease, session, wrote, waived, prot,
                   faults, restore, gen, spent>>

\* FailSnapshotWorkflow, before the trees are exchanged or after.
FailSnapshotWorkflow ==
    /\ sync.state \in {"sent", "published"}
    /\ Spend("mishaps", MaxMishaps)
    /\ sync' = [sync EXCEPT !.state = "none"]
    /\ rep' = IF sync.dst = Storage THEN rep
              ELSE [rep EXCEPT ![sync.dst] =
                      IF copy[sync.dst] = NoTree /\ @ # "corrupt" THEN "error" ELSE @]
    /\ UNCHANGED <<online, data, home, copy, acct, lease, session, wrote, waived,
                   prot, faults, restore, gen>>

------------------------------------------------------------------------------
(* Data faults: the home is closed, frozen, classified, recovered, released. *)

FreezeOp  == <<"freeze", fault.seq, fault.gen>>
ReleaseOp == <<"release", fault.seq, fault.relgen>>

\* The lease ends with the report, the session of the user with the freeze.
ReportUserDataFault ==
    /\ fault.state = "none" \/ (fault.state = "resolved" /\ fault.release = "released")
    /\ fault.seq < MaxFaults
    /\ fault' = [seq |-> fault.seq + 1, node |-> home, gen |-> gen, relgen |-> 0,
                 state |-> "reported", release |-> "none"]
    /\ rep' = [rep EXCEPT ![home] = "corrupt"]
    /\ copy' = [copy EXCEPT ![home] = NoTree]
    /\ lease' = [lease EXCEPT !.state = "ended"]
    /\ UNCHANGED <<online, data, home, acct, session, wrote, waived, prot, claimed,
                   cmds, frozen, tomb, restore, sync, gen, spent>>

\* Operation op of the latest fault is claimed, and its command queued for the
\* Agent if the node is there.
ClaimOp(op) ==
    /\ claimed' = claimed \cup {op}
    /\ cmds' = [cmds EXCEPT ![op] = IF @ = "none" /\ fault.node \in online THEN "queued" ELSE @]
    /\ UNCHANGED <<online, data, users, frozen, tomb, restore, sync, gen, spent>>

\* Mutant: a freeze that was being executed is not claimed again.
ClaimDueFault ==
    /\ fault.state \in {"reported", "retry_wait"}
    /\ fault' = [fault EXCEPT !.state = "freezing", !.gen = gen]
    /\ ClaimOp(<<"freeze", fault.seq, gen>>)

\* A freeze is claimed when it is due, or when the claim of its process lapsed;
\* a new generation takes a new operation.
ClaimUserDataFault ==
    /\ \/ fault.state \in {"reported", "retry_wait"}
       \/ fault.state = "freezing" /\ (FreezeOp \notin claimed \/ fault.gen # gen)
    /\ fault' = [fault EXCEPT !.state = "freezing", !.gen = gen]
    /\ ClaimOp(<<"freeze", fault.seq, gen>>)

ClaimUserDataFaultRelease ==
    /\ fault.state = "resolved"
    /\ \/ fault.release \in {"pending", "retry_wait"}
       \/ fault.release = "releasing" /\ (ReleaseOp \notin claimed \/ fault.relgen # gen)
    /\ fault' = [fault EXCEPT !.release = "releasing", !.relgen = gen]
    /\ ClaimOp(<<"release", fault.seq, gen>>)

\* The Agent passes the command to the adapter, which drains the user's writes.
\* It remembers released faults, and a freeze that comes late finds the tomb.
FreezeUserData(op) ==
    /\ op[1] = "freeze" /\ cmds[op] = "queued" /\ fault.node \in online
    /\ cmds' = [cmds EXCEPT ![op] = "done"]
    /\ IF op[2] \in tomb THEN UNCHANGED <<frozen, session>>
       ELSE /\ frozen' = frozen \cup {fault.node}
            /\ session' = IF session = fault.node THEN Nobody ELSE session
    /\ UNCHANGED <<online, data, home, rep, copy, acct, lease, wrote, waived, prot,
                   fault, claimed, tomb, restore, sync, gen, spent>>

\* Mutant: a released fault is forgotten.
ReleaseAndForget(op) ==
    /\ op[1] = "release" /\ cmds[op] = "queued" /\ fault.node \in online
    /\ cmds' = [cmds EXCEPT ![op] = "done"]
    /\ frozen' = IF op[2] = fault.seq THEN frozen \ {fault.node} ELSE frozen
    /\ UNCHANGED <<online, data, users, fault, claimed, tomb, restore, sync, gen, spent>>

ReleaseUserData(op) ==
    /\ op[1] = "release" /\ cmds[op] = "queued" /\ fault.node \in online
    /\ cmds' = [cmds EXCEPT ![op] = "done"]
    /\ frozen' = IF op[2] = fault.seq THEN frozen \ {fault.node} ELSE frozen
    /\ tomb' = tomb \cup {op[2]}
    /\ UNCHANGED <<online, data, users, fault, claimed, restore, sync, gen, spent>>

\* The row is still the one the task of operation op has claimed.
Claimed(op) == /\ op[3] = gen
               /\ \/ op = FreezeOp /\ fault.state = "freezing"
                  \/ op = ReleaseOp /\ fault.state = "resolved" /\ fault.release = "releasing"

\* Protection is projected once more, then the frozen fault is classified.
CompleteUserDataFaultFreeze(op) ==
    /\ op \in claimed /\ op[1] = "freeze" /\ cmds[op] = "done"
    /\ claimed' = claimed \ {op}
    /\ prot' = Desired(home, rep, acct, copy)
    /\ fault' = IF ~Claimed(op) THEN fault
                ELSE [fault EXCEPT !.state =
                        IF prot'.state \in {"takeover_available", "restore_required"}
                        THEN "recovery_available" ELSE "recovery_unavailable"]
    /\ UNCHANGED <<online, data, home, rep, copy, acct, lease, session, wrote, waived,
                   cmds, frozen, tomb, restore, sync, gen, spent>>

CompleteUserDataFaultRelease(op) ==
    /\ op \in claimed /\ op[1] = "release" /\ cmds[op] = "done"
    /\ claimed' = claimed \ {op}
    /\ fault' = IF Claimed(op) THEN [fault EXCEPT !.release = "released"] ELSE fault
    /\ UNCHANGED <<online, data, users, cmds, frozen, tomb, restore, sync, gen, spent>>

\* The node is not there, the generation has passed, or no answer came in time.
RetryUserDataFault(op) ==
    /\ op \in claimed /\ cmds[op] # "done"
    /\ IF fault.node \in online /\ op[3] = gen /\ cmds[op] = "queued" THEN Spend("mishaps", MaxMishaps)
       ELSE UNCHANGED spent
    /\ claimed' = claimed \ {op}
    /\ fault' = IF ~Claimed(op) THEN fault
                ELSE IF op[1] = "freeze" THEN [fault EXCEPT !.state = "retry_wait"]
                ELSE [fault EXCEPT !.release = "retry_wait"]
    /\ UNCHANGED <<online, data, users, cmds, frozen, tomb, restore, sync, gen>>

\* Mutant: a recovery does not wait for the freeze.
RecoveryAlways == TRUE

\* requireUserDataFaultRecoveryReadyLocked: no fault, or a frozen one.
RecoveryReady == fault.state \in {"none", "resolved", "recovery_available"}

\* resolveUserDataFaultLocked, the last part of a recovery.
ResolveUserDataFault ==
    fault' = IF fault.state # "recovery_available" THEN fault
             ELSE [fault EXCEPT !.state = "resolved", !.release = "pending", !.relgen = 0]

------------------------------------------------------------------------------
(* Take-over of a hot standby. *)

\* The home moves from h to n: the replica rows, the accounts, the projection.
MoveHome(n, point) ==
    /\ home' = n
    /\ rep' = [rep EXCEPT ![home] = "stale", ![n] = "home"]
    /\ copy' = [copy EXCEPT ![home] = NoTree, ![n] = point]
    /\ acct' = [acct EXCEPT ![home] = IF @ = "none" THEN @ ELSE "stale", ![n] = "active"]
    /\ prot' = Desired(n, rep', acct', copy')
    /\ ResolveUserDataFault

\* The user confirms that what the standby does not have may be lost.  Open
\* workflows of the user are not asked for.
ConfirmReplicaTakeover(n) ==
    /\ n \in Hot(rep, acct, copy) \ {home}
    /\ RecoveryReady
    /\ lease.state = "ended"
    /\ MoveHome(n, copy[n])
    /\ waived' = waived \cup ((1..wrote) \ copy[n])
    /\ UNCHANGED <<online, data, lease, session, wrote, claimed, cmds, frozen, tomb,
                   restore, sync, gen, spent>>

------------------------------------------------------------------------------
(* Restore of the archive. *)

\* The user confirms that what the archive does not have may be lost.  A receive
\* of an earlier restore that has yet to report is refused when it does; one that
\* has reported "publishing" goes on with its exchange.
CreateRestoreWorkflow(n) ==
    /\ RecoveryReady
    /\ lease.state = "ended"
    /\ wf.state \in Closed /\ sync.state \in {"none", "late"}
    /\ prot.state = "restore_required" /\ prot.point = copy[Storage]
    /\ Storage \in online /\ n \in online \ {home}
    /\ Spend("restores", MaxRestores)
    /\ wf' = [state |-> "scheduled", target |-> n, point |-> prot.point, gen |-> gen,
              attempt |-> 0, cap |-> "prepared", prepare |-> "none"]
    /\ run' = "none" /\ xfer' = "none"
    /\ rep' = [rep EXCEPT ![n] = "syncing"]
    /\ acct' = [acct EXCEPT ![n] = IF @ = "active" THEN @ ELSE "pending"]
    /\ waived' = waived \cup ((1..wrote) \ prot.point)
    /\ recv' = "none"
    /\ late' = IF recv = "publishing" THEN [late EXCEPT ![wf.target] = wf.point] ELSE late
    /\ UNCHANGED <<online, data, home, copy, lease, session, wrote, prot, faults, pc,
                   sync, gen>>

\* What the worker does first with the workflow as it is after the claim.
FirstStep(w) ==
    IF w.state = "publishing" THEN "receipt"
    ELSE IF acct[w.target] # "active" THEN "account"
    ELSE IF w.cap # "prepared" THEN "rotate" ELSE "prepare"

\* Mutant: a workflow that was publishing is not taken up again.
ClaimUnpublished ==
    /\ pc = "idle" /\ wf.state \notin Closed \cup {"publishing"} /\ wf.gen = gen
    /\ wf' = [wf EXCEPT !.state = IF @ = "retry_wait" THEN "scheduled" ELSE @]
    /\ pc' = FirstStep(wf')
    /\ UNCHANGED <<online, data, users, faults, run, xfer, recv, late, sync, gen, spent>>

\* ClaimRestoreWorkflow, and ResumeSnapshotRetry when a retry was due.
ClaimRestoreWorkflow ==
    /\ pc = "idle" /\ wf.state \notin Closed /\ wf.gen = gen
    /\ wf' = [wf EXCEPT !.state = IF @ = "retry_wait" THEN "scheduled" ELSE @]
    /\ pc' = FirstStep(wf')
    /\ UNCHANGED <<online, data, users, faults, run, xfer, recv, late, sync, gen, spent>>

\* FailRestoreWorkflow.
FailRestoreWorkflow ==
    /\ wf' = [wf EXCEPT !.state = "failed", !.attempt = @ + 1, !.cap = "revoked"]
    /\ rep' = [rep EXCEPT ![wf.target] = IF @ = "syncing" THEN "error" ELSE @]
    /\ acct' = [acct EXCEPT ![wf.target] = IF @ = "pending" THEN "error" ELSE @]

\* retryRestoreWorkflow.  ScheduleSnapshotRetry is rolled back, and the attempt
\* is not counted, when no capability is prepared.
RetryRestore ==
    /\ pc' = "idle"
    /\ IF wf.cap # "prepared" THEN UNCHANGED <<wf, rep, acct>>
       ELSE IF wf.attempt + 1 >= RetryMax THEN FailRestoreWorkflow
       ELSE /\ wf' = [wf EXCEPT !.state = "retry_wait", !.attempt = @ + 1, !.cap = "revoked"]
            /\ UNCHANGED <<rep, acct>>
    /\ UNCHANGED <<online, data, home, copy, lease, session, wrote, waived, prot,
                   faults, run, xfer, recv, late, sync, gen>>

\* restoreTargetAccount.
RestoreAccount ==
    /\ pc = "account"
    /\ \/ /\ wf.target \in online /\ acct[wf.target] = "pending"
          /\ acct' = [acct EXCEPT ![wf.target] = "active"]
          /\ pc' = IF wf.cap = "prepared" THEN "prepare" ELSE "rotate"
          /\ UNCHANGED <<online, data, home, rep, copy, lease, session, wrote, waived,
                         prot, faults, wf, run, xfer, recv, late, sync, gen, spent>>
       \/ wf.target \notin online /\ UNCHANGED spent /\ RetryRestore
       \/ Spend("mishaps", MaxMishaps) /\ RetryRestore

\* rotateRestoreCapability; every later command has a new operation.
RotateRestoreCapability ==
    /\ pc = "rotate"
    /\ IF wf.gen # gen THEN UNCHANGED spent /\ RetryRestore
       ELSE /\ wf' = [wf EXCEPT !.cap = "prepared", !.prepare = "none"]
            /\ run' = "none"
            /\ pc' = "prepare"
            /\ UNCHANGED <<online, data, users, faults, xfer, recv, late, sync, gen, spent>>

\* prepareTransferLocked on the target, once for every capability: an earlier
\* transfer is replaced if it was not used, failed, or was used and has expired.
Preparable == xfer \in {"none", "prepared", "failed", "consumed"}
Refusable  == xfer \in {"consumed", "published"}

\* prepare_snapshot_receive, whose answer is kept for its operation, and the
\* start of the transfer; a refusal rotates the capability before the retry.
PrepareRestore ==
    /\ pc = "prepare"
    /\ \/ /\ \/ wf.prepare = "ok" /\ UNCHANGED xfer
             \/ wf.prepare = "none" /\ wf.target \in online /\ Preparable /\ xfer' = "prepared"
          /\ IF wf.state = "scheduled" /\ wf.gen # gen
             THEN pc' = "idle" /\ wf' = [wf EXCEPT !.prepare = "ok"] /\ UNCHANGED run
             ELSE /\ wf' = [wf EXCEPT !.prepare = "ok",
                                      !.state = IF @ = "scheduled" THEN "transferring" ELSE @]
                  /\ run' = IF run = "none" THEN "queued" ELSE run
                  /\ pc' = "start"
          /\ UNCHANGED <<online, data, users, faults, recv, late, sync, gen, spent>>
       \/ /\ wf.prepare = "none" /\ wf.target \in online /\ Refusable /\ wf.gen = gen
          /\ UNCHANGED spent /\ RetryRestore
       \/ /\ wf.prepare = "none" /\ wf.target \in online /\ Refusable /\ wf.gen # gen
          /\ pc' = "idle"
          /\ UNCHANGED <<online, data, users, faults, wf, run, xfer, recv, late, sync, gen,
                         spent>>
       \/ wf.prepare = "none" /\ wf.target \notin online /\ UNCHANGED spent /\ RetryRestore
       \/ wf.prepare = "none" /\ Spend("mishaps", MaxMishaps) /\ RetryRestore

\* A report of the target moves the workflow from one stage to the next, or is
\* repeated; it is refused under another generation.
Reports(from, to) == wf.state \in {from, to} /\ wf.gen = gen

\* RunRestoreTransfer: the archive must be the one the workflow names, only one
\* run of the job is under way, and the target takes a prepared transfer.
\* ReceiveSnapshot on the target reports "verifying" when it has the archive.
RunRestoreTransfer ==
    /\ run = "queued" /\ Storage \in online
    /\ LET sent == /\ data[Storage] = wf.point /\ recv = "none"
                   /\ xfer = "prepared" /\ wf.target \in online
           ok   == sent /\ Reports("transferring", "verifying")
       IN  /\ run' = IF ok THEN "running" ELSE "failed"
           /\ recv' = IF ok THEN "verified" ELSE recv
           /\ xfer' = IF ok THEN "consumed" ELSE IF sent THEN "failed" ELSE xfer
           /\ wf' = IF ok THEN [wf EXCEPT !.state = "verifying"] ELSE wf
    /\ UNCHANGED <<online, data, users, faults, pc, late, sync, gen, spent>>

\* ReceiveSnapshot takes replicaMutationMu and reports "publishing".
PublishRestore ==
    /\ recv = "verified" /\ ~Publishing(wf.target)
    /\ IF Reports("verifying", "publishing")
       THEN /\ wf' = [wf EXCEPT !.state = "publishing"]
            /\ recv' = "publishing"
            /\ UNCHANGED <<run, xfer>>
       ELSE /\ recv' = "none" /\ xfer' = "failed"
            /\ run' = IF run = "running" THEN "failed" ELSE run
            /\ UNCHANGED wf
    /\ UNCHANGED <<online, data, users, faults, pc, late, sync, gen, spent>>

\* publishSnapshotDirectory and publishTransfer: the trees are exchanged, and
\* the receipt is kept unless the transfer was replaced.
ExchangeRestore ==
    /\ recv = "publishing"
    /\ data' = [data EXCEPT ![wf.target] = wf.point]
    /\ recv' = "none"
    /\ xfer' = IF xfer = "consumed" THEN "published" ELSE xfer
    /\ run' = IF run # "running" THEN run ELSE IF xfer = "consumed" THEN "ok" ELSE "failed"
    /\ UNCHANGED <<online, users, faults, wf, pc, late, sync, gen, spent>>

\* The exchange of an earlier restore comes to its end, with or without success.
FinishLateExchange(n) ==
    /\ late[n] # NoTree
    /\ late' = [late EXCEPT ![n] = NoTree]
    /\ data' \in {data, [data EXCEPT ![n] = late[n]]}
    /\ UNCHANGED <<online, users, faults, wf, pc, run, xfer, recv, sync, gen, spent>>

\* The target stops while it receives, with or without the trees exchanged.
TargetCrash ==
    /\ recv # "none"
    /\ Spend("mishaps", MaxMishaps)
    /\ recv' = "none"
    /\ run' = IF run = "running" THEN "failed" ELSE run
    /\ \/ UNCHANGED data
       \/ recv = "publishing" /\ data' = [data EXCEPT ![wf.target] = wf.point]
    /\ UNCHANGED <<online, users, faults, wf, pc, xfer, late, sync, gen>>

\* What CompleteRestoreWorkflow asks again, the lease of this moment among it.
RestoreCompletable ==
    /\ wf.state = "publishing" /\ wf.gen = gen /\ wf.cap = "prepared"
    /\ RecoveryReady
    /\ lease.state = "ended"
    /\ copy[Storage] = wf.point
    /\ acct[wf.target] = "active" /\ wf.target \in online

\* The home moves to the target; a refusal leaves the workflow to a later claim.
CompleteRestoreWorkflow ==
    /\ pc' = "idle"
    /\ IF RestoreCompletable
       THEN /\ MoveHome(wf.target, wf.point)
            /\ wf' = [wf EXCEPT !.state = "succeeded", !.cap = "consumed"]
       ELSE UNCHANGED <<home, rep, copy, acct, prot, fault, wf>>
    /\ UNCHANGED <<online, data, lease, session, wrote, waived, claimed, cmds, frozen, tomb,
                   run, xfer, recv, late, sync, gen, spent>>

\* The worker has the answer of start_restore_transfer, or gives up on it.
StartDone ==
    /\ pc = "start"
    /\ \/ run = "ok" /\ CompleteRestoreWorkflow
       \/ /\ run # "ok" /\ wf.state = "publishing"
          /\ IF run = "failed" THEN UNCHANGED spent ELSE Spend("mishaps", MaxMishaps)
          /\ pc' = "receipt"
          /\ UNCHANGED <<online, data, users, faults, wf, run, xfer, recv, late, sync, gen>>
       \/ /\ run = "failed" /\ wf.state # "publishing" /\ wf.gen # gen
          /\ pc' = "idle"
          /\ UNCHANGED <<online, data, users, faults, wf, run, xfer, recv, late, sync, gen,
                         spent>>
       \/ /\ run = "failed" /\ wf.state # "publishing" /\ wf.gen = gen
          /\ UNCHANGED spent /\ RetryRestore
       \/ /\ run \in {"queued", "running"} /\ wf.state # "publishing"
          /\ IF run = "queued" /\ Storage \notin online THEN UNCHANGED spent
             ELSE Spend("mishaps", MaxMishaps)
          /\ RetryRestore

\* loadRestoreReceipt, and the completion when there is one.
LoadRestoreReceipt ==
    /\ pc = "receipt"
    /\ \/ wf.target \in online /\ xfer = "published" /\ CompleteRestoreWorkflow
       \/ (wf.target \notin online \/ xfer # "published") /\ UNCHANGED spent /\ RetryRestore
       \/ Spend("mishaps", MaxMishaps) /\ RetryRestore

------------------------------------------------------------------------------
RestoreSteps ==
    \/ ClaimRestoreWorkflow \/ RestoreAccount \/ RotateRestoreCapability
    \/ PrepareRestore \/ RunRestoreTransfer \/ PublishRestore \/ ExchangeRestore
    \/ StartDone \/ LoadRestoreReceipt \/ \E n \in Computes : FinishLateExchange(n)

FaultSteps ==
    \/ ClaimUserDataFault \/ ClaimUserDataFaultRelease
    \/ \E op \in Op : \/ FreezeUserData(op) \/ ReleaseUserData(op)
                      \/ CompleteUserDataFaultFreeze(op) \/ CompleteUserDataFaultRelease(op)
                      \/ RetryUserDataFault(op)

BackupSteps == PublishBackup \/ ExchangeBackup \/ CompleteSnapshotWorkflow

RecoveryNext ==
    \/ RestoreSteps \/ FaultSteps \/ BackupSteps
    \/ ReconcileProtectionStates \/ Login \/ Write \/ Leave \/ Promote \/ Restart
    \/ FailSnapshotWorkflow \/ TargetCrash \/ ReportUserDataFault
    \/ \E n \in AllNodes : NodeDown(n) \/ NodeUp(n) \/ CreateSnapshotWorkflow(n)
    \/ \E n \in Computes : ConfirmReplicaTakeover(n) \/ CreateRestoreWorkflow(n)

RecoverySpec == RecoveryInit /\ [][RecoveryNext]_recoveryVars

\* The reconcilers of the Controller and the command loops of the Agents go on,
\* nodes come back, and a session ends when the user is away.
RecoveryFairSpec ==
    /\ RecoverySpec
    /\ WF_recoveryVars(RestoreSteps) /\ WF_recoveryVars(FaultSteps)
    /\ WF_recoveryVars(BackupSteps)
    /\ WF_recoveryVars(Leave) /\ WF_recoveryVars(\E n \in AllNodes : NodeUp(n))

------------------------------------------------------------------------------
(* Properties. *)

\* Every session that can still write is at the home of the user: neither a
\* take-over (ConfirmReplicaTakeover) nor a restore (CompleteRestoreWorkflow)
\* leaves a writer behind, and a fault report, which ends the lease at once but
\* the session only with the freeze, opens no way around that.
WriterAtHome == session \notin frozen \cup {Nobody} => session = home

\* A classified fault has its gate on the node, and a released fault has none,
\* through restarts and changes of generation between the steps of
\* executeUserDataFault and executeUserDataFaultRelease.
GateMatchesFault ==
    /\ fault.state \in {"recovery_available", "recovery_unavailable"} => fault.node \in frozen
    /\ fault.release = "released" => fault.node \notin frozen

\* A restore makes a node the home with the very tree the user has agreed to
\* (handleStartArchiveRestore, CompleteRestoreWorkflow), whatever a late backup
\* did on that node.
RestoreLandsAsAcknowledged ==
    [][wf'.state = "succeeded" /\ wf.state # "succeeded" => data[home'] = wf.point]_recoveryVars

\* A reported fault is frozen and classified, and a resolved one is released.
FaultSettles ==
    /\ fault.state = "reported" ~> fault.state \in {"recovery_available",
                                          "recovery_unavailable", "resolved"}
    /\ fault.state = "resolved" ~> fault.release = "released"

\* A restore comes to an end while its Controller generation lasts, unless a
\* fault without recovery point was found meanwhile.
RestoreEnds == wf.state \notin Closed ~> \/ wf.state \in Closed
                                        \/ wf.gen # gen
                                        \/ fault.state = "recovery_unavailable"

\* While a user is in session on a node, nothing is taken away from the tree there:
\* "Backup mutation must stop before a writer lease is handed to the browser"
\* (controller/tickets.go).  Not so: a standby can be taken over while a backup
\* to it is under way, and only backups from the node of the login are aborted.
LiveTreeKept == [][\A n \in Computes : session = n => data[n] \subseteq data'[n]]_recoveryVars

\* What the home does not have is what the user agreed to lose: "Never promote a
\* restored copy over live data" (CompleteRestoreWorkflow).  Not so: a user who
\* comes back during a restore, writes and leaves, has the writes replaced.
LossIsAcknowledged == (1..wrote) \ waived \subseteq data[home]

=============================================================================
