--------------------------- MODULE ActivityLease ---------------------------
(***************************************************************************)
(* The single-writer protocol of one user: the durable activity lease      *)
(* (store/leases.go), the one-use login hand-offs that grant it            *)
(* (store/handoffs.go, controller/tickets.go), the telemetry that extends  *)
(* it and the confirmations that extend the write deadline of the          *)
(* node-local session (controller/agent.go, agent/activity_leases.go), and *)
(* every operation that takes the lease away or moves the user's home:     *)
(* hot-standby takeover, archive restore, node retirement, data fault and  *)
(* promotion of a new controller generation.                               *)
(*                                                                         *)
(* The adapter inside SillyTavern is not part of the repository.  It is    *)
(* modelled from what the Agent sends it: a session may write until its    *)
(* confirmed deadline, a higher activity epoch displaces a lower one, an   *)
(* ended session leaves a tombstone, and a data-fault gate blocks writes.  *)
(*                                                                         *)
(* Every database transaction is one step: they serialize on the           *)
(* global_users row, a redemption on the ticket row that every transaction *)
(* which ends a lease by force also writes.  handleLoginRedirect is two    *)
(* steps: it decides whether the requested node is the home before its     *)
(* transaction starts.                                                     *)
(***************************************************************************)
EXTENDS Integers, FiniteSets

CONSTANTS Nodes,       \* compute nodes
          FirstHome,   \* the home the user registered on
          Logins,      \* login operation ids; a session id is derived from one
          NoLogin,     \* no session
          Retiring,    \* nodes an administrator may retire
          Statuses,    \* what a report of an open session may say
          MaxFaults,   \* bound on reported data faults
          MaxWorks,    \* bound on snapshot and restore workflows
          LeaseTTL,    \* Lifecycle.ActivityLeaseSec, in clock ticks
          TicketTTL,   \* Ticket.TTLSec
          ReportAge,   \* oldest observation validateActivityObservation takes
          MaxGen,      \* bound on the controller generation
          MaxMsgs,     \* bound on messages in flight
          MaxNow       \* bound on the clock

ASSUME ActivityLeaseAssumption ==
    /\ FirstHome \in Nodes
    /\ NoLogin \notin Logins
    /\ Retiring \subseteq Nodes
    /\ Statuses \subseteq {"busy", "page", "idle"}
    /\ LeaseTTL \in Nat \ {0}
    /\ TicketTTL \in Nat \ {0}
    /\ MaxFaults \in Nat /\ MaxWorks \in Nat /\ ReportAge \in Nat
    /\ MaxGen \in Nat /\ MaxMsgs \in Nat /\ MaxNow \in Nat

VARIABLES now,
          activeGen,  \* generation of the active controller_epochs row
          lease,      \* the user's user_activity_leases row
          ticket,     \* control_tickets, with its activity_lease_operations row
          login,      \* handleLoginRedirect requests, by operation id
          home,       \* users.home_node_id
          copy,       \* user_replicas: kind and state on each node
          account,    \* nodes whose node_accounts row is active
          work,       \* the user's open snapshot or restore workflow
          retire,     \* the node_retirement_items row of this user's home
          fault,      \* the user's latest user_data_faults row
          local,      \* adapter: the newest session each node knows
          frozen,     \* adapter: nodes with a data-fault gate for the user
          seen,       \* Agent: newest confirmation accepted on each node
          msgs,       \* heartbeats and answers in flight
          offHome     \* history: a lease was granted on a node that was not the home

vars == <<now, activeGen, lease, ticket, login, home, copy, account, work,
          retire, fault, local, frozen, seen, msgs, offHome>>

Session == Logins \cup {NoLogin}

NoTicket == [state |-> "none", node |-> FirstHome, session |-> NoLogin,
             epoch |-> 0, gen |-> 0, expires |-> 0]

NoRequest == [pc |-> "none", node |-> FirstHome, isCurrentHome |-> FALSE]

LeaseRow == [writer : Nodes, session : Session, epoch : Nat, gen : Nat,
             state : {"none", "active", "ended"}, expires : Nat, busy : BOOLEAN]

TicketRow == [state : {"none", "issued", "consumed", "revoked"}, node : Nodes,
              session : Session, epoch : Nat, gen : Nat, expires : Nat]

LoginRequest == [pc : {"none", "aborting", "checked"}, node : Nodes, isCurrentHome : BOOLEAN]

WorkRow == [kind : {"none", "backup", "retirement", "restore"}, source : Nodes,
            target : Nodes, gen : Nat, seq : 0..MaxWorks]

RetireItem == [state : {"none", "migrating", "snapshotting", "copied", "moved"},
               node : Nodes, target : Nodes, gen : Nat]

FaultRow == [state : {"none", "reported", "available", "unavailable", "resolved"},
             node : Nodes, epoch : Nat, seq : 0..MaxFaults]

LocalSession == [open : BOOLEAN, session : Session, epoch : Nat, gen : Nat,
                 deadline : Nat, at : Nat]

Message == [type : {"report", "confirm", "grant"}, node : Nodes, session : Session,
            epoch : Nat, gen : Nat, at : Nat,
            status : {"none", "busy", "page", "idle", "ended"}, deadline : Nat]

TypeOK ==
    /\ now \in 0..MaxNow
    /\ activeGen \in 1..(MaxGen + 1)
    /\ lease \in LeaseRow
    /\ ticket \in [Logins -> TicketRow]
    /\ login \in [Logins -> LoginRequest]
    /\ home \in Nodes
    /\ copy \in [Nodes -> {"home", "standby", "stale", "corrupt"}]
    /\ account \subseteq Nodes
    /\ work \in WorkRow
    /\ retire \in RetireItem
    /\ fault \in FaultRow
    /\ local \in [Nodes -> LocalSession]
    /\ frozen \subseteq Nodes
    /\ seen \in [Nodes -> Nat]
    /\ msgs \subseteq Message
    /\ offHome \in BOOLEAN

\* A user registered on FirstHome, with a ready standby on every other node.
Init ==
    /\ now = 0
    /\ activeGen = 1
    /\ lease = [writer |-> FirstHome, session |-> NoLogin, epoch |-> 0, gen |-> 0,
                state |-> "none", expires |-> 0, busy |-> FALSE]
    /\ ticket = [op \in Logins |-> NoTicket]
    /\ login = [op \in Logins |-> NoRequest]
    /\ home = FirstHome
    /\ copy = [n \in Nodes |-> IF n = FirstHome THEN "home" ELSE "standby"]
    /\ account = Nodes
    /\ work = [kind |-> "none", source |-> FirstHome, target |-> FirstHome, gen |-> 0,
               seq |-> 0]
    /\ retire = [state |-> "none", node |-> FirstHome, target |-> FirstHome, gen |-> 0]
    /\ fault = [state |-> "none", node |-> FirstHome, epoch |-> 0, seq |-> 0]
    /\ local = [n \in Nodes |-> [open |-> FALSE, session |-> NoLogin, epoch |-> 0,
                                 gen |-> 0, deadline |-> 0, at |-> 0]]
    /\ frozen = {}
    /\ seen = [n \in Nodes |-> 0]
    /\ msgs = {}
    /\ offHome = FALSE

replicaVars == <<home, copy, account, work, retire, fault>>
nodeVars    == <<local, frozen, seen, offHome>>

---------------------------------------------------------------------------
\* Mutant: a lease blocks only while its generation is the active one.
BlocksCurrentGeneration == lease.state = "active" /\ lease.gen = activeGen
                           /\ lease.expires > now

\* leaseBlocksNewWriter.  No code writes the states quiescing, drained and
\* independent, so active is the only blocking one.
Blocks == lease.state = "active" /\ lease.expires > now

\* An administrator is retiring n: it takes no new login and no new data.
Leaving(n) == retire.state # "none" /\ n = retire.node

IsCurrentHome(n) == home = n /\ copy[n] = "home"

\* FindRunningBackupForUserOnNode
BackupFrom(n) == work.kind \in {"backup", "retirement"} /\ work.source = n

Finished == [work EXCEPT !.kind = "none"]

\* FailSnapshotWorkflow, CancelSnapshotWorkflow or a failed restore.  A retirement
\* tries again with another snapshot.
EndWork ==
    /\ work' = Finished
    /\ retire' = IF work.kind = "retirement" THEN [retire EXCEPT !.state = "migrating"] ELSE retire

\* handleLoginRedirect up to its transaction.  A node is requestable when it is
\* the home or a ready hot standby; which of the two is remembered in the request.
\* A backup that runs on the home is aborted first, by a command the request waits
\* for (Backup.AbortOnLogin).
CheckLogin(op, n) ==
    /\ login[op].pc = "none"
    /\ ticket[op].state = "none"
    /\ IsCurrentHome(n) \/ copy[n] = "standby"
    /\ login' = [login EXCEPT ![op] =
                    [pc |-> IF IsCurrentHome(n) /\ BackupFrom(n) THEN "aborting" ELSE "checked",
                     node |-> n, isCurrentHome |-> IsCurrentHome(n)]]
    /\ UNCHANGED <<now, activeGen, lease, ticket, msgs>>
    /\ UNCHANGED <<replicaVars, nodeVars>>

\* AbortBackupJobAndSnapshotWorkflow, for a workflow that is still open.
AbortBackup(op) ==
    /\ login[op].pc = "aborting" /\ BackupFrom(login[op].node)
    /\ login' = [login EXCEPT ![op].pc = "checked"]
    /\ EndWork
    /\ UNCHANGED <<now, activeGen, lease, ticket, msgs, home, copy, account, fault>>
    /\ UNCHANGED nodeVars

\* Every refusal rolls the transaction back; the client may ask again.
RefuseLogin(op) ==
    /\ login[op].pc # "none"
    /\ login' = [login EXCEPT ![op] = NoRequest]
    /\ UNCHANGED <<now, activeGen, lease, ticket, msgs>>
    /\ UNCHANGED <<replicaVars, nodeVars>>

\* Mutant: a fresh session reuses the epoch of the lease it replaces.
SameEpoch == IF lease.epoch = 0 THEN 1 ELSE lease.epoch

NextEpoch == lease.epoch + 1

Granted(op, n) ==
    [writer |-> n, session |-> op, epoch |-> NextEpoch, gen |-> activeGen,
     state |-> "active", expires |-> now + LeaseTTL, busy |-> FALSE]

\* Every ticket that has not been consumed is revoked.
RevokedTickets ==
    [op \in Logins |-> IF ticket[op].state = "issued"
                       THEN [ticket[op] EXCEPT !.state = "revoked"] ELSE ticket[op]]

\* Insert the operation's ticket for the writer of lease l.
IssueTicket(op, l) ==
    /\ ticket' = [ticket EXCEPT ![op] =
                    [state |-> "issued", node |-> l.writer, session |-> l.session,
                     epoch |-> l.epoch, gen |-> activeGen, expires |-> now + TicketTTL]]
    /\ login' = [login EXCEPT ![op] = NoRequest]
    /\ lease' = l

\* A live lease of an older generation is re-issued to its own writer.
RenewStaleLease(op) ==
    /\ login[op].pc = "checked"
    /\ Blocks /\ lease.gen < activeGen
    /\ IssueTicket(op, Granted(op, lease.writer))
    /\ UNCHANGED <<now, activeGen, msgs>>
    /\ UNCHANGED <<replicaVars, nodeVars>>

\* A live lease of this generation is shared: the ticket names its session.
JoinExistingLease(op) ==
    /\ login[op].pc = "checked"
    /\ Blocks /\ lease.gen = activeGen
    /\ IssueTicket(op, lease)
    /\ UNCHANGED <<now, activeGen, msgs>>
    /\ UNCHANGED <<replicaVars, nodeVars>>

\* Nothing blocks: the requested node becomes the writer, if the request still
\* believes it is the home (ExistingWriterOnly) and the node is not retiring.
AcquireLease(op) ==
    /\ login[op].pc = "checked"
    /\ ~Blocks
    /\ login[op].isCurrentHome
    /\ ~Leaving(login[op].node)
    /\ IssueTicket(op, Granted(op, login[op].node))
    /\ offHome' = (offHome \/ login[op].node # home)
    /\ UNCHANGED <<now, activeGen, msgs, replicaVars, local, frozen, seen>>

LeaseMatches(t) ==
    /\ lease.writer = t.node /\ lease.session = t.session
    /\ lease.epoch = t.epoch /\ lease.gen = t.gen
    /\ lease.state = "active" /\ lease.expires > now

Send(msg) == Cardinality(msgs) < MaxMsgs /\ msgs' = msgs \cup {msg}

\* ConsumeLoginHandoff: consume the ticket, renew the lease, answer the node.
ConsumeLoginHandoff(op) ==
    LET t == ticket[op] IN
    /\ t.state = "issued" /\ t.expires > now
    /\ t.gen = activeGen
    /\ t.node \in account
    /\ LeaseMatches(t)
    /\ ticket' = [ticket EXCEPT ![op].state = "consumed"]
    /\ lease' = [lease EXCEPT !.expires = now + LeaseTTL]
    /\ Send([type |-> "grant", node |-> t.node, session |-> t.session,
             epoch |-> t.epoch, gen |-> t.gen, at |-> now, status |-> "none",
             deadline |-> now + LeaseTTL])
    /\ UNCHANGED <<now, activeGen, login>>
    /\ UNCHANGED <<replicaVars, nodeVars>>

---------------------------------------------------------------------------
\* The adapter on node n may still write for the user.
Live(n) == local[n].open /\ local[n].deadline > now /\ n \notin frozen

\* Adapter: may message m still give its session the right to write?  A lower
\* epoch is refused, and an ended session is a tombstone that never reopens.
Opens(m) == \/ m.epoch > local[m.node].epoch
            \/ m.epoch = local[m.node].epoch /\ local[m.node].open

\* Adapter: the node receives the answer to its redemption.
OpenSession(m) ==
    /\ m \in msgs /\ m.type = "grant"
    /\ msgs' = msgs \ {m}
    /\ local' = IF Opens(m)
                THEN [local EXCEPT ![m.node] =
                        [open |-> TRUE, session |-> m.session, epoch |-> m.epoch,
                         gen |-> m.gen, deadline |-> m.deadline, at |-> m.at]]
                ELSE local
    /\ UNCHANGED <<now, activeGen, lease, ticket, login, frozen, seen, offHome>>
    /\ UNCHANGED replicaVars

\* Adapter: logout, or idle too long.
EndSession(n) ==
    /\ local[n].open
    /\ local' = [local EXCEPT ![n].open = FALSE]
    /\ UNCHANGED <<now, activeGen, lease, ticket, login, frozen, seen, msgs, offHome>>
    /\ UNCHANGED replicaVars

\* sendHeartbeat: report the newest session with an observation time.  An open
\* page keeps reporting after its deadline has passed.
SendReport(n, status) ==
    /\ local[n].session # NoLogin
    /\ status = "ended" <=> ~local[n].open
    /\ Send([type |-> "report", node |-> n, session |-> local[n].session,
             epoch |-> local[n].epoch, gen |-> local[n].gen, at |-> now,
             status |-> status, deadline |-> 0])
    /\ UNCHANGED <<now, activeGen, lease, ticket, login, local, frozen, seen, offHome>>
    /\ UNCHANGED replicaVars

Online(m) == m.status \in {"busy", "page"}

Later(t) == IF t > lease.expires THEN t ELSE lease.expires

\* The report is of this generation and names exactly the active lease.
Authoritative(m) ==
    /\ m.gen = activeGen /\ lease.gen = m.gen
    /\ lease.state = "active" /\ lease.writer = m.node
    /\ lease.session = m.session /\ lease.epoch = m.epoch

Confirm(m, session, deadline) ==
    [type |-> "confirm", node |-> m.node, session |-> session,
     epoch |-> IF session = NoLogin THEN 0 ELSE m.epoch, gen |-> activeGen,
     at |-> m.at, status |-> "none", deadline |-> deadline]

\* EndActivityLease and UpdateActivityLeaseTelemetry.  A page report extends an
\* expired lease too: neither statement looks at lease_expires_at.
LeaseAfter(m) ==
    IF ~Authoritative(m) THEN lease
    ELSE IF m.status = "ended"
    THEN [lease EXCEPT !.state = "ended", !.expires = now]
    ELSE [lease EXCEPT !.busy = (m.status = "busy"),
                       !.expires = IF Online(m) THEN Later(now + LeaseTTL) ELSE @]

\* handleAgentHeartbeat: refuse an old observation, otherwise apply the report
\* and answer with the complete set of confirmed sessions, which may be empty.
HandleReport(m) ==
    /\ m \in msgs /\ m.type = "report"
    /\ IF now - m.at > ReportAge
       THEN lease' = lease /\ msgs' = msgs \ {m}
       ELSE /\ lease' = LeaseAfter(m)
            /\ msgs' = (msgs \ {m}) \cup
                 {IF Authoritative(m) /\ Online(m) /\ lease'.expires > now
                  THEN Confirm(m, m.session, lease'.expires)
                  ELSE Confirm(m, NoLogin, 0)}
    /\ UNCHANGED <<now, activeGen, ticket, login>>
    /\ UNCHANGED <<replicaVars, nodeVars>>

\* recordActivityLeaseConfirmations: an older or reused observation is refused.
AcceptConfirmation(m) == m.at > seen[m.node]

\* syncTavernActivityLeases: the named session gets its deadline, a session the
\* snapshot leaves out is revoked unless it was granted after the observation.
DeliverConfirm(m) ==
    LET l == local[m.node] IN
    /\ m \in msgs /\ m.type = "confirm"
    /\ msgs' = msgs \ {m}
    /\ IF AcceptConfirmation(m)
       THEN /\ seen' = [seen EXCEPT ![m.node] = m.at]
            /\ local' = IF l.at > m.at THEN local
                        ELSE IF l.open /\ l.session = m.session /\ l.epoch = m.epoch
                        THEN [local EXCEPT ![m.node].deadline = m.deadline,
                                           ![m.node].at = m.at]
                        ELSE [local EXCEPT ![m.node].deadline = 0]
       ELSE UNCHANGED <<seen, local>>
    /\ UNCHANGED <<now, activeGen, lease, ticket, login, frozen, offHome>>
    /\ UNCHANGED replicaVars

LoseMessage(m) ==
    /\ m \in msgs
    /\ msgs' = msgs \ {m}
    /\ UNCHANGED <<now, activeGen, lease, ticket, login>>
    /\ UNCHANGED <<replicaVars, nodeVars>>

---------------------------------------------------------------------------
\* PromoteControllerEpoch: a new generation, and no ticket of the old one.
\* The leases stay as they are.
Promote ==
    /\ activeGen <= MaxGen
    /\ activeGen' = activeGen + 1
    /\ ticket' = RevokedTickets
    /\ UNCHANGED <<now, lease, login, msgs>>
    /\ UNCHANGED <<replicaVars, nodeVars>>

\* ReportUserDataFault: the home copy is corrupt from now on.  The lease is ended
\* although a session on the node may still be writing.
ReportUserDataFault ==
    /\ fault.seq < MaxFaults
    /\ \/ fault.state = "none"
       \/ fault.state = "resolved" /\ fault.node \notin frozen
    /\ fault' = [state |-> "reported", node |-> home, seq |-> fault.seq + 1,
                 epoch |-> IF lease.state = "none" THEN 1 ELSE lease.epoch]
    /\ copy' = [copy EXCEPT ![home] = "corrupt"]
    /\ lease' = IF lease.state = "active"
                THEN [lease EXCEPT !.state = "ended", !.expires = now, !.busy = FALSE]
                ELSE lease
    /\ ticket' = RevokedTickets
    /\ UNCHANGED <<now, activeGen, login, msgs, home, account, work, retire>>
    /\ UNCHANGED nodeVars

\* The freeze command took effect on the node: the gate is closed and drained.
FreezeUserData ==
    /\ fault.state = "reported"
    /\ frozen' = frozen \cup {fault.node}
    /\ UNCHANGED <<now, activeGen, lease, ticket, login, local, seen, msgs, offHome>>
    /\ UNCHANGED replicaVars

\* Mutant: the freeze is completed without a receipt of the gate.
CompleteWithoutReceipt(outcome) ==
    /\ fault.state = "reported"
    /\ fault' = [fault EXCEPT !.state = outcome]
    /\ UNCHANGED <<now, activeGen, lease, ticket, login, msgs>>
    /\ UNCHANGED <<home, copy, account, work, retire, nodeVars>>

\* CompleteUserDataFaultFreeze: only after the receipt.  The outcome is what the
\* protection projection found, which depends on nodes being reachable.
CompleteUserDataFaultFreeze(outcome) ==
    /\ fault.state = "reported" /\ fault.node \in frozen
    /\ fault' = [fault EXCEPT !.state = outcome]
    /\ UNCHANGED <<now, activeGen, lease, ticket, login, msgs>>
    /\ UNCHANGED <<home, copy, account, work, retire, nodeVars>>

\* The release command of a resolved fault.  The adapter keeps a tombstone for
\* every session up to the fault's activity epoch.
ReleaseUserData ==
    LET n == fault.node IN
    /\ fault.state = "resolved" /\ n \in frozen
    /\ frozen' = frozen \ {n}
    /\ local' = IF local[n].epoch <= fault.epoch
                THEN [local EXCEPT ![n].open = FALSE, ![n].session = NoLogin,
                                   ![n].epoch = fault.epoch]
                ELSE local
    /\ UNCHANGED <<now, activeGen, lease, ticket, login, seen, msgs, offHome>>
    /\ UNCHANGED replicaVars

---------------------------------------------------------------------------
\* requireUserDataFaultRecoveryReadyLocked
RecoveryReady == fault.state \in {"none", "available", "resolved"}

\* A recovery point is in use: no new request may still be running.
InFlight == lease.state # "none" /\ lease.busy

\* One transaction makes n the only home: the old home and its account go stale,
\* the lease ends and no ticket survives.
MoveHome(n) ==
    /\ home' = n
    /\ copy' = [copy EXCEPT ![home] = "stale", ![n] = "home"]
    /\ account' = (account \ {home}) \cup {n}
    /\ lease' = IF lease.state = "none" THEN lease
                ELSE [lease EXCEPT !.state = "ended", !.expires = now]
    /\ ticket' = RevokedTickets
    /\ UNCHANGED <<now, activeGen, login, msgs>>
    /\ UNCHANGED nodeVars

\* resolveUserDataFaultLocked
ResolveFault ==
    fault' = IF fault.state = "available" THEN [fault EXCEPT !.state = "resolved"] ELSE fault

\* The row of the home still says that it is one, ready or corrupt.
HomeRow == copy[home] \in {"home", "corrupt"}

\* ConfirmReplicaTakeover
ConfirmReplicaTakeover(n) ==
    /\ n # home /\ copy[n] = "standby" /\ n \in account /\ ~Leaving(n)
    /\ RecoveryReady
    /\ ~Blocks
    /\ HomeRow /\ MoveHome(n)
    /\ ResolveFault
    /\ UNCHANGED <<work, retire>>

Idle == work.kind = "none"

\* Insert a workflow; a user has at most one that is not terminal
\* (idx_workflows_one_user_snapshot).
Schedule(kind, s, n) ==
    /\ Idle /\ work.seq < MaxWorks
    /\ work' = [kind |-> kind, source |-> s, target |-> n, gen |-> activeGen,
                seq |-> work.seq + 1]

\* CreateRestoreWorkflow: a restore from an archive is scheduled onto n.
CreateRestoreWorkflow(n) ==
    /\ RecoveryReady
    /\ ~Blocks /\ ~InFlight
    /\ n # home /\ ~Leaving(n)
    /\ Schedule("restore", home, n)
    /\ copy' = [copy EXCEPT ![n] = "stale"]
    /\ UNCHANGED <<now, activeGen, lease, ticket, login, msgs, home, account, retire, fault>>
    /\ UNCHANGED nodeVars

\* CompleteWorkflowTargetAccountProvision
ProvisionAccount ==
    /\ ~Idle /\ work.target \notin account
    /\ account' = account \cup {work.target}
    /\ UNCHANGED <<now, activeGen, lease, ticket, login, msgs, home, copy, work, retire, fault>>
    /\ UNCHANGED nodeVars

\* Mutant: the lease is checked when the restore is created and not again.
RestoreOverLiveLease ==
    /\ work.kind = "restore" /\ work.gen = activeGen
    /\ RecoveryReady
    /\ work.target \in account /\ ~Leaving(work.target)
    /\ work' = Finished
    /\ HomeRow /\ MoveHome(work.target)
    /\ ResolveFault
    /\ UNCHANGED retire

\* CompleteRestoreWorkflow: the restored copy becomes the home.
CompleteRestoreWorkflow ==
    /\ work.kind = "restore" /\ work.gen = activeGen
    /\ RecoveryReady
    /\ ~Blocks /\ ~InFlight
    /\ work.target \in account /\ ~Leaving(work.target)
    /\ work' = Finished
    /\ HomeRow /\ MoveHome(work.target)
    /\ ResolveFault
    /\ UNCHANGED retire

\* A snapshot of s may be created: the lease row, if there is one, names s, has
\* expired and reports nothing in flight.  Nothing of this is asked again later.
SnapshotAllowed(s) ==
    \/ lease.state = "none"
    \/ lease.writer = s /\ lease.expires <= now /\ ~lease.busy

\* user_replicas of the target: a ready row stays, any other is syncing.
Syncing(n) ==
    copy' = [copy EXCEPT ![n] = IF @ \in {"home", "standby"} THEN @ ELSE "stale"]

\* CreateSnapshotWorkflow of a backup to a hot standby.  The caller has read the
\* home before; the transaction does not, and asks the lease for the source.
CreateSnapshotWorkflow(s, n) ==
    /\ s = home \/ lease.state # "none"
    /\ s # n /\ ~Leaving(s) /\ ~Leaving(n)
    /\ SnapshotAllowed(s)
    /\ Schedule("backup", s, n)
    /\ Syncing(n)
    /\ UNCHANGED <<now, activeGen, lease, ticket, login, msgs, home, account, retire, fault>>
    /\ UNCHANGED nodeVars

\* CompleteSnapshotWorkflow, once the target has an account and a receipt.  A new
\* generation adopts the workflow, so its generation does not matter here.
CompleteSnapshotWorkflow ==
    /\ work.kind \in {"backup", "retirement"} /\ work.target \in account
    /\ work' = Finished
    /\ copy' = [copy EXCEPT ![work.target] =
                   IF @ \in {"home", "corrupt"} THEN "home" ELSE "standby"]
    /\ retire' = IF work.kind = "retirement" THEN [retire EXCEPT !.state = "copied"] ELSE retire
    /\ UNCHANGED <<now, activeGen, lease, ticket, login, msgs, home, account, fault>>
    /\ UNCHANGED nodeVars

FailWorkflow ==
    /\ ~Idle
    /\ EndWork
    /\ UNCHANGED <<now, activeGen, lease, ticket, login, msgs, home, copy, account, fault>>
    /\ UNCHANGED nodeVars

\* createNodeRetirementLocked and ClaimNodeRetirement
StartRetirement ==
    /\ retire.state = "none" /\ home \in Retiring
    /\ retire' = [state |-> "migrating", node |-> home, target |-> home, gen |-> activeGen]
    /\ UNCHANGED <<now, activeGen, lease, ticket, login, msgs, home, copy, account, work, fault>>
    /\ UNCHANGED nodeVars

\* CreateSnapshotWorkflow of the retirement item.
CreateRetirementSnapshot(n) ==
    /\ retire.state = "migrating" /\ retire.gen = activeGen
    /\ n # retire.node
    /\ SnapshotAllowed(retire.node)
    /\ Schedule("retirement", retire.node, n)
    /\ Syncing(n)
    /\ retire' = [retire EXCEPT !.state = "snapshotting", !.target = n]
    /\ UNCHANGED <<now, activeGen, lease, ticket, login, msgs, home, account, fault>>
    /\ UNCHANGED nodeVars

\* CompleteNodeRetirementHomeMigration.  It looks at the lease, not at the fault.
CompleteNodeRetirementHomeMigration ==
    /\ retire.state = "copied" /\ retire.gen = activeGen /\ retire.node = home
    /\ ~(lease.state = "active" /\ (lease.expires > now \/ lease.busy))
    /\ copy[retire.target] = "standby" /\ retire.target \in account
    /\ retire' = [retire EXCEPT !.state = "moved"]
    /\ MoveHome(retire.target)
    /\ UNCHANGED <<work, fault>>

Tick ==
    /\ now < MaxNow
    /\ now' = now + 1
    /\ UNCHANGED <<activeGen, lease, ticket, login, msgs>>
    /\ UNCHANGED <<replicaVars, nodeVars>>

---------------------------------------------------------------------------
LoginStep(op) ==
    \/ \E n \in Nodes : CheckLogin(op, n)
    \/ AbortBackup(op) \/ RefuseLogin(op) \/ RenewStaleLease(op) \/ JoinExistingLease(op)
    \/ AcquireLease(op) \/ ConsumeLoginHandoff(op)

MessageStep(m) ==
    OpenSession(m) \/ HandleReport(m) \/ DeliverConfirm(m) \/ LoseMessage(m)

NodeStep(n) ==
    \/ EndSession(n)
    \/ \E status \in Statuses \cup {"ended"} : SendReport(n, status)
    \/ ConfirmReplicaTakeover(n) \/ CreateRestoreWorkflow(n)
    \/ CreateRetirementSnapshot(n) \/ \E s \in Nodes : CreateSnapshotWorkflow(s, n)

FaultStep ==
    \/ ReportUserDataFault \/ FreezeUserData \/ ReleaseUserData
    \/ \E outcome \in {"available", "unavailable"} : CompleteUserDataFaultFreeze(outcome)

UserStep ==
    \/ Promote \/ Tick \/ FaultStep
    \/ ProvisionAccount \/ CompleteRestoreWorkflow \/ CompleteSnapshotWorkflow
    \/ FailWorkflow
    \/ StartRetirement \/ CompleteNodeRetirementHomeMigration

Next ==
    \/ \E op \in Logins : LoginStep(op)
    \/ \E m \in msgs : MessageStep(m)
    \/ \E n \in Nodes : NodeStep(n)
    \/ UserStep

Spec == Init /\ [][Next]_vars

---------------------------------------------------------------------------
\* Node n holds the lease: whoever looks at the row sees that it may write.
HoldsLease(n) == lease.writer = n /\ lease.state = "active" /\ lease.expires > now

\* The node's session has an epoch that the latest data fault covers: its lease was
\* ended by the report, and the freeze has still to reach it.
BeforeFault(n) == fault.seq > 0 /\ local[n].epoch <= fault.epoch

\* A login was granted on a former home and a data fault was reported: the fault
\* freezes the home and ends the lease, wherever that is (README).
FaultMetOffHome == offHome /\ fault.seq > 0

\* R04: at any moment at most one node accepts writes of the user, whatever
\* hand-offs, heartbeats, promotions, home moves or data faults are in progress,
\* also when a login is granted on a node that ceased to be the home since it was
\* checked.  A fault and such a login together are excepted.
SingleWriter ==
    FaultMetOffHome \/ \A m, n \in Nodes : Live(m) /\ Live(n) => m = n

\* What takeover, restore, snapshot, retirement and login rely on when they look at
\* the lease row only: a node whose session can still write holds the lease, in the
\* adapter's own deadlines, unless a data fault ended the lease under the session.
WriterHoldsLease ==
    \A n \in Nodes : Live(n) => HoldsLease(n) \/ BeforeFault(n)

\* Does not hold (README): writes only ever reach the authoritative copy, that is,
\* a node that accepts writes is the user's home.
WriterIsHome == \A n \in Nodes : Live(n) => n = home

Holders ==
    {[node |-> ticket[op].node, session |-> ticket[op].session, epoch |-> ticket[op].epoch] :
        op \in {o \in Logins : ticket[o].state # "none"}}
    \cup {[node |-> n, session |-> local[n].session, epoch |-> local[n].epoch] :
            n \in {k \in Nodes : local[k].session # NoLogin}}
    \cup {[node |-> m.node, session |-> m.session, epoch |-> m.epoch] :
            m \in {k \in msgs : k.session # NoLogin}}

\* An activity epoch is a fencing token: tickets, node sessions and messages with
\* the same epoch name the same node and session, and none is newer than the lease.
EpochNamesOneWriter ==
    \A h \in Holders :
        /\ h.epoch <= lease.epoch
        /\ \A g \in Holders : h.epoch = g.epoch => h = g

\* A transaction that moves the home (takeover, restore, retirement) never does so
\* under a session that can still write, with the exception of SingleWriter.
HomeMovesWhenQuiet ==
    [][home' # home => FaultMetOffHome \/ \A n \in Nodes : ~Live(n)]_vars

\* Does not hold: a new writer epoch is granted on the node that is the home with a
\* ready copy when the lease is taken.
GrantOnlyOnHome ==
    [][(lease'.epoch # lease.epoch /\ ~Blocks) => IsCurrentHome(lease'.writer)]_vars

============================================================================
