------------------------ MODULE ActivityLeaseProofs ------------------------
(***************************************************************************)
(* Machine-checked proofs about ActivityLease, for every number of nodes,  *)
(* logins, generations, messages and every lease and ticket lifetime: its  *)
(* type invariant; that a lease epoch names one writer and that a node     *)
(* whose session can still write holds the lease, whatever data faults are *)
(* reported; and that as long as none is, at most one node accepts writes  *)
(* and the home moves only when no session can still write.                *)
(***************************************************************************)
EXTENDS ActivityLease, TLAPS

\* Revoking every open ticket leaves a well-formed ticket table.
LEMMA RevokedTicketsType ==
    ASSUME TypeOK PROVE RevokedTickets \in [Logins -> TicketRow]
<1> SUFFICES ASSUME NEW op \in Logins
             PROVE (IF ticket[op].state = "issued"
                    THEN [ticket[op] EXCEPT !.state = "revoked"] ELSE ticket[op]) \in TicketRow
  BY Zenon DEF RevokedTickets
<1>1. ticket[op] \in TicketRow
  BY Zenon DEF TypeOK
<1> QED BY <1>1, Zenon DEF TicketRow

\* The home move of a takeover, a restore or a retirement keeps every row it
\* changes well-formed.
LEMMA MoveHomeType ==
    ASSUME TypeOK, NEW n \in Nodes, MoveHome(n)
    PROVE  /\ home' \in Nodes
           /\ copy' \in [Nodes -> {"home", "standby", "stale", "corrupt"}]
           /\ account' \subseteq Nodes
           /\ lease' \in LeaseRow
           /\ ticket' \in [Logins -> TicketRow]
           /\ UNCHANGED <<now, activeGen, login, msgs, local, frozen, seen, offHome>>
<1>1. lease' \in LeaseRow
  <2>1. lease \in LeaseRow /\ now \in Nat
    BY ActivityLeaseAssumption DEF TypeOK
  <2>2. [lease EXCEPT !.state = "ended", !.expires = now] \in LeaseRow
    BY <2>1, Zenon DEF LeaseRow
  <2> QED BY <2>1, <2>2, Zenon DEF MoveHome
<1>2. ticket' \in [Logins -> TicketRow]
  BY RevokedTicketsType, Zenon DEF MoveHome
<1> QED BY <1>1, <1>2, Zenon DEF MoveHome, TypeOK, nodeVars

\* Resolving the fault of a recovered user keeps its row well-formed.
LEMMA ResolveFaultType ==
    ASSUME TypeOK, ResolveFault PROVE fault' \in FaultRow
BY Zenon DEF ResolveFault, TypeOK, FaultRow

\* A new workflow, and the end of one, leave well-formed rows.
LEMMA ScheduleType ==
    ASSUME TypeOK, NEW s \in Nodes, NEW n \in Nodes,
           NEW kind \in {"backup", "retirement", "restore"}, Schedule(kind, s, n)
    PROVE  work' \in WorkRow
<1>1. work.seq + 1 \in 0..MaxWorks /\ activeGen \in Nat
  BY ActivityLeaseAssumption DEF Schedule, TypeOK, WorkRow
<1> QED BY <1>1, Zenon DEF Schedule, WorkRow

LEMMA EndWorkType ==
    ASSUME TypeOK, EndWork PROVE work' \in WorkRow /\ retire' \in RetireItem
BY Zenon DEF EndWork, Finished, TypeOK, WorkRow, RetireItem

\* Every action keeps the type invariant.
LEMMA TypeStep == TypeOK /\ [Next]_vars => TypeOK'
<1> USE ActivityLeaseAssumption
<1> SUFFICES ASSUME TypeOK, [Next]_vars PROVE TypeOK'
  BY Zenon
<1>1. ASSUME NEW op \in Logins, LoginStep(op) PROVE TypeOK'
  <2>0. ASSUME NEW l \in LeaseRow, IssueTicket(op, l)
        PROVE  /\ ticket' \in [Logins -> TicketRow] /\ login' \in [Logins -> LoginRequest]
               /\ lease' \in LeaseRow
    BY <2>0 DEF IssueTicket, TypeOK, LeaseRow, TicketRow, LoginRequest, NoRequest
  <2>g. ASSUME NEW n \in Nodes PROVE Granted(op, n) \in LeaseRow
    BY DEF Granted, NextEpoch, TypeOK, LeaseRow, Session
  <2>1. ASSUME NEW n \in Nodes, CheckLogin(op, n) PROVE TypeOK'
    BY <2>1, Zenon DEF CheckLogin, TypeOK, replicaVars, nodeVars, IsCurrentHome, LoginRequest
  <2>7. CASE AbortBackup(op)
    <3>1. login' \in [Logins -> LoginRequest]
      BY <2>7, ZenonT(60) DEF AbortBackup, TypeOK, LoginRequest
    <3> QED BY <2>7, <3>1, EndWorkType, Zenon DEF AbortBackup, TypeOK, nodeVars
  <2>2. CASE RefuseLogin(op)
    BY <2>2, Zenon DEF RefuseLogin, TypeOK, replicaVars, nodeVars, NoRequest, LoginRequest
  <2>3. CASE RenewStaleLease(op)
    <3>1. lease.writer \in Nodes
      BY Zenon DEF TypeOK, LeaseRow
    <3> QED BY <2>0, <2>g, <2>3, <3>1, Zenon DEF RenewStaleLease, TypeOK, replicaVars, nodeVars
  <2>4. CASE JoinExistingLease(op)
    BY <2>0, <2>4, Zenon DEF JoinExistingLease, TypeOK, replicaVars, nodeVars
  <2>5. CASE AcquireLease(op)
    <3>1. login[op].node \in Nodes
      BY Zenon DEF TypeOK, LoginRequest
    <3>2. offHome' \in BOOLEAN
      BY <2>5, Zenon DEF AcquireLease
    <3> QED BY <2>0, <2>g, <2>5, <3>1, <3>2, Zenon DEF AcquireLease, TypeOK, replicaVars
  <2>6. CASE ConsumeLoginHandoff(op)
    <3>0. ticket[op] \in TicketRow
      BY Zenon DEF TypeOK
    <3>1. ticket' \in [Logins -> TicketRow]
      BY <2>6, <3>0, Zenon DEF ConsumeLoginHandoff, TypeOK, TicketRow
    <3>2. lease' \in LeaseRow
      BY <2>6 DEF ConsumeLoginHandoff, TypeOK, LeaseRow
    <3>3. msgs' \subseteq Message
      BY <2>6, <3>0 DEF ConsumeLoginHandoff, Send, TypeOK, Message, TicketRow
    <3> QED BY <2>6, <3>1, <3>2, <3>3, Zenon DEF ConsumeLoginHandoff, TypeOK, replicaVars, nodeVars
  <2> QED BY <1>1, <2>1, <2>2, <2>3, <2>4, <2>5, <2>6, <2>7, Zenon DEF LoginStep
<1>2. ASSUME NEW m \in msgs, MessageStep(m) PROVE TypeOK'
  <2>0. m \in Message /\ m.node \in Nodes /\ local[m.node] \in LocalSession
    BY Zenon DEF TypeOK, Message
  <2>1. CASE OpenSession(m)
    <3>1. local' \in [Nodes -> LocalSession]
      BY <2>0, <2>1, Zenon DEF OpenSession, TypeOK, Message, LocalSession
    <3> QED BY <2>1, <3>1, Zenon DEF OpenSession, TypeOK, replicaVars
  <2>2. CASE HandleReport(m)
    <3>1. LeaseAfter(m) \in LeaseRow
      <4>1. lease \in LeaseRow /\ now \in Nat /\ Later(now + LeaseTTL) \in Nat
        BY DEF TypeOK, Later, LeaseRow
      <4>2. [lease EXCEPT !.state = "ended", !.expires = now] \in LeaseRow
        BY <4>1, Zenon DEF LeaseRow
      <4>3. ASSUME NEW e \in Nat
            PROVE [lease EXCEPT !.busy = (m.status = "busy"), !.expires = e] \in LeaseRow
        BY <4>1, Zenon DEF LeaseRow
      <4>4. lease.expires \in Nat
        BY <4>1, Zenon DEF LeaseRow
      <4> QED BY <4>1, <4>2, <4>3, <4>4, Zenon DEF LeaseAfter
    <3>2. lease' \in LeaseRow
      BY <2>2, <3>1, Zenon DEF HandleReport, TypeOK
    <3>3. Confirm(m, m.session, lease'.expires) \in Message /\ Confirm(m, NoLogin, 0) \in Message
      BY <2>0, <3>2 DEF Confirm, TypeOK, Message, LeaseRow, Session
    <3>4. msgs' \subseteq Message
      BY <2>2, <3>3, Zenon DEF HandleReport, TypeOK
    <3> QED BY <2>2, <3>2, <3>4, Zenon DEF HandleReport, TypeOK, replicaVars, nodeVars
  <2>3. CASE DeliverConfirm(m)
    <3>1. local' \in [Nodes -> LocalSession]
      BY <2>0, <2>3 DEF DeliverConfirm, TypeOK, Message, LocalSession
    <3>2. seen' \in [Nodes -> Nat]
      BY <2>0, <2>3, Zenon DEF DeliverConfirm, TypeOK, Message
    <3> QED BY <2>3, <3>1, <3>2, Zenon DEF DeliverConfirm, TypeOK, replicaVars
  <2>4. CASE LoseMessage(m)
    BY <2>4, Zenon DEF LoseMessage, TypeOK, replicaVars, nodeVars
  <2> QED BY <1>2, <2>1, <2>2, <2>3, <2>4, Zenon DEF MessageStep
<1>3. ASSUME NEW n \in Nodes, NodeStep(n) PROVE TypeOK'
  <2>0. local[n] \in LocalSession
    BY Zenon DEF TypeOK
  <2>1. CASE EndSession(n)
    <3>1. local' \in [Nodes -> LocalSession]
      BY <2>0, <2>1, Zenon DEF EndSession, TypeOK, LocalSession
    <3> QED BY <2>1, <3>1, Zenon DEF EndSession, TypeOK, replicaVars
  <2>3. ASSUME NEW s \in Statuses \cup {"ended"}, SendReport(n, s) PROVE TypeOK'
    <3>1. msgs' \subseteq Message
      BY <2>0, <2>3 DEF SendReport, Send, TypeOK, Message, LocalSession
    <3> QED BY <2>3, <3>1, Zenon DEF SendReport, TypeOK, replicaVars
  <2>4. CASE ConfirmReplicaTakeover(n)
    BY <2>4, MoveHomeType, ResolveFaultType, Zenon DEF ConfirmReplicaTakeover, TypeOK
  <2>5. CASE CreateRestoreWorkflow(n)
    <3>1. home \in Nodes
      BY Zenon DEF TypeOK
    <3>2. work' \in WorkRow
      BY <2>5, <3>1, ScheduleType, Zenon DEF CreateRestoreWorkflow
    <3> QED BY <2>5, <3>2, Zenon DEF CreateRestoreWorkflow, TypeOK, nodeVars
  <2>6. ASSUME NEW s \in Nodes, CreateSnapshotWorkflow(s, n) PROVE TypeOK'
    <3>1. work' \in WorkRow
      BY <2>6, ScheduleType, Zenon DEF CreateSnapshotWorkflow
    <3> QED BY <2>6, <3>1, Zenon DEF CreateSnapshotWorkflow, Syncing, TypeOK, nodeVars
  <2>7. CASE CreateRetirementSnapshot(n)
    <3>1. retire.node \in Nodes /\ retire' \in RetireItem
      BY <2>7, Zenon DEF CreateRetirementSnapshot, TypeOK, RetireItem
    <3>2. work' \in WorkRow
      BY <2>7, <3>1, ScheduleType, Zenon DEF CreateRetirementSnapshot
    <3> QED BY <2>7, <3>1, <3>2, Zenon DEF CreateRetirementSnapshot, Syncing, TypeOK, nodeVars
  <2> QED BY <1>3, <2>1, <2>3, <2>4, <2>5, <2>6, <2>7, Zenon DEF NodeStep
<1>4. CASE UserStep
  <2>1. CASE Promote
    BY <2>1, RevokedTicketsType DEF Promote, TypeOK, replicaVars, nodeVars
  <2>2. CASE Tick
    BY <2>2 DEF Tick, TypeOK, replicaVars, nodeVars
  <2>3. CASE FaultStep
    <3>1. CASE ReportUserDataFault
      <4>1. lease' \in LeaseRow
        <5>1. lease \in LeaseRow /\ now \in Nat
          BY DEF TypeOK
        <5>2. [lease EXCEPT !.state = "ended", !.expires = now, !.busy = FALSE] \in LeaseRow
          BY <5>1, Zenon DEF LeaseRow
        <5> QED BY <3>1, <5>1, <5>2, Zenon DEF ReportUserDataFault
      <4>2. fault' \in FaultRow
        <5>1. fault.seq + 1 \in 0..MaxFaults
          BY <3>1 DEF ReportUserDataFault, TypeOK, FaultRow
        <5>2. (IF lease.state = "none" THEN 1 ELSE lease.epoch) \in Nat /\ home \in Nodes
          BY Zenon DEF TypeOK, LeaseRow
        <5> QED BY <3>1, <5>1, <5>2, Zenon DEF ReportUserDataFault, FaultRow
      <4> QED BY <3>1, <4>1, <4>2, RevokedTicketsType, Zenon DEF ReportUserDataFault, TypeOK, nodeVars
    <3>2. CASE FreezeUserData
      BY <3>2, Zenon DEF FreezeUserData, TypeOK, replicaVars, FaultRow
    <3>3. CASE ReleaseUserData
      <4>1. fault.node \in Nodes /\ fault.epoch \in Nat /\ local[fault.node] \in LocalSession
        BY Zenon DEF TypeOK, FaultRow
      <4>2. local' \in [Nodes -> LocalSession]
        BY <3>3, <4>1, Zenon DEF ReleaseUserData, TypeOK, LocalSession, Session
      <4> QED BY <3>3, <4>2, Zenon DEF ReleaseUserData, TypeOK, replicaVars
    <3>4. ASSUME NEW o \in {"available", "unavailable"}, CompleteUserDataFaultFreeze(o)
          PROVE TypeOK'
      <4>1. fault' \in FaultRow
        BY <3>4, Zenon DEF CompleteUserDataFaultFreeze, TypeOK, FaultRow
      <4> QED BY <3>4, <4>1, Zenon DEF CompleteUserDataFaultFreeze, TypeOK, nodeVars
    <3> QED BY <2>3, <3>1, <3>2, <3>3, <3>4, Zenon DEF FaultStep
  <2>4. CASE ProvisionAccount
    BY <2>4, Zenon DEF ProvisionAccount, TypeOK, nodeVars, WorkRow
  <2>5. CASE CompleteRestoreWorkflow
    <3>1. work.target \in Nodes /\ work' \in WorkRow
      BY <2>5, Zenon DEF CompleteRestoreWorkflow, Finished, TypeOK, WorkRow
    <3> QED BY <2>5, <3>1, MoveHomeType, ResolveFaultType, Zenon DEF CompleteRestoreWorkflow, TypeOK
  <2>6. CASE FailWorkflow
    BY <2>6, EndWorkType, Zenon DEF FailWorkflow, TypeOK, nodeVars
  <2>9. CASE CompleteSnapshotWorkflow
    <3>1. work.target \in Nodes /\ work' \in WorkRow
      BY <2>9, Zenon DEF CompleteSnapshotWorkflow, Finished, TypeOK, WorkRow
    <3>2. retire' \in RetireItem
      BY <2>9, Zenon DEF CompleteSnapshotWorkflow, TypeOK, RetireItem
    <3> QED BY <2>9, <3>1, <3>2, Zenon DEF CompleteSnapshotWorkflow, TypeOK, nodeVars
  <2>7. CASE StartRetirement
    BY <2>7 DEF StartRetirement, TypeOK, nodeVars, RetireItem
  <2>8. CASE CompleteNodeRetirementHomeMigration
    <3>1. retire.target \in Nodes /\ retire' \in RetireItem
      BY <2>8, Zenon DEF CompleteNodeRetirementHomeMigration, TypeOK, RetireItem
    <3> QED BY <2>8, <3>1, MoveHomeType, Zenon DEF CompleteNodeRetirementHomeMigration, TypeOK
  <2> QED BY <1>4, <2>1, <2>2, <2>3, <2>4, <2>5, <2>6, <2>7, <2>8, <2>9, Zenon DEF UserStep
<1>5. CASE UNCHANGED vars
  BY <1>5, Zenon DEF vars, TypeOK
<1> QED BY <1>1, <1>2, <1>3, <1>4, <1>5, Zenon DEF Next

\* A registered user's initial state is well-formed.
LEMMA TypeInit == Init => TypeOK
<1> USE ActivityLeaseAssumption
<1> SUFFICES ASSUME Init PROVE TypeOK
  BY Zenon
<1>1. /\ lease \in LeaseRow /\ work \in WorkRow
      /\ retire \in RetireItem /\ fault \in FaultRow
  BY DEF Init, LeaseRow, WorkRow, RetireItem, FaultRow, Session
<1>2. ticket \in [Logins -> TicketRow] /\ login \in [Logins -> LoginRequest]
  BY Zenon DEF Init, TicketRow, LoginRequest, NoTicket, NoRequest, Session
<1>3. local \in [Nodes -> LocalSession]
  BY Zenon DEF Init, LocalSession, Session
<1>4. copy \in [Nodes -> {"home", "standby", "stale", "corrupt"}]
  BY Zenon DEF Init
<1>5. seen \in [Nodes -> Nat] /\ account \subseteq Nodes /\ home \in Nodes
  BY Zenon DEF Init
<1>6. now \in 0..MaxNow /\ activeGen \in 1..(MaxGen + 1)
  BY DEF Init
<1>7. frozen \subseteq Nodes /\ msgs \subseteq Message /\ offHome \in BOOLEAN
  BY Zenon DEF Init
<1> QED BY <1>1, <1>2, <1>3, <1>4, <1>5, <1>6, <1>7, Zenon DEF TypeOK

\* The type invariant holds in every reachable state, whatever the constants.
THEOREM TypeCorrect == Spec => []TypeOK
BY TypeInit, TypeStep, PTL DEF Spec

---------------------------------------------------------------------------
\* The active lease allows node n to write until d.
Covered(n, d) == lease.state = "active" /\ lease.writer = n /\ d <= lease.expires

\* A session of epoch e is one that the latest data fault takes the lease from.
Old(e) == fault.seq > 0 /\ e <= fault.epoch

\* The fault, as far as Old looks at it, stays the same.
SameFault == fault'.seq = fault.seq /\ fault'.epoch = fault.epoch

\* Message m, if it reports the end of a session, comes from a node that has ended it.
EndIsTrue(m) == m.status = "ended" => \/ m.epoch < local[m.node].epoch
                                      \/ m.epoch = local[m.node].epoch /\ ~local[m.node].open

\* A right to write that node n holds until d, or message m brings, if no fault ended it.
Holds(n) == local[n].open /\ local[n].deadline > now /\ ~Old(local[n].epoch)
Brings(m) == m.deadline > now /\ Opens(m) /\ ~Old(m.epoch)

\* A session the node may use or report.
InUse(l) == l.open \/ l.session # NoLogin

\* The strengthening of WriterHoldsLease that every step preserves: the right to
\* write, held or on its way, never outlives the lease.
WriterInv ==
    /\ TypeOK
    /\ lease.expires <= now + LeaseTTL
    /\ lease.state = "none" => lease.epoch = 0
    /\ \A n \in Nodes : InUse(local[n]) => local[n].epoch <= lease.epoch
    /\ \A m \in msgs : m.epoch <= lease.epoch
    /\ \A n \in Nodes : Holds(n) => Covered(n, local[n].deadline)
    /\ \A m \in msgs : Brings(m) => Covered(m.node, m.deadline)
    /\ \A m \in msgs : EndIsTrue(m)

\* A message that confers no right to write.
Harmless(m) == m.epoch <= lease.epoch /\ m.deadline = 0 /\ EndIsTrue(m)

\* A step that leaves the clock, the lease and the sessions alone and sends only
\* harmless messages keeps the invariant.
LEMMA FrameStep ==
    ASSUME WriterInv, TypeOK', UNCHANGED <<now, lease, local>>, SameFault,
           \A m \in msgs' \ msgs : Harmless(m)
    PROVE  WriterInv'
<1>1. now \in Nat
  BY ActivityLeaseAssumption DEF WriterInv, TypeOK
<1>2. ASSUME NEW m \in msgs'
      PROVE  m.epoch <= lease.epoch /\ (Brings(m) => Covered(m.node, m.deadline)) /\ EndIsTrue(m)
  BY <1>1 DEF WriterInv, Harmless, Brings
<1>3. /\ \A n \in Nodes : Holds(n)' <=> Holds(n)
      /\ \A m : (Brings(m)' <=> Brings(m)) /\ (EndIsTrue(m)' <=> EndIsTrue(m))
  BY Zenon DEF Holds, Brings, EndIsTrue, Old, Opens, SameFault
<1> QED BY <1>2, <1>3, Zenon DEF WriterInv, Covered

\* Nobody holds or receives a right to write without the lease, so when it no longer
\* blocks, nobody does.
LEMMA NobodyWrites ==
    ASSUME WriterInv, ~Blocks
    PROVE  (\A n \in Nodes : ~Holds(n)) /\ (\A m \in msgs : ~Brings(m))
<1>1. now \in Nat /\ lease.expires \in Nat
  BY ActivityLeaseAssumption DEF WriterInv, TypeOK, LeaseRow
<1>2. ASSUME NEW n \in Nodes PROVE local[n].deadline \in Nat
  BY Zenon DEF WriterInv, TypeOK, LocalSession
<1>3. ASSUME NEW m \in msgs PROVE m.deadline \in Nat
  BY Zenon DEF WriterInv, TypeOK, Message
<1> QED BY <1>1, <1>2, <1>3 DEF WriterInv, Blocks, Covered, Holds, Brings

\* When nobody can write, the lease may be replaced or ended.
LEMMA QuietStep ==
    ASSUME WriterInv, TypeOK', UNCHANGED <<now, local>>,
           \A n \in Nodes : ~Holds(n)', \A m \in msgs : ~Brings(m)',
           lease'.expires <= now + LeaseTTL, lease'.epoch >= lease.epoch,
           lease'.state = "none" => lease'.epoch = 0,
           \A m \in msgs' \ msgs : Harmless(m)
    PROVE  WriterInv'
<1>1. lease.epoch \in Nat /\ lease'.epoch \in Nat /\ now \in Nat
  BY ActivityLeaseAssumption DEF WriterInv, TypeOK, LeaseRow
<1>2. ASSUME NEW n \in Nodes PROVE InUse(local[n]) => local[n].epoch <= lease'.epoch
  <2>1. local[n].epoch \in Nat
    BY Zenon DEF WriterInv, TypeOK, LocalSession
  <2>2. InUse(local[n]) => local[n].epoch <= lease.epoch
    BY Zenon DEF WriterInv
  <2> QED BY <1>1, <2>1, <2>2
<1>3. ASSUME NEW m \in msgs' PROVE m.epoch <= lease'.epoch /\ ~Brings(m)' /\ EndIsTrue(m)
  <2>1. m.epoch \in Nat
    BY Zenon DEF TypeOK, Message
  <2>2. m.epoch <= lease.epoch /\ EndIsTrue(m)
    BY Zenon DEF WriterInv, Harmless
  <2>3. ~Brings(m)'
    BY <1>1 DEF Harmless, Brings
  <2> QED BY <1>1, <2>1, <2>2, <2>3
<1>4. \A m : EndIsTrue(m)' <=> EndIsTrue(m)
  BY Zenon DEF EndIsTrue
<1> QED BY <1>2, <1>3, <1>4, Zenon DEF WriterInv

\* The same step, when nobody could write before it either.
LEMMA StillQuiet ==
    ASSUME UNCHANGED <<now, local>>, SameFault,
           \A n \in Nodes : ~Holds(n), \A m \in msgs : ~Brings(m)
    PROVE  (\A n \in Nodes : ~Holds(n)') /\ (\A m \in msgs : ~Brings(m)')
BY Zenon DEF Holds, Brings, Old, Opens, SameFault

\* Takeover, restore and retirement end the lease in the step that moves the home.
LEMMA MoveHomeStep ==
    ASSUME WriterInv, ~Blocks, TypeOK', NEW n \in Nodes, MoveHome(n), SameFault
    PROVE  WriterInv'
<1>1. lease \in LeaseRow /\ now \in Nat
  BY ActivityLeaseAssumption DEF WriterInv, TypeOK
<1>2. /\ lease'.epoch = lease.epoch /\ lease'.expires <= now + LeaseTTL
      /\ lease'.state = "none" => lease'.epoch = 0
  <2>1. CASE lease.state = "none"
    BY <2>1, Zenon DEF MoveHome, WriterInv
  <2>2. CASE lease.state # "none"
    BY <1>1, <2>2, ActivityLeaseAssumption DEF MoveHome, LeaseRow
  <2> QED BY <2>1, <2>2, Zenon
<1>3. lease'.epoch >= lease.epoch
  BY <1>1, <1>2 DEF LeaseRow
<1>4. UNCHANGED <<now, local, msgs>>
  BY Zenon DEF MoveHome, nodeVars
<1> QED BY <1>2, <1>3, <1>4, NobodyWrites, StillQuiet, QuietStep, Zenon

\* Renewing the active lease for its own writer, and telling the writer, keeps the
\* invariant: deadlines handed out before still lie within the lease.
LEMMA ExtendStep ==
    ASSUME WriterInv, TypeOK', UNCHANGED <<now, local>>, SameFault,
           lease.state = "active", lease'.state = "active", lease'.writer = lease.writer,
           lease'.expires >= lease.expires, lease'.expires <= now + LeaseTTL,
           lease'.epoch >= lease.epoch,
           \A m \in msgs' \ msgs :
              /\ m.epoch <= lease'.epoch /\ m.status # "ended"
              /\ m.deadline > now => m.node = lease.writer /\ m.deadline <= lease'.expires
    PROVE  WriterInv'
<1>1. /\ lease.epoch \in Nat /\ lease'.epoch \in Nat
      /\ lease.expires \in Nat /\ lease'.expires \in Nat
  BY Zenon DEF WriterInv, TypeOK, LeaseRow
<1>2. ASSUME NEW n \in Nodes
      PROVE  /\ InUse(local[n]) => local[n].epoch <= lease'.epoch
             /\ Holds(n) => Covered(n, local[n].deadline)'
  <2>1. local[n].epoch \in Nat /\ local[n].deadline \in Nat
    BY Zenon DEF WriterInv, TypeOK, LocalSession
  <2>2. /\ InUse(local[n]) => local[n].epoch <= lease.epoch
        /\ Holds(n) => Covered(n, local[n].deadline)
    BY Zenon DEF WriterInv
  <2> QED BY <1>1, <2>1, <2>2 DEF Covered
<1>3. ASSUME NEW m \in msgs'
      PROVE  /\ m.epoch <= lease'.epoch /\ EndIsTrue(m)
             /\ Brings(m) => Covered(m.node, m.deadline)'
  <2>1. m.epoch \in Nat /\ m.deadline \in Nat
    BY Zenon DEF TypeOK, Message
  <2>2. CASE m \in msgs
    <3>1. /\ m.epoch <= lease.epoch /\ EndIsTrue(m)
          /\ Brings(m) => Covered(m.node, m.deadline)
      BY <2>2, Zenon DEF WriterInv
    <3> QED BY <1>1, <2>1, <3>1 DEF Covered
  <2>3. CASE m \notin msgs
    BY <2>3, Zenon DEF Covered, Brings, EndIsTrue
  <2> QED BY <2>2, <2>3, Zenon
<1>4. /\ \A n \in Nodes : Holds(n)' <=> Holds(n)
      /\ \A m : (Brings(m)' <=> Brings(m)) /\ (EndIsTrue(m)' <=> EndIsTrue(m))
  BY Zenon DEF Holds, Brings, EndIsTrue, Old, Opens, SameFault
<1> QED BY <1>2, <1>3, <1>4, Zenon DEF WriterInv

\* Redeeming a ticket renews the lease it was issued for.
LEMMA ConsumeStep ==
    ASSUME WriterInv, TypeOK', NEW op \in Logins, ConsumeLoginHandoff(op)
    PROVE  WriterInv'
<1>1. lease \in LeaseRow /\ now \in Nat /\ LeaseTTL \in Nat
  BY ActivityLeaseAssumption DEF WriterInv, TypeOK
<1>2. /\ lease'.state = "active" /\ lease'.writer = lease.writer
      /\ lease'.expires = now + LeaseTTL /\ lease'.epoch = lease.epoch
  BY <1>1, Zenon DEF ConsumeLoginHandoff, LeaseMatches, LeaseRow
<1>3. \A m \in msgs' \ msgs : /\ m.epoch = lease.epoch /\ m.status # "ended"
                              /\ m.node = lease.writer /\ m.deadline = now + LeaseTTL
  BY DEF ConsumeLoginHandoff, LeaseMatches, Send
<1>4. lease.state = "active" /\ lease.expires <= now + LeaseTTL
  BY Zenon DEF ConsumeLoginHandoff, LeaseMatches, WriterInv
<1>5. UNCHANGED <<now, local>> /\ SameFault
  BY Zenon DEF ConsumeLoginHandoff, replicaVars, nodeVars, SameFault
<1>6. lease.expires \in Nat /\ lease.epoch \in Nat
  BY <1>1, Zenon DEF LeaseRow
<1> QED BY <1>1, <1>2, <1>3, <1>4, <1>5, <1>6, ExtendStep

\* A live lease of an older generation stays with its writer under a higher epoch.
LEMMA RenewStep ==
    ASSUME WriterInv, TypeOK', NEW op \in Logins, RenewStaleLease(op)
    PROVE  WriterInv'
<1>1. lease \in LeaseRow /\ now \in Nat /\ LeaseTTL \in Nat
  BY ActivityLeaseAssumption DEF WriterInv, TypeOK
<1>2. lease.expires \in Nat /\ lease.epoch \in Nat
  BY <1>1 DEF LeaseRow
<1>3. /\ lease'.state = "active" /\ lease'.writer = lease.writer
      /\ lease'.expires = now + LeaseTTL /\ lease'.epoch = lease.epoch + 1
  BY Zenon DEF RenewStaleLease, IssueTicket, Granted, NextEpoch
<1>4. lease.state = "active" /\ lease.expires <= now + LeaseTTL
  BY Zenon DEF RenewStaleLease, Blocks, WriterInv
<1>5. UNCHANGED <<now, local, msgs>> /\ SameFault
  BY Zenon DEF RenewStaleLease, replicaVars, nodeVars, SameFault
<1> QED BY <1>1, <1>2, <1>3, <1>4, <1>5, ExtendStep

\* A heartbeat extends the lease only for the session it names, and ends it only
\* when that session is over on its node.
LEMMA ReportStep ==
    ASSUME WriterInv, TypeOK', NEW m \in msgs, HandleReport(m)
    PROVE  WriterInv'
<1>0. /\ lease \in LeaseRow /\ now \in Nat /\ LeaseTTL \in Nat /\ m \in Message
      /\ lease.expires \in Nat /\ lease.epoch \in Nat /\ lease'.expires \in Nat
  BY ActivityLeaseAssumption DEF WriterInv, TypeOK, LeaseRow
<1>1. UNCHANGED <<now, local>> /\ SameFault
  BY Zenon DEF HandleReport, replicaVars, nodeVars, SameFault
<1>2. Confirm(m, NoLogin, 0).epoch = 0 /\ Confirm(m, NoLogin, 0).deadline = 0
      /\ Confirm(m, NoLogin, 0).status = "none"
  BY Zenon DEF Confirm
<1>3. CASE now - m.at > ReportAge
  BY <1>1, <1>3, FrameStep, Zenon DEF HandleReport
<1>4. CASE ~(now - m.at > ReportAge) /\ ~Authoritative(m)
  <2>1. lease' = lease /\ msgs' = (msgs \ {m}) \cup {Confirm(m, NoLogin, 0)}
    BY <1>4, Zenon DEF HandleReport, LeaseAfter
  <2> QED BY <1>0, <1>1, <1>2, <2>1, FrameStep DEF Harmless, EndIsTrue
<1>5. CASE ~(now - m.at > ReportAge) /\ Authoritative(m) /\ m.status = "ended"
  <2>1. /\ lease' = [lease EXCEPT !.state = "ended", !.expires = now]
        /\ msgs' = (msgs \ {m}) \cup {Confirm(m, NoLogin, 0)}
    BY <1>5, Zenon DEF HandleReport, LeaseAfter, Online
  <2>2. lease'.expires <= now + LeaseTTL /\ lease'.epoch >= lease.epoch /\ lease'.state # "none"
    BY <1>0, <2>1 DEF LeaseRow
  <2>3. \A k \in msgs' \ msgs : Harmless(k)
    BY <1>0, <1>2, <2>1 DEF Harmless, EndIsTrue
  <2>4. m.node \in Nodes /\ lease.writer = m.node /\ m.epoch = lease.epoch
    BY <1>0, <1>5, Zenon DEF Authoritative, Message
  <2>5. local[m.node].epoch \in Nat /\ (local[m.node].open => local[m.node].epoch <= lease.epoch)
    BY <2>4, Zenon DEF WriterInv, TypeOK, LocalSession, InUse
  <2>6. local[m.node].epoch >= lease.epoch /\ ~local[m.node].open
    <3>1. \/ m.epoch < local[m.node].epoch
          \/ m.epoch = local[m.node].epoch /\ ~local[m.node].open
      BY <1>5, Zenon DEF WriterInv, EndIsTrue
    <3> QED BY <1>0, <2>4, <2>5, <3>1
  <2>7. \A n \in Nodes : ~Holds(n)
    BY <2>4, <2>6, Zenon DEF WriterInv, Covered, Holds
  <2>8. ASSUME NEW k \in msgs, Brings(k) PROVE FALSE
    <3>1. k.node = m.node /\ k.epoch <= lease.epoch /\ k.epoch \in Nat
      BY <2>4, <2>8, Zenon DEF WriterInv, Covered, TypeOK, Message
    <3> QED BY <1>0, <2>5, <2>6, <2>8, <3>1 DEF Brings, Opens
  <2> QED BY <1>1, <2>2, <2>3, <2>7, <2>8, StillQuiet, QuietStep, Zenon
<1>6. CASE ~(now - m.at > ReportAge) /\ Authoritative(m) /\ m.status # "ended"
  <2>1. lease' = [lease EXCEPT !.busy = (m.status = "busy"),
                               !.expires = IF Online(m) THEN Later(now + LeaseTTL) ELSE @]
    BY <1>6, Zenon DEF HandleReport, LeaseAfter
  <2>2. /\ lease.state = "active" /\ lease.writer = m.node /\ lease.epoch = m.epoch
        /\ lease.expires <= now + LeaseTTL
    BY <1>6, Zenon DEF Authoritative, WriterInv
  <2>3. /\ lease'.state = "active" /\ lease'.writer = lease.writer /\ lease'.epoch = lease.epoch
        /\ lease'.expires = IF Online(m) THEN Later(now + LeaseTTL) ELSE lease.expires
    BY <1>0, <2>1, <2>2, Zenon DEF LeaseRow
  <2>4. lease'.expires >= lease.expires /\ lease'.expires <= now + LeaseTTL
    BY <1>0, <2>2, <2>3 DEF Later
  <2>5. ASSUME NEW k \in msgs' \ msgs
        PROVE  /\ k.epoch <= lease'.epoch /\ k.status # "ended"
               /\ k.deadline > now => k.node = lease.writer /\ k.deadline <= lease'.expires
    <3>1. k = Confirm(m, m.session, lease'.expires) \/ k = Confirm(m, NoLogin, 0)
      BY <1>6, <2>5, Zenon DEF HandleReport
    <3> QED BY <1>0, <2>2, <2>3, <3>1 DEF Confirm
  <2> QED BY <1>0, <1>1, <2>2, <2>3, <2>4, <2>5, ExtendStep
<1> QED BY <1>3, <1>4, <1>5, <1>6, Zenon

\* A step that changes the sessions of node n only.  Epochs never go back, an ended
\* session is not reopened under its epoch, and a deadline the node gains was covered.
LEMMA SessionStep ==
    ASSUME WriterInv, TypeOK', NEW n \in Nodes, NEW l \in LocalSession,
           UNCHANGED <<now, lease>>, SameFault, msgs' \subseteq msgs,
           local' = [local EXCEPT ![n] = l],
           InUse(l) => l.epoch <= lease.epoch,
           l.open /\ l.deadline > now /\ ~Old(l.epoch) => Covered(n, l.deadline),
           \/ l.epoch > local[n].epoch
           \/ l.epoch = local[n].epoch /\ (l.open => local[n].open)
    PROVE  WriterInv'
<1>1. local[n] \in LocalSession /\ local'[n] = l /\ \A k \in Nodes \ {n} : local'[k] = local[k]
  BY Zenon DEF WriterInv, TypeOK
<1>2. l.epoch \in Nat /\ local[n].epoch \in Nat
  BY <1>1, Zenon DEF LocalSession
<1>3. \A e : Old(e)' <=> Old(e)
  BY Zenon DEF Old, SameFault
<1>4. ASSUME NEW k \in Nodes
      PROVE  /\ InUse(local'[k]) => local'[k].epoch <= lease.epoch
             /\ Holds(k)' => Covered(k, local'[k].deadline)
  BY <1>1, <1>3, Zenon DEF WriterInv, Holds
<1>5. ASSUME NEW m \in msgs'
      PROVE  (Brings(m)' => Brings(m)) /\ EndIsTrue(m)'
  <2>1. m.epoch \in Nat /\ m.node \in Nodes /\ m \in msgs
    BY Zenon DEF TypeOK, Message
  <2>2. (Opens(m)' => Opens(m)) /\ EndIsTrue(m)'
    <3>1. CASE m.node # n
      BY <1>1, <2>1, <3>1, Zenon DEF Opens, EndIsTrue, WriterInv
    <3>2. CASE m.node = n
      <4>1. m.status = "ended" => \/ m.epoch < local[n].epoch
                                  \/ m.epoch = local[n].epoch /\ ~local[n].open
        BY <2>1, <3>2, Zenon DEF WriterInv, EndIsTrue
      <4> QED BY <1>1, <1>2, <2>1, <3>2, <4>1 DEF Opens, EndIsTrue
    <3> QED BY <3>1, <3>2, Zenon
  <2> QED BY <1>3, <2>2, Zenon DEF Brings
<1> QED BY <1>4, <1>5, Zenon DEF WriterInv, Covered

\* A node opens a session only from a grant that the lease still covers.
LEMMA OpenStep ==
    ASSUME WriterInv, TypeOK', NEW m \in msgs, OpenSession(m)
    PROVE  WriterInv'
<1>1. UNCHANGED <<now, lease>> /\ SameFault /\ msgs' \subseteq msgs
  BY Zenon DEF OpenSession, replicaVars, SameFault
<1>2. CASE ~Opens(m)
  BY <1>1, <1>2, FrameStep, Zenon DEF OpenSession
<1>3. CASE Opens(m)
  <2> DEFINE l == [open |-> TRUE, session |-> m.session, epoch |-> m.epoch,
                   gen |-> m.gen, deadline |-> m.deadline, at |-> m.at]
  <2>1. m \in Message
    BY Zenon DEF WriterInv, TypeOK
  <2>2. l \in LocalSession /\ m.node \in Nodes
    BY <2>1, Zenon DEF LocalSession, Message
  <2>3. local' = [local EXCEPT ![m.node] = l]
    BY <1>3, Zenon DEF OpenSession
  <2>4. /\ l.epoch <= lease.epoch
        /\ l.deadline > now /\ ~Old(l.epoch) => Covered(m.node, l.deadline)
    BY <1>3, Zenon DEF WriterInv, Brings
  <2>5. \/ l.epoch > local[m.node].epoch
        \/ l.epoch = local[m.node].epoch /\ (l.open => local[m.node].open)
    BY <1>3, Zenon DEF Opens
  <2> HIDE DEF l
  <2> QED BY <1>1, <2>2, <2>3, <2>4, <2>5, SessionStep, Zenon
<1> QED BY <1>2, <1>3, Zenon

\* A confirmation moves only the deadline of the open session it names; a session it
\* leaves out loses its deadline.
LEMMA ConfirmStep ==
    ASSUME WriterInv, TypeOK', NEW m \in msgs, DeliverConfirm(m)
    PROVE  WriterInv'
<1>1. UNCHANGED <<now, lease>> /\ SameFault /\ msgs' \subseteq msgs
  BY Zenon DEF DeliverConfirm, replicaVars, SameFault
<1>2. /\ m \in Message /\ m.node \in Nodes /\ local[m.node] \in LocalSession /\ now \in Nat
      /\ local \in [Nodes -> LocalSession]
  BY ActivityLeaseAssumption DEF WriterInv, TypeOK, Message
<1>3. CASE local' = local
  BY <1>1, <1>3, FrameStep, Zenon
<1>4. CASE /\ local[m.node].open /\ local[m.node].epoch = m.epoch
           /\ local' = [local EXCEPT ![m.node].deadline = m.deadline, ![m.node].at = m.at]
  <2> DEFINE l == [local[m.node] EXCEPT !.deadline = m.deadline, !.at = m.at]
  <2>1. /\ l \in LocalSession /\ l.epoch = local[m.node].epoch /\ l.open = local[m.node].open
        /\ l.deadline = m.deadline
    BY <1>2, Zenon DEF LocalSession, Message
  <2>2. local' = [local EXCEPT ![m.node] = l]
    BY <1>2, <1>4, Zenon
  <2>3. /\ l.epoch <= lease.epoch
        /\ l.deadline > now /\ ~Old(l.epoch) => Covered(m.node, l.deadline)
    BY <1>2, <1>4, <2>1, Zenon DEF WriterInv, Brings, Opens
  <2> HIDE DEF l
  <2> QED BY <1>1, <1>2, <2>1, <2>2, <2>3, SessionStep, Zenon
<1>5. CASE local' = [local EXCEPT ![m.node].deadline = 0]
  <2> DEFINE l == [local[m.node] EXCEPT !.deadline = 0]
  <2>1. /\ l \in LocalSession /\ l.epoch = local[m.node].epoch /\ l.open = local[m.node].open
        /\ l.deadline = 0 /\ l.session = local[m.node].session
    BY <1>2, Zenon DEF LocalSession
  <2>2. local' = [local EXCEPT ![m.node] = l]
    BY <1>2, <1>5, Zenon
  <2>3. (InUse(l) => l.epoch <= lease.epoch) /\ ~(l.deadline > now)
    <3>1. InUse(l) => l.epoch <= lease.epoch
      BY <1>2, <2>1, Zenon DEF WriterInv, InUse
    <3> QED BY <1>2, <2>1, <3>1
  <2> HIDE DEF l
  <2> QED BY <1>1, <1>2, <2>1, <2>2, <2>3, SessionStep, Zenon
<1> QED BY <1>3, <1>4, <1>5, Zenon DEF DeliverConfirm

\* Logging out leaves a tombstone.
LEMMA EndStep ==
    ASSUME WriterInv, TypeOK', NEW n \in Nodes, EndSession(n)
    PROVE  WriterInv'
<1> DEFINE l == [local[n] EXCEPT !.open = FALSE]
<1>1. local[n] \in LocalSession /\ local \in [Nodes -> LocalSession]
  BY Zenon DEF WriterInv, TypeOK
<1>2. l \in LocalSession /\ l.epoch = local[n].epoch /\ ~l.open /\ l.session = local[n].session
  BY <1>1, Zenon DEF LocalSession
<1>3. local' = [local EXCEPT ![n] = l]
  BY <1>1, Zenon DEF EndSession
<1>4. InUse(l) => l.epoch <= lease.epoch
  BY <1>2, Zenon DEF WriterInv, InUse
<1>5. UNCHANGED <<now, lease, msgs>> /\ SameFault
  BY Zenon DEF EndSession, replicaVars, SameFault
<1> HIDE DEF l
<1> QED BY <1>2, <1>3, <1>4, <1>5, SessionStep, Zenon

\* Reporting a fault puts every session, and every message, behind it.
LEMMA FaultStepKeeps ==
    ASSUME WriterInv, TypeOK', FaultStep
    PROVE  WriterInv'
<1>0. lease \in LeaseRow /\ now \in Nat /\ fault \in FaultRow /\ lease.epoch \in Nat
  BY ActivityLeaseAssumption DEF WriterInv, TypeOK, LeaseRow
<1>1. CASE ReportUserDataFault
  <2>1. UNCHANGED <<now, local, msgs>>
    BY <1>1, Zenon DEF ReportUserDataFault, nodeVars
  <2>2. fault'.seq > 0 /\ fault'.epoch >= lease.epoch
    <3>1. fault.seq \in Nat
      BY <1>0, ActivityLeaseAssumption DEF FaultRow
    <3> QED BY <1>0, <1>1, <3>1 DEF ReportUserDataFault, WriterInv
  <2>3. /\ lease'.epoch = lease.epoch /\ lease'.expires <= now + LeaseTTL
        /\ lease'.state = "none" => lease'.epoch = 0
    <3>1. CASE lease.state = "active"
      BY <1>0, <1>1, <3>1, ActivityLeaseAssumption DEF ReportUserDataFault, LeaseRow
    <3>2. CASE lease.state # "active"
      BY <1>1, <3>2, Zenon DEF ReportUserDataFault, WriterInv
    <3> QED BY <3>1, <3>2, Zenon
  <2>4. lease'.epoch >= lease.epoch
    BY <1>0, <2>3
  <2>5. fault'.epoch \in Nat
    BY Zenon DEF TypeOK, FaultRow
  <2>6. ASSUME NEW n \in Nodes PROVE ~Holds(n)'
    <3>1. local[n].epoch \in Nat /\ (InUse(local[n]) => local[n].epoch <= lease.epoch)
      BY Zenon DEF WriterInv, TypeOK, LocalSession
    <3> QED BY <1>0, <2>1, <2>2, <2>5, <3>1 DEF Holds, Old, InUse
  <2>7. ASSUME NEW m \in msgs PROVE ~Brings(m)'
    <3>1. m.epoch \in Nat /\ m.epoch <= lease.epoch
      BY Zenon DEF WriterInv, TypeOK, Message
    <3> QED BY <1>0, <2>2, <2>5, <3>1 DEF Brings, Old
  <2> QED BY <2>1, <2>3, <2>4, <2>6, <2>7, QuietStep, Zenon
<1>2. CASE FreezeUserData
  <2>1. UNCHANGED <<now, lease, local, msgs>> /\ SameFault
    BY <1>2, Zenon DEF FreezeUserData, replicaVars, SameFault
  <2> QED BY <2>1, FrameStep, Zenon
<1>3. ASSUME NEW o \in {"available", "unavailable"}, CompleteUserDataFaultFreeze(o) PROVE WriterInv'
  <2>1. UNCHANGED <<now, lease, local, msgs>> /\ SameFault
    BY <1>0, <1>3, Zenon DEF CompleteUserDataFaultFreeze, nodeVars, SameFault, FaultRow
  <2> QED BY <2>1, FrameStep, Zenon
<1>4. CASE ReleaseUserData
  <2>1. UNCHANGED <<now, lease, msgs>> /\ SameFault
    BY <1>4, Zenon DEF ReleaseUserData, replicaVars, SameFault
  <2>2. CASE UNCHANGED local
    BY <2>1, <2>2, FrameStep, Zenon
  <2>3. CASE ~UNCHANGED local
    <3> DEFINE n == fault.node
               l == [local[n] EXCEPT !.open = FALSE, !.session = NoLogin, !.epoch = fault.epoch]
    <3>1. n \in Nodes /\ fault.epoch \in Nat /\ local[n] \in LocalSession
          /\ local \in [Nodes -> LocalSession]
      BY <1>0, Zenon DEF WriterInv, TypeOK, FaultRow
    <3>2. l \in LocalSession /\ ~l.open /\ l.epoch = fault.epoch /\ ~InUse(l)
      BY <3>1, Zenon DEF LocalSession, Session, InUse
    <3>3. local' = [local EXCEPT ![n] = l] /\ local[n].epoch <= fault.epoch
      BY <1>4, <2>3, <3>1, Zenon DEF ReleaseUserData
    <3>4. l.epoch > local[n].epoch \/ l.epoch = local[n].epoch
      BY <3>1, <3>2, <3>3 DEF LocalSession
    <3> HIDE DEF l, n
    <3> QED BY <2>1, <3>1, <3>2, <3>3, <3>4, SessionStep, Zenon
  <2> QED BY <2>2, <2>3, Zenon
<1> QED BY <1>1, <1>2, <1>3, <1>4, Zenon DEF FaultStep

\* Every action keeps the invariant.
LEMMA WriterStep ==
    ASSUME WriterInv, [Next]_vars
    PROVE  WriterInv'
<1>0. TypeOK'
  BY TypeStep, Zenon DEF WriterInv
<1>f. UNCHANGED <<now, lease, local, fault, msgs>> => WriterInv'
  BY <1>0, FrameStep, Zenon DEF SameFault
<1>s. ResolveFault => SameFault
  BY Zenon DEF ResolveFault, SameFault, WriterInv, TypeOK, FaultRow
<1>1. ASSUME NEW op \in Logins, LoginStep(op) PROVE WriterInv'
  <2>1. ASSUME NEW n \in Nodes, CheckLogin(op, n) PROVE WriterInv'
    BY <1>f, <2>1, Zenon DEF CheckLogin, replicaVars, nodeVars
  <2>2. CASE RefuseLogin(op)
    BY <1>f, <2>2, Zenon DEF RefuseLogin, replicaVars, nodeVars
  <2>5. CASE AbortBackup(op)
    BY <1>f, <2>5, Zenon DEF AbortBackup, nodeVars
  <2>3. CASE JoinExistingLease(op)
    BY <1>f, <2>3, Zenon DEF JoinExistingLease, IssueTicket, replicaVars, nodeVars
  <2>4. CASE AcquireLease(op)
    <3>1. /\ ~Blocks /\ UNCHANGED <<now, local, msgs>> /\ SameFault
          /\ lease'.expires = now + LeaseTTL /\ lease'.epoch = lease.epoch + 1
          /\ lease'.state # "none"
      BY <2>4, Zenon DEF AcquireLease, IssueTicket, Granted, NextEpoch, replicaVars, SameFault
    <3>2. lease.epoch \in Nat /\ now + LeaseTTL \in Nat
      BY ActivityLeaseAssumption DEF WriterInv, TypeOK, LeaseRow
    <3>3. lease'.expires <= now + LeaseTTL /\ lease'.epoch >= lease.epoch
      BY <3>1, <3>2
    <3>4. \A m \in msgs' \ msgs : Harmless(m)
      BY <3>1, Zenon
    <3> QED BY <1>0, <3>1, <3>3, <3>4, NobodyWrites, StillQuiet, QuietStep, Zenon
  <2> QED BY <1>0, <1>1, <2>1, <2>2, <2>3, <2>4, <2>5, RenewStep, ConsumeStep, Zenon DEF LoginStep
<1>2. ASSUME NEW m \in msgs, MessageStep(m) PROVE WriterInv'
  <2>1. CASE LoseMessage(m)
    BY <1>0, <2>1, FrameStep, Zenon DEF LoseMessage, replicaVars, nodeVars, SameFault
  <2> QED BY <1>0, <1>2, <2>1, OpenStep, ReportStep, ConfirmStep, Zenon DEF MessageStep
<1>3. ASSUME NEW n \in Nodes, NodeStep(n) PROVE WriterInv'
  <2>2. ASSUME NEW s \in Statuses \cup {"ended"}, SendReport(n, s) PROVE WriterInv'
    <3>1. UNCHANGED <<now, lease, local>> /\ SameFault
      BY <2>2, Zenon DEF SendReport, replicaVars, SameFault
    <3>2. ASSUME NEW k \in msgs' \ msgs PROVE Harmless(k)
      <4>1. /\ k.node = n /\ k.epoch = local[n].epoch /\ k.deadline = 0
            /\ k.status = "ended" => ~local[n].open
        BY <2>2, <3>2 DEF SendReport, Send
      <4>2. local[n].epoch <= lease.epoch
        BY <2>2, Zenon DEF SendReport, WriterInv, InUse
      <4> QED BY <4>1, <4>2, Zenon DEF Harmless, EndIsTrue, WriterInv
    <3> QED BY <1>0, <3>1, <3>2, FrameStep, Zenon
  <2>3. CASE ConfirmReplicaTakeover(n)
    <3>1. ~Blocks /\ MoveHome(n) /\ ResolveFault
      BY <2>3, Zenon DEF ConfirmReplicaTakeover
    <3> QED BY <1>0, <1>s, <3>1, MoveHomeStep, Zenon
  <2>4. CASE CreateRestoreWorkflow(n)
    BY <1>f, <2>4, Zenon DEF CreateRestoreWorkflow, nodeVars
  <2>5. ASSUME NEW s \in Nodes, CreateSnapshotWorkflow(s, n) PROVE WriterInv'
    BY <1>f, <2>5, Zenon DEF CreateSnapshotWorkflow, nodeVars
  <2>6. CASE CreateRetirementSnapshot(n)
    BY <1>f, <2>6, Zenon DEF CreateRetirementSnapshot, nodeVars
  <2> QED BY <1>0, <1>3, <2>2, <2>3, <2>4, <2>5, <2>6, EndStep, Zenon DEF NodeStep
<1>4. CASE UserStep
  <2>1. CASE Promote
    BY <1>f, <2>1, Zenon DEF Promote, replicaVars, nodeVars
  <2>2. CASE Tick
    <3>1. now \in Nat /\ now' = now + 1 /\ UNCHANGED <<lease, local, msgs>>
          /\ SameFault
      BY <2>2, ActivityLeaseAssumption DEF Tick, replicaVars, nodeVars, WriterInv, TypeOK, SameFault
    <3>2. lease.expires \in Nat /\ LeaseTTL \in Nat
      BY ActivityLeaseAssumption, Zenon DEF WriterInv, TypeOK, LeaseRow
    <3>3. ASSUME NEW n \in Nodes PROVE local[n].deadline \in Nat
      BY Zenon DEF WriterInv, TypeOK, LocalSession
    <3>4. ASSUME NEW m \in msgs PROVE m.deadline \in Nat
      BY Zenon DEF WriterInv, TypeOK, Message
    <3>5. ASSUME NEW n \in Nodes PROVE Holds(n)' => Holds(n)
      BY <3>1, <3>3 DEF Holds, Old, SameFault
    <3>6. ASSUME NEW m \in msgs PROVE (Brings(m)' => Brings(m)) /\ (EndIsTrue(m)' <=> EndIsTrue(m))
      BY <3>1, <3>4 DEF Brings, Opens, Old, SameFault, EndIsTrue
    <3>7. lease.expires <= now' + LeaseTTL
      <4>1. lease.expires <= now + LeaseTTL
        BY Zenon DEF WriterInv
      <4> QED BY <3>1, <3>2, <4>1
    <3> QED BY <1>0, <3>1, <3>5, <3>6, <3>7, Zenon DEF WriterInv, Covered
  <2>3. CASE FaultStep
    BY <1>0, <2>3, FaultStepKeeps, Zenon
  <2>4. CASE ProvisionAccount
    BY <1>f, <2>4, Zenon DEF ProvisionAccount, nodeVars
  <2>5. CASE CompleteRestoreWorkflow
    <3>1. ~Blocks /\ MoveHome(work.target) /\ ResolveFault
      BY <2>5, Zenon DEF CompleteRestoreWorkflow
    <3>2. work.target \in Nodes
      BY Zenon DEF WriterInv, TypeOK, WorkRow
    <3> QED BY <1>0, <1>s, <3>1, <3>2, MoveHomeStep, Zenon
  <2>6. CASE FailWorkflow
    BY <1>f, <2>6, Zenon DEF FailWorkflow, nodeVars
  <2>9. CASE CompleteSnapshotWorkflow
    BY <1>f, <2>9, Zenon DEF CompleteSnapshotWorkflow, nodeVars
  <2>7. CASE StartRetirement
    BY <1>f, <2>7, Zenon DEF StartRetirement, nodeVars
  <2>8. CASE CompleteNodeRetirementHomeMigration
    <3>1. ~Blocks /\ MoveHome(retire.target) /\ UNCHANGED fault
      BY <2>8, Zenon DEF CompleteNodeRetirementHomeMigration, Blocks
    <3>2. retire.target \in Nodes
      BY Zenon DEF WriterInv, TypeOK, RetireItem
    <3> QED BY <1>0, <3>1, <3>2, MoveHomeStep, Zenon DEF SameFault
  <2> QED BY <1>4, <2>1, <2>2, <2>3, <2>4, <2>5, <2>6, <2>7, <2>8, <2>9, Zenon DEF UserStep
<1>5. CASE UNCHANGED vars
  BY <1>f, <1>5, Zenon DEF vars
<1> QED BY <1>1, <1>2, <1>3, <1>4, <1>5, Zenon DEF Next

\* Nobody has a session yet.
LEMMA WriterInit == Init => WriterInv
<1> SUFFICES ASSUME Init PROVE WriterInv
  BY Zenon
<1>1. TypeOK
  BY TypeInit, Zenon
<1>2. \A n \in Nodes : ~local[n].open /\ local[n].epoch = 0
  BY Zenon DEF Init
<1>3. /\ lease.expires = 0 /\ lease.epoch = 0 /\ now = 0 /\ msgs = {}
  BY Zenon DEF Init
<1>4. lease.expires <= now + LeaseTTL
  BY <1>3, ActivityLeaseAssumption
<1> QED BY <1>1, <1>2, <1>3, <1>4 DEF WriterInv, Holds

\* The strengthened invariant holds in every reachable state.
THEOREM WriterInvariant == Spec => []WriterInv
<1>1. WriterInv /\ [Next]_vars => WriterInv'
  BY WriterStep, Zenon
<1> QED BY <1>1, WriterInit, PTL DEF Spec

\* What takeover, restore, snapshot, retirement and login rely on when they look at
\* the lease row only: a node whose session can still write holds the lease, unless
\* the latest data fault ended the lease under it (leases.go, tickets.go, agent.go,
\* activity_leases.go), for every number of nodes, logins, generations and faults.
THEOREM WriterHoldsLeaseTheorem == Spec => []WriterHoldsLease
<1>1. WriterInv => WriterHoldsLease
  <2> SUFFICES ASSUME WriterInv, NEW n \in Nodes, Live(n), ~BeforeFault(n) PROVE HoldsLease(n)
    BY Zenon DEF WriterHoldsLease
  <2>1. Covered(n, local[n].deadline) /\ local[n].deadline > now
    BY Zenon DEF WriterInv, Live, BeforeFault, Holds, Old
  <2>2. local[n].deadline \in Nat /\ lease.expires \in Nat /\ now \in Nat
    BY ActivityLeaseAssumption DEF WriterInv, TypeOK, LocalSession, LeaseRow
  <2> QED BY <2>1, <2>2 DEF HoldsLease, Covered
<1> QED BY <1>1, WriterInvariant, PTL

\* R04: while no data fault is reported, at most one node accepts writes of the
\* user, for every number of nodes, logins, generations and every lease lifetime,
\* also when a login is granted on a former home.
THEOREM SingleWriterTheorem == ASSUME MaxFaults = 0 PROVE Spec => []SingleWriter
<1>1. WriterInv => SingleWriter
  <2>1. WriterInv => fault.seq = 0
    BY ActivityLeaseAssumption DEF WriterInv, TypeOK, FaultRow
  <2>2. WriterInv => ~(fault.seq > 0)
    BY <2>1
  <2> QED BY <2>2, Zenon DEF WriterInv, SingleWriter, Live, Covered, Holds, Old
<1> QED BY <1>1, WriterInvariant, PTL

\* While no data fault is reported, takeover, restore and retirement never move the
\* home under a session that can still write.
THEOREM HomeMovesTheorem == ASSUME MaxFaults = 0 PROVE Spec => HomeMovesWhenQuiet
<1>1. WriterInv /\ [Next]_vars
        => [home' # home => FaultMetOffHome \/ \A n \in Nodes : ~Live(n)]_vars
  <2>0. WriterInv => ~(fault.seq > 0)
    <3>1. WriterInv => fault.seq = 0
      BY ActivityLeaseAssumption DEF WriterInv, TypeOK, FaultRow
    <3> QED BY <3>1
  <2> SUFFICES ASSUME WriterInv, [Next]_vars, home' # home PROVE ~Blocks
    BY <2>0, NobodyWrites, Zenon DEF Live, Holds, Old
  <2>1. ASSUME NEW op \in Logins, LoginStep(op) PROVE FALSE
    BY <2>1, Zenon DEF LoginStep, CheckLogin, AbortBackup, RefuseLogin, RenewStaleLease, JoinExistingLease,
                AcquireLease, ConsumeLoginHandoff, replicaVars
  <2>2. ASSUME NEW m \in msgs, MessageStep(m) PROVE FALSE
    BY <2>2, Zenon DEF MessageStep, OpenSession, HandleReport, DeliverConfirm, LoseMessage, replicaVars
  <2>3. ASSUME NEW n \in Nodes, NodeStep(n) PROVE ~Blocks
    BY <2>3, Zenon DEF NodeStep, EndSession, SendReport, ConfirmReplicaTakeover, CreateRestoreWorkflow,
                CreateSnapshotWorkflow, CreateRetirementSnapshot, replicaVars
  <2>4. CASE UserStep
    <3>1. CASE Promote \/ Tick \/ FaultStep
      BY <3>1, Zenon DEF Promote, Tick, FaultStep, ReportUserDataFault, FreezeUserData,
                  ReleaseUserData, CompleteUserDataFaultFreeze, replicaVars
    <3>2. CASE \/ ProvisionAccount \/ CompleteRestoreWorkflow \/ CompleteSnapshotWorkflow
               \/ FailWorkflow
      BY <3>2, Zenon DEF ProvisionAccount, CompleteRestoreWorkflow, CompleteSnapshotWorkflow,
                  FailWorkflow
    <3>3. CASE StartRetirement \/ CompleteNodeRetirementHomeMigration
      BY <3>3, Zenon DEF StartRetirement, CompleteNodeRetirementHomeMigration, Blocks
    <3> QED BY <2>4, <3>1, <3>2, <3>3, Zenon DEF UserStep
  <2>5. CASE UNCHANGED vars
    BY <2>5, Zenon DEF vars
  <2> QED BY <2>1, <2>2, <2>3, <2>4, <2>5, Zenon DEF Next
<1> QED BY <1>1, WriterInvariant, PTL DEF Spec, HomeMovesWhenQuiet

---------------------------------------------------------------------------
(* Epochs as fencing tokens.  Nothing here depends on faults.              *)

LeaseToken == [node |-> lease.writer, session |-> lease.session, epoch |-> lease.epoch]
TicketToken(op) == [node |-> ticket[op].node, session |-> ticket[op].session,
                    epoch |-> ticket[op].epoch]
LocalToken(n) == [node |-> n, session |-> local[n].session, epoch |-> local[n].epoch]
MessageToken(m) == [node |-> m.node, session |-> m.session, epoch |-> m.epoch]

\* The strengthening of EpochNamesOneWriter: a token of the lease's own epoch names
\* what the lease names.
EpochInv ==
    /\ TypeOK
    /\ \A h \in Holders : h.epoch <= lease.epoch /\ (h.epoch = lease.epoch => h = LeaseToken)
    /\ \A h, g \in Holders : h.epoch = g.epoch => h = g

\* What a step leaves in tickets, sessions and messages was held before or is the
\* lease's.
TicketsHeld == \A op \in Logins :
    ticket'[op].state # "none" => TicketToken(op)' \in Holders \cup {LeaseToken'}
SessionsHeld == \A n \in Nodes :
    local'[n].session # NoLogin => LocalToken(n)' \in Holders \cup {LeaseToken'}
MessagesHeld == \A m \in msgs' :
    m.session # NoLogin => MessageToken(m) \in Holders \cup {LeaseToken'}

\* The tokens there are.
LEMMA HoldersAre ==
    /\ \A op \in Logins : ticket[op].state # "none" => TicketToken(op) \in Holders
    /\ \A n \in Nodes : local[n].session # NoLogin => LocalToken(n) \in Holders
    /\ \A m \in msgs : m.session # NoLogin => MessageToken(m) \in Holders
BY Zenon DEF Holders, TicketToken, LocalToken, MessageToken

\* The epoch of a token is a number.
LEMMA HoldersType == ASSUME TypeOK, NEW h \in Holders PROVE h.epoch \in Nat
<1>1. ASSUME NEW op \in Logins PROVE TicketToken(op).epoch \in Nat
  BY Zenon DEF TypeOK, TicketRow, TicketToken
<1>2. ASSUME NEW n \in Nodes PROVE LocalToken(n).epoch \in Nat
  BY Zenon DEF TypeOK, LocalSession, LocalToken
<1>3. ASSUME NEW m \in msgs PROVE MessageToken(m).epoch \in Nat
  BY Zenon DEF TypeOK, Message, MessageToken
<1> QED BY <1>1, <1>2, <1>3, Zenon DEF Holders, TicketToken, LocalToken, MessageToken

\* A step that hands on tokens, and puts a new writer or session into the lease
\* only with a higher epoch, keeps epochs unambiguous.
LEMMA EpochStep ==
    ASSUME EpochInv, TypeOK', TicketsHeld, SessionsHeld, MessagesHeld,
           lease'.epoch > lease.epoch \/ LeaseToken' = LeaseToken
    PROVE  EpochInv'
<1>1. ASSUME NEW h \in Holders' PROVE h \in Holders \cup {LeaseToken'}
  BY Zenon DEF Holders, TicketsHeld, SessionsHeld, MessagesHeld, TicketToken, LocalToken, MessageToken
<1>2. lease.epoch \in Nat /\ lease'.epoch \in Nat
  BY Zenon DEF EpochInv, TypeOK, LeaseRow
<1>3. LeaseToken'.epoch = lease'.epoch /\ LeaseToken.epoch = lease.epoch
  BY Zenon DEF LeaseToken
<1>4. ASSUME NEW h \in Holders
      PROVE  h.epoch \in Nat /\ h.epoch <= lease.epoch /\ (h.epoch = lease.epoch => h = LeaseToken)
  BY HoldersType, Zenon DEF EpochInv
<1>5. ASSUME NEW h \in Holders
      PROVE  h.epoch <= lease'.epoch /\ (h.epoch = lease'.epoch => h = LeaseToken')
  BY <1>2, <1>3, <1>4
<1>6. ASSUME NEW h \in Holders'
      PROVE  h.epoch <= lease'.epoch /\ (h.epoch = lease'.epoch => h = LeaseToken')
  BY <1>1, <1>2, <1>3, <1>5
<1>7. ASSUME NEW h \in Holders', NEW g \in Holders', h.epoch = g.epoch
      PROVE  h = g
  <2>1. CASE h \in Holders /\ g \in Holders
    BY <1>7, <2>1, Zenon DEF EpochInv
  <2>2. CASE h = LeaseToken'
    BY <1>3, <1>6, <1>7, <2>2, Zenon
  <2>3. CASE g = LeaseToken'
    BY <1>3, <1>6, <1>7, <2>3, Zenon
  <2> QED BY <1>1, <2>1, <2>2, <2>3, Zenon
<1> QED BY <1>6, <1>7, Zenon DEF EpochInv

\* What does not change was held before.
LEMMA HeldBefore ==
    /\ UNCHANGED ticket => TicketsHeld
    /\ ticket' = RevokedTickets => TicketsHeld
    /\ UNCHANGED local => SessionsHeld
    /\ msgs' \subseteq msgs => MessagesHeld
<1>1. UNCHANGED ticket => TicketsHeld
  BY HoldersAre, Zenon DEF TicketsHeld, TicketToken
<1>2. ticket' = RevokedTickets => TicketsHeld
  <2> SUFFICES ASSUME ticket' = RevokedTickets, NEW op \in Logins, ticket'[op].state # "none"
               PROVE  ticket[op].state # "none" /\ TicketToken(op)' = TicketToken(op)
    BY HoldersAre, Zenon DEF TicketsHeld
  <2>1. ticket'[op] = IF ticket[op].state = "issued"
                      THEN [ticket[op] EXCEPT !.state = "revoked"] ELSE ticket[op]
    BY Zenon DEF RevokedTickets
  <2> QED BY <2>1 DEF TicketToken
<1>3. UNCHANGED local => SessionsHeld
  BY HoldersAre, Zenon DEF SessionsHeld, LocalToken
<1>4. msgs' \subseteq msgs => MessagesHeld
  BY HoldersAre, Zenon DEF MessagesHeld
<1> QED BY <1>1, <1>2, <1>3, <1>4, Zenon

\* A new ticket carries the lease it was issued for.
LEMMA IssueHeld ==
    ASSUME EpochInv, NEW op \in Logins, NEW l, IssueTicket(op, l)
    PROVE  TicketsHeld
<1>1. ASSUME NEW o \in Logins, o # op PROVE ticket'[o] = ticket[o]
  BY <1>1, Zenon DEF IssueTicket, EpochInv, TypeOK
<1>2. TicketToken(op)' = LeaseToken'
  BY Zenon DEF IssueTicket, EpochInv, TypeOK, TicketToken, LeaseToken
<1>3. ASSUME NEW o \in Logins, o # op, ticket'[o].state # "none"
      PROVE  TicketToken(o)' \in Holders
  BY <1>1, <1>3, HoldersAre, Zenon DEF TicketToken
<1> QED BY <1>2, <1>3, Zenon DEF TicketsHeld

\* A redemption hands the ticket's token to the node.
LEMMA ConsumeEpoch ==
    ASSUME EpochInv, TypeOK', NEW op \in Logins, ConsumeLoginHandoff(op)
    PROVE  EpochInv'
<1>1. ticket[op].state = "issued" /\ UNCHANGED local
  BY Zenon DEF ConsumeLoginHandoff, nodeVars
<1>2. TicketsHeld
  <2>1. ASSUME NEW o \in Logins, ticket'[o].state # "none"
        PROVE  ticket[o].state # "none" /\ TicketToken(o)' = TicketToken(o)
    BY <1>1, <2>1 DEF ConsumeLoginHandoff, EpochInv, TypeOK, TicketToken
  <2> QED BY <2>1, HoldersAre, Zenon DEF TicketsHeld
<1>3. MessagesHeld
  <2>1. TicketToken(op) \in Holders
    BY <1>1, HoldersAre, Zenon
  <2>2. ASSUME NEW m \in msgs' \ msgs PROVE MessageToken(m) = TicketToken(op)
    BY DEF ConsumeLoginHandoff, Send, MessageToken, TicketToken
  <2> QED BY <2>1, <2>2, HoldersAre, Zenon DEF MessagesHeld
<1>4. LeaseToken' = LeaseToken
  BY Zenon DEF ConsumeLoginHandoff, LeaseToken, EpochInv, TypeOK, LeaseRow
<1> QED BY <1>1, <1>2, <1>3, <1>4, HeldBefore, EpochStep, Zenon

\* A heartbeat is answered about the session it names.
LEMMA ReportEpoch ==
    ASSUME EpochInv, TypeOK', NEW m \in msgs, HandleReport(m)
    PROVE  EpochInv'
<1>1. UNCHANGED <<ticket, local>>
  BY Zenon DEF HandleReport, nodeVars
<1>2. LeaseToken' = LeaseToken
  <2>1. lease \in LeaseRow
    BY Zenon DEF EpochInv, TypeOK
  <2>2. lease' = lease \/ lease' = LeaseAfter(m)
    BY Zenon DEF HandleReport
  <2> QED BY <2>1, <2>2, Zenon DEF LeaseAfter, LeaseToken, LeaseRow
<1>3. MessagesHeld
  <2> SUFFICES ASSUME NEW k \in msgs' \ msgs, k.session # NoLogin
               PROVE  m.session # NoLogin /\ MessageToken(k) = MessageToken(m)
    BY HoldersAre, Zenon DEF MessagesHeld
  <2>1. k = Confirm(m, m.session, lease'.expires) \/ k = Confirm(m, NoLogin, 0)
    BY Zenon DEF HandleReport
  <2> QED BY <2>1 DEF Confirm, MessageToken
<1> QED BY <1>1, <1>2, <1>3, HeldBefore, EpochStep, Zenon

\* A node stores the token of the grant it receives; a confirmation, the end of
\* the session and a released gate bring no new one.
LEMMA SessionEpoch ==
    ASSUME EpochInv, TypeOK', UNCHANGED <<ticket, lease>>, msgs' \subseteq msgs,
           \A n \in Nodes : local'[n].session # NoLogin =>
              \/ LocalToken(n)' = LocalToken(n)
              \/ \E m \in msgs : m.session # NoLogin /\ LocalToken(n)' = MessageToken(m)
    PROVE  EpochInv'
<1>1. ASSUME NEW n \in Nodes, local'[n].session # NoLogin PROVE LocalToken(n)' \in Holders
  <2>1. CASE LocalToken(n)' = LocalToken(n)
    <3>1. local'[n].session = local[n].session
      BY <2>1, Zenon DEF LocalToken
    <3> QED BY <1>1, <2>1, <3>1, HoldersAre, Zenon
  <2>2. CASE \E m \in msgs : m.session # NoLogin /\ LocalToken(n)' = MessageToken(m)
    BY <2>2, HoldersAre, Zenon
  <2> QED BY <1>1, <2>1, <2>2, Zenon
<1>2. SessionsHeld
  BY <1>1, Zenon DEF SessionsHeld
<1>3. LeaseToken' = LeaseToken
  BY Zenon DEF LeaseToken
<1> QED BY <1>2, <1>3, HeldBefore, EpochStep, Zenon

\* Moving the home leaves the lease's epoch, session and writer in place.
LEMMA MoveHomeEpoch ==
    ASSUME EpochInv, TypeOK', NEW n \in Nodes, MoveHome(n)
    PROVE  EpochInv'
<1>1. LeaseToken' = LeaseToken
  BY Zenon DEF MoveHome, LeaseToken, EpochInv, TypeOK, LeaseRow
<1>2. ticket' = RevokedTickets /\ UNCHANGED <<local, msgs>>
  BY Zenon DEF MoveHome, nodeVars
<1> QED BY <1>1, <1>2, HeldBefore, EpochStep, Zenon

\* Every action keeps epochs unambiguous.
LEMMA EpochNext ==
    ASSUME EpochInv, [Next]_vars
    PROVE  EpochInv'
<1>0. TypeOK /\ TypeOK' /\ lease \in LeaseRow
  BY TypeStep, Zenon DEF EpochInv, TypeOK
<1>f. UNCHANGED <<lease, ticket, local>> /\ msgs' \subseteq msgs => EpochInv'
  BY <1>0, SessionEpoch, Zenon DEF LocalToken
<1>1. ASSUME NEW op \in Logins, LoginStep(op) PROVE EpochInv'
  <2>1. ASSUME NEW n \in Nodes, CheckLogin(op, n) PROVE EpochInv'
    BY <1>f, <2>1, Zenon DEF CheckLogin, nodeVars
  <2>2. CASE RefuseLogin(op) \/ AbortBackup(op)
    BY <1>f, <2>2, Zenon DEF RefuseLogin, AbortBackup, nodeVars
  <2>3. ASSUME NEW l, IssueTicket(op, l), UNCHANGED <<msgs, local>>,
               l = lease \/ l.epoch = lease.epoch + 1
        PROVE  EpochInv'
    <3>1. lease.epoch \in Nat /\ lease' = l
      BY <1>0, <2>3, Zenon DEF LeaseRow, IssueTicket
    <3>2. lease'.epoch > lease.epoch \/ LeaseToken' = LeaseToken
      BY <2>3, <3>1 DEF LeaseToken
    <3> QED BY <1>0, <2>3, <3>2, IssueHeld, HeldBefore, EpochStep, Zenon
  <2>4. ASSUME NEW n \in Nodes PROVE Granted(op, n).epoch = lease.epoch + 1
    BY Zenon DEF Granted, NextEpoch
  <2>5. CASE RenewStaleLease(op)
    <3>1. lease.writer \in Nodes
      BY <1>0, Zenon DEF LeaseRow
    <3> QED BY <2>3, <2>4, <2>5, <3>1, Zenon DEF RenewStaleLease, nodeVars
  <2>6. CASE JoinExistingLease(op)
    BY <2>3, <2>6, Zenon DEF JoinExistingLease, nodeVars
  <2>7. CASE AcquireLease(op)
    <3>1. login[op].node \in Nodes
      BY <1>0, Zenon DEF TypeOK, LoginRequest
    <3> QED BY <2>3, <2>4, <2>7, <3>1, Zenon DEF AcquireLease
  <2> QED BY <1>0, <1>1, <2>1, <2>2, <2>5, <2>6, <2>7, ConsumeEpoch, Zenon DEF LoginStep
<1>2. ASSUME NEW m \in msgs, MessageStep(m) PROVE EpochInv'
  <2>0. m.node \in Nodes
    BY <1>0, Zenon DEF TypeOK, Message
  <2>1. CASE OpenSession(m)
    <3>1. UNCHANGED <<ticket, lease>> /\ msgs' \subseteq msgs
      BY <2>1, Zenon DEF OpenSession
    <3>2. ASSUME NEW n \in Nodes, local'[n].session # NoLogin
          PROVE  \/ LocalToken(n)' = LocalToken(n)
                 \/ m.session # NoLogin /\ LocalToken(n)' = MessageToken(m)
      BY <1>0, <2>0, <2>1, <3>2, Zenon DEF OpenSession, TypeOK, LocalToken, MessageToken
    <3> QED BY <1>0, <3>1, <3>2, SessionEpoch, Zenon
  <2>2. CASE DeliverConfirm(m)
    <3>1. UNCHANGED <<ticket, lease>> /\ msgs' \subseteq msgs
      BY <2>2, Zenon DEF DeliverConfirm
    <3>2. ASSUME NEW n \in Nodes PROVE LocalToken(n)' = LocalToken(n)
      BY <1>0, <2>0, <2>2, SMTT(40) DEF DeliverConfirm, TypeOK, LocalSession, LocalToken
    <3> QED BY <1>0, <3>1, <3>2, SessionEpoch, Zenon
  <2>3. CASE LoseMessage(m)
    BY <1>f, <2>3, Zenon DEF LoseMessage, nodeVars
  <2> QED BY <1>0, <1>2, <2>1, <2>2, <2>3, ReportEpoch, Zenon DEF MessageStep
<1>3. ASSUME NEW n \in Nodes, NodeStep(n) PROVE EpochInv'
  <2>1. CASE EndSession(n)
    <3>1. UNCHANGED <<ticket, lease, msgs>>
      BY <2>1, Zenon DEF EndSession
    <3>2. ASSUME NEW k \in Nodes PROVE LocalToken(k)' = LocalToken(k)
      BY <1>0, <2>1 DEF EndSession, TypeOK, LocalSession, LocalToken
    <3> QED BY <1>0, <3>1, <3>2, SessionEpoch, Zenon
  <2>2. CASE \/ CreateRestoreWorkflow(n) \/ CreateRetirementSnapshot(n)
             \/ \E s \in Nodes : CreateSnapshotWorkflow(s, n)
    BY <1>f, <2>2, Zenon DEF CreateRestoreWorkflow, CreateSnapshotWorkflow,
                             CreateRetirementSnapshot, nodeVars
  <2>3. ASSUME NEW s, SendReport(n, s) PROVE EpochInv'
    <3>1. UNCHANGED <<ticket, lease, local>> /\ local[n].session # NoLogin
      BY <2>3, Zenon DEF SendReport
    <3>2. ASSUME NEW k \in msgs' \ msgs PROVE MessageToken(k) = LocalToken(n)
      BY <2>3 DEF SendReport, Send, MessageToken, LocalToken
    <3>3. MessagesHeld
      BY <3>1, <3>2, HoldersAre, Zenon DEF MessagesHeld
    <3>4. LeaseToken' = LeaseToken
      BY <3>1, Zenon DEF LeaseToken
    <3> QED BY <1>0, <3>1, <3>3, <3>4, HeldBefore, EpochStep, Zenon
  <2>4. CASE ConfirmReplicaTakeover(n)
    BY <1>0, <2>4, MoveHomeEpoch, Zenon DEF ConfirmReplicaTakeover
  <2> QED BY <1>3, <2>1, <2>2, <2>3, <2>4, Zenon DEF NodeStep
<1>4. CASE UserStep
  <2>1. CASE Promote
    <3>1. ticket' = RevokedTickets /\ UNCHANGED <<lease, local, msgs>>
      BY <2>1, Zenon DEF Promote, nodeVars
    <3>2. LeaseToken' = LeaseToken
      BY <3>1, Zenon DEF LeaseToken
    <3> QED BY <1>0, <3>1, <3>2, HeldBefore, EpochStep, Zenon
  <2>2. CASE ReportUserDataFault
    <3>1. ticket' = RevokedTickets /\ UNCHANGED <<local, msgs>>
      BY <2>2, Zenon DEF ReportUserDataFault, nodeVars
    <3>2. LeaseToken' = LeaseToken
      BY <1>0, <2>2, Zenon DEF ReportUserDataFault, LeaseToken, LeaseRow
    <3> QED BY <1>0, <3>1, <3>2, HeldBefore, EpochStep, Zenon
  <2>3. CASE ReleaseUserData
    <3>1. UNCHANGED <<ticket, lease, msgs>> /\ fault.node \in Nodes
      BY <1>0, <2>3, Zenon DEF ReleaseUserData, TypeOK, FaultRow
    <3>2. ASSUME NEW k \in Nodes, local'[k].session # NoLogin PROVE LocalToken(k)' = LocalToken(k)
      BY <1>0, <2>3, <3>1, <3>2, Zenon DEF ReleaseUserData, TypeOK, LocalSession, LocalToken
    <3> QED BY <1>0, <3>1, <3>2, SessionEpoch, Zenon
  <2>4. CASE FreezeUserData \/ \E o \in {"available", "unavailable"} : CompleteUserDataFaultFreeze(o)
    BY <1>f, <2>4, Zenon DEF FreezeUserData, CompleteUserDataFaultFreeze, nodeVars
  <2>5. CASE \/ Tick \/ ProvisionAccount \/ CompleteSnapshotWorkflow \/ FailWorkflow
             \/ StartRetirement
    BY <1>f, <2>5, Zenon DEF Tick, ProvisionAccount, CompleteSnapshotWorkflow, FailWorkflow,
                             StartRetirement, nodeVars
  <2>6. CASE CompleteRestoreWorkflow
    <3>1. work.target \in Nodes
      BY <1>0, Zenon DEF TypeOK, WorkRow
    <3> QED BY <1>0, <2>6, <3>1, MoveHomeEpoch, Zenon DEF CompleteRestoreWorkflow
  <2>7. CASE CompleteNodeRetirementHomeMigration
    <3>1. retire.target \in Nodes
      BY <1>0, Zenon DEF TypeOK, RetireItem
    <3> QED BY <1>0, <2>7, <3>1, MoveHomeEpoch, Zenon DEF CompleteNodeRetirementHomeMigration
  <2> QED BY <1>4, <2>1, <2>2, <2>3, <2>4, <2>5, <2>6, <2>7, Zenon DEF UserStep, FaultStep
<1>5. CASE UNCHANGED vars
  BY <1>f, <1>5, Zenon DEF vars
<1> QED BY <1>1, <1>2, <1>3, <1>4, <1>5, Zenon DEF Next

\* An activity epoch names one node and one session, in tickets, sessions and
\* messages alike, whatever faults, promotions, moves and losses happen
\* (acquireActivityLease, ConsumeLoginHandoff, the adapter's epoch check).
THEOREM EpochTheorem == Spec => []EpochNamesOneWriter
<1>1. Init => EpochInv
  BY TypeInit DEF Init, EpochInv, Holders, NoTicket
<1>2. EpochInv => EpochNamesOneWriter
  BY Zenon DEF EpochInv, EpochNamesOneWriter
<1> QED BY <1>1, <1>2, EpochNext, PTL DEF Spec
============================================================================
