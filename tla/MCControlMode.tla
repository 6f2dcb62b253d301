--------------------------- MODULE MCControlMode ---------------------------
(* The properties of module ControlMode.                                   *)
EXTENDS ControlMode

(* Three families of behaviours: two independent writes with a home that   *)
(* stays and an adapter that answers; two writes with a home that moves    *)
(* and few failures; and one write with an adapter that fails, and with a  *)
(* promotion or a home that moves.  No fair action leaves one.             *)
WritesOrMishaps ==
    \/ epoch = 1 /\ outages = 0 /\ (atHome \/ failures <= 4)
    \/ adapter.written <= 1 /\ failures <= 5 /\ (epoch = 1 \/ atHome)

(* Every variable keeps its type.                                          *)
TypeOK ==
    /\ agent \in [mode : Modes, gen : Nat, known : Nat, applied : BOOLEAN,
                  heartbeats : 0..MinFailures, probes : 0..MinFailures,
                  witnesses : 0..MinFailures, outage : Unset..UnreachableAfter,
                  confirmed : Unset..IndependentAfter, sessions : 0..MaxLogins,
                  pending : 0..1, marker : 0..MaxWrites]
    /\ adapter \in [mode : Modes, sessions : 0..MaxLogins, logins : 0..MaxLogins,
                    marker : 0..MaxWrites, written : 0..MaxWrites,
                    late : SUBSET Markers]
    /\ hb \in {Idle, Rejected} \cup Facts \cup Decisions
    /\ node \in [mode : Modes, gen : Nat, desired : Modes, desiredGen : Nat,
                 sessions : 0..MaxLogins]
    /\ rec \in [Markers -> Row]
    /\ atHome \in BOOLEAN
    /\ epoch \in 1..MaxPromotions + 1
    /\ archived \in 0..MaxWrites /\ evidence \in 0..MaxWrites
    /\ failures \in 0..MaxFailures /\ outages \in 0..MaxAdapterOutages
    /\ workFailures \in 0..MaxWorkFailures

(* A draining Agent whose adapter has taken up draining becomes managed    *)
(* again with no independent session running and no independent write      *)
(* waiting to be archived, however often the adapter fails to answer and   *)
(* however old the counts are that the Agent reports and compares; and the *)
(* Controller takes a node for no longer draining only once every          *)
(* reconciliation it knew of is settled (reconcileNodeControlMode,         *)
(* recordControllerSuccess, syncTavernControlMode).                        *)
ReturnsDrained ==
    [][/\ (agent.mode = "independent-draining" /\ agent'.mode = "managed" /\ agent.applied)
            => (adapter.sessions = 0 /\ adapter.marker = NoMarker)
       /\ (node.mode = "independent-draining" /\ node'.mode # node.mode)
            => ~DurablePending]_vars

(* Does not hold: a draining Agent whose adapter fails twice has counts    *)
(* from before draining, and both sides take them for the truth            *)
(* (sendHeartbeat goes on when syncTavernControlMode has failed).          *)
ReturnsDrainedAnyway ==
    [][(agent.mode # "managed" /\ agent'.mode = "managed")
         => (adapter.sessions = 0 /\ adapter.marker = NoMarker)]_vars

(* Does not hold, for the same reason: the write such a node still has is  *)
(* reported once it is managed, and its row is worked on by nobody         *)
(* (ListIndependentReconciliationWork asks for a draining node).           *)
ManagedIsReconciled ==
    (node.mode = "managed" /\ node.desired = "managed") => ~DurablePending

(* The adapter forgets an independent write only when an immutable         *)
(* snapshot or a resolved conflict contains it, whatever sessions write    *)
(* while the snapshot and the completion of an earlier marker are running  *)
(* and wherever the user's home is, or else when it was made after the     *)
(* evidence of the conflict was taken that counts as its resolution        *)
(* (BeginIndependentReconciliationCompletion, completeIndependentSync).    *)
NoWriteForgotten ==
    adapter.marker = NoMarker =>
        \A w \in 1..adapter.written : w <= archived \/ w \in adapter.late

(* Does not hold: a resolution counts for every row observed before it,    *)
(* whatever its evidence contains.                                         *)
NoWriteForgottenAnyway == adapter.marker = NoMarker => archived >= adapter.written

(* A mode generation names one mode: the Agent and the Controller never    *)
(* use the same number for different modes, although both of them allot    *)
(* new numbers and answers get lost (recordControllerFailure and           *)
(* reconcileNodeControlMode).                                              *)
GenerationNamesMode ==
    /\ node.gen = agent.gen => node.mode = agent.mode
    /\ node.gen <= agent.gen

----------------------------------------------------------------------------
(* The Agent's loop, the Controller's handler and worker go on; sessions   *)
(* end; heartbeats stop failing once the failures are used up.             *)
FairSpec ==
    /\ Spec
    /\ WF_vars(SendHeartbeat)
    /\ WF_vars(HeartbeatSucceeds) /\ WF_vars(hb = Rejected /\ HeartbeatFails)
    /\ WF_vars(ReconcileNodeControlMode \/ ReconcileRecovery \/ ReconcileRefused)
    /\ WF_vars(EndSession)
    /\ \A m \in Markers :
         /\ WF_vars(CreateIndependentReconciliationSnapshot(m))
         /\ WF_vars(CaptureSnapshot(m)) /\ WF_vars(CompleteSnapshotWorkflow(m))
         /\ WF_vars(RestartIndependentReconciliationSnapshot(m))
         /\ WF_vars(BeginIndependentReconciliationCompletion(m))
         /\ WF_vars(CompleteIndependentReconciliation(m)
                      \/ RetryIndependentReconciliationCompletion(m))

(* A node that lost the Controller is managed again in the end, unless a   *)
(* Controller is promoted or the user's home moves meanwhile: sessions     *)
(* drain, each user's writes are archived, and the Controller lets the     *)
(* node return (reconcileNodeControlMode, reconcileIndependentWrites).     *)
NodeReturns ==
    (agent.mode # "managed") ~> (agent.mode = "managed" \/ epoch > 1 \/ ~atHome)

(* Does not hold: a promotion before the snapshot of a reconciliation is   *)
(* created leaves the row to a generation that is gone, and the node       *)
(* drains for ever (recordIndependentSyncFactsTx, CreateSnapshotWorkflow). *)
NodeReturnsAnyway == (agent.mode # "managed") ~> (agent.mode = "managed")
=============================================================================
