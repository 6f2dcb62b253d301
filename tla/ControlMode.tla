---------------------------- MODULE ControlMode ----------------------------
(***************************************************************************)
(* The control mode of a compute node: how its Agent leaves and rejoins    *)
(* the Controller (agent/control_mode.go, agent/heartbeat.go,              *)
(* agent/peer_witness.go), what the Controller makes of the mode it is     *)
(* told (store/control_modes.go), and how the writes of independent        *)
(* sessions are archived before the node is managed again                  *)
(* (store/independent_reconciliations.go and the Controller's worker).     *)
(*                                                                         *)
(* One node and one of its users.  Each independent write gives the user a *)
(* new marker, 1, 2, ...; marker m stands for the writes up to the m-th.   *)
(* An Agent's heartbeat loop has one request outstanding at a time.  Time  *)
(* is counted in failed heartbeats.  The SillyTavern adapter is external:  *)
(* it is modelled from what the Agent asks of it and reads from it.        *)
(* Credential rotation is immediate here; module Rebuild has its steps.    *)
(***************************************************************************)
EXTENDS Integers, FiniteSets

CONSTANTS Peers,               \* the peers of PeerWitnessURLs
          UnreachableAfter, IndependentAfter, MinFailures,  \* the disaster policy
          CompletionAttempts,  \* 9 in the code: further failures give up
          SnapshotAttempts,    \* 4 in the code
          MaxWrites, MaxLogins,
          MaxFailures,         \* heartbeats and probes that fail
          MaxAdapterOutages,   \* heartbeats during which an adapter call fails
          MaxWorkFailures,     \* snapshots and completion commands that fail
          MaxPromotions,
          HomeMayMove          \* another node may become the user's home

ASSUME ControlModeAssumption ==
    /\ UnreachableAfter \in Nat \ {0} /\ IndependentAfter \in Nat \ {0}
    /\ MinFailures \in Nat \ {0}
    /\ CompletionAttempts \in Nat /\ SnapshotAttempts \in Nat
    /\ MaxWrites \in Nat /\ MaxLogins \in Nat /\ MaxFailures \in Nat
    /\ MaxAdapterOutages \in Nat /\ MaxWorkFailures \in Nat /\ MaxPromotions \in Nat
    /\ HomeMayMove \in BOOLEAN

VARIABLES agent,      \* the Agent's persisted ControlMode state
          adapter,    \* the adapter: its mode, independent sessions and marker;
                      \* late (history): writes made after a conflict's evidence was taken
          hb,         \* the heartbeat in flight
          node,       \* the mode columns of the node's row
          rec,        \* independent_user_reconciliations, by marker
          atHome,     \* the user's home is this node
          epoch,      \* the active controller generation
          archived,   \* the writes some verified copy or resolution contains
          evidence,   \* those the evidence of an open conflict contains
          failures, outages, workFailures

controller == <<node, rec, atHome, epoch, archived, evidence>>
bounds == <<failures, outages, workFailures>>
vars == <<agent, adapter, hb, controller, bounds>>

Modes == {"managed", "controller-unreachable", "independent", "independent-draining"}
Markers == 1..MaxWrites
NoMarker == 0
Unset == -1      \* a zero time

RowStates == {"none", "pending", "conflict", "snapshotting", "retry_wait", "completing",
              "completion_retry", "succeeded", "superseded", "failed"}
WorkflowStates == {"none", "running", "captured", "succeeded", "failed", "cancelled"}
Row == [state : RowStates, gen : Nat, attempt : Nat, workflow : WorkflowStates,
        content : 0..MaxWrites, resolved : BOOLEAN, command : BOOLEAN]
NoRow == [state |-> "none", gen |-> 0, attempt |-> 0, workflow |-> "none",
          content |-> 0, resolved |-> FALSE, command |-> FALSE]

Idle == [at |-> "idle"]
Rejected == [at |-> "rejected"]
Facts == [at : {"sent"}, mode : Modes, gen : Nat, known : Nat, sessions : Nat,
          pending : 0..1, marker : 0..MaxWrites, confirmed : BOOLEAN]
Decisions == [at : {"answered"}, mode : Modes, gen : Nat, known : Nat]

Init ==
    /\ agent = [mode |-> "managed", gen |-> 1, known |-> 1, applied |-> TRUE,
                heartbeats |-> 0, probes |-> 0, witnesses |-> 0,
                outage |-> Unset, confirmed |-> Unset,
                sessions |-> 0, pending |-> 0, marker |-> NoMarker]
    /\ adapter = [mode |-> "managed", sessions |-> 0, logins |-> 0,
                  marker |-> NoMarker, written |-> 0, late |-> {}]
    /\ hb = Idle
    /\ node = [mode |-> "managed", gen |-> 1, desired |-> "managed", desiredGen |-> 1,
               sessions |-> 0]
    /\ rec = [m \in Markers |-> NoRow]
    /\ atHome = TRUE
    /\ epoch = 1
    /\ archived = 0 /\ evidence = 0
    /\ failures = 0 /\ outages = 0 /\ workFailures = 0

----------------------------------------------------------------------------
(***************************************************************************)
(* The adapter.  Only independent mode opens sessions without a ticket;    *)
(* draining lets those that exist go on; managed closes what is left.      *)
(***************************************************************************)
IndependentLogin ==
    /\ adapter.mode = "independent"
    /\ adapter.logins < MaxLogins
    /\ adapter' = [adapter EXCEPT !.sessions = @ + 1, !.logins = @ + 1]
    /\ UNCHANGED <<agent, hb, controller, bounds>>

IndependentWrite ==
    /\ adapter.sessions > 0
    /\ adapter.written < MaxWrites
    /\ adapter' = [adapter EXCEPT !.written = @ + 1, !.marker = adapter.written + 1,
                                  !.late = @ \cup {w \in {adapter.written + 1} : evidence > 0}]
    /\ UNCHANGED <<agent, hb, controller, bounds>>

EndSession ==
    /\ adapter.sessions > 0
    /\ adapter' = [adapter EXCEPT !.sessions = @ - 1]
    /\ UNCHANGED <<agent, hb, controller, bounds>>

Applied(mode) ==
    [adapter EXCEPT !.mode = mode, !.sessions = IF mode = "managed" THEN 0 ELSE @]

(* A completion clears the marker it names and is answered as before when  *)
(* repeated; one that names an older marker is refused.                    *)
CompletionAccepted(m) == adapter.marker \in {m, NoMarker}

----------------------------------------------------------------------------
(***************************************************************************)
(* The Agent.                                                              *)
(***************************************************************************)
SyncTavernControlMode(a, ok) ==
    IF ~a.applied /\ ok
    THEN [a EXCEPT !.applied = TRUE,
                   !.sessions = Applied(a.mode).sessions,
                   !.pending = IF adapter.marker = NoMarker THEN 0 ELSE 1]
    ELSE a

AdapterAfter(a, ok) == IF ~a.applied /\ ok THEN Applied(a.mode) ELSE adapter

RecordAdapterSessionFacts(a, tavern) ==
    [a EXCEPT !.sessions = tavern.sessions,
              !.pending = IF tavern.marker = NoMarker THEN 0 ELSE 1,
              !.marker = tavern.marker]

ControlModeReport(a) ==
    [at |-> "sent", mode |-> a.mode, gen |-> a.gen, known |-> a.known,
     sessions |-> a.sessions, pending |-> a.pending, marker |-> a.marker,
     confirmed |-> a.confirmed # Unset]

AdapterFails(answers) ==
    /\ answers \/ outages < MaxAdapterOutages
    /\ outages' = IF answers THEN outages ELSE outages + 1

SendHeartbeat ==
    /\ hb = Idle
    /\ \E applies, tells \in BOOLEAN :
         /\ AdapterFails(applies /\ tells)
         /\ LET synced == SyncTavernControlMode(agent, applies)
                tavern == AdapterAfter(agent, applies)
            IN /\ adapter' = tavern
               /\ agent' = IF tells THEN RecordAdapterSessionFacts(synced, tavern) ELSE synced
               /\ hb' = ControlModeReport(agent')
    /\ UNCHANGED <<controller, failures, workFailures>>

(* A majority of the peers must confirm the loss and none may deny it.     *)
RequiredPeerConfirmations == (Cardinality(Peers) + 1) \div 2
PeerWitnessQuorumConfirmsLoss(answers) ==
    /\ Peers # {}
    /\ \A p \in Peers : answers[p] # "available"
    /\ Cardinality({p \in Peers : answers[p] = "unavailable"}) >= RequiredPeerConfirmations

(* What the peers may say together.                                        *)
Verdicts ==
    {PeerWitnessQuorumConfirmsLoss(answers) :
        answers \in [Peers -> {"available", "unavailable", "silent"}]}

Bump(n) == IF n < MinFailures THEN n + 1 ELSE n
Later(since, limit) == IF since < limit THEN since + 1 ELSE since

(* The counters of a failed heartbeat, before the mode is decided.         *)
Observed(a, probeFailed, quorum) ==
    LET confirms == probeFailed /\ quorum
    IN [a EXCEPT !.heartbeats = Bump(@),
                 !.probes = IF probeFailed THEN Bump(@) ELSE 0,
                 !.witnesses = IF confirms THEN Bump(@) ELSE 0,
                 !.confirmed = IF ~confirms THEN Unset
                               ELSE IF a.witnesses = 0 \/ @ = Unset THEN 0
                               ELSE Later(@, IndependentAfter),
                 !.outage = Later(@, UnreachableAfter)]

Disputed(a, probeFailed, quorum) ==
    a.mode = "independent" /\ ~(probeFailed /\ quorum)

SustainedLoss(a) ==
    /\ a.confirmed # Unset /\ a.confirmed >= IndependentAfter
    /\ a.heartbeats >= MinFailures /\ a.probes >= MinFailures /\ a.witnesses >= MinFailures

ModeAfterFailure(a, probeFailed, quorum) ==
    IF Disputed(a, probeFailed, quorum) \/ a.mode = "independent-draining"
    THEN "independent-draining"
    ELSE IF SustainedLoss(a) THEN "independent"
    ELSE IF a.mode = "managed" /\ a.outage >= UnreachableAfter THEN "controller-unreachable"
    ELSE a.mode

Enter(a, mode, gen) ==
    IF mode = a.mode THEN a
    ELSE [a EXCEPT !.mode = mode, !.gen = gen, !.applied = FALSE]

FailureKeepsGeneration(a, probeFailed, quorum) ==
    LET seen == Observed(a, probeFailed, quorum)
    IN Enter(seen, ModeAfterFailure(seen, probeFailed, quorum), a.gen)

RecordControllerFailure(a, probeFailed, quorum) ==
    LET seen == Observed(a, probeFailed, quorum)
    IN Enter(seen, ModeAfterFailure(seen, probeFailed, quorum), a.gen + 1)

(* The request or its answer is lost, or the Controller refuses it; the    *)
(* Agent probes the Controller's health and, if that fails too, its peers. *)
HeartbeatFails ==
    /\ hb.at # "idle"
    /\ \E probeFailed, applies \in BOOLEAN :
       \E quorum \in IF probeFailed THEN Verdicts ELSE {FALSE} :
         LET failed == RecordControllerFailure(agent, probeFailed, quorum)
         IN /\ (hb = Rejected /\ ~probeFailed) \/ failures < MaxFailures
            /\ failures' = IF hb = Rejected /\ ~probeFailed THEN failures ELSE failures + 1
            /\ applies \/ ~failed.applied
            /\ AdapterFails(applies)
            /\ agent' = SyncTavernControlMode(failed, applies)
            /\ adapter' = AdapterAfter(failed, applies)
    /\ hb' = Idle
    /\ UNCHANGED <<controller, workFailures>>

(* acceptGeneration: a higher generation is recorded, and then the adapter *)
(* has to be told of it.                                                   *)
AcceptGeneration(a, generation) ==
    [a EXCEPT !.known = generation, !.applied = @ /\ a.known = generation]

DesiredMode(a, answer) ==
    IF a.mode = "independent" /\ answer.mode = "managed" THEN "independent-draining"
    ELSE answer.mode

AcceptsAnswer(a, answer) ==
    LET desired == DesiredMode(a, answer)
    IN /\ answer.gen >= a.gen
       /\ ~(/\ a.mode = "independent-draining" /\ desired = "managed"
            /\ a.sessions > 0 \/ a.pending > 0)
       /\ ~(answer.gen = a.gen /\ desired # a.mode)

SuccessKeepsAdapterMode(a, answer) ==
    [a EXCEPT !.heartbeats = 0, !.probes = 0, !.witnesses = 0,
              !.outage = Unset, !.confirmed = Unset,
              !.mode = DesiredMode(a, answer), !.gen = answer.gen]

RecordControllerSuccess(a, answer) ==
    Enter([a EXCEPT !.heartbeats = 0, !.probes = 0, !.witnesses = 0,
                    !.outage = Unset, !.confirmed = Unset],
          DesiredMode(a, answer), answer.gen)

HeartbeatSucceeds ==
    /\ hb.at = "answered"
    /\ LET known == AcceptGeneration(agent, hb.known)
       IN IF AcceptsAnswer(known, hb)
          THEN \E applies \in BOOLEAN :
                 LET succeeded == RecordControllerSuccess(known, hb)
                 IN /\ applies \/ ~succeeded.applied
                    /\ AdapterFails(applies)
                    /\ agent' = SyncTavernControlMode(succeeded, applies)
                    /\ adapter' = AdapterAfter(succeeded, applies)
          ELSE agent' = known /\ UNCHANGED <<adapter, outages>>
    /\ hb' = Idle
    /\ UNCHANGED <<controller, failures, workFailures>>

----------------------------------------------------------------------------
(***************************************************************************)
(* The Controller's side of a heartbeat: one serializable transaction.     *)
(***************************************************************************)
Finished == {"none", "succeeded", "superseded"}
DurablePending == \E m \in Markers : rec[m].state \notin Finished

ValidFact ==
    /\ hb.mode = "independent" => hb.confirmed
    /\ (hb.pending = 0) = (hb.marker = NoMarker)

StaleFact == hb.gen < node.gen \/ (hb.gen = node.gen /\ hb.mode # node.mode)

Drained == hb.sessions = 0 /\ hb.pending = 0 /\ ~DurablePending

Desired ==
    CASE hb.mode = "controller-unreachable" -> "managed"
      [] hb.mode = "independent" -> "independent-draining"
      [] hb.mode = "independent-draining" /\ Drained -> "managed"
      [] OTHER -> hb.mode

DesiredGeneration ==
    LET next == (IF hb.gen > node.desiredGen THEN hb.gen ELSE node.desiredGen) + 1
        offered == /\ node.mode = hb.mode /\ node.gen = hb.gen
                   /\ node.desired = Desired /\ node.desiredGen > hb.gen
    IN IF Desired = hb.mode THEN hb.gen
       ELSE IF offered THEN node.desiredGen ELSE next

Superseded(row) ==
    [row EXCEPT !.state = "superseded",
                !.workflow = IF @ \in {"running", "captured"} THEN "cancelled" ELSE @]

(* The reported marker gets a row, unless it has one, and the rows of the  *)
(* user's other markers are superseded and their snapshots cancelled.      *)
RecordIndependentSyncFacts ==
    IF hb.marker = NoMarker THEN rec
    ELSE [m \in Markers |->
            CASE m = hb.marker /\ rec[m].state = "none" ->
                   [NoRow EXCEPT !.state = IF atHome THEN "pending" ELSE "conflict", !.gen = epoch]
              [] m # hb.marker /\ rec[m].state \notin Finished \cup {"failed"} ->
                   Superseded(rec[m])
              [] OTHER -> rec[m]]

ReconcileNodeControlMode ==
    /\ hb.at = "sent" /\ hb.known = epoch
    /\ ValidFact /\ ~StaleFact
    /\ node' = [mode |-> hb.mode, gen |-> hb.gen, desired |-> Desired,
                desiredGen |-> DesiredGeneration, sessions |-> hb.sessions]
    /\ rec' = RecordIndependentSyncFacts
    /\ hb' = [at |-> "answered", mode |-> Desired, gen |-> DesiredGeneration, known |-> epoch]
    /\ UNCHANGED <<agent, adapter, atHome, epoch, archived, evidence, bounds>>

(* A credential of an earlier generation publishes nothing; the mode it    *)
(* reports is echoed.                                                      *)
ReconcileRecovery ==
    /\ hb.at = "sent" /\ hb.known < epoch
    /\ ValidFact
    /\ hb' = [at |-> "answered", mode |-> hb.mode, gen |-> hb.gen, known |-> epoch]
    /\ UNCHANGED <<agent, adapter, controller, bounds>>

ReconcileRefused ==
    /\ hb.at = "sent"
    /\ ~ValidFact \/ (hb.known = epoch /\ StaleFact)
    /\ hb' = Rejected
    /\ UNCHANGED <<agent, adapter, controller, bounds>>

----------------------------------------------------------------------------
(***************************************************************************)
(* The worker that archives independent writes.  It works on a node that   *)
(* has reported draining and no session.  A retry delay has always passed. *)
(***************************************************************************)
Working == node.mode = "independent-draining" /\ node.sessions = 0

CreateIndependentReconciliationSnapshot(m) ==
    /\ Working
    /\ rec[m].state \in {"pending", "retry_wait"} /\ rec[m].workflow = "none"
    /\ rec[m].gen = epoch
    /\ rec' = [rec EXCEPT ![m].state = "snapshotting", ![m].workflow = "running"]
    /\ UNCHANGED <<agent, adapter, hb, node, atHome, epoch, archived, evidence, bounds>>

(* The Agent runs a snapshot's and a completion's commands in two modes.   *)
CommandAllowed == agent.mode \in {"managed", "independent-draining"}

(* The snapshot workflow itself: a copy is taken, then verified or lost.   *)
CaptureSnapshot(m) ==
    /\ rec[m].workflow = "running"
    /\ CommandAllowed
    /\ rec' = [rec EXCEPT ![m].workflow = "captured", ![m].content = adapter.written]
    /\ UNCHANGED <<agent, adapter, hb, node, atHome, epoch, archived, evidence, bounds>>

CompleteSnapshotWorkflow(m) ==
    /\ rec[m].workflow = "captured"
    /\ rec' = [rec EXCEPT ![m].workflow = "succeeded"]
    /\ archived' = IF rec[m].content > archived THEN rec[m].content ELSE archived
    /\ UNCHANGED <<agent, adapter, hb, node, atHome, epoch, evidence, bounds>>

FailSnapshotWorkflow(m) ==
    /\ rec[m].workflow \in {"running", "captured"}
    /\ workFailures < MaxWorkFailures
    /\ workFailures' = workFailures + 1
    /\ rec' = [rec EXCEPT ![m].workflow = "failed"]
    /\ UNCHANGED <<agent, adapter, hb, node, atHome, epoch, archived, evidence, failures, outages>>

RestartKeepsWorkflow(m) ==
    /\ Working
    /\ rec[m].state = "snapshotting" /\ rec[m].workflow \in {"failed", "cancelled"}
    /\ rec' = [rec EXCEPT ![m].state = IF rec[m].attempt >= SnapshotAttempts
                                       THEN "failed" ELSE "retry_wait",
                          ![m].attempt = @ + 1]
    /\ UNCHANGED <<agent, adapter, hb, node, atHome, epoch, archived, evidence, bounds>>

RestartIndependentReconciliationSnapshot(m) ==
    /\ Working
    /\ rec[m].state = "snapshotting" /\ rec[m].workflow \in {"failed", "cancelled"}
    /\ rec' = [rec EXCEPT ![m].state = IF rec[m].attempt >= SnapshotAttempts
                                       THEN "failed" ELSE "retry_wait",
                          ![m].workflow = "none", ![m].attempt = @ + 1]
    /\ UNCHANGED <<agent, adapter, hb, node, atHome, epoch, archived, evidence, bounds>>

BeginWhenCaptured(m) ==
    /\ Working
    /\ ~rec[m].command
    /\ \/ /\ rec[m].state \in {"snapshotting", "completing", "completion_retry"}
          /\ rec[m].workflow \in {"captured", "succeeded"}
       \/ /\ rec[m].state \in {"conflict", "completing", "completion_retry"}
          /\ rec[m].resolved /\ evidence = 0
    /\ rec' = [rec EXCEPT ![m].state = "completing", ![m].command = TRUE]
    /\ UNCHANGED <<agent, adapter, hb, node, atHome, epoch, archived, evidence, bounds>>

BeginIndependentReconciliationCompletion(m) ==
    /\ Working
    /\ ~rec[m].command
    /\ \/ /\ rec[m].state \in {"snapshotting", "completing", "completion_retry"}
          /\ rec[m].workflow = "succeeded"
       \/ /\ rec[m].state \in {"conflict", "completing", "completion_retry"}
          /\ rec[m].resolved /\ evidence = 0
    /\ rec' = [rec EXCEPT ![m].state = "completing", ![m].command = TRUE]
    /\ UNCHANGED <<agent, adapter, hb, node, atHome, epoch, archived, evidence, bounds>>

(* The command reached the adapter and its answer the worker.              *)
CompleteIndependentReconciliation(m) ==
    /\ rec[m].command
    /\ CommandAllowed /\ CompletionAccepted(m)
    /\ adapter' = [adapter EXCEPT !.marker = NoMarker]
    /\ rec' = [rec EXCEPT ![m].command = FALSE,
                          ![m].state = IF @ = "completing" THEN "succeeded" ELSE @]
    /\ UNCHANGED <<agent, hb, node, atHome, epoch, archived, evidence, bounds>>

(* It was refused, could not run, or its answer was lost.                  *)
RetryIndependentReconciliationCompletion(m) ==
    /\ rec[m].command
    /\ \/ /\ ~(CommandAllowed /\ CompletionAccepted(m))
          /\ UNCHANGED <<adapter, workFailures>>
       \/ /\ workFailures < MaxWorkFailures
          /\ workFailures' = workFailures + 1
          /\ adapter' \in {adapter, IF CommandAllowed /\ CompletionAccepted(m)
                                    THEN [adapter EXCEPT !.marker = NoMarker] ELSE adapter}
    /\ rec' = [rec EXCEPT ![m].command = FALSE,
                          ![m].state = IF @ # "completing" THEN @
                                       ELSE IF rec[m].attempt >= CompletionAttempts
                                       THEN "failed" ELSE "completion_retry",
                          ![m].attempt = IF rec[m].state = "completing" THEN @ + 1 ELSE @]
    /\ UNCHANGED <<agent, hb, node, atHome, epoch, archived, evidence, failures, outages>>

(* A conflict copies the user's data as it is on the node, in session or   *)
(* not; the resolution works from that copy, and counts for every row that *)
(* was there before it.                                                    *)
CaptureConflictEvidence ==
    /\ evidence = 0 /\ CommandAllowed
    /\ \E m \in Markers : rec[m].state = "conflict" /\ ~rec[m].resolved
    /\ evidence' = adapter.written
    /\ UNCHANGED <<agent, adapter, hb, node, rec, atHome, epoch, archived, bounds>>

CompleteConflictResolution ==
    /\ evidence > 0
    /\ evidence' = 0
    /\ archived' = IF evidence > archived THEN evidence ELSE archived
    /\ rec' = [m \in Markers |-> [rec[m] EXCEPT !.resolved = @ \/ rec[m].state # "none"]]
    /\ UNCHANGED <<agent, adapter, hb, node, atHome, epoch, bounds>>

(* A takeover makes another node the user's home.                          *)
ConfirmReplicaTakeover ==
    /\ HomeMayMove /\ atHome
    /\ atHome' = FALSE
    /\ UNCHANGED <<agent, adapter, hb, node, rec, epoch, archived, evidence, bounds>>

(* Another Controller process takes over.  The worker's goroutines end.    *)
PromoteControllerEpoch ==
    /\ epoch <= MaxPromotions
    /\ epoch' = epoch + 1
    /\ rec' = [m \in Markers |-> [rec[m] EXCEPT !.command = FALSE]]
    /\ UNCHANGED <<agent, adapter, hb, node, atHome, archived, evidence, bounds>>

Work(m) ==
    \/ CreateIndependentReconciliationSnapshot(m) \/ CaptureSnapshot(m)
    \/ CompleteSnapshotWorkflow(m) \/ RestartIndependentReconciliationSnapshot(m)
    \/ BeginIndependentReconciliationCompletion(m) \/ CompleteIndependentReconciliation(m)

Next ==
    \/ IndependentLogin \/ IndependentWrite \/ EndSession
    \/ SendHeartbeat \/ HeartbeatSucceeds \/ HeartbeatFails
    \/ ReconcileNodeControlMode \/ ReconcileRecovery \/ ReconcileRefused
    \/ \E m \in Markers : \/ Work(m) \/ FailSnapshotWorkflow(m)
                          \/ RetryIndependentReconciliationCompletion(m)
    \/ CaptureConflictEvidence \/ CompleteConflictResolution
    \/ ConfirmReplicaTakeover \/ PromoteControllerEpoch

Spec == Init /\ [][Next]_vars
=============================================================================
