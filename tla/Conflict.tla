------------------------------ MODULE Conflict ------------------------------
(***************************************************************************)
(* A replica conflict of one user, from the first marked copies to the     *)
(* merged home: the conflict and its sources (store/protection.go), the    *)
(* evidence every source node captures (store/conflict_evidence.go,        *)
(* controller/conflict_evidence.go, agent/conflict_evidence.go), the       *)
(* user's choices, and the workflow that moves the evidence to the chosen  *)
(* base node and publishes the merge there (store/conflict_resolutions.go, *)
(* controller/conflict_resolutions.go, agent/conflict_resolution.go).      *)
(*                                                                         *)
(* A tree gives each path a version or None.  While the user is in         *)
(* conflict nobody writes to the sources, so a tree is fixed; what a node  *)
(* in independent mode may write meanwhile is in ControlMode.              *)
(*                                                                         *)
(* Every transaction is a step.  A worker runs executeConflictResolution   *)
(* in some Controller process; a worker of a deposed process may go on     *)
(* beside one of the new leader.  A worker that has read a command's       *)
(* result applies it in the same step: results do not change once written. *)
(* Transfers are direct; capabilities outlive the behaviour.               *)
(***************************************************************************)
EXTENDS Integers, FiniteSets

CONSTANTS Computes,     \* compute nodes
          Archives,     \* storage nodes
          Home,         \* users.home_node_id when the conflict begins
          Reported,     \* nodes whose copies are marked when it begins
          Draining,     \* compute nodes that drain then; none, if an import found it
          Paths,        \* paths of the user's files
          Contents,     \* trees the nodes can have, node by node
          Versions,     \* contents a path can have
          None,         \* no version, no node
          MaxWorkers,   \* bound on the goroutines that run the workflow at once
          MaxMishaps,   \* bound on outages, lost results, crashes, promotions
                        \* and late reports together
          MaxCap,       \* bound on the capabilities issued for one source
          MaxRestarts,  \* bound on restarts of the workflow, -1 for none
          MaxAttempts,  \* attempts of the workflow (five or Backup.RetryMax)
          MaxTries      \* attempts of one evidence capture (five)

Nodes  == Computes \cup Archives
MaxGen == 1 + MaxMishaps   \* of the controller generation
Trees  == [Paths -> Versions \cup {None}]
Workers == 1..MaxWorkers
Open   == {"scheduled", "retry_wait", "publishing"}

ASSUME ConflictAssumption ==
    /\ Home \in Computes /\ Reported \subseteq Nodes
    /\ Draining \subseteq Computes
    /\ IsFiniteSet(Nodes)
    /\ None \notin Nodes \cup Versions \cup [main : Trees, kept : SUBSET (Paths \X Versions)]
    /\ Contents \subseteq [Nodes -> Trees]
    /\ {MaxMishaps, MaxWorkers} \subseteq Nat
    /\ MaxRestarts \in Nat \cup {-1}
    /\ {MaxCap, MaxAttempts, MaxTries} \subseteq Nat \ {0}

VARIABLES tree,     \* the user's tree on each node
          marked,   \* nodes whose replica rows say conflict
          conf,     \* replica_conflicts.state, "none" before there is one
          sources,  \* nodes of replica_conflict_sources
          ev,       \* their evidence: state and attempts
          choice,   \* conflict_resolution_operations and its decisions
          wf,       \* the workflow: state, generation, attempts that count
          lease,    \* process that has claimed it, by generation, or 0
          tr,       \* conflict_resolution_transfers: state and capability
          cmd,      \* Agent commands by operation identity
          at,       \* workers
          online,   \* nodes the Controller holds for ready
          xfer,     \* pending transfers on the base node, per source
          input,    \* sources whose evidence has arrived there
          plan,     \* what else is on its disk: plan, decisions, receipt
          out,      \* the merged tree published on the base node, or None
          edited,   \* the user has written there since
          gen,      \* active controller generation
          mishaps,  \* mishaps so far
          restarts  \* restarts so far, where they are bounded

facts == <<tree, marked, conf, sources, ev, choice>>
flow  == <<wf, lease, tr>>
base  == <<xfer, input, plan, out, edited>>
vars  == <<facts, flow, base, cmd, at, online, gen, mishaps, restarts>>

NoChoice == [base |-> None, default |-> "base", decided |-> [p \in Paths |-> None],
             both |-> {}]
Choices  == [base : Nodes, default : {"base", "preserve_all_originals"},
             decided : [Paths -> Nodes \cup {None}], both : SUBSET Paths]
\* Capture, prepare, start and receipt commands are named after a capability;
\* the last three after the workflow only.
OpPlan    == <<"plan", None, 0>>
OpDecide  == <<"decide", None, 0>>
OpPublish == <<"publish", None, 0>>
Ops == ({"prepare", "start", "receipt"} \X Nodes \X (1..MaxCap))
           \cup {OpPlan, OpDecide, OpPublish}
NoCmd == [st |-> "none", gen |-> 0]
Idle  == [pc |-> "idle", gen |-> 0, todo |-> {}, src |-> None, cap |-> 0,
          late |-> FALSE, loaded |-> "none", tr |-> [n \in Nodes |-> [st |-> "none", cap |-> 0]]]
Steps == {"idle", "move", "prepare", "start", "recover", "receipt", "plan", "decide",
          "publish", "fail"}

TypeOK ==
    /\ tree \in [Nodes -> Trees] /\ marked \subseteq Nodes /\ sources \subseteq Nodes
    /\ conf \in {"none", "detected", "inspecting", "awaiting_decision",
                 "resolving", "resolved"}
    /\ ev \in [Nodes -> [st : {"pending", "capturing", "retry_wait", "failed", "ready"},
                         tries : 0..MaxTries]]
    /\ choice \in Choices \cup {NoChoice}
    /\ wf \in [state : Open \cup {"none", "succeeded", "failed"}, gen : 0..MaxGen,
               tries : Nat]
    /\ lease \in 0..MaxGen
    /\ tr \in [Nodes -> [st : {"none", "prepared", "consumed", "revoked"},
                         cap : 0..MaxCap]]
    /\ cmd \in [Ops -> [st : {"none", "queued", "ok", "again", "failed"}, gen : 0..MaxGen]]
    /\ \A w \in Workers : at[w].pc \in Steps /\ at[w].gen \in 0..MaxGen
                            /\ at[w].todo \subseteq Nodes
    /\ online \subseteq Nodes
    /\ xfer \in [Nodes -> [st : {"none", "prepared", "published", "failed"},
                           cap : 0..MaxCap]]
    /\ input \subseteq Nodes
    /\ plan \subseteq {"plan", "decisions", "receipt"}
    /\ edited \in BOOLEAN
    /\ gen \in 1..MaxGen /\ mishaps \in 0..MaxMishaps /\ restarts \in Nat

Init ==
    /\ tree \in Contents
    /\ marked = Reported
    /\ conf = "none" /\ sources = {} /\ choice = NoChoice
    /\ ev = [n \in Nodes |-> [st |-> "pending", tries |-> 0]]
    /\ wf = [state |-> "none", gen |-> 0, tries |-> 0] /\ lease = 0
    /\ tr = [n \in Nodes |-> [st |-> "none", cap |-> 0]]
    /\ cmd = [o \in Ops |-> NoCmd]
    /\ at = [w \in Workers |-> Idle]
    /\ online = Nodes
    /\ xfer = [n \in Nodes |-> [st |-> "none", cap |-> 0]]
    /\ input = {} /\ plan = {} /\ out = None /\ edited = FALSE
    /\ gen = 1 /\ mishaps = 0 /\ restarts = 0

Mishap == mishaps < MaxMishaps /\ mishaps' = mishaps + 1

------------------------------------------------------------------------------
(* The conflict, its sources and their evidence. *)

\* ReconcileProtectionStates opens a conflict when a copy is marked.
OpenConflict ==
    /\ conf = "none" /\ marked # {}
    /\ conf' = "detected"
    /\ UNCHANGED <<tree, marked, sources, ev, choice, flow, base, cmd, at, online, gen, mishaps, restarts>>

\* In the same pass it inserts the sources it does not have yet, as long as
\* nobody has decided; a source that joins later sends the conflict back to
\* inspection.
CaptureSources ==
    LET new == (marked \cup {Home}) \ sources
    IN  /\ conf \in {"detected", "inspecting", "awaiting_decision"}
        /\ choice = NoChoice
        /\ new # {}
        /\ sources' = sources \cup new
        /\ conf' = IF sources = {} THEN conf ELSE "inspecting"
        /\ UNCHANGED <<tree, marked, ev, choice, flow, base, cmd, at, online, gen, mishaps, restarts>>

\* Another node comes back with independent writes of the user:
\* recordIndependentSyncFacts marks the copies.  A compute node drains from then
\* on until the conflict is resolved.
LateReport(n) ==
    /\ conf \notin {"none", "resolved"} /\ n \notin marked /\ Mishap
    /\ marked' = marked \cup {n}
    /\ UNCHANGED <<tree, conf, sources, ev, choice, flow, base, cmd, at, online, gen, restarts>>

Drains == Draining \cup ((marked \ Reported) \cap Computes)

\* A source is pending, due again, or failed for six hours.
ClaimConflictEvidenceTask(n) ==
    /\ conf \in {"detected", "inspecting"}
    /\ n \in sources \cap online
    /\ ev[n].st \in {"pending", "retry_wait", "failed"}
    /\ ev' = [ev EXCEPT ![n].st = "capturing", ![n].tries = IF @ = MaxTries THEN @ ELSE @ + 1]
    /\ conf' = "inspecting"
    /\ UNCHANGED <<tree, marked, sources, choice, flow, base, cmd, at, online, gen, mishaps, restarts>>

RetryConflictEvidenceTask(n) ==
    /\ ev[n].st = "capturing"
    /\ n \in online => Mishap
    /\ n \notin online => UNCHANGED mishaps
    /\ ev' = [ev EXCEPT ![n].st = IF ev[n].tries >= MaxTries THEN "failed" ELSE "retry_wait"]
    /\ UNCHANGED <<tree, marked, conf, sources, choice, flow, base, cmd, at, online, gen, restarts>>

\* executeConflictEvidenceTask: the Agent captures an immutable copy, its
\* entries are read page by page, and CompleteConflictEvidence records them.
CompleteConflictEvidence(n) ==
    /\ ev[n].st = "capturing" /\ conf = "inspecting" /\ n \in online
    /\ ev' = [ev EXCEPT ![n].st = "ready"]
    /\ conf' = IF \A m \in sources : ev'[m].st = "ready" THEN "awaiting_decision" ELSE conf
    /\ UNCHANGED <<tree, marked, sources, choice, flow, base, cmd, at, online, gen, mishaps, restarts>>

------------------------------------------------------------------------------
(* The choices of the user and the merge they stand for. *)

Having(p)      == {n \in sources : tree[n][p] # None}
VersionsOf(p)  == {tree[n][p] : n \in Having(p)}

\* buildConflictDifferences, for one path.
Difference(p) ==
    IF Cardinality(VersionsOf(p)) > 1 THEN "different_at_same_path"
    ELSE IF Having(p) \in {{}, sources} THEN "same" ELSE "only_on_some_sources"

\* Mutant: the base is not asked for a path left to the default.
ValidDecisions(c) ==
    /\ c.base \in sources \cap Computes
    /\ \A p \in Paths : c.decided[p] # None =>
          Difference(p) = "different_at_same_path" /\ c.decided[p] \in Having(p)

\* validateConflictResolutionChoices.
ValidChoices(c) ==
    /\ c.base \in sources \cap Computes
    /\ \A p \in Paths :
          /\ c.decided[p] # None =>
                Difference(p) = "different_at_same_path" /\ c.decided[p] \in Having(p)
          /\ c.decided[p] = None /\ Difference(p) = "different_at_same_path" =>
                c.base \in Having(p)

\* All of them have the same version.
AnyOf(S) == CHOOSE n \in S : TRUE

\* buildConflictResolutionSelection: the source of a path, None where the
\* Agent gives up.
Chosen(c, p) ==
    IF Cardinality(VersionsOf(p)) = 1
    THEN IF c.decided[p] # None THEN None
         ELSE IF c.base \in Having(p) THEN c.base
         ELSE AnyOf(Having(p))
    ELSE IF c.decided[p] # None
         THEN IF c.decided[p] \in Having(p) THEN c.decided[p] ELSE None
    ELSE IF c.base \in Having(p) THEN c.base ELSE None

\* Mutant: the default does not apply to paths without a decision.
PreservesDecided(c, p) == c.decided[p] # None /\ p \in c.both

\* The paths on which the other versions are kept beside the chosen one.
Preserves(c, p) ==
    \/ c.decided[p] # None /\ p \in c.both
    \/ c.decided[p] = None /\ c.default = "preserve_all_originals"

Occurring == {p \in Paths : Having(p) # {}}

Selectable(c) ==
    /\ \A p \in Occurring : Chosen(c, p) # None
    /\ \A p \in Paths : c.decided[p] # None => p \in Occurring

Selection(c) ==
    [main |-> [p \in Paths |-> IF p \in Occurring THEN tree[Chosen(c, p)][p] ELSE None],
     kept |-> {k \in Occurring \X Versions :
                   /\ Preserves(c, k[1])
                   /\ k[2] \in VersionsOf(k[1]) \ {tree[Chosen(c, k[1])][k[1]]}}]

\* handleStartConflictResolution and CreateConflictResolution.
StartConflictResolution(c) ==
    /\ conf = "awaiting_decision" /\ choice = NoChoice
    /\ \A n \in sources : ev[n].st = "ready"
    /\ marked \subseteq sources
    /\ Cardinality(sources) >= 2
    /\ ValidChoices(c)
    /\ c.both \subseteq {p \in Paths : c.decided[p] # None}
    /\ choice' = c
    /\ conf' = "resolving"
    /\ wf' = [state |-> "scheduled", gen |-> gen, tries |-> 0]
    /\ tr' = [n \in Nodes |-> IF n \in sources \ {c.base}
                              THEN [st |-> "prepared", cap |-> 1] ELSE tr[n]]
    /\ input' = {c.base}
    /\ UNCHANGED <<tree, marked, sources, ev, lease, xfer, plan, out, edited, cmd, at, online, gen, mishaps, restarts>>

------------------------------------------------------------------------------
(* The workflow row. *)

Pending(t) == {n \in sources : t[n].st \in {"prepared", "revoked"}}

\* The nodes the workflow still works with.
Needed == {choice.base} \cup Pending(tr)

\* What MarkConflictResolutionTransferComplete asks of the row; a transfer that
\* is marked already is not looked at further.
Markable(n, c) ==
    /\ tr[n].cap = c
    /\ tr[n].st = "consumed" \/ (tr[n].st = "prepared" /\ wf.gen = gen /\ wf.state \in Open)

\* RotateConflictResolutionTransfer.
Rotatable    == wf.gen = gen /\ wf.state \in Open
Rotated(n)   == [tr EXCEPT ![n] = [st |-> "prepared", cap |-> @.cap + 1]]

\* MarkConflictResolutionPublishing.
Publishable ==
    \/ wf.state = "publishing"
    \/ /\ wf.state = "scheduled" /\ wf.gen = gen
       /\ \A n \in sources \ {choice.base} : tr[n].st = "consumed"

\* CompleteConflictResolution.
Completable ==
    /\ wf.state = "publishing" /\ wf.gen = gen /\ conf = "resolving"
    /\ Cardinality({n \in sources : ev[n].st = "ready"}) >= 2

\* FailConflictResolution.
FailConflictResolution ==
    /\ wf.state \in Open
    /\ wf' = [wf EXCEPT !.state = "failed"]
    /\ conf' = "awaiting_decision"
    /\ tr' = [n \in Nodes |-> IF tr[n].st = "prepared" THEN [tr[n] EXCEPT !.st = "revoked"] ELSE tr[n]]

\* AdoptStaleConflictResolutions.
AdoptStaleConflictResolution ==
    /\ wf.state \in Open /\ wf.gen < gen
    /\ wf' = [wf EXCEPT !.state = "scheduled", !.gen = gen]
    /\ lease' = 0
    /\ UNCHANGED <<facts, tr, base, cmd, at, online, gen, mishaps, restarts>>

\* RestartConflictResolution, asked for by the user or, after a change of
\* generation, by resumeConflictResolutions: the same operation again.
RestartConflictResolution ==
    /\ wf.state = "failed" /\ conf = "awaiting_decision"
    /\ restarts # MaxRestarts
    /\ restarts' = IF MaxRestarts = -1 THEN 0 ELSE restarts + 1
    /\ wf' = [state |-> "scheduled", gen |-> gen, tries |-> 0]
    /\ conf' = "resolving"
    /\ at' = [w \in Workers |-> IF at[w].pc = "idle" THEN at[w] ELSE [at[w] EXCEPT !.late = TRUE]]
    /\ UNCHANGED <<tree, marked, sources, ev, choice, lease, tr, base, cmd, online, gen, mishaps>>

------------------------------------------------------------------------------
(* The worker: executeConflictResolution. *)

\* EnqueueAgentCommand: the first command of an operation identity stays the
\* only one, whatever became of it.
Enqueued(o) == IF cmd[o].st = "none" THEN [cmd EXCEPT ![o] = [st |-> "queued", gen |-> gen]]
               ELSE cmd

Become(w, step)  == at' = [at EXCEPT ![w].pc = step]
Release(w)       == lease' = IF lease = at[w].gen THEN 0 ELSE lease
Return(w)        == at' = [at EXCEPT ![w] = Idle]
Succeeds(o)      == cmd[o].st \in {"ok", "again"} /\ UNCHANGED mishaps
\* waitAgentCommand ends without success: a final result, or too long a wait.
GivesUp(o) ==
    \/ cmd[o].st = "failed" /\ UNCHANGED mishaps
    \/ cmd[o].st = "queued" /\ Mishap

\* Mutant: the retries are not counted.
RetryForEver(w) ==
    IF wf.state \in {"scheduled", "publishing"}
    THEN /\ wf' = [wf EXCEPT !.state = "retry_wait"]
         /\ lease' = 0
         /\ Return(w)
    ELSE Return(w) /\ Release(w) /\ UNCHANGED wf

\* ScheduleSnapshotRetry, then perhaps FailConflictResolution; a workflow that
\* is closed or already waiting is left alone.
RetryConflictResolution(w) ==
    IF wf.state \in {"scheduled", "publishing"}
    THEN /\ wf' = [wf EXCEPT !.state = "retry_wait", !.tries = @ + 1]
         /\ lease' = 0
         /\ IF at[w].late \/ wf.tries + 1 >= MaxAttempts THEN Become(w, "fail") ELSE Return(w)
    ELSE Return(w) /\ Release(w) /\ UNCHANGED wf

\* snapshotNodeReady: a node that drains is not ready, though it answers.
Ready == online \ Drains

\* ClaimConflictResolution, ResumeSnapshotRetry and the loaded execution; with
\* the base or a source that is still needed not ready, the workflow is deferred,
\* which costs no attempt (deferConflictResolution).
ClaimConflictResolution(w) ==
    LET resumed == IF wf.state = "retry_wait" THEN "scheduled" ELSE wf.state
    IN  /\ {v \in Workers : at[v].pc = "idle" /\ v <= w} = {w}
        /\ wf.state \in Open /\ wf.gen = gen /\ lease = 0
        /\ wf' = [wf EXCEPT !.state = resumed]
        /\ IF Needed \subseteq Ready
           THEN /\ lease' = gen
                /\ at' = [at EXCEPT ![w] = [Idle EXCEPT !.pc = "move", !.gen = gen, !.tr = tr,
                                            !.todo = Pending(tr), !.loaded = resumed]]
           ELSE UNCHANGED <<lease, at>>
        /\ UNCHANGED <<facts, tr, base, cmd, online, gen, mishaps, restarts>>

\* transferConflictResolutionSource: a capability that is not prepared any more
\* is rotated, then the base is told to expect the evidence.
TransferConflictResolutionSource(w, n) ==
    LET fresh == at[w].tr[n].st = "prepared"
        cap   == IF fresh THEN at[w].tr[n].cap ELSE tr[n].cap + 1
    IN  /\ at[w].pc = "move" /\ n \in at[w].todo
        /\ cap <= MaxCap
        /\ IF fresh \/ Rotatable
           THEN /\ at' = [at EXCEPT ![w].pc = "prepare", ![w].src = n, ![w].cap = cap]
                /\ cmd' = Enqueued(<<"prepare", n, cap>>)
                /\ tr' = IF fresh THEN tr ELSE Rotated(n)
                /\ UNCHANGED <<wf, lease>>
           ELSE RetryConflictResolution(w) /\ UNCHANGED <<tr, cmd>>
        /\ UNCHANGED <<facts, base, online, gen, mishaps, restarts>>

\* After prepare_snapshot_receive: the transfer is started, or the base is asked
\* whether the evidence has arrived before.
EvidencePrepared(w) ==
    LET o == <<"prepare", at[w].src, at[w].cap>>
    IN  /\ at[w].pc = "prepare"
        /\ \/ /\ Succeeds(o)
              /\ cmd' = Enqueued(<<"start", at[w].src, at[w].cap>>)
              /\ Become(w, "start")
           \/ /\ GivesUp(o)
              /\ cmd' = Enqueued(<<"receipt", at[w].src, at[w].cap>>)
              /\ Become(w, "recover")
        /\ UNCHANGED <<facts, flow, base, online, gen, restarts>>

\* MarkConflictResolutionTransferComplete, then the next source.
MarkTransferComplete(w) ==
    /\ tr' = [tr EXCEPT ![at[w].src].st = "consumed"]
    /\ at' = [at EXCEPT ![w].pc = "move", ![w].todo = @ \ {at[w].src}]
    /\ UNCHANGED <<wf, lease>>

\* After start_conflict_evidence_transfer.
EvidenceStarted(w) ==
    LET o == <<"start", at[w].src, at[w].cap>>
    IN  /\ at[w].pc = "start"
        /\ \/ /\ Succeeds(o) /\ UNCHANGED cmd
              /\ IF Markable(at[w].src, at[w].cap) THEN MarkTransferComplete(w)
                 ELSE RetryConflictResolution(w) /\ UNCHANGED tr
           \/ /\ GivesUp(o)
              /\ cmd' = Enqueued(<<"receipt", at[w].src, at[w].cap>>)
              /\ Become(w, "receipt")
              /\ UNCHANGED flow
        /\ UNCHANGED <<facts, base, online, gen, restarts>>

\* recoverConflictTransferReceipt; after a failed start the capability is
\* rotated before the retry, after a failed prepare it is not.
RecoverConflictTransferReceipt(w) ==
    LET o == <<"receipt", at[w].src, at[w].cap>>
        n == at[w].src
    IN  /\ at[w].pc \in {"recover", "receipt"}
        /\ \/ Succeeds(o) /\ Markable(n, at[w].cap) /\ MarkTransferComplete(w)
           \/ /\ (Succeeds(o) /\ ~Markable(n, at[w].cap)) \/ GivesUp(o)
              /\ tr' = IF at[w].pc = "receipt" /\ Rotatable /\ tr[n].cap < MaxCap
                       THEN Rotated(n) ELSE tr
              /\ RetryConflictResolution(w)
        /\ UNCHANGED <<facts, base, cmd, online, gen, restarts>>

\* The fixed identities: prepare_conflict_resolution ...
AllTransferred(w) ==
    /\ at[w].pc = "move" /\ at[w].todo = {}
    /\ cmd' = Enqueued(OpPlan)
    /\ Become(w, "plan")
    /\ UNCHANGED <<facts, flow, base, online, gen, mishaps, restarts>>

\* ... apply_conflict_resolution_decisions ...
ResolutionPrepared(w) ==
    /\ at[w].pc = "plan"
    /\ \/ /\ Succeeds(OpPlan)
          /\ cmd' = Enqueued(OpDecide) /\ Become(w, "decide")
          /\ UNCHANGED <<wf, lease>>
       \/ GivesUp(OpPlan) /\ RetryConflictResolution(w) /\ UNCHANGED cmd
    /\ UNCHANGED <<facts, tr, base, online, gen, restarts>>

\* ... and publish_conflict_resolution, once the workflow is publishing.
DecisionsApplied(w) ==
    /\ at[w].pc = "decide"
    /\ \/ /\ Succeeds(OpDecide)
          /\ IF at[w].loaded = "publishing" \/ Publishable
             THEN /\ wf' = IF at[w].loaded = "publishing" THEN wf
                           ELSE [wf EXCEPT !.state = "publishing"]
                  /\ cmd' = Enqueued(OpPublish) /\ Become(w, "publish")
                  /\ UNCHANGED lease
             ELSE Return(w) /\ Release(w) /\ UNCHANGED <<wf, cmd>>
       \/ GivesUp(OpDecide) /\ RetryConflictResolution(w) /\ UNCHANGED cmd
    /\ UNCHANGED <<facts, tr, base, online, gen, restarts>>

\* CompleteConflictResolution: the base becomes the home, every other copy is
\* stale, the user is active again.
ResolutionPublished(w) ==
    /\ at[w].pc = "publish"
    /\ \/ /\ Succeeds(OpPublish)
          /\ IF Completable
             THEN /\ wf' = [wf EXCEPT !.state = "succeeded"]
                  /\ conf' = "resolved" /\ marked' = {} /\ lease' = 0
             ELSE Release(w) /\ UNCHANGED <<wf, conf, marked>>
          /\ Return(w)
       \/ GivesUp(OpPublish) /\ RetryConflictResolution(w) /\ UNCHANGED <<conf, marked>>
    /\ UNCHANGED <<tree, sources, ev, choice, tr, base, cmd, online, gen, restarts>>

RetriesExhausted(w) ==
    /\ at[w].pc = "fail"
    /\ IF wf.state \in Open THEN FailConflictResolution ELSE UNCHANGED <<wf, conf, tr>>
    /\ Return(w) /\ Release(w)
    /\ UNCHANGED <<tree, marked, sources, ev, choice, base, cmd, online, gen, mishaps, restarts>>

\* The lease of a worker that is gone runs out.
LeaseLapses ==
    /\ lease # 0 /\ \A w \in Workers : at[w].gen # lease
    /\ lease' = 0
    /\ UNCHANGED <<facts, wf, tr, base, cmd, at, online, gen, mishaps, restarts>>

\* Another process becomes leader; the workers of the old one are gone with it
\* or go on.
Promote ==
    /\ Mishap
    /\ gen' = gen + 1
    /\ \/ at' = [w \in Workers |-> Idle]
       \/ UNCHANGED at
    /\ UNCHANGED <<facts, flow, base, cmd, online, restarts>>

------------------------------------------------------------------------------
(* The Agents. *)

\* LeaseAgentCommand hands out commands of the active generation only.
Delivered(o, n) == cmd[o].st = "queued" /\ cmd[o].gen = gen /\ n \in online
Answer(o, st)   == cmd' = [cmd EXCEPT ![o].st = st]

\* A command that nobody fetches expires.
ExpireCommand(o) ==
    LET n == IF o[1] = "start" THEN o[2] ELSE choice.base
    IN  /\ cmd[o].st = "queued" /\ ~Delivered(o, n)
        /\ Answer(o, "failed")
        /\ UNCHANGED <<facts, flow, base, at, online, gen, mishaps, restarts>>

\* prepareTransferLocked for a conflict_input.
PrepareTransfer(n, c) ==
    LET o == <<"prepare", n, c>>
    IN  /\ Delivered(o, choice.base)
        /\ IF \/ xfer[n].st = "none"
              \/ xfer[n].st = "prepared"
              \/ xfer[n].st = "failed" /\ xfer[n].cap # c
           THEN xfer' = [xfer EXCEPT ![n] = [st |-> "prepared", cap |-> c]] /\ Answer(o, "ok")
           ELSE Answer(o, "failed") /\ UNCHANGED xfer
        /\ UNCHANGED <<facts, flow, input, plan, out, edited, at, online, gen, mishaps, restarts>>

\* RunConflictEvidenceTransfer on the source and ReceiveSnapshot on the base:
\* the evidence arrives, perhaps without an answer, or the receive fails.
RunConflictEvidenceTransfer(n, c) ==
    LET o    == <<"start", n, c>>
        open == xfer[n] = [st |-> "prepared", cap |-> c] /\ choice.base \in online
    IN  /\ Delivered(o, n)
        /\ \/ /\ open
              /\ xfer' = [xfer EXCEPT ![n].st = "published"]
              /\ input' = input \cup {n}
              /\ \/ Answer(o, "ok") /\ UNCHANGED mishaps
                 \/ Answer(o, "failed") /\ Mishap
           \/ /\ open /\ Mishap
              /\ xfer' = [xfer EXCEPT ![n].st = "failed"]
              /\ Answer(o, "failed") /\ UNCHANGED input
           \/ ~open /\ Answer(o, "failed") /\ UNCHANGED <<xfer, input, mishaps>>
        /\ UNCHANGED <<facts, flow, plan, out, edited, at, online, gen, restarts>>

\* get_snapshot_receipt.
SnapshotReceipt(n, c) ==
    LET o == <<"receipt", n, c>>
    IN  /\ Delivered(o, choice.base)
        /\ Answer(o, IF xfer[n].st = "published" THEN "ok" ELSE "failed")
        /\ UNCHANGED <<facts, flow, base, at, online, gen, mishaps, restarts>>

\* prepareConflictResolution verifies the evidence of every source.
PrepareConflictResolution ==
    /\ Delivered(OpPlan, choice.base)
    /\ IF sources \subseteq input
       THEN plan' = plan \cup {"plan"} /\ Answer(OpPlan, "ok")
       ELSE Answer(OpPlan, "failed") /\ UNCHANGED plan
    /\ UNCHANGED <<facts, flow, xfer, input, out, edited, at, online, gen, mishaps, restarts>>

ApplyConflictResolutionDecisions ==
    /\ Delivered(OpDecide, choice.base)
    /\ IF "plan" \in plan
       THEN plan' = plan \cup {"decisions"} /\ Answer(OpDecide, "ok")
       ELSE Answer(OpDecide, "failed") /\ UNCHANGED plan
    /\ UNCHANGED <<facts, flow, xfer, input, out, edited, at, online, gen, mishaps, restarts>>

\* conflictResolutionPublishAllowedLocked.
PublishAllowed == choice.base \notin Drains

\* The command is executed: for the first time, after a stop of the Agent, or
\* once more for a delivery that was leased before the result was recorded and
\* runs after the Agent's result cache has dropped it.
Executing == Delivered(OpPublish, choice.base) \/ cmd[OpPublish].st = "again"

\* The merge is built and exchanged with the user's directory, and then the
\* receipt is written; the Agent may stop in between.
PublishMerge ==
    /\ out' = Selection(choice) /\ edited' = FALSE
    /\ \/ plan' = plan \cup {"receipt"} /\ Answer(OpPublish, "ok") /\ UNCHANGED mishaps
       \/ plan' = plan \cup {"receipt"} /\ Answer(OpPublish, "again") /\ Mishap
       \/ UNCHANGED <<cmd, plan>> /\ Mishap

Publishes == {"plan", "decisions"} \subseteq plan /\ Selectable(choice) /\ PublishAllowed

\* Mutant: a receipt on disk is not looked for.
PublishAgain ==
    /\ Executing
    /\ IF Publishes THEN PublishMerge
       ELSE Answer(OpPublish, "failed") /\ UNCHANGED <<plan, out, edited, mishaps>>
    /\ UNCHANGED <<facts, flow, xfer, input, at, online, gen, restarts>>

\* publishConflictResolution: a receipt is replayed.
PublishConflictResolution ==
    /\ Executing
    /\ IF "receipt" \in plan
       THEN Answer(OpPublish, "ok") /\ UNCHANGED <<plan, out, edited, mishaps>>
       ELSE IF Publishes THEN PublishMerge
       ELSE Answer(OpPublish, "failed") /\ UNCHANGED <<plan, out, edited, mishaps>>
    /\ UNCHANGED <<facts, flow, xfer, input, at, online, gen, restarts>>

\* The user writes on the new home.
Write ==
    /\ conf = "resolved" /\ edited' = TRUE
    /\ UNCHANGED <<facts, flow, xfer, input, plan, out, cmd, at, online, gen, mishaps, restarts>>

NodeDown(n) ==
    /\ n \in online /\ Mishap
    /\ online' = online \ {n}
    /\ UNCHANGED <<facts, flow, base, cmd, at, gen, restarts>>

NodeUp(n) ==
    /\ n \notin online
    /\ online' = online \cup {n}
    /\ UNCHANGED <<facts, flow, base, cmd, at, gen, mishaps, restarts>>

------------------------------------------------------------------------------
EvidenceSteps ==
    \/ OpenConflict \/ CaptureSources
    \/ \E n \in Nodes : ClaimConflictEvidenceTask(n) \/ RetryConflictEvidenceTask(n)
                            \/ CompleteConflictEvidence(n)
AgentSteps ==
    \/ \E n \in Nodes, c \in 1..MaxCap :
          PrepareTransfer(n, c) \/ RunConflictEvidenceTransfer(n, c) \/ SnapshotReceipt(n, c)
    \/ PrepareConflictResolution \/ ApplyConflictResolutionDecisions
    \/ PublishConflictResolution
    \/ \E o \in Ops : ExpireCommand(o)
WorkerSteps(w) ==
    \/ \E n \in Nodes : TransferConflictResolutionSource(w, n)
    \/ EvidencePrepared(w) \/ EvidenceStarted(w) \/ RecoverConflictTransferReceipt(w)
    \/ AllTransferred(w) \/ ResolutionPrepared(w) \/ DecisionsApplied(w)
    \/ ResolutionPublished(w) \/ RetriesExhausted(w)
ReconcilerSteps ==
    \/ AdoptStaleConflictResolution \/ LeaseLapses
    \/ \E w \in Workers : ClaimConflictResolution(w)

Next ==
    \/ EvidenceSteps \/ AgentSteps \/ ReconcilerSteps
    \/ \E w \in Workers : WorkerSteps(w)
    \/ \E c \in Choices : StartConflictResolution(c)
    \/ RestartConflictResolution \/ Promote \/ Write
    \/ \E n \in Nodes : LateReport(n) \/ NodeDown(n) \/ NodeUp(n)

Spec == Init /\ [][Next]_vars

\* The reconcilers and the command loops of the Agents go on, nodes come back,
\* and a user who has decided asks again for a resolution that failed.
FairSpec ==
    /\ Spec
    /\ WF_vars(EvidenceSteps) /\ WF_vars(AgentSteps) /\ WF_vars(ReconcilerSteps)
    /\ \A w \in Workers : WF_vars(WorkerSteps(w))
    /\ WF_vars(\E n \in Nodes : NodeUp(n))
    /\ WF_vars(RestartConflictResolution)

------------------------------------------------------------------------------
(* Properties. *)

\* What validateConflictResolutionChoices accepts on the Controller,
\* buildConflictResolutionSelection can build on the Agent: an accepted
\* operation is never refused for its decisions.
ChoicesAgree == choice # NoChoice => Selectable(choice)

\* A resolved conflict has lost nothing the user asked to keep: every path of
\* every source is in the published tree, with the version decided on, and
\* where originals are preserved each version some source has is there
\* (buildConflictResolutionSelection, publishConflictResolution,
\* CompleteConflictResolution).
MergeKeepsOriginals ==
    conf = "resolved" =>
        /\ out # None
        /\ \A n \in sources, p \in Paths : tree[n][p] # None =>
              /\ out.main[p] # None
              /\ choice.decided[p] # None => out.main[p] = tree[choice.decided[p]][p]
              /\ (p \in choice.both \/ (choice.decided[p] = None
                                        /\ choice.default = "preserve_all_originals")) =>
                    tree[n][p] = out.main[p] \/ <<p, tree[n][p]>> \in out.kept

\* A transfer the workflow counts as done has delivered its evidence to the
\* base node, whatever was lost, rotated or marked by an older worker
\* (MarkConflictResolutionTransferComplete, recoverConflictTransferReceipt).
ConsumedHasArrived == \A n \in Nodes : tr[n].st = "consumed" => n \in input

\* Evidence that counts as moved is at the base, and nothing of it is missing from
\* the tree that is published in the end.
NothingLost == ConsumedHasArrived /\ MergeKeepsOriginals

\* No publication happens over what the user wrote after the resolution: a
\* repeated or late publish_conflict_resolution replays the receipt.
LiveHomeKept == [][edited => edited']_vars

\* A conflict leaves inspection and comes before the user, whatever fails while
\* the evidence is captured, and every run of the workflow ends: resolved, or
\* failed and back with the user (ClaimConflictEvidenceTask,
\* retryConflictResolution, resumeConflictResolutions).  The one thing that holds
\* it up for ever is a node it needs that drains (snapshotNodeReady,
\* DeferConflictResolution).
ResolutionEnds ==
    /\ conf \in {"detected", "inspecting"} ~> conf = "awaiting_decision"
    /\ []<>(wf.state \notin Open) \/ <>[](wf.state \in Open /\ ~(Needed \subseteq Nodes \ Drains))

\* Does not hold: every run of the workflow ends.  A node that reported the user's
\* independent writes drains until the conflict is resolved, and the workflow
\* that would resolve it waits for the node.
ResolutionEndsAnyway == wf.state \in Open ~> wf.state \in {"succeeded", "failed"}

\* Does not hold: an approved resolution is carried out in the end, since the
\* Agent-side operations are idempotent and can be replayed
\* (AdoptStaleConflictResolutions).
ApprovedIsResolved == conf = "resolving" ~> conf = "resolved"

\* Does not hold: what every node reported is among the sources of a resolution
\* that completes (recordIndependentSyncFacts leaves it to the evidence).
ReportsAreSources == [][conf' = "resolved" /\ conf # "resolved" => marked \subseteq sources]_vars
=============================================================================
