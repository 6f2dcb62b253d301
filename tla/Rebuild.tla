----------------------------- MODULE Rebuild ------------------------------
(***************************************************************************)
(* How nodes follow the Controller into a new generation: credential       *)
(* rotation (store/agent_credentials.go, agent/heartbeat.go), the durable  *)
(* rebuild that waits for every node (store/controller_rebuilds.go), and   *)
(* the process-local gate that admits new operations                       *)
(* (controller/control_plane.go, controller/agent.go).                     *)
(*                                                                         *)
(* A heartbeat or a confirmation is one request of an Agent's loop; the    *)
(* middleware authenticates it, each of the handler's transactions is a    *)
(* step, and the answer arrives or is lost.  A promotion is committed by   *)
(* the next Controller process, whose predecessor may still be running its *)
(* handlers.  Credentials are known by their versions.  A control mode is  *)
(* managed or not; module ControlMode has the rest of it.                  *)
(***************************************************************************)
EXTENDS Naturals, FiniteSets

CONSTANTS Nodes,
          MaxGen, MaxVersion,
          MaxLosses,       \* answers that get lost
          MaxExpiries,     \* pending credentials that reach expires_at
          MaxModeChanges, MaxOutages

ASSUME RebuildAssumption ==
    /\ MaxGen \in Nat \ {0} /\ MaxVersion \in Nat /\ MaxLosses \in Nat
    /\ MaxExpiries \in Nat /\ MaxModeChanges \in Nat /\ MaxOutages \in Nat

VARIABLES epoch,      \* the active controller generation
          cred,       \* the unrevoked agent_credentials row of each node
          rotation,   \* its pending agent_credential_rotations row, if any
          lastVer,    \* the largest version of either table
          nodeGen,    \* nodes.controller_generation
          online,     \* nodes.connectivity_state
          dbManaged,  \* both mode columns of nodes are managed
          item,       \* controller_rebuild_nodes of the active generation
          rebuild,    \* state of its controller_rebuild_operations row
          blocked,    \* newOperationsBlocked in the serving process
          req,        \* the request each Agent has outstanding
          current,    \* the credential the Agent uses
          pending,    \* the successor it has stored, if any
          known,      \* the HighestGeneration it has recorded and reports
          managed,    \* the Agent's own mode is managed
          losses, expiries, modeChanges, outages

database == <<epoch, cred, rotation, lastVer, nodeGen, online, dbManaged, item, rebuild>>
agents == <<current, pending, known, managed>>
bounds == <<losses, expiries, modeChanges, outages>>
vars == <<database, blocked, req, agents, bounds>>

Generations == 1..MaxGen
Credential == [ver : Nat, gen : Nat]
Pending == [ver : Nat, gen : Nat, live : BOOLEAN]
ItemStates == {"none", "awaiting_heartbeat", "heartbeat_verified", "rotation_pending",
               "credential_activated", "draining", "reconciled", "deferred"}
Item == [state : ItemStates, previous : Nat, heard : BOOLEAN]
OpenRebuild == {"reconciling", "ready_with_deferred"}

None == [at |-> "none"]
Heartbeat == [at : {"authed", "reconciled", "updated", "refreshing", "offering"},
              auth : Nat, known : Nat, managed : BOOLEAN, gen : Nat, proc : Nat,
              ready : BOOLEAN]
Answer == [at : {"answer"}, auth : Nat, gen : Nat, offer : SUBSET Pending]
Confirm == [at : {"confirming", "activated", "settling", "confirmed", "refused"},
            ver : Nat, gen : Nat, proc : Nat, ready : BOOLEAN]

TypeOK ==
    /\ epoch \in Generations
    /\ cred \in [Nodes -> Credential]
    /\ rotation \in [Nodes -> SUBSET Pending]
    /\ lastVer \in [Nodes -> Nat]
    /\ nodeGen \in [Nodes -> Nat]
    /\ online \in [Nodes -> BOOLEAN] /\ dbManaged \in [Nodes -> BOOLEAN]
    /\ item \in [Nodes -> Item]
    /\ rebuild \in {"none", "succeeded"} \cup OpenRebuild
    /\ blocked \in BOOLEAN
    /\ req \in [Nodes -> {None} \cup Heartbeat \cup Answer \cup Confirm]
    /\ current \in [Nodes -> Credential]
    /\ pending \in [Nodes -> SUBSET Pending]
    /\ known \in [Nodes -> Nat]
    /\ managed \in [Nodes -> BOOLEAN]
    /\ losses \in Nat /\ expiries \in Nat /\ modeChanges \in Nat /\ outages \in Nat

\* Nodes enrolled at generation 1 and in service.
Init ==
    /\ epoch = 1
    /\ cred = [n \in Nodes |-> [ver |-> 1, gen |-> 1]]
    /\ rotation = [n \in Nodes |-> {}]
    /\ lastVer = [n \in Nodes |-> 1]
    /\ nodeGen = [n \in Nodes |-> 1]
    /\ online = [n \in Nodes |-> TRUE] /\ dbManaged = [n \in Nodes |-> TRUE]
    /\ item = [n \in Nodes |-> [state |-> "none", previous |-> 0, heard |-> FALSE]]
    /\ rebuild = "none"
    /\ blocked = FALSE
    /\ req = [n \in Nodes |-> None]
    /\ current = cred
    /\ pending = [n \in Nodes |-> {}]
    /\ known = [n \in Nodes |-> 1]
    /\ managed = [n \in Nodes |-> TRUE]
    /\ losses = 0 /\ expiries = 0 /\ modeChanges = 0 /\ outages = 0

---------------------------------------------------------------------------
(* The rebuild.                                                            *)

Reached(items, states) == \A n \in Nodes : items[n].state \in states

StateOf(items) ==
    IF Reached(items, {"reconciled"}) THEN "succeeded"
    ELSE IF Reached(items, {"reconciled", "deferred"}) THEN "ready_with_deferred"
    ELSE "reconciling"

\* A node that was heard of but is not online again does not hold up the rest.
Deferred(items, up) ==
    [n \in Nodes |->
        IF items[n].state \notin {"deferred", "reconciled"} /\ items[n].heard /\ ~up[n]
        THEN [items[n] EXCEPT !.state = "deferred"] ELSE items[n]]

\* finishControllerRebuildIfReadyLocked, and the guard that only an open
\* rebuild is touched.
UpdateItem(n, new) ==
    IF rebuild \in OpenRebuild
    THEN LET items == Deferred([item EXCEPT ![n] = new], online)
         IN item' = items /\ rebuild' = StateOf(items)
    ELSE UNCHANGED <<item, rebuild>>

MarkHeartbeat(n, auth, isManaged) ==
    UpdateItem(n, [item[n] EXCEPT !.heard = TRUE,
                   !.state = IF @ = "reconciled" \/ (auth = epoch /\ isManaged) THEN "reconciled"
                             ELSE IF auth = epoch THEN "draining"
                             ELSE IF @ \in {"deferred", "rotation_pending"} THEN @
                             ELSE "heartbeat_verified"])

\* No finish here: the rebuild's own state is left as it is.
MarkRotationPending(n) ==
    /\ item' = IF rebuild \notin OpenRebuild
                  \/ item[n].state \in {"reconciled", "draining", "credential_activated", "deferred"}
               THEN item ELSE [item EXCEPT ![n].state = "rotation_pending"]
    /\ UNCHANGED rebuild

MarkCredentialActivated(n) ==
    UpdateItem(n, [item[n] EXCEPT
        !.state = IF online[n] THEN "credential_activated" ELSE "deferred"])

AllowsOldCredential(n, auth) ==
    /\ rebuild \in OpenRebuild
    /\ item[n].state # "reconciled" /\ item[n].previous = auth
    /\ cred[n].gen = auth

\* IsControlPlaneReady.
Ready ==
    /\ rebuild \in {"none", "succeeded", "ready_with_deferred"}
    /\ \A n \in Nodes : online[n] => dbManaged[n] /\ nodeGen[n] = epoch

\* PromoteControllerEpoch, and the gate of the process it makes the leader.
PromoteControllerEpoch ==
    /\ epoch < MaxGen
    /\ epoch' = epoch + 1
    /\ rotation' = [n \in Nodes |-> {p \in rotation[n] : p.gen # epoch}]
    /\ item' = [n \in Nodes |->
           [state |-> IF online[n] THEN "awaiting_heartbeat" ELSE "deferred",
            previous |-> cred[n].gen, heard |-> FALSE]]
    /\ rebuild' = StateOf(item')
    /\ nodeGen' = [n \in Nodes |-> 0]
    /\ online' = [n \in Nodes |-> FALSE]
    /\ blocked' = ~Ready'
    /\ UNCHANGED <<cred, lastVer, dbManaged, req, agents, bounds>>

\* nodeWatchdog: node n has been silent for too long.
MarkStaleNodesOffline(n) ==
    /\ outages < MaxOutages /\ outages' = outages + 1
    /\ online' = [online EXCEPT ![n] = FALSE]
    /\ IF rebuild \in OpenRebuild /\ item[n].state \notin {"deferred", "reconciled"}
       THEN LET items == Deferred([item EXCEPT ![n].state = "deferred"], online')
            IN item' = items /\ rebuild' = StateOf(items)
       ELSE UNCHANGED <<item, rebuild>>
    /\ UNCHANGED <<epoch, cred, rotation, lastVer, nodeGen, dbManaged, blocked, req,
                   agents, losses, expiries, modeChanges>>

---------------------------------------------------------------------------
(* The Agent's side between requests.                                      *)

\* recordControllerFailure moved the Agent out of managed mode.
LeaveManaged(n) ==
    /\ req[n] = None /\ managed[n]
    /\ modeChanges < MaxModeChanges /\ modeChanges' = modeChanges + 1
    /\ managed' = [managed EXCEPT ![n] = FALSE]
    /\ UNCHANGED <<database, blocked, req, current, pending, known, losses, expiries, outages>>

\* The expires_at of version v passes, which both sides keep and an offer
\* carries; older versions have lapsed before.  The bound does not count the
\* successors that a promotion has revoked.
Lapsed(ps, v) == {IF p.ver <= v THEN [p EXCEPT !.live = FALSE] ELSE p : p \in ps}

Expire(n) ==
    /\ \E p \in rotation[n] \cup pending[n] :
          /\ p.live
          /\ \A q \in rotation[n] \cup pending[n] : q.live => p.ver <= q.ver
          /\ p.gen = epoch => expiries < MaxExpiries
          /\ expiries' = IF p.gen = epoch THEN expiries + 1 ELSE expiries
          /\ rotation' = [rotation EXCEPT ![n] = Lapsed(@, p.ver)]
          /\ pending' = [pending EXCEPT ![n] = Lapsed(@, p.ver)]
          /\ req' = IF req[n].at = "answer" THEN [req EXCEPT ![n].offer = Lapsed(@, p.ver)]
                    ELSE req
    /\ UNCHANGED <<epoch, cred, lastVer, nodeGen, online, dbManaged, item, rebuild, blocked,
                   current, known, managed, losses, modeChanges, outages>>

\* Mutant: only a successor of the newest generation is cleared.
ClearNewest(n) ==
    /\ req[n] = None
    /\ \E p \in pending[n] : ~p.live /\ p.gen = epoch
    /\ pending' = [pending EXCEPT ![n] = {}]
    /\ UNCHANGED <<database, blocked, req, current, known, managed, bounds>>

ClearExpired(n) ==
    /\ req[n] = None
    /\ \E p \in pending[n] : ~p.live
    /\ pending' = [pending EXCEPT ![n] = {}]
    /\ UNCHANGED <<database, blocked, req, current, known, managed, bounds>>

LoseAnswer(n) ==
    /\ req[n].at \in {"answer", "confirmed", "refused"}
    /\ losses < MaxLosses /\ losses' = losses + 1
    /\ req' = [req EXCEPT ![n] = None]
    /\ UNCHANGED <<database, blocked, agents, expiries, modeChanges, outages>>

---------------------------------------------------------------------------
(* A heartbeat.                                                            *)

SetReq(n, r) == req' = [req EXCEPT ![n] = r]

\* Only the process a request runs in sees what the request does to its gate.
SetGate(proc, b) == blocked' = IF proc = epoch THEN b ELSE blocked

\* agentAuthMiddleware, then the first lines of the handler: any unrevoked
\* credential may send a heartbeat, and the gate closes before anything is
\* written.
BeginHeartbeat(n) ==
    /\ req[n] = None
    /\ current[n].ver = cred[n].ver
    /\ SetReq(n, [at |-> "authed", auth |-> cred[n].gen, known |-> known[n],
                  managed |-> managed[n], gen |-> epoch, proc |-> epoch, ready |-> FALSE])
    /\ blocked' = (blocked \/ cred[n].gen # epoch \/ ~managed[n])
    /\ UNCHANGED <<database, agents, bounds>>

\* ReconcileNodeControlModeAuthenticated.  It refuses any other pair of
\* generations, which an Agent with one request at a time never presents: its
\* credential cannot be replaced while its heartbeat is being handled.
ReconcileCurrent(n) ==
    LET r == req[n] IN
    /\ r.at = "authed" /\ r.auth = epoch /\ r.known = epoch
    /\ dbManaged' = [dbManaged EXCEPT ![n] = r.managed]
    /\ nodeGen' = [nodeGen EXCEPT ![n] = epoch]
    /\ MarkHeartbeat(n, r.auth, r.managed)
    /\ SetReq(n, [r EXCEPT !.at = "reconciled", !.gen = epoch])
    /\ UNCHANGED <<epoch, cred, rotation, lastVer, online, blocked, agents, bounds>>

ReconcileRecovery(n) ==
    LET r == req[n] IN
    /\ r.at = "authed" /\ r.auth < epoch /\ r.auth <= r.known /\ r.known <= epoch
    /\ AllowsOldCredential(n, r.auth)
    /\ MarkHeartbeat(n, r.auth, r.managed)
    /\ SetReq(n, [r EXCEPT !.at = "reconciled", !.gen = epoch])
    /\ UNCHANGED <<epoch, cred, rotation, lastVer, nodeGen, online, dbManaged, blocked,
                   agents, bounds>>

\* Mutant: the heartbeat's transaction does not ask who is active now.
UpdatesAnyGeneration(n) == req[n].auth = req[n].gen

\* UpdateNodeHeartbeat's fence.
UpdatesOnline(n) ==
    /\ req[n].auth = req[n].gen
    /\ req[n].auth = epoch /\ nodeGen[n] = epoch

UpdateNodeHeartbeat(n) ==
    /\ req[n].at = "reconciled" /\ UpdatesOnline(n)
    /\ online' = [online EXCEPT ![n] = TRUE]
    /\ SetReq(n, [req[n] EXCEPT !.at = "updated"])
    /\ UNCHANGED <<epoch, cred, rotation, lastVer, nodeGen, dbManaged, item, rebuild, blocked,
                   agents, bounds>>

UpdatesRecovery(n) ==
    /\ req[n].auth # req[n].gen /\ req[n].auth < epoch
    /\ AllowsOldCredential(n, req[n].auth)

UpdateNodeRecoveryHeartbeat(n) ==
    /\ req[n].at = "reconciled" /\ UpdatesRecovery(n)
    /\ online' = [online EXCEPT ![n] = FALSE]
    /\ SetReq(n, [req[n] EXCEPT !.at = "updated"])
    /\ UNCHANGED <<epoch, cred, rotation, lastVer, nodeGen, dbManaged, item, rebuild, blocked,
                   agents, bounds>>

UpdateRefused(n) ==
    /\ req[n].at = "reconciled" /\ ~UpdatesOnline(n) /\ ~UpdatesRecovery(n)
    /\ SetReq(n, None)
    /\ UNCHANGED <<database, blocked, agents, bounds>>

\* The end of the handler keeps the gate closed for such a node; for any other
\* it opens the gate only after asking the database.
CloseGate(n) ==
    LET r == req[n] IN
    /\ r.at = "updated" /\ (r.auth # r.gen \/ ~r.managed)
    /\ SetGate(r.proc, TRUE)
    /\ SetReq(n, [r EXCEPT !.at = "offering"])
    /\ UNCHANGED <<database, agents, bounds>>

\* Mutant: a managed heartbeat need not look at the gate.
LeaveAnyGate(n) ==
    LET r == req[n] IN
    /\ r.at = "updated" /\ r.auth = r.gen /\ r.managed
    /\ SetReq(n, [r EXCEPT !.at = "offering"])
    /\ UNCHANGED <<database, blocked, agents, bounds>>

LeaveGate(n) ==
    LET r == req[n] IN
    /\ r.at = "updated" /\ r.auth = r.gen /\ r.managed /\ ~blocked
    /\ SetReq(n, [r EXCEPT !.at = "offering"])
    /\ UNCHANGED <<database, blocked, agents, bounds>>

\* refreshControlPlaneGate: the question and the setting are two steps.
IsControlPlaneReady(n) ==
    LET r == req[n] IN
    /\ \/ r.at = "updated" /\ r.auth = r.gen /\ r.managed /\ blocked
          /\ SetReq(n, [r EXCEPT !.at = "refreshing", !.ready = Ready])
       \/ r.at = "activated" /\ SetReq(n, [r EXCEPT !.at = "settling", !.ready = Ready])
    /\ UNCHANGED <<database, blocked, agents, bounds>>

SetControlPlaneGate(n) ==
    LET r == req[n] IN
    /\ \/ r.at = "refreshing" /\ SetReq(n, [r EXCEPT !.at = "offering"])
       \/ r.at = "settling" /\ SetReq(n, [r EXCEPT !.at = "confirmed"])
    /\ SetGate(r.proc, ~r.ready)
    /\ UNCHANGED <<database, agents, bounds>>

\* EnsureAgentCredentialRotation.  A credential of the active generation may
\* have reached its maximal age.
Ensure(n, aged) ==
    LET r == req[n]
        live == {p \in rotation[n] : p.live}
        new == [ver |-> lastVer[n] + 1, gen |-> epoch, live |-> TRUE]
        answer(offer) == [at |-> "answer", auth |-> r.auth, gen |-> r.gen, offer |-> offer]
    IN
    /\ r.at = "offering" /\ r.gen = epoch
    /\ \A p \in live : p.gen = epoch
    /\ \/ /\ live # {} /\ ~aged
          /\ rotation' = [rotation EXCEPT ![n] = live]
          /\ SetReq(n, answer(live))
          /\ MarkRotationPending(n) /\ UNCHANGED lastVer
       \/ /\ live = {} /\ cred[n].gen = epoch /\ ~aged
          /\ rotation' = [rotation EXCEPT ![n] = {}]
          /\ SetReq(n, answer({}))
          /\ UNCHANGED <<item, rebuild, lastVer>>
       \/ /\ live = {} /\ (aged <=> cred[n].gen = epoch)
          /\ aged => lastVer[n] < MaxVersion
          /\ rotation' = [rotation EXCEPT ![n] = {new}]
          /\ lastVer' = [lastVer EXCEPT ![n] = @ + 1]
          /\ SetReq(n, answer({new}))
          /\ MarkRotationPending(n)
    /\ UNCHANGED <<epoch, cred, nodeGen, online, dbManaged, blocked, agents, bounds>>

EnsureRefused(n) ==
    LET r == req[n] IN
    /\ r.at = "offering"
    /\ r.gen # epoch \/ \E p \in rotation[n] : p.live /\ p.gen # epoch
    /\ SetReq(n, None)
    /\ UNCHANGED <<database, blocked, agents, bounds>>

\* acceptControllerCredentialRotation and persistPendingControllerCredential.
AcceptsOffer(n, p) ==
    /\ p.ver > current[n].ver /\ p.gen = req[n].gen /\ p.live
    /\ \A q \in pending[n] : q.ver = p.ver

\* The 200 answer: recordControllerSuccess, then the offer.  A node that was
\* not managed is ordered back once its drain is over.
ReceiveAnswer(n) ==
    LET r == req[n] IN
    /\ r.at = "answer"
    /\ SetReq(n, None)
    /\ IF r.gen >= known[n]
       THEN /\ known' = [known EXCEPT ![n] = r.gen]
            /\ \E back \in {managed[n], r.auth = r.gen} :
                  managed' = [managed EXCEPT ![n] = @ \/ back]
            /\ pending' = [pending EXCEPT ![n] =
                  LET new == {p \in r.offer : AcceptsOffer(n, p)}
                  IN IF new = {} THEN @ ELSE new]
       ELSE UNCHANGED <<known, managed, pending>>
    /\ UNCHANGED <<database, blocked, current, bounds>>

---------------------------------------------------------------------------
(* A confirmation.                                                         *)

\* A live successor authenticates this request only, and only while its
\* generation is active; so does the credential it has become.
BeginConfirm(n) ==
    /\ req[n] = None
    /\ \E p \in pending[n] :
          /\ p.live
          /\ \/ p.ver = cred[n].ver /\ cred[n].gen = epoch
             \/ \E q \in rotation[n] : q.ver = p.ver /\ q.live /\ q.gen = epoch
          /\ SetReq(n, [at |-> "confirming", ver |-> p.ver, gen |-> 0, proc |-> epoch,
                        ready |-> FALSE])
    /\ UNCHANGED <<database, blocked, agents, bounds>>

Confirms(n, p) == p.ver = req[n].ver /\ p.live /\ p.gen = epoch

\* ActivateAgentCredentialRotation.
ActivateRotation(n) ==
    LET r == req[n] IN
    /\ r.at = "confirming" /\ r.ver # cred[n].ver
    /\ \E p \in rotation[n] : Confirms(n, p)
    /\ cred' = [cred EXCEPT ![n] = [ver |-> r.ver, gen |-> epoch]]
    /\ rotation' = [rotation EXCEPT ![n] = {}]
    /\ nodeGen' = [nodeGen EXCEPT ![n] = epoch]
    /\ MarkCredentialActivated(n)
    /\ SetReq(n, [r EXCEPT !.at = "activated", !.gen = epoch])
    /\ UNCHANGED <<epoch, lastVer, online, dbManaged, blocked, agents, bounds>>

AlreadyActivated(n) ==
    LET r == req[n] IN
    /\ r.at = "confirming" /\ r.ver = cred[n].ver
    /\ MarkCredentialActivated(n)
    /\ SetReq(n, [r EXCEPT !.at = "activated", !.gen = epoch])
    /\ UNCHANGED <<epoch, cred, rotation, lastVer, nodeGen, online, dbManaged, blocked,
                   agents, bounds>>

ActivateRefused(n) ==
    LET r == req[n] IN
    /\ r.at = "confirming" /\ r.ver # cred[n].ver
    /\ ~\E p \in rotation[n] : Confirms(n, p)
    /\ SetReq(n, [r EXCEPT !.at = "refused"])
    /\ UNCHANGED <<database, blocked, agents, bounds>>

\* Mutant: an expired successor is not adopted, although it was confirmed.
AdoptLive(n) ==
    LET r == req[n] IN
    /\ r.at = "confirmed"
    /\ SetReq(n, None)
    /\ IF \E p \in pending[n] : p.ver = r.ver /\ p.gen = r.gen /\ p.live
       THEN /\ current' = [current EXCEPT ![n] = [ver |-> r.ver, gen |-> r.gen]]
            /\ pending' = [pending EXCEPT ![n] = {}]
       ELSE UNCHANGED <<current, pending>>
    /\ UNCHANGED <<database, blocked, known, managed, bounds>>

\* The end of resumeControllerCredentialRotation.
AdoptCredential(n) ==
    LET r == req[n] IN
    /\ r.at = "confirmed"
    /\ SetReq(n, None)
    /\ IF \E p \in pending[n] : p.ver = r.ver /\ p.gen = r.gen
       THEN /\ current' = [current EXCEPT ![n] = [ver |-> r.ver, gen |-> r.gen]]
            /\ pending' = [pending EXCEPT ![n] = {}]
       ELSE UNCHANGED <<current, pending>>
    /\ UNCHANGED <<database, blocked, known, managed, bounds>>

DropCredential(n) ==
    /\ req[n].at = "refused"
    /\ SetReq(n, None)
    /\ pending' = [pending EXCEPT ![n] = {p \in @ : p.ver # req[n].ver}]
    /\ UNCHANGED <<database, blocked, current, known, managed, bounds>>

---------------------------------------------------------------------------

HeartbeatStep(n) ==
    \/ ReconcileCurrent(n) \/ ReconcileRecovery(n)
    \/ UpdateNodeHeartbeat(n) \/ UpdateNodeRecoveryHeartbeat(n) \/ UpdateRefused(n)
    \/ CloseGate(n) \/ LeaveGate(n)
    \/ Ensure(n, FALSE) \/ EnsureRefused(n) \/ ReceiveAnswer(n)

ConfirmStep(n) ==
    \/ ActivateRotation(n) \/ AlreadyActivated(n) \/ ActivateRefused(n)
    \/ AdoptCredential(n) \/ DropCredential(n)

GateStep(n) == IsControlPlaneReady(n) \/ SetControlPlaneGate(n)

Next ==
    \/ PromoteControllerEpoch
    \/ \E n \in Nodes :
          \/ MarkStaleNodesOffline(n) \/ LeaveManaged(n) \/ Expire(n) \/ ClearExpired(n)
          \/ LoseAnswer(n) \/ BeginHeartbeat(n) \/ BeginConfirm(n)
          \/ HeartbeatStep(n) \/ ConfirmStep(n) \/ GateStep(n) \/ Ensure(n, TRUE)

Spec == Init /\ [][Next]_vars

\* A handler runs to its end, an Agent keeps sending heartbeats and retries a
\* confirmation before each of them, and time passes for a stored successor.
FairSpec ==
    /\ Spec
    /\ \A n \in Nodes :
          /\ WF_vars(HeartbeatStep(n) \/ ConfirmStep(n) \/ GateStep(n))
          /\ WF_vars(BeginHeartbeat(n)) /\ SF_vars(BeginConfirm(n))
          /\ SF_vars(ClearExpired(n)) /\ WF_vars(Expire(n))

---------------------------------------------------------------------------
(* Properties.                                                             *)

\* A node carries the active generation only if its unrevoked credential is of
\* that generation: what IsControlPlaneReady and the command queue read from
\* nodes.controller_generation never runs ahead of the rotation
\* (ReconcileNodeControlModeAuthenticated, ActivateAgentCredentialRotation).
FenceFollowsCredential == \A n \in Nodes : nodeGen[n] = epoch => cred[n].gen = epoch

\* A rebuild item is reconciled, and a rebuild succeeded, only when the node's
\* credential has been rotated into the generation being rebuilt
\* (markControllerRebuildHeartbeatLocked, finishControllerRebuildIfReadyLocked).
ReconciledIsRotated ==
    /\ \A n \in Nodes : item[n].state = "reconciled" => cred[n].gen = epoch
    /\ rebuild = "succeeded" => \A n \in Nodes : item[n].state = "reconciled"

\* A node is online only under a credential of the active generation, whatever
\* promotions overtake the heartbeat that publishes it (updateNodeHeartbeat).
OnlineIsCurrent == \A n \in Nodes : online[n] => nodeGen[n] = epoch /\ cred[n].gen = epoch

\* The Agent never runs ahead of the Controller: the credential it signs with
\* has been activated, and a successor it has stored is one the Controller
\* issued (activatePendingControllerCredential).
AgentFollows ==
    \A n \in Nodes :
        /\ current[n].ver <= cred[n].ver
        /\ current[n].ver = cred[n].ver => current[n].gen = cred[n].gen
        /\ \A p \in pending[n] : p.ver <= lastVer[n]

\* Neither what the database says of a node nor what its Agent believes runs
\* ahead of the credential the Controller has activated.
NothingRunsAhead ==
    FenceFollowsCredential /\ ReconciledIsRotated /\ OnlineIsCurrent /\ AgentFollows

\* Unless an answer has been lost, an Agent can still prove who it is: it signs
\* with the unrevoked credential, holds it as a successor the confirmation route
\* will accept, or is about to receive the answer to its confirmation
\* (resumeControllerCredentialRotation).
KeepsAKey(n) ==
    \/ current[n].ver = cred[n].ver
    \/ cred[n].gen = epoch /\ \E p \in pending[n] : p.live /\ p.ver = cred[n].ver
    \/ /\ req[n].at \in {"activated", "settling", "confirmed"}
       /\ \E p \in pending[n] : p.ver = req[n].ver /\ p.gen = req[n].gen /\ p.ver = cred[n].ver

NotLockedOut == losses = 0 => \A n \in Nodes : KeepsAKey(n)

\* Between its first write and its answer, the heartbeat of a node that is not
\* reconciled finds the gate of its own process closed (handleAgentHeartbeat).
GateClosedWhileReconciling ==
    \A n \in Nodes :
        /\ req[n].at \in {"reconciled", "updated"}
        /\ req[n].auth # req[n].gen \/ ~req[n].managed
        /\ req[n].proc = epoch
        => blocked

\* After any number of promotions, every node whose answers arrive comes back
\* online under a credential of the active generation that its Agent uses.
NodesReturn ==
    \A n \in Nodes :
        []<>(\/ losses > 0
             \/ online[n] /\ cred[n].gen = epoch /\ current[n].ver = cred[n].ver)

\* While every node is managed and answers arrive, the gate does not stay closed:
\* some heartbeat reopens it once every node has been reconciled
\* (refreshControlPlaneGate).
GateReopens == []<>(~blocked \/ losses + modeChanges > 0)
===========================================================================
