--------------------------- MODULE RebuildProofs ---------------------------
(***************************************************************************)
(* Machine-checked proofs about Rebuild, for every number of nodes,        *)
(* promotions, rotations, lost answers and outages: neither the database   *)
(* nor an Agent runs ahead of the credential the Controller has activated, *)
(* and an Agent that has lost no answer keeps a key.                       *)
(*                                                                         *)
(* The inductive invariant follows one node's versions through the tables, *)
(* the Agent's files and the request on its way: they are ordered, a       *)
(* version is of one generation wherever it is written, and what a request *)
(* has read of the credential is still so when it is used.                 *)
(*                                                                         *)
(* The last part is about Relay, which a snapshot may travel through.      *)
(***************************************************************************)
EXTENDS Rebuild, Relay, TLAPS

Request == {None} \cup Heartbeat \cup Answer \cup Confirm
\* A heartbeat that a handler is working on, and a confirmation it has granted.
Handled == {"authed", "reconciled", "updated", "refreshing", "offering"}
Settled == {"activated", "settling", "confirmed"}

\* The step of a request tells what kind of request it is.
LEMMA RequestKinds ==
    ASSUME NEW r \in Request
    PROVE  /\ r.at \in Handled => r \in Heartbeat
           /\ r.at = "answer" => r \in Answer
           /\ r.at \in {"confirming", "refused"} \cup Settled => r \in Confirm
BY DEF Request, None, Heartbeat, Answer, Confirm, Handled, Settled

\* A new request of one node.
LEMMA RequestType ==
    ASSUME TypeOK, NEW n \in Nodes, NEW h \in Request, SetReq(n, h)
    PROVE  req' \in [Nodes -> Request]
BY Zenon DEF TypeOK, SetReq, Request

\* Moving on to the next step keeps the kind of a request.
LEMMA HeartbeatMoves ==
    ASSUME NEW r \in Request, r.at \in Handled, NEW a \in Handled
    PROVE  /\ [r EXCEPT !.at = a] \in Request
           /\ \A g \in Nat : [r EXCEPT !.at = a, !.gen = g] \in Request
           /\ \A b \in BOOLEAN : [r EXCEPT !.at = a, !.ready = b] \in Request
<1>1. r \in Heartbeat
  BY RequestKinds, Zenon
<1>2. [r EXCEPT !.at = a] \in Heartbeat
  BY <1>1, Zenon DEF Heartbeat, Handled
<1>3. ASSUME NEW g \in Nat PROVE [r EXCEPT !.at = a, !.gen = g] \in Heartbeat
  BY <1>1, Zenon DEF Heartbeat, Handled
<1>4. ASSUME NEW b \in BOOLEAN PROVE [r EXCEPT !.at = a, !.ready = b] \in Heartbeat
  BY <1>1, Zenon DEF Heartbeat, Handled
<1> QED BY <1>2, <1>3, <1>4, Zenon DEF Request

\* A confirmation stays one, whatever becomes of it.
LEMMA ConfirmMoves ==
    ASSUME NEW r \in Request, r.at \in {"confirming", "refused"} \cup Settled,
           NEW a \in {"refused"} \cup Settled
    PROVE  /\ [r EXCEPT !.at = a] \in Request
           /\ \A g \in Nat : [r EXCEPT !.at = a, !.gen = g] \in Request
           /\ \A b \in BOOLEAN : [r EXCEPT !.at = a, !.ready = b] \in Request
<1>1. r \in Confirm
  BY RequestKinds, Zenon
<1>2. [r EXCEPT !.at = a] \in Confirm
  BY <1>1, Zenon DEF Confirm, Settled
<1>3. ASSUME NEW g \in Nat PROVE [r EXCEPT !.at = a, !.gen = g] \in Confirm
  BY <1>1, Zenon DEF Confirm, Settled
<1>4. ASSUME NEW b \in BOOLEAN PROVE [r EXCEPT !.at = a, !.ready = b] \in Confirm
  BY <1>1, Zenon DEF Confirm, Settled
<1> QED BY <1>2, <1>3, <1>4, Zenon DEF Request

\* What the rebuild may become.
LEMMA DeferredType ==
    ASSUME NEW items \in [Nodes -> Item], NEW up
    PROVE  Deferred(items, up) \in [Nodes -> Item]
<1>1. ASSUME NEW n \in Nodes PROVE [items[n] EXCEPT !.state = "deferred"] \in Item
  BY Zenon DEF Item, ItemStates
<1> QED BY <1>1, Zenon DEF Deferred

\* The state derived from the items is one of a rebuild.
LEMMA StateOfType ==
    ASSUME NEW items
    PROVE  StateOf(items) \in {"none", "succeeded"} \cup OpenRebuild
BY Zenon DEF StateOf, OpenRebuild

\* Updating an item keeps the types.
LEMMA UpdateItemType ==
    ASSUME TypeOK, NEW n \in Nodes, NEW new \in Item, UpdateItem(n, new)
    PROVE  item' \in [Nodes -> Item] /\ rebuild' \in {"none", "succeeded"} \cup OpenRebuild
<1>1. [item EXCEPT ![n] = new] \in [Nodes -> Item]
  BY Zenon DEF TypeOK
<1>2. Deferred([item EXCEPT ![n] = new], online) \in [Nodes -> Item]
  BY <1>1, DeferredType, Zenon
<1> QED BY <1>2, StateOfType, Zenon DEF UpdateItem, TypeOK

\* So do the three marks a request leaves.
LEMMA MarkType ==
    ASSUME TypeOK, NEW n \in Nodes, NEW auth, NEW isManaged,
           \/ MarkHeartbeat(n, auth, isManaged)
           \/ MarkRotationPending(n)
           \/ MarkCredentialActivated(n)
    PROVE  item' \in [Nodes -> Item] /\ rebuild' \in {"none", "succeeded"} \cup OpenRebuild
<1>1. item[n] \in Item
  BY Zenon DEF TypeOK
<1>2. ASSUME NEW s \in ItemStates
      PROVE  [item[n] EXCEPT !.heard = TRUE, !.state = s] \in Item
             /\ [item[n] EXCEPT !.state = s] \in Item
  BY <1>1, Zenon DEF Item
<1>3. item[n].state \in ItemStates
  BY <1>1, Zenon DEF Item
<1>4. CASE MarkHeartbeat(n, auth, isManaged)
  <2>1. PICK s : s = IF item[n].state = "reconciled" \/ (auth = epoch /\ isManaged) THEN "reconciled"
                     ELSE IF auth = epoch THEN "draining"
                     ELSE IF item[n].state \in {"deferred", "rotation_pending"} THEN item[n].state
                     ELSE "heartbeat_verified"
    BY Zenon
  <2>2. s \in ItemStates
    BY <1>3, <2>1, Zenon DEF ItemStates
  <2>3. UpdateItem(n, [item[n] EXCEPT !.heard = TRUE, !.state = s])
    BY <1>1, <1>4, <2>1, Zenon DEF MarkHeartbeat, Item
  <2> QED BY <1>2, <2>2, <2>3, UpdateItemType, Zenon
<1>5. CASE MarkRotationPending(n)
  <2>1. "rotation_pending" \in ItemStates
    BY Zenon DEF ItemStates
  <2>2. [item EXCEPT ![n] = [item[n] EXCEPT !.state = "rotation_pending"]] \in [Nodes -> Item]
    BY <1>2, <2>1, Zenon DEF TypeOK
  <2>3. item' = item \/ item' = [item EXCEPT ![n].state = "rotation_pending"]
    BY <1>5, Zenon DEF MarkRotationPending
  <2> QED BY <1>5, <2>2, <2>3, Zenon DEF MarkRotationPending, TypeOK
<1>6. CASE MarkCredentialActivated(n)
  <2>1. PICK s : s = IF online[n] THEN "credential_activated" ELSE "deferred"
    BY Zenon
  <2>2. s \in ItemStates
    BY <2>1, Zenon DEF ItemStates
  <2>3. UpdateItem(n, [item[n] EXCEPT !.state = s])
    BY <1>6, <2>1, Zenon DEF MarkCredentialActivated
  <2> QED BY <1>2, <2>2, <2>3, UpdateItemType, Zenon
<1> QED BY <1>4, <1>5, <1>6, Zenon

\* A successor that lapses stays what it was.
LEMMA LapsedAre ==
    ASSUME NEW ps \in SUBSET Pending, NEW v
    PROVE  /\ Lapsed(ps, v) \in SUBSET Pending
           /\ \A p \in Lapsed(ps, v) : \E q \in ps : p.ver = q.ver /\ p.gen = q.gen
           /\ \A q \in ps : \E p \in Lapsed(ps, v) : p.ver = q.ver /\ p.gen = q.gen
<1> DEFINE L(p) == IF p.ver <= v THEN [p EXCEPT !.live = FALSE] ELSE p
<1>1. ASSUME NEW p \in ps PROVE L(p) \in Pending /\ L(p).ver = p.ver /\ L(p).gen = p.gen
  BY Zenon DEF Pending
<1>2. Lapsed(ps, v) = {L(p) : p \in ps}
  BY Zenon DEF Lapsed
<1> HIDE DEF L
<1> QED BY <1>1, <1>2, Zenon

\* Every action keeps the type invariant.
LEMMA TypeStep == TypeOK /\ [Next]_vars => TypeOK'
<1> SUFFICES ASSUME TypeOK, [Next]_vars PROVE TypeOK'
  BY Zenon
<1> USE RebuildAssumption DEF database, agents, bounds
<1>0. req \in [Nodes -> Request] /\ epoch \in Nat /\ Ready \in BOOLEAN
  BY DEF TypeOK, Request, Generations, Ready
<1>r. ASSUME NEW n \in Nodes, NEW h \in Request, SetReq(n, h) PROVE req' \in [Nodes -> Request]
  BY <1>r, RequestType, Zenon
<1>n. None \in Request
  BY Zenon DEF Request
<1>1. CASE PromoteControllerEpoch
  <2>1. epoch' \in Generations
    BY <1>1 DEF PromoteControllerEpoch, TypeOK, Generations
  <2>2. item' \in [Nodes -> Item]
    <3>1. ASSUME NEW n \in Nodes
          PROVE  [state |-> IF online[n] THEN "awaiting_heartbeat" ELSE "deferred",
                  previous |-> cred[n].gen, heard |-> FALSE] \in Item
      BY Zenon DEF TypeOK, Credential, Item, ItemStates
    <3> QED BY <1>1, <3>1, Zenon DEF PromoteControllerEpoch
  <2>3. rotation' \in [Nodes -> SUBSET Pending]
    BY <1>1, Zenon DEF PromoteControllerEpoch, TypeOK
  <2>4. rebuild' \in {"none", "succeeded"} \cup OpenRebuild
    BY <1>1, StateOfType, Zenon DEF PromoteControllerEpoch
  <2>5. blocked' \in BOOLEAN /\ nodeGen' \in [Nodes -> Nat] /\ online' \in [Nodes -> BOOLEAN]
    BY <1>1, Zenon DEF PromoteControllerEpoch, Ready
  <2> QED BY <1>1, <2>1, <2>2, <2>3, <2>4, <2>5, Zenon DEF PromoteControllerEpoch, TypeOK
<1>2. ASSUME NEW n \in Nodes, MarkStaleNodesOffline(n) PROVE TypeOK'
  <2>1. [item EXCEPT ![n].state = "deferred"] \in [Nodes -> Item]
    BY Zenon DEF TypeOK, Item, ItemStates
  <2>2. Deferred([item EXCEPT ![n].state = "deferred"], online') \in [Nodes -> Item]
    BY <2>1, DeferredType, Zenon
  <2>3. item' \in [Nodes -> Item] /\ rebuild' \in {"none", "succeeded"} \cup OpenRebuild
    BY <1>2, <2>2, StateOfType, Zenon DEF MarkStaleNodesOffline, TypeOK
  <2>4. online' \in [Nodes -> BOOLEAN] /\ outages' \in Nat
    BY <1>2 DEF MarkStaleNodesOffline, TypeOK
  <2>5. UNCHANGED <<epoch, cred, rotation, lastVer, nodeGen, dbManaged, blocked, req, agents,
                    losses, expiries, modeChanges>>
    BY <1>2, Zenon DEF MarkStaleNodesOffline
  <2> QED BY <2>3, <2>4, <2>5, Zenon DEF TypeOK
<1>3. ASSUME NEW n \in Nodes, LeaveManaged(n) \/ ClearExpired(n) PROVE TypeOK'
  <2>0. managed \in [Nodes -> BOOLEAN] /\ pending \in [Nodes -> SUBSET Pending] /\ modeChanges \in Nat
    BY Zenon DEF TypeOK
  <2>1. /\ managed' \in [Nodes -> BOOLEAN] /\ pending' \in [Nodes -> SUBSET Pending]
        /\ modeChanges' \in Nat
    <3>1. CASE LeaveManaged(n)
      BY <2>0, <3>1 DEF LeaveManaged
    <3>2. CASE ClearExpired(n)
      BY <2>0, <3>2, Zenon DEF ClearExpired
    <3> QED BY <1>3, <3>1, <3>2, Zenon
  <2>2. UNCHANGED <<database, blocked, req, current, known, losses, expiries, outages>>
    BY <1>3, Zenon DEF LeaveManaged, ClearExpired
  <2> QED BY <2>1, <2>2, Zenon DEF TypeOK
<1>4. ASSUME NEW n \in Nodes, Expire(n) PROVE TypeOK'
  <2>1. PICK p \in rotation[n] \cup pending[n] :
          /\ expiries' = IF p.gen = epoch THEN expiries + 1 ELSE expiries
          /\ rotation' = [rotation EXCEPT ![n] = Lapsed(@, p.ver)]
          /\ pending' = [pending EXCEPT ![n] = Lapsed(@, p.ver)]
          /\ req' = IF req[n].at = "answer" THEN [req EXCEPT ![n].offer = Lapsed(@, p.ver)]
                    ELSE req
    BY <1>4, Zenon DEF Expire
  <2>2. rotation' \in [Nodes -> SUBSET Pending] /\ pending' \in [Nodes -> SUBSET Pending]
    BY <2>1, LapsedAre, Zenon DEF TypeOK
  <2>3. req' \in [Nodes -> Request]
    <3>1. CASE req[n].at = "answer"
      <4>1. req[n] \in Answer
        BY <1>0, <3>1, RequestKinds, Zenon
      <4>2. Lapsed(req[n].offer, p.ver) \in SUBSET Pending
        BY <4>1, LapsedAre, Zenon DEF Answer
      <4>3. [req[n] EXCEPT !.offer = Lapsed(req[n].offer, p.ver)] \in Answer
        BY <4>1, <4>2, Zenon DEF Answer
      <4>4. req' = [req EXCEPT ![n] = [req[n] EXCEPT !.offer = Lapsed(req[n].offer, p.ver)]]
        BY <1>0, <2>1, <3>1, Zenon
      <4> QED BY <1>0, <4>3, <4>4, Zenon DEF Request
    <3> QED BY <1>0, <2>1, <3>1, Zenon
  <2>4. expiries' \in Nat
    BY <2>1 DEF TypeOK
  <2> QED BY <1>4, <2>2, <2>3, <2>4, Zenon DEF Expire, TypeOK, Request
<1>5. ASSUME NEW n \in Nodes, LoseAnswer(n) PROVE TypeOK'
  BY <1>0, <1>5, <1>n DEF LoseAnswer, TypeOK, Request
<1>6. ASSUME NEW n \in Nodes, BeginHeartbeat(n) PROVE TypeOK'
  <2>1. PICK h : h = [at |-> "authed", auth |-> cred[n].gen, known |-> known[n],
                      managed |-> managed[n], gen |-> epoch, proc |-> epoch, ready |-> FALSE]
    BY Zenon
  <2>2. h \in Request
    BY <1>0, <2>1, Zenon DEF TypeOK, Credential, Heartbeat, Request
  <2>3. req' \in [Nodes -> Request]
    BY <1>6, <1>r, <2>1, <2>2, Zenon DEF BeginHeartbeat
  <2> QED BY <1>6, <2>3, Zenon DEF BeginHeartbeat, TypeOK, Request
<1>7. ASSUME NEW n \in Nodes, BeginConfirm(n) PROVE TypeOK'
  <2>1. PICK p \in pending[n] :
          SetReq(n, [at |-> "confirming", ver |-> p.ver, gen |-> 0, proc |-> epoch, ready |-> FALSE])
    BY <1>7, Zenon DEF BeginConfirm
  <2>2. [at |-> "confirming", ver |-> p.ver, gen |-> 0, proc |-> epoch, ready |-> FALSE] \in Request
    BY <1>0 DEF TypeOK, Pending, Confirm, Request
  <2>3. req' \in [Nodes -> Request]
    BY <1>r, <2>1, <2>2, Zenon
  <2> QED BY <1>7, <2>3, Zenon DEF BeginConfirm, TypeOK, Request
<1>8. ASSUME NEW n \in Nodes, HeartbeatStep(n) \/ Ensure(n, TRUE) PROVE TypeOK'
  <2>0. req[n] \in Request
    BY <1>0, Zenon
  <2>m. ASSUME NEW a \in Handled, req[n].at \in Handled
        PROVE  /\ [req[n] EXCEPT !.at = a] \in Request
               /\ [req[n] EXCEPT !.at = a, !.gen = epoch] \in Request
    BY <1>0, <2>0, <2>m, HeartbeatMoves, Zenon
  <2>1. CASE ReconcileCurrent(n)
    <3>1. req[n] \in Heartbeat /\ SetReq(n, [req[n] EXCEPT !.at = "reconciled", !.gen = epoch])
      BY <2>0, <2>1, RequestKinds, Zenon DEF ReconcileCurrent, Handled
    <3>2. req' \in [Nodes -> Request]
      BY <1>r, <2>1, <2>m, <3>1, Zenon DEF ReconcileCurrent, Handled
    <3>3. item' \in [Nodes -> Item] /\ rebuild' \in {"none", "succeeded"} \cup OpenRebuild
      BY <2>1, MarkType, Zenon DEF ReconcileCurrent
    <3> QED BY <1>0, <2>1, <3>1, <3>2, <3>3, Zenon DEF ReconcileCurrent, TypeOK, Request, Heartbeat
  <2>2. CASE ReconcileRecovery(n)
    <3>1. SetReq(n, [req[n] EXCEPT !.at = "reconciled", !.gen = epoch])
      BY <2>2, Zenon DEF ReconcileRecovery
    <3>2. req' \in [Nodes -> Request]
      BY <1>r, <2>2, <2>m, <3>1, Zenon DEF ReconcileRecovery, Handled
    <3>3. item' \in [Nodes -> Item] /\ rebuild' \in {"none", "succeeded"} \cup OpenRebuild
      BY <2>2, MarkType, Zenon DEF ReconcileRecovery
    <3> QED BY <2>2, <3>2, <3>3, Zenon DEF ReconcileRecovery, TypeOK, Request
  <2>3. CASE UpdateNodeHeartbeat(n) \/ UpdateNodeRecoveryHeartbeat(n)
    <3>1. req' \in [Nodes -> Request]
      BY <1>r, <2>3, <2>m, Zenon DEF UpdateNodeHeartbeat, UpdateNodeRecoveryHeartbeat, Handled
    <3> QED BY <2>3, <3>1, Zenon DEF UpdateNodeHeartbeat, UpdateNodeRecoveryHeartbeat, TypeOK, Request
  <2>4. CASE UpdateRefused(n) \/ EnsureRefused(n)
    <3>1. req' \in [Nodes -> Request]
      BY <1>r, <1>n, <2>4, Zenon DEF UpdateRefused, EnsureRefused
    <3> QED BY <2>4, <3>1, Zenon DEF UpdateRefused, EnsureRefused, TypeOK, Request
  <2>5. CASE CloseGate(n) \/ LeaveGate(n)
    <3>1. req' \in [Nodes -> Request]
      BY <1>r, <2>5, <2>m, Zenon DEF CloseGate, LeaveGate, Handled
    <3> QED BY <2>5, <3>1, Zenon DEF CloseGate, LeaveGate, SetGate, TypeOK, Request
  <2>6. ASSUME NEW aged \in BOOLEAN, Ensure(n, aged) PROVE TypeOK'
    <3>1. req[n] \in Heartbeat
      BY <2>0, <2>6, RequestKinds, Zenon DEF Ensure, Handled
    <3>2. ASSUME NEW o \in SUBSET Pending
          PROVE  [at |-> "answer", auth |-> req[n].auth, gen |-> req[n].gen, offer |-> o] \in Request
      BY <3>1, Zenon DEF Heartbeat, Answer, Request
    <3>3. {p \in rotation[n] : p.live} \in SUBSET Pending
      BY Zenon DEF TypeOK
    <3>4. {[ver |-> lastVer[n] + 1, gen |-> epoch, live |-> TRUE]} \in SUBSET Pending
      BY <1>0 DEF TypeOK, Pending
    <3>5. \E o \in SUBSET Pending :
            /\ SetReq(n, [at |-> "answer", auth |-> req[n].auth, gen |-> req[n].gen, offer |-> o])
            /\ rotation' = [rotation EXCEPT ![n] = o]
      BY <2>6, <3>3, <3>4, Zenon DEF Ensure
    <3>6. req' \in [Nodes -> Request] /\ rotation' \in [Nodes -> SUBSET Pending]
      BY <1>r, <3>2, <3>5, Zenon DEF TypeOK
    <3>7. item' \in [Nodes -> Item] /\ rebuild' \in {"none", "succeeded"} \cup OpenRebuild
      BY <2>6, MarkType, Zenon DEF Ensure, TypeOK
    <3>8. lastVer' \in [Nodes -> Nat]
      BY <2>6 DEF Ensure, TypeOK
    <3> QED BY <2>6, <3>6, <3>7, <3>8, Zenon DEF Ensure, TypeOK, Request
  <2>7. CASE ReceiveAnswer(n)
    <3>1. req[n] \in Answer /\ req' \in [Nodes -> Request]
      BY <1>r, <1>n, <2>0, <2>7, RequestKinds, Zenon DEF ReceiveAnswer
    <3>2. known' \in [Nodes -> Nat] /\ managed' \in [Nodes -> BOOLEAN]
      BY <2>7, <3>1, Zenon DEF ReceiveAnswer, TypeOK, Answer
    <3>3. pending' \in [Nodes -> SUBSET Pending]
      BY <2>7, <3>1 DEF ReceiveAnswer, TypeOK, Answer
    <3> QED BY <2>7, <3>1, <3>2, <3>3, Zenon DEF ReceiveAnswer, TypeOK, Request
  <2> QED BY <1>8, <2>1, <2>2, <2>3, <2>4, <2>5, <2>6, <2>7, Zenon DEF HeartbeatStep
<1>9. ASSUME NEW n \in Nodes, ConfirmStep(n) PROVE TypeOK'
  <2>0. req[n] \in Request
    BY <1>0
  <2>m. ASSUME NEW a \in {"refused"} \cup Settled, req[n].at = "confirming"
        PROVE  /\ [req[n] EXCEPT !.at = a] \in Request
               /\ [req[n] EXCEPT !.at = a, !.gen = epoch] \in Request
    BY <1>0, <2>0, <2>m, ConfirmMoves, Zenon
  <2>1. CASE ActivateRotation(n) \/ AlreadyActivated(n)
    <3>1. req[n] \in Confirm /\ req' \in [Nodes -> Request]
      BY <1>r, <2>0, <2>1, <2>m, RequestKinds, Zenon DEF ActivateRotation, AlreadyActivated, Settled
    <3>2. item' \in [Nodes -> Item] /\ rebuild' \in {"none", "succeeded"} \cup OpenRebuild
      BY <2>1, MarkType, Zenon DEF ActivateRotation, AlreadyActivated
    <3>3. cred' \in [Nodes -> Credential] /\ rotation' \in [Nodes -> SUBSET Pending]
          /\ nodeGen' \in [Nodes -> Nat]
      <4>1. [ver |-> req[n].ver, gen |-> epoch] \in Credential
        BY <1>0, <3>1, Zenon DEF Credential, Confirm
      <4>2. CASE ActivateRotation(n)
        BY <1>0, <4>1, <4>2, Zenon DEF ActivateRotation, TypeOK
      <4>3. CASE AlreadyActivated(n)
        BY <4>3, Zenon DEF AlreadyActivated, TypeOK
      <4> QED BY <2>1, <4>2, <4>3, Zenon
    <3> QED BY <2>1, <3>1, <3>2, <3>3, Zenon DEF ActivateRotation, AlreadyActivated, TypeOK, Request
  <2>2. CASE ActivateRefused(n)
    <3>1. req' \in [Nodes -> Request]
      BY <1>r, <2>2, <2>m, Zenon DEF ActivateRefused
    <3> QED BY <2>2, <3>1, Zenon DEF ActivateRefused, TypeOK, Request
  <2>3. CASE AdoptCredential(n)
    <3>1. req[n] \in Confirm /\ req' \in [Nodes -> Request]
      BY <1>r, <1>n, <2>0, <2>3, RequestKinds, Zenon DEF AdoptCredential, Settled
    <3>2. current' \in [Nodes -> Credential] /\ pending' \in [Nodes -> SUBSET Pending]
      <4>1. [ver |-> req[n].ver, gen |-> req[n].gen] \in Credential
        BY <3>1, Zenon DEF Credential, Confirm
      <4> QED BY <2>3, <4>1, Zenon DEF AdoptCredential, TypeOK
    <3> QED BY <2>3, <3>1, <3>2, Zenon DEF AdoptCredential, TypeOK, Request
  <2>4. CASE DropCredential(n)
    <3>1. req' \in [Nodes -> Request] /\ pending' \in [Nodes -> SUBSET Pending]
      BY <1>r, <1>n, <2>4, Zenon DEF DropCredential, TypeOK
    <3> QED BY <2>4, <3>1, Zenon DEF DropCredential, TypeOK, Request
  <2> QED BY <1>9, <2>1, <2>2, <2>3, <2>4, Zenon DEF ConfirmStep
<1>10. ASSUME NEW n \in Nodes, GateStep(n) PROVE TypeOK'
  <2>0. req[n] \in Request
    BY <1>0
  <2>1. CASE IsControlPlaneReady(n)
    <3>1. req' \in [Nodes -> Request]
      BY <1>0, <1>r, <2>0, <2>1, HeartbeatMoves, ConfirmMoves, Zenon DEF IsControlPlaneReady, Handled, Settled
    <3> QED BY <2>1, <3>1, Zenon DEF IsControlPlaneReady, TypeOK, Request
  <2>2. CASE SetControlPlaneGate(n)
    <3>1. req' \in [Nodes -> Request]
      BY <1>r, <2>0, <2>2, HeartbeatMoves, ConfirmMoves, Zenon DEF SetControlPlaneGate, Handled, Settled
    <3>2. blocked' \in BOOLEAN
      BY <2>2, Zenon DEF SetControlPlaneGate, SetGate, TypeOK
    <3> QED BY <2>2, <3>1, <3>2, Zenon DEF SetControlPlaneGate, TypeOK, Request
  <2> QED BY <1>10, <2>1, <2>2, Zenon DEF GateStep
<1>11. CASE UNCHANGED vars
  BY <1>11, Zenon DEF vars, TypeOK
<1> QED BY <1>1, <1>2, <1>3, <1>4, <1>5, <1>6, <1>7, <1>8, <1>9, <1>10, <1>11, Zenon DEF Next

---------------------------------------------------------------------------
(* The inductive invariant.                                                *)

\* What the Agent has stored of successors, and what is on its way to it.
Offered(n) == IF req[n].at = "answer" THEN req[n].offer ELSE {}
Successors(n) == pending[n] \cup Offered(n)

Versions(n) ==
    /\ cred[n].ver <= lastVer[n]
    /\ \A p \in rotation[n] : cred[n].ver < p.ver /\ p.ver <= lastVer[n]
    /\ \A p \in Successors(n) : p.ver <= lastVer[n]
    /\ current[n].ver <= cred[n].ver

OneGeneration(n) ==
    /\ current[n].ver = cred[n].ver => current[n].gen = cred[n].gen
    /\ \A p, q \in rotation[n] : p.ver = q.ver => p.gen = q.gen
    /\ \A p \in Successors(n) :
          /\ p.ver = cred[n].ver => p.gen = cred[n].gen
          /\ \A q \in rotation[n] : p.ver = q.ver => p.gen = q.gen

InFlight(n) ==
    /\ req[n].at \in Handled => req[n].auth = cred[n].gen
    /\ req[n].at = "confirming" => \E p \in pending[n] : p.ver = req[n].ver
    /\ req[n].at \in Settled => req[n].ver = cred[n].ver

HasKey(n) ==
    losses = 0 =>
       \/ current[n].ver = cred[n].ver
       \/ /\ req[n].at \in Settled
          /\ \E p \in pending[n] : p.ver = req[n].ver /\ p.gen = req[n].gen

Rows(n) == Versions(n) /\ OneGeneration(n) /\ InFlight(n) /\ HasKey(n)

Recorded(n) ==
    /\ nodeGen[n] = epoch => cred[n].gen = epoch
    /\ online[n] => nodeGen[n] = epoch
    /\ item[n].state = "reconciled" => cred[n].gen = epoch

RowsInv == TypeOK /\ \A n \in Nodes : Rows(n)
RecordedInv ==
    /\ \A n \in Nodes : Recorded(n)
    /\ rebuild = "succeeded" => Reached(item, {"reconciled"})

\* A step of one node leaves the rows of the others alone.
LEMMA OthersStay ==
    ASSUME RowsInv, TypeOK', NEW n \in Nodes, Rows(n)', losses' = 0 => losses = 0,
           \A m \in Nodes \ {n} :
              /\ cred'[m] = cred[m] /\ rotation'[m] = rotation[m] /\ lastVer'[m] = lastVer[m]
              /\ current'[m] = current[m] /\ pending'[m] = pending[m] /\ req'[m] = req[m]
    PROVE  RowsInv'
<1> SUFFICES ASSUME NEW m \in Nodes \ {n} PROVE Rows(m)'
  BY Zenon DEF RowsInv
<1>1. Rows(m)
  BY Zenon DEF RowsInv
<1>2. Successors(m)' = Successors(m)
  BY Zenon DEF Successors, Offered
<1>3. Versions(m)' /\ OneGeneration(m)'
  BY <1>1, <1>2 DEF Rows, Versions, OneGeneration
<1>4. InFlight(m)'
  BY <1>1, Zenon DEF Rows, InFlight
<1>5. HasKey(m)'
  BY <1>1, Zenon DEF Rows, HasKey
<1> QED BY <1>3, <1>4, <1>5, Zenon DEF Rows

\* Steps that only move the node's request on: what the new request says of
\* the credential must be so.
LEMMA RequestMoves ==
    ASSUME RowsInv, TypeOK', NEW n \in Nodes, NEW h, SetReq(n, h),
           UNCHANGED <<cred, rotation, lastVer, current, pending>>, losses' = 0 => losses = 0,
           h.at # "answer",
           h.at \in Handled => h.auth = cred[n].gen,
           h.at = "confirming" => \E p \in pending[n] : p.ver = h.ver,
           h.at \in Settled => h.ver = cred[n].ver,
           losses' = 0 /\ current[n].ver # cred[n].ver =>
              h.at \in Settled /\ \E p \in pending[n] : p.ver = h.ver /\ p.gen = h.gen
    PROVE  RowsInv'
<1>1. req'[n] = h /\ \A m \in Nodes \ {n} : req'[m] = req[m]
  BY Zenon DEF SetReq, RowsInv, TypeOK
<1>2. Rows(n)
  BY Zenon DEF RowsInv
<1>3. Successors(n)' \subseteq Successors(n)
  BY <1>1, Zenon DEF Successors, Offered
<1>4. Versions(n)' /\ OneGeneration(n)'
  BY <1>2, <1>3, Zenon DEF Rows, Versions, OneGeneration
<1>5. InFlight(n)'
  BY <1>1, Zenon DEF InFlight
<1>6. HasKey(n)'
  BY <1>1, Zenon DEF HasKey
<1>7. Rows(n)'
  BY <1>4, <1>5, <1>6, Zenon DEF Rows
<1> QED BY <1>1, <1>7, OthersStay, Zenon

\* An Agent that is not waiting for the answer to a granted confirmation signs
\* with the unrevoked credential.
LEMMA SignsWithCredential ==
    ASSUME RowsInv, NEW n \in Nodes, losses = 0, req[n].at \notin Settled
    PROVE  current[n].ver = cred[n].ver
BY Zenon DEF RowsInv, Rows, HasKey

\* The heartbeat's steps up to its answer.
LEMMA HeartbeatRows ==
    ASSUME RowsInv, TypeOK', NEW n \in Nodes,
           \/ ReconcileCurrent(n) \/ ReconcileRecovery(n)
           \/ UpdateNodeHeartbeat(n) \/ UpdateNodeRecoveryHeartbeat(n)
           \/ CloseGate(n) \/ LeaveGate(n)
    PROVE  RowsInv'
<1>1. PICK h : /\ SetReq(n, h) /\ h.at \in Handled
               /\ req[n] \in Heartbeat => h.auth = req[n].auth
  <2>2. req[n].at \in Handled
    BY Zenon DEF ReconcileCurrent, ReconcileRecovery, UpdateNodeHeartbeat,
           UpdateNodeRecoveryHeartbeat, CloseGate, LeaveGate, Handled
  <2>3. req[n] \in Heartbeat
    BY <2>2, RequestKinds, Zenon DEF RowsInv, TypeOK, Request
  <2>4. PICK a \in Handled : \/ SetReq(n, [req[n] EXCEPT !.at = a])
                             \/ SetReq(n, [req[n] EXCEPT !.at = a, !.gen = epoch])
    BY Zenon DEF ReconcileCurrent, ReconcileRecovery, UpdateNodeHeartbeat,
           UpdateNodeRecoveryHeartbeat, CloseGate, LeaveGate, Handled
  <2>5. PICK h : SetReq(n, h) /\ \/ h = [req[n] EXCEPT !.at = a]
                                 \/ h = [req[n] EXCEPT !.at = a, !.gen = epoch]
    BY <2>4, Zenon
  <2>6. h.at = a /\ h.auth = req[n].auth
    <3>1. CASE h = [req[n] EXCEPT !.at = a]
      BY <2>3, <3>1, Zenon DEF Heartbeat
    <3>2. CASE h = [req[n] EXCEPT !.at = a, !.gen = epoch]
      BY <2>3, <3>2, Zenon DEF Heartbeat
    <3> QED BY <2>5, <3>1, <3>2, Zenon
  <2> QED BY <2>4, <2>5, <2>6, Zenon
<1>2. UNCHANGED <<cred, rotation, lastVer, current, pending, losses>> /\ req[n].at \in Handled
  BY Zenon DEF ReconcileCurrent, ReconcileRecovery, UpdateNodeHeartbeat, UpdateNodeRecoveryHeartbeat,
         CloseGate, LeaveGate, database, agents, bounds, Handled
<1>3. req[n] \in Heartbeat
  BY <1>2, RequestKinds, Zenon DEF RowsInv, TypeOK, Request
<1>4. h.auth = cred[n].gen
  BY <1>1, <1>2, <1>3, Zenon DEF RowsInv, Rows, InFlight
<1>5. h.at # "answer" /\ h.at # "confirming" /\ h.at \notin Settled /\ req[n].at \notin Settled
  BY <1>1, <1>2, Zenon DEF Handled, Settled
<1>6. losses' = 0 => current[n].ver = cred[n].ver
  BY <1>2, <1>5, SignsWithCredential, Zenon
<1> QED BY <1>1, <1>2, <1>4, <1>5, <1>6, RequestMoves, Zenon

\* Requests that end without effect.
LEMMA EndedRows ==
    ASSUME RowsInv, TypeOK', NEW n \in Nodes,
           UpdateRefused(n) \/ EnsureRefused(n) \/ LoseAnswer(n)
    PROVE  RowsInv'
<1>1. SetReq(n, None) /\ UNCHANGED <<cred, rotation, lastVer, current, pending>>
  BY Zenon DEF UpdateRefused, EnsureRefused, LoseAnswer, SetReq, database, agents
<1>2. losses' = 0 => losses = 0 /\ req[n].at \notin Settled
  BY DEF UpdateRefused, EnsureRefused, LoseAnswer, bounds, RowsInv, TypeOK, Settled
<1>3. losses' = 0 => current[n].ver = cred[n].ver
  BY <1>2, SignsWithCredential, Zenon
<1>4. None.at = "none"
  BY Zenon DEF None
<1> QED BY <1>1, <1>2, <1>3, <1>4, RequestMoves, Zenon DEF Handled, Settled

\* Requests that begin.
LEMMA BeginRows ==
    ASSUME RowsInv, TypeOK', NEW n \in Nodes, BeginHeartbeat(n) \/ BeginConfirm(n)
    PROVE  RowsInv'
<1>1. req[n] = None /\ UNCHANGED <<cred, rotation, lastVer, current, pending, losses>>
  BY Zenon DEF BeginHeartbeat, BeginConfirm, database, agents, bounds
<1>2. losses' = 0 => current[n].ver = cred[n].ver
  BY <1>1, SignsWithCredential DEF None, Settled
<1>3. CASE BeginHeartbeat(n)
  <2>1. PICK h : h = [at |-> "authed", auth |-> cred[n].gen, known |-> known[n],
                      managed |-> managed[n], gen |-> epoch, proc |-> epoch, ready |-> FALSE]
    BY Zenon
  <2>2. SetReq(n, h)
    BY <1>3, <2>1, Zenon DEF BeginHeartbeat
  <2>3. h.at = "authed" /\ h.auth = cred[n].gen
    BY <2>1, Zenon
  <2> QED BY <1>1, <1>2, <2>2, <2>3, RequestMoves, Zenon DEF Settled
<1>4. CASE BeginConfirm(n)
  <2>1. PICK p \in pending[n] :
          SetReq(n, [at |-> "confirming", ver |-> p.ver, gen |-> 0, proc |-> epoch, ready |-> FALSE])
    BY <1>4, Zenon DEF BeginConfirm
  <2>2. PICK h : h = [at |-> "confirming", ver |-> p.ver, gen |-> 0, proc |-> epoch, ready |-> FALSE]
    BY Zenon
  <2>3. SetReq(n, h) /\ h.at = "confirming" /\ h.ver = p.ver
    BY <2>1, <2>2, Zenon
  <2> QED BY <1>1, <1>2, <2>3, RequestMoves, Zenon DEF Settled, Handled
<1> QED BY <1>3, <1>4, Zenon

\* A confirmation that changes no credential.
LEMMA ConfirmRows ==
    ASSUME RowsInv, TypeOK', NEW n \in Nodes, AlreadyActivated(n) \/ ActivateRefused(n)
    PROVE  RowsInv'
<1>1. req[n].at = "confirming" /\ UNCHANGED <<cred, rotation, lastVer, current, pending, losses>>
  BY Zenon DEF AlreadyActivated, ActivateRefused, database, agents, bounds
<1>2. losses' = 0 => current[n].ver = cred[n].ver
  BY <1>1, SignsWithCredential, Zenon DEF Settled
<1>3. req[n] \in Confirm
  BY <1>1, RequestKinds, Zenon DEF RowsInv, TypeOK, Request
<1>4. CASE AlreadyActivated(n)
  <2>1. PICK h : h = [req[n] EXCEPT !.at = "activated", !.gen = epoch]
    BY Zenon
  <2>2. SetReq(n, h) /\ req[n].ver = cred[n].ver
    BY <1>4, <2>1, Zenon DEF AlreadyActivated
  <2>3. h.at = "activated" /\ h.ver = req[n].ver
    BY <1>3, <2>1, Zenon DEF Confirm
  <2> QED BY <1>1, <1>2, <2>2, <2>3, RequestMoves, Zenon DEF Handled
<1>5. CASE ActivateRefused(n)
  <2>1. PICK h : h = [req[n] EXCEPT !.at = "refused"]
    BY Zenon
  <2>2. SetReq(n, h)
    BY <1>5, <2>1, Zenon DEF ActivateRefused
  <2>3. h.at = "refused"
    BY <1>3, <2>1, Zenon DEF Confirm
  <2> QED BY <1>1, <1>2, <2>2, <2>3, RequestMoves, Zenon DEF Handled, Settled
<1> QED BY <1>4, <1>5

\* The gate's question and its setting, at the end of either request.
LEMMA GateRows ==
    ASSUME RowsInv, TypeOK', NEW n \in Nodes, GateStep(n)
    PROVE  RowsInv'
<1>1. UNCHANGED <<cred, rotation, lastVer, current, pending, losses>>
  BY Zenon DEF GateStep, IsControlPlaneReady, SetControlPlaneGate, database, agents, bounds
<1>2. req[n] \in Request
  BY Zenon DEF RowsInv, TypeOK, Request
<1>3. Rows(n)
  BY Zenon DEF RowsInv
<1>4. CASE req[n].at \in Handled
  <2>1. req[n] \in Heartbeat
    BY <1>2, <1>4, RequestKinds, Zenon
  <2>2. PICK h : SetReq(n, h) /\ \/ h = [req[n] EXCEPT !.at = "refreshing", !.ready = Ready]
                                 \/ h = [req[n] EXCEPT !.at = "offering"]
    BY <1>4, Zenon DEF GateStep, IsControlPlaneReady, SetControlPlaneGate, Handled
  <2>3. SetReq(n, h) /\ h.at \in Handled /\ h.auth = req[n].auth
    BY <2>1, <2>2, Zenon DEF Handled, Heartbeat
  <2>4. h.auth = cred[n].gen
    BY <1>3, <1>4, <2>3, Zenon DEF Rows, InFlight
  <2>5. h.at # "answer" /\ h.at # "confirming" /\ h.at \notin Settled /\ req[n].at \notin Settled
    BY <1>4, <2>3, Zenon DEF Handled, Settled
  <2>6. losses' = 0 => current[n].ver = cred[n].ver
    BY <1>1, <2>5, SignsWithCredential, Zenon
  <2> QED BY <1>1, <2>3, <2>4, <2>5, <2>6, RequestMoves, Zenon
<1>5. CASE req[n].at \in Settled
  <2>1. req[n] \in Confirm
    BY <1>2, <1>5, RequestKinds, Zenon
  <2>2. PICK h : SetReq(n, h) /\ \/ h = [req[n] EXCEPT !.at = "settling", !.ready = Ready]
                                 \/ h = [req[n] EXCEPT !.at = "confirmed"]
    BY <1>5, Zenon DEF GateStep, IsControlPlaneReady, SetControlPlaneGate, Settled
  <2>3. SetReq(n, h) /\ h.at \in Settled /\ h.ver = req[n].ver /\ h.gen = req[n].gen
    BY <2>1, <2>2, Zenon DEF Settled, Confirm
  <2>4. h.ver = cred[n].ver
    BY <1>3, <1>5, <2>3, Zenon DEF Rows, InFlight
  <2>5. h.at # "answer" /\ h.at # "confirming" /\ h.at \notin Handled
    BY <2>3, Zenon DEF Handled, Settled
  <2>6. losses' = 0 /\ current[n].ver # cred[n].ver =>
          \E p \in pending[n] : p.ver = h.ver /\ p.gen = h.gen
    BY <1>1, <1>3, <2>3, Zenon DEF Rows, HasKey
  <2> QED BY <1>1, <2>3, <2>4, <2>5, <2>6, RequestMoves, Zenon
<1>6. req[n].at \in Handled \cup Settled
  BY Zenon DEF GateStep, IsControlPlaneReady, SetControlPlaneGate, Handled, Settled
<1> QED BY <1>4, <1>5, <1>6, Zenon

\* A rotation is offered: its version is new, or has been of the same
\* generation ever since it was written.
LEMMA EnsureRows ==
    ASSUME RowsInv, TypeOK', NEW n \in Nodes, NEW aged \in BOOLEAN, Ensure(n, aged)
    PROVE  RowsInv'
<1>1. /\ req[n].at = "offering" /\ UNCHANGED <<cred, current, pending, losses>>
  BY Zenon DEF Ensure, agents, bounds
<1>2. PICK o : /\ SetReq(n, [at |-> "answer", auth |-> req[n].auth, gen |-> req[n].gen, offer |-> o])
               /\ rotation' = [rotation EXCEPT ![n] = o]
               /\ \/ o \subseteq rotation[n] /\ UNCHANGED lastVer
                  \/ /\ \A p \in o : p.ver = lastVer[n] + 1 /\ p.gen = epoch
                     /\ lastVer' = [lastVer EXCEPT ![n] = @ + 1]
  <2> DEFINE Offers(o) ==
         /\ SetReq(n, [at |-> "answer", auth |-> req[n].auth, gen |-> req[n].gen, offer |-> o])
         /\ rotation' = [rotation EXCEPT ![n] = o]
         /\ \/ o \subseteq rotation[n] /\ UNCHANGED lastVer
            \/ /\ \A p \in o : p.ver = lastVer[n] + 1 /\ p.gen = epoch
               /\ lastVer' = [lastVer EXCEPT ![n] = @ + 1]
  <2>1. \/ Offers({p \in rotation[n] : p.live})
        \/ Offers({})
        \/ Offers({[ver |-> lastVer[n] + 1, gen |-> epoch, live |-> TRUE]})
    BY DEF Ensure
  <2> HIDE DEF Offers
  <2>2. \E o : Offers(o)
    BY <2>1, Zenon
  <2> QED BY <2>2, Zenon DEF Offers
<1>3. /\ req'[n] = [at |-> "answer", auth |-> req[n].auth, gen |-> req[n].gen, offer |-> o]
      /\ rotation'[n] = o
      /\ lastVer'[n] = lastVer[n] \/ lastVer'[n] = lastVer[n] + 1
      /\ \A m \in Nodes \ {n} : /\ req'[m] = req[m] /\ rotation'[m] = rotation[m]
                                /\ lastVer'[m] = lastVer[m]
  BY <1>2, Zenon DEF SetReq, RowsInv, TypeOK
<1>4. /\ cred[n].ver \in Nat /\ lastVer[n] \in Nat
      /\ \A p \in rotation[n] \cup pending[n] : p.ver \in Nat
  BY DEF RowsInv, TypeOK, Credential, Pending
<1>5. Successors(n)' = pending[n] \cup o /\ Offered(n) = {}
  BY <1>1, <1>3 DEF Successors, Offered
<1>6. Versions(n) /\ OneGeneration(n)
  BY Zenon DEF RowsInv, Rows
<1>7. \/ o \subseteq rotation[n] /\ lastVer'[n] = lastVer[n]
      \/ (\A p \in o : p.ver = lastVer[n] + 1 /\ p.gen = epoch) /\ lastVer'[n] = lastVer[n] + 1
  BY <1>2, Zenon DEF RowsInv, TypeOK
<1>8. /\ cred[n].ver <= lastVer[n] /\ current[n].ver <= cred[n].ver
      /\ \A p \in rotation[n] : cred[n].ver < p.ver /\ p.ver <= lastVer[n]
      /\ \A p \in pending[n] : p.ver <= lastVer[n]
  BY <1>6, Zenon DEF Versions, Successors
<1>9. /\ current[n].ver = cred[n].ver => current[n].gen = cred[n].gen
      /\ \A p, q \in rotation[n] : p.ver = q.ver => p.gen = q.gen
      /\ \A p \in pending[n] : p.ver = cred[n].ver => p.gen = cred[n].gen
      /\ \A p \in pending[n], q \in rotation[n] : p.ver = q.ver => p.gen = q.gen
  BY <1>6, Zenon DEF OneGeneration, Successors
<1>10. Versions(n)'
  BY <1>1, <1>3, <1>4, <1>5, <1>7, <1>8 DEF Versions
<1>11. OneGeneration(n)'
  <2>1. \A p, q \in o : p.ver = q.ver => p.gen = q.gen
    BY <1>7, <1>9, Zenon
  <2>2. \A p \in o : p.ver # cred[n].ver
    BY <1>4, <1>7, <1>8
  <2>3. \A p \in pending[n], q \in o : p.ver = q.ver => p.gen = q.gen
    BY <1>4, <1>7, <1>8, <1>9
  <2> QED BY <1>1, <1>3, <1>5, <1>9, <2>1, <2>2, <2>3, Zenon DEF OneGeneration
<1>12. InFlight(n)' /\ HasKey(n)'
  BY <1>1, <1>3, SignsWithCredential DEF InFlight, HasKey, Handled, Settled
<1> QED BY <1>1, <1>3, <1>10, <1>11, <1>12, OthersStay, Zenon DEF Rows

\* The Agent stores an offer, or gives a successor up.
LEMMA PendingRows ==
    ASSUME RowsInv, TypeOK', NEW n \in Nodes,
           ClearExpired(n) \/ ReceiveAnswer(n) \/ DropCredential(n)
    PROVE  RowsInv'
<1>1. /\ req[n].at \notin Settled /\ req[n].at # "confirming"
      /\ UNCHANGED <<cred, rotation, lastVer, current, losses>>
  BY DEF ClearExpired, ReceiveAnswer, DropCredential, None, Settled, database, bounds
<1>2. req'[n] = None /\ \A m \in Nodes \ {n} : req'[m] = req[m] /\ pending'[m] = pending[m]
  BY DEF ClearExpired, ReceiveAnswer, DropCredential, SetReq, RowsInv, TypeOK
<1>3. pending'[n] \subseteq Successors(n)
  <2>1. CASE ClearExpired(n) \/ DropCredential(n)
    BY <2>1 DEF ClearExpired, DropCredential, Successors, RowsInv, TypeOK
  <2>2. CASE ReceiveAnswer(n)
    <3>1. Offered(n) = req[n].offer
      BY <2>2, Zenon DEF ReceiveAnswer, Offered
    <3>2. pending'[n] = pending[n] \/ pending'[n] = {p \in req[n].offer : AcceptsOffer(n, p)}
      BY <2>2, Zenon DEF ReceiveAnswer, RowsInv, TypeOK
    <3> QED BY <3>1, <3>2, Zenon DEF Successors
  <2> QED BY <2>1, <2>2, Zenon
<1>4. Successors(n)' \subseteq Successors(n)
  BY <1>2, <1>3 DEF Successors, Offered, None
<1>5. Versions(n) /\ OneGeneration(n)
  BY Zenon DEF RowsInv, Rows
<1>6. Versions(n)' /\ OneGeneration(n)'
  BY <1>1, <1>4, <1>5, Zenon DEF Versions, OneGeneration
<1>7. InFlight(n)' /\ HasKey(n)'
  BY <1>1, <1>2, SignsWithCredential DEF InFlight, HasKey, Handled, Settled, None
<1> QED BY <1>1, <1>2, <1>6, <1>7, OthersStay, Zenon DEF Rows

\* A successor that expires keeps its version and its generation.
LEMMA ExpireRows ==
    ASSUME RowsInv, TypeOK', NEW n \in Nodes, Expire(n)
    PROVE  RowsInv'
<1>1. UNCHANGED <<cred, lastVer, current, losses>>
  BY Zenon DEF Expire
<1>2. PICK v : /\ rotation' = [rotation EXCEPT ![n] = Lapsed(@, v)]
               /\ pending' = [pending EXCEPT ![n] = Lapsed(@, v)]
               /\ req' = IF req[n].at = "answer" THEN [req EXCEPT ![n].offer = Lapsed(@, v)] ELSE req
  BY Zenon DEF Expire
<1>3. rotation[n] \in SUBSET Pending /\ pending[n] \in SUBSET Pending /\ req[n] \in Request
  BY Zenon DEF RowsInv, TypeOK, Request
<1>4. /\ rotation'[n] = Lapsed(rotation[n], v) /\ pending'[n] = Lapsed(pending[n], v)
      /\ \A m \in Nodes \ {n} : /\ rotation'[m] = rotation[m] /\ pending'[m] = pending[m]
                                /\ req'[m] = req[m]
  BY <1>2 DEF RowsInv, TypeOK
<1>5. /\ req'[n].at = req[n].at
      /\ req[n].at # "answer" => req'[n] = req[n]
      /\ req[n].at = "answer" => req[n].offer \in SUBSET Pending
                                 /\ req'[n].offer = Lapsed(req[n].offer, v)
  <2>1. CASE req[n].at = "answer"
    <3>1. req[n] \in Answer
      BY <1>3, <2>1, RequestKinds, Zenon
    <3>2. req'[n] = [req[n] EXCEPT !.offer = Lapsed(req[n].offer, v)]
      BY <1>2, <2>1, Zenon DEF RowsInv, TypeOK
    <3> QED BY <2>1, <3>1, <3>2, Zenon DEF Answer
  <2>2. CASE req[n].at # "answer"
    BY <1>2, <2>2, Zenon
  <2> QED BY <2>1, <2>2, Zenon
<1>6. \A p \in rotation'[n] : \E q \in rotation[n] : p.ver = q.ver /\ p.gen = q.gen
  BY <1>3, <1>4, LapsedAre
<1>7. \A p \in Successors(n)' : \E q \in Successors(n) : p.ver = q.ver /\ p.gen = q.gen
  <2>1. \A p \in pending'[n] : \E q \in pending[n] : p.ver = q.ver /\ p.gen = q.gen
    BY <1>3, <1>4, LapsedAre
  <2>2. \A p \in Offered(n)' : \E q \in Offered(n) : p.ver = q.ver /\ p.gen = q.gen
    BY <1>5, LapsedAre DEF Offered
  <2> QED BY <2>1, <2>2, Zenon DEF Successors
<1>8. \A q \in pending[n] : \E p \in pending'[n] : p.ver = q.ver /\ p.gen = q.gen
  BY <1>3, <1>4, LapsedAre
<1>9. Versions(n) /\ OneGeneration(n) /\ InFlight(n) /\ HasKey(n)
  BY Zenon DEF RowsInv, Rows
<1>10. Versions(n)'
  BY <1>1, <1>6, <1>7, <1>9, Zenon DEF Versions
<1>11. OneGeneration(n)'
  BY <1>1, <1>6, <1>7, <1>9 DEF OneGeneration
<1>12. InFlight(n)'
  BY <1>1, <1>5, <1>8, <1>9 DEF InFlight, Handled, Settled
<1>13. HasKey(n)'
  BY <1>1, <1>5, <1>8, <1>9 DEF HasKey, Settled
<1> QED BY <1>1, <1>4, <1>10, <1>11, <1>12, <1>13, OthersStay, Zenon DEF Rows

\* The Controller activates a successor that the Agent has stored.
LEMMA ActivateRows ==
    ASSUME RowsInv, TypeOK', NEW n \in Nodes, ActivateRotation(n)
    PROVE  RowsInv'
<1>1. req[n].at = "confirming" /\ UNCHANGED <<lastVer, current, pending, losses>>
  BY Zenon DEF ActivateRotation, agents, bounds
<1>2. PICK q \in rotation[n] : q.ver = req[n].ver /\ q.gen = epoch
  BY Zenon DEF ActivateRotation, Confirms
<1>3. req[n] \in Confirm
  BY <1>1, RequestKinds, Zenon DEF RowsInv, TypeOK, Request
<1>4. /\ cred'[n].ver = req[n].ver /\ cred'[n].gen = epoch /\ rotation'[n] = {}
      /\ req'[n].at = "activated" /\ req'[n].ver = req[n].ver /\ req'[n].gen = epoch
      /\ \A m \in Nodes \ {n} : /\ cred'[m] = cred[m] /\ rotation'[m] = rotation[m]
                                /\ req'[m] = req[m]
  BY <1>3 DEF ActivateRotation, SetReq, RowsInv, TypeOK, Confirm
<1>5. /\ q.ver \in Nat /\ cred[n].ver \in Nat /\ lastVer[n] \in Nat /\ current[n].ver \in Nat
  BY DEF RowsInv, TypeOK, Credential, Pending
<1>6. Versions(n) /\ OneGeneration(n) /\ InFlight(n)
  BY Zenon DEF RowsInv, Rows
<1>7. current[n].ver < q.ver /\ q.ver <= lastVer[n]
  BY <1>5, <1>6 DEF Versions
<1>8. \A p \in pending[n] : p.ver <= lastVer[n] /\ (p.ver = q.ver => p.gen = epoch)
  BY <1>2, <1>6, Zenon DEF Versions, OneGeneration, Successors
<1>9. \E p \in pending[n] : p.ver = req[n].ver
  BY <1>1, <1>6, Zenon DEF InFlight
<1>10. Successors(n)' = pending[n]
  BY <1>1, <1>4, ZenonT(60) DEF Successors, Offered
<1>11. Versions(n)'
  BY <1>1, <1>2, <1>4, <1>5, <1>7, <1>8, <1>10 DEF Versions
<1>12. OneGeneration(n)'
  BY <1>1, <1>2, <1>4, <1>5, <1>7, <1>8, <1>10 DEF OneGeneration
<1>13. InFlight(n)' /\ HasKey(n)'
  BY <1>1, <1>2, <1>4, <1>8, <1>9, Zenon DEF InFlight, HasKey, Handled, Settled
<1> QED BY <1>1, <1>4, <1>11, <1>12, <1>13, OthersStay, Zenon DEF Rows

\* The Agent adopts what the Controller has activated.
LEMMA AdoptRows ==
    ASSUME RowsInv, TypeOK', NEW n \in Nodes, AdoptCredential(n)
    PROVE  RowsInv'
<1>1. req[n].at = "confirmed" /\ UNCHANGED <<cred, rotation, lastVer, losses>>
  BY Zenon DEF AdoptCredential, database, bounds
<1>2. /\ req'[n] = None
      /\ \A m \in Nodes \ {n} : /\ req'[m] = req[m] /\ pending'[m] = pending[m]
                                /\ current'[m] = current[m]
  BY DEF AdoptCredential, SetReq, RowsInv, TypeOK
<1>3. Versions(n) /\ OneGeneration(n) /\ InFlight(n) /\ HasKey(n)
  BY DEF RowsInv, Rows
<1>4. req[n].ver = cred[n].ver /\ cred[n].ver \in Nat
  BY <1>1, <1>3, Zenon DEF InFlight, Settled, RowsInv, TypeOK, Credential
<1>5. \/ /\ \E p \in pending[n] : p.ver = cred[n].ver /\ p.gen = req[n].gen
         /\ current'[n] = [ver |-> cred[n].ver, gen |-> req[n].gen] /\ pending'[n] = {}
      \/ /\ ~\E p \in pending[n] : p.ver = cred[n].ver /\ p.gen = req[n].gen
         /\ current'[n] = current[n] /\ pending'[n] = pending[n]
  BY <1>4 DEF AdoptCredential, RowsInv, TypeOK
<1>6. \A p \in pending[n] : p.ver = cred[n].ver => p.gen = cred[n].gen
  BY <1>3, Zenon DEF OneGeneration, Successors
<1>7. Successors(n)' \subseteq Successors(n)
  BY <1>2, <1>5 DEF Successors, Offered, None
<1>8. Versions(n)'
  BY <1>1, <1>3, <1>4, <1>5, <1>7, SMTT(40) DEF Versions
<1>9. OneGeneration(n)'
  BY <1>1, <1>3, <1>5, <1>6, <1>7, SMTT(40) DEF OneGeneration
<1>10. losses' = 0 => current'[n].ver = cred'[n].ver
  BY <1>1, <1>3, <1>4, <1>5, SMTT(40) DEF HasKey
<1>11. InFlight(n)' /\ HasKey(n)'
  BY <1>2, <1>10 DEF InFlight, HasKey, Handled, Settled, None
<1> QED BY <1>1, <1>2, <1>8, <1>9, <1>11, OthersStay, Zenon DEF Rows

\* A promotion revokes successors and changes no credential.
LEMMA PromoteRows ==
    ASSUME RowsInv, TypeOK', PromoteControllerEpoch
    PROVE  RowsInv'
<1>1. UNCHANGED <<cred, lastVer, current, pending, req, losses>>
  BY Zenon DEF PromoteControllerEpoch, agents, bounds
<1> SUFFICES ASSUME NEW n \in Nodes PROVE Rows(n)'
  BY Zenon DEF RowsInv
<1>2. rotation'[n] \subseteq rotation[n]
  BY Zenon DEF PromoteControllerEpoch
<1>3. Versions(n) /\ OneGeneration(n) /\ InFlight(n) /\ HasKey(n)
  BY Zenon DEF RowsInv, Rows
<1>4. Successors(n)' = Successors(n)
  BY <1>1, Zenon DEF Successors, Offered
<1>5. Versions(n)' /\ OneGeneration(n)'
  BY <1>1, <1>2, <1>3, <1>4, Zenon DEF Versions, OneGeneration
<1>6. InFlight(n)' /\ HasKey(n)'
  BY <1>1, <1>3, Zenon DEF InFlight, HasKey
<1> QED BY <1>5, <1>6, Zenon DEF Rows

\* Every step keeps the rows in order.
LEMMA RowsStep ==
    ASSUME RowsInv, [Next]_vars
    PROVE  RowsInv'
<1>0. TypeOK'
  BY TypeStep, Zenon DEF RowsInv
<1>1. ASSUME NEW n \in Nodes, LeaveManaged(n) \/ MarkStaleNodesOffline(n) PROVE RowsInv'
  <2>1. UNCHANGED <<cred, rotation, lastVer, current, pending, req, losses>>
    BY <1>1, Zenon DEF LeaveManaged, MarkStaleNodesOffline, database, agents
  <2>2. Successors(n)' = Successors(n)
    BY <2>1, Zenon DEF Successors, Offered
  <2>3. Rows(n)
    BY Zenon DEF RowsInv
  <2>4. Rows(n)'
    BY <2>1, <2>2, <2>3, Zenon DEF Rows, Versions, OneGeneration, InFlight, HasKey
  <2> QED BY <1>0, <2>1, <2>4, OthersStay, Zenon
<1>2. ASSUME NEW n \in Nodes, HeartbeatStep(n) \/ Ensure(n, TRUE) PROVE RowsInv'
  BY <1>0, <1>2, HeartbeatRows, EndedRows, EnsureRows, PendingRows, Zenon DEF HeartbeatStep
<1>3. ASSUME NEW n \in Nodes, ConfirmStep(n) PROVE RowsInv'
  BY <1>0, <1>3, ActivateRows, ConfirmRows, AdoptRows, PendingRows, Zenon DEF ConfirmStep
<1>4. CASE UNCHANGED vars
  <2>1. UNCHANGED <<cred, rotation, lastVer, current, pending, req, losses>>
    BY <1>4, Zenon DEF vars, database, agents, bounds
  <2> SUFFICES ASSUME NEW n \in Nodes PROVE Rows(n)'
    BY <1>0, Zenon DEF RowsInv
  <2>2. Successors(n)' = Successors(n)
    BY <2>1, Zenon DEF Successors, Offered
  <2>3. Rows(n)
    BY DEF RowsInv
  <2> QED BY <2>1, <2>2, <2>3, Zenon DEF Rows, Versions, OneGeneration, InFlight, HasKey
<1> QED BY <1>0, <1>1, <1>2, <1>3, <1>4, PromoteRows, ExpireRows, PendingRows, EndedRows, Zenon,
           BeginRows, GateRows DEF Next

---------------------------------------------------------------------------
(* What the database records of the nodes.                                 *)

\* A rebuild succeeds only when every node is reconciled.
LEMMA StateOfSucceeded ==
    ASSUME NEW items, StateOf(items) = "succeeded" PROVE Reached(items, {"reconciled"})
BY Zenon DEF StateOf

\* Deferring reconciles nobody.
LEMMA DeferredAre ==
    ASSUME NEW items \in [Nodes -> Item], NEW up, NEW m \in Nodes,
           Deferred(items, up)[m].state = "reconciled"
    PROVE  items[m].state = "reconciled"
<1>1. items[m] \in Item
  BY Zenon
<1>2. [items[m] EXCEPT !.state = "deferred"].state = "deferred"
  BY <1>1, Zenon DEF Item
<1> QED BY <1>2, Zenon DEF Deferred

\* An item becomes reconciled only where it is updated to be, and the rebuild
\* succeeds only with the last of them.
LEMMA UpdateRecords ==
    ASSUME TypeOK, RecordedInv, NEW n \in Nodes, NEW new \in Item, UpdateItem(n, new)
    PROVE  /\ \A m \in Nodes : item'[m].state = "reconciled" =>
                 item[m].state = "reconciled" \/ (m = n /\ new.state = "reconciled")
           /\ rebuild' = "succeeded" => Reached(item', {"reconciled"})
<1>1. CASE rebuild \notin OpenRebuild
  <2>1. UNCHANGED <<item, rebuild>>
    BY <1>1, Zenon DEF UpdateItem
  <2> QED BY <2>1, Zenon DEF RecordedInv
<1>2. CASE rebuild \in OpenRebuild
  <2>1. PICK is : is = [item EXCEPT ![n] = new]
    BY Zenon
  <2>2. is \in [Nodes -> Item] /\ is[n] = new /\ \A m \in Nodes \ {n} : is[m] = item[m]
    BY <2>1, Zenon DEF TypeOK
  <2>3. item' = Deferred(is, online) /\ rebuild' = StateOf(item')
    BY <1>2, <2>1, Zenon DEF UpdateItem
  <2>4. \A m \in Nodes : item'[m].state = "reconciled" => is[m].state = "reconciled"
    BY <2>2, <2>3, DeferredAre, Zenon
  <2>5. rebuild' = "succeeded" => Reached(item', {"reconciled"})
    BY <2>3, StateOfSucceeded, Zenon
  <2> QED BY <2>2, <2>4, <2>5, Zenon
<1> QED BY <1>1, <1>2, Zenon

\* Steps that reconcile nobody keep what is recorded.
LEMMA RecordedStays ==
    ASSUME RecordedInv, UNCHANGED <<epoch, cred, nodeGen, online>>,
           \A n \in Nodes : item'[n].state = "reconciled" => item[n].state = "reconciled",
           rebuild' = "succeeded" => Reached(item', {"reconciled"})
    PROVE  RecordedInv'
BY Zenon DEF RecordedInv, Recorded, Reached

\* A heartbeat records its node as reconciled only under the active generation.
LEMMA ReconcileRecords ==
    ASSUME RowsInv, RecordedInv, NEW n \in Nodes, ReconcileCurrent(n) \/ ReconcileRecovery(n)
    PROVE  RecordedInv'
<1>1. req[n].auth = cred[n].gen /\ epoch \in Nat
  BY DEF ReconcileCurrent, ReconcileRecovery, RowsInv, Rows, InFlight, Handled, TypeOK, Generations
<1>2. UNCHANGED <<epoch, cred, online>> /\ MarkHeartbeat(n, req[n].auth, req[n].managed)
  BY Zenon DEF ReconcileCurrent, ReconcileRecovery
<1>3. item[n] \in Item
  BY Zenon DEF RowsInv, TypeOK
<1>4. PICK s : s = IF item[n].state = "reconciled" \/ (req[n].auth = epoch /\ req[n].managed)
                   THEN "reconciled"
                   ELSE IF req[n].auth = epoch THEN "draining"
                   ELSE IF item[n].state \in {"deferred", "rotation_pending"} THEN item[n].state
                   ELSE "heartbeat_verified"
  BY Zenon
<1>5. PICK new : new = [item[n] EXCEPT !.heard = TRUE, !.state = s]
  BY Zenon
<1>6. UpdateItem(n, new)
  BY <1>2, <1>3, <1>4, <1>5, Zenon DEF MarkHeartbeat, Item
<1>7. new \in Item /\ new.state = s
  BY <1>3, <1>4, <1>5, Zenon DEF Item, ItemStates
<1>8. s = "reconciled" => item[n].state = "reconciled" \/ cred[n].gen = epoch
  BY <1>1, <1>4, Zenon
<1>9. /\ \A m \in Nodes : item'[m].state = "reconciled" =>
            item[m].state = "reconciled" \/ (m = n /\ new.state = "reconciled")
      /\ rebuild' = "succeeded" => Reached(item', {"reconciled"})
  BY <1>6, <1>7, UpdateRecords, Zenon DEF RowsInv
<1>10. \A m \in Nodes : item'[m].state = "reconciled" => cred[m].gen = epoch
  BY <1>7, <1>8, <1>9, Zenon DEF RecordedInv, Recorded
<1>11. \A m \in Nodes : nodeGen'[m] = nodeGen[m]
                        \/ (m = n /\ nodeGen'[m] = epoch /\ cred[m].gen = epoch)
  BY <1>1, Zenon DEF ReconcileCurrent, ReconcileRecovery, RowsInv, TypeOK
<1> QED BY <1>2, <1>9, <1>10, <1>11, Zenon DEF RecordedInv, Recorded

\* A confirmation moves the node into the generation of its new credential.
LEMMA ActivateRecords ==
    ASSUME RowsInv, RecordedInv, NEW n \in Nodes, ActivateRotation(n) \/ AlreadyActivated(n)
    PROVE  RecordedInv'
<1>1. UNCHANGED <<epoch, online>> /\ MarkCredentialActivated(n)
  BY Zenon DEF ActivateRotation, AlreadyActivated
<1>2. \A m \in Nodes : \/ cred'[m] = cred[m] /\ nodeGen'[m] = nodeGen[m]
                       \/ cred'[m].gen = epoch /\ nodeGen'[m] = epoch
  BY DEF ActivateRotation, AlreadyActivated, RowsInv, TypeOK
<1>3. item[n] \in Item
  BY DEF RowsInv, TypeOK
<1>4. PICK new : new = [item[n] EXCEPT !.state = IF online[n] THEN "credential_activated"
                                                 ELSE "deferred"]
  BY Zenon
<1>5. new \in Item /\ new.state # "reconciled"
  BY <1>3, <1>4, Zenon DEF Item, ItemStates
<1>6. UpdateItem(n, new)
  BY <1>1, <1>4, Zenon DEF MarkCredentialActivated
<1>7. /\ \A m \in Nodes : item'[m].state = "reconciled" => item[m].state = "reconciled"
      /\ rebuild' = "succeeded" => Reached(item', {"reconciled"})
  BY <1>5, <1>6, UpdateRecords, Zenon DEF RowsInv
<1> QED BY <1>1, <1>2, <1>7, Zenon DEF RecordedInv, Recorded

\* Every step keeps what is recorded of the nodes.
LEMMA RecordedStep ==
    ASSUME RowsInv, RecordedInv, [Next]_vars
    PROVE  RecordedInv'
<1>1. CASE PromoteControllerEpoch
  <2>1. epoch' \in Nat \ {0}
    BY <1>1 DEF PromoteControllerEpoch, RowsInv, TypeOK, Generations
  <2>2. \A n \in Nodes : nodeGen'[n] = 0 /\ ~online'[n] /\ item'[n].state # "reconciled"
    BY <1>1, Zenon DEF PromoteControllerEpoch
  <2>3. rebuild' = "succeeded" => Reached(item', {"reconciled"})
    BY <1>1, StateOfSucceeded, Zenon DEF PromoteControllerEpoch
  <2> QED BY <2>1, <2>2, <2>3, Zenon DEF RecordedInv, Recorded
<1>2. ASSUME NEW n \in Nodes, MarkStaleNodesOffline(n) PROVE RecordedInv'
  <2>1. UNCHANGED <<epoch, cred, nodeGen>> /\ \A m \in Nodes : online'[m] => online[m]
    BY <1>2, Zenon DEF MarkStaleNodesOffline, RowsInv, TypeOK
  <2>2. /\ \A m \in Nodes : item'[m].state = "reconciled" => item[m].state = "reconciled"
        /\ rebuild' = "succeeded" => Reached(item', {"reconciled"})
    <3>1. CASE UNCHANGED <<item, rebuild>>
      BY <3>1, Zenon DEF RecordedInv, Reached
    <3>2. CASE ~UNCHANGED <<item, rebuild>>
      <4>1. PICK is : is = [item EXCEPT ![n].state = "deferred"]
        BY Zenon
      <4>2. is \in [Nodes -> Item] /\ is[n].state = "deferred"
            /\ \A m \in Nodes \ {n} : is[m] = item[m]
        BY <4>1 DEF RowsInv, TypeOK, Item, ItemStates
      <4>3. item' = Deferred(is, online') /\ rebuild' = StateOf(item')
        BY <1>2, <3>2, <4>1, Zenon DEF MarkStaleNodesOffline
      <4>4. \A m \in Nodes : item'[m].state = "reconciled" => is[m].state = "reconciled"
        BY <4>2, <4>3, DeferredAre, Zenon
      <4>5. rebuild' = "succeeded" => Reached(item', {"reconciled"})
        BY <4>3, StateOfSucceeded, Zenon
      <4> QED BY <4>2, <4>4, <4>5, Zenon
    <3> QED BY <3>1, <3>2, Zenon
  <2> QED BY <2>1, <2>2, Zenon DEF RecordedInv, Recorded
<1>3. ASSUME NEW n \in Nodes, UpdateNodeHeartbeat(n) \/ UpdateNodeRecoveryHeartbeat(n)
      PROVE  RecordedInv'
  <2>1. UNCHANGED <<epoch, cred, nodeGen, item, rebuild>>
    BY <1>3, Zenon DEF UpdateNodeHeartbeat, UpdateNodeRecoveryHeartbeat
  <2>2. \A m \in Nodes : online'[m] => online[m] \/ nodeGen[m] = epoch
    BY <1>3, Zenon DEF UpdateNodeHeartbeat, UpdateNodeRecoveryHeartbeat, UpdatesOnline, RowsInv, TypeOK
  <2> QED BY <2>1, <2>2, Zenon DEF RecordedInv, Recorded, Reached
<1>4. ASSUME NEW n \in Nodes, NEW aged, Ensure(n, aged) PROVE RecordedInv'
  <2>1. UNCHANGED <<epoch, cred, nodeGen, online, rebuild>>
    BY <1>4, Zenon DEF Ensure, MarkRotationPending
  <2>2. \A m \in Nodes : item'[m].state = "reconciled" => item[m].state = "reconciled"
    BY <1>4 DEF Ensure, MarkRotationPending, RowsInv, TypeOK, Item
  <2>3. rebuild = "succeeded" => UNCHANGED item
    BY <1>4, Zenon DEF Ensure, MarkRotationPending, OpenRebuild
  <2> QED BY <2>1, <2>2, <2>3, RecordedStays, Zenon DEF RecordedInv, Reached
<1>5. UNCHANGED <<epoch, cred, nodeGen, online, item, rebuild>> => RecordedInv'
  BY RecordedStays, Zenon DEF RecordedInv, Reached
<1>6. ASSUME NEW n \in Nodes, HeartbeatStep(n) PROVE RecordedInv'
  <2>1. CASE UpdateRefused(n) \/ CloseGate(n) \/ LeaveGate(n) \/ EnsureRefused(n) \/ ReceiveAnswer(n)
    BY <1>5, <2>1, Zenon DEF UpdateRefused, CloseGate, LeaveGate, EnsureRefused, ReceiveAnswer, database
  <2> QED BY <1>3, <1>4, <1>6, <2>1, ReconcileRecords, Zenon DEF HeartbeatStep
<1>7. ASSUME NEW n \in Nodes, ConfirmStep(n) PROVE RecordedInv'
  <2>1. CASE ActivateRefused(n) \/ AdoptCredential(n) \/ DropCredential(n)
    BY <1>5, <2>1, Zenon DEF ActivateRefused, AdoptCredential, DropCredential, database
  <2> QED BY <1>7, <2>1, ActivateRecords, Zenon DEF ConfirmStep
<1>8. ASSUME NEW n \in Nodes,
             \/ LeaveManaged(n) \/ Expire(n) \/ ClearExpired(n) \/ LoseAnswer(n)
             \/ BeginHeartbeat(n) \/ BeginConfirm(n) \/ GateStep(n)
      PROVE  RecordedInv'
  BY <1>5, <1>8, Zenon DEF LeaveManaged, Expire, ClearExpired, LoseAnswer, BeginHeartbeat,
     BeginConfirm, GateStep, IsControlPlaneReady, SetControlPlaneGate, database
<1>9. CASE UNCHANGED vars
  BY <1>5, <1>9, Zenon DEF vars, database
<1> QED BY <1>1, <1>2, <1>4, <1>6, <1>7, <1>8, <1>9, Zenon DEF Next

---------------------------------------------------------------------------

\* The strengthened invariant holds in every reachable state.
THEOREM RebuildInvariant == Spec => [](RowsInv /\ RecordedInv)
<1>1. Init => TypeOK
  <2> SUFFICES ASSUME Init PROVE TypeOK
    BY Zenon
  <2>1. epoch \in Generations
    BY RebuildAssumption DEF Init, Generations
  <2> QED BY <2>1, Zenon DEF Init, TypeOK, Credential, Item, ItemStates, OpenRebuild
<1>2. Init => RowsInv /\ RecordedInv
  <2> SUFFICES ASSUME Init PROVE RowsInv /\ RecordedInv
    BY Zenon
  <2>1. ASSUME NEW n \in Nodes
        PROVE  /\ cred[n].ver = 1 /\ cred[n].gen = 1 /\ current[n] = cred[n] /\ lastVer[n] = 1
               /\ rotation[n] = {} /\ pending[n] = {} /\ req[n].at = "none"
               /\ nodeGen[n] = 1 /\ epoch = 1 /\ item[n].state = "none"
    BY Zenon DEF Init, None
  <2>2. ASSUME NEW n \in Nodes PROVE Rows(n)
    <3>1. Successors(n) = {}
      BY <2>1, Zenon DEF Successors, Offered
    <3> QED BY <2>1, <3>1 DEF Rows, Versions, OneGeneration, InFlight, HasKey, Handled, Settled
  <2>3. ASSUME NEW n \in Nodes PROVE Recorded(n)
    BY <2>1, Zenon DEF Recorded
  <2>4. rebuild # "succeeded"
    BY Zenon DEF Init
  <2> QED BY <1>1, <2>2, <2>3, <2>4, Zenon DEF RowsInv, RecordedInv
<1> QED BY <1>2, RowsStep, RecordedStep, PTL DEF Spec

\* Whatever promotions, expiries, losses and outages interleave with its heartbeats
\* and confirmations, neither what the database says of a node (its generation,
\* online, reconciled) nor what its Agent signs with runs ahead of the credential the
\* Controller has activated (ReconcileNodeControlModeAuthenticated,
\* updateNodeHeartbeat, finishControllerRebuildIfReadyLocked).
THEOREM NothingRunsAheadTheorem == Spec => []NothingRunsAhead
<1>1. RowsInv /\ RecordedInv => NothingRunsAhead
  <2> SUFFICES ASSUME RowsInv, RecordedInv PROVE NothingRunsAhead
    BY Zenon
  <2>1. FenceFollowsCredential /\ OnlineIsCurrent
    BY Zenon DEF RecordedInv, Recorded, FenceFollowsCredential, OnlineIsCurrent
  <2>2. ReconciledIsRotated
    BY Zenon DEF RecordedInv, Recorded, ReconciledIsRotated, Reached
  <2>3. AgentFollows
    BY Zenon DEF RowsInv, Rows, Versions, OneGeneration, Successors, AgentFollows
  <2> QED BY <2>1, <2>2, <2>3, Zenon DEF NothingRunsAhead
<1> QED BY <1>1, RebuildInvariant, PTL

\* An Agent none of whose answers was lost can always still prove who it is, in the
\* middle of any rotation and across any promotion
\* (resumeControllerCredentialRotation, ActivateAgentCredentialRotation).
THEOREM NotLockedOutTheorem == Spec => []NotLockedOut
<1>1. RowsInv => NotLockedOut
  BY Zenon DEF RowsInv, Rows, InFlight, HasKey, NotLockedOut, KeepsAKey, Settled
<1> QED BY <1>1, RebuildInvariant, PTL

------------------------------------------------------------------------------
(* Relay, what the Controller stores for a snapshot on its way: for any     *)
(* archives, either protocol, and any number of parts, attempts, runs,      *)
(* requests, generations and faults.                                        *)
(*                                                                          *)
(* A stored ciphertext fits its digest because a task that is being         *)
(* uploaded keeps the archive of its first claim for as long as a request   *)
(* of it is alive: in the multipart protocol nothing gives a claim up, and  *)
(* in the legacy one the request that does is the only one of its task.     *)

RowStates == {"none", "prepared", "uploading", "stored", "downloading", "consumed", "expired"}

RelayRow == [st : RowStates, archive : Archives \cup {0}, cipher : Nat, path : Nat,
             lease : BOOLEAN, gen : Nat]
UploadRequest == [run : Nat, op : {"none", "put", "part", "complete"}, written : BOOLEAN,
            deaf : BOOLEAN]
SourceRun == [pc : {"idle", "begin", "parts", "stored", "failed"}, task : Nat, run : Nat,
              sent : Nat, wait : BOOLEAN]
RunFacts == [task : Tasks, archive : Archives]

\* Types of what decides about the rows.
UploadTypes ==
    /\ row \in [Tasks -> RelayRow] /\ gen \in Nat
    /\ call \in [Calls -> UploadRequest] /\ src \in SourceRun
    /\ runs \in Seq(RunFacts) /\ multipart \in BOOLEAN

\* The source uploads for the task its run is of, and parts only in the
\* multipart protocol.
Sourced ==
    /\ src.pc \in {"begin", "parts"} => src.run \in 1..Len(runs) /\ TaskOf(src.run) = src.task
    /\ src.pc = "parts" => multipart

\* A request belongs to a run.  Its task has been claimed, and as long as it is
\* being uploaded the claim is for the archive of that run: no later claim
\* changes it, since in the multipart protocol nothing gives a claim up, and in
\* the legacy one the request that does is the only one of its task.
Requests ==
    \A i \in Calls :
       /\ call[i].op # "none" \/ call[i].written => call[i].run # 0
       /\ call[i].run # 0 =>
            /\ call[i].run \in 1..Len(runs)
            /\ call[i].op = "put" => ~multipart
            /\ row[TaskOf(call[i].run)].st \notin {"none", "prepared"}
            /\ row[TaskOf(call[i].run)].st = "uploading" =>
                 row[TaskOf(call[i].run)].archive = ArchiveOf(call[i].run)
            /\ ~multipart => \A j \in Calls \ {i} : call[j].run # 0 =>
                               TaskOf(call[j].run) # TaskOf(call[i].run)

\* A ciphertext was stored once, under the archive of the claim.
RowsHold ==
    \A t \in Tasks :
       /\ row[t].st = "uploading" => row[t].archive # 0
       /\ row[t].cipher # 0 =>
            /\ row[t].st \in Kept \cup {"expired"}
            /\ row[t].cipher \in 1..Len(runs)
            /\ TaskOf(row[t].cipher) = t
            /\ ArchiveOf(row[t].cipher) = row[t].archive

UploadInv == UploadTypes /\ Sourced /\ Requests /\ RowsHold

------------------------------------------------------------------------------
(* What the steps have in common. *)

\* The empty records have their types.
LEMMA Empties == NoRow \in RelayRow /\ NoCall \in UploadRequest /\ NoSource \in SourceRun
  BY DEF NoRow, NoCall, NoSource, RelayRow, UploadRequest, SourceRun, RowStates

\* A run is of a task and has an archive.
LEMMA RunParts ==
  ASSUME UploadTypes, NEW r \in 1..Len(runs)
  PROVE  r # 0 /\ TaskOf(r) \in Tasks /\ ArchiveOf(r) \in Archives /\ ArchiveOf(r) # 0
  <1>1. runs \in Seq(RunFacts)
    BY Zenon DEF UploadTypes
  <1>2. runs[r] \in RunFacts /\ r # 0
    BY <1>1
  <1>3. r # 0 /\ TaskOf(r) \in Tasks /\ ArchiveOf(r) \in Archives
    BY <1>2 DEF TaskOf, ArchiveOf, RunFacts
  <1> QED BY <1>3, RelayAssumption DEF RelayAssumption

\* The source stays with its run, or no longer uploads.
LEMMA SourceStays ==
  ASSUME Sourced, runs' = runs, multipart' = multipart,
         src'.pc \in {"begin", "parts"} =>
           /\ src.pc \in {"begin", "parts"} /\ src'.run = src.run /\ src'.task = src.task,
         src'.pc = "parts" => src.pc = "parts" \/ multipart
  PROVE  Sourced'
  BY Zenon DEF Sourced, TaskOf

\* Nothing that decides about the rows changes.
LEMMA UploadStays ==
  ASSUME UploadInv, row' = row, gen' = gen, call' = call, src' = src, runs' = runs,
         multipart' = multipart
  PROVE  UploadInv'
  <1>1. UploadTypes'
    BY Zenon DEF UploadInv, UploadTypes
  <1>2. Sourced'
    BY SourceStays, Zenon DEF UploadInv
  <1>3. Requests'
    BY Zenon DEF UploadInv, Requests, TaskOf, ArchiveOf
  <1>4. RowsHold'
    BY Zenon DEF UploadInv, RowsHold, TaskOf, ArchiveOf
  <1> QED BY <1>1, <1>2, <1>3, <1>4, Zenon DEF UploadInv

\* The requests after a step that starts no run.
LEMMA RequestsNext ==
  ASSUME runs' = runs, multipart' = multipart,
         \A i \in Calls :
            /\ call'[i].op # "none" \/ call'[i].written => call'[i].run # 0
            /\ call'[i].run # 0 =>
                 /\ call'[i].run \in 1..Len(runs)
                 /\ call'[i].op = "put" => ~multipart
                 /\ row'[TaskOf(call'[i].run)].st \notin {"none", "prepared"}
                 /\ row'[TaskOf(call'[i].run)].st = "uploading" =>
                      row'[TaskOf(call'[i].run)].archive = ArchiveOf(call'[i].run)
                 /\ ~multipart => \A j \in Calls \ {i} : call'[j].run # 0 =>
                                    TaskOf(call'[j].run) # TaskOf(call'[i].run)
  PROVE  Requests'
  BY Zenon DEF Requests, TaskOf, ArchiveOf

\* The state of a row changes among those after its upload, or to expired.
LEMMA RowMoves ==
  ASSUME UploadInv, gen' = gen, call' = call, src' = src, runs' = runs,
         multipart' = multipart, row' \in [Tasks -> RelayRow],
         \A t \in Tasks :
           /\ row'[t].archive = row[t].archive /\ row'[t].cipher = row[t].cipher
           /\ \/ row'[t].st = row[t].st
              \/ row[t].st \in Kept /\ row'[t].st \in Kept
              \/ row'[t].st = "expired"
  PROVE  UploadInv'
  <1>1. UploadTypes
    BY Zenon DEF UploadInv
  <1>2. UploadTypes'
    BY <1>1, Zenon DEF UploadTypes
  <1>3. Sourced'
    BY SourceStays, Zenon DEF UploadInv
  <1>4. \A t \in Tasks : /\ row[t].st \notin {"none", "prepared"} =>
                              row'[t].st \notin {"none", "prepared"}
                         /\ row'[t].st = "uploading" => row[t].st = "uploading"
                         /\ row[t].st \in Kept \cup {"expired"} =>
                              row'[t].st \in Kept \cup {"expired"}
    BY DEF Kept
  <1>5. Requests'
    <2>1. \A r \in 1..Len(runs) : TaskOf(r) \in Tasks
      BY <1>1, RunParts, Zenon
    <2>2. ASSUME NEW i \in Calls
          PROVE  /\ call[i].op # "none" \/ call[i].written => call[i].run # 0
                 /\ call[i].run # 0 =>
                      /\ call[i].run \in 1..Len(runs)
                      /\ call[i].op = "put" => ~multipart
                      /\ row'[TaskOf(call[i].run)].st \notin {"none", "prepared"}
                      /\ row'[TaskOf(call[i].run)].st = "uploading" =>
                           row'[TaskOf(call[i].run)].archive = ArchiveOf(call[i].run)
                      /\ ~multipart => \A j \in Calls \ {i} : call[j].run # 0 =>
                                         TaskOf(call[j].run) # TaskOf(call[i].run)
      <3>1. /\ call[i].op # "none" \/ call[i].written => call[i].run # 0
            /\ call[i].run # 0 =>
                 /\ call[i].run \in 1..Len(runs)
                 /\ call[i].op = "put" => ~multipart
                 /\ row[TaskOf(call[i].run)].st \notin {"none", "prepared"}
                 /\ row[TaskOf(call[i].run)].st = "uploading" =>
                      row[TaskOf(call[i].run)].archive = ArchiveOf(call[i].run)
                 /\ ~multipart => \A j \in Calls \ {i} : call[j].run # 0 =>
                                    TaskOf(call[j].run) # TaskOf(call[i].run)
        BY Zenon DEF UploadInv, Requests
      <3>2. call[i].run # 0 => TaskOf(call[i].run) \in Tasks
        BY <2>1, <3>1, Zenon
      <3>3. call[i].run # 0 =>
              row'[TaskOf(call[i].run)].archive = row[TaskOf(call[i].run)].archive
        BY <3>2, Zenon
      <3> QED BY <1>4, <3>1, <3>2, <3>3, Zenon
    <2> QED BY <2>2, RequestsNext, Zenon
  <1>6. RowsHold'
    <2>1. ASSUME NEW t \in Tasks
          PROVE  /\ row'[t].st = "uploading" => row'[t].archive # 0
                 /\ row'[t].cipher # 0 =>
                      /\ row'[t].st \in Kept \cup {"expired"}
                      /\ row'[t].cipher \in 1..Len(runs)
                      /\ TaskOf(row'[t].cipher) = t
                      /\ ArchiveOf(row'[t].cipher) = row'[t].archive
      <3>1. /\ row[t].st = "uploading" => row[t].archive # 0
            /\ row[t].cipher # 0 =>
                 /\ row[t].st \in Kept \cup {"expired"}
                 /\ row[t].cipher \in 1..Len(runs)
                 /\ TaskOf(row[t].cipher) = t
                 /\ ArchiveOf(row[t].cipher) = row[t].archive
        BY Zenon DEF UploadInv, RowsHold
      <3>2. row'[t].archive = row[t].archive /\ row'[t].cipher = row[t].cipher
        OBVIOUS
      <3>3. /\ row'[t].st = "uploading" => row[t].st = "uploading"
            /\ row[t].st \in Kept \cup {"expired"} => row'[t].st \in Kept \cup {"expired"}
        BY <1>4, Zenon
      <3> QED BY <3>1, <3>2, <3>3, Zenon
    <2> QED BY <2>1, Zenon DEF RowsHold, TaskOf, ArchiveOf
  <1> QED BY <1>2, <1>3, <1>5, <1>6, Zenon DEF UploadInv

\* Requests end or go on, and the rows stay.
LEMMA RequestsMove ==
  ASSUME UploadInv, row' = row, runs' = runs, multipart' = multipart, gen' \in Nat,
         call' \in [Calls -> UploadRequest], src' \in SourceRun, Sourced',
         \A i \in Calls :
           \/ call'[i] = NoCall
           \/ /\ call'[i].run = call[i].run /\ call'[i].op = call[i].op
              /\ call'[i].written => call[i].written \/ call[i].op # "none"
  PROVE  UploadInv'
  <1>1. UploadTypes'
    BY Zenon DEF UploadInv, UploadTypes
  <1>2. RowsHold'
    BY Zenon DEF UploadInv, RowsHold, TaskOf, ArchiveOf
  <1>3. NoCall.run = 0 /\ NoCall.op = "none" /\ NoCall.written = FALSE
    BY DEF NoCall
  <1>4. \A i \in Calls : /\ call'[i].run # 0 =>
                              call'[i].run = call[i].run /\ call'[i].op = call[i].op
                         /\ call'[i].op # "none" \/ call'[i].written => call'[i].run # 0
    <2>1. \A i \in Calls : call[i].op # "none" \/ call[i].written => call[i].run # 0
      BY Zenon DEF UploadInv, Requests
    <2> QED BY <1>3, <2>1, Zenon
  <1>5. Requests'
    <2>1. ASSUME NEW i \in Calls, call'[i].run # 0
          PROVE  /\ call'[i].run \in 1..Len(runs)
                 /\ call'[i].op = "put" => ~multipart
                 /\ row[TaskOf(call'[i].run)].st \notin {"none", "prepared"}
                 /\ row[TaskOf(call'[i].run)].st = "uploading" =>
                      row[TaskOf(call'[i].run)].archive = ArchiveOf(call'[i].run)
                 /\ ~multipart => \A j \in Calls \ {i} : call'[j].run # 0 =>
                                    TaskOf(call'[j].run) # TaskOf(call'[i].run)
      <3>1. call'[i].run = call[i].run /\ call'[i].op = call[i].op /\ call[i].run # 0
        BY <1>4, <2>1, Zenon
      <3>2. \A j \in Calls : call'[j].run # 0 =>
                               call'[j].run = call[j].run /\ call[j].run # 0
        BY <1>4, Zenon
      <3> QED BY <3>1, <3>2, Zenon DEF UploadInv, Requests
    <2> QED BY <1>4, <2>1, Zenon DEF Requests, TaskOf, ArchiveOf
  <1> QED BY <1>1, <1>2, <1>5, Zenon DEF UploadInv

------------------------------------------------------------------------------
(* Uploads. *)

\* A claim of the task of the source, perhaps with a request of its run, keeps
\* the requests and the rows: while another request of the task is there the
\* claim is for the same archive, or is not granted.
LEMMA ClaimKeeps ==
  ASSUME UploadInv, src.pc \in {"begin", "parts"}, runs' = runs, multipart' = multipart,
         IF multipart THEN GrantsMultipart(Mine, Archive) ELSE Grants(Mine, Archive),
         Claim(Mine, Archive), NEW k,
         \A i \in Calls : i # k => call'[i] = call[i],
         k \in Calls => \/ call'[k] = call[k]
                        \/ call'[k].run = src.run /\ (call'[k].op = "put" => ~multipart)
  PROVE  row' \in [Tasks -> RelayRow] /\ Requests' /\ RowsHold'
  <1>1. UploadTypes
    BY Zenon DEF UploadInv
  <1>2. src.run \in 1..Len(runs) /\ TaskOf(src.run) = Mine
    BY Zenon DEF UploadInv, Sourced, Mine
  <1>3. src.run # 0 /\ Mine \in Tasks /\ Archive \in Archives /\ Archive # 0
    BY <1>1, <1>2, RunParts, Zenon DEF Archive
  <1>4. row \in [Tasks -> RelayRow]
    BY <1>1, Zenon DEF UploadTypes
  <1>5. row' = [row EXCEPT ![Mine].st = "uploading", ![Mine].archive = Archive]
    BY Zenon DEF Claim
  <1> DEFINE t == Mine
             a == Archive
  <1>6. /\ row' \in [Tasks -> RelayRow]
        /\ \A u \in Tasks : u # t => row'[u] = row[u]
        /\ row'[t].st = "uploading" /\ row'[t].archive = a /\ row'[t].cipher = row[t].cipher
    <2>1. t \in Tasks /\ a \in Archives
      BY <1>3
    <2>2. row' = [row EXCEPT ![t].st = "uploading", ![t].archive = a]
      BY <1>5
    <2> HIDE DEF t, a
    <2>3. row' \in [Tasks -> RelayRow]
      <3> DEFINE x == [row[t] EXCEPT !.st = "uploading", !.archive = a]
      <3>1. row[t] \in RelayRow
        BY <1>4, <2>1
      <3>2. x \in RelayRow
        BY <2>1, <3>1 DEF RelayRow, RowStates
      <3>3. row' = [row EXCEPT ![t] = x]
        BY <1>4, <2>1, <2>2
      <3> HIDE DEF x
      <3> QED BY <1>4, <2>1, <3>2, <3>3
    <2>4. \A u \in Tasks : u # t => row'[u] = row[u]
      BY <1>4, <2>1, <2>2
    <2>5. row'[t].st = "uploading" /\ row'[t].archive = a /\ row'[t].cipher = row[t].cipher
      BY <1>4, <2>1, <2>2 DEF RelayRow
    <2> QED BY <2>3, <2>4, <2>5
  <1>7. /\ row[t].st \in {"prepared", "uploading"} /\ row[t].archive \in {0, a}
        /\ ~multipart => row[t].st = "prepared"
    BY DEF GrantsMultipart, Grants
  <1>8. t \in Tasks /\ a = ArchiveOf(src.run) /\ TaskOf(src.run) = t /\ a # 0
    BY <1>2, <1>3 DEF Archive
  <1> HIDE DEF t, a
  <1>9. row[t].st = "uploading" => row[t].archive = a
    BY <1>7, <1>8, Zenon DEF UploadInv, RowsHold
  <1>10. row[t].cipher = 0
    <2>1. row[t].st \notin Kept \cup {"expired"}
      BY <1>7 DEF Kept
    <2> QED BY <1>8, <2>1, Zenon DEF UploadInv, RowsHold
  <1>11. RowsHold'
    <2>1. \A u \in Tasks : u # t =>
            /\ row'[u].st = "uploading" => row'[u].archive # 0
            /\ row'[u].cipher # 0 =>
                 /\ row'[u].st \in Kept \cup {"expired"}
                 /\ row'[u].cipher \in 1..Len(runs)
                 /\ TaskOf(row'[u].cipher) = u
                 /\ ArchiveOf(row'[u].cipher) = row'[u].archive
      BY <1>6, ZenonT(60) DEF UploadInv, RowsHold
    <2> QED BY <1>6, <1>8, <1>10, <2>1, Zenon DEF RowsHold, TaskOf, ArchiveOf
  <1>12. \A i \in Calls : call[i].run # 0 =>
           /\ call[i].run \in 1..Len(runs) /\ TaskOf(call[i].run) \in Tasks
           /\ call[i].op = "put" => ~multipart
           /\ row'[TaskOf(call[i].run)].st \notin {"none", "prepared"}
           /\ row'[TaskOf(call[i].run)].st = "uploading" =>
                row'[TaskOf(call[i].run)].archive = ArchiveOf(call[i].run)
           /\ ~multipart => TaskOf(call[i].run) # t
    <2> SUFFICES ASSUME NEW i \in Calls, call[i].run # 0
                 PROVE  /\ call[i].run \in 1..Len(runs) /\ TaskOf(call[i].run) \in Tasks
                        /\ call[i].op = "put" => ~multipart
                        /\ row'[TaskOf(call[i].run)].st \notin {"none", "prepared"}
                        /\ row'[TaskOf(call[i].run)].st = "uploading" =>
                             row'[TaskOf(call[i].run)].archive = ArchiveOf(call[i].run)
                        /\ ~multipart => TaskOf(call[i].run) # t
      BY Zenon
    <2> DEFINE r == call[i].run
    <2>1. /\ r \in 1..Len(runs) /\ (call[i].op = "put" => ~multipart)
          /\ row[TaskOf(r)].st \notin {"none", "prepared"}
          /\ row[TaskOf(r)].st = "uploading" => row[TaskOf(r)].archive = ArchiveOf(r)
      BY Zenon DEF UploadInv, Requests
    <2> HIDE DEF r
    <2>2. TaskOf(r) \in Tasks
      BY <1>1, <2>1, RunParts, Zenon
    <2>3. CASE TaskOf(r) = t
      <3>1. row[t].st = "uploading" /\ multipart
        BY <1>7, <2>1, <2>3
      <3>2. a = ArchiveOf(r)
        BY <1>9, <2>1, <2>3, <3>1, Zenon
      <3>3. row'[t].st \notin {"none", "prepared"}
        BY <1>6
      <3> QED BY <1>6, <2>1, <2>2, <2>3, <3>1, <3>2, <3>3, Zenon DEF r
    <2>4. CASE TaskOf(r) # t
      BY <1>6, <2>1, <2>2, <2>4, Zenon DEF r
    <2> QED BY <2>3, <2>4, Zenon
  <1>13. Requests'
    <2>1. ASSUME NEW i \in Calls
          PROVE  /\ call'[i].op # "none" \/ call'[i].written => call'[i].run # 0
                 /\ call'[i].run # 0 =>
                      /\ call'[i].run \in 1..Len(runs)
                      /\ call'[i].op = "put" => ~multipart
                      /\ row'[TaskOf(call'[i].run)].st \notin {"none", "prepared"}
                      /\ row'[TaskOf(call'[i].run)].st = "uploading" =>
                           row'[TaskOf(call'[i].run)].archive = ArchiveOf(call'[i].run)
                      /\ ~multipart => \A j \in Calls \ {i} : call'[j].run # 0 =>
                                         TaskOf(call'[j].run) # TaskOf(call'[i].run)
      <3>1. CASE call'[i] = call[i]
        <4>1. call[i].op # "none" \/ call[i].written => call[i].run # 0
          BY Zenon DEF UploadInv, Requests
        <4>2. ~multipart /\ call[i].run # 0 =>
                \A j \in Calls \ {i} : call[j].run # 0 =>
                   TaskOf(call[j].run) # TaskOf(call[i].run)
          BY Zenon DEF UploadInv, Requests
        <4>3. ASSUME ~multipart, call[i].run # 0, NEW j \in Calls \ {i}, call'[j].run # 0
              PROVE  TaskOf(call'[j].run) # TaskOf(call[i].run)
          BY <1>8, <1>12, <4>2, <4>3, Zenon
        <4> QED BY <1>12, <3>1, <4>1, <4>3, Zenon
      <3>2. CASE call'[i] # call[i]
        <4>1. i = k /\ call'[i].run = src.run /\ (call'[i].op = "put" => ~multipart)
          BY <3>2, Zenon
        <4>2. row'[t].st \notin {"none", "prepared"}
          BY <1>6
        <4>3. ASSUME ~multipart, NEW j \in Calls \ {i}, call'[j].run # 0
              PROVE  TaskOf(call'[j].run) # t
          <5>1. call'[j] = call[j]
            BY <4>1, <4>3, Zenon
          <5> QED BY <1>12, <4>3, <5>1, Zenon
        <4> QED BY <1>2, <1>3, <1>6, <1>8, <4>1, <4>2, <4>3, Zenon
      <3> QED BY <3>1, <3>2, Zenon
    <2> QED BY <2>1, Zenon DEF Requests, TaskOf, ArchiveOf
  <1> QED BY <1>6, <1>11, <1>13, Zenon

\* CompleteRelayUpload keeps the requests and the rows: the claim is for the
\* archive of the run whose ciphertext is stored.
LEMMA StoreKeeps ==
  ASSUME UploadInv, NEW i \in Calls, call[i].written, CanStore(TaskOf(call[i].run)), Store(i),
         call' = [call EXCEPT ![i] = NoCall], runs' = runs, multipart' = multipart
  PROVE  row' \in [Tasks -> RelayRow] /\ Requests' /\ RowsHold'
  <1> DEFINE r == call[i].run
             t == TaskOf(r)
  <1>1. UploadTypes
    BY Zenon DEF UploadInv
  <1>2. /\ r # 0 /\ r \in 1..Len(runs)
        /\ row[t].st = "uploading" => row[t].archive = ArchiveOf(r)
    BY Zenon DEF UploadInv, Requests
  <1>3. row[t].st = "uploading"
    BY Zenon DEF CanStore
  <1>4. row' = [row EXCEPT ![t].st = "stored", ![t].cipher = r, ![t].path = i]
    BY Zenon DEF Store
  <1>5. call \in [Calls -> UploadRequest] /\ row \in [Tasks -> RelayRow]
    BY <1>1, Zenon DEF UploadTypes
  <1>6. call'[i] = NoCall /\ \A j \in Calls : j # i => call'[j] = call[j]
    BY <1>5
  <1> HIDE DEF r
  <1>7. t \in Tasks
    BY <1>1, <1>2, RunParts, Zenon
  <1> HIDE DEF t
  <1>8. /\ row' \in [Tasks -> RelayRow]
        /\ \A u \in Tasks : u # t => row'[u] = row[u]
        /\ row'[t].st = "stored" /\ row'[t].archive = row[t].archive /\ row'[t].cipher = r
    <2> DEFINE x == [row[t] EXCEPT !.st = "stored", !.cipher = r, !.path = i]
    <2>1. row[t] \in RelayRow /\ r \in Nat /\ i \in Nat
      BY <1>2, <1>5, <1>7 DEF Calls
    <2>2. /\ x \in RelayRow /\ x.st = "stored" /\ x.archive = row[t].archive /\ x.cipher = r
      BY <2>1 DEF RelayRow, RowStates
    <2>3. row' = [row EXCEPT ![t] = x]
      BY <1>4, <1>5, <1>7
    <2> HIDE DEF x
    <2> QED BY <1>5, <1>7, <2>2, <2>3
  <1>9. RowsHold'
    <2>1. row'[t].st \in Kept \cup {"expired"} /\ row'[t].st # "uploading"
      BY <1>8 DEF Kept
    <2>2. \A u \in Tasks : u # t =>
            /\ row'[u].st = "uploading" => row'[u].archive # 0
            /\ row'[u].cipher # 0 =>
                 /\ row'[u].st \in Kept \cup {"expired"}
                 /\ row'[u].cipher \in 1..Len(runs)
                 /\ TaskOf(row'[u].cipher) = u
                 /\ ArchiveOf(row'[u].cipher) = row'[u].archive
      BY <1>8, Zenon DEF UploadInv, RowsHold
    <2>3. TaskOf(row'[t].cipher) = t /\ ArchiveOf(row'[t].cipher) = row'[t].archive
      BY <1>2, <1>3, <1>8, Zenon DEF t
    <2> QED BY <1>2, <1>8, <2>1, <2>2, <2>3, Zenon DEF RowsHold, TaskOf, ArchiveOf
  <1>10. \A u \in Tasks : /\ row[u].st \notin {"none", "prepared"} =>
                               row'[u].st \notin {"none", "prepared"}
                          /\ row'[u].st = "uploading" => row'[u] = row[u]
    BY <1>8
  <1>11. Requests'
    <2>1. NoCall.run = 0 /\ NoCall.op = "none" /\ NoCall.written = FALSE
      BY DEF NoCall
    <2>2. ASSUME NEW j \in Calls, call'[j].run # 0
          PROVE  /\ call'[j].run \in 1..Len(runs)
                 /\ call'[j].op = "put" => ~multipart
                 /\ row'[TaskOf(call'[j].run)].st \notin {"none", "prepared"}
                 /\ row'[TaskOf(call'[j].run)].st = "uploading" =>
                      row'[TaskOf(call'[j].run)].archive = ArchiveOf(call'[j].run)
                 /\ ~multipart => \A l \in Calls \ {j} : call'[l].run # 0 =>
                                    TaskOf(call'[l].run) # TaskOf(call'[j].run)
      <3>1. call'[j] = call[j] /\ \A l \in Calls : call'[l].run # 0 => call'[l] = call[l]
        BY <1>6, <2>1, <2>2, Zenon
      <3>2. TaskOf(call[j].run) \in Tasks
        BY <1>1, <2>2, <3>1, RunParts, Zenon DEF UploadInv, Requests
      <3>3. /\ call[j].run \in 1..Len(runs) /\ (call[j].op = "put" => ~multipart)
            /\ row[TaskOf(call[j].run)].st \notin {"none", "prepared"}
            /\ row[TaskOf(call[j].run)].st = "uploading" =>
                 row[TaskOf(call[j].run)].archive = ArchiveOf(call[j].run)
            /\ ~multipart => \A l \in Calls \ {j} : call[l].run # 0 =>
                               TaskOf(call[l].run) # TaskOf(call[j].run)
        BY <2>2, <3>1, Zenon DEF UploadInv, Requests
      <3> QED BY <1>10, <3>1, <3>2, <3>3, Zenon
    <2>3. \A j \in Calls : call'[j].op # "none" \/ call'[j].written => call'[j].run # 0
      BY <1>6, <2>1, Zenon DEF UploadInv, Requests
    <2>4. ASSUME NEW j \in Calls
          PROVE  /\ call'[j].op # "none" \/ call'[j].written => call'[j].run # 0
                 /\ call'[j].run # 0 =>
                      /\ call'[j].run \in 1..Len(runs)
                      /\ call'[j].op = "put" => ~multipart
                      /\ row'[TaskOf(call'[j].run)].st \notin {"none", "prepared"}
                      /\ row'[TaskOf(call'[j].run)].st = "uploading" =>
                           row'[TaskOf(call'[j].run)].archive = ArchiveOf(call'[j].run)
                      /\ ~multipart => \A l \in Calls \ {j} : call'[l].run # 0 =>
                                         TaskOf(call'[l].run) # TaskOf(call'[j].run)
      BY <2>2, <2>3, Zenon
    <2> QED BY <2>4, RequestsNext, Zenon
  <1> QED BY <1>8, <1>9, <1>11, Zenon

\* ReleaseRelayUpload at the end of a legacy request keeps the requests and the
\* rows: no other request is of the same task.
LEMMA ReleaseKeeps ==
  ASSUME UploadInv, NEW i \in Calls, call[i].op = "put",
         ReleaseRelayUpload(TaskOf(call[i].run)),
         call' = [call EXCEPT ![i] = NoCall], runs' = runs, multipart' = multipart
  PROVE  row' \in [Tasks -> RelayRow] /\ Requests' /\ RowsHold'
  <1> DEFINE r == call[i].run
             t == TaskOf(r)
  <1>1. UploadTypes
    BY Zenon DEF UploadInv
  <1>2. /\ r # 0 /\ r \in 1..Len(runs) /\ ~multipart
        /\ \A j \in Calls \ {i} : call[j].run # 0 => TaskOf(call[j].run) # t
    <2>1. call[i].op # "none"
      OBVIOUS
    <2>2. r # 0
      BY <2>1, Zenon DEF UploadInv, Requests
    <2>3. r \in 1..Len(runs) /\ ~multipart
      BY <2>2, Zenon DEF UploadInv, Requests
    <2> QED BY <2>2, <2>3, Zenon DEF UploadInv, Requests
  <1>3. row' = row \/ /\ row[t].st = "uploading"
                      /\ row' = [row EXCEPT ![t].st = "prepared", ![t].archive = 0]
    BY Zenon DEF ReleaseRelayUpload
  <1>4. call \in [Calls -> UploadRequest] /\ row \in [Tasks -> RelayRow]
    BY <1>1, Zenon DEF UploadTypes
  <1>5. call'[i] = NoCall /\ \A j \in Calls : j # i => call'[j] = call[j]
    BY <1>4
  <1> HIDE DEF r
  <1>6. t \in Tasks
    BY <1>1, <1>2, RunParts, Zenon
  <1> HIDE DEF t
  <1>7. /\ row' \in [Tasks -> RelayRow]
        /\ \A u \in Tasks : u # t => row'[u] = row[u]
        /\ row' = row \/ /\ row[t].st = "uploading" /\ row'[t].st = "prepared"
                         /\ row'[t].cipher = row[t].cipher
    <2>1. CASE row' = row
      BY <1>4, <2>1, Zenon
    <2>2. CASE /\ row[t].st = "uploading"
               /\ row' = [row EXCEPT ![t].st = "prepared", ![t].archive = 0]
      <3> DEFINE x == [row[t] EXCEPT !.st = "prepared", !.archive = 0]
      <3>1. row[t] \in RelayRow
        BY <1>4, <1>6
      <3>2. /\ x \in RelayRow /\ x.st = "prepared" /\ x.cipher = row[t].cipher
        BY <3>1 DEF RelayRow, RowStates
      <3>3. row' = [row EXCEPT ![t] = x]
        BY <1>4, <1>6, <2>2
      <3> HIDE DEF x
      <3> QED BY <1>4, <1>6, <2>2, <3>2, <3>3
    <2> QED BY <1>3, <2>1, <2>2, Zenon
  <1>8. RowsHold'
    <2>1. CASE row' = row
      BY <2>1, Zenon DEF UploadInv, RowsHold, TaskOf, ArchiveOf
    <2>2. CASE row' # row
      <3>1. row[t].st = "uploading" /\ row'[t].st = "prepared" /\ row'[t].cipher = row[t].cipher
        BY <1>7, <2>2, Zenon
      <3>2. row'[t].st # "uploading" /\ row[t].st \notin Kept \cup {"expired"}
        BY <3>1 DEF Kept
      <3>3. row'[t].cipher = 0
        BY <1>6, <3>1, <3>2, Zenon DEF UploadInv, RowsHold
      <3>4. \A u \in Tasks : u # t =>
              /\ row'[u].st = "uploading" => row'[u].archive # 0
              /\ row'[u].cipher # 0 =>
                   /\ row'[u].st \in Kept \cup {"expired"}
                   /\ row'[u].cipher \in 1..Len(runs)
                   /\ TaskOf(row'[u].cipher) = u
                   /\ ArchiveOf(row'[u].cipher) = row'[u].archive
        BY <1>7, Zenon DEF UploadInv, RowsHold
      <3> QED BY <3>2, <3>3, <3>4, Zenon DEF RowsHold, TaskOf, ArchiveOf
    <2> QED BY <2>1, <2>2, Zenon
  <1>9. Requests'
    <2>1. NoCall.run = 0 /\ NoCall.op = "none" /\ NoCall.written = FALSE
      BY DEF NoCall
    <2>2. ASSUME NEW j \in Calls, call'[j].run # 0
          PROVE  /\ call'[j].run \in 1..Len(runs)
                 /\ call'[j].op = "put" => ~multipart
                 /\ row'[TaskOf(call'[j].run)].st \notin {"none", "prepared"}
                 /\ row'[TaskOf(call'[j].run)].st = "uploading" =>
                      row'[TaskOf(call'[j].run)].archive = ArchiveOf(call'[j].run)
                 /\ ~multipart => \A l \in Calls \ {j} : call'[l].run # 0 =>
                                    TaskOf(call'[l].run) # TaskOf(call'[j].run)
      <3>1. /\ j # i /\ call'[j] = call[j]
            /\ \A l \in Calls : call'[l].run # 0 => call'[l] = call[l]
        BY <1>5, <2>1, <2>2, Zenon
      <3>2. TaskOf(call[j].run) \in Tasks
        BY <1>1, <2>2, <3>1, RunParts, Zenon DEF UploadInv, Requests
      <3>3. TaskOf(call[j].run) # t
        BY <1>2, <2>2, <3>1, Zenon
      <3>4. row'[TaskOf(call[j].run)] = row[TaskOf(call[j].run)]
        BY <1>7, <3>2, <3>3, Zenon
      <3> QED BY <2>2, <3>1, <3>4, ZenonT(60) DEF UploadInv, Requests
    <2>3. \A j \in Calls : call'[j].op # "none" \/ call'[j].written => call'[j].run # 0
      BY <1>5, <2>1, Zenon DEF UploadInv, Requests
    <2>4. ASSUME NEW j \in Calls
          PROVE  /\ call'[j].op # "none" \/ call'[j].written => call'[j].run # 0
                 /\ call'[j].run # 0 =>
                      /\ call'[j].run \in 1..Len(runs)
                      /\ call'[j].op = "put" => ~multipart
                      /\ row'[TaskOf(call'[j].run)].st \notin {"none", "prepared"}
                      /\ row'[TaskOf(call'[j].run)].st = "uploading" =>
                           row'[TaskOf(call'[j].run)].archive = ArchiveOf(call'[j].run)
                      /\ ~multipart => \A l \in Calls \ {j} : call'[l].run # 0 =>
                                         TaskOf(call'[l].run) # TaskOf(call'[j].run)
      BY <2>2, <2>3, Zenon
    <2> QED BY <2>4, RequestsNext, Zenon
  <1> QED BY <1>7, <1>8, <1>9, Zenon

\* What the answers and the requests make of the source.
LEMMA SourceUpdates ==
  ASSUME src \in SourceRun
  PROVE  /\ Again \in SourceRun /\ Again.pc = src.pc /\ Again.run = src.run
         /\ Again.task = src.task
         /\ Sent \in SourceRun /\ Sent.pc = src.pc /\ Sent.run = src.run
         /\ Sent.task = src.task
         /\ Uploaded \in SourceRun /\ Uploaded.pc = "stored"
         /\ Refused \in SourceRun /\ Refused.pc = "failed"
         /\ [src EXCEPT !.wait = TRUE] \in SourceRun
         /\ [src EXCEPT !.wait = TRUE].pc = src.pc /\ [src EXCEPT !.wait = TRUE].run = src.run
         /\ [src EXCEPT !.wait = TRUE].task = src.task
         /\ [src EXCEPT !.pc = "parts"] \in SourceRun
         /\ [src EXCEPT !.pc = "parts"].run = src.run
         /\ [src EXCEPT !.pc = "parts"].task = src.task
  <1>1. Again \in SourceRun /\ Again.pc = src.pc /\ Again.run = src.run /\ Again.task = src.task
    BY DEF Again, SourceRun
  <1>2. Sent \in SourceRun /\ Sent.pc = src.pc /\ Sent.run = src.run /\ Sent.task = src.task
    <2>1. src.sent + 1 \in Nat
      BY DEF SourceRun
    <2> QED BY <2>1 DEF Sent, SourceRun
  <1>3. Uploaded \in SourceRun /\ Uploaded.pc = "stored"
    BY DEF Uploaded, SourceRun
  <1>4. Refused \in SourceRun /\ Refused.pc = "failed"
    BY DEF Refused, SourceRun
  <1>5. /\ [src EXCEPT !.wait = TRUE] \in SourceRun
        /\ [src EXCEPT !.wait = TRUE].pc = src.pc /\ [src EXCEPT !.wait = TRUE].run = src.run
        /\ [src EXCEPT !.wait = TRUE].task = src.task
    BY DEF SourceRun
  <1>6. /\ [src EXCEPT !.pc = "parts"] \in SourceRun
        /\ [src EXCEPT !.pc = "parts"].run = src.run
        /\ [src EXCEPT !.pc = "parts"].task = src.task
    BY DEF SourceRun
  <1> QED BY <1>1, <1>2, <1>3, <1>4, <1>5, <1>6, Zenon

\* After an answer the source goes on with its run or has ended it.
LEMMA AnswerKeeps ==
  ASSUME UploadInv, runs' = runs, multipart' = multipart,
         src' \in {src, Again, Sent, Uploaded, Refused}
  PROVE  src' \in SourceRun /\ Sourced'
  <1>1. src \in SourceRun
    BY Zenon DEF UploadInv, UploadTypes
  <1>2. src' \in SourceRun
    BY <1>1, SourceUpdates, Zenon
  <1>3. src'.pc \in {"begin", "parts"} =>
           src.pc \in {"begin", "parts"} /\ src'.run = src.run /\ src'.task = src.task
    <2>1. Uploaded.pc \notin {"begin", "parts"} /\ Refused.pc \notin {"begin", "parts"}
      BY <1>1, SourceUpdates
    <2> QED BY <1>1, <2>1, SourceUpdates, Zenon
  <1>4. src'.pc = "parts" => src.pc = "parts"
    <2>1. Uploaded.pc # "parts" /\ Refused.pc # "parts"
      BY <1>1, SourceUpdates
    <2> QED BY <1>1, <2>1, SourceUpdates, Zenon
  <1> QED BY <1>2, <1>3, <1>4, SourceStays, Zenon DEF UploadInv

\* The invariant after a step of an upload.
LEMMA UploadNext ==
  ASSUME UploadInv, gen' = gen, runs' = runs, multipart' = multipart,
         row' \in [Tasks -> RelayRow], call' \in [Calls -> UploadRequest], src' \in SourceRun,
         Sourced', Requests', RowsHold'
  PROVE  UploadInv'
  BY Zenon DEF UploadInv, UploadTypes

\* A claim with a request of the source's run keeps the invariant.
LEMMA AcceptKeeps ==
  ASSUME UploadInv, src.pc \in {"begin", "parts"}, runs' = runs, multipart' = multipart,
         gen' = gen,
         IF multipart THEN GrantsMultipart(Mine, Archive) ELSE Grants(Mine, Archive),
         Claim(Mine, Archive),
         NEW op \in {"put", "part", "complete"}, op = "put" => ~multipart, Accept(op)
  PROVE  UploadInv'
  <1> DEFINE c == [NoCall EXCEPT !.run = src.run, !.op = op]
             k == NextCall
  <1>1. call \in [Calls -> UploadRequest] /\ src \in SourceRun
    BY Zenon DEF UploadInv, UploadTypes
  <1>2. c \in UploadRequest /\ c.run = src.run /\ c.op = op
    <2>1. src.run \in Nat
      BY <1>1 DEF SourceRun
    <2> QED BY <2>1 DEF NoCall, UploadRequest
  <1>3. call' = [call EXCEPT ![k] = c] /\ src' = [src EXCEPT !.wait = TRUE]
    BY Zenon DEF Accept
  <1> HIDE DEF c, k
  <1>4. /\ call' \in [Calls -> UploadRequest]
        /\ \A i \in Calls : i # k => call'[i] = call[i]
        /\ k \in Calls => call'[k] = c
    BY <1>1, <1>2, <1>3
  <1>5. row' \in [Tasks -> RelayRow] /\ Requests' /\ RowsHold'
    <2>1. k \in Calls => \/ call'[k] = call[k]
                         \/ call'[k].run = src.run /\ (call'[k].op = "put" => ~multipart)
      BY <1>2, <1>4, Zenon
    <2> QED BY <1>4, <2>1, ClaimKeeps, Zenon
  <1>6. src' \in SourceRun /\ Sourced'
    <2>1. src' \in SourceRun /\ src'.pc = src.pc /\ src'.run = src.run /\ src'.task = src.task
      BY <1>1, <1>3, SourceUpdates, Zenon
    <2> QED BY <2>1, SourceStays, Zenon DEF UploadInv
  <1> QED BY <1>4, <1>5, <1>6, UploadNext, Zenon

\* An answer without a request keeps it.
LEMMA ReplayKeeps ==
  ASSUME UploadInv, gen' = gen, runs' = runs, multipart' = multipart, row' = row,
         call' = call, src' \in {src, Again, Sent, Uploaded, Refused}
  PROVE  UploadInv'
  <1>1. src' \in SourceRun /\ Sourced'
    BY AnswerKeeps, Zenon
  <1>2. call' \in [Calls -> UploadRequest] /\ row' \in [Tasks -> RelayRow] /\ gen' \in Nat
    BY Zenon DEF UploadInv, UploadTypes
  <1>3. \A i \in Calls :
           /\ call'[i].run = call[i].run /\ call'[i].op = call[i].op
           /\ call'[i].written => call[i].written \/ call[i].op # "none"
    BY Zenon
  <1> QED BY <1>1, <1>2, <1>3, RequestsMove, Zenon

\* BeginUpload keeps it.
LEMMA BeginUploadKeeps ==
  ASSUME UploadInv, BeginUpload
  PROVE  UploadInv'
  <1>1. gen' = gen /\ runs' = runs /\ multipart' = multipart
    BY Zenon DEF BeginUpload, history
  <1>2. src.pc = "begin"
    BY Zenon DEF BeginUpload, At
  <1>3. src.pc \in {"begin", "parts"}
    BY <1>2
  <1>4. CASE row' = row /\ call' = call /\ src' \in {Uploaded, Refused}
    BY <1>1, <1>4, ReplayKeeps, Zenon
  <1>5. CASE ~multipart /\ Grants(Mine, Archive) /\ Claim(Mine, Archive) /\ Accept("put")
    <2>1. "put" \in {"put", "part", "complete"}
      OBVIOUS
    <2> QED BY <1>1, <1>3, <1>5, <2>1, AcceptKeeps, Zenon
  <1>6. CASE /\ multipart /\ GrantsMultipart(Mine, Archive) /\ Claim(Mine, Archive)
             /\ src' = [src EXCEPT !.pc = "parts"] /\ call' = call
    <2>1. call \in [Calls -> UploadRequest] /\ src \in SourceRun
      BY Zenon DEF UploadInv, UploadTypes
    <2>2. src' \in SourceRun /\ src'.run = src.run /\ src'.task = src.task
      BY <1>6, <2>1, SourceUpdates, Zenon
    <2>3. Sourced'
      BY <1>1, <1>3, <1>6, <2>2, SourceStays, Zenon DEF UploadInv
    <2>4. row' \in [Tasks -> RelayRow] /\ Requests' /\ RowsHold'
      BY <1>1, <1>3, <1>6, ClaimKeeps, Zenon
    <2> QED BY <1>1, <1>6, <2>1, <2>2, <2>3, <2>4, UploadNext, Zenon
  <1>7. \/ row' = row /\ call' = call /\ src' \in {Uploaded, Refused}
        \/ ~multipart /\ Grants(Mine, Archive) /\ Claim(Mine, Archive) /\ Accept("put")
        \/ /\ multipart /\ GrantsMultipart(Mine, Archive) /\ Claim(Mine, Archive)
           /\ src' = [src EXCEPT !.pc = "parts"] /\ call' = call
    <2>1. CASE multipart
      BY <2>1, Zenon DEF BeginUpload
    <2>2. CASE ~multipart
      BY <2>2, Zenon DEF BeginUpload
    <2> QED BY <2>1, <2>2, Zenon
  <1> QED BY <1>4, <1>5, <1>6, <1>7, Zenon

\* UploadPart and CompleteUpload keep it.
LEMMA UploadPartsKeep ==
  ASSUME UploadInv, UploadPart \/ CompleteUpload
  PROVE  UploadInv'
  <1>1. gen' = gen /\ runs' = runs /\ multipart' = multipart
    BY Zenon DEF UploadPart, CompleteUpload, history
  <1>2. src.pc = "parts"
    BY Zenon DEF UploadPart, CompleteUpload, At
  <1>3. src.pc \in {"begin", "parts"}
    BY <1>2
  <1>4. multipart
    BY <1>2, Zenon DEF UploadInv, Sourced
  <1>5. CASE row' = row /\ call' = call /\ src' \in {Sent, Uploaded, Refused}
    BY <1>1, <1>5, ReplayKeeps, Zenon
  <1>6. CASE /\ GrantsMultipart(Mine, Archive) /\ Claim(Mine, Archive)
             /\ Accept("part") \/ Accept("complete")
    <2>1. /\ "part" \in {"put", "part", "complete"} /\ "part" # "put"
          /\ "complete" \in {"put", "part", "complete"} /\ "complete" # "put"
      OBVIOUS
    <2>2. CASE Accept("part")
      BY <1>1, <1>3, <1>4, <1>6, <2>1, <2>2, AcceptKeeps, Zenon
    <2>3. CASE Accept("complete")
      BY <1>1, <1>3, <1>4, <1>6, <2>1, <2>3, AcceptKeeps, Zenon
    <2> QED BY <1>6, <2>2, <2>3, Zenon
  <1>7. \/ row' = row /\ call' = call /\ src' \in {Sent, Uploaded, Refused}
        \/ /\ GrantsMultipart(Mine, Archive) /\ Claim(Mine, Archive)
           /\ Accept("part") \/ Accept("complete")
    <2>1. CASE UploadPart
      BY <2>1, Zenon DEF UploadPart
    <2>2. CASE CompleteUpload
      BY <2>2, Zenon DEF CompleteUpload
    <2> QED BY <2>1, <2>2, Zenon
  <1> QED BY <1>5, <1>6, <1>7, Zenon

\* An answered request is over and the others go on.
LEMMA ReplyKeeps ==
  ASSUME UploadInv, gen' = gen, runs' = runs, multipart' = multipart, row' = row,
         NEW i \in Calls, call' = [call EXCEPT ![i] = NoCall],
         src' \in {src, Again, Sent, Uploaded, Refused}
  PROVE  UploadInv'
  <1>1. src' \in SourceRun /\ Sourced'
    BY AnswerKeeps, Zenon
  <1>2. call \in [Calls -> UploadRequest] /\ gen' \in Nat
    BY Zenon DEF UploadInv, UploadTypes
  <1>3. /\ call' \in [Calls -> UploadRequest]
        /\ \A j \in Calls : call'[j] = NoCall \/ call'[j] = call[j]
    BY <1>2, Empties
  <1>4. \A j \in Calls :
          \/ call'[j] = NoCall
          \/ /\ call'[j].run = call[j].run /\ call'[j].op = call[j].op
             /\ call'[j].written => call[j].written \/ call[j].op # "none"
    BY <1>3, Zenon
  <1> QED BY <1>1, <1>2, <1>3, <1>4, RequestsMove, Zenon

\* One request goes on.
LEMMA RequestKeeps ==
  ASSUME UploadInv, gen' = gen, runs' = runs, multipart' = multipart, row' = row,
         NEW i \in Calls, NEW c \in UploadRequest, call' = [call EXCEPT ![i] = c],
         c.run = call[i].run, c.op = call[i].op, c.written => call[i].written \/ call[i].op # "none",
         src' \in {src, Again, Sent, Uploaded, Refused}
  PROVE  UploadInv'
  <1>1. src' \in SourceRun /\ Sourced'
    BY AnswerKeeps, Zenon
  <1>2. call \in [Calls -> UploadRequest] /\ gen' \in Nat
    BY Zenon DEF UploadInv, UploadTypes
  <1>3. /\ call' \in [Calls -> UploadRequest]
        /\ \A j \in Calls : call'[j] = call[j] \/ (j = i /\ call'[j] = c)
    BY <1>2
  <1>4. \A j \in Calls :
          \/ call'[j] = NoCall
          \/ /\ call'[j].run = call[j].run /\ call'[j].op = call[j].op
             /\ call'[j].written => call[j].written \/ call[j].op # "none"
    BY <1>3, Zenon
  <1> QED BY <1>1, <1>2, <1>3, <1>4, RequestsMove, Zenon

\* LinkPart keeps it.
LEMMA LinkPartKeeps ==
  ASSUME UploadInv, NEW i \in Calls, LinkPart(i)
  PROVE  UploadInv'
  <1>1. gen' = gen /\ runs' = runs /\ multipart' = multipart /\ row' = row
    BY Zenon DEF LinkPart, history, relay
  <1>2. call' = [call EXCEPT ![i] = NoCall] /\ src' \in {src, Again, Sent, Uploaded, Refused}
    BY Zenon DEF LinkPart, Reply
  <1> QED BY <1>1, <1>2, ReplyKeeps, Zenon

\* WriteCiphertext keeps it.
LEMMA WriteCiphertextKeeps ==
  ASSUME UploadInv, NEW i \in Calls, WriteCiphertext(i)
  PROVE  UploadInv'
  <1>1. gen' = gen /\ runs' = runs /\ multipart' = multipart /\ row' = row
    BY Zenon DEF WriteCiphertext, history, relay
  <1>2. CASE Reply(i, Again)
    <2>1. call' = [call EXCEPT ![i] = NoCall] /\ src' \in {src, Again, Sent, Uploaded, Refused}
      BY <1>2, Zenon DEF Reply
    <2> QED BY <1>1, <2>1, ReplyKeeps, Zenon
  <1>3. CASE call' = [call EXCEPT ![i].written = TRUE] /\ src' = src
    <2> DEFINE c == [call[i] EXCEPT !.written = TRUE]
    <2>1. call \in [Calls -> UploadRequest]
      BY Zenon DEF UploadInv, UploadTypes
    <2>2. call[i].op # "none"
      BY DEF WriteCiphertext
    <2>3. c \in UploadRequest /\ c.run = call[i].run /\ c.op = call[i].op
      BY <2>1 DEF UploadRequest
    <2>4. call' = [call EXCEPT ![i] = c]
      BY <1>3, <2>1
    <2> HIDE DEF c
    <2> QED BY <1>1, <1>3, <2>2, <2>3, <2>4, RequestKeeps, Zenon
  <1> QED BY <1>2, <1>3, Zenon DEF WriteCiphertext

\* A client that leaves keeps it.
LEMMA ClientGoneKeeps ==
  ASSUME UploadInv, NEW i \in Calls, ClientGone(i)
  PROVE  UploadInv'
  <1> DEFINE c == [call[i] EXCEPT !.deaf = TRUE]
  <1>1. gen' = gen /\ runs' = runs /\ multipart' = multipart /\ row' = row
    BY Zenon DEF ClientGone, history, relay
  <1>2. call \in [Calls -> UploadRequest]
    BY Zenon DEF UploadInv, UploadTypes
  <1>3. call' = [call EXCEPT ![i].deaf = TRUE] /\ src' \in {src, Again, Sent, Uploaded, Refused}
    BY Zenon DEF ClientGone
  <1>4. c \in UploadRequest /\ c.run = call[i].run /\ c.op = call[i].op
        /\ (c.written => call[i].written \/ call[i].op # "none")
    <2>1. call[i] \in UploadRequest
      BY <1>2
    <2>2. c \in UploadRequest /\ c.run = call[i].run /\ c.op = call[i].op
      BY <2>1 DEF UploadRequest
    <2>3. c.written = call[i].written
      BY <2>1 DEF UploadRequest
    <2> QED BY <2>2, <2>3, Zenon
  <1>5. call' = [call EXCEPT ![i] = c]
    BY <1>2, <1>3
  <1> HIDE DEF c
  <1> QED BY <1>1, <1>3, <1>4, <1>5, RequestKeeps, Zenon

\* What is stored or released with the end of a request keeps it.
LEMMA EndsRequest ==
  ASSUME UploadInv, gen' = gen, runs' = runs, multipart' = multipart,
         NEW i \in Calls, call' = [call EXCEPT ![i] = NoCall],
         src' \in {src, Again, Sent, Uploaded, Refused},
         \/ row' = row
         \/ call[i].op = "put" /\ ReleaseRelayUpload(TaskOf(call[i].run))
         \/ call[i].written /\ CanStore(TaskOf(call[i].run)) /\ Store(i)
  PROVE  UploadInv'
  <1>1. src' \in SourceRun /\ Sourced'
    BY AnswerKeeps, Zenon
  <1>2. call \in [Calls -> UploadRequest]
    BY Zenon DEF UploadInv, UploadTypes
  <1>3. call' \in [Calls -> UploadRequest]
    BY <1>2, Empties
  <1>4. CASE row' = row
    BY <1>4, ReplyKeeps, Zenon
  <1>5. CASE call[i].op = "put" /\ ReleaseRelayUpload(TaskOf(call[i].run))
    BY <1>1, <1>3, <1>5, ReleaseKeeps, UploadNext, Zenon
  <1>6. CASE call[i].written /\ CanStore(TaskOf(call[i].run)) /\ Store(i)
    BY <1>1, <1>3, <1>6, StoreKeeps, UploadNext, Zenon
  <1> QED BY <1>4, <1>5, <1>6, Zenon

\* StoreCiphertext and GiveUp keep it.
LEMMA RequestEndsKeep ==
  ASSUME UploadInv, NEW i \in Calls, StoreCiphertext(i) \/ GiveUp(i)
  PROVE  UploadInv'
  <1>1. gen' = gen /\ runs' = runs /\ multipart' = multipart
    BY Zenon DEF StoreCiphertext, GiveUp, history, source
  <1>2. call' = [call EXCEPT ![i] = NoCall] /\ src' \in {src, Again, Sent, Uploaded, Refused}
    BY Zenon DEF StoreCiphertext, GiveUp, Reply, source
  <1>3. \/ row' = row
        \/ call[i].op = "put" /\ ReleaseRelayUpload(TaskOf(call[i].run))
        \/ call[i].written /\ CanStore(TaskOf(call[i].run)) /\ Store(i)
    BY Zenon DEF StoreCiphertext, GiveUp
  <1> QED BY <1>1, <1>2, <1>3, EndsRequest, Zenon

------------------------------------------------------------------------------
(* Crashes and the runs of the source. *)

\* The Controller's crash and a change of generation end the requests.
LEMMA HandlersDieKeeps ==
  ASSUME UploadInv, HandlersDie, ClientsHear, row' = row, runs' = runs,
         multipart' = multipart, gen' \in Nat
  PROVE  UploadInv'
  <1>1. src \in SourceRun
    BY Zenon DEF UploadInv, UploadTypes
  <1>2. call' = [i \in Calls |-> NoCall]
    BY Zenon DEF HandlersDie
  <1>3. call' \in [Calls -> UploadRequest] /\ \A i \in Calls : call'[i] = NoCall
    BY <1>2, Empties
  <1>4. src' = Refused \/ src' = Again
    BY Zenon DEF ClientsHear, Refused, Again
  <1>5. src' \in SourceRun /\ Sourced'
    BY <1>4, AnswerKeeps, Zenon
  <1> QED BY <1>3, <1>5, RequestsMove, Zenon

\* ControllerCrash and Promote keep it.
LEMMA ControllerKeeps ==
  ASSUME UploadInv, ControllerCrash \/ Promote
  PROVE  UploadInv'
  <1>1. row' = row /\ runs' = runs /\ multipart' = multipart
    BY Zenon DEF ControllerCrash, Promote, relay, history
  <1>2. HandlersDie /\ ClientsHear
    BY Zenon DEF ControllerCrash, Promote
  <1>3. gen \in Nat /\ (gen' = gen \/ gen' = gen + 1)
    BY Zenon DEF ControllerCrash, Promote, UploadInv, UploadTypes
  <1>4. gen' \in Nat
    BY <1>3
  <1> QED BY <1>1, <1>2, <1>4, HandlersDieKeeps, Zenon

\* A source without a run keeps Sourced.
LEMMA IdleSource ==
  ASSUME src' = NoSource
  PROVE  src' \in SourceRun /\ Sourced'
  <1>1. NoSource.pc = "idle"
    BY DEF NoSource
  <1>2. src'.pc \notin {"begin", "parts"} /\ src'.pc # "parts"
    BY <1>1
  <1> QED BY <1>2, Empties, Zenon DEF Sourced

\* EndRun keeps it.
LEMMA EndRunKeeps ==
  ASSUME UploadInv, EndRun
  PROVE  UploadInv'
  <1>1. gen' = gen /\ runs' = runs /\ multipart' = multipart /\ row' = row /\ call' = call
    BY Zenon DEF EndRun, relay, spool, history
  <1>2. src' = NoSource
    BY Zenon DEF EndRun
  <1>3. gen' \in Nat /\ call' \in [Calls -> UploadRequest]
    BY <1>1, Zenon DEF UploadInv, UploadTypes
  <1>4. \A i \in Calls :
          /\ call'[i].run = call[i].run /\ call'[i].op = call[i].op
          /\ call'[i].written => call[i].written \/ call[i].op # "none"
    BY <1>1, Zenon
  <1> QED BY <1>1, <1>2, <1>3, <1>4, IdleSource, RequestsMove, Zenon

\* SourceCrash keeps it.
LEMMA SourceCrashKeeps ==
  ASSUME UploadInv, SourceCrash
  PROVE  UploadInv'
  <1>1. gen' = gen /\ runs' = runs /\ multipart' = multipart /\ row' = row
    BY Zenon DEF SourceCrash, relay, history
  <1>2. src' = NoSource
    BY Zenon DEF SourceCrash
  <1>3. gen' \in Nat /\ call \in [Calls -> UploadRequest]
    BY <1>1, Zenon DEF UploadInv, UploadTypes
  <1>4. call' = [i \in Calls |-> IF call[i].run = src.run THEN [call[i] EXCEPT !.deaf = TRUE]
                                 ELSE call[i]]
    BY Zenon DEF SourceCrash
  <1>5. \A i \in Calls : LET c == [call[i] EXCEPT !.deaf = TRUE] IN
          c \in UploadRequest /\ c.run = call[i].run /\ c.op = call[i].op /\ c.written = call[i].written
    <2> SUFFICES ASSUME NEW i \in Calls
                 PROVE  LET c == [call[i] EXCEPT !.deaf = TRUE] IN
                        c \in UploadRequest /\ c.run = call[i].run /\ c.op = call[i].op /\ c.written = call[i].written
      OBVIOUS
    <2>1. call[i] \in UploadRequest
      BY <1>3
    <2> QED BY <2>1 DEF UploadRequest
  <1>6. \A i \in Calls : call'[i] = call[i] \/ call'[i] = [call[i] EXCEPT !.deaf = TRUE]
    BY <1>4, Zenon
  <1>7. call' \in [Calls -> UploadRequest]
    <2>1. \A i \in Calls : call[i] \in UploadRequest
      BY <1>3
    <2>2. \A i \in Calls : (IF call[i].run = src.run THEN [call[i] EXCEPT !.deaf = TRUE]
                            ELSE call[i]) \in UploadRequest
      BY <1>5, <2>1, Zenon
    <2> QED BY <1>4, <2>2, Zenon
  <1>8. \A i \in Calls :
          /\ call'[i].run = call[i].run /\ call'[i].op = call[i].op
          /\ call'[i].written => call[i].written \/ call[i].op # "none"
    BY <1>5, <1>6, Zenon
  <1> QED BY <1>1, <1>2, <1>3, <1>7, <1>8, IdleSource, RequestsMove, Zenon

\* A new run is of a task of its own number, and those before it stay.
LEMMA RunsGrow ==
  ASSUME UploadInv, NEW x \in RunFacts, runs' = Append(runs, x), row' = row, gen' = gen,
         call' = call, multipart' = multipart, src' \in SourceRun, src'.pc = "begin",
         src'.run = Len(runs) + 1, src'.task = x.task
  PROVE  UploadInv'
  <1>1. runs \in Seq(RunFacts)
    BY Zenon DEF UploadInv, UploadTypes
  <1>2. /\ runs' \in Seq(RunFacts) /\ Len(runs') = Len(runs) + 1 /\ Len(runs) \in Nat
        /\ runs'[Len(runs) + 1] = x /\ \A r \in 1..Len(runs) : runs'[r] = runs[r]
    BY <1>1
  <1>3. /\ \A r \in 1..Len(runs) : r \in 1..Len(runs')
        /\ Len(runs) + 1 \in 1..Len(runs')
    BY <1>2
  <1>4. UploadTypes'
    BY <1>2, Zenon DEF UploadInv, UploadTypes
  <1>5. Sourced'
    <2>1. src'.pc # "parts"
      OBVIOUS
    <2> QED BY <1>2, <1>3, <2>1, Zenon DEF Sourced, TaskOf
  <1>6. Requests'
    <2>1. \A i \in Calls : call[i].run # 0 => call[i].run \in 1..Len(runs)
      BY Zenon DEF UploadInv, Requests
    <2>2. \A i \in Calls : call[i].run # 0 => runs'[call[i].run] = runs[call[i].run]
                                              /\ call[i].run \in 1..Len(runs')
      BY <1>2, <1>3, <2>1, Zenon
    <2>3. ASSUME NEW i \in Calls, call[i].run # 0
          PROVE  /\ call[i].run \in 1..Len(runs')
                 /\ call[i].op = "put" => ~multipart
                 /\ row[runs'[call[i].run].task].st \notin {"none", "prepared"}
                 /\ row[runs'[call[i].run].task].st = "uploading" =>
                      row[runs'[call[i].run].task].archive = runs'[call[i].run].archive
                 /\ ~multipart => \A j \in Calls \ {i} : call[j].run # 0 =>
                                    runs'[call[j].run].task # runs'[call[i].run].task
      <3>1. /\ call[i].op = "put" => ~multipart
            /\ row[runs[call[i].run].task].st \notin {"none", "prepared"}
            /\ row[runs[call[i].run].task].st = "uploading" =>
                 row[runs[call[i].run].task].archive = runs[call[i].run].archive
        BY <2>3, Zenon DEF UploadInv, Requests, TaskOf, ArchiveOf
      <3>2. ASSUME ~multipart, NEW j \in Calls \ {i}, call[j].run # 0
            PROVE  runs'[call[j].run].task # runs'[call[i].run].task
        <4>1. runs[call[j].run].task # runs[call[i].run].task
          BY <2>3, <3>2, Zenon DEF UploadInv, Requests, TaskOf
        <4> QED BY <2>2, <2>3, <3>2, <4>1, Zenon
      <3>3. runs'[call[i].run] = runs[call[i].run] /\ call[i].run \in 1..Len(runs')
        BY <2>2, <2>3, Zenon
      <3> QED BY <3>1, <3>2, <3>3, Zenon
    <2>4. \A i \in Calls : call[i].op # "none" \/ call[i].written => call[i].run # 0
      BY Zenon DEF UploadInv, Requests
    <2> QED BY <2>3, <2>4, Zenon DEF Requests, TaskOf, ArchiveOf
  <1>7. RowsHold'
    <2>1. \A t \in Tasks : row[t].cipher # 0 => row[t].cipher \in 1..Len(runs)
      BY Zenon DEF UploadInv, RowsHold
    <2>2. \A t \in Tasks : row[t].cipher # 0 => runs'[row[t].cipher] = runs[row[t].cipher]
                                                /\ row[t].cipher \in 1..Len(runs')
      BY <1>2, <1>3, <2>1, Zenon
    <2> QED BY <2>2, Zenon DEF UploadInv, RowsHold, TaskOf, ArchiveOf
  <1> QED BY <1>4, <1>5, <1>6, <1>7, Zenon DEF UploadInv

\* StartRun keeps it.
LEMMA StartRunKeeps ==
  ASSUME UploadInv, NEW t \in Tasks, StartRun(t)
  PROVE  UploadInv'
  <1>1. gen' = gen /\ multipart' = multipart /\ row' = row /\ call' = call
    BY Zenon DEF StartRun, relay, spool
  <1>2. CASE src' = src /\ runs' = runs
    BY <1>1, <1>2, UploadStays, Zenon
  <1>3. CASE /\ \E a \in Archives : runs' = Append(runs, [task |-> t, archive |-> a])
             /\ src' = [NoSource EXCEPT !.pc = "begin", !.task = t, !.run = Len(runs) + 1]
    <2>1. PICK a \in Archives : runs' = Append(runs, [task |-> t, archive |-> a])
      BY <1>3, Zenon
    <2> DEFINE x == [task |-> t, archive |-> a]
    <2>2. x \in RunFacts /\ x.task = t
      BY DEF RunFacts
    <2>3. runs \in Seq(RunFacts)
      BY Zenon DEF UploadInv, UploadTypes
    <2>4. Len(runs) + 1 \in Nat /\ t \in Nat
      BY <2>3, RelayAssumption DEF RelayAssumption, Tasks
    <2>5. /\ src' \in SourceRun /\ src'.pc = "begin" /\ src'.task = t
          /\ src'.run = Len(runs) + 1
      <3>1. src' = [NoSource EXCEPT !.pc = "begin", !.task = t, !.run = Len(runs) + 1]
        BY <1>3, Zenon
      <3> QED BY <2>4, <3>1 DEF NoSource, SourceRun
    <2>6. runs' = Append(runs, x)
      BY <2>1, Zenon
    <2> HIDE DEF x
    <2> QED BY <1>1, <2>2, <2>5, <2>6, RunsGrow, Zenon
  <1> QED BY <1>2, <1>3, Zenon DEF StartRun

------------------------------------------------------------------------------
(* The rows outside an upload. *)

\* A row that is created has no requests and no ciphertext.
LEMMA RowCreated ==
  ASSUME UploadInv, NEW t \in Tasks, row[t].st = "none",
         row' = [row EXCEPT ![t] = [NoRow EXCEPT !.st = "prepared", !.gen = gen]],
         gen' = gen, call' = call, src' = src, runs' = runs, multipart' = multipart
  PROVE  UploadInv'
  <1> DEFINE x == [NoRow EXCEPT !.st = "prepared", !.gen = gen]
  <1>1. row \in [Tasks -> RelayRow] /\ gen \in Nat /\ UploadTypes
    BY Zenon DEF UploadInv, UploadTypes
  <1>2. x \in RelayRow /\ x.st = "prepared" /\ x.cipher = 0
    BY <1>1 DEF NoRow, RelayRow, RowStates
  <1>3. row' = [row EXCEPT ![t] = x]
    OBVIOUS
  <1> HIDE DEF x
  <1>4. /\ row' \in [Tasks -> RelayRow] /\ row'[t] = x
        /\ \A u \in Tasks : u # t => row'[u] = row[u]
    BY <1>1, <1>2, <1>3
  <1>5. \A i \in Calls : call[i].run # 0 =>
           TaskOf(call[i].run) # t /\ TaskOf(call[i].run) \in Tasks
    <2> SUFFICES ASSUME NEW i \in Calls, call[i].run # 0
                 PROVE  TaskOf(call[i].run) # t /\ TaskOf(call[i].run) \in Tasks
      OBVIOUS
    <2>1. /\ call[i].run \in 1..Len(runs)
          /\ row[TaskOf(call[i].run)].st \notin {"none", "prepared"}
      BY Zenon DEF UploadInv, Requests
    <2>2. TaskOf(call[i].run) \in Tasks
      BY <1>1, <2>1, RunParts, Zenon
    <2>3. TaskOf(call[i].run) # t
      BY <2>1
    <2> QED BY <2>2, <2>3
  <1>6. \A i \in Calls : call[i].run # 0 => row'[TaskOf(call[i].run)] = row[TaskOf(call[i].run)]
    BY <1>4, <1>5, Zenon
  <1>7. Requests'
    <2>1. ASSUME NEW i \in Calls
          PROVE  /\ call[i].op # "none" \/ call[i].written => call[i].run # 0
                 /\ call[i].run # 0 =>
                      /\ call[i].run \in 1..Len(runs)
                      /\ call[i].op = "put" => ~multipart
                      /\ row[TaskOf(call[i].run)].st \notin {"none", "prepared"}
                      /\ row[TaskOf(call[i].run)].st = "uploading" =>
                           row[TaskOf(call[i].run)].archive = ArchiveOf(call[i].run)
                      /\ ~multipart => \A j \in Calls \ {i} : call[j].run # 0 =>
                                         TaskOf(call[j].run) # TaskOf(call[i].run)
      BY Zenon DEF UploadInv, Requests
    <2> QED BY <1>6, <2>1, RequestsNext, Zenon
  <1>8. RowsHold'
    <2>1. \A u \in Tasks : u # t =>
            /\ row'[u].st = "uploading" => row'[u].archive # 0
            /\ row'[u].cipher # 0 =>
                 /\ row'[u].st \in Kept \cup {"expired"}
                 /\ row'[u].cipher \in 1..Len(runs)
                 /\ TaskOf(row'[u].cipher) = u
                 /\ ArchiveOf(row'[u].cipher) = row'[u].archive
      BY <1>4, Zenon DEF UploadInv, RowsHold
    <2>2. row'[t].st # "uploading" /\ row'[t].cipher = 0
      BY <1>2, <1>4
    <2> QED BY <2>1, <2>2, Zenon DEF RowsHold, TaskOf, ArchiveOf
  <1>9. src' \in SourceRun /\ Sourced' /\ call' \in [Calls -> UploadRequest]
    BY <1>1, SourceStays, Zenon DEF UploadTypes, UploadInv
  <1> QED BY <1>4, <1>7, <1>8, <1>9, UploadNext, Zenon

\* The worker keeps it.
LEMMA WorkerKeeps ==
  ASSUME UploadInv, WorkerStep
  PROVE  UploadInv'
  <1>1. CASE PrepareSnapshotRelay
    <2>1. gen' = gen /\ call' = call /\ src' = src /\ runs' = runs /\ multipart' = multipart
      BY <1>1, Zenon DEF PrepareSnapshotRelay, spool, source, history
    <2>2. CASE row' = row
      BY <2>1, <2>2, UploadStays, Zenon
    <2>3. CASE /\ row[wf.task].st = "none"
               /\ row' = [row EXCEPT ![wf.task] = [NoRow EXCEPT !.st = "prepared", !.gen = gen]]
      <3>1. CASE wf.task \in Tasks
        BY <2>1, <2>3, <3>1, RowCreated, Zenon
      <3>2. CASE wf.task \notin Tasks
        <4>1. row \in [Tasks -> RelayRow]
          BY Zenon DEF UploadInv, UploadTypes
        <4>2. row' = row
          BY <2>3, <3>2, <4>1
        <4> QED BY <2>1, <4>2, UploadStays, Zenon
      <3> QED BY <3>1, <3>2, Zenon
    <2> QED BY <1>1, <2>2, <2>3, Zenon DEF PrepareSnapshotRelay
  <1>2. CASE SendCommands
    BY <1>2, UploadStays, Zenon DEF SendCommands, relay, spool, source, history
  <1>3. CASE AwaitSource
    BY <1>3, UploadStays, Zenon DEF AwaitSource, relay, spool, source, history
  <1>4. CASE AwaitTarget
    BY <1>4, UploadStays, Zenon DEF AwaitTarget, relay, spool, source, history
  <1>5. CASE LoadReceipt
    BY <1>5, UploadStays, Zenon DEF LoadReceipt, relay, spool, source, history
  <1>6. CASE Complete
    BY <1>6, UploadStays, Zenon DEF Complete, relay, spool, source, history
  <1>7. CASE Retry
    BY <1>7, UploadStays, Zenon DEF Retry, spool, source, history
  <1>8. CASE RecoverGeneration
    BY <1>8, UploadStays, Zenon DEF RecoverGeneration, spool, source, history
  <1>9. CASE Begin
    BY <1>9, UploadStays, Zenon DEF Begin, spool, source, history
  <1>10. CASE FailWorkflow
    BY <1>10, UploadStays, Zenon DEF FailWorkflow, relay, spool, source, history
  <1>11. CASE Adopt
    BY <1>11, UploadStays, Zenon DEF Adopt, spool, source, history
  <1> QED BY <1>1, <1>2, <1>3, <1>4, <1>5, <1>6, <1>7, <1>8, <1>9, <1>10, <1>11, Zenon DEF WorkerStep

\* A row that moves among the states after its upload, or expires.
LEMMA RowMovesTo ==
  ASSUME UploadInv, NEW t \in Tasks, NEW s \in RowStates, NEW b \in BOOLEAN,
         row' = [row EXCEPT ![t].st = s, ![t].lease = b],
         s = "expired" \/ (row[t].st \in Kept /\ s \in Kept) \/ s = row[t].st,
         gen' = gen, call' = call, src' = src, runs' = runs, multipart' = multipart
  PROVE  UploadInv'
  <1> DEFINE x == [row[t] EXCEPT !.st = s, !.lease = b]
  <1>1. row \in [Tasks -> RelayRow]
    BY Zenon DEF UploadInv, UploadTypes
  <1>2. row[t] \in RelayRow
    BY <1>1
  <1>3. x \in RelayRow
    BY <1>2 DEF RelayRow
  <1>4. x.st = s /\ x.archive = row[t].archive /\ x.cipher = row[t].cipher
    BY <1>2 DEF RelayRow
  <1>5. row' = [row EXCEPT ![t] = x]
    BY <1>1
  <1> HIDE DEF x
  <1>6. /\ row' \in [Tasks -> RelayRow] /\ row'[t] = x
        /\ \A u \in Tasks : u # t => row'[u] = row[u]
    BY <1>1, <1>3, <1>5
  <1>7. \A u \in Tasks :
          /\ row'[u].archive = row[u].archive /\ row'[u].cipher = row[u].cipher
          /\ \/ row'[u].st = row[u].st
             \/ row[u].st \in Kept /\ row'[u].st \in Kept
             \/ row'[u].st = "expired"
    <2> SUFFICES ASSUME NEW u \in Tasks
                 PROVE  /\ row'[u].archive = row[u].archive /\ row'[u].cipher = row[u].cipher
                        /\ \/ row'[u].st = row[u].st
                           \/ row[u].st \in Kept /\ row'[u].st \in Kept
                           \/ row'[u].st = "expired"
      BY Zenon
    <2>1. CASE u = t
      BY <1>4, <1>6, <2>1, Zenon
    <2>2. CASE u # t
      BY <1>6, <2>2, Zenon
    <2> QED BY <2>1, <2>2, Zenon
  <1> QED BY <1>6, <1>7, RowMoves, Zenon

\* The target's steps keep it.
LEMMA TargetKeeps ==
  ASSUME UploadInv, NEW t \in Tasks,
         \/ PrepareRelayTransfer(t) \/ StartReceive(t) \/ PullCiphertext(t) \/ ConsumeTransfer(t)
         \/ ReceiveBody(t) \/ ReportPublishing(t) \/ Exchange(t) \/ PublishTransfer(t)
         \/ ConfirmDownload(t)
  PROVE  UploadInv'
  <1>1. {"stored", "downloading", "consumed"} \subseteq RowStates
    BY DEF RowStates
  <1>2. "stored" \in Kept /\ "downloading" \in Kept /\ "consumed" \in Kept
    BY DEF Kept
  <1>3. TRUE \in BOOLEAN /\ FALSE \in BOOLEAN
    OBVIOUS
  <1>4. CASE PullCiphertext(t)
    <2>1. gen' = gen /\ call' = call /\ src' = src /\ runs' = runs /\ multipart' = multipart
      BY <1>4, Zenon DEF PullCiphertext, spool, source, history
    <2>2. CASE row' = row
      BY <2>1, <2>2, UploadStays, Zenon
    <2>3. CASE row[t].st \in Kept /\ row' = [row EXCEPT ![t].st = "downloading", ![t].lease = TRUE]
      BY <1>1, <1>2, <1>3, <2>1, <2>3, RowMovesTo, Zenon
    <2>4. CASE row[t].st \in Kept /\ row' = [row EXCEPT ![t].st = "stored", ![t].lease = FALSE]
      BY <1>1, <1>2, <1>3, <2>1, <2>4, RowMovesTo, ZenonT(60)
    <2>5. ClaimRelayDownload(t) \/ ContinueRelayDownload(t) => row[t].st \in Kept
      BY <1>2 DEF ClaimRelayDownload, ContinueRelayDownload
    <2> QED BY <1>4, <2>2, <2>3, <2>4, <2>5, Zenon DEF PullCiphertext
  <1>5. CASE ConfirmDownload(t)
    <2>1. gen' = gen /\ call' = call /\ src' = src /\ runs' = runs /\ multipart' = multipart
      BY <1>5, Zenon DEF ConfirmDownload, source, history
    <2>2. CASE row' = row
      BY <2>1, <2>2, UploadStays, Zenon
    <2>3. CASE /\ row[t].st \in {"downloading", "consumed"}
               /\ row' = [row EXCEPT ![t].st = "consumed", ![t].lease = FALSE]
      <3>1. row[t].st \in Kept
        BY <2>3 DEF Kept
      <3> QED BY <1>1, <1>2, <1>3, <2>1, <2>3, <3>1, RowMovesTo, Zenon
    <2> QED BY <1>5, <2>2, <2>3, Zenon DEF ConfirmDownload
  <1>6. CASE PrepareRelayTransfer(t)
    BY <1>6, UploadStays, Zenon DEF PrepareRelayTransfer, relay, spool, source, history
  <1>7. CASE StartReceive(t)
    BY <1>7, UploadStays, Zenon DEF StartReceive, relay, spool, source, history
  <1>8. CASE ConsumeTransfer(t)
    BY <1>8, UploadStays, Zenon DEF ConsumeTransfer, relay, spool, source, history
  <1>9. CASE ReceiveBody(t)
    BY <1>9, UploadStays, Zenon DEF ReceiveBody, relay, spool, source, history
  <1>10. CASE ReportPublishing(t)
    BY <1>10, UploadStays, Zenon DEF ReportPublishing, relay, spool, source, history
  <1>11. CASE Exchange(t)
    BY <1>11, UploadStays, Zenon DEF Exchange, relay, spool, source, history
  <1>12. CASE PublishTransfer(t)
    BY <1>12, UploadStays, Zenon DEF PublishTransfer, relay, spool, source, history
  <1> QED BY <1>4, <1>5, <1>6, <1>7, <1>8, <1>9, <1>10, <1>11, <1>12, Zenon

\* Leases, breaks, time and the cleanup keep it.
LEMMA TimeKeeps ==
  ASSUME UploadInv, NEW t \in Tasks,
         ReceiveBreaks(t) \/ LeaseLapses(t) \/ Expires(t) \/ Ages(t) \/ Cleanup(t)
  PROVE  UploadInv'
  <1>1. row \in [Tasks -> RelayRow]
    BY Zenon DEF UploadInv, UploadTypes
  <1>2. CASE ReceiveBreaks(t)
    BY <1>2, UploadStays, Zenon DEF ReceiveBreaks, relay, spool, source, history
  <1>3. CASE LeaseLapses(t)
    <2>1. gen' = gen /\ call' = call /\ src' = src /\ runs' = runs /\ multipart' = multipart
      BY <1>3, Zenon DEF LeaseLapses, spool, source, history
    <2>2. row' = [row EXCEPT ![t].lease = FALSE]
      BY <1>3, Zenon DEF LeaseLapses
    <2> DEFINE s == row[t].st
    <2>3. row[t] \in RelayRow
      BY <1>1
    <2>4. s \in RowStates
      BY <2>3 DEF RelayRow
    <2>5. row' = [row EXCEPT ![t].st = s, ![t].lease = FALSE]
      <3>1. [row[t] EXCEPT !.st = s, !.lease = FALSE] = [row[t] EXCEPT !.lease = FALSE]
        BY <2>3 DEF RelayRow
      <3> QED BY <1>1, <2>2, <3>1
    <2>6. FALSE \in BOOLEAN
      OBVIOUS
    <2> QED BY <2>1, <2>4, <2>5, <2>6, RowMovesTo, Zenon
  <1>4. CASE Expires(t)
    BY <1>4, UploadStays, Zenon DEF Expires, spool, source, history
  <1>5. CASE Ages(t)
    BY <1>5, UploadStays, Zenon DEF Ages, spool, source, history
  <1>6. CASE Cleanup(t)
    <2>1. CASE ExpireRelayTransfers(t)
      <3>1. gen' = gen /\ call' = call /\ src' = src /\ runs' = runs /\ multipart' = multipart
        BY <2>1, Zenon DEF ExpireRelayTransfers, source, history
      <3>2. row' = [row EXCEPT ![t].st = "expired", ![t].lease = FALSE]
        BY <2>1, Zenon DEF ExpireRelayTransfers
      <3>3. "expired" \in RowStates /\ FALSE \in BOOLEAN
        BY DEF RowStates
      <3> QED BY <3>1, <3>2, <3>3, RowMovesTo, Zenon
    <2>2. CASE UNCHANGED <<wf, gen, ctl, relay, cmd, call, source, target, faults>>
      BY <2>2, UploadStays, Zenon DEF relay, source, history
    <2> QED BY <1>6, <2>1, <2>2, Zenon DEF Cleanup
  <1> QED BY <1>2, <1>3, <1>4, <1>5, <1>6, Zenon

------------------------------------------------------------------------------
(* The theorem. *)

\* The invariant holds initially.
LEMMA InitUploadInv ==
  ASSUME RelayInit
  PROVE  UploadInv
  <1>1. /\ row = [t \in Tasks |-> NoRow] /\ gen = 1 /\ call = [i \in Calls |-> NoCall]
        /\ src = NoSource /\ runs = <<>> /\ multipart \in Protocols
    BY Zenon DEF RelayInit
  <1>2. NoRow.st = "none" /\ NoRow.cipher = 0 /\ NoSource.pc = "idle"
        /\ NoCall.run = 0 /\ NoCall.op = "none" /\ NoCall.written = FALSE
    BY DEF NoRow, NoSource, NoCall
  <1>3. UploadTypes
    <2>1. multipart \in BOOLEAN
      BY <1>1, RelayAssumption DEF RelayAssumption
    <2>2. gen \in Nat /\ runs \in Seq(RunFacts)
      BY <1>1
    <2>3. row \in [Tasks -> RelayRow] /\ call \in [Calls -> UploadRequest] /\ src \in SourceRun
      BY <1>1, Empties
    <2> QED BY <2>1, <2>2, <2>3, Zenon DEF UploadTypes
  <1>4. Sourced
    BY <1>1, <1>2 DEF Sourced
  <1>5. Requests
    <2>1. \A i \in Calls : call[i] = NoCall
      BY <1>1, Zenon
    <2> QED BY <1>2, <2>1, Zenon DEF Requests
  <1>6. RowsHold
    <2>1. \A t \in Tasks : row[t].st # "uploading" /\ row[t].cipher = 0
      BY <1>1, <1>2
    <2> QED BY <2>1, Zenon DEF RowsHold
  <1> QED BY <1>3, <1>4, <1>5, <1>6, Zenon DEF UploadInv

\* Every step keeps it.
LEMMA NextUploadInv ==
  ASSUME UploadInv, [RelayNext]_relayVars
  PROVE  UploadInv'
  <1>1. CASE WorkerStep
    BY <1>1, WorkerKeeps, Zenon
  <1>2. CASE ControllerCrash \/ Promote
    BY <1>2, ControllerKeeps, Zenon
  <1>3. CASE HandlerStep
    BY <1>3, LinkPartKeeps, WriteCiphertextKeeps, RequestEndsKeep, Zenon DEF HandlerStep
  <1>4. CASE \E i \in Calls : ClientGone(i)
    BY <1>4, ClientGoneKeeps, Zenon
  <1>5. CASE SourceStep
    BY <1>5, StartRunKeeps, BeginUploadKeeps, UploadPartsKeep, EndRunKeeps, Zenon DEF SourceStep
  <1>6. CASE SourceCrash
    BY <1>6, SourceCrashKeeps, Zenon
  <1>7. CASE TargetStep
    BY <1>7, TargetKeeps, Zenon DEF TargetStep
  <1>8. CASE \E t \in Tasks : \/ ReceiveBreaks(t) \/ LeaseLapses(t) \/ Expires(t)
                              \/ Ages(t) \/ Cleanup(t)
    BY <1>8, TimeKeeps, Zenon
  <1>9. CASE TargetCrash
    BY <1>9, UploadStays, Zenon DEF TargetCrash, relay, spool, source, history
  <1>10. CASE UNCHANGED relayVars
    BY <1>10, UploadStays, Zenon DEF relayVars, relay, spool, source, history
  <1> QED BY <1>1, <1>2, <1>3, <1>4, <1>5, <1>6, <1>7, <1>8, <1>9, <1>10, Zenon DEF RelayNext, TimePasses

\* What the relay hands out under a digest is always one run's ciphertext of
\* the archive with that digest (ClaimRelayMultipartUpload,
\* CompleteRelayUpload).
THEOREM StoredStaysConsistent == RelaySpec => []StoredIsConsistent
  <1>1. RelayInit => UploadInv
    BY InitUploadInv
  <1>2. UploadInv /\ [RelayNext]_relayVars => UploadInv'
    BY NextUploadInv
  <1>3. UploadInv => StoredIsConsistent
    BY Zenon DEF UploadInv, RowsHold, StoredIsConsistent
  <1> QED BY <1>1, <1>2, <1>3, PTL DEF RelaySpec

===========================================================================
