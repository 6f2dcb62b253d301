-------------------------- MODULE TransferProofs --------------------------
(***************************************************************************)
(* Proofs about Transfer, for any number of workers, capabilities,         *)
(* generations, writes and faults.                                         *)
(*                                                                         *)
(* A receipt is as good as the tree: once the target has published, its    *)
(* transfer is never replaced and nothing is received over it, so every    *)
(* answer that carries a receipt, and every worker that carries one to     *)
(* CompleteSnapshotWorkflow, names the tree on disk.  That tree is whole,  *)
(* because an archive leaves the source only after the adapter confirmed   *)
(* that the gate had been held since the copy began.                       *)
(***************************************************************************)
EXTENDS Transfer, TLAPS

Gated == {"quiescing", "drained", "snapshotting", "copying", "copied"}
SrcPcs == {"idle", "registered", "released", "transferring", "sending"} \cup Gated
WkPcs == {"idle", "load", "exec", "mark", "complete", "retry", "fail", "reset"} \cup Calls
CmdStates == {"none", "queued", "running", "ok", "failed"}

StoreShapes ==
    /\ state \in Phases \cup Terminal
    /\ wf \in [attempt : Nat, recov : Nat, recovery : BOOLEAN, gen : 1..MaxGen]
    /\ cap \in [id : Caps, st : {"prepared", "revoked", "consumed"}]
    /\ gen \in 1..MaxGen

WorkerShapes ==
    /\ at \in [Workers -> WkPcs]
    /\ exec \in [Workers -> Execution]
    /\ got \in [Workers -> Trees]

QueueShapes == cmd \in [Ops -> CmdStates] /\ answer \in [Ops -> Trees]

SourceShapes ==
    /\ data \in Nat
    /\ src \in [pc : SrcPcs, cap : Caps, base : Nat, copy : Trees, live : BOOLEAN]

TargetShapes ==
    /\ xfer \in [st : {"none", "prepared", "consumed", "failed", "published"}, cap : Caps, c : Trees]
    /\ rcv \in [pc : {"idle", "received", "verified", "fenced", "exchanged"}, c : Trees]
    /\ disk \in Nat

Shapes == StoreShapes /\ WorkerShapes /\ QueueShapes /\ SourceShapes /\ TargetShapes

SourceInv ==
    /\ gate = "held" /\ src.pc = "copying" => data = src.base
    /\ gate = "held" /\ src.pc = "copied" => src.copy \in Nat
    /\ src.pc \in {"released", "transferring", "sending"} => src.copy \in Nat

TargetInv ==
    /\ rcv.pc # "idle" => xfer.st = "consumed" /\ rcv.c \in Nat
    /\ rcv.pc = "exchanged" => disk = rcv.c
    /\ xfer.st = "published" => disk = xfer.c

AnswerInv ==
    \A op \in Ops : op[1] # "prepare" /\ cmd[op] = "ok" => xfer.st = "published" /\ answer[op] = xfer.c

WorkerInv ==
    \A w \in Workers : at[w] = "complete" => xfer.st = "published" /\ got[w] = xfer.c

DoneInv == state = "succeeded" => xfer.st = "published"

IInv == Shapes /\ SourceInv /\ TargetInv /\ AnswerInv /\ WorkerInv /\ DoneInv

---------------------------------------------------------------------------
(* Every step keeps the shapes.                                            *)

\* The values that a worker, a run and a receive rest in, and what a worker
\* reads of the store, are well formed.
LEMMA RestingShapes ==
    /\ NoExecution \in Execution
    /\ NoRun \in [pc : SrcPcs, cap : Caps, base : Nat, copy : Trees, live : BOOLEAN]
    /\ NoReceive \in [pc : {"idle", "received", "verified", "fenced", "exchanged"}, c : Trees]
    /\ 0 \in Trees
BY TransferAssumption DEF NoExecution, NoRun, NoReceive, Execution, SrcPcs, Gated, Trees, Torn, Phases, Caps

\* What a worker reads of the store is well formed.
LEMMA SnapshotShape == StoreShapes => Snapshot \in Execution
BY Zenon DEF StoreShapes, Snapshot, Execution

\* Only commands the Controller derives an operation id for are issued.
LEMMA OpShape ==
    ASSUME WorkerShapes, NEW w \in Workers, at[w] \in Calls
    PROVE  OpOf(w) \in Ops /\ OpOf(w)[1] = at[w]
<1>1. exec[w].cap \in Caps /\ exec[w].gen \in 1..MaxGen
    BY Zenon DEF WorkerShapes, Execution
<1>2. CASE at[w] = "recover"
    BY <1>1, <1>2, Zenon DEF OpOf, Ops
<1>3. CASE at[w] # "recover"
    BY <1>1, <1>3, Zenon DEF OpOf, Ops, Calls
<1> QED BY <1>2, <1>3, Zenon

\* The invariant holds of a workflow just created.
LEMMA InitIInv == Init => IInv
BY TransferAssumption, RestingShapes DEF Init, IInv, Shapes, StoreShapes, WorkerShapes, QueueShapes,
   SourceShapes, TargetShapes, SourceInv, TargetInv, AnswerInv, WorkerInv, DoneInv,
   NoRun, NoReceive, WkPcs, Trees, Torn, Phases, Terminal, Caps, CmdStates

\* A worker that moves with new values stays well formed.
LEMMA GoWithShapes ==
    ASSUME WorkerShapes, NEW w \in Workers, NEW pc \in WkPcs, NEW x \in Execution, NEW c \in Trees,
           GoWith(w, pc, x, c)
    PROVE  WorkerShapes'
BY Zenon DEF WorkerShapes, GoWith

\* So does one that only moves.
LEMMA GoShapes ==
    ASSUME WorkerShapes, NEW w \in Workers, NEW pc \in WkPcs, Go(w, pc)
    PROVE  WorkerShapes'
BY Zenon DEF WorkerShapes, Go

\* A worker moves: only one that holds the published tree may go to complete.
Moves(w) ==
    \/ \E pc \in WkPcs \ {"complete"} : Go(w, pc)
    \/ \E pc \in WkPcs \ {"complete"}, x \in Execution : GoWith(w, pc, x, 0)
    \/ \E x \in Execution, c \in Trees :
          GoWith(w, "complete", x, c) /\ xfer.st = "published" /\ c = xfer.c

\* Such a move keeps what is known of the workers.
LEMMA MovesKeep ==
    ASSUME WorkerShapes, WorkerInv, NEW w \in Workers, Moves(w), UNCHANGED xfer
    PROVE  WorkerShapes' /\ WorkerInv'
<1>1. ASSUME NEW pc \in WkPcs \ {"complete"}, Go(w, pc) PROVE WorkerShapes' /\ WorkerInv'
    BY <1>1, GoShapes, Zenon DEF WorkerShapes, WorkerInv, Go
<1>2. ASSUME NEW pc \in WkPcs \ {"complete"}, NEW x \in Execution, GoWith(w, pc, x, 0)
      PROVE  WorkerShapes' /\ WorkerInv'
    BY <1>2, GoWithShapes, RestingShapes, Zenon DEF WorkerShapes, WorkerInv, GoWith
<1>3. ASSUME NEW x \in Execution, NEW c \in Trees,
             GoWith(w, "complete", x, c), xfer.st = "published", c = xfer.c
      PROVE  WorkerShapes' /\ WorkerInv'
  <2>1. "complete" \in WkPcs BY Zenon DEF WkPcs
  <2> QED BY <1>3, <2>1, GoWithShapes, Zenon DEF WorkerShapes, WorkerInv, GoWith
<1> QED BY <1>1, <1>2, <1>3, Zenon DEF Moves

\* Coming to rest is a move.
LEMMA RestMoves == ASSUME NEW w \in Workers, Rest(w) PROVE Moves(w)
BY RestingShapes, Zenon DEF Rest, Moves, WkPcs

\* So is going anywhere but to complete.
LEMMA GoMoves ==
    ASSUME NEW w \in Workers, NEW pc \in WkPcs \ {"complete"}, Go(w, pc)
    PROVE  Moves(w)
BY Zenon DEF Moves

\* What an answered start, receipt or recover command carries is the published tree.
LEMMA AnswerCarries ==
    ASSUME WorkerShapes, QueueShapes, AnswerInv, NEW w \in Workers,
           at[w] \in {"start", "receipt", "recover"}, cmd[OpOf(w)] = "ok"
    PROVE  answer[OpOf(w)] \in Trees /\ xfer.st = "published" /\ answer[OpOf(w)] = xfer.c
BY OpShape, Zenon DEF Calls, QueueShapes, AnswerInv

\* Every step of a worker is a move or leaves the workers alone.
LEMMA WorkerMoves ==
    ASSUME IInv, NEW w \in Workers,
           WorkerStep(w) \/ Defer(w) \/ ExecFails(w) \/ WorkerCancelled(w)
    PROVE  Moves(w) \/ UNCHANGED wk
<1> USE DEF IInv, Shapes
<1>0. Snapshot \in Execution
    BY SnapshotShape, Zenon
<1>a. "load" \in WkPcs \ {"complete"} /\ "exec" \in WkPcs \ {"complete"}
      /\ "prepare" \in WkPcs \ {"complete"} /\ "receipt" \in WkPcs \ {"complete"}
      /\ "retry" \in WkPcs \ {"complete"} /\ "recover" \in WkPcs \ {"complete"}
      /\ "reset" \in WkPcs \ {"complete"} /\ "mark" \in WkPcs \ {"complete"}
      /\ "start" \in WkPcs \ {"complete"} /\ "fail" \in WkPcs \ {"complete"}
    BY Zenon DEF WkPcs, Calls
<1>b. Return(w) => Moves(w)
    BY RestMoves, Zenon DEF Return
<1>c. \A pc \in WkPcs \ {"complete"} : Go(w, pc) => Moves(w)
    BY GoMoves, Zenon
<1>d. \A pc \in WkPcs \ {"complete"}, x \in Execution : GoWith(w, pc, x, 0) => Moves(w)
    BY Zenon DEF Moves
<1>e. \A x \in Execution, c \in Trees :
         GoWith(w, "complete", x, c) /\ xfer.st = "published" /\ c = xfer.c => Moves(w)
    BY Zenon DEF Moves
<1>f. exec[w] \in Execution
    BY Zenon DEF WorkerShapes
<1>1. CASE Claim(w)
    BY <1>0, <1>a, <1>d, <1>1, Zenon DEF Claim
<1>2. CASE Load(w)
    BY <1>0, <1>a, <1>d, <1>2, Zenon DEF Load
<1>3. CASE Recover(w)
    BY <1>a, <1>c, <1>3, Zenon DEF Recover
<1>4. CASE SetQuiescing(w)
  <2>1. [exec[w] EXCEPT !.state = "quiescing"] \in Execution
    BY <1>f, Zenon DEF Execution, Phases
  <2> QED BY <2>1, <1>a, <1>b, <1>d, <1>4, Zenon DEF SetQuiescing
<1>5. CASE Begin(w)
  <2>1. Current /\ cap.id < MaxCap /\ cap' = [id |-> cap.id + 1, st |-> "prepared"]
        => [Snapshot EXCEPT !.cap = cap'.id, !.prepared = TRUE] \in Execution
    <3>1. cap.id < MaxCap => cap.id + 1 \in Caps
      BY TransferAssumption DEF StoreShapes, Caps
    <3>2. \A c \in Caps : [Snapshot EXCEPT !.cap = c, !.prepared = TRUE] \in Execution
      BY <1>0, Zenon DEF Execution
    <3> SUFFICES ASSUME cap.id < MaxCap, cap' = [id |-> cap.id + 1, st |-> "prepared"]
                 PROVE  [Snapshot EXCEPT !.cap = cap'.id, !.prepared = TRUE] \in Execution
      BY Zenon
    <3>3. cap'.id \in Caps BY <3>1, Zenon
    <3> QED BY <3>2, <3>3, Zenon
  <2> QED BY <2>1, <1>a, <1>c, <1>d, <1>5, Zenon DEF Begin
<1>6. CASE Issue(w)
    BY <1>6, Zenon DEF Issue
<1>7. CASE PrepareDone(w)
    BY <1>a, <1>b, <1>c, <1>7, Zenon DEF PrepareDone
<1>8. CASE MarkRunning(w)
    BY <1>a, <1>c, <1>8, Zenon DEF MarkRunning
<1>9. CASE StartDone(w)
    BY <1>0, <1>a, <1>c, <1>d, <1>e, <1>f, AnswerCarries, <1>9, Zenon DEF StartDone
<1>10. CASE ReceiptDone(w)
    BY <1>a, <1>c, <1>e, <1>f, AnswerCarries, <1>10, Zenon DEF ReceiptDone
<1>11. CASE Complete(w)
    BY <1>b, <1>11, Zenon DEF Complete
<1>12. CASE Retry(w)
    BY <1>a, <1>b, <1>c, RestMoves, <1>12, Zenon DEF Retry
<1>13. CASE Fail(w)
    BY RestMoves, <1>13, Zenon DEF Fail
<1>14. CASE RecoverDone(w)
  <2>1. [Snapshot EXCEPT !.state = "publishing"] \in Execution
    BY <1>0, Zenon DEF Execution, Phases
  <2> QED BY <2>1, <1>a, <1>b, <1>c, <1>e, AnswerCarries, <1>14, Zenon DEF RecoverDone
<1>15. CASE Reset(w)
    BY <1>b, <1>15, Zenon DEF Reset
<1>16. CASE Defer(w)
    BY RestMoves, <1>16, Zenon DEF Defer
<1>17. CASE ExecFails(w)
    BY <1>a, <1>c, <1>17, Zenon DEF ExecFails
<1>18. CASE WorkerCancelled(w)
    BY <1>b, <1>18, Zenon DEF WorkerCancelled
<1> QED
    BY <1>1, <1>2, <1>3, <1>4, <1>5, <1>6, <1>7, <1>8, <1>9, <1>10, <1>11, <1>12, <1>13, <1>14, <1>15, <1>16, <1>17, <1>18, Zenon DEF WorkerStep

\* A worker records success only of a published tree.
LEMMA WorkerStore ==
    ASSUME StoreShapes, DoneInv, WorkerInv, UNCHANGED xfer, NEW w \in Workers,
           WorkerStep(w) \/ Defer(w) \/ ExecFails(w) \/ WorkerCancelled(w)
    PROVE  StoreShapes' /\ DoneInv'
<1> USE DEF StoreShapes, DoneInv, WorkerInv, Phases, Terminal
<1>1. CASE Claim(w)
    BY <1>1, Zenon DEF Claim, store
<1>2. CASE Load(w)
    BY <1>2, Zenon DEF Load
<1>3. CASE Recover(w)
    BY <1>3, Zenon DEF Recover, store
<1>4. CASE SetQuiescing(w)
    BY <1>4, Zenon DEF SetQuiescing
<1>5. CASE Begin(w)
  <2>1. cap.id < MaxCap => cap.id + 1 \in Caps
    BY TransferAssumption DEF Caps
  <2> QED BY <2>1, <1>5 DEF Begin
<1>6. CASE Issue(w)
    BY <1>6, Zenon DEF Issue, store
<1>7. CASE PrepareDone(w)
    BY <1>7, Zenon DEF PrepareDone, store
<1>8. CASE MarkRunning(w)
    BY <1>8, Zenon DEF MarkRunning, store
<1>9. CASE StartDone(w)
    BY <1>9, Zenon DEF StartDone, store
<1>10. CASE ReceiptDone(w)
    BY <1>10, Zenon DEF ReceiptDone, store
<1>11. CASE Complete(w)
    BY <1>11, Zenon DEF Complete
<1>12. CASE Retry(w)
  <2>1. cap.st = "prepared" => [cap EXCEPT !.st = "revoked"] \in [id : Caps, st : {"prepared", "revoked", "consumed"}]
    BY Zenon
  <2>2. [wf EXCEPT !.attempt = @ + 1, !.recovery = FALSE]
          \in [attempt : Nat, recov : Nat, recovery : BOOLEAN, gen : 1..MaxGen]
    <3>1. wf.attempt + 1 \in Nat OBVIOUS
    <3> QED BY <3>1, Zenon
  <2>3. state' \in Phases \cup Terminal /\ gen' = gen /\ (state' = "succeeded" => state = "succeeded")
    BY <1>12, Zenon DEF Retry
  <2>4. cap' = cap \/ (cap.st = "prepared" /\ cap' = [cap EXCEPT !.st = "revoked"])
    BY <1>12, Zenon DEF Retry
  <2>5. wf' = wf \/ wf' = [wf EXCEPT !.attempt = @ + 1, !.recovery = FALSE]
    BY <1>12, Zenon DEF Retry
  <2> QED BY <2>1, <2>2, <2>3, <2>4, <2>5, Zenon
<1>13. CASE Fail(w)
    BY <1>13, Zenon DEF Fail
<1>14. CASE RecoverDone(w)
    BY <1>14, Zenon DEF RecoverDone
<1>15. CASE Reset(w)
  <2>1. cap.st = "prepared" => [cap EXCEPT !.st = "revoked"] \in [id : Caps, st : {"prepared", "revoked", "consumed"}]
    OBVIOUS
  <2>2. [wf EXCEPT !.attempt = @ + 1, !.recov = @ + 1, !.recovery = FALSE]
          \in [attempt : Nat, recov : Nat, recovery : BOOLEAN, gen : 1..MaxGen]
    <3>1. wf.attempt + 1 \in Nat /\ wf.recov + 1 \in Nat OBVIOUS
    <3>2. \A a, r \in Nat : [wf EXCEPT !.attempt = a, !.recov = r, !.recovery = FALSE]
            \in [attempt : Nat, recov : Nat, recovery : BOOLEAN, gen : 1..MaxGen]
      BY Zenon
    <3> QED BY <3>1, <3>2, Zenon
  <2>3. state' \in Phases \cup Terminal /\ gen' = gen /\ (state' = "succeeded" => state = "succeeded")
    BY <1>15, Zenon DEF Reset
  <2>4. cap' = cap \/ (cap.st = "prepared" /\ cap' = [cap EXCEPT !.st = "revoked"])
    BY <1>15, Zenon DEF Reset
  <2>5. wf' = wf \/ wf' = [wf EXCEPT !.attempt = @ + 1, !.recov = @ + 1, !.recovery = FALSE]
    BY <1>15, Zenon DEF Reset
  <2> QED BY <2>1, <2>2, <2>3, <2>4, <2>5, Zenon
<1>16. CASE Defer(w)
    BY <1>16, Zenon DEF Defer, store
<1>17. CASE ExecFails(w)
    BY <1>17, Zenon DEF ExecFails, store
<1>18. CASE WorkerCancelled(w)
    BY <1>18, Zenon DEF WorkerCancelled, store
<1> QED
    BY <1>1, <1>2, <1>3, <1>4, <1>5, <1>6, <1>7, <1>8, <1>9, <1>10, <1>11, <1>12, <1>13, <1>14, <1>15, <1>16, <1>17, <1>18, Zenon DEF WorkerStep

\* A worker reaches the Agents through commands only.
LEMMA WorkerFrame ==
    ASSUME NEW w \in Workers,
           WorkerStep(w) \/ Defer(w) \/ ExecFails(w) \/ WorkerCancelled(w)
    PROVE  /\ UNCHANGED <<source, target>>
           /\ UNCHANGED queue \/ Issue(w)
<1>1. CASE Claim(w)
    BY <1>1, Zenon DEF Claim
<1>2. CASE Load(w)
    BY <1>2, Zenon DEF Load
<1>3. CASE Recover(w)
    BY <1>3, Zenon DEF Recover
<1>4. CASE SetQuiescing(w)
    BY <1>4, Zenon DEF SetQuiescing
<1>5. CASE Begin(w)
    BY <1>5, Zenon DEF Begin
<1>6. CASE Issue(w)
    BY <1>6, Zenon DEF Issue
<1>7. CASE PrepareDone(w)
    BY <1>7, Zenon DEF PrepareDone
<1>8. CASE MarkRunning(w)
    BY <1>8, Zenon DEF MarkRunning
<1>9. CASE StartDone(w)
    BY <1>9, Zenon DEF StartDone
<1>10. CASE ReceiptDone(w)
    BY <1>10, Zenon DEF ReceiptDone
<1>11. CASE Complete(w)
    BY <1>11, Zenon DEF Complete
<1>12. CASE Retry(w)
    BY <1>12, Zenon DEF Retry
<1>13. CASE Fail(w)
    BY <1>13, Zenon DEF Fail
<1>14. CASE RecoverDone(w)
    BY <1>14, Zenon DEF RecoverDone
<1>15. CASE Reset(w)
    BY <1>15, Zenon DEF Reset
<1>16. CASE Defer(w)
    BY <1>16, Zenon DEF Defer
<1>17. CASE ExecFails(w)
    BY <1>17, Zenon DEF ExecFails
<1>18. CASE WorkerCancelled(w)
    BY <1>18, Zenon DEF WorkerCancelled
<1> QED
    BY <1>1, <1>2, <1>3, <1>4, <1>5, <1>6, <1>7, <1>8, <1>9, <1>10, <1>11, <1>12, <1>13, <1>14, <1>15, <1>16, <1>17, <1>18, Zenon DEF WorkerStep

\* Every step of a worker keeps the invariant.
LEMMA WorkerKeeps ==
    ASSUME IInv, NEW w \in Workers,
           WorkerStep(w) \/ Defer(w) \/ ExecFails(w) \/ WorkerCancelled(w)
    PROVE  IInv'
<1>1. UNCHANGED <<source, target>> /\ (UNCHANGED queue \/ Issue(w))
    BY WorkerFrame, Zenon
<1>2. UNCHANGED <<data, gate, src, xfer, rcv, disk>>
    BY <1>1, Zenon DEF source, target
<1>3. SourceShapes' /\ TargetShapes' /\ SourceInv' /\ TargetInv'
    BY <1>2, Zenon DEF IInv, Shapes, SourceShapes, TargetShapes, SourceInv, TargetInv
<1>4. WorkerShapes' /\ WorkerInv'
  <2>1. CASE Moves(w)
    BY <2>1, <1>2, MovesKeep, Zenon DEF IInv, Shapes
  <2>2. CASE UNCHANGED wk
    BY <2>2, <1>2, Zenon DEF IInv, Shapes, WorkerShapes, WorkerInv, wk
  <2> QED BY <2>1, <2>2, WorkerMoves, Zenon
<1>5. QueueShapes' /\ AnswerInv'
  <2>1. CASE UNCHANGED queue
    BY <2>1, <1>2, Zenon DEF IInv, Shapes, QueueShapes, AnswerInv, queue
  <2>2. CASE Issue(w)
    <3>1. OpOf(w) \in Ops
      BY <2>2, OpShape, Zenon DEF Issue, IInv, Shapes
    <3> QED BY <3>1, <2>2, <1>2, Zenon DEF Issue, IInv, Shapes, QueueShapes, AnswerInv, CmdStates
  <2> QED BY <1>1, <2>1, <2>2, Zenon
<1>6. StoreShapes' /\ DoneInv'
    BY <1>2, WorkerStore, Zenon DEF IInv, Shapes
<1> QED BY <1>3, <1>4, <1>5, <1>6, Zenon DEF IInv, Shapes

\* Steps that leave the Agents alone and give no worker a receipt.
LEMMA ControlKeeps ==
    ASSUME IInv, Adopt \/ LeaseLapse \/ ControllerCrash \/ Promote \/ AbortJob
    PROVE  IInv'
<1>1. UNCHANGED <<data, gate, src, xfer, rcv, disk>>
    BY Zenon DEF Adopt, LeaseLapse, ControllerCrash, Promote, AbortJob, source, target
<1>2. SourceShapes' /\ TargetShapes' /\ SourceInv' /\ TargetInv'
    BY <1>1, Zenon DEF IInv, Shapes, SourceShapes, TargetShapes, SourceInv, TargetInv
<1>3. WorkerShapes' /\ WorkerInv'
  <2>1. CASE UNCHANGED wk
    BY <2>1, <1>1, Zenon DEF IInv, Shapes, WorkerShapes, WorkerInv, wk
  <2>2. CASE AllRest
    BY <2>2, RestingShapes, Zenon DEF AllRest, WorkerShapes, WorkerInv, WkPcs
  <2> QED BY <2>1, <2>2, Zenon DEF Adopt, LeaseLapse, ControllerCrash, Promote, AbortJob
<1>4. QueueShapes' /\ AnswerInv'
  <2>1. CASE UNCHANGED queue
    BY <2>1, <1>1, Zenon DEF IInv, Shapes, QueueShapes, AnswerInv, queue
  <2>2. CASE Promote
    BY <2>2, <1>1, Zenon DEF Promote, IInv, Shapes, QueueShapes, AnswerInv, CmdStates
  <2> QED BY <2>1, <2>2, Zenon DEF Adopt, LeaseLapse, ControllerCrash, AbortJob
<1>5. StoreShapes' /\ DoneInv'
  <2> USE <1>1 DEF IInv, Shapes, StoreShapes, DoneInv, Terminal
  <2>1. CASE Adopt
    BY <2>1, Zenon DEF Adopt
  <2>2. CASE LeaseLapse
    BY <2>2, Zenon DEF LeaseLapse
  <2>3. CASE ControllerCrash
    BY <2>3, Zenon DEF ControllerCrash, store
  <2>4. CASE Promote
    BY <2>4, TransferAssumption DEF Promote
  <2>5. CASE AbortJob
    BY <2>5, Zenon DEF AbortJob
  <2> QED BY <2>1, <2>2, <2>3, <2>4, <2>5, Zenon
<1> QED BY <1>2, <1>3, <1>4, <1>5, Zenon DEF IInv, Shapes

\* The adapter and the source's copy: nothing but gate, data and the run changes.
LEMMA CopyKeeps ==
    ASSUME IInv,
           AbortBackup \/ Quiesce \/ CopyBegin \/ CopyEnd \/ ReleaseGate \/ GateExpire \/ UserWrite
    PROVE  IInv'
<1>1. UNCHANGED <<store, queue, wk, target>>
    BY Zenon DEF AbortBackup, Quiesce, CopyBegin, CopyEnd, ReleaseGate, GateExpire, UserWrite
<1>2. StoreShapes' /\ WorkerShapes' /\ QueueShapes' /\ TargetShapes' /\ TargetInv' /\ AnswerInv'
      /\ WorkerInv' /\ DoneInv'
    BY <1>1, Zenon DEF IInv, Shapes, StoreShapes, WorkerShapes, QueueShapes, TargetShapes, TargetInv,
       AnswerInv, WorkerInv, DoneInv, store, queue, wk, target
<1>3. SourceShapes' /\ SourceInv'
  <2> USE TransferAssumption DEF IInv, Shapes, SourceShapes, SourceInv, SrcPcs, Gated, Running
  <2>1. CASE AbortBackup
    BY <2>1, Zenon DEF AbortBackup
  <2>2. CASE Quiesce
    BY <2>2, Zenon DEF Quiesce
  <2>3. CASE CopyBegin
    BY <2>3, Zenon DEF CopyBegin
  <2>4. CASE CopyEnd
    BY <2>4, Zenon DEF CopyEnd, Trees
  <2>5. CASE ReleaseGate
    BY <2>5, Zenon DEF ReleaseGate, ReleaseConfirmed
  <2>6. CASE GateExpire
    BY <2>6, Zenon DEF GateExpire
  <2>7. CASE UserWrite
    BY <2>7 DEF UserWrite
  <2> QED BY <2>1, <2>2, <2>3, <2>4, <2>5, <2>6, <2>7, Zenon
<1> QED BY <1>2, <1>3, Zenon DEF IInv, Shapes

\* An answer other than "ok" never disturbs what answers and workers carry.
LEMMA AnswerKeeps ==
    ASSUME QueueShapes, AnswerInv, NEW op \in Ops, NEW st \in CmdStates, NEW c \in Trees,
           Finish(op, st, c) \/ Answer(op, st, c), UNCHANGED xfer,
           st = "ok" => xfer.st = "published" /\ c = xfer.c
    PROVE  QueueShapes' /\ AnswerInv'
<1>1. CASE Answer(op, st, c)
    BY <1>1, Zenon DEF QueueShapes, AnswerInv, Answer
<1>2. CASE UNCHANGED queue
    BY <1>2, Zenon DEF QueueShapes, AnswerInv, queue
<1> QED BY <1>1, <1>2, Zenon DEF Finish

\* The run answers a command that can be issued.
LEMMA StartOp ==
    ASSUME SourceShapes
    PROVE  Op("start", src.cap) \in Ops /\ "failed" \in CmdStates /\ "ok" \in CmdStates
BY Zenon DEF SourceShapes, Op, Ops, CmdStates

\* The run starts, reports, sends or ends.
LEMMA RunKeeps ==
    ASSUME IInv,
           \/ \E c \in Caps : StartSnapshot(c)
           \/ SrcReport \/ SendDone \/ SrcRefused \/ SrcFails \/ QuiesceLost \/ SourceCrash
    PROVE  IInv'
<1>1. UNCHANGED <<wk, target, data>>
    BY Zenon DEF StartSnapshot, SrcReport, SendDone, SrcRefused, SrcFails, QuiesceLost, SourceCrash, SrcEnd
<1>2. WorkerShapes' /\ TargetShapes' /\ TargetInv' /\ WorkerInv'
    BY <1>1, Zenon DEF IInv, Shapes, WorkerShapes, TargetShapes, TargetInv, WorkerInv, wk, target
<1>3. StoreShapes' /\ DoneInv'
  <2>1. CASE UNCHANGED store
    BY <2>1, <1>1, Zenon DEF IInv, Shapes, StoreShapes, DoneInv, store, target
  <2>2. CASE SrcReport
    BY <2>2, <1>1 DEF SrcReport, Reports, IInv, Shapes, StoreShapes, DoneInv, Phases, target
  <2> QED BY <2>1, <2>2, Zenon DEF StartSnapshot, SendDone, SrcRefused, SrcFails, QuiesceLost, SourceCrash, SrcEnd
<1>4. QueueShapes' /\ AnswerInv'
  <2> USE DEF IInv, Shapes
  <2>0. UNCHANGED xfer
    BY <1>1, Zenon DEF target
  <2>1. CASE UNCHANGED queue
    BY <2>0, <2>1, Zenon DEF QueueShapes, AnswerInv, queue
  <2>2. CASE \E c \in Caps : StartSnapshot(c)
    <3>1. PICK c \in Caps : StartSnapshot(c) BY <2>2, Zenon
    <3>2. Op("start", c) \in Ops BY Zenon DEF Op, Ops
    <3> QED BY <2>0, <3>1, <3>2, Zenon DEF StartSnapshot, QueueShapes, AnswerInv, CmdStates
  <2>3. CASE SendDone
    <3>1. xfer.c \in Trees BY Zenon DEF TargetShapes
    <3> QED BY <2>0, <2>3, <3>1, StartOp, AnswerKeeps, Zenon DEF SendDone
  <2>4. CASE Finish(Op("start", src.cap), "failed", 0)
    BY <2>0, <2>4, StartOp, AnswerKeeps, RestingShapes, Zenon
  <2>5. CASE SourceCrash
    BY <2>0, <2>5, StartOp, Zenon DEF SourceCrash, QueueShapes, AnswerInv, CmdStates
  <2> QED BY <2>1, <2>2, <2>3, <2>4, <2>5, Zenon DEF SrcReport, SrcRefused, SrcFails, QuiesceLost, SrcEnd
<1>5. SourceShapes' /\ SourceInv'
  <2>1. CASE \E c \in Caps : StartSnapshot(c)
    <3>1. PICK c \in Caps : StartSnapshot(c) BY <2>1, Zenon
    <3>2. SourceShapes /\ SourceInv BY Zenon DEF IInv, Shapes
    <3>3. CASE UNCHANGED src
      BY <3>1, <3>2, <3>3, Zenon DEF StartSnapshot, SourceShapes, SourceInv
    <3>4. CASE src' = [NoRun EXCEPT !.pc = "registered", !.cap = c, !.live = TRUE]
      <4>1. src' = [pc |-> "registered", cap |-> c, base |-> 0, copy |-> 0, live |-> TRUE]
        BY <3>4, Zenon DEF NoRun
      <4>2. SourceShapes'
        BY <4>1, <3>2, <1>1, RestingShapes, Zenon DEF SourceShapes, SrcPcs
      <4> QED BY <4>1, <4>2, Zenon DEF SourceInv
    <3> QED BY <3>1, <3>3, <3>4, Zenon DEF StartSnapshot
  <2>2. CASE SrcReport
    BY <2>2, <1>1 DEF SrcReport, Reports, IInv, Shapes, SourceShapes, SourceInv, SrcPcs, Gated
  <2>3. CASE src' = NoRun
    BY <2>3, <1>1, RestingShapes, Zenon DEF IInv, Shapes, SourceShapes, SourceInv, NoRun
  <2> QED BY <2>1, <2>2, <2>3, Zenon DEF SendDone, SrcRefused, SrcFails, QuiesceLost, SourceCrash, SrcEnd
<1> QED BY <1>2, <1>3, <1>4, <1>5, Zenon DEF IInv, Shapes

\* While the target has published, its transfer stays as it is.
LEMMA PublishedStays ==
    ASSUME IInv, xfer.st = "published",
           \/ Send \/ RcvReport \/ Exchange \/ PublishTransfer \/ RcvFails \/ TargetCrash
           \/ \E c \in Caps : PrepareTransfer(c)
           \/ \E op \in Ops : SnapshotReceipt(op)
    PROVE  UNCHANGED <<xfer, disk>>
<1>1. rcv.pc = "idle" BY Zenon DEF IInv, TargetInv
<1>2. ~Send /\ ~RcvReport /\ ~Exchange /\ ~PublishTransfer /\ ~RcvFails /\ ~TargetCrash
    BY <1>1, Zenon DEF Send, RcvReport, RcvReports, Exchange, PublishTransfer, RcvFails, TargetCrash
<1>3. CASE \E c \in Caps : PrepareTransfer(c)
    BY <1>3, Zenon DEF PrepareTransfer, Replaceable
<1>4. CASE \E op \in Ops : SnapshotReceipt(op)
    BY <1>4, Zenon DEF SnapshotReceipt, target
<1> QED BY <1>2, <1>3, <1>4, Zenon

\* The target prepares, receives, publishes, fails, restarts or answers.
LEMMA TargetKeeps ==
    ASSUME IInv,
           \/ Send \/ RcvReport \/ Exchange \/ PublishTransfer \/ RcvFails \/ TargetCrash
           \/ \E c \in Caps : PrepareTransfer(c)
           \/ \E op \in Ops : SnapshotReceipt(op)
    PROVE  IInv'
<1>1. UNCHANGED <<wk, data, gate>>
    BY Zenon DEF Send, RcvReport, Exchange, PublishTransfer, RcvFails, TargetCrash, PrepareTransfer,
       SnapshotReceipt, source
<1>2. WorkerShapes' /\ WorkerInv'
    BY <1>1, PublishedStays, Zenon DEF IInv, Shapes, WorkerShapes, WorkerInv, wk
<1>3. StoreShapes' /\ DoneInv'
  <2>1. CASE UNCHANGED store
    BY <2>1, PublishedStays, Zenon DEF IInv, Shapes, StoreShapes, DoneInv, store
  <2>2. CASE RcvReport
    BY <2>2 DEF RcvReport, RcvReports, IInv, Shapes, StoreShapes, DoneInv, Phases
  <2> QED BY <2>1, <2>2, Zenon DEF Send, Exchange, PublishTransfer, RcvFails, TargetCrash, PrepareTransfer,
       SnapshotReceipt
<1>4. QueueShapes' /\ AnswerInv'
  <2>1. CASE UNCHANGED queue
    BY <2>1, PublishedStays, Zenon DEF IInv, Shapes, QueueShapes, AnswerInv, queue
  <2>2. CASE \E c \in Caps : PrepareTransfer(c)
    <3>1. PICK c \in Caps : PrepareTransfer(c) BY <2>2, Zenon
    <3>2. Op("prepare", c) \in Ops /\ Op("prepare", c)[1] = "prepare" BY Zenon DEF Op, Ops
    <3> QED BY <3>1, <3>2, PublishedStays, Zenon DEF PrepareTransfer, IInv, Shapes, QueueShapes, AnswerInv, CmdStates
  <2>3. CASE \E op \in Ops : SnapshotReceipt(op)
    <3>1. PICK op \in Ops : SnapshotReceipt(op) BY <2>3, Zenon
    <3>2. xfer.c \in Trees /\ UNCHANGED xfer
      BY <3>1, Zenon DEF IInv, Shapes, TargetShapes, SnapshotReceipt, target
    <3> QED BY <3>1, <3>2, AnswerKeeps, RestingShapes, Zenon DEF SnapshotReceipt, IInv, Shapes, CmdStates
  <2> QED BY <2>1, <2>2, <2>3, Zenon DEF Send, RcvReport, Exchange, PublishTransfer, RcvFails, TargetCrash
<1>5. SourceShapes' /\ SourceInv'
  <2>1. CASE Send
    BY <2>1, <1>1, Zenon DEF Send, Running, IInv, Shapes, SourceShapes, SourceInv, SrcPcs
  <2>2. CASE UNCHANGED source
    BY <2>2, Zenon DEF source, IInv, Shapes, SourceShapes, SourceInv
  <2> QED BY <2>1, <2>2, Zenon DEF RcvReport, Exchange, PublishTransfer, RcvFails, TargetCrash,
       PrepareTransfer, SnapshotReceipt
<1>6. TargetShapes' /\ TargetInv'
  <2> USE RestingShapes DEF IInv, Shapes, TargetShapes, TargetInv
  <2>1. CASE Send
    BY <2>1, Zenon DEF Send, Running, SourceShapes, SourceInv
  <2>2. CASE RcvReport
    BY <2>2, Zenon DEF RcvReport, RcvReports
  <2>3. CASE Exchange
    BY <2>3, Zenon DEF Exchange
  <2>4. CASE PublishTransfer
    BY <2>4, Zenon DEF PublishTransfer, NoReceive
  <2>5. CASE RcvFails
    BY <2>5, Zenon DEF RcvFails, NoReceive
  <2>6. CASE TargetCrash
    BY <2>6 DEF TargetCrash, NoReceive
  <2>7. CASE \E c \in Caps : PrepareTransfer(c)
    <3>1. PICK c \in Caps : PrepareTransfer(c) BY <2>7, Zenon
    <3>2. UNCHANGED <<rcv, disk>> BY <3>1, Zenon DEF PrepareTransfer
    <3>3. CASE UNCHANGED xfer
      BY <3>2, <3>3, Zenon
    <3>4. CASE Replaceable(c) /\ xfer' = [st |-> "prepared", cap |-> c, c |-> 0]
      BY <3>2, <3>4, Zenon DEF Replaceable
    <3> QED BY <3>1, <3>3, <3>4, Zenon DEF PrepareTransfer
  <2>8. CASE \E op \in Ops : SnapshotReceipt(op)
    BY <2>8, Zenon DEF SnapshotReceipt, target
  <2> QED BY <2>1, <2>2, <2>3, <2>4, <2>5, <2>6, <2>7, <2>8, Zenon
<1> QED BY <1>2, <1>3, <1>4, <1>5, <1>6, Zenon DEF IInv, Shapes

\* Every step keeps the invariant.
LEMMA NextKeeps == IInv /\ [Next]_vars => IInv'
<1> SUFFICES ASSUME IInv, [Next]_vars PROVE IInv'
    BY Zenon
<1>1. CASE UNCHANGED vars
  <2>1. UNCHANGED <<store, queue, wk, source, target>>
    BY <1>1, Zenon DEF vars
  <2>2. StoreShapes' /\ WorkerShapes' /\ QueueShapes'
    BY <2>1, Zenon DEF store, queue, wk, IInv, Shapes, StoreShapes, WorkerShapes, QueueShapes
  <2>3. SourceShapes' /\ TargetShapes'
    BY <2>1, Zenon DEF source, target, IInv, Shapes, SourceShapes, TargetShapes
  <2>4. SourceInv' /\ TargetInv'
    BY <2>1, Zenon DEF source, target, IInv, SourceInv, TargetInv
  <2>5. AnswerInv' /\ WorkerInv' /\ DoneInv'
    BY <2>1, Zenon DEF store, queue, wk, target, IInv, AnswerInv, WorkerInv, DoneInv
  <2> QED BY <2>2, <2>3, <2>4, <2>5, Zenon DEF IInv, Shapes
<1>2. CASE Next
    BY <1>2, WorkerKeeps, ControlKeeps, CopyKeeps, RunKeeps, TargetKeeps, Zenon DEF Next, SourceStep, TargetStep
<1> QED BY <1>1, <1>2, Zenon

---------------------------------------------------------------------------
(* The theorems.                                                           *)

\* The inductive invariant holds of every behaviour.
LEMMA Inductive == Spec => []IInv
BY InitIInv, NextKeeps, PTL DEF Spec

\* A receipt the target keeps is true of its disk, and nothing is being
\* received over it, for any number of workers, retries, restarts and takeovers
\* (publishTransfer, prepareTransferLocked, consumeTransfer).
THEOREM ReceiptHolds == Spec => []ReceiptIsDisk
<1>1. IInv => ReceiptIsDisk
    BY Zenon DEF IInv, TargetInv, ReceiptIsDisk
<1> QED BY <1>1, Inductive, PTL

\* A step of the workflow is a step of Replica or leaves what it shows alone.
Shown == R!Next \/ UNCHANGED <<disk, row, Outcome>>

\* Ending an open workflow without recording anything is Replica's Close.
LEMMA ClosesShown ==
    ASSUME UNCHANGED <<disk, row>>,
           \/ state' = state
           \/ state \notin Terminal /\ state' \notin Terminal
           \/ state \notin Terminal /\ state' \in {"failed", "cancelled"}
    PROVE  Shown
BY Zenon DEF Shown, Outcome, Terminal, R!Next, R!Close

\* Every step of a worker is a step of Replica or none.
LEMMA WorkerShown ==
    ASSUME IInv, NEW w \in Workers,
           WorkerStep(w) \/ Defer(w) \/ ExecFails(w) \/ WorkerCancelled(w)
    PROVE  Shown
<1>0. UNCHANGED disk
    BY WorkerFrame, Zenon DEF target
<1>1. CASE Claim(w)
    BY <1>0, <1>1, ClosesShown, Zenon DEF Claim, store
<1>2. CASE Load(w)
    BY <1>0, <1>2, ClosesShown, Zenon DEF Load, Terminal
<1>3. CASE Recover(w)
    BY <1>0, <1>3, ClosesShown, Zenon DEF Recover, store
<1>4. CASE SetQuiescing(w)
    BY <1>0, <1>4, ClosesShown, Zenon DEF SetQuiescing, Terminal
<1>5. CASE Begin(w)
    BY <1>0, <1>5, ClosesShown, Zenon DEF Begin, store
<1>6. CASE Issue(w)
    BY <1>0, <1>6, ClosesShown, Zenon DEF Issue, store
<1>7. CASE PrepareDone(w)
    BY <1>0, <1>7, ClosesShown, Zenon DEF PrepareDone, store
<1>8. CASE MarkRunning(w)
    BY <1>0, <1>8, ClosesShown, Zenon DEF MarkRunning, store
<1>9. CASE StartDone(w)
    BY <1>0, <1>9, ClosesShown, Zenon DEF StartDone, store
<1>10. CASE ReceiptDone(w)
    BY <1>0, <1>10, ClosesShown, Zenon DEF ReceiptDone, store
<1>11. CASE Complete(w)
  <2>1. CASE UNCHANGED <<state, row>>
    BY <2>1, <1>0, ClosesShown, Zenon
  <2>2. CASE state = "publishing" /\ state' = "succeeded" /\ row' = got[w]
    <3>1. got[w] = disk
      BY <1>11, Zenon DEF Complete, IInv, WorkerInv, TargetInv
    <3> QED BY <3>1, <2>2, <1>0, Zenon DEF Shown, Outcome, Terminal, R!Next, R!Record
  <2> QED BY <2>1, <2>2, <1>11, Zenon DEF Complete
<1>12. CASE Retry(w)
    BY <1>0, <1>12, ClosesShown, Zenon DEF Retry, Open, Terminal
<1>13. CASE Fail(w)
    BY <1>0, <1>13, ClosesShown, Zenon DEF Fail, Open
<1>14. CASE RecoverDone(w)
    BY <1>0, <1>14, ClosesShown, Zenon DEF RecoverDone, Terminal
<1>15. CASE Reset(w)
    BY <1>0, <1>15, ClosesShown, Zenon DEF Reset, Current, Open, Terminal
<1>16. CASE Defer(w)
    BY <1>0, <1>16, ClosesShown, Zenon DEF Defer, store
<1>17. CASE ExecFails(w)
    BY <1>0, <1>17, ClosesShown, Zenon DEF ExecFails, store
<1>18. CASE WorkerCancelled(w)
    BY <1>0, <1>18, ClosesShown, Zenon DEF WorkerCancelled, store
<1> QED
    BY <1>1, <1>2, <1>3, <1>4, <1>5, <1>6, <1>7, <1>8, <1>9, <1>10, <1>11, <1>12, <1>13, <1>14, <1>15, <1>16, <1>17, <1>18, Zenon DEF WorkerStep

\* So is every other step.
LEMMA OthersShown ==
    ASSUME IInv,
           \/ Adopt \/ LeaseLapse \/ ControllerCrash \/ Promote \/ AbortBackup \/ AbortJob
           \/ SourceStep \/ SrcFails \/ QuiesceLost \/ SourceCrash \/ GateExpire \/ UserWrite
           \/ TargetStep \/ TargetCrash
    PROVE  Shown
<1>1. CASE UNCHANGED <<store, disk>>
    BY <1>1, ClosesShown, Zenon DEF store
<1>2. CASE Adopt \/ LeaseLapse \/ ControllerCrash \/ Promote \/ AbortBackup
    BY <1>2, ClosesShown, Zenon DEF Adopt, LeaseLapse, ControllerCrash, Promote, AbortBackup, store, target
<1>3. CASE AbortJob
    BY <1>3, ClosesShown, Zenon DEF AbortJob, Open, target
<1>4. CASE SrcReport
    BY <1>4, ClosesShown DEF SrcReport, Reports, Before, Accepts, Terminal, target
<1>5. CASE RcvReport
    BY <1>5, ClosesShown DEF RcvReport, RcvReports, Before, Accepts, Terminal
<1>6. CASE Exchange
  <2>1. state # "succeeded" /\ disk' \in Nat
    BY <1>6, Zenon DEF Exchange, IInv, TargetInv, DoneInv
  <2> QED BY <1>6, <2>1, Zenon DEF Exchange, store, Shown, Outcome, R!Next, R!Publish
<1>7. CASE \/ SourceStep \/ SrcFails \/ QuiesceLost \/ SourceCrash \/ GateExpire \/ UserWrite
           \/ TargetStep \/ TargetCrash
    BY <1>1, <1>4, <1>5, <1>6, <1>7, Zenon DEF SourceStep, TargetStep, SrcFails, QuiesceLost, SourceCrash,
       GateExpire, UserWrite, TargetCrash, StartSnapshot, Quiesce, CopyBegin, CopyEnd, ReleaseGate,
       Send, SendDone, SrcRefused, SrcEnd, PrepareTransfer, SnapshotReceipt, PublishTransfer, RcvFails,
       target
<1> QED BY <1>2, <1>3, <1>7, Zenon

\* Every step of Transfer is a step of Replica or a stutter.
LEMMA NextShown == IInv /\ [Next]_vars => [R!Next]_(R!vars)
<1> SUFFICES ASSUME IInv, [Next]_vars PROVE Shown
    BY Zenon DEF Shown, R!vars
<1>1. CASE UNCHANGED vars
    BY <1>1, ClosesShown, Zenon DEF vars, store, target
<1>2. CASE Next
    BY <1>2, WorkerShown, OthersShown, Zenon DEF Next
<1> QED BY <1>1, <1>2, Zenon

\* The snapshot workflow implements Replica, for every value of the constants:
\* whichever workers, retries, crashes and takeovers there are, the target holds
\* whole trees only and CompleteSnapshotWorkflow records exactly the tree there.
THEOREM Refinement == Spec => ImplementsReplica
<1>1. Init => R!Init
    BY Zenon DEF Init, R!Init, Outcome, Terminal
<1> QED BY <1>1, NextShown, Inductive, PTL DEF Spec, ImplementsReplica, R!Spec

===========================================================================
