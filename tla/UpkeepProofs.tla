--------------------------- MODULE UpkeepProofs ----------------------------
(***************************************************************************)
(* Proofs about module Upkeep, for any nodes and any number of snapshots,  *)
(* deletions, verifications, crashes, lapses and promotions.               *)
(*                                                                         *)
(* A deletion command carries the snapshot its copy had when it was        *)
(* claimed.  Snapshot ids only grow, so a command never matches what was   *)
(* published after it, and it matches the tree of a copy only while that   *)
(* copy is marked.  The difficult step is FailReplicaCleanupTask, which    *)
(* takes the mark away: it follows an answer that the tree has no identity *)
(* file, and as long as the worker of that answer holds the task no other  *)
(* command can have been issued for a tree with one.                       *)
(***************************************************************************)
EXTENDS Upkeep, TLAPS

IsCopy(c) == DOMAIN c = {"state", "kind", "snap"} /\ c.snap \in Nat
IsTask(t) == DOMAIN t = {"state", "snap", "op", "gen", "live"} /\ t.snap \in Nat
IsTree(d) == DOMAIN d = {"snap", "ident", "rotten"} /\ d.snap \in Nat /\ d.ident \in Nat
IsJob(j) ==
    /\ DOMAIN j = {"node", "snap", "op", "gen", "cmd", "waits"}
    /\ j.node \in Nodes /\ j.snap \in Nat /\ j.op \in Nat /\ 1 <= j.op /\ j.op <= ops
IsWorkflow(w) ==
    /\ DOMAIN w = {"state", "source", "target", "snap", "retires"}
    /\ w.target \in Nodes /\ w.snap \in Nat
IsItem(i) ==
    /\ DOMAIN i = {"kind", "state", "flow", "target", "snap"}
    /\ i.target \in Nodes
    /\ i.kind = "authoritative_home" => i.target \in Compute

Shape ==
    /\ DOMAIN copy = Nodes /\ \A n \in Nodes : IsCopy(copy[n])
    /\ DOMAIN task = Nodes /\ \A n \in Nodes : IsTask(task[n])
    /\ DOMAIN disk = Nodes /\ \A n \in Nodes : IsTree(disk[n])
    /\ ops \in Nat /\ \A j \in jobs : IsJob(j)
    /\ snaps \in Nat /\ IsWorkflow(wf)
    /\ latest.node \in Storage /\ latest.snap \in Nat

\* Every snapshot id on record is at most k.
Old(k) ==
    /\ \A n \in Nodes : copy[n].snap <= k /\ task[n].snap <= k
    /\ \A j \in jobs : j.snap <= k
    /\ latest.snap <= k

\* The open workflow's snapshot is newer than everything on record.
Numbers ==
    /\ Old(snaps)
    /\ wf.state # "none" => snaps >= 1 /\ wf.snap = snaps /\ Old(snaps - 1)
    /\ wf.state = "published" =>
         disk[wf.target].snap = wf.snap /\ disk[wf.target].ident = wf.snap

Live(j) == j.cmd \in {"queued", "detached"}

\* The tree of the copy is there and no command can delete it.
Spared(n, j) == j.node = n /\ Live(j) => disk[n].ident = 0 \/ disk[n].ident # j.snap
Safe(n) == disk[n].snap >= copy[n].snap /\ \A j \in jobs : Spared(n, j)

Standbys ==
    \A n \in Compute :
      /\ copy[n].state = "ready" => Safe(n)
      /\ \A j \in jobs : j.node = n /\ j.cmd = "no_identity" /\ Holds(j) => Safe(n)
      /\ disk[n].ident = 0 /\ disk[n].snap # 0 => copy[n].snap <= disk[n].snap

\* The newest archive is ready, or was found corrupt, and commands on its node
\* are for older ones.
Newest ==
    /\ copy[latest.node].state \in {"ready", "corrupt"}
    /\ copy[latest.node].snap = latest.snap
    /\ disk[latest.node].snap >= latest.snap /\ disk[latest.node].ident >= latest.snap
    /\ \A j \in jobs : j.node = latest.node => j.snap < latest.snap

DataInv == Shape /\ Numbers /\ Standbys /\ Newest

---------------------------------------------------------------------------
(* The steps that neither create, publish nor complete a snapshot, and     *)
(* neither claim a deletion nor execute one.                               *)

\* A command keeps its subject; it is not revived, and finds no identity file
\* only where nothing is deleted.
Derived(j, k) ==
    /\ k.node = j.node /\ k.snap = j.snap /\ k.op = j.op /\ k.gen = j.gen
    /\ DOMAIN k = DOMAIN j
    /\ Live(k) => Live(j)
    /\ k.cmd = "no_identity" => j.cmd = "no_identity" \/ (j.node \in Compute => Safe(j.node))

\* No task begins to run, and one may be made for the copy on record.
TaskFollows(t, u, c) ==
    /\ IsTask(u) /\ u.snap \in {t.snap, c.snap}
    /\ u.state = "running" => t.state = "running" /\ u.op = t.op /\ u.gen = t.gen

\* A standby becomes ready only if its tree is safe; a ready archive stays.
CopyFollows(n, c, d) ==
    /\ IsCopy(d) /\ d.snap \in {c.snap, 0}
    /\ n \in Compute /\ d.state = "ready" => c.state = "ready" \/ Safe(n)
    /\ n \in Storage /\ c.state \in {"ready", "corrupt"} =>
         d.state \in {"ready", "corrupt"} /\ d.snap = c.snap

CopiesFollow == DOMAIN copy' = Nodes /\ \A n \in Nodes : CopyFollows(n, copy[n], copy'[n])
TasksFollow ==
    DOMAIN task' = Nodes /\ \A n \in Nodes : TaskFollows(task[n], task'[n], copy[n])
JobsFollow ==
    /\ ops' \in Nat /\ ops' >= ops
    /\ \A k \in jobs' : \E j \in jobs : Derived(j, k)
TreesStay ==
    /\ DOMAIN disk' = Nodes /\ \A n \in Nodes : IsTree(disk'[n])
    /\ \A n \in Nodes : disk'[n].snap = disk[n].snap /\ disk'[n].ident = disk[n].ident

Mild ==
    /\ CopiesFollow /\ TasksFollow /\ JobsFollow /\ TreesStay
    /\ latest' = latest /\ snaps' = snaps
    /\ IsWorkflow(wf') /\ (wf' = wf \/ wf'.state = "none")

\* What is left alone follows.
LEMMA Unmoved ==
    ASSUME Shape
    PROVE  /\ copy' = copy => CopiesFollow
           /\ task' = task => TasksFollow
           /\ jobs' = jobs /\ ops' = ops => JobsFollow
           /\ disk' = disk => TreesStay
           /\ wf' = wf => IsWorkflow(wf') /\ (wf' = wf \/ wf'.state = "none")
<1>1. \A n, c : IsCopy(c) => CopyFollows(n, c, c) BY Zenon DEF CopyFollows
<1>2. \A t, c : IsTask(t) => TaskFollows(t, t, c) BY Zenon DEF TaskFollows
<1>3. \A j : Derived(j, j) BY Zenon DEF Derived
<1>4. ops >= ops BY DEF Shape
<1>5. copy' = copy => CopiesFollow BY <1>1, Zenon DEF Shape, CopiesFollow
<1>6. task' = task => TasksFollow BY <1>2, Zenon DEF Shape, TasksFollow
<1>7. jobs' = jobs /\ ops' = ops => JobsFollow BY <1>3, <1>4, Zenon DEF Shape, JobsFollow
<1>8. disk' = disk => TreesStay BY Zenon DEF Shape, TreesStay
<1> QED BY <1>5, <1>6, <1>7, <1>8, Zenon DEF Shape

\* Ids on record stay as old as they were.
LEMMA MildOld ==
    ASSUME Shape, Mild, NEW k \in Nat, Old(k)
    PROVE  Old(k)'
<1>1. ASSUME NEW n \in Nodes PROVE copy'[n].snap <= k /\ task'[n].snap <= k
    <2>1. copy'[n].snap \in {copy[n].snap, 0} BY Zenon DEF Mild, CopiesFollow, CopyFollows
    <2>2. task'[n].snap \in {task[n].snap, copy[n].snap} BY Zenon DEF Mild, TasksFollow, TaskFollows
    <2>3. copy[n].snap <= k /\ task[n].snap <= k BY Zenon DEF Old
    <2> QED BY <2>1, <2>2, <2>3
<1>2. \A j \in jobs' : j.snap <= k BY Zenon DEF Mild, JobsFollow, Derived, Old
<1> QED BY <1>1, <1>2, Zenon DEF Old, Mild

\* Nor does it lose a tree or aim a command at one.
LEMMA MildSafe ==
    ASSUME Shape, Mild, NEW n \in Compute, Safe(n)
    PROVE  Safe(n)'
<1>1. n \in Nodes BY Zenon DEF Nodes
<1>2. disk'[n].snap = disk[n].snap /\ disk'[n].ident = disk[n].ident
    BY <1>1, Zenon DEF Mild, TreesStay
<1>3. copy'[n].snap \in {copy[n].snap, 0} BY <1>1, Zenon DEF Mild, CopiesFollow, CopyFollows
<1>4. disk[n].snap \in Nat /\ disk[n].snap >= copy[n].snap
    BY <1>1, Zenon DEF Shape, IsTree, Safe
<1>5. disk'[n].snap >= copy'[n].snap BY <1>2, <1>3, <1>4
<1>6. ASSUME NEW k \in jobs' PROVE Spared(n, k)'
    <2>1. PICK j \in jobs : Derived(j, k) BY <1>6, Zenon DEF Mild, JobsFollow
    <2>2. Spared(n, j) BY Zenon DEF Safe
    <2> QED BY <1>2, <2>1, <2>2, Zenon DEF Spared, Derived
<1> QED BY <1>5, <1>6, Zenon DEF Safe

\* Such a step keeps the invariant.
LEMMA MildKeeps ==
    ASSUME DataInv, Mild
    PROVE  DataInv'
<1> USE DEF DataInv
<1>1. Shape'
    <2>1. ASSUME NEW k \in jobs' PROVE IsJob(k)'
        <3>1. PICK j \in jobs : Derived(j, k) BY <2>1, Zenon DEF Mild, JobsFollow
        <3>2. IsJob(j) /\ ops \in Nat BY Zenon DEF Shape
        <3>3. ops' >= ops /\ ops' \in Nat BY Zenon DEF Mild, JobsFollow
        <3>4. j.op <= ops' BY <3>2, <3>3 DEF IsJob
        <3> QED BY <3>1, <3>2, <3>4, Zenon DEF Derived, IsJob
    <2> QED BY <2>1, Zenon DEF Shape, Mild, CopiesFollow, CopyFollows, TasksFollow, TaskFollows,
                               JobsFollow, TreesStay
<1>2. Numbers'
    <2>1. snaps \in Nat /\ Old(snaps) BY Zenon DEF Shape, Numbers
    <2>2. \A k \in Nat : Old(k) => Old(k)' BY MildOld, Zenon
    <2>3. Old(snaps)' BY <2>1, <2>2, Zenon DEF Mild, Old
    <2>4. CASE wf'.state = "none"
        <3>1. wf'.state # "published" BY <2>4
        <3> QED BY <2>3, <2>4, <3>1, Zenon DEF Numbers
    <2>5. CASE wf' = wf
        <3>1. wf.state # "none" => Old(snaps - 1)'
            <4>1. SUFFICES ASSUME wf.state # "none" PROVE Old(snaps - 1)' OBVIOUS
            <4>2. snaps >= 1 /\ Old(snaps - 1) BY <4>1, Zenon DEF Numbers
            <4>3. snaps - 1 \in Nat BY <2>1, <4>2
            <4> QED BY <2>2, <4>2, <4>3, Zenon DEF Mild, Old
        <3>2. wf.target \in Nodes BY Zenon DEF Shape, IsWorkflow
        <3> QED BY <2>3, <2>5, <3>1, <3>2, Zenon DEF Numbers, Mild, TreesStay
    <2> QED BY <2>4, <2>5, Zenon DEF Mild
<1>3. Standbys'
    <2>1. SUFFICES ASSUME NEW n \in Compute
                   PROVE  /\ copy'[n].state = "ready" => Safe(n)'
                          /\ \A k \in jobs' : k.node = n /\ k.cmd = "no_identity" /\ Holds(k)' => Safe(n)'
                          /\ disk'[n].ident = 0 /\ disk'[n].snap # 0 => copy'[n].snap <= disk'[n].snap
        BY Zenon DEF Standbys
    <2>2. n \in Nodes BY Zenon DEF Nodes
    <2>3. copy'[n].state = "ready" => Safe(n)'
        BY <2>2, MildSafe, Zenon DEF Standbys, Mild, CopiesFollow, CopyFollows
    <2>4. ASSUME NEW k \in jobs', k.node = n, k.cmd = "no_identity", Holds(k)' PROVE Safe(n)'
        <3>1. PICK j \in jobs : Derived(j, k) BY <2>4, Zenon DEF Mild, JobsFollow
        <3>2. TaskFollows(task[n], task'[n], copy[n]) BY <2>2, Zenon DEF Mild, TasksFollow
        <3>3. Holds(j) BY <2>4, <3>1, <3>2, Zenon DEF Holds, Derived, TaskFollows
        <3>4. j.node = n /\ (j.cmd = "no_identity" \/ Safe(n)) BY <2>4, <3>1, Zenon DEF Derived
        <3>5. Safe(n) BY <3>3, <3>4, Zenon DEF Standbys
        <3> QED BY <3>5, MildSafe, Zenon
    <2>5. disk'[n].ident = 0 /\ disk'[n].snap # 0 => copy'[n].snap <= disk'[n].snap
        <3>1. disk'[n].snap = disk[n].snap /\ disk'[n].ident = disk[n].ident /\ disk[n].snap \in Nat
            BY <2>2, Zenon DEF Mild, TreesStay, Shape, IsTree
        <3>2. copy'[n].snap \in {copy[n].snap, 0}
            BY <2>2, Zenon DEF Mild, CopiesFollow, CopyFollows
        <3>3. disk[n].ident = 0 /\ disk[n].snap # 0 => copy[n].snap <= disk[n].snap
            BY Zenon DEF Standbys
        <3> QED BY <3>1, <3>2, <3>3
    <2> QED BY <2>3, <2>4, <2>5, Zenon
<1>4. Newest'
    <2>1. latest.node \in Storage /\ latest.node \in Nodes BY Zenon DEF Shape, Nodes
    <2>2. CopyFollows(latest.node, copy[latest.node], copy'[latest.node])
        BY <2>1, Zenon DEF Mild, CopiesFollow
    <2>3. \A k \in jobs' : k.node = latest.node => k.snap < latest.snap
        BY Zenon DEF Mild, JobsFollow, Derived, Newest
    <2> QED BY <2>1, <2>2, <2>3, Zenon DEF Newest, Mild, TreesStay, CopyFollows
<1> QED BY <1>1, <1>2, <1>3, <1>4, Zenon

---------------------------------------------------------------------------
(* Snapshots.                                                              *)

\* A workflow is created: its snapshot is newer than all on record.
LEMMA CreateKeeps ==
    ASSUME DataInv, NEW src, NEW n \in Nodes, NEW retires,
           CreateSnapshotWorkflow(src, n, retires),
           copy' = copy, task' = task, ops' = ops, jobs' = jobs, disk' = disk, latest' = latest
    PROVE  DataInv'
<1> USE DEF DataInv
<1>1. snaps \in Nat /\ snaps' = snaps + 1 BY Zenon DEF CreateSnapshotWorkflow, Shape
<1>2. snaps + 1 \in Nat /\ (snaps + 1) - 1 = snaps /\ snaps + 1 >= 1 BY <1>1
<1>3. wf' = [state |-> "open", source |-> src, target |-> n, snap |-> snaps + 1,
             retires |-> retires]
    BY Zenon DEF CreateSnapshotWorkflow
<1>4. IsWorkflow(wf') /\ wf'.state = "open" /\ wf'.snap = snaps + 1
    BY <1>2, <1>3 DEF IsWorkflow
<1>5. Shape' BY <1>1, <1>2, <1>4, Zenon DEF Shape, IsJob
<1>6. Old(snaps)' /\ Old(snaps - 1)'
    <2>1. ASSUME NEW x \in Nat, x <= snaps PROVE x <= snaps + 1 BY <1>1, <2>1
    <2>2. \A m \in Nodes : copy[m].snap \in Nat /\ task[m].snap \in Nat
        BY Zenon DEF Shape, IsCopy, IsTask
    <2>3. latest.snap \in Nat /\ \A j \in jobs : j.snap \in Nat BY Zenon DEF Shape, IsJob
    <2>4. Old(snaps) BY Zenon DEF Numbers
    <2>5. Old(snaps + 1) BY <2>1, <2>2, <2>3, <2>4, Zenon DEF Old
    <2> QED BY <1>1, <1>2, <2>4, <2>5, Zenon DEF Old
<1>7. wf'.state # "published" BY <1>4
<1>8. Numbers' BY <1>1, <1>2, <1>4, <1>6, <1>7, Zenon DEF Numbers
<1>9. Standbys' BY Zenon DEF Standbys, Safe, Spared, Holds
<1>10. Newest' BY Zenon DEF Newest
<1> QED BY <1>5, <1>8, <1>9, <1>10, Zenon

\* The receiving Agent exchanges the trees.
LEMMA PublishKeeps ==
    ASSUME DataInv, PublishSnapshotDirectory
    PROVE  DataInv'
<1> USE DEF DataInv
<1>1. /\ wf.state = "open" /\ copy' = copy /\ task' = task /\ ops' = ops /\ jobs' = jobs
      /\ latest' = latest /\ snaps' = snaps
    BY Zenon DEF PublishSnapshotDirectory, rows, cleanup
<1>2. PICK n \in Nodes : n = wf.target BY Zenon DEF Shape, IsWorkflow
<1>3. PICK tree : tree = [snap |-> wf.snap, ident |-> wf.snap, rotten |-> FALSE] BY Zenon
<1>4. disk' = [disk EXCEPT ![n] = tree] BY <1>2, <1>3, Zenon DEF PublishSnapshotDirectory
<1>5. wf.state # "none" BY <1>1
<1>6. snaps \in Nat /\ snaps >= 1 /\ wf.snap = snaps /\ Old(snaps - 1)
    BY <1>5, Zenon DEF Shape, Numbers
<1>7. IsTree(tree) /\ tree.snap = snaps /\ tree.ident = snaps BY <1>3, <1>6 DEF IsTree
<1>8. /\ DOMAIN disk' = Nodes /\ disk'[n] = tree
      /\ \A m \in Nodes : m # n => disk'[m] = disk[m]
    BY <1>4, Zenon DEF Shape
<1>9. wf' = [wf EXCEPT !.state = "published"] BY Zenon DEF PublishSnapshotDirectory
<1>10. IsWorkflow(wf') /\ wf'.state = "published" /\ wf'.snap = wf.snap /\ wf'.target = n
    BY <1>2, <1>9 DEF Shape, IsWorkflow
<1>11. Shape' BY <1>1, <1>7, <1>8, <1>10, Zenon DEF Shape, IsJob
<1>12. Numbers'
    <2>1. Old(snaps)' /\ Old(snaps - 1)' BY <1>1, <1>6, Zenon DEF Numbers, Old
    <2> QED BY <1>1, <1>6, <1>7, <1>8, <1>10, <2>1, Zenon DEF Numbers
<1>13. Standbys'
    <2>1. SUFFICES ASSUME NEW m \in Compute
                   PROVE  /\ copy[m].state = "ready" => Safe(m)'
                          /\ \A j \in jobs : j.node = m /\ j.cmd = "no_identity" /\ Holds(j) => Safe(m)'
                          /\ disk'[m].ident = 0 /\ disk'[m].snap # 0 => copy[m].snap <= disk'[m].snap
        BY <1>1, Zenon DEF Standbys, Holds
    <2>2. m \in Nodes BY Zenon DEF Nodes
    <2>3. CASE m = n
        <3>1. copy[m].snap \in Nat /\ copy[m].snap <= snaps - 1
            BY <1>6, <2>2, Zenon DEF Shape, IsCopy, Old
        <3>2. snaps >= copy[m].snap /\ copy[m].snap <= snaps BY <1>6, <3>1
        <3>3. \A j \in jobs : snaps # j.snap
            <4>1. SUFFICES ASSUME NEW j \in jobs PROVE snaps # j.snap OBVIOUS
            <4>2. j.snap \in Nat /\ j.snap <= snaps - 1 BY <1>6, Zenon DEF Shape, IsJob, Old
            <4> QED BY <1>6, <4>2
        <3>4. Safe(m)' BY <1>1, <1>7, <1>8, <2>3, <3>2, <3>3, Zenon DEF Safe, Spared
        <3> QED BY <1>7, <1>8, <2>3, <3>2, <3>4, Zenon
    <2>4. CASE m # n
        <3>1. disk'[m] = disk[m] BY <1>8, <2>2, <2>4, Zenon
        <3>2. Safe(m) => Safe(m)' BY <1>1, <3>1, Zenon DEF Safe, Spared
        <3> QED BY <3>1, <3>2, Zenon DEF Standbys
    <2> QED BY <2>3, <2>4, Zenon
<1>14. Newest'
    <2>1. latest.node \in Nodes BY Zenon DEF Shape, Nodes
    <2>2. disk'[latest.node].snap >= latest.snap /\ disk'[latest.node].ident >= latest.snap
        <3>1. CASE latest.node = n
            <4>1. latest.snap \in Nat /\ latest.snap <= snaps BY Zenon DEF Shape, Numbers, Old
            <4>2. snaps >= latest.snap BY <1>6, <4>1
            <4> QED BY <1>7, <1>8, <3>1, <4>2, Zenon
        <3>2. CASE latest.node # n BY <1>8, <2>1, <3>2, Zenon DEF Newest
        <3> QED BY <3>1, <3>2, Zenon
    <2> QED BY <1>1, <2>2, Zenon DEF Newest
<1> QED BY <1>11, <1>12, <1>13, <1>14, Zenon

\* A workflow completes: its target holds what was published, and only a copy
\* older than it is superseded.
LEMMA CompleteKeeps ==
    ASSUME DataInv, CompleteSnapshotWorkflow
    PROVE  DataInv'
<1> USE DEF DataInv
<1>1. /\ wf.state = "published" /\ ops' = ops /\ jobs' = jobs /\ disk' = disk /\ snaps' = snaps
      /\ task[wf.target].state # "running"
    BY Zenon DEF CompleteSnapshotWorkflow, files
<1>2. PICK n \in Nodes : n = wf.target BY Zenon DEF Shape, IsWorkflow
<1>3. wf.state # "none" BY <1>1
<1>4. /\ snaps \in Nat /\ snaps >= 1 /\ wf.snap = snaps /\ Old(snaps - 1)
      /\ disk[n].snap = snaps /\ disk[n].ident = snaps
    BY <1>1, <1>2, <1>3, Zenon DEF Shape, Numbers
<1>5. DOMAIN copy' = Nodes /\ DOMAIN task' = Nodes BY Zenon DEF CompleteSnapshotWorkflow
<1>6. IsCopy(copy'[n]) /\ copy'[n].state = "ready" /\ copy'[n].snap = snaps
    <2>1. copy'[n] = [state |-> "ready", kind |-> Kind(n), snap |-> snaps]
        BY <1>2, <1>4, Zenon DEF CompleteSnapshotWorkflow
    <2> QED BY <1>4, <2>1 DEF IsCopy
<1>7. ASSUME NEW m \in Nodes, m # n
      PROVE  /\ IsCopy(copy'[m]) /\ copy'[m].snap = copy[m].snap
             /\ copy'[m] = copy[m] \/ copy'[m].state = "stale"
             /\ n \notin Storage => copy'[m] = copy[m]
    <2>1. CASE m \in Superseded(n)
        <3>1. copy'[m] = [copy[m] EXCEPT !.state = "stale"]
            BY <1>2, <1>7, <2>1, Zenon DEF CompleteSnapshotWorkflow
        <3>2. n \in Storage BY <2>1, Zenon DEF Superseded
        <3>3. IsCopy(copy[m]) BY Zenon DEF Shape
        <3>4. IsCopy(copy'[m]) /\ copy'[m].snap = copy[m].snap /\ copy'[m].state = "stale"
            BY <3>1, <3>3 DEF IsCopy
        <3> QED BY <3>2, <3>4, Zenon
    <2>2. CASE m \notin Superseded(n)
        <3>1. copy'[m] = copy[m] BY <1>2, <1>7, <2>2, Zenon DEF CompleteSnapshotWorkflow
        <3> QED BY <3>1, Zenon DEF Shape
    <2> QED BY <2>1, <2>2, Zenon
<1>8. ASSUME NEW m \in Nodes PROVE TaskFollows(task[m], task'[m], copy[m])
    <2>1. IsTask(task[m]) /\ IsCopy(copy[m]) BY Zenon DEF Shape
    <2>2. \/ task'[m] = task[m] \/ task'[m] = [task[m] EXCEPT !.state = "cancelled", !.live = FALSE]
          \/ task'[m] = NewTask(m)
        BY <1>2, Zenon DEF CompleteSnapshotWorkflow
    <2>3. CASE task'[m] = NewTask(m)
        BY <2>1, <2>3 DEF NewTask, NoTask, TaskFollows, IsTask, IsCopy
    <2>4. CASE task'[m] = [task[m] EXCEPT !.state = "cancelled", !.live = FALSE]
        BY <2>1, <2>4 DEF TaskFollows, IsTask
    <2>5. CASE task'[m] = task[m] BY <2>1, <2>5, Zenon DEF TaskFollows
    <2> QED BY <2>2, <2>3, <2>4, <2>5, Zenon
<1>9. IsWorkflow(wf') /\ wf'.state = "none"
    <2>1. wf' = [wf EXCEPT !.state = "none"] BY Zenon DEF CompleteSnapshotWorkflow
    <2> QED BY <2>1 DEF Shape, IsWorkflow
<1>10. /\ n \in Storage => latest'.node = n /\ latest'.snap = snaps
       /\ n \notin Storage => latest' = latest
    <2>1. latest' = IF n \in Storage THEN [node |-> n, snap |-> snaps] ELSE latest
        BY <1>2, <1>4, Zenon DEF CompleteSnapshotWorkflow
    <2> QED BY <2>1
<1>11. Shape'
    <2>1. \A m \in Nodes : IsCopy(copy'[m]) /\ IsTask(task'[m])
        BY <1>6, <1>7, <1>8, Zenon DEF TaskFollows
    <2>2. latest'.node \in Storage /\ latest'.snap \in Nat BY <1>4, <1>10, Zenon DEF Shape
    <2> QED BY <1>1, <1>5, <1>9, <2>1, <2>2, Zenon DEF Shape, IsJob
<1>12. Numbers'
    <2>1. ASSUME NEW x \in Nat, x <= snaps - 1 PROVE x <= snaps BY <1>4, <2>1
    <2>2. snaps <= snaps BY <1>4
    <2>3. \A m \in Nodes : copy'[m].snap <= snaps
        BY <1>6, <1>7, <2>2, Zenon DEF Numbers, Old
    <2>4. \A m \in Nodes : task'[m].snap <= snaps
        BY <1>8, Zenon DEF Numbers, Old, TaskFollows
    <2>5. latest'.snap <= snaps BY <1>10, <2>2, Zenon DEF Numbers, Old
    <2>6. Old(snaps)' BY <1>1, <2>3, <2>4, <2>5, Zenon DEF Numbers, Old
    <2>7. wf'.state # "published" BY <1>9
    <2> QED BY <1>9, <2>6, <2>7, Zenon DEF Numbers
<1>13. \A j \in jobs : j.snap < snaps /\ snaps # j.snap
    <2>1. SUFFICES ASSUME NEW j \in jobs PROVE j.snap < snaps /\ snaps # j.snap OBVIOUS
    <2>2. j.snap \in Nat /\ j.snap <= snaps - 1 BY <1>4, Zenon DEF Shape, IsJob, Old
    <2> QED BY <1>4, <2>2
<1>14. Standbys'
    <2>1. SUFFICES ASSUME NEW m \in Compute
                   PROVE  /\ copy'[m].state = "ready" => Safe(m)'
                          /\ \A j \in jobs : j.node = m /\ j.cmd = "no_identity" /\ Holds(j)' => Safe(m)'
                          /\ disk[m].ident = 0 /\ disk[m].snap # 0 => copy'[m].snap <= disk[m].snap
        BY <1>1, Zenon DEF Standbys
    <2>2. m \in Nodes BY Zenon DEF Nodes
    <2>3. CASE m = n
        <3>1. snaps >= snaps /\ snaps <= snaps BY <1>4
        <3>2. Safe(m)' BY <1>1, <1>4, <1>6, <1>13, <2>3, <3>1, Zenon DEF Safe, Spared
        <3> QED BY <1>4, <1>6, <2>3, <3>1, <3>2, Zenon
    <2>4. CASE m # n
        <3>1. copy'[m].snap = copy[m].snap /\ (copy'[m] = copy[m] \/ copy'[m].state = "stale")
            BY <1>7, <2>2, <2>4, Zenon
        <3>2. copy'[m].state = "ready" => copy[m].state = "ready" BY <3>1
        <3>3. Safe(m) => Safe(m)' BY <1>1, <3>1, Zenon DEF Safe, Spared
        <3>4. \A j \in jobs : j.node = m /\ Holds(j)' => Holds(j)
            BY <1>8, <2>2, Zenon DEF Holds, TaskFollows
        <3> QED BY <3>1, <3>2, <3>3, <3>4, Zenon DEF Standbys
    <2> QED BY <2>3, <2>4, Zenon
<1>15. Newest'
    <2>1. CASE n \in Storage
        <3>1. snaps >= snaps /\ "ready" \in {"ready", "corrupt"} BY <1>4
        <3> QED BY <1>1, <1>4, <1>6, <1>10, <1>13, <2>1, <3>1, Zenon DEF Newest
    <2>2. CASE n \notin Storage
        <3>1. latest.node \in Nodes /\ latest.node # n BY <2>2, Zenon DEF Shape, Nodes
        <3>2. copy'[latest.node] = copy[latest.node] BY <1>7, <2>2, <3>1, Zenon
        <3> QED BY <1>1, <1>10, <2>2, <3>2, Zenon DEF Newest
    <2> QED BY <2>1, <2>2, Zenon
<1> QED BY <1>11, <1>12, <1>14, <1>15, Zenon

---------------------------------------------------------------------------
(* Deletions.                                                              *)

\* A claim marks the copy, so that the new command threatens no ready one.
LEMMA ClaimKeeps ==
    ASSUME DataInv, NEW n \in Nodes, ClaimReplicaCleanupTask(n)
    PROVE  DataInv'
<1> USE DEF DataInv
<1>1. /\ ops' = ops + 1 /\ wf' = wf /\ snaps' = snaps /\ disk' = disk /\ latest' = latest
      /\ Claimable(n) /\ wf.state = "none"
    BY Zenon DEF ClaimReplicaCleanupTask, files, Claimable
<1>2. ops \in Nat /\ ops + 1 \in Nat /\ ops <= ops + 1 /\ 1 <= ops + 1 /\ ops + 1 <= ops + 1
    BY DEF Shape
<1>3. PICK k : k = [node |-> n, snap |-> task[n].snap, op |-> ops + 1,
                    gen |-> gen, cmd |-> "queued", waits |-> TRUE]
    BY Zenon
<1>4. jobs' = jobs \cup {k} BY <1>3, Zenon DEF ClaimReplicaCleanupTask
<1>5. task[n].snap \in Nat /\ task[n].snap <= snaps
    BY Zenon DEF Shape, IsTask, Numbers, Old
<1>6. /\ DOMAIN k = {"node", "snap", "op", "gen", "cmd", "waits"}
      /\ k.node = n /\ k.snap = task[n].snap /\ k.op = ops + 1 /\ k.cmd = "queued"
    BY <1>3
<1>7. /\ DOMAIN copy' = Nodes /\ IsCopy(copy'[n]) /\ copy'[n].snap = copy[n].snap
      /\ copy'[n].state = "deleting"
      /\ \A m \in Nodes : m # n => copy'[m] = copy[m]
    <2>1. copy' = [copy EXCEPT ![n].state = "deleting"] BY Zenon DEF ClaimReplicaCleanupTask
    <2>2. DOMAIN copy = Nodes /\ IsCopy(copy[n]) BY Zenon DEF Shape
    <2>3. copy'[n] = [copy[n] EXCEPT !.state = "deleting"] BY <2>1, <2>2
    <2>4. DOMAIN copy' = Nodes /\ \A m \in Nodes : m # n => copy'[m] = copy[m]
        BY <2>1, <2>2, Zenon
    <2> QED BY <2>2, <2>3, <2>4 DEF IsCopy
<1>8. \A m \in Nodes : /\ IsTask(Reclaimed(m)) /\ Reclaimed(m).snap = task[m].snap
                       /\ TaskFollows(task[m], Reclaimed(m), copy[m])
    <2>1. SUFFICES ASSUME NEW m \in Nodes
                   PROVE  /\ IsTask(Reclaimed(m)) /\ Reclaimed(m).snap = task[m].snap
                          /\ TaskFollows(task[m], Reclaimed(m), copy[m])
        OBVIOUS
    <2>2. IsTask(task[m]) BY Zenon DEF Shape
    <2> QED BY <2>2 DEF Reclaimed, IsTask, TaskFollows
<1>9. /\ DOMAIN task' = Nodes /\ IsTask(task'[n]) /\ task'[n].snap = task[n].snap
      /\ task'[n].op = ops + 1
      /\ \A m \in Nodes : m # n => task'[m] = Reclaimed(m)
    <2>1. PICK r : r = Reclaimed(n) BY Zenon
    <2>2. IsTask(r) /\ r.snap = task[n].snap BY <1>8, <2>1, Zenon
    <2>3. task'[n] = [r EXCEPT !.state = "running", !.op = ops + 1, !.gen = gen, !.live = TRUE]
        BY <2>1, Zenon DEF ClaimReplicaCleanupTask
    <2>4. IsTask(task'[n]) /\ task'[n].snap = task[n].snap /\ task'[n].op = ops + 1
        BY <2>2, <2>3 DEF IsTask
    <2> QED BY <2>4, Zenon DEF ClaimReplicaCleanupTask
<1>10. Shape'
    <2>1. IsJob(k)' BY <1>1, <1>2, <1>5, <1>6, Zenon DEF IsJob
    <2>2. ASSUME NEW j \in jobs PROVE IsJob(j)'
        <3>1. IsJob(j) BY Zenon DEF Shape
        <3>2. j.op <= ops + 1 BY <1>2, <3>1 DEF IsJob
        <3> QED BY <1>1, <3>1, <3>2, Zenon DEF IsJob
    <2>3. \A j \in jobs' : IsJob(j)' BY <1>4, <2>1, <2>2, Zenon
    <2>4. \A m \in Nodes : IsCopy(copy'[m]) /\ IsTask(task'[m])
        BY <1>7, <1>8, <1>9, Zenon DEF Shape
    <2> QED BY <1>1, <1>2, <1>7, <1>9, <2>3, <2>4, Zenon DEF Shape
<1>11. Numbers'
    <2>1. \A m \in Nodes : copy'[m].snap = copy[m].snap /\ task'[m].snap = task[m].snap
        BY <1>7, <1>8, <1>9, Zenon
    <2>2. \A j \in jobs' : j.snap <= snaps BY <1>4, <1>5, <1>6, Zenon DEF Numbers, Old
    <2>3. Old(snaps)' BY <1>1, <2>1, <2>2, Zenon DEF Numbers, Old
    <2>4. wf'.state # "published" BY <1>1
    <2> QED BY <1>1, <2>3, <2>4, Zenon DEF Numbers
<1>12. Standbys'
    <2>1. SUFFICES ASSUME NEW m \in Compute
                   PROVE  /\ copy'[m].state = "ready" => Safe(m)'
                          /\ \A j \in jobs' : j.node = m /\ j.cmd = "no_identity" /\ Holds(j)' => Safe(m)'
                          /\ disk[m].ident = 0 /\ disk[m].snap # 0 => copy'[m].snap <= disk[m].snap
        BY <1>1, Zenon DEF Standbys
    <2>2. m \in Nodes BY Zenon DEF Nodes
    <2>3. CASE m = n
        <3>1. copy'[m].state # "ready" BY <1>7, <2>3
        <3>2. k.cmd # "no_identity" BY <1>6
        <3>3. ASSUME NEW j \in jobs, j.node = m PROVE ~Holds(j)'
            <4>1. j.op \in Nat /\ j.op <= ops BY Zenon DEF Shape, IsJob
            <4>2. j.op # ops + 1 BY <1>2, <4>1
            <4> QED BY <1>9, <2>3, <3>3, <4>2, Zenon DEF Holds
        <3>4. copy'[m].snap = copy[m].snap BY <1>7, <2>3, Zenon
        <3> QED BY <1>4, <3>1, <3>2, <3>3, <3>4, Zenon DEF Standbys
    <2>4. CASE m # n
        <3>1. copy'[m] = copy[m] /\ task'[m] = Reclaimed(m) BY <1>7, <1>9, <2>2, <2>4, Zenon
        <3>2. \A j \in jobs : j.node = m /\ Holds(j)' => Holds(j)
            BY <1>8, <2>2, <3>1, Zenon DEF Holds, TaskFollows
        <3>3. Safe(m) => Safe(m)' BY <1>1, <1>4, <1>6, <2>4, <3>1, Zenon DEF Safe, Spared
        <3> QED BY <1>4, <1>6, <2>4, <3>1, <3>2, <3>3, Zenon DEF Standbys
    <2> QED BY <2>3, <2>4, Zenon
<1>13. Newest'
    <2>1. latest.node \in Storage /\ latest.node \in Nodes BY Zenon DEF Shape, Nodes
    <2>2. latest.node # n
        <3>1. n \in Storage => copy[n].state \in {"deleting", "stale"}
            BY <1>1, Zenon DEF Claimable
        <3>2. n \in Storage => copy[n].state \notin {"ready", "corrupt"} BY <3>1
        <3> QED BY <2>1, <3>2, Zenon DEF Newest
    <2>3. copy'[latest.node] = copy[latest.node] BY <1>7, <2>1, <2>2, Zenon
    <2> QED BY <1>1, <1>4, <1>6, <2>2, <2>3, Zenon DEF Newest
<1> QED BY <1>10, <1>11, <1>12, <1>13, Zenon

\* A tree is renamed away: it is the one the command names, so its copy is not
\* ready, it is not the newest archive and was not just published.
LEMMA DetachKeeps ==
    ASSUME DataInv, NEW j \in jobs, Live(j), disk[j.node].ident = j.snap, disk[j.node].ident # 0,
           disk' = [disk EXCEPT ![j.node] = NoTree], Becomes(j, "detached"),
           copy' = copy, task' = task, ops' = ops, wf' = wf, snaps' = snaps, latest' = latest
    PROVE  DataInv'
<1> USE DEF DataInv
<1>1. IsJob(j) /\ j.node \in Nodes /\ j.snap \in Nat BY Zenon DEF Shape, IsJob
<1>2. PICK n \in Nodes : n = j.node BY <1>1, Zenon
<1>3. PICK k : k = [j EXCEPT !.cmd = "detached"] BY Zenon
<1>4. jobs' = (jobs \ {j}) \cup {k} BY <1>3, Zenon DEF Becomes
<1>5. /\ DOMAIN k = DOMAIN j /\ k.node = j.node /\ k.snap = j.snap /\ k.op = j.op /\ k.gen = j.gen
      /\ k.cmd = "detached"
    BY <1>1, <1>3 DEF IsJob
<1>6. IsTree(NoTree) /\ NoTree.snap = 0 /\ NoTree.ident = 0 BY DEF NoTree, IsTree
<1>7. DOMAIN disk' = Nodes /\ disk'[n] = NoTree /\ \A m \in Nodes : m # n => disk'[m] = disk[m]
    BY <1>2, Zenon DEF Shape
<1>8. Shape'
    <2>1. \A i \in jobs' : IsJob(i)' BY <1>1, <1>4, <1>5, Zenon DEF Shape, IsJob
    <2>2. \A m \in Nodes : IsTree(disk'[m]) BY <1>6, <1>7, Zenon DEF Shape
    <2> QED BY <1>7, <2>1, <2>2, Zenon DEF Shape
<1>9. Numbers'
    <2>1. \A x : Old(x) => Old(x)' BY <1>4, <1>5, Zenon DEF Old
    <2>2. Old(snaps)' /\ (wf.state # "none" => Old(snaps - 1)')
        BY <2>1, Zenon DEF Numbers, Old
    <2>3. wf.state = "published" => wf.target # n
        <3>1. SUFFICES ASSUME wf.state = "published", wf.target = n PROVE FALSE OBVIOUS
        <3>2. wf.state # "none" BY <3>1
        <3>3. disk[n].ident = snaps /\ j.snap <= snaps - 1
            BY <3>1, <3>2, Zenon DEF Numbers, Old
        <3>4. snaps \in Nat BY Zenon DEF Shape
        <3> QED BY <1>1, <1>2, <3>3, <3>4
    <2>4. wf.target \in Nodes BY Zenon DEF Shape, IsWorkflow
    <2> QED BY <1>7, <2>2, <2>3, <2>4, Zenon DEF Numbers
<1>10. Standbys'
    <2>1. SUFFICES ASSUME NEW m \in Compute
                   PROVE  /\ copy[m].state = "ready" => Safe(m)'
                          /\ \A i \in jobs' : i.node = m /\ i.cmd = "no_identity" /\ Holds(i) => Safe(m)'
                          /\ disk'[m].ident = 0 /\ disk'[m].snap # 0 => copy[m].snap <= disk'[m].snap
        BY Zenon DEF Standbys, Holds
    <2>2. m \in Nodes BY Zenon DEF Nodes
    <2>3. k.cmd # "no_identity" BY <1>5
    <2>4. CASE m = n
        <3>1. ~Safe(m) BY <1>2, <2>4, Zenon DEF Safe, Spared
        <3> QED BY <1>4, <1>6, <1>7, <2>3, <2>4, <3>1, Zenon DEF Standbys
    <2>5. CASE m # n
        <3>1. disk'[m] = disk[m] BY <1>7, <2>2, <2>5, Zenon
        <3>2. Safe(m) => Safe(m)' BY <1>2, <1>4, <1>5, <2>5, <3>1, Zenon DEF Safe, Spared
        <3> QED BY <1>4, <2>3, <3>1, <3>2, Zenon DEF Standbys
    <2> QED BY <2>4, <2>5, Zenon
<1>11. Newest'
    <2>1. latest.node \in Nodes /\ latest.snap \in Nat BY Zenon DEF Shape, Nodes
    <2>2. latest.node # n
        <3>1. SUFFICES ASSUME latest.node = n PROVE FALSE OBVIOUS
        <3>2. disk[n].ident >= latest.snap /\ j.snap < latest.snap
            BY <1>2, <3>1, Zenon DEF Newest
        <3> QED BY <1>1, <1>2, <2>1, <3>2
    <2> QED BY <1>4, <1>5, <1>7, <2>1, <2>2, Zenon DEF Newest
<1> QED BY <1>8, <1>9, <1>10, <1>11, Zenon

---------------------------------------------------------------------------
(* The mild steps.                                                         *)

\* One command is replaced.
LEMMA OneJob ==
    ASSUME Shape, ops' = ops, NEW j \in jobs, NEW k, Derived(j, k), jobs' = (jobs \ {j}) \cup {k}
    PROVE  JobsFollow
<1>1. \A i : Derived(i, i) BY Zenon DEF Derived
<1>2. ops >= ops /\ ops \in Nat BY DEF Shape
<1> QED BY <1>1, <1>2, Zenon DEF JobsFollow

\* Commands are dropped.
LEMMA FewerJobs ==
    ASSUME Shape, ops' = ops, jobs' \subseteq jobs
    PROVE  JobsFollow
<1>1. \A i : Derived(i, i) BY Zenon DEF Derived
<1>2. ops >= ops /\ ops \in Nat BY DEF Shape
<1> QED BY <1>1, <1>2, Zenon DEF JobsFollow

\* One task is replaced.
LEMMA OneTask ==
    ASSUME Shape, NEW n \in Nodes, NEW u, task' = [task EXCEPT ![n] = u],
           TaskFollows(task[n], u, copy[n])
    PROVE  TasksFollow
<1>1. \A t, c : IsTask(t) => TaskFollows(t, t, c) BY Zenon DEF TaskFollows
<1>2. DOMAIN task' = Nodes /\ task'[n] = u /\ \A m \in Nodes : m # n => task'[m] = task[m]
    BY Zenon DEF Shape
<1> QED BY <1>1, <1>2, Zenon DEF Shape, TasksFollow

\* One copy is replaced.
LEMMA OneCopy ==
    ASSUME Shape, NEW n \in Nodes, NEW d, copy' = [copy EXCEPT ![n] = d],
           CopyFollows(n, copy[n], d)
    PROVE  CopiesFollow
<1>1. \A m, c : IsCopy(c) => CopyFollows(m, c, c) BY Zenon DEF CopyFollows
<1>2. DOMAIN copy' = Nodes /\ copy'[n] = d /\ \A m \in Nodes : m # n => copy'[m] = copy[m]
    BY Zenon DEF Shape
<1> QED BY <1>1, <1>2, Zenon DEF Shape, CopiesFollow

\* What the retirement of a node and the choice of the home rely on.
Roles ==
    /\ home \in Compute
    /\ IsItem(item) /\ DOMAIN ret = {"state", "node", "gen"} /\ ret.node \in Nodes
    /\ item.kind = "redundant_replica" => ret.node \in Compute

\* No node has both roles.
LEMMA RolesDiffer == \A n \in Compute : n \notin Storage /\ n \in Nodes
BY UpkeepAssumption, Zenon DEF Nodes

\* A user comes and goes, a standby takes over, a Controller is promoted.
LEMMA UserMild ==
    ASSUME Shape, Roles, UserNext
    PROVE  Mild
<1>1. CASE Login \/ Leave
    <2>1. /\ copy' = copy /\ task' = task /\ jobs' = jobs /\ ops' = ops /\ disk' = disk
          /\ wf' = wf /\ latest' = latest /\ snaps' = snaps
        BY <1>1, Zenon DEF Login, Leave, rows, cleanup, files
    <2> QED BY <2>1, Unmoved, Zenon DEF Mild
<1>2. CASE Promote
    <2>1. /\ copy' = copy /\ task' = task /\ ops' = ops /\ disk' = disk
          /\ wf' = wf /\ latest' = latest /\ snaps' = snaps
        BY <1>2, Zenon DEF Promote, rows, files
    <2>2. ASSUME NEW k \in jobs' PROVE \E j \in jobs : Derived(j, k)
        <3>1. PICK j \in jobs : k = [j EXCEPT !.waits = FALSE] BY <1>2, Zenon DEF Promote
        <3>2. IsJob(j) BY Zenon DEF Shape
        <3>3. Derived(j, k) BY <3>1, <3>2 DEF IsJob, Derived, Live
        <3> QED BY <3>3, Zenon
    <2>3. ops >= ops /\ ops \in Nat BY DEF Shape
    <2>4. JobsFollow BY <2>1, <2>2, <2>3, Zenon DEF JobsFollow
    <2> QED BY <2>1, <2>4, Unmoved, Zenon DEF Mild
<1>3. ASSUME NEW n \in Compute, ConfirmReplicaTakeover(n) PROVE Mild
    <2>1. /\ task' = task /\ jobs' = jobs /\ ops' = ops /\ disk' = disk
          /\ wf' = wf /\ latest' = latest /\ snaps' = snaps
        BY <1>3, Zenon DEF ConfirmReplicaTakeover, cleanup, files
    <2>2. PICK h \in Compute : h = home BY Zenon DEF Roles
    <2>3. h # n /\ copy' = [copy EXCEPT ![h].state = "stale", ![h].kind = "hot_standby",
                                        ![n].kind = "active"]
        BY <1>3, <2>2, Zenon DEF ConfirmReplicaTakeover
    <2>4. h \in Nodes /\ n \in Nodes /\ h \notin Storage /\ n \notin Storage BY RolesDiffer, Zenon
    <2>5. DOMAIN copy = Nodes /\ \A m \in Nodes : IsCopy(copy[m]) BY Zenon DEF Shape
    <2>6. DOMAIN copy' = Nodes BY <2>3, <2>5
    <2>7. ASSUME NEW m \in Nodes PROVE CopyFollows(m, copy[m], copy'[m])
        <3>1. IsCopy(copy[m]) BY <2>5, Zenon
        <3>2. CASE m = h
            <4>1. copy'[m] = [copy[m] EXCEPT !.state = "stale", !.kind = "hot_standby"]
                BY <2>3, <2>4, <2>5, <3>1, <3>2 DEF IsCopy
            <4> QED BY <2>4, <3>1, <3>2, <4>1 DEF IsCopy, CopyFollows
        <3>3. CASE m = n
            <4>1. copy'[m] = [copy[m] EXCEPT !.kind = "active"]
                BY <2>3, <2>4, <2>5, <3>1, <3>3 DEF IsCopy
            <4> QED BY <2>4, <3>1, <3>3, <4>1 DEF IsCopy, CopyFollows
        <3>4. CASE m # h /\ m # n
            <4>1. copy'[m] = copy[m] BY <2>3, <2>5, <3>4
            <4> QED BY <3>1, <4>1, Zenon DEF CopyFollows
        <3> QED BY <3>2, <3>3, <3>4, Zenon
    <2>8. CopiesFollow BY <2>6, <2>7, Zenon DEF CopiesFollow
    <2> QED BY <2>1, <2>8, Unmoved, Zenon DEF Mild
<1> QED BY <1>1, <1>2, <1>3, Zenon DEF UserNext

\* A workflow ends without a result.
LEMMA EndedMild ==
    ASSUME Shape, FailSnapshotWorkflow \/ CancelSnapshotWorkflow
    PROVE  Mild
<1>1. /\ copy' = copy /\ task' = task /\ jobs' = jobs /\ ops' = ops /\ disk' = disk
      /\ latest' = latest /\ snaps' = snaps
    BY Zenon DEF FailSnapshotWorkflow, CancelSnapshotWorkflow, rows, cleanup, files
<1>2. wf' = [wf EXCEPT !.state = "none"]
    BY Zenon DEF FailSnapshotWorkflow, CancelSnapshotWorkflow
<1>3. IsWorkflow(wf') /\ wf'.state = "none" BY <1>2 DEF Shape, IsWorkflow
<1> QED BY <1>1, <1>3, Unmoved, Zenon DEF Mild

\* Tasks are scheduled, given up or lapse.
LEMMA TickMild ==
    ASSUME Shape, ScheduleReplicaCleanupTasks \/ ClaimNothing \/ \E n \in Nodes : LeaseLapses(n)
    PROVE  Mild
<1>1. /\ copy' = copy /\ jobs' = jobs /\ ops' = ops /\ disk' = disk
      /\ wf' = wf /\ latest' = latest /\ snaps' = snaps
    BY Zenon DEF ScheduleReplicaCleanupTasks, ClaimNothing, LeaseLapses, rows, files
<1>2. TasksFollow
    <2>1. CASE ScheduleReplicaCleanupTasks
        <3>1. task' = [n \in Nodes |-> Scheduled(n)]
            BY <2>1, Zenon DEF ScheduleReplicaCleanupTasks
        <3>2. ASSUME NEW n \in Nodes PROVE TaskFollows(task[n], Scheduled(n), copy[n])
            <4>1. IsTask(task[n]) /\ IsCopy(copy[n]) BY Zenon DEF Shape
            <4>2. PICK t : t = IF task[n].state \in {"pending", "retry_wait"} /\ ~InScope(n)
                               THEN [task[n] EXCEPT !.state = "cancelled"] ELSE task[n]
                BY Zenon
            <4>3. TaskFollows(task[n], t, copy[n]) /\ t.snap = task[n].snap
                BY <4>1, <4>2 DEF TaskFollows, IsTask
            <4>4. Scheduled(n) \in {t, NewTask(n), [t EXCEPT !.state = "pending"]}
                BY <4>2, Zenon DEF Scheduled
            <4>5. TaskFollows(task[n], NewTask(n), copy[n])
                BY <4>1 DEF NewTask, NoTask, TaskFollows, IsTask, IsCopy
            <4>6. TaskFollows(task[n], [t EXCEPT !.state = "pending"], copy[n])
                BY <4>3 DEF TaskFollows, IsTask
            <4> QED BY <4>3, <4>4, <4>5, <4>6, Zenon
        <3> QED BY <3>1, <3>2, Zenon DEF TasksFollow
    <2>2. CASE ClaimNothing
        <3>1. task' = [n \in Nodes |-> Reclaimed(n)] BY <2>2, Zenon DEF ClaimNothing
        <3>2. ASSUME NEW n \in Nodes PROVE TaskFollows(task[n], Reclaimed(n), copy[n])
            <4>1. IsTask(task[n]) BY Zenon DEF Shape
            <4> QED BY <4>1 DEF Reclaimed, TaskFollows, IsTask
        <3> QED BY <3>1, <3>2, Zenon DEF TasksFollow
    <2>3. ASSUME NEW n \in Nodes, LeaseLapses(n) PROVE TasksFollow
        <3>1. PICK u : u = [task[n] EXCEPT !.live = FALSE] BY Zenon
        <3>2. task' = [task EXCEPT ![n] = u] BY <2>3, <3>1 DEF LeaseLapses
        <3>3. IsTask(task[n]) BY Zenon DEF Shape
        <3>4. TaskFollows(task[n], u, copy[n]) BY <3>1, <3>3 DEF TaskFollows, IsTask
        <3> QED BY <3>2, <3>4, OneTask, Zenon
    <2> QED BY <2>1, <2>2, <2>3, Zenon
<1> QED BY <1>1, <1>2, Unmoved, Zenon DEF Mild

\* A command that has been answered, or is delivered again.
LEMMA Replied ==
    ASSUME Shape, NEW j \in jobs, NEW cmd, Becomes(j, cmd), ops' = ops,
           cmd \in {"queued", "detached"} => Live(j),
           cmd = "no_identity" => (j.node \in Compute => Safe(j.node))
    PROVE  JobsFollow
<1>1. PICK k : k = [j EXCEPT !.cmd = cmd] BY Zenon
<1>2. jobs' = (jobs \ {j}) \cup {k} BY <1>1, Zenon DEF Becomes
<1>3. IsJob(j) BY Zenon DEF Shape
<1>4. /\ k.node = j.node /\ k.snap = j.snap /\ k.op = j.op /\ k.gen = j.gen
      /\ DOMAIN k = DOMAIN j /\ k.cmd = cmd
    BY <1>1, <1>3 DEF IsJob
<1>5. Derived(j, k) BY <1>4, Zenon DEF Derived, Live
<1> QED BY <1>2, <1>5, OneJob, Zenon

\* deleteSnapshotReplica: a tree goes only if it is the one the command names.
LEMMA DeleteKeeps ==
    ASSUME DataInv, NEW j \in jobs, DeleteSnapshotReplica(j)
    PROVE  DataInv'
<1>1. /\ copy' = copy /\ task' = task /\ ops' = ops
      /\ wf' = wf /\ latest' = latest /\ snaps' = snaps /\ j.cmd = "queued"
    BY Zenon DEF DeleteSnapshotReplica, rows
<1>2. Live(j) BY <1>1 DEF Live
<1>3. Shape /\ IsJob(j) /\ j.node \in Nodes BY Zenon DEF DataInv, Shape, IsJob
<1>4. CASE disk' = disk
    <2>1. PICK cmd \in {"deleted", "already_absent", "no_identity", "superseded", "refused", "detached"} :
            Becomes(j, cmd) /\ (cmd = "no_identity" => disk[j.node].snap # 0 /\ disk[j.node].ident = 0)
        BY <1>4 DEF DeleteSnapshotReplica, files
    <2>2. cmd = "no_identity" => (j.node \in Compute => Safe(j.node))
        <3>1. SUFFICES ASSUME cmd = "no_identity", j.node \in Compute PROVE Safe(j.node) OBVIOUS
        <3>2. disk[j.node].ident = 0 /\ copy[j.node].snap <= disk[j.node].snap
            BY <2>1, <3>1, Zenon DEF DataInv, Standbys
        <3>3. copy[j.node].snap \in Nat /\ disk[j.node].snap \in Nat
            BY <1>3, Zenon DEF Shape, IsCopy, IsTree
        <3>4. disk[j.node].snap >= copy[j.node].snap BY <3>2, <3>3
        <3> QED BY <3>2, <3>4, Zenon DEF Safe, Spared
    <2>3. JobsFollow BY <1>1, <1>2, <1>3, <2>1, <2>2, Replied, Zenon
    <2>4. Mild BY <1>1, <1>3, <1>4, <2>3, Unmoved, Zenon DEF Mild
    <2> QED BY <2>4, MildKeeps, Zenon
<1>5. CASE disk' # disk
    <2>1. /\ disk[j.node].ident # 0 /\ disk[j.node].ident = j.snap
          /\ disk' = [disk EXCEPT ![j.node] = NoTree] /\ Becomes(j, "detached")
        BY <1>5, Zenon DEF DeleteSnapshotReplica, files, ReplicaTreeMatches
    <2> QED BY <1>1, <1>2, <2>1, DetachKeeps, Zenon
<1> QED BY <1>4, <1>5, Zenon

\* The Agent removes a tombstone or restarts.
LEMMA AgentMild ==
    ASSUME Shape, NEW j \in jobs, RemoveReplicaTree(j) \/ AgentRestarts(j)
    PROVE  Mild
<1>1. /\ copy' = copy /\ task' = task /\ ops' = ops /\ disk' = disk
      /\ wf' = wf /\ latest' = latest /\ snaps' = snaps /\ j.cmd = "detached"
    BY Zenon DEF RemoveReplicaTree, AgentRestarts, rows
<1>2. Live(j) BY <1>1 DEF Live
<1>3. PICK cmd \in {"deleted", "refused", "queued"} : Becomes(j, cmd)
    BY DEF RemoveReplicaTree, AgentRestarts
<1>4. cmd # "no_identity" BY <1>3
<1>5. JobsFollow BY <1>1, <1>2, <1>3, <1>4, Replied, Zenon
<1> QED BY <1>1, <1>5, Unmoved, Zenon DEF Mild

\* The worker of a command that is answered, late or never: it touches the
\* copy only while it holds the task, and the mark is taken from a standby only
\* when its tree is safe.
LEMMA WorkerMild ==
    ASSUME DataInv, NEW j \in jobs,
           \/ CompleteReplicaCleanupTask(j) \/ RetryReplicaCleanupTask(j)
           \/ FailReplicaCleanupTask(j) \/ DropAnswer(j)
    PROVE  Mild
<1>1. Shape BY Zenon DEF DataInv
<1>2. /\ ops' = ops /\ disk' = disk /\ wf' = wf /\ latest' = latest /\ snaps' = snaps
    BY Zenon DEF CompleteReplicaCleanupTask, RetryReplicaCleanupTask, FailReplicaCleanupTask,
                 DropAnswer, files
<1>3. IsJob(j) BY <1>1, Zenon DEF Shape
<1>4. PICK n \in Nodes : n = j.node BY <1>3, Zenon DEF IsJob
<1>5. IsTask(task[n]) /\ IsCopy(copy[n]) /\ DOMAIN task = Nodes /\ DOMAIN copy = Nodes
    BY <1>1, Zenon DEF Shape
<1>6. JobsFollow
    <2>1. CASE jobs' = jobs \ {j} BY <1>1, <1>2, <2>1, FewerJobs, Zenon
    <2>2. CASE jobs' = (jobs \ {j}) \cup {[j EXCEPT !.waits = FALSE]}
        <3>1. PICK k : k = [j EXCEPT !.waits = FALSE] BY Zenon
        <3>2. Derived(j, k) BY <1>3, <3>1 DEF IsJob, Derived, Live
        <3> QED BY <1>1, <1>2, <2>2, <3>1, <3>2, OneJob, Zenon
    <2> QED BY <2>1, <2>2, Zenon DEF CompleteReplicaCleanupTask, RetryReplicaCleanupTask,
                                     FailReplicaCleanupTask, DropAnswer, Done
<1>7. TasksFollow
    <2>1. \/ task' = task
          \/ \E state \in {"succeeded", "cancelled", "retry_wait", "failed"} :
               task' = [task EXCEPT ![n].state = state, ![n].live = FALSE]
          \/ \E state \in {"succeeded", "cancelled"} :
               task' = [task EXCEPT ![n].live = FALSE, ![n].state = state]
        <3>1. CASE CompleteReplicaCleanupTask(j)
            BY <1>4, <3>1 DEF CompleteReplicaCleanupTask
        <3>2. CASE RetryReplicaCleanupTask(j)
            BY <1>4, <3>2 DEF RetryReplicaCleanupTask
        <3>3. CASE FailReplicaCleanupTask(j)
            BY <1>4, <3>3 DEF FailReplicaCleanupTask
        <3>4. CASE DropAnswer(j) BY <3>4, Zenon DEF DropAnswer
        <3> QED BY <3>1, <3>2, <3>3, <3>4, Zenon
    <2>2. CASE task' = task BY <1>1, <2>2, Unmoved, Zenon
    <2>3. ASSUME NEW state \in {"succeeded", "cancelled", "retry_wait", "failed"},
                 \/ task' = [task EXCEPT ![n].state = state, ![n].live = FALSE]
                 \/ task' = [task EXCEPT ![n].live = FALSE, ![n].state = state]
          PROVE  TasksFollow
        <3>1. PICK u : u = [task[n] EXCEPT !.state = state, !.live = FALSE] BY Zenon
        <3>2. u = [task[n] EXCEPT !.live = FALSE, !.state = state] BY <1>5, <3>1 DEF IsTask
        <3>3. task' = [task EXCEPT ![n] = u] BY <1>5, <2>3, <3>1, <3>2
        <3>4. TaskFollows(task[n], u, copy[n]) BY <1>5, <3>1 DEF TaskFollows, IsTask
        <3> QED BY <1>1, <3>3, <3>4, OneTask, Zenon
    <2>4. \A state \in {"succeeded", "cancelled"} :
            state \in {"succeeded", "cancelled", "retry_wait", "failed"}
        OBVIOUS
    <2> QED BY <2>1, <2>2, <2>3, <2>4, Zenon
<1>8. CopiesFollow
    <2>1. CASE copy' = copy BY <1>1, <2>1, Unmoved, Zenon
    <2>2. CASE copy' # copy /\ CompleteReplicaCleanupTask(j)
        <3>1. copy[n].state = "deleting" /\ copy' = [copy EXCEPT ![n] = NoCopy(n)]
            BY <1>4, <2>2, Zenon DEF CompleteReplicaCleanupTask
        <3>2. CopyFollows(n, copy[n], NoCopy(n))
            BY <3>1 DEF NoCopy, CopyFollows, IsCopy
        <3> QED BY <1>1, <3>1, <3>2, OneCopy, Zenon
    <2>3. CASE copy' # copy /\ FailReplicaCleanupTask(j)
        <3>1. PICK state \in {"stale", "ready"} :
                /\ copy[n].state = "deleting" /\ copy' = [copy EXCEPT ![n].state = state]
                /\ Holds(j) /\ j.cmd = "no_identity"
            BY <1>4, <2>3 DEF FailReplicaCleanupTask
        <3>2. PICK d : d = [copy[n] EXCEPT !.state = state] BY Zenon
        <3>3. copy' = [copy EXCEPT ![n] = d] BY <3>1, <3>2
        <3>4. n \in Compute => Safe(n) BY <1>4, <3>1, Zenon DEF DataInv, Standbys
        <3>5. IsCopy(d) /\ d.snap = copy[n].snap BY <1>5, <3>2 DEF IsCopy
        <3>6. copy[n].state \notin {"ready", "corrupt"} BY <3>1
        <3>7. CopyFollows(n, copy[n], d) BY <3>4, <3>5, <3>6, Zenon DEF CopyFollows
        <3> QED BY <1>1, <3>3, <3>7, OneCopy, Zenon
    <2>4. RetryReplicaCleanupTask(j) \/ DropAnswer(j) => copy' = copy
        BY Zenon DEF RetryReplicaCleanupTask, DropAnswer, rows
    <2> QED BY <2>1, <2>2, <2>3, <2>4, Zenon
<1> QED BY <1>1, <1>2, <1>6, <1>7, <1>8, Unmoved, Zenon DEF Mild

\* Every step of the deletions.
LEMMA CleanupKeeps ==
    ASSUME DataInv, CleanupNext
    PROVE  DataInv'
<1>1. Shape BY Zenon DEF DataInv
<1>2. CASE ScheduleReplicaCleanupTasks \/ ClaimNothing \/ \E n \in Nodes : LeaseLapses(n)
    BY <1>1, <1>2, TickMild, MildKeeps, Zenon
<1>3. CASE \E n \in Nodes : ClaimReplicaCleanupTask(n) BY <1>3, ClaimKeeps, Zenon
<1>4. ASSUME NEW j \in jobs, RemoveReplicaTree(j) \/ AgentRestarts(j) PROVE DataInv'
    BY <1>1, <1>4, AgentMild, MildKeeps, Zenon
<1>5. ASSUME NEW j \in jobs,
             \/ CompleteReplicaCleanupTask(j) \/ RetryReplicaCleanupTask(j)
             \/ FailReplicaCleanupTask(j) \/ DropAnswer(j)
      PROVE  DataInv'
    BY <1>5, WorkerMild, MildKeeps, Zenon
<1>6. ASSUME NEW j \in jobs, DeleteSnapshotReplica(j) PROVE DataInv'
    BY <1>6, DeleteKeeps, Zenon
<1> QED BY <1>2, <1>3, <1>4, <1>5, <1>6, Zenon DEF CleanupNext

---------------------------------------------------------------------------
(* Verifications and retirements.                                          *)

\* Verifications: only an archive's copy changes, between ready and corrupt or
\* to them.
LEMMA IntegrityMild ==
    ASSUME Shape, IntegrityNext
    PROVE  Mild
<1>1. PICK n \in Storage :
         \/ \E kind \in {"light", "deep"} : ClaimReplicaIntegrityTask(n, kind)
         \/ VerifyReplicaIntegrity(n) \/ CompleteReplicaIntegrityTask(n)
         \/ EscalateReplicaIntegrityTask(n)
         \/ \E corrupt \in BOOLEAN : FailReplicaIntegrityTask(n, corrupt)
         \/ CheckLapses(n) \/ Rot(n)
    BY Zenon DEF IntegrityNext
<1>2. n \in Nodes /\ n \notin Compute BY RolesDiffer, Zenon DEF Nodes
<1>3. /\ task' = task /\ jobs' = jobs /\ wf' = wf /\ latest' = latest /\ snaps' = snaps
    BY <1>1, Zenon DEF ClaimReplicaIntegrityTask, VerifyReplicaIntegrity,
                       CompleteReplicaIntegrityTask, EscalateReplicaIntegrityTask,
                       FailReplicaIntegrityTask, CheckLapses, Rot, cleanup
<1>4. JobsFollow
    <2>1. ops' = ops \/ ops' = ops + 1
        BY <1>1, Zenon DEF ClaimReplicaIntegrityTask, VerifyReplicaIntegrity,
                           CompleteReplicaIntegrityTask, EscalateReplicaIntegrityTask,
                           FailReplicaIntegrityTask, CheckLapses, Rot, cleanup
    <2>2. ops' \in Nat /\ ops' >= ops BY <2>1 DEF Shape
    <2>3. \A j : Derived(j, j) BY Zenon DEF Derived
    <2> QED BY <1>3, <2>2, <2>3, Zenon DEF JobsFollow
<1>5. TreesStay
    <2>1. CASE Rot(n)
        <3>1. disk' = [disk EXCEPT ![n].rotten = TRUE] BY <2>1, Zenon DEF Rot
        <3>2. DOMAIN disk = Nodes /\ IsTree(disk[n]) BY <1>2, Zenon DEF Shape
        <3>3. disk'[n] = [disk[n] EXCEPT !.rotten = TRUE] BY <1>2, <3>1, <3>2
        <3>4. IsTree(disk'[n]) /\ disk'[n].snap = disk[n].snap /\ disk'[n].ident = disk[n].ident
            BY <3>2, <3>3 DEF IsTree
        <3>5. DOMAIN disk' = Nodes /\ \A m \in Nodes : m # n => disk'[m] = disk[m]
            BY <3>1, <3>2, Zenon
        <3> QED BY <3>4, <3>5, Zenon DEF TreesStay, Shape
    <2>2. CASE ~Rot(n)
        <3>1. disk' = disk
            BY <1>1, <2>2, Zenon DEF ClaimReplicaIntegrityTask, VerifyReplicaIntegrity,
                               CompleteReplicaIntegrityTask, EscalateReplicaIntegrityTask,
                               FailReplicaIntegrityTask, CheckLapses, files
        <3> QED BY <3>1, Unmoved, Zenon
    <2> QED BY <2>1, <2>2, Zenon
<1>6. CopiesFollow
    <2>1. CASE copy' = copy BY <2>1, Unmoved, Zenon
    <2>2. CASE copy' # copy
        <3>1. PICK corrupt \in BOOLEAN : FailReplicaIntegrityTask(n, corrupt)
            BY <1>1, <2>2, Zenon DEF ClaimReplicaIntegrityTask, VerifyReplicaIntegrity,
                               CompleteReplicaIntegrityTask, EscalateReplicaIntegrityTask,
                               CheckLapses, Rot, rows
        <3>2. PICK state \in {"ready", "corrupt"} : copy' = [copy EXCEPT ![n].state = state]
            BY <2>2, <3>1 DEF FailReplicaIntegrityTask
        <3>3. DOMAIN copy = Nodes /\ IsCopy(copy[n]) BY <1>2, Zenon DEF Shape
        <3>4. PICK d : d = [copy[n] EXCEPT !.state = state] BY Zenon
        <3>5. copy' = [copy EXCEPT ![n] = d] BY <3>2, <3>4
        <3>6. IsCopy(d) /\ d.snap = copy[n].snap /\ d.state = state BY <3>3, <3>4 DEF IsCopy
        <3>7. CopyFollows(n, copy[n], d) BY <1>2, <3>2, <3>6, Zenon DEF CopyFollows
        <3> QED BY <1>2, <3>5, <3>7, OneCopy, Zenon
    <2> QED BY <2>1, <2>2, Zenon
<1> QED BY <1>3, <1>4, <1>5, <1>6, Unmoved, Zenon DEF Mild

\* The commands of a node expire.
LEMMA Revoked ==
    ASSUME Shape, ops' = ops, NEW n, RevokeNodeAccess(n)
    PROVE  JobsFollow
<1>1. ASSUME NEW k \in jobs' PROVE \E j \in jobs : Derived(j, k)
    <2>1. PICK j \in jobs : k = j \/ k = [j EXCEPT !.cmd = "refused"]
        BY <1>1, Zenon DEF RevokeNodeAccess
    <2>2. CASE k = j BY <2>2, Zenon DEF Derived
    <2>3. CASE k = [j EXCEPT !.cmd = "refused"]
        <3>1. IsJob(j) BY Zenon DEF Shape
        <3>2. Derived(j, k) BY <2>3, <3>1 DEF IsJob, Derived, Live
        <3> QED BY <3>2, Zenon
    <2> QED BY <2>1, <2>2, <2>3, Zenon
<1>2. ops >= ops /\ ops \in Nat BY DEF Shape
<1> QED BY <1>1, <1>2, Zenon DEF JobsFollow

\* An item that has been moved: only the copy of a compute node, its home's or
\* a standby's, is given up.
LEMMA ItemMild ==
    ASSUME Shape, Roles,
           CompleteNodeRetirementHomeMigration \/ CompleteNodeRetirementReplicaItem
    PROVE  Mild
<1>1. /\ task' = task /\ jobs' = jobs /\ ops' = ops /\ disk' = disk
      /\ wf' = wf /\ latest' = latest /\ snaps' = snaps
    BY Zenon DEF CompleteNodeRetirementHomeMigration, CompleteNodeRetirementReplicaItem,
                 cleanup, files
<1>2. CASE copy' = copy BY <1>1, <1>2, Unmoved, Zenon DEF Mild
<1>3. CASE copy' # copy
    <2>1. PICK n \in Nodes : n = ret.node BY Zenon DEF Roles
    <2>2. n \in Compute
        <3>1. CASE CompleteNodeRetirementHomeMigration
            BY <1>3, <2>1, <3>1, Zenon DEF CompleteNodeRetirementHomeMigration, CanMigrate, Roles
        <3>2. CASE CompleteNodeRetirementReplicaItem
            BY <1>3, <2>1, <3>2, Zenon DEF CompleteNodeRetirementReplicaItem, Roles
        <3> QED BY <3>1, <3>2, Zenon
    <2>3. PICK t \in Compute :
             \/ copy' = [copy EXCEPT ![n].state = IF @ = "none" THEN @ ELSE "stale",
                                     ![t].kind = "active"]
             \/ copy' = [copy EXCEPT ![n].state = IF @ = "none" THEN @ ELSE "stale"]
        <3>1. CASE CompleteNodeRetirementHomeMigration
            <4>1. item.target \in Compute
                BY <3>1, Zenon DEF CompleteNodeRetirementHomeMigration, Roles, IsItem
            <4>2. copy' = [copy EXCEPT ![n].state = IF @ = "none" THEN @ ELSE "stale",
                                       ![item.target].kind = "active"]
                BY <1>3, <2>1, <3>1, Zenon DEF CompleteNodeRetirementHomeMigration
            <4> QED BY <4>1, <4>2, Zenon
        <3>2. CASE CompleteNodeRetirementReplicaItem
            BY <1>3, <2>1, <2>2, <3>2, Zenon DEF CompleteNodeRetirementReplicaItem
        <3> QED BY <3>1, <3>2, Zenon
    <2>4. t \in Nodes /\ t \notin Storage /\ n \notin Storage BY <2>2, RolesDiffer, Zenon
    <2>5. DOMAIN copy = Nodes /\ \A m \in Nodes : IsCopy(copy[m]) BY Zenon DEF Shape
    <2>6. DOMAIN copy' = Nodes BY <2>3, <2>5
    <2>7. ASSUME NEW m \in Nodes PROVE CopyFollows(m, copy[m], copy'[m])
        <3>1. CASE m \notin {n, t}
            <4>1. copy'[m] = copy[m] BY <2>1, <2>3, <2>4, <2>5, <3>1
            <4> QED BY <2>5, <4>1, Zenon DEF CopyFollows
        <3>2. CASE m \in {n, t}
            <4>1. IsCopy(copy[m]) BY <2>5, Zenon
            <4>2. IsCopy(copy'[m]) /\ copy'[m].snap = copy[m].snap
                  /\ copy'[m].state \in {copy[m].state, "stale"}
                BY <2>3, <2>4, <2>5, <3>2, <4>1 DEF IsCopy
            <4>3. m \notin Storage BY <2>4, <3>2
            <4>4. copy'[m].state = "ready" => copy[m].state = "ready" BY <4>2
            <4> QED BY <4>2, <4>3, <4>4, Zenon DEF CopyFollows
        <3> QED BY <3>1, <3>2, Zenon
    <2>8. CopiesFollow BY <2>6, <2>7, Zenon DEF CopiesFollow
    <2> QED BY <1>1, <2>8, Unmoved, Zenon DEF Mild
<1> QED BY <1>2, <1>3, Zenon

\* The other steps of a retirement move no copy.
LEMMA RetirementKeeps ==
    ASSUME DataInv, Roles, RetirementNext
    PROVE  DataInv'
<1> USE DEF DataInv
<1>1. ASSUME NEW n \in Nodes, NEW to, TransitionNodeLifecycle(n, to) PROVE Mild
    <2>1. /\ copy' = copy /\ task' = task /\ ops' = ops /\ disk' = disk
          /\ wf' = wf /\ latest' = latest /\ snaps' = snaps /\ (jobs' = jobs \/ RevokeNodeAccess(n))
        BY <1>1, Zenon DEF TransitionNodeLifecycle, rows, files
    <2>2. JobsFollow BY <2>1, Revoked, Unmoved, Zenon
    <2> QED BY <2>1, <2>2, Unmoved, Zenon DEF Mild
<1>2. CASE FinalizeNodeRetirement
    <2>1. /\ copy' = copy /\ task' = task /\ ops' = ops /\ disk' = disk
          /\ wf' = wf /\ latest' = latest /\ snaps' = snaps
          /\ (jobs' = jobs \/ RevokeNodeAccess(ret.node))
        BY <1>2, Zenon DEF FinalizeNodeRetirement, rows, files
    <2>2. JobsFollow BY <2>1, Revoked, Unmoved, Zenon
    <2>3. Mild BY <2>1, <2>2, Unmoved, Zenon DEF Mild
    <2> QED BY <2>3, MildKeeps, Zenon
<1>3. CASE ClaimNodeRetirement \/ WaitOffline \/ DeferNodeRetirement \/ WorkerStops
    <2>1. /\ copy' = copy /\ task' = task /\ jobs' = jobs /\ ops' = ops /\ disk' = disk
          /\ wf' = wf /\ latest' = latest /\ snaps' = snaps
        BY <1>3, Zenon DEF ClaimNodeRetirement, WaitOffline, DeferNodeRetirement, WorkerStops,
                           rows, cleanup, files
    <2>2. Mild BY <2>1, Unmoved, Zenon DEF Mild
    <2> QED BY <2>2, MildKeeps, Zenon
<1>4. CASE StartRetirementSnapshot
    <2>1. /\ copy' = copy /\ task' = task /\ jobs' = jobs /\ ops' = ops /\ disk' = disk
          /\ latest' = latest
        BY <1>4, Zenon DEF StartRetirementSnapshot, cleanup, files
    <2>2. CASE wf' = wf /\ snaps' = snaps
        <3>1. Mild BY <2>1, <2>2, Unmoved, Zenon DEF Mild
        <3> QED BY <3>1, MildKeeps, Zenon
    <2>3. ASSUME NEW n \in RetirementTargets, CreateRetirementSnapshot(n) PROVE DataInv'
        <3>1. n \in Nodes BY <2>3, Zenon DEF RetirementTargets, Nodes
        <3>2. CreateSnapshotWorkflow(RetirementSource, n, TRUE)
            BY <2>3, Zenon DEF CreateRetirementSnapshot
        <3> QED BY <2>1, <3>1, <3>2, CreateKeeps, Zenon
    <2> QED BY <1>4, <2>2, <2>3, Zenon DEF StartRetirementSnapshot
<1>5. CASE CompleteNodeRetirementHomeMigration \/ CompleteNodeRetirementReplicaItem
    BY <1>5, ItemMild, MildKeeps, Zenon
<1> QED BY <1>1, <1>2, <1>3, <1>4, <1>5, MildKeeps, Zenon DEF RetirementNext, RetirementStep

\* Every step keeps the copies and the trees in order.
LEMMA DataStep ==
    ASSUME DataInv, Roles, [Next]_vars
    PROVE  DataInv'
<1>1. Shape BY Zenon DEF DataInv
<1>2. CASE vars' = vars
    <2>1. /\ copy' = copy /\ task' = task /\ jobs' = jobs /\ ops' = ops /\ disk' = disk
          /\ wf' = wf /\ latest' = latest /\ snaps' = snaps
        BY <1>2, Zenon DEF vars, rows, cleanup, files
    <2>2. Mild BY <1>1, <2>1, Unmoved, Zenon DEF Mild
    <2> QED BY <2>2, MildKeeps, Zenon
<1>3. CASE SnapshotNext
    <2>1. ASSUME NEW n \in Nodes, Backup(n) PROVE DataInv'
        <3>1. /\ copy' = copy /\ task' = task /\ ops' = ops /\ jobs' = jobs /\ disk' = disk
              /\ latest' = latest /\ CreateSnapshotWorkflow(home, n, FALSE)
            BY <2>1, Zenon DEF Backup, cleanup, files
        <3> QED BY <3>1, CreateKeeps, Zenon
    <2>2. CASE FailSnapshotWorkflow \/ CancelSnapshotWorkflow
        BY <1>1, <2>2, EndedMild, MildKeeps, Zenon
    <2> QED BY <1>3, <2>1, <2>2, PublishKeeps, CompleteKeeps, Zenon DEF SnapshotNext
<1>4. CASE UserNext BY <1>1, <1>4, UserMild, MildKeeps, Zenon
<1>5. CASE IntegrityNext BY <1>1, <1>5, IntegrityMild, MildKeeps, Zenon
<1> QED BY <1>2, <1>3, <1>4, <1>5, CleanupKeeps, RetirementKeeps, Zenon DEF Next

---------------------------------------------------------------------------
(* Retired nodes.  A node is retired when nothing depends on it, and no    *)
(* home, account, source or target is chosen after that.  The newest       *)
(* archive can be left on it only if it is corrupt, and it stays corrupt:  *)
(* its verification is over.                                               *)

Gone(n) == life[n] \in {"decommissioned", "retired"}

\* RetiredIsEmpty for one node.
Empty(n) ==
    /\ home # n /\ n \notin acct
    /\ wf.state # "none" => n \notin {wf.source, wf.target}
    /\ latest.node = n => copy[n].state = "corrupt"

\* An open retirement is of a node that drains.
Draining == ret.state \in OpenRetirement => life[ret.node] \in {"draining", "retiring"}

\* Whatever is corrupt is on record as corrupt in both rows.
Verdicts ==
    /\ DOMAIN integ = Storage /\ \A n \in Storage : DOMAIN integ[n] = {"state", "kind"}
    /\ \A n \in Storage : copy[n].state = "corrupt" => integ[n].state = "corrupt"

RetInv == Roles /\ DOMAIN life = Nodes /\ Draining /\ Verdicts /\ RetiredIsEmpty

\* What a step may do to an empty node that is gone: nothing.
Shunned ==
    /\ home' = home \/ ~Gone(home')
    /\ \A n \in acct' : n \in acct \/ ~Gone(n)
    /\ wf'.state # "none" =>
         \A n \in {wf'.source, wf'.target} :
            ~Gone(n) \/ (wf.state # "none" /\ n \in {wf.source, wf.target})
    /\ \/ /\ latest' = latest
          /\ copy[latest.node].state = "corrupt" => copy'[latest.node].state = "corrupt"
       \/ wf.state # "none" /\ latest'.node = wf.target

\* A step that shuns the nodes that are gone, and lets none go that is not empty.
LEMMA EmptyKeeps ==
    ASSUME RetiredIsEmpty, Shunned, \A n \in Nodes : Gone(n)' => Gone(n) \/ Empty(n)'
    PROVE  RetiredIsEmpty'
<1>1. ASSUME NEW n \in Nodes, Gone(n)' PROVE Empty(n)'
    <2>1. CASE Gone(n)
        <3>1. Empty(n) BY <2>1, Zenon DEF RetiredIsEmpty, Empty, Gone
        <3>2. home' # n /\ n \notin acct' BY <2>1, <3>1, Zenon DEF Empty, Shunned
        <3>3. wf'.state # "none" => n \notin {wf'.source, wf'.target}
            BY <2>1, <3>1, Zenon DEF Empty, Shunned
        <3>4. latest'.node = n => copy'[n].state = "corrupt"
            BY <2>1, <3>1, Zenon DEF Empty, Shunned
        <3> QED BY <3>2, <3>3, <3>4, Zenon DEF Empty
    <2>2. CASE ~Gone(n) BY <1>1, <2>2, Zenon
    <2> QED BY <2>1, <2>2, Zenon
<1> QED BY <1>1, Zenon DEF RetiredIsEmpty, Empty, Gone

\* Archives are neither found corrupt nor given up as such.
Untouched ==
    /\ integ' = integ
    /\ \A n \in Storage : copy'[n].state = "corrupt" <=> copy[n].state = "corrupt"

\* A step that moves neither home nor accounts, begins no workflow and verifies
\* nothing.
LEMMA CalmKeeps ==
    ASSUME Shape, RetInv, Roles', Draining', Untouched,
           home' = home, acct' = acct, life' = life, latest' = latest,
           wf'.state # "none" => wf.state # "none" /\ wf'.source = wf.source
                                 /\ wf'.target = wf.target
    PROVE  RetInv'
<1>1. latest.node \in Storage BY Zenon DEF Shape
<1>2. Shunned BY <1>1, Zenon DEF Shunned, Untouched
<1>3. \A n \in Nodes : Gone(n)' => Gone(n) BY Zenon DEF Gone
<1>4. RetiredIsEmpty' BY <1>2, <1>3, EmptyKeeps, Zenon DEF RetInv
<1>5. Verdicts' BY Zenon DEF RetInv, Verdicts, Untouched
<1> QED BY <1>4, <1>5, Zenon DEF RetInv

\* The steps of the user.
LEMMA UserRet ==
    ASSUME Shape, RetInv, UserNext
    PROVE  RetInv'
<1> USE DEF RetInv
<1>1. CASE Login \/ Leave \/ Promote
    <2>1. /\ home' = home /\ acct' = acct /\ life' = life /\ latest' = latest /\ wf' = wf
          /\ ret' = ret /\ item' = item /\ integ' = integ /\ copy' = copy
        BY <1>1, Zenon DEF Login, Leave, Promote, rows, retirement, checks
    <2>2. Roles' /\ Draining' /\ Untouched BY <2>1, Zenon DEF Roles, Draining, Untouched
    <2> QED BY <2>1, <2>2, CalmKeeps, Zenon
<1>2. ASSUME NEW n \in Compute, ConfirmReplicaTakeover(n) PROVE RetInv'
    <2>1. /\ life' = life /\ latest' = latest /\ wf' = wf /\ ret' = ret /\ item' = item
          /\ integ' = integ /\ home' = n /\ life[n] = "active" /\ acct' = acct \ {home}
        BY <1>2, Zenon DEF ConfirmReplicaTakeover, retirement, checks
    <2>2. ~Gone(n) BY <2>1 DEF Gone
    <2>3. \A m \in Storage : copy'[m].state = copy[m].state
        <3>1. SUFFICES ASSUME NEW m \in Storage PROVE copy'[m].state = copy[m].state OBVIOUS
        <3>2. m # home /\ m # n /\ m \in Nodes BY RolesDiffer, Zenon DEF Roles, Nodes
        <3>3. copy' = [copy EXCEPT ![home].state = "stale", ![home].kind = "hot_standby",
                                   ![n].kind = "active"]
            BY <1>2, Zenon DEF ConfirmReplicaTakeover
        <3>4. DOMAIN copy = Nodes BY Zenon DEF Shape
        <3> QED BY <3>2, <3>3, <3>4
    <2>4. Shunned
        <3>1. latest.node \in Storage BY Zenon DEF Shape
        <3> QED BY <2>1, <2>2, <2>3, <3>1, Zenon DEF Shunned
    <2>5. \A m \in Nodes : Gone(m)' => Gone(m) BY <2>1, Zenon DEF Gone
    <2>6. RetiredIsEmpty' BY <2>4, <2>5, EmptyKeeps, Zenon
    <2>7. Roles' /\ Draining' /\ Verdicts' BY <2>1, <2>3, Zenon DEF Roles, Draining, Verdicts
    <2> QED BY <2>1, <2>6, <2>7, Zenon
<1> QED BY <1>1, <1>2, Zenon DEF UserNext

\* A deletion never touches a corrupt archive.
LEMMA CleanupRet ==
    ASSUME Shape, RetInv, CleanupNext
    PROVE  RetInv'
<1> USE DEF RetInv
<1>1. /\ home' = home /\ acct' = acct /\ life' = life /\ latest' = latest /\ wf' = wf
      /\ ret' = ret /\ item' = item /\ integ' = integ
    <2>1. CASE ScheduleReplicaCleanupTasks \/ ClaimNothing
               \/ \E n \in Nodes : ClaimReplicaCleanupTask(n) \/ LeaseLapses(n)
        BY <2>1, Zenon DEF ScheduleReplicaCleanupTasks, ClaimNothing, ClaimReplicaCleanupTask,
                           LeaseLapses, rows, retirement, checks
    <2>2. CASE \E j \in jobs :
                 DeleteSnapshotReplica(j) \/ RemoveReplicaTree(j) \/ AgentRestarts(j)
        BY <2>2, Zenon DEF DeleteSnapshotReplica, RemoveReplicaTree, AgentRestarts,
                           rows, retirement, checks
    <2>3. CASE \E j \in jobs :
                 \/ CompleteReplicaCleanupTask(j) \/ RetryReplicaCleanupTask(j)
                 \/ FailReplicaCleanupTask(j) \/ DropAnswer(j)
        BY <2>3, Zenon DEF CompleteReplicaCleanupTask, RetryReplicaCleanupTask,
                           FailReplicaCleanupTask, DropAnswer, rows, retirement, checks
    <2> QED BY <2>1, <2>2, <2>3, Zenon DEF CleanupNext
<1>2. \A m \in Storage : copy'[m].state = "corrupt" <=> copy[m].state = "corrupt"
    <2>1. CASE copy' = copy BY <2>1, Zenon
    <2>2. CASE copy' # copy
        <3>1. PICK n \in Nodes : \E d :
                /\ copy' = [copy EXCEPT ![n] = d] /\ d.state # "corrupt"
                /\ n \in Storage => copy[n].state # "corrupt"
            <4>1. ASSUME NEW n \in Nodes, ClaimReplicaCleanupTask(n)
                  PROVE  \E d : /\ copy' = [copy EXCEPT ![n] = d] /\ d.state # "corrupt"
                                /\ n \in Storage => copy[n].state # "corrupt"
                <5>1. PICK d : d = [copy[n] EXCEPT !.state = "deleting"] BY Zenon
                <5>2. IsCopy(copy[n]) BY Zenon DEF Shape
                <5>3. d.state # "corrupt" BY <5>1, <5>2, SMTT(40) DEF IsCopy
                <5>4. copy' = [copy EXCEPT ![n] = d]
                    BY <4>1, <5>1 DEF ClaimReplicaCleanupTask
                <5>5. n \in Storage => copy[n].state \in {"deleting", "stale"}
                    BY <4>1, Zenon DEF ClaimReplicaCleanupTask, Claimable
                <5>6. n \in Storage => copy[n].state # "corrupt" BY <5>5
                <5> QED BY <5>3, <5>4, <5>6, Zenon
            <4>2. ASSUME NEW j \in jobs, CompleteReplicaCleanupTask(j) \/ FailReplicaCleanupTask(j)
                  PROVE  \E n \in Nodes : \E d :
                            /\ copy' = [copy EXCEPT ![n] = d] /\ d.state # "corrupt"
                            /\ n \in Storage => copy[n].state # "corrupt"
                <5>1. PICK n \in Nodes : n = j.node BY Zenon DEF Shape, IsJob
                <5>2. IsCopy(copy[n]) BY Zenon DEF Shape
                <5>3. CASE CompleteReplicaCleanupTask(j)
                    <6>1. copy' = [copy EXCEPT ![n] = NoCopy(n)] /\ copy[n].state = "deleting"
                        BY <2>2, <5>1, <5>3, Zenon DEF CompleteReplicaCleanupTask
                    <6>2. NoCopy(n).state # "corrupt" /\ copy[n].state # "corrupt"
                        BY <6>1 DEF NoCopy
                    <6> QED BY <6>1, <6>2, Zenon
                <5>4. CASE FailReplicaCleanupTask(j)
                    <6>1. PICK state \in {"stale", "ready"} :
                            copy[n].state = "deleting" /\ copy' = [copy EXCEPT ![n].state = state]
                        BY <2>2, <5>1, <5>4 DEF FailReplicaCleanupTask
                    <6>2. PICK d : d = [copy[n] EXCEPT !.state = state] BY Zenon
                    <6>3. d.state # "corrupt" /\ copy[n].state # "corrupt"
                        BY <5>2, <6>1, <6>2 DEF IsCopy
                    <6>4. copy' = [copy EXCEPT ![n] = d] BY <6>1, <6>2
                    <6> QED BY <6>3, <6>4, Zenon
                <5> QED BY <4>2, <5>3, <5>4, Zenon
            <4>3. CASE \E j \in jobs : \/ DeleteSnapshotReplica(j) \/ RemoveReplicaTree(j)
                                       \/ AgentRestarts(j) \/ RetryReplicaCleanupTask(j)
                                       \/ DropAnswer(j)
                BY <2>2, <4>3, Zenon DEF DeleteSnapshotReplica, RemoveReplicaTree, AgentRestarts,
                                         RetryReplicaCleanupTask, DropAnswer, rows
            <4>4. CASE ScheduleReplicaCleanupTasks \/ ClaimNothing
                       \/ \E n \in Nodes : LeaseLapses(n)
                BY <2>2, <4>4, Zenon DEF ScheduleReplicaCleanupTasks, ClaimNothing, LeaseLapses, rows
            <4> QED BY <4>1, <4>2, <4>3, <4>4, Zenon DEF CleanupNext
        <3>2. PICK d : /\ copy' = [copy EXCEPT ![n] = d] /\ d.state # "corrupt"
                       /\ n \in Storage => copy[n].state # "corrupt"
            BY <3>1, Zenon
        <3>3. /\ copy'[n] = d /\ \A m \in Nodes : m # n => copy'[m] = copy[m]
            BY <3>2, Zenon DEF Shape
        <3> QED BY <3>2, <3>3, Zenon DEF Nodes
    <2> QED BY <2>1, <2>2, Zenon
<1>3. Roles' /\ Draining' /\ Untouched BY <1>1, <1>2, Zenon DEF Roles, Draining, Untouched
<1> QED BY <1>1, <1>3, CalmKeeps, Zenon

\* A verification finds an archive corrupt only once.
LEMMA IntegrityRet ==
    ASSUME Shape, RetInv, IntegrityNext
    PROVE  RetInv'
<1> USE DEF RetInv
<1>1. PICK n \in Storage :
         \/ \E kind \in {"light", "deep"} : ClaimReplicaIntegrityTask(n, kind)
         \/ VerifyReplicaIntegrity(n) \/ CompleteReplicaIntegrityTask(n)
         \/ EscalateReplicaIntegrityTask(n)
         \/ \E corrupt \in BOOLEAN : FailReplicaIntegrityTask(n, corrupt)
         \/ CheckLapses(n) \/ Rot(n)
    BY Zenon DEF IntegrityNext
<1>2. /\ home' = home /\ acct' = acct /\ life' = life /\ latest' = latest /\ wf' = wf
      /\ ret' = ret /\ item' = item
    BY <1>1, Zenon DEF ClaimReplicaIntegrityTask, VerifyReplicaIntegrity,
                       CompleteReplicaIntegrityTask, EscalateReplicaIntegrityTask,
                       FailReplicaIntegrityTask, CheckLapses, Rot, rows, retirement
<1>3. DOMAIN integ = Storage /\ DOMAIN integ[n] = {"state", "kind"} BY Zenon DEF Verdicts
<1>4. DOMAIN copy = Nodes /\ n \in Nodes /\ DOMAIN copy[n] = {"state", "kind", "snap"}
    BY Zenon DEF Shape, Nodes, IsCopy
<1> DEFINE Verdict ==
        /\ DOMAIN integ' = Storage /\ DOMAIN integ'[n] = {"state", "kind"}
        /\ copy[n].state # "corrupt"
        /\ copy'[n].state = "corrupt" => integ'[n].state = "corrupt"
        /\ \A m \in Storage : m # n => integ'[m] = integ[m] /\ copy'[m] = copy[m]
<1>5. ASSUME NEW i, integ' = [integ EXCEPT ![n] = i], DOMAIN i = {"state", "kind"},
             copy[n].state # "corrupt", copy' = copy
      PROVE  Verdict
    BY <1>3, <1>5, Zenon
<1>6. (integ' = integ /\ copy' = copy) \/ Verdict
    <2>1. CASE VerifyReplicaIntegrity(n) \/ CheckLapses(n) \/ Rot(n)
        BY <2>1, Zenon DEF VerifyReplicaIntegrity, CheckLapses, Rot, rows, checks
    <2>2. ASSUME NEW kind \in {"light", "deep"}, ClaimReplicaIntegrityTask(n, kind)
          PROVE  Verdict
        <3>1. PICK i : i = [state |-> "checking", kind |-> kind] BY Zenon
        <3>2. DOMAIN i = {"state", "kind"} BY <3>1
        <3>3. copy[n].state # "corrupt" BY <2>2 DEF ClaimReplicaIntegrityTask
        <3>4. integ' = [integ EXCEPT ![n] = i] /\ copy' = copy
            BY <2>2, <3>1, Zenon DEF ClaimReplicaIntegrityTask, rows
        <3> QED BY <1>5, <3>2, <3>3, <3>4, Zenon
    <2>3. CASE CompleteReplicaIntegrityTask(n)
        <3>1. copy' = copy BY <2>3, Zenon DEF CompleteReplicaIntegrityTask, rows
        <3>2. CASE integ' = integ BY <3>1, <3>2, Zenon
        <3>3. CASE integ' # integ
            <4>1. PICK i : i = [integ[n] EXCEPT !.state = "verified"] BY Zenon
            <4>2. integ' = [integ EXCEPT ![n] = i] /\ copy[n].state = "ready"
                BY <2>3, <3>3, <4>1 DEF CompleteReplicaIntegrityTask
            <4>3. DOMAIN i = {"state", "kind"} /\ copy[n].state # "corrupt" BY <1>3, <4>1, <4>2
            <4>4. Verdict BY <1>5, <3>1, <4>2, <4>3, Zenon
            <4> QED BY <4>4, Zenon
        <3> QED BY <3>2, <3>3, Zenon
    <2>4. CASE EscalateReplicaIntegrityTask(n)
        <3>1. copy' = copy BY <2>4, Zenon DEF EscalateReplicaIntegrityTask, rows
        <3>2. CASE integ' = integ BY <3>1, <3>2, Zenon
        <3>3. CASE integ' # integ
            <4>1. PICK i : i = [state |-> "due", kind |-> "deep"] BY Zenon
            <4>2. integ' = [integ EXCEPT ![n] = i] /\ integ[n].state = "checking"
                BY <2>4, <3>3, <4>1, Zenon DEF EscalateReplicaIntegrityTask
            <4>3. DOMAIN i = {"state", "kind"} /\ integ[n].state # "corrupt" BY <4>1, <4>2
            <4>4. copy[n].state # "corrupt" BY <4>3, Zenon DEF Verdicts
            <4>5. Verdict BY <1>5, <3>1, <4>2, <4>3, <4>4, Zenon
            <4> QED BY <4>5, Zenon
        <3> QED BY <3>2, <3>3, Zenon
    <2>5. ASSUME NEW corrupt \in BOOLEAN, FailReplicaIntegrityTask(n, corrupt)
          PROVE  (integ' = integ /\ copy' = copy) \/ Verdict
        <3>1. CASE ~(integ[n].state = "checking" /\ copy[n].state # "none"
                     /\ (corrupt \/ OnlyArchive(n)))
            BY <2>5, <3>1, Zenon DEF FailReplicaIntegrityTask
        <3>2. CASE integ[n].state = "checking" /\ copy[n].state # "none"
                   /\ (corrupt \/ OnlyArchive(n))
            <4>1. PICK i : i = [integ[n] EXCEPT !.state = IF corrupt THEN "corrupt"
                                                          ELSE "retry_wait"]
                BY Zenon
            <4>2. PICK d : d = [copy[n] EXCEPT !.state = IF corrupt THEN "corrupt" ELSE "ready"]
                BY Zenon
            <4>3. integ' = [integ EXCEPT ![n] = i] /\ copy' = [copy EXCEPT ![n] = d]
                BY <2>5, <3>2, <4>1, <4>2 DEF FailReplicaIntegrityTask
            <4>4. DOMAIN i = {"state", "kind"} /\ (d.state = "corrupt" => i.state = "corrupt")
                BY <1>3, <1>4, <4>1, <4>2
            <4>5. integ[n].state # "corrupt" BY <3>2
            <4>6. copy[n].state # "corrupt" BY <4>5, Zenon DEF Verdicts
            <4>7. Verdict BY <1>3, <1>4, <4>3, <4>4, <4>6, Zenon DEF Nodes
            <4> QED BY <4>7, Zenon
        <3> QED BY <3>1, <3>2, Zenon
    <2> QED BY <1>1, <2>1, <2>2, <2>3, <2>4, <2>5, Zenon
<1>7. CASE integ' = integ /\ copy' = copy
    <2>1. Roles' /\ Draining' /\ Untouched BY <1>2, <1>7, Zenon DEF Roles, Draining, Untouched
    <2> QED BY <1>2, <2>1, CalmKeeps, Zenon
<1>8. CASE Verdict
    <2>1. Verdicts' BY <1>8, Zenon DEF Verdicts
    <2>2. latest.node \in Storage BY Zenon DEF Shape
    <2>3. Shunned BY <1>2, <1>8, <2>2, Zenon DEF Shunned
    <2>4. \A m \in Nodes : Gone(m)' => Gone(m) BY <1>2, Zenon DEF Gone
    <2>5. RetiredIsEmpty' BY <2>3, <2>4, EmptyKeeps, Zenon
    <2>6. Roles' /\ Draining' BY <1>2, Zenon DEF Roles, Draining
    <2> QED BY <1>2, <2>1, <2>5, <2>6, Zenon
<1> QED BY <1>6, <1>7, <1>8, Zenon

\* A workflow begins between nodes that are not gone.
LEMMA CreateRet ==
    ASSUME Shape, RetInv, Roles', Draining', NEW src, NEW n \in Nodes, NEW retires,
           ~Gone(src), CreateSnapshotWorkflow(src, n, retires),
           home' = home, life' = life, latest' = latest, integ' = integ, copy' = copy
    PROVE  RetInv'
<1> USE DEF RetInv
<1>1. life[n] = "active" BY Zenon DEF CreateSnapshotWorkflow, MayCreate
<1>2. ~Gone(n) BY <1>1 DEF Gone
<1>3. wf' = [state |-> "open", source |-> src, target |-> n, snap |-> snaps + 1,
             retires |-> retires]
    BY Zenon DEF CreateSnapshotWorkflow
<1>4. wf'.source = src /\ wf'.target = n BY <1>3
<1>5. \A m \in acct' : m \in acct \/ m = n BY Zenon DEF CreateSnapshotWorkflow
<1>6. Shunned BY <1>2, <1>4, <1>5, Zenon DEF Shunned
<1>7. \A m \in Nodes : Gone(m)' => Gone(m) BY Zenon DEF Gone
<1>8. RetiredIsEmpty' BY <1>6, <1>7, EmptyKeeps, Zenon
<1>9. Verdicts' BY Zenon DEF Verdicts
<1> QED BY <1>8, <1>9, Zenon

\* The steps of a workflow: the newest archive moves to a node that was not
\* gone when the workflow began, and has not gone since.
LEMMA SnapshotRet ==
    ASSUME Shape, RetInv, SnapshotNext
    PROVE  RetInv'
<1> USE DEF RetInv
<1>1. ASSUME NEW f, item' = item \/ item' = [item EXCEPT !.flow = f], home' = home, ret' = ret
      PROVE  Roles'
    <2>1. IsItem(item') /\ item'.kind = item.kind BY <1>1 DEF Roles, IsItem
    <2> QED BY <1>1, <2>1, Zenon DEF Roles
<1>2. ASSUME NEW n \in Nodes, Backup(n) PROVE RetInv'
    <2>1. /\ home' = home /\ life' = life /\ latest' = latest /\ integ' = integ /\ copy' = copy
          /\ ret' = ret /\ item' = item /\ life[home] = "active"
          /\ CreateSnapshotWorkflow(home, n, FALSE)
        BY <1>2, Zenon DEF Backup, checks, retirement
    <2>2. ~Gone(home) BY <2>1 DEF Gone
    <2>3. Roles' /\ Draining' BY <2>1, Zenon DEF Roles, Draining
    <2> QED BY <2>1, <2>2, <2>3, CreateRet, Zenon
<1>3. CASE PublishSnapshotDirectory \/ FailSnapshotWorkflow \/ CancelSnapshotWorkflow
    <2>1. /\ home' = home /\ life' = life /\ latest' = latest /\ integ' = integ /\ copy' = copy
          /\ acct' = acct /\ ret' = ret
        BY <1>3, Zenon DEF PublishSnapshotDirectory, FailSnapshotWorkflow, CancelSnapshotWorkflow,
                           checks, retirement, rows
    <2>2. \E f : item' = item \/ item' = [item EXCEPT !.flow = f]
        BY <1>3, Zenon DEF PublishSnapshotDirectory, FailSnapshotWorkflow, CancelSnapshotWorkflow,
                           retirement
    <2>3. \/ wf' = [wf EXCEPT !.state = "none"]
          \/ wf.state = "open" /\ wf' = [wf EXCEPT !.state = "published"]
        BY <1>3, Zenon DEF PublishSnapshotDirectory, FailSnapshotWorkflow, CancelSnapshotWorkflow
    <2>4. IsWorkflow(wf) BY Zenon DEF Shape
    <2>5. wf'.state # "none" =>
            wf.state # "none" /\ wf'.source = wf.source /\ wf'.target = wf.target
        BY <2>3, <2>4 DEF IsWorkflow
    <2>6. Roles' BY <1>1, <2>1, <2>2, Zenon
    <2>7. Draining' /\ Untouched BY <2>1, Zenon DEF Draining, Untouched
    <2> QED BY <2>1, <2>5, <2>6, <2>7, CalmKeeps, Zenon
<1>4. CASE CompleteSnapshotWorkflow
    <2>1. PICK n \in Nodes : n = wf.target BY Zenon DEF Shape, IsWorkflow
    <2>2. /\ home' = home /\ life' = life /\ acct' = acct /\ ret' = ret
          /\ wf.state = "published"
        BY <1>4, Zenon DEF CompleteSnapshotWorkflow
    <2>3. \E f : item' = item \/ item' = [item EXCEPT !.flow = f]
        BY <1>4, Zenon DEF CompleteSnapshotWorkflow
    <2>4. wf'.state = "none"
        <3>1. wf' = [wf EXCEPT !.state = "none"] BY <1>4, Zenon DEF CompleteSnapshotWorkflow
        <3> QED BY <3>1 DEF Shape, IsWorkflow
    <2>5. Roles' /\ Draining' BY <1>1, <2>2, <2>3, Zenon DEF Draining
    <2>6. /\ DOMAIN integ' = Storage
          /\ \A m \in Storage : m # n => integ'[m] = integ[m]
          /\ n \in Storage => integ'[n] = [state |-> "verified", kind |-> "deep"]
        BY <1>4, <2>1, Zenon DEF CompleteSnapshotWorkflow
    <2>7. n \in Storage => DOMAIN integ'[n] = {"state", "kind"}
        <3>1. PICK i : i = [state |-> "verified", kind |-> "deep"] BY Zenon
        <3>2. DOMAIN i = {"state", "kind"} BY <3>1
        <3> QED BY <2>6, <3>1, <3>2, Zenon
    <2>8. /\ copy'[n] = [state |-> "ready", kind |-> Kind(n), snap |-> wf.snap]
          /\ \A m \in Nodes : m # n =>
               \/ m \in Superseded(n) /\ copy'[m] = [copy[m] EXCEPT !.state = "stale"]
               \/ m \notin Superseded(n) /\ copy'[m] = copy[m]
        BY <1>4, <2>1, Zenon DEF CompleteSnapshotWorkflow
    <2>9. copy'[n].state # "corrupt" BY <2>8
    <2>10. ASSUME NEW m \in Storage, m # n, copy'[m].state = "corrupt" PROVE copy[m].state = "corrupt"
        <3>1. m \in Nodes /\ IsCopy(copy[m]) BY Zenon DEF Nodes, Shape
        <3>2. copy'[m] = [copy[m] EXCEPT !.state = "stale"] => copy'[m].state = "stale"
            BY <3>1 DEF IsCopy
        <3>3. copy'[m].state # "stale" BY <2>10
        <3> QED BY <2>8, <2>10, <3>1, <3>2, <3>3, Zenon
    <2>11. Verdicts' BY <2>6, <2>7, <2>9, <2>10, Zenon DEF Verdicts
    <2>12. \/ /\ latest' = latest
              /\ copy[latest.node].state = "corrupt" => copy'[latest.node].state = "corrupt"
           \/ wf.state # "none" /\ latest'.node = wf.target
        <3>1. CASE n \in Storage
            <4>1. latest' = [node |-> n, snap |-> wf.snap]
                BY <1>4, <2>1, <3>1, Zenon DEF CompleteSnapshotWorkflow
            <4>2. latest'.node = n /\ wf.state # "none" BY <2>2, <4>1
            <4> QED BY <2>1, <4>2, Zenon
        <3>2. CASE n \notin Storage
            <4>1. latest' = latest BY <1>4, <2>1, <3>2, Zenon DEF CompleteSnapshotWorkflow
            <4>2. latest.node \in Nodes /\ latest.node # n BY <3>2, Zenon DEF Shape, Nodes
            <4>3. copy'[latest.node] = copy[latest.node]
                BY <2>8, <3>2, <4>2, Zenon DEF Superseded
            <4> QED BY <4>1, <4>3, Zenon
        <3> QED BY <3>1, <3>2, Zenon
    <2>13. Shunned BY <2>2, <2>4, <2>12, Zenon DEF Shunned
    <2>14. \A m \in Nodes : Gone(m)' => Gone(m) BY <2>2, Zenon DEF Gone
    <2>15. RetiredIsEmpty' BY <2>13, <2>14, EmptyKeeps, Zenon
    <2> QED BY <2>2, <2>5, <2>11, <2>15, Zenon
<1> QED BY <1>2, <1>3, <1>4, Zenon DEF SnapshotNext

---------------------------------------------------------------------------
(* The retirement itself.                                                  *)

\* The operation stays the one it was, and is not opened again.
Kept ==
    /\ IsItem(item') /\ item'.kind = item.kind
    /\ DOMAIN ret' = {"state", "node", "gen"} /\ ret'.node = ret.node
    /\ ret'.state \in OpenRetirement => ret.state \in OpenRetirement

\* RetryNodeRetirementItem, or nothing.
LEMMA RetryKept ==
    ASSUME Roles
    PROVE  /\ \A state, clear : RetryNodeRetirementItem(state, clear) => Kept
           /\ item' = item /\ ret' = ret => Kept
           /\ ItemDone => Kept
<1>1. IsItem(item) /\ DOMAIN ret = {"state", "node", "gen"} BY Zenon DEF Roles
<1>2. item' = item /\ ret' = ret => Kept BY <1>1, Zenon DEF Kept
<1>3. ASSUME NEW state, NEW clear, RetryNodeRetirementItem(state, clear) PROVE Kept
    <2>1. CASE ret.state \in {"migrating", "retry_wait", "blocked"} /\ ret.gen = gen /\ OpenItem
        <3>1. /\ item' = [item EXCEPT !.state = state, !.flow = IF clear THEN "none" ELSE @]
              /\ ret' = [ret EXCEPT !.state = IF state = "blocked" THEN state ELSE "retry_wait"]
            BY <1>3, <2>1, Zenon DEF RetryNodeRetirementItem
        <3>2. IsItem(item') /\ item'.kind = item.kind BY <1>1, <3>1 DEF IsItem
        <3>3. DOMAIN ret' = {"state", "node", "gen"} /\ ret'.node = ret.node BY <1>1, <3>1
        <3>4. ret.state \in OpenRetirement BY <2>1 DEF OpenRetirement
        <3> QED BY <3>2, <3>3, <3>4, Zenon DEF Kept
    <2>2. CASE ~(ret.state \in {"migrating", "retry_wait", "blocked"} /\ ret.gen = gen /\ OpenItem)
        BY <1>2, <1>3, <2>2, Zenon DEF RetryNodeRetirementItem
    <2> QED BY <2>1, <2>2, Zenon
<1>4. ItemDone => Kept
    <2>1. SUFFICES ASSUME ItemDone PROVE Kept OBVIOUS
    <2>2. item' = [item EXCEPT !.state = "succeeded"] /\ ret' = ret BY <2>1, Zenon DEF ItemDone
    <2>3. IsItem(item') /\ item'.kind = item.kind BY <1>1, <2>2 DEF IsItem
    <2> QED BY <1>1, <2>2, <2>3, Zenon DEF Kept
<1> QED BY <1>2, <1>3, <1>4, Zenon

\* So the roles and the draining stay as they are.
LEMMA KeptRoles ==
    ASSUME Roles, Draining, Kept, home' \in Compute
    PROVE  Roles' /\ (life' = life => Draining')
BY Zenon DEF Roles, Draining, Kept

\* A node that goes has no dependents, so the newest archive is there only if
\* it is corrupt.
LEMMA GoesEmpty ==
    ASSUME DataInv, NEW n \in Nodes, ~Dependent(n),
           home' = home, acct' = acct, wf' = wf, copy' = copy, latest' = latest
    PROVE  Empty(n)'
<1>1. home # n /\ n \notin acct /\ (wf.state # "none" => n \notin {wf.source, wf.target})
    BY Zenon DEF Dependent
<1>2. copy[n].state \in {"none", "stale", "corrupt", "deleting"} BY Zenon DEF Dependent, HoldsCopy
<1>3. latest.node = n => copy[n].state \in {"ready", "corrupt"} BY Zenon DEF DataInv, Newest
<1>4. latest.node = n => copy[n].state = "corrupt" BY <1>2, <1>3
<1> QED BY <1>1, <1>4, Zenon DEF Empty

\* TransitionNodeLifecycle.
LEMMA TransitionRet ==
    ASSUME DataInv, RetInv, NEW n \in Nodes, NEW to, TransitionNodeLifecycle(n, to)
    PROVE  RetInv'
<1> USE DEF RetInv
<1>1. /\ home' = home /\ acct' = acct /\ wf' = wf /\ copy' = copy /\ latest' = latest
      /\ integ' = integ /\ life' = [life EXCEPT ![n] = to] /\ (to = "retired" => ~Dependent(n))
    BY Zenon DEF TransitionNodeLifecycle, rows, checks
<1>2. /\ DOMAIN life' = Nodes /\ life'[n] = to
      /\ \A m \in Nodes : m # n => life'[m] = life[m]
    BY <1>1, Zenon
<1>3. Roles' /\ Draining'
    <2>1. CASE to = "draining"
        <3>1. CreateNodeRetirement(n) BY <2>1, Zenon DEF TransitionNodeLifecycle
        <3>2. PICK kind : kind = ItemKind(n) BY Zenon
        <3>3. /\ item' = IF kind = "none" THEN NoItem
                         ELSE [NoItem EXCEPT !.kind = kind, !.state = "pending"]
              /\ ret' = [state |-> IF kind = "none" THEN "verifying" ELSE "scheduled",
                         node |-> n, gen |-> gen]
            BY <3>1, <3>2, Zenon DEF CreateNodeRetirement
        <3>4. First \in Compute /\ First \in Nodes BY UpkeepAssumption, Zenon DEF Nodes
        <3>5. IsItem(item') /\ item'.kind = kind BY <3>3, <3>4 DEF NoItem, IsItem
        <3>6. DOMAIN ret' = {"state", "node", "gen"} /\ ret'.node = n BY <3>3
        <3>7. kind = "redundant_replica" => n \notin Storage BY <3>2 DEF ItemKind
        <3>8. kind = "redundant_replica" => n \in Compute BY <3>7, Zenon DEF Nodes
        <3>9. to \in {"draining", "retiring"} BY <2>1
        <3>10. Roles' BY <1>1, <3>5, <3>6, <3>8, Zenon DEF Roles
        <3>11. Draining' BY <1>2, <3>6, <3>9, Zenon DEF Draining
        <3> QED BY <3>10, <3>11, Zenon
    <2>2. CASE to # "draining" /\ life[n] \in {"draining", "retiring"}
        <3>1. CancelNodeRetirement(n) BY <2>2, Zenon DEF TransitionNodeLifecycle
        <3>2. CASE ret.node = n /\ ret.state \in OpenRetirement
            <4>1. /\ ret' = [ret EXCEPT !.state = "cancelled"]
                  /\ item' = item \/ item' = [item EXCEPT !.state = "superseded"]
                BY <3>1, <3>2, Zenon DEF CancelNodeRetirement
            <4>2. DOMAIN ret' = {"state", "node", "gen"} /\ ret'.node = ret.node
                  /\ ret'.state \notin OpenRetirement
                BY <4>1 DEF Roles, OpenRetirement
            <4>3. IsItem(item') /\ item'.kind = item.kind BY <4>1 DEF Roles, IsItem
            <4>4. Roles' BY <1>1, <4>2, <4>3, Zenon DEF Roles
            <4>5. Draining' BY <4>2, Zenon DEF Draining
            <4> QED BY <4>4, <4>5, Zenon
        <3>3. CASE ~(ret.node = n /\ ret.state \in OpenRetirement)
            <4>1. ret' = ret /\ item' = item BY <3>1, <3>3, Zenon DEF CancelNodeRetirement
            <4>2. Roles' BY <1>1, <4>1, Zenon DEF Roles
            <4>3. Draining' BY <1>2, <3>3, <4>1, Zenon DEF Draining, Roles
            <4> QED BY <4>2, <4>3, Zenon
        <3> QED BY <3>2, <3>3, Zenon
    <2>3. CASE to # "draining" /\ life[n] \notin {"draining", "retiring"}
        <3>1. ret' = ret /\ item' = item BY <2>3, Zenon DEF TransitionNodeLifecycle
        <3>2. Roles' BY <1>1, <3>1, Zenon DEF Roles
        <3>3. Draining' BY <1>2, <2>3, <3>1, Zenon DEF Draining, Roles
        <3> QED BY <3>2, <3>3, Zenon
    <2> QED BY <2>1, <2>2, <2>3, Zenon
<1>4. \A m \in Nodes : Gone(m)' => Gone(m) \/ Empty(m)'
    <2>1. SUFFICES ASSUME NEW m \in Nodes, Gone(m)' PROVE Gone(m) \/ Empty(m)' OBVIOUS
    <2>2. CASE m # n BY <1>2, <2>1, <2>2, Zenon DEF Gone
    <2>3. CASE m = n
        <3>1. to \in {"decommissioned", "retired"} BY <1>2, <2>1, <2>3, Zenon DEF Gone
        <3>2. to \in Allowed(life[n]) BY Zenon DEF TransitionNodeLifecycle
        <3>3. to = "retired" BY <3>1, <3>2 DEF Allowed
        <3>4. Empty(n)' BY <1>1, <3>3, GoesEmpty, Zenon
        <3> QED BY <2>3, <3>4, Zenon
    <2> QED BY <2>2, <2>3, Zenon
<1>5. Shunned BY <1>1, Zenon DEF Shunned
<1>6. RetiredIsEmpty' BY <1>4, <1>5, EmptyKeeps, Zenon
<1>7. Verdicts' BY <1>1, Zenon DEF Verdicts
<1> QED BY <1>2, <1>3, <1>6, <1>7, Zenon

\* ClaimNodeRetirement and FinalizeNodeRetirement.
LEMMA EndsRet ==
    ASSUME DataInv, RetInv, ClaimNodeRetirement \/ FinalizeNodeRetirement
    PROVE  RetInv'
<1> USE DEF RetInv
<1>1. /\ home' = home /\ acct' = acct /\ wf' = wf /\ copy' = copy /\ latest' = latest
      /\ integ' = integ /\ item' = item
    BY Zenon DEF ClaimNodeRetirement, FinalizeNodeRetirement, rows, checks
<1>2. PICK n \in Nodes : n = ret.node BY Zenon DEF Roles
<1>3. IsItem(item') /\ DOMAIN ret = {"state", "node", "gen"} BY <1>1, Zenon DEF Roles
<1>4. CASE life' = life /\ ret' = ret
    <2>1. Kept BY <1>1, <1>4, RetryKept, Zenon
    <2>2. Roles' /\ Draining' BY <1>1, <1>4, <2>1, KeptRoles, Zenon DEF Roles
    <2>3. Untouched BY <1>1, Zenon DEF Untouched
    <2> QED BY <1>1, <1>4, <2>2, <2>3, CalmKeeps, Zenon DEF DataInv
<1>5. ASSUME NEW to, NEW state, life' = [life EXCEPT ![n] = to], ret' = [ret EXCEPT !.state = state],
             to \in {"draining", "retiring"} \/ (state \notin OpenRetirement /\ ~Dependent(n))
      PROVE  RetInv'
    <2>1. /\ DOMAIN life' = Nodes /\ life'[n] = to
          /\ \A m \in Nodes : m # n => life'[m] = life[m]
        BY <1>5, Zenon
    <2>2. DOMAIN ret' = {"state", "node", "gen"} /\ ret'.node = n /\ ret'.state = state
        BY <1>2, <1>3, <1>5
    <2>3. Roles' BY <1>1, <1>2, <1>3, <2>2, Zenon DEF Roles
    <2>4. Draining' BY <1>5, <2>1, <2>2, Zenon DEF Draining
    <2>5. \A m \in Nodes : Gone(m)' => Gone(m) \/ Empty(m)'
        <3>1. to \in {"draining", "retiring"} => to \notin {"decommissioned", "retired"} OBVIOUS
        <3>2. ~Dependent(n) => Empty(n)' BY <1>1, GoesEmpty, Zenon
        <3> QED BY <1>5, <2>1, <3>1, <3>2, Zenon DEF Gone
    <2>6. Shunned BY <1>1, Zenon DEF Shunned
    <2>7. RetiredIsEmpty' BY <2>5, <2>6, EmptyKeeps, Zenon
    <2>8. Verdicts' BY <1>1, Zenon DEF Verdicts
    <2> QED BY <2>1, <2>3, <2>4, <2>7, <2>8, Zenon
<1>6. CASE ClaimNodeRetirement
    <2>1. PICK state : state = IF ret.state = "verifying" THEN ret.state ELSE "migrating" BY Zenon
    <2>2. ret' = [ret EXCEPT !.state = state] BY <1>6, <2>1 DEF ClaimNodeRetirement
    <2>3. life' = [life EXCEPT ![n] = "retiring"] BY <1>2, <1>6, Zenon DEF ClaimNodeRetirement
    <2>4. "retiring" \in {"draining", "retiring"} OBVIOUS
    <2> QED BY <1>5, <2>2, <2>3, <2>4, Zenon
<1>7. CASE FinalizeNodeRetirement
    <2>1. \/ life' = life /\ ret' = ret
          \/ /\ life' = life /\ ret' = [ret EXCEPT !.state = "blocked"]
             /\ ret.state \in {"migrating", "verifying", "blocked"}
          \/ /\ life' = [life EXCEPT ![n] = "decommissioned"] /\ ~Dependent(n)
             /\ ret' = [ret EXCEPT !.state = "decommissioned"]
        BY <1>2, <1>7, Zenon DEF FinalizeNodeRetirement
    <2>2. CASE /\ life' = life /\ ret' = [ret EXCEPT !.state = "blocked"]
               /\ ret.state \in {"migrating", "verifying", "blocked"}
        <3>1. DOMAIN ret' = {"state", "node", "gen"} /\ ret'.node = ret.node BY <1>3, <2>2
        <3>2. ret.state \in OpenRetirement BY <2>2 DEF OpenRetirement
        <3>3. Kept BY <1>1, <1>3, <3>1, <3>2, Zenon DEF Kept
        <3>4. Roles' /\ Draining' BY <1>1, <2>2, <3>3, KeptRoles, Zenon DEF Roles
        <3>5. Untouched BY <1>1, Zenon DEF Untouched
        <3> QED BY <1>1, <2>2, <3>4, <3>5, CalmKeeps, Zenon DEF DataInv
    <2>3. "decommissioned" \notin OpenRetirement BY DEF OpenRetirement
    <2> QED BY <1>4, <1>5, <2>1, <2>2, <2>3, Zenon
<1> QED BY <1>6, <1>7, Zenon

\* The steps in between: an item waits, is given a snapshot, or has been moved.
LEMMA ItemRet ==
    ASSUME Shape, RetInv,
           \/ WorkerStops \/ WaitOffline \/ DeferNodeRetirement \/ StartRetirementSnapshot
           \/ CompleteNodeRetirementHomeMigration \/ CompleteNodeRetirementReplicaItem
    PROVE  RetInv'
<1> USE DEF RetInv
<1>1. life' = life /\ latest' = latest /\ integ' = integ
    BY Zenon DEF WorkerStops, WaitOffline, DeferNodeRetirement, StartRetirementSnapshot,
                 CompleteNodeRetirementHomeMigration, CompleteNodeRetirementReplicaItem,
                 checks, retirement
<1>2. ASSUME Kept, home' = home, wf' = wf, \A m \in acct' : m \in acct,
             \A m \in Storage : copy'[m] = copy[m]
      PROVE  RetInv'
    <2>1. Roles' /\ Draining' BY <1>1, <1>2, KeptRoles, Zenon DEF Roles
    <2>2. latest.node \in Storage BY Zenon DEF Shape
    <2>3. Shunned BY <1>1, <1>2, <2>2, Zenon DEF Shunned
    <2>4. \A m \in Nodes : Gone(m)' => Gone(m) BY <1>1, Zenon DEF Gone
    <2>5. RetiredIsEmpty' BY <2>3, <2>4, EmptyKeeps, Zenon
    <2>6. Verdicts' BY <1>1, <1>2, Zenon DEF Verdicts
    <2> QED BY <1>1, <2>1, <2>5, <2>6, Zenon
<1>3. CASE WorkerStops \/ WaitOffline \/ DeferNodeRetirement
    <2>1. home' = home /\ wf' = wf /\ acct' = acct /\ copy' = copy
        BY <1>3, Zenon DEF WorkerStops, WaitOffline, DeferNodeRetirement, rows
    <2>2. \/ item' = item /\ ret' = ret
          \/ \E state, clear : RetryNodeRetirementItem(state, clear)
          \/ item' = item /\ ret.state = "migrating" /\ ret' = [ret EXCEPT !.state = "retry_wait"]
        BY <1>3, Zenon DEF WorkerStops, WaitOffline, DeferNodeRetirement
    <2>3. CASE item' = item /\ ret.state = "migrating" /\ ret' = [ret EXCEPT !.state = "retry_wait"]
        <3>1. DOMAIN ret' = {"state", "node", "gen"} /\ ret'.node = ret.node BY <2>3 DEF Roles
        <3>2. ret.state \in OpenRetirement BY <2>3 DEF OpenRetirement
        <3>3. Kept BY <2>3, <3>1, <3>2, Zenon DEF Kept, Roles
        <3> QED BY <1>2, <2>1, <3>3, Zenon
    <2> QED BY <1>2, <2>1, <2>2, <2>3, RetryKept, Zenon
<1>4. CASE StartRetirementSnapshot
    <2>1. home' = home /\ copy' = copy BY <1>4, Zenon DEF StartRetirementSnapshot
    <2>2. CASE /\ wf' = wf /\ acct' = acct
               /\ \E state, clear : RetryNodeRetirementItem(state, clear)
        BY <1>2, <2>1, <2>2, RetryKept, Zenon
    <2>3. ASSUME NEW n \in RetirementTargets, CreateRetirementSnapshot(n) PROVE RetInv'
        <3>1. /\ ret' = ret /\ ret.state = "migrating"
              /\ CreateSnapshotWorkflow(RetirementSource, n, TRUE)
              /\ item' = [item EXCEPT !.state = "snapshotting", !.flow = "running",
                                      !.target = n, !.snap = snaps + 1]
            BY <2>3, Zenon DEF CreateRetirementSnapshot, ItemTakesSnapshot
        <3>2. n \in Nodes /\ (item.kind = "authoritative_home" => n \in Compute)
            BY <2>3, Zenon DEF RetirementTargets, Nodes
        <3>3. IsItem(item') /\ item'.kind = item.kind BY <3>1, <3>2 DEF Roles, IsItem
        <3>4. Kept BY <3>1, <3>3, Zenon DEF Kept, Roles
        <3>5. Roles' /\ Draining' BY <1>1, <2>1, <3>4, KeptRoles, Zenon DEF Roles
        <3>6. ~Gone(RetirementSource)
            <4>1. CASE item.kind = "authoritative_home"
                <5>1. ret.state \in OpenRetirement BY <3>1 DEF OpenRetirement
                <5>2. life[ret.node] \in {"draining", "retiring"} BY <5>1, Zenon DEF Draining
                <5>3. ~Gone(ret.node) BY <5>2 DEF Gone
                <5> QED BY <4>1, <5>3, Zenon DEF RetirementSource
            <4>2. CASE item.kind # "authoritative_home"
                <5>1. life[home] = "active" BY <2>3, <4>2, Zenon DEF RetirementTargets
                <5>2. ~Gone(home) BY <5>1 DEF Gone
                <5> QED BY <4>2, <5>2, Zenon DEF RetirementSource
            <4> QED BY <4>1, <4>2, Zenon
        <3> QED BY <1>1, <2>1, <3>1, <3>2, <3>5, <3>6, CreateRet, Zenon
    <2> QED BY <1>4, <2>2, <2>3, Zenon DEF StartRetirementSnapshot
<1>5. CASE CompleteNodeRetirementReplicaItem
    <2>1. home' = home /\ wf' = wf BY <1>5, Zenon DEF CompleteNodeRetirementReplicaItem
    <2>2. \A m \in acct' : m \in acct BY <1>5, Zenon DEF CompleteNodeRetirementReplicaItem
    <2>3. Kept BY <1>5, RetryKept, Zenon DEF CompleteNodeRetirementReplicaItem
    <2>4. \A m \in Storage : copy'[m] = copy[m]
        <3>1. CASE copy' = copy BY <3>1, Zenon
        <3>2. CASE copy' # copy
            <4>1. PICK n \in Compute : n = ret.node
                BY <1>5, <3>2, Zenon DEF CompleteNodeRetirementReplicaItem, Roles
            <4>2. copy' = [copy EXCEPT ![n].state = IF @ = "none" THEN @ ELSE "stale"]
                BY <1>5, <3>2, <4>1, Zenon DEF CompleteNodeRetirementReplicaItem
            <4>3. DOMAIN copy = Nodes BY Zenon DEF Shape
            <4> QED BY <4>2, <4>3, RolesDiffer, Zenon DEF Nodes
        <3> QED BY <3>1, <3>2, Zenon
    <2> QED BY <1>2, <2>1, <2>2, <2>3, <2>4, Zenon
<1>6. CASE CompleteNodeRetirementHomeMigration
    <2>1. wf' = wf /\ (\A m \in acct' : m \in acct)
        BY <1>6, Zenon DEF CompleteNodeRetirementHomeMigration
    <2>2. Kept BY <1>6, RetryKept, Zenon DEF CompleteNodeRetirementHomeMigration
    <2>3. CASE home' = home /\ copy' = copy BY <1>2, <2>1, <2>2, <2>3, Zenon
    <2>4. CASE ~(home' = home /\ copy' = copy)
        <3>1. /\ home = ret.node /\ home' = item.target /\ life[item.target] = "active"
              /\ copy' = [copy EXCEPT ![ret.node].state = IF @ = "none" THEN @ ELSE "stale",
                                      ![item.target].kind = "active"]
              /\ item.kind = "authoritative_home"
            BY <1>6, <2>4, Zenon DEF CompleteNodeRetirementHomeMigration, CanMigrate
        <3>2. PICK n \in Compute : n = ret.node BY <3>1, Zenon DEF Roles
        <3>3. PICK t \in Compute : t = item.target BY <3>1, Zenon DEF Roles, IsItem
        <3>4. \A m \in Storage : copy'[m] = copy[m]
            <4>1. SUFFICES ASSUME NEW m \in Storage PROVE copy'[m] = copy[m] OBVIOUS
            <4>2. m \in Nodes /\ m # n /\ m # t BY RolesDiffer, Zenon DEF Nodes
            <4>3. copy' = [copy EXCEPT ![n].state = IF @ = "none" THEN @ ELSE "stale",
                                       ![t].kind = "active"]
                BY <3>1, <3>2, <3>3, Zenon
            <4>4. DOMAIN copy = Nodes BY Zenon DEF Shape
            <4> QED BY <4>2, <4>3, <4>4
        <3>5. ~Gone(home') BY <3>1 DEF Gone
        <3>6. Roles' /\ Draining' BY <1>1, <2>2, <3>1, <3>3, KeptRoles, Zenon
        <3>7. latest.node \in Storage BY Zenon DEF Shape
        <3>8. Shunned BY <1>1, <2>1, <3>4, <3>5, <3>7, Zenon DEF Shunned
        <3>9. \A m \in Nodes : Gone(m)' => Gone(m) BY <1>1, Zenon DEF Gone
        <3>10. RetiredIsEmpty' BY <3>8, <3>9, EmptyKeeps, Zenon
        <3>11. Verdicts' BY <1>1, <3>4, Zenon DEF Verdicts
        <3> QED BY <1>1, <3>6, <3>10, <3>11, Zenon
    <2> QED BY <2>3, <2>4, Zenon
<1> QED BY <1>3, <1>4, <1>5, <1>6, Zenon

---------------------------------------------------------------------------
(* The theorems.                                                           *)

\* The first state.
LEMMA InitInv == Init => DataInv /\ RetInv
<1> SUFFICES ASSUME Init PROVE DataInv /\ RetInv OBVIOUS
<1>1. /\ First \in Compute /\ Standby \in Compute /\ Archive \in Storage /\ Archive \in Nodes
      /\ First \in Nodes /\ Standby \notin Storage /\ Archive # Standby
    BY UpkeepAssumption, Zenon DEF Nodes
<1>2. PICK id \in {0, 1} :
         disk = [n \in Nodes |->
                   [snap |-> FirstCopy(n).snap, rotten |-> FALSE,
                    ident |-> IF n = Standby THEN id ELSE FirstCopy(n).snap]]
    BY Zenon DEF Init
<1>3. /\ copy = [n \in Nodes |-> FirstCopy(n)] /\ ops = 0 /\ jobs = {} /\ snaps = 3
      /\ task = [n \in Nodes |->
                   IF n \in Storage \ {Archive}
                   THEN [NoTask EXCEPT !.state = "pending", !.snap = 2] ELSE NoTask]
      /\ wf = [state |-> "none", source |-> First, target |-> Archive, snap |-> 0,
               retires |-> FALSE]
      /\ latest = [node |-> Archive, snap |-> 3]
    BY Zenon DEF Init
<1>4. ASSUME NEW n \in Nodes
      PROVE  /\ IsCopy(copy[n]) /\ copy[n].snap <= 3
             /\ copy[n].state \in {"none", "ready", "stale"}
             /\ IsTree(disk[n]) /\ disk[n].snap = copy[n].snap
             /\ n # Standby => disk[n].ident = copy[n].snap
    <2>1. copy[n] = FirstCopy(n) BY <1>3, Zenon
    <2>2. disk[n] = [snap |-> copy[n].snap, rotten |-> FALSE,
                     ident |-> IF n = Standby THEN id ELSE copy[n].snap]
        BY <1>2, <2>1, Zenon
    <2>3. IsCopy(copy[n]) /\ copy[n].snap <= 3 /\ copy[n].state \in {"none", "ready", "stale"}
        BY <2>1 DEF FirstCopy, NoCopy, IsCopy
    <2>4. IsTree(disk[n]) /\ disk[n].snap = copy[n].snap
          /\ (n # Standby => disk[n].ident = copy[n].snap)
        BY <1>2, <2>2, <2>3 DEF IsCopy, IsTree
    <2> QED BY <2>3, <2>4, Zenon
<1>5. ASSUME NEW n \in Nodes PROVE IsTask(task[n]) /\ task[n].snap <= 3
    BY <1>3 DEF NoTask, IsTask
<1>6. latest.node = Archive /\ latest.snap = 3 BY <1>3
<1>7. IsWorkflow(wf) /\ wf.state = "none" BY <1>1, <1>3 DEF IsWorkflow
<1>8. DOMAIN copy = Nodes /\ DOMAIN task = Nodes /\ DOMAIN disk = Nodes BY <1>2, <1>3, Zenon
<1>9. Shape
    <2>1. ops \in Nat /\ snaps \in Nat /\ latest.snap \in Nat BY <1>3, <1>6
    <2> QED BY <1>1, <1>3, <1>4, <1>5, <1>6, <1>7, <1>8, <2>1, Zenon DEF Shape
<1>10. Numbers
    <2>1. 3 <= 3 OBVIOUS
    <2>2. wf.state # "published" BY <1>7
    <2> QED BY <1>3, <1>4, <1>5, <1>6, <1>7, <2>1, <2>2, Zenon DEF Numbers, Old
<1>11. Standbys
    <2>1. SUFFICES ASSUME NEW n \in Compute
                   PROVE  copy[n].snap <= disk[n].snap /\ disk[n].snap >= copy[n].snap
        BY <1>3, Zenon DEF Standbys, Safe
    <2>2. n \in Nodes BY Zenon DEF Nodes
    <2>3. disk[n].snap = copy[n].snap /\ copy[n].snap \in Nat BY <1>4, <2>2, Zenon DEF IsCopy
    <2> QED BY <2>3
<1>12. Newest
    <2>1. copy[Archive] = [state |-> "ready", kind |-> "archive", snap |-> 3]
        BY <1>1, <1>3, Zenon DEF FirstCopy
    <2>2. copy[Archive].state = "ready" /\ copy[Archive].snap = 3 BY <2>1
    <2>3. disk[Archive].snap = 3 /\ disk[Archive].ident = 3 BY <1>1, <1>4, <2>2, Zenon
    <2>4. 3 >= 3 /\ "ready" \in {"ready", "corrupt"} OBVIOUS
    <2> QED BY <1>3, <1>6, <2>2, <2>3, <2>4, Zenon DEF Newest
<1>13. RetInv
    <2>1. /\ home = First /\ item = NoItem /\ life = [n \in Nodes |-> "active"]
          /\ ret = [state |-> "none", node |-> First, gen |-> 0]
          /\ integ = [n \in Storage |-> [state |-> "verified", kind |-> "deep"]]
        BY Zenon DEF Init
    <2>2. IsItem(item) /\ item.kind = "none" BY <1>1, <2>1 DEF NoItem, IsItem
    <2>3. DOMAIN ret = {"state", "node", "gen"} /\ ret.node = First /\ ret.state = "none" BY <2>1
    <2>4. ret.state \notin OpenRetirement /\ item.kind # "redundant_replica"
        BY <2>2, <2>3 DEF OpenRetirement
    <2>5. Roles BY <1>1, <2>1, <2>2, <2>3, <2>4, Zenon DEF Roles
    <2>6. ASSUME NEW n \in Storage PROVE DOMAIN integ[n] = {"state", "kind"} /\ copy[n].state # "corrupt"
        <3>1. n \in Nodes BY Zenon DEF Nodes
        <3>2. integ[n] = [state |-> "verified", kind |-> "deep"] BY <2>1, Zenon
        <3>3. DOMAIN integ[n] = {"state", "kind"} BY <3>2
        <3>4. copy[n].state \in {"none", "ready", "stale"} BY <1>4, <3>1, Zenon
        <3> QED BY <3>3, <3>4
    <2>7. DOMAIN integ = Storage /\ DOMAIN life = Nodes BY <2>1, Zenon
    <2>8. \A n \in Nodes : life[n] = "active" BY <2>1, Zenon
    <2>9. "active" \notin {"decommissioned", "retired"} OBVIOUS
    <2> QED BY <2>4, <2>5, <2>6, <2>7, <2>8, <2>9, Zenon
         DEF RetInv, Draining, Verdicts, RetiredIsEmpty
<1> QED BY <1>9, <1>10, <1>11, <1>12, <1>13, Zenon DEF DataInv

\* Every step keeps the retired nodes empty.
LEMMA RetStep ==
    ASSUME DataInv, RetInv, [Next]_vars
    PROVE  RetInv'
<1>1. Shape BY Zenon DEF DataInv
<1>2. CASE vars' = vars
    <2>1. /\ home' = home /\ acct' = acct /\ life' = life /\ latest' = latest /\ wf' = wf
          /\ ret' = ret /\ item' = item /\ integ' = integ /\ copy' = copy
        BY <1>2, Zenon DEF vars, rows, retirement, checks
    <2>2. Roles' /\ Draining' /\ Untouched BY <2>1, Zenon DEF RetInv, Roles, Draining, Untouched
    <2> QED BY <1>1, <2>1, <2>2, CalmKeeps, Zenon
<1>3. CASE RetirementNext
    <2>1. \/ \E n \in Nodes, to \in {"active", "maintenance", "draining", "retired"} :
                TransitionNodeLifecycle(n, to)
          \/ ClaimNodeRetirement \/ FinalizeNodeRetirement
          \/ WorkerStops \/ WaitOffline \/ DeferNodeRetirement \/ StartRetirementSnapshot
          \/ CompleteNodeRetirementHomeMigration \/ CompleteNodeRetirementReplicaItem
        BY <1>3, Zenon DEF RetirementNext, RetirementStep
    <2> QED BY <1>1, <2>1, TransitionRet, EndsRet, ItemRet, Zenon
<1>4. CASE UserNext BY <1>1, <1>4, UserRet, Zenon
<1>5. CASE SnapshotNext BY <1>1, <1>5, SnapshotRet, Zenon
<1>6. CASE CleanupNext BY <1>1, <1>6, CleanupRet, Zenon
<1>7. CASE IntegrityNext BY <1>1, <1>7, IntegrityRet, Zenon
<1> QED BY <1>2, <1>3, <1>4, <1>5, <1>6, <1>7, Zenon DEF Next

\* The copies, the commands and the retirement stay in order, whatever crashes,
\* lapses, is delivered late or is promoted.
THEOREM UpkeepInvariant == Spec => [](DataInv /\ RetInv)
<1>1. Init => DataInv /\ RetInv BY InitInv
<1>2. DataInv /\ RetInv /\ [Next]_vars => (DataInv /\ RetInv)'
    <2> SUFFICES ASSUME DataInv, RetInv, [Next]_vars PROVE DataInv' /\ RetInv' OBVIOUS
    <2>1. Roles BY Zenon DEF RetInv
    <2>2. DataInv' BY <2>1, DataStep, Zenon
    <2>3. RetInv' BY RetStep, Zenon
    <2> QED BY <2>2, <2>3, Zenon
<1> QED BY <1>1, <1>2, PTL DEF Spec

\* ReadyIsOnDisk: no deletion command, however late, replayed or abandoned,
\* reaches a hot standby or a home that is on record as ready.
THEOREM ReadyIsOnDiskTheorem == Spec => []ReadyIsOnDisk
<1>1. DataInv /\ RetInv => ReadyIsOnDisk BY Zenon DEF DataInv, Standbys, Safe, ReadyIsOnDisk
<1> QED BY <1>1, UpkeepInvariant, PTL

\* NewestArchiveKept: the archive CompleteSnapshotWorkflow recorded last, or a
\* newer one, is on its storage node's disk.
THEOREM NewestArchiveTheorem == Spec => []NewestArchiveKept
<1>1. DataInv /\ RetInv => NewestArchiveKept BY Zenon DEF DataInv, Newest, NewestArchiveKept
<1> QED BY <1>1, UpkeepInvariant, PTL

\* RetiredIsEmpty: a node that FinalizeNodeRetirement or an administrator has
\* retired is nobody's home, has no account, takes part in no workflow and holds
\* the newest archive only if that is corrupt.
THEOREM RetiredTheorem == Spec => []RetiredIsEmpty
<1>1. DataInv /\ RetInv => RetiredIsEmpty BY Zenon DEF RetInv
<1> QED BY <1>1, UpkeepInvariant, PTL
=============================================================================
